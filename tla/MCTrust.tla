------------------------------ MODULE MCTrust ------------------------------
(* A small instance of Trust. *)
EXTENDS Trust

MCNames == {"project", "cloud", "zone", "show", "update", "delete"}

MCIdentityService == [i \in Identities |-> "cloud"]

MCEnvironmentOf == [i \in Identities |-> "production"]

Ask(operation, resource, write, label) ==
    [agent |-> "agent", workspace |-> "project", service |-> "cloud", operation |-> operation,
     resource |-> resource, offered |-> TRUE, isSelf |-> FALSE, words |-> {},
     write |-> write, label |-> label, reversible |-> TRUE, destructive |-> FALSE,
     permissionChange |-> FALSE, secretAccess |-> FALSE, billing |-> FALSE,
     externalCommunication |-> FALSE, named |-> "unknown"]

\* A read and a write of low label on the same resource, and a deletion.
MCCalls ==
    {Ask("show", "zone", FALSE, "low"), Ask("update", "zone", TRUE, "low"),
     [Ask("delete", "zone", TRUE, "medium") EXCEPT !.destructive = TRUE]}

=============================================================================
