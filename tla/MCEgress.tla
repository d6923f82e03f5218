------------------------------ MODULE MCEgress ------------------------------
(***************************************************************************)
(* Egress for TLC: one request of every kind an adapter treats differently *)
(* and leases of two agents, more of them than the list shows.             *)
(***************************************************************************)
EXTENDS Egress, TLC

MCSymmetry == Permutations(Calls)

\* The second holds its placeholder twice, which a definition may.
MCCustom == {Reads("read_item", <<"items", "{item}">>),
             Reads("read_pair", <<"pairs", "{item}", "{item}">>)}
MCBlank == {"", " "}
MCDotted == {".."}
MCCutting == {"a?b"}

MCCustomBase == <<"api">>

At(service, method, path) ==
    [service |-> service, method |-> method, path |-> path, query |-> ""]
Asking(query, target) == [target EXCEPT !.query = query]
RepoAt(tail) == <<"repos", "o", "r">> \o tail

MCTargets ==
    {At("github", "POST", RepoAt(<<"issues">>)),
     Asking("a=1", At("cloudflare", "put", <<"zones", "z", "dns_records", "x">>)),
     At("openai", "GET", <<"models">>),
     At("custom", "GET", <<"pairs", "i", "k">>),
     At("custom", "GET", <<"items", "a?b">>)}

On(agent, service, method, path) ==
    LET d == CHOOSE d \in Declared[service] : d.method = method /\ MatchPath(d.path, path)
    IN  [agent |-> agent, service |-> service, operation |-> d.operation,
         resource |-> Captured(d.path, path)]

\* The fourth is for a resource whose path the adapter refuses to build.
MCScope ==
    <<On("a", "github", "POST", RepoAt(<<"issues">>)),
      On("b", "cloudflare", "PUT", <<"zones", "z", "dns_records", "x">>),
      On("b", "custom", "GET", <<"pairs", "i", "k">>),
      On("b", "custom", "GET", <<"items", "a?b">>)>>
MCLimit == <<2, 1, 1, 1>>
MCLeases == 1..4
MCAgents == {"a", "b"}
=============================================================================
