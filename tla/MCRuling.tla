----------------------------- MODULE MCRuling -----------------------------
(* Inputs of decisions about one request on one identity. *)
EXTENDS Ruling

Target ==
    [agent |-> "agent", workspace |-> "project", service |-> "cloud", identity |-> "work",
     resource |-> "zone", operation |-> "update", environment |-> "production", notBefore |-> 1,
     expiresAt |-> 2, requestLimit |-> 1, riskCeiling |-> "low"]

Memory(id, resource, asks) ==
    [id |-> id, order |-> id, scope |-> [Target EXCEPT !.resource = resource], alwaysAsk |-> asks]

Memories ==
    {{}, {Memory(1, "zone", FALSE)}, {Memory(1, "zone", TRUE)}, {Memory(1, "other", FALSE)},
     {Memory(1, "zone", FALSE), Memory(2, "zone", TRUE)}}

Found == [Unmatched EXCEPT !.identity = "work", !.level = "sole_identity"]

Asked(mode, trust, write, level, learned, active, switch, new) ==
    [mode |-> mode, agentTrust |-> trust, write |-> write, match |-> Found, scope |-> Target,
     level |-> level, readOnlyAutoAllow |-> switch, newService |-> new, identityChanged |-> new,
     newIdentity |-> new, newResource |-> new, learned |-> learned,
     active |-> IF active THEN {[id |-> 1, order |-> 1, scope |-> Target]} ELSE {},
     blockers |-> {}, isSelf |-> FALSE, words |-> {}]

Plain ==
    {Asked(mode, trust, write, level, learned, active, switch, new) :
        mode \in Modes, trust \in {"unverified", "known"}, write \in BOOLEAN, level \in Levels,
        learned \in Memories, active \in BOOLEAN, switch \in BOOLEAN, new \in BOOLEAN}

\* The inputs that are refused or asked about for other reasons.
Odd ==
    LET i == Asked("automatic", "known", FALSE, "low", {}, TRUE, TRUE, FALSE) IN
    {[i EXCEPT !.mode = "reckless"], [i EXCEPT !.blockers = {"gateway_offline"}],
     [i EXCEPT !.level = "unknown"], [i EXCEPT !.isSelf = TRUE],
     [i EXCEPT !.words = {"read", "credential"}], [i EXCEPT !.words = {"read", "vault"}],
     [i EXCEPT !.scope.resource = "*"], [i EXCEPT !.scope.workspace = Missing],
     [i EXCEPT !.match = Unmatched], [i EXCEPT !.match.needsReview = TRUE],
     [i EXCEPT !.match = [Unmatched EXCEPT !.candidates = {"work", "home"}]]}

MCInputs == Plain \cup Odd

=============================================================================
