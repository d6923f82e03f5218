------------------------------- MODULE Ruling -------------------------------
(***************************************************************************)
(* decision.Decide on its own: the gateway decides one request after the   *)
(* other, each with an input from Inputs, and keeps nothing in between.    *)
(* What must hold of a single decision is an invariant; what must hold     *)
(* between two decisions, about the same request under different           *)
(* conditions, is an action property, since any input can follow any other.*)
(***************************************************************************)
EXTENDS Decide

CONSTANT Inputs     \* decision.Input

VARIABLE input

RulingInit == input \in Inputs

\* Pipeline.Handle calls Decide with whatever resolve has put together.
Handle(i) == input' = i

RulingNext == \E i \in Inputs : Handle(i)

RulingSpec == RulingInit /\ [][RulingNext]_input

-----------------------------------------------------------------------------

\* The modes from strict to loose; an unknown mode is not in the order.
Strictness(mode) ==
    IF mode \in Modes THEN [cautious |-> 1, balanced |-> 2, automatic |-> 3][mode] ELSE 0

\* The memories of i are those of j, some of them tightened.
Tightened(i, j) ==
    /\ \A g \in i.learned : \E h \in j.learned : h.scope = g.scope /\ (h.alwaysAsk => g.alwaysAsk)
    /\ \A h \in j.learned : \E g \in i.learned : h.scope = g.scope /\ (h.alwaysAsk => g.alwaysAsk)

\* i is the request of j, of the same risk, under conditions that are nowhere looser.
Stricter(i, j) ==
    /\ \A d \in {"scope", "level", "write", "isSelf", "words", "blockers"} : i[d] = j[d]
    /\ Strictness(i.mode) <= Strictness(j.mode)
    /\ i.agentTrust = j.agentTrust \/ i.agentTrust = "unverified"
    /\ i.match.identity = j.match.identity
    /\ i.match.candidates = j.match.candidates
    /\ j.match.needsReview => i.match.needsReview
    /\ Tightened(i, j)
    /\ i.active \subseteq j.active
    /\ i.readOnlyAutoAllow => j.readOnlyAutoAllow
    /\ \A fact \in {"newService", "identityChanged", "newIdentity", "newResource"} :
           j[fact] => i[fact]

\* A decision without a human has a ground: a lease that covers the request, a
\* memory that covers it, or low risk, where a write needs the automatic mode.  It
\* is never of high risk, forbidden, ambiguous, beyond what was learned, or against
\* a memory that asks always (the table of branches and its order, Input.automatable).
AutomaticIsEarned ==
    Decide(input).verdict = "auto_allow" =>
        /\ input.level # "high"
        /\ Classify(input.isSelf, input.words) = "none"
        /\ Valid(input.scope)
        /\ input.match.identity # Missing
        /\ ~input.match.needsReview
        /\ \A g \in input.learned :
               CoversIgnoringWindow(g.scope, input.scope) => ~g.alwaysAsk
        /\ input.learned # {} => CoveringGrants(input) # {}
        /\ \/ CoveringLeases(input) # {}
           \/ input.level = "medium" /\ CoveringGrants(input) # {}
           \/ input.level = "low" /\ (input.write => input.mode = "automatic")

\* Nothing that makes conditions stricter, a stricter mode above all, lets pass what
\* was asked before, and it never asks for fewer confirmations (engine.go:99,
\* REQ-DECIDE-003 AC6: the modes are monotone).
StricterNeverOpens ==
    [][Stricter(input', input) =>
        /\ Decide(input').verdict = "auto_allow" => Decide(input).verdict = "auto_allow"
        /\ Decide(input').verdict = "require_approval" /\ Decide(input).verdict = "require_approval"
               => Decide(input').confirmations >= Decide(input).confirmations]_input

=============================================================================
