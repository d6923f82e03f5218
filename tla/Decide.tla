------------------------------- MODULE Decide -------------------------------
(***************************************************************************)
(* The pure half of a decision: coverage of scopes (core/scope), matching  *)
(* of an identity (core/matcher), the risk level (core/risk), the list of  *)
(* forbidden operations and the table of branches (core/decision).         *)
(*                                                                         *)
(* A scope is a record with one field per dimension; the identity stands   *)
(* for the pair of identity and account label, which one row of the table  *)
(* identities holds.  A name that could not be determined is Missing.  The *)
(* words of an operation's name are given as the classes of the keyword    *)
(* lists they belong to.                                                   *)
(***************************************************************************)
EXTENDS Naturals, FiniteSets

CONSTANTS
    Missing,    \* the empty string where a name is expected
    Patterns    \* the resource values that hold a wildcard

Levels == {"low", "medium", "high"}

Environments == {"production", "non-production"}

\* scope.levelRank, risk.rank and trust.rank: an unknown level has rank 0.
Rank(level) ==
    IF level \in Levels THEN [low |-> 1, medium |-> 2, high |-> 3][level] ELSE 0

LowerOf(left, right) == IF Rank(left) <= Rank(right) THEN left ELSE right

-----------------------------------------------------------------------------
(* core/scope *)

\* Scope.Validate: all ten dimensions have a value.
Valid(s) ==
    /\ \A d \in {"agent", "workspace", "service", "identity", "resource", "operation"} :
           s[d] # Missing
    /\ s.notBefore < s.expiresAt
    /\ s.requestLimit > 0
    /\ s.environment \in Environments
    /\ Rank(s.riskCeiling) > 0

\* Scope.Covers: equal in the named dimensions, within bounds in the others;
\* a resource with a wildcard covers nothing and nothing covers it.
Covers(s, o) ==
    /\ Valid(s)
    /\ Valid(o)
    /\ s.resource \notin Patterns
    /\ o.resource \notin Patterns
    /\ \A d \in {"agent", "workspace", "service", "identity", "resource", "operation",
                 "environment"} : s[d] = o[d]
    /\ s.notBefore <= o.notBefore
    /\ o.expiresAt <= s.expiresAt
    /\ o.requestLimit <= s.requestLimit
    /\ Rank(o.riskCeiling) <= Rank(s.riskCeiling)

CoversIgnoringWindow(s, o) ==
    Covers(s, [o EXCEPT !.notBefore = s.notBefore, !.expiresAt = s.expiresAt])

-----------------------------------------------------------------------------
(* core/matcher *)

\* The levels of REQ-IDENT-002 in their order; the fifth is a manual selection.
MatchLevels == <<"workspace_binding", "resource_binding", "trust_memory", "sole_identity">>

Unmatched == [identity |-> Missing, level |-> "none", candidates |-> {}, needsReview |-> FALSE]

Hit(i, level, review) ==
    [identity |-> i, level |-> level, candidates |-> {}, needsReview |-> i \in review]

\* The first level with a candidate decides; several candidates go to the user.
\* said[k] are the identities level k names, review the ones marked needs_review.
Match(said, available, selection, review) ==
    LET matched(k) == (IF k = 4 THEN available ELSE said[k]) \cap available
        first == CHOOSE k \in 1..4 : /\ matched(k) # {}
                                     /\ \A j \in 1..(k - 1) : matched(j) = {}
    IN  IF available = {} THEN Unmatched
        ELSE IF Cardinality(matched(first)) = 1
             THEN Hit(CHOOSE i \in matched(first) : TRUE, MatchLevels[first], review)
             ELSE IF selection \in matched(first)
                  THEN Hit(selection, "manual_selection", review)
                  ELSE [Unmatched EXCEPT !.candidates = matched(first)]

Ambiguous(m) == m.candidates # {}

-----------------------------------------------------------------------------
(* core/risk *)

AtLeastMedium(baseline) == IF Rank(baseline) > Rank("medium") THEN baseline ELSE "medium"

OneLevelUp(baseline) == IF baseline = "low" THEN "medium" ELSE "high"

\* The rules that cap at high ...
CapsAtHigh(f) ==
    \/ f.destructive \/ f.permissionChange \/ f.secretAccess \/ f.billing
    \/ f.write /\ (~f.reversible \/ f.resourceCount # 1)

\* ... the ones that raise to medium ...
RaisesToMedium(f) ==
    f.write /\ (f.production \/ f.firstSeen \/ f.agentUnverified
                \/ f.deviceUntrusted \/ f.externalCommunication)

\* ... and the one that raises by one level.
RaisesByOne(f) == f.write /\ f.beyondHistory

\* What the rules that fire raise the declared level to, the declared level included.
Raised(f) ==
    {f.label} \cup {l \in Levels :
        \/ CapsAtHigh(f) /\ l = "high"
        \/ RaisesToMedium(f) /\ l = AtLeastMedium(f.label)
        \/ RaisesByOne(f) /\ l = OneLevelUp(f.label)}

\* risk.Evaluate: every rule starts from the declared level, the highest result counts.
Evaluate(f) == CHOOSE l \in Raised(f) : \A k \in Raised(f) : Rank(k) <= Rank(l)

-----------------------------------------------------------------------------
(* core/decision *)

Modes == {"cautious", "balanced", "automatic"}

\* decision.Classify: the five forbidden classes; "none" is not forbidden.
Classify(isSelf, words) ==
    IF {"read", "vault"} \subseteq words THEN "vault_export"
    ELSE IF {"read", "credential"} \subseteq words THEN "credential_request"
    ELSE IF ~isSelf THEN "none"
    ELSE IF "audit" \in words THEN "audit_disable"
    ELSE IF "privilege" \in words THEN "privilege_escalation"
    ELSE "self_configuration"

\* The conditions a mode puts on the two automatic branches.
CautiousAutoAllow(i) ==
    ~i.write /\ i.readOnlyAutoAllow /\ ~i.newService /\ ~i.identityChanged

\* Fault: the automatic mode puts its condition on reads as well.
LowRiskRuleForAll(i) ==
    /\ i.mode = "cautious" => CautiousAutoAllow(i)
    /\ i.mode = "balanced" => ~i.write
    /\ i.mode = "automatic" => ~i.newIdentity /\ ~i.newResource

LowRiskRule(i) ==
    /\ i.mode = "cautious" => CautiousAutoAllow(i)
    /\ i.mode = "balanced" => ~i.write
    /\ i.mode = "automatic" => ~i.write \/ (~i.newIdentity /\ ~i.newResource)

LearnedMediumRule(i) == i.mode = "cautious" => CautiousAutoAllow(i)

\* Fault: a memory of the same service counts as a match, whatever its scope.
CoveringGrantsOfService(i) == {g \in i.learned : g.scope.service = i.scope.service}

\* The learned and the issued grants that cover the request.  Memories come in
\* the order of their ids, leases in the order of their expiry; the first one
\* that covers is the match.
CoveringGrants(i) == {g \in i.learned : CoversIgnoringWindow(g.scope, i.scope)}

CoveringLeases(i) == {l \in i.active : CoversIgnoringWindow(l.scope, i.scope)}

FirstOf(grants) == CHOOSE g \in grants : \A h \in grants : g.order <= h.order

AsksAlways(i) == \E g \in CoveringGrants(i) : g.alwaysAsk

\* Fault: a memory that asks always does not stop a lease or another memory.
AutomatableUnasked(i) ==
    /\ ~i.match.needsReview
    /\ i.scope.resource \notin Patterns
    /\ ~(i.write /\ i.agentTrust = "unverified")

\* Fault: the status of the matched identity is not looked at.
AutomatableAnyIdentity(i) ==
    /\ i.scope.resource \notin Patterns
    /\ ~(i.write /\ i.agentTrust = "unverified")
    /\ ~AsksAlways(i)

\* Input.automatable: whether this request may pass without a human at all.
Automatable(i) ==
    /\ ~i.match.needsReview
    /\ i.scope.resource \notin Patterns
    /\ ~(i.write /\ i.agentTrust = "unverified")
    /\ ~AsksAlways(i)

\* The table of branches; the first that hits gives the verdict.
Branches(i) == <<
    [reason |-> "high_risk", verdict |-> "require_approval", hits |-> i.level = "high"],
    [reason |-> "beyond_learned_scope", verdict |-> "require_approval",
     hits |-> i.learned # {} /\ CoveringGrants(i) = {}],
    [reason |-> "identity_ambiguous", verdict |-> "require_approval",
     hits |-> Ambiguous(i.match)],
    [reason |-> "active_lease", verdict |-> "auto_allow",
     hits |-> Automatable(i) /\ i.level # "high" /\ CoveringLeases(i) # {}],
    [reason |-> "low_risk", verdict |-> "auto_allow",
     hits |-> Automatable(i) /\ i.level = "low" /\ LowRiskRule(i)],
    [reason |-> "trust_memory_match", verdict |-> "auto_allow",
     hits |-> /\ Automatable(i)
              /\ i.level = "medium"
              /\ CoveringGrants(i) # {}
              /\ LearnedMediumRule(i)],
    [reason |-> "requires_confirmation", verdict |-> "require_approval", hits |-> TRUE] >>

\* Input.blocked: the reported blockers and the ones visible in the input.
\* The branch for an identity that cannot be asked about comes after the one
\* for the scope, as in selfDetected.
Blocked(i) ==
    \/ i.mode \notin Modes
    \/ i.blockers # {}
    \/ i.scope.agent = Missing
    \/ i.scope.service = Missing
    \/ ~Valid(i.scope)
    \/ IF Ambiguous(i.match) THEN Cardinality(i.match.candidates) < 2
                             ELSE i.match.identity = Missing
    \/ i.level \notin Levels

Denied(reason) ==
    [verdict |-> "deny", reason |-> reason, memory |-> 0, lease |-> 0, confirmations |-> 0]

\* decision.RequiredConfirmations
RequiredConfirmations(mode, level) ==
    IF level = "high" /\ mode \notin {"balanced", "automatic"} THEN 2 ELSE 1

\* Input.conclude: the matched memory is reported in every branch, the matched
\* lease only where it is the reason.
Conclude(i, b) ==
    [verdict |-> b.verdict, reason |-> b.reason,
     memory |-> IF CoveringGrants(i) = {} THEN 0 ELSE FirstOf(CoveringGrants(i)).id,
     lease |-> IF b.reason = "active_lease" THEN FirstOf(CoveringLeases(i)).id ELSE 0,
     confirmations |-> IF b.verdict = "require_approval"
                       THEN RequiredConfirmations(i.mode, i.level) ELSE 0]

FirstBranch(i) ==
    CHOOSE k \in 1..7 : Branches(i)[k].hits /\ \A j \in 1..(k - 1) : ~Branches(i)[j].hits

\* decision.Decide
Decide(i) ==
    IF Blocked(i) THEN Denied("fail_closed")
    ELSE IF Classify(i.isSelf, i.words) # "none" THEN Denied("forbidden")
    ELSE Conclude(i, Branches(i)[FirstBranch(i)])

=============================================================================
