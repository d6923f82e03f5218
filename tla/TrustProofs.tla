---------------------------- MODULE TrustProofs -----------------------------
(***************************************************************************)
(* Proofs about decisions and about what the gateway learns from them.     *)
(*                                                                         *)
(* First the pure half of a decision, for all inputs: coverage of scopes   *)
(* is a partial order up to the name of the risk level, more risk factors  *)
(* never lower the level, and the two laws of Ruling.                      *)
(*                                                                         *)
(* Then Trust, for every mode, any number of requests, agents, identities, *)
(* memories and calls: what passes without a human is harmless or within   *)
(* what a human allowed, a memory that asks always is heeded, and what was *)
(* learned can be traced.  Nothing is said there of the variable of Ruling.*)
(***************************************************************************)
EXTENDS Trust, Ruling, SequenceTheorems, FiniteSetTheorems, WellFoundedInduction, TLAPS

-----------------------------------------------------------------------------
(* Coverage *)

\* The three levels are ranked 1 to 3, anything else 0.
LEMMA RankIsNat ==
    /\ \A l : Rank(l) \in 0..3
    /\ \A l \in Levels : Rank(l) \in 1..3
    /\ Rank("low") = 1 /\ Rank("medium") = 2 /\ Rank("high") = 3
  BY DEF Rank, Levels

\* The dimensions that are compared by order are numbers, as in the Go struct.
Comparable(s) == s.notBefore \in Nat /\ s.expiresAt \in Nat /\ s.requestLimit \in Nat

\* Scope.Covers: every scope that Validate accepts and that holds no wildcard covers
\* itself, so that what an approval allowed can always be learned as it is.
THEOREM CoversReflexive ==
    ASSUME NEW s, Comparable(s), Valid(s), s.resource \notin Patterns
    PROVE  Covers(s, s)
  BY RankIsNat DEF Covers, Comparable

\* Scope.Covers: coverage adds up along a chain from approval to memory to request
\* without any dimension growing on the way.
THEOREM CoversTransitive ==
    ASSUME NEW s, NEW t, NEW u, Comparable(s), Comparable(t), Comparable(u),
           Covers(s, t), Covers(t, u)
    PROVE  Covers(s, u)
  BY RankIsNat DEF Covers, Comparable

\* Scope.Covers: two scopes that cover each other agree in every dimension.
THEOREM CoversAntisymmetric ==
    ASSUME NEW s, NEW t, Comparable(s), Comparable(t), Covers(s, t), Covers(t, s)
    PROVE  /\ \A d \in {"agent", "workspace", "service", "identity", "resource", "operation",
                        "environment", "notBefore", "expiresAt", "requestLimit"} : s[d] = t[d]
           /\ Rank(s.riskCeiling) = Rank(t.riskCeiling)
  BY RankIsNat DEF Covers, Comparable

-----------------------------------------------------------------------------
(* Risk *)

Declared(f) == f.label \in Levels

\* Every circumstance of f that raises the risk is one of g as well.
NoSafer(g, f) ==
    /\ \A fact \in {"write", "production", "destructive", "permissionChange", "secretAccess",
                    "billing", "externalCommunication", "firstSeen", "beyondHistory",
                    "agentUnverified", "deviceUntrusted"} : f[fact] => g[fact]
    /\ g.reversible => f.reversible
    /\ f.resourceCount # 1 => g.resourceCount # 1
    /\ Rank(f.label) <= Rank(g.label)

\* Evaluate picks a highest one of the raised levels, which exists.
LEMMA EvaluateIsHighest ==
    ASSUME NEW f, Declared(f)
    PROVE  /\ Evaluate(f) \in Raised(f)
           /\ Evaluate(f) \in Levels
           /\ \A l \in Raised(f) : Rank(l) <= Rank(Evaluate(f))
<1>1. Raised(f) \subseteq Levels /\ f.label \in Raised(f)
  BY DEF Raised, Declared
<1>2. \E l \in Raised(f) : \A k \in Raised(f) : Rank(k) <= Rank(l)
  <2>1. CASE "high" \in Raised(f)
    BY <1>1, <2>1, RankIsNat DEF Levels
  <2>2. CASE "high" \notin Raised(f) /\ "medium" \in Raised(f)
    BY <1>1, <2>2, RankIsNat DEF Levels
  <2>3. CASE "high" \notin Raised(f) /\ "medium" \notin Raised(f)
    BY <1>1, <2>3, RankIsNat DEF Levels
  <2> QED BY <2>1, <2>2, <2>3
<1> QED
  BY <1>1, <1>2 DEF Evaluate

\* risk.Evaluate: a circumstance that raises the risk, or a higher declared level,
\* never lowers the result; in particular the order of the rules does not matter.
THEOREM RiskIsMonotone ==
    ASSUME NEW f, NEW g, Declared(f), Declared(g), NoSafer(g, f)
    PROVE  Rank(Evaluate(f)) <= Rank(Evaluate(g))
<1>1. \A l \in Raised(f) : \E k \in Raised(g) : Rank(l) <= Rank(k)
  <2> SUFFICES ASSUME NEW l \in Raised(f)
               PROVE  \E k \in Raised(g) : Rank(l) <= Rank(k)
    OBVIOUS
  <2>1. CASE l = f.label
    BY <2>1 DEF Raised, NoSafer
  <2>2. CASE CapsAtHigh(f) /\ l = "high"
    <3>1. CapsAtHigh(g)
      BY <2>2 DEF CapsAtHigh, NoSafer
    <3> QED
      BY <2>2, <3>1, RankIsNat DEF Raised, Levels
  <2>3. CASE RaisesToMedium(f) /\ l = AtLeastMedium(f.label)
    <3>1. RaisesToMedium(g)
      BY <2>3 DEF RaisesToMedium, NoSafer
    <3>2. AtLeastMedium(g.label) \in Levels /\ Rank(l) <= Rank(AtLeastMedium(g.label))
      BY <2>3, RankIsNat DEF AtLeastMedium, NoSafer, Declared, Levels
    <3> QED
      BY <3>1, <3>2 DEF Raised
  <2>4. CASE RaisesByOne(f) /\ l = OneLevelUp(f.label)
    <3>1. RaisesByOne(g)
      BY <2>4 DEF RaisesByOne, NoSafer
    <3>2. OneLevelUp(g.label) \in Levels /\ Rank(l) <= Rank(OneLevelUp(g.label))
      BY <2>4, RankIsNat DEF OneLevelUp, NoSafer, Declared, Levels
    <3> QED
      BY <3>1, <3>2 DEF Raised
  <2> QED
    BY <2>1, <2>2, <2>3, <2>4 DEF Raised
<1>2. PICK k \in Raised(g) : Rank(Evaluate(f)) <= Rank(k)
  BY <1>1, EvaluateIsHighest
<1>3. Rank(k) <= Rank(Evaluate(g))
  BY EvaluateIsHighest
<1> QED
  BY <1>2, <1>3, RankIsNat

-----------------------------------------------------------------------------
(* Decisions *)

\* The branches with the verdict auto_allow.
Grounds(i) ==
    /\ Automatable(i)
    /\ i.level # "high"
    /\ i.learned # {} => CoveringGrants(i) # {}
    /\ ~Ambiguous(i.match)
    /\ \/ CoveringLeases(i) # {}
       \/ i.level = "low" /\ LowRiskRule(i)
       \/ i.level = "medium" /\ CoveringGrants(i) # {} /\ LearnedMediumRule(i)

Considered(i) == ~Blocked(i) /\ Classify(i.isSelf, i.words) = "none"

\* The table always has a first branch that hits, since the last one always does.
LEMMA FirstBranchHits ==
    ASSUME NEW i
    PROVE  /\ FirstBranch(i) \in 1..7
           /\ Branches(i)[FirstBranch(i)].hits
           /\ \A j \in 1..(FirstBranch(i) - 1) : ~Branches(i)[j].hits
<1> DEFINE H(k) == Branches(i)[k].hits
<1>1. H(7)
  BY DEF Branches
<1>2. \E k \in 1..7 : H(k) /\ \A j \in 1..(k - 1) : ~H(j)
  <2> HIDE DEF H
  <2>1. CASE H(1)  BY <2>1
  <2>2. CASE ~H(1) /\ H(2)  BY <2>2
  <2>3. CASE ~H(1) /\ ~H(2) /\ H(3)  BY <2>3
  <2>4. CASE ~H(1) /\ ~H(2) /\ ~H(3) /\ H(4)  BY <2>4
  <2>5. CASE ~H(1) /\ ~H(2) /\ ~H(3) /\ ~H(4) /\ H(5)  BY <2>5
  <2>6. CASE ~H(1) /\ ~H(2) /\ ~H(3) /\ ~H(4) /\ ~H(5) /\ H(6)  BY <2>6
  <2>7. CASE ~H(1) /\ ~H(2) /\ ~H(3) /\ ~H(4) /\ ~H(5) /\ ~H(6)  BY <1>1, <2>7
  <2> QED BY <2>1, <2>2, <2>3, <2>4, <2>5, <2>6, <2>7
<1> QED
  BY <1>2 DEF FirstBranch

\* The table, branch by branch.
LEMMA BranchTable ==
    ASSUME NEW i
    PROVE  /\ Branches(i)[1].verdict = "require_approval"
           /\ Branches(i)[2].verdict = "require_approval"
           /\ Branches(i)[3].verdict = "require_approval"
           /\ Branches(i)[4].verdict = "auto_allow"
           /\ Branches(i)[5].verdict = "auto_allow"
           /\ Branches(i)[6].verdict = "auto_allow"
           /\ Branches(i)[7].verdict = "require_approval"
           /\ Branches(i)[1].hits <=> i.level = "high"
           /\ Branches(i)[2].hits <=> i.learned # {} /\ CoveringGrants(i) = {}
           /\ Branches(i)[3].hits <=> Ambiguous(i.match)
           /\ Branches(i)[4].hits <=>
                  Automatable(i) /\ i.level # "high" /\ CoveringLeases(i) # {}
           /\ Branches(i)[5].hits <=> Automatable(i) /\ i.level = "low" /\ LowRiskRule(i)
           /\ Branches(i)[6].hits <=> /\ Automatable(i)
                                      /\ i.level = "medium"
                                      /\ CoveringGrants(i) # {}
                                      /\ LearnedMediumRule(i)
  BY DEF Branches, Ambiguous

\* The table read as a formula: a request passes exactly if it is considered at all
\* and has a ground.
LEMMA DecideByGrounds ==
    ASSUME NEW i
    PROVE  /\ Decide(i).verdict = "auto_allow" <=> Considered(i) /\ Grounds(i)
           /\ Decide(i).verdict = "require_approval" =>
                  Decide(i).confirmations = RequiredConfirmations(i.mode, i.level)
<1>1. CASE ~Considered(i)
  BY <1>1 DEF Considered, Decide, Denied
<1>2. CASE Considered(i)
  <2> DEFINE b == Branches(i)[FirstBranch(i)]
  <2>1. Decide(i) = Conclude(i, b)
    BY <1>2 DEF Considered, Decide
  <2>2. /\ Decide(i).verdict = b.verdict
        /\ b.verdict = "require_approval" =>
               Decide(i).confirmations = RequiredConfirmations(i.mode, i.level)
    BY <2>1 DEF Conclude
  <2>3. b.verdict = "auto_allow" <=> Grounds(i)
    <3>1. /\ FirstBranch(i) \in 1..7
          /\ b.hits
          /\ \A k \in 1..7 : k < FirstBranch(i) => ~Branches(i)[k].hits
      BY FirstBranchHits
    <3>2. CASE FirstBranch(i) \in {1, 2, 3}
      BY <3>1, <3>2, BranchTable DEF Grounds
    <3>3. CASE FirstBranch(i) = 4
      <4>1. /\ Branches(i)[4].hits
            /\ ~Branches(i)[1].hits /\ ~Branches(i)[2].hits /\ ~Branches(i)[3].hits
        BY <3>3, <3>1
      <4> QED
        BY <3>3, <4>1, BranchTable DEF Grounds
    <3>4. CASE FirstBranch(i) = 5
      <4>1. /\ Branches(i)[5].hits
            /\ ~Branches(i)[1].hits /\ ~Branches(i)[2].hits /\ ~Branches(i)[3].hits
            /\ ~Branches(i)[4].hits
        BY <3>4, <3>1
      <4> QED
        BY <3>4, <4>1, BranchTable DEF Grounds
    <3>5. CASE FirstBranch(i) = 6
      <4>1. /\ Branches(i)[6].hits
            /\ ~Branches(i)[1].hits /\ ~Branches(i)[2].hits /\ ~Branches(i)[3].hits
            /\ ~Branches(i)[4].hits /\ ~Branches(i)[5].hits
        BY <3>5, <3>1
      <4> QED
        BY <3>5, <4>1, BranchTable DEF Grounds
    <3>6. CASE FirstBranch(i) = 7
      <4>1. /\ Branches(i)[7].hits
            /\ ~Branches(i)[1].hits /\ ~Branches(i)[2].hits /\ ~Branches(i)[3].hits
            /\ ~Branches(i)[4].hits /\ ~Branches(i)[5].hits /\ ~Branches(i)[6].hits
        BY <3>6, <3>1
      <4> QED
        BY <3>6, <4>1, BranchTable DEF Grounds
    <3> QED
      BY <3>1, <3>2, <3>3, <3>4, <3>5, <3>6
  <2> QED
    BY <1>2, <2>2, <2>3
<1> QED
  BY <1>1, <1>2

\* Decide: whatever the input, a decision without a human has a ground and nothing
\* stands against it.
THEOREM AutomaticDecisionsAreEarned == RulingSpec => []AutomaticIsEarned
<1>1. AutomaticIsEarned
  <2> SUFFICES ASSUME Decide(input).verdict = "auto_allow"
               PROVE  AutomaticIsEarned
    BY DEF AutomaticIsEarned
  <2>1. Considered(input) /\ Grounds(input)
    BY DecideByGrounds
  <2>2. /\ Valid(input.scope)
        /\ input.mode \in Modes
        /\ Classify(input.isSelf, input.words) = "none"
        /\ input.match.identity # Missing
    BY <2>1 DEF Considered, Blocked, Grounds
  <2>3. /\ ~input.match.needsReview
        /\ \A g \in input.learned : CoversIgnoringWindow(g.scope, input.scope) => ~g.alwaysAsk
    BY <2>1 DEF Grounds, Automatable, AsksAlways, CoveringGrants
  <2>4. input.level = "low" /\ LowRiskRule(input) => (input.write => input.mode = "automatic")
    BY <2>2 DEF LowRiskRule, CautiousAutoAllow, Modes
  <2> QED
    BY <2>1, <2>2, <2>3, <2>4 DEF AutomaticIsEarned, Grounds
<1> QED
  BY <1>1, PTL DEF RulingSpec

\* Tightening changes neither whether memories exist nor whether one covers the request.
LEMMA TightenedCovers ==
    ASSUME NEW i, NEW j, Tightened(i, j), i.scope = j.scope
    PROVE  /\ i.learned # {} <=> j.learned # {}
           /\ CoveringGrants(i) # {} <=> CoveringGrants(j) # {}
           /\ AsksAlways(j) => AsksAlways(i)
<1>1. i.learned # {} <=> j.learned # {}
  BY DEF Tightened
<1>2. CoveringGrants(i) # {} <=> CoveringGrants(j) # {}
  BY DEF Tightened, CoveringGrants
<1>3. AsksAlways(j) => AsksAlways(i)
  BY DEF Tightened, CoveringGrants, AsksAlways
<1> QED
  BY <1>1, <1>2, <1>3

\* What is considered under stricter conditions is considered under the looser ones.
LEMMA StricterIsConsidered ==
    ASSUME NEW i, NEW j, Stricter(i, j), Considered(i)
    PROVE  Considered(j)
<1>1. j.mode \in Modes
  BY DEF Stricter, Considered, Blocked, Strictness, Modes
<1>2. Ambiguous(i.match) = Ambiguous(j.match)
  BY DEF Stricter, Ambiguous
<1> QED
  BY <1>1, <1>2 DEF Stricter, Considered, Blocked

\* Every ground under stricter conditions is one under the looser ones.
LEMMA StricterHasFewerGrounds ==
    ASSUME NEW i, NEW j, Stricter(i, j), Considered(i), Grounds(i)
    PROVE  Grounds(j)
<1>1. /\ i.scope = j.scope /\ i.level = j.level /\ i.write = j.write
      /\ i.agentTrust = j.agentTrust \/ i.agentTrust = "unverified"
      /\ i.match.candidates = j.match.candidates
      /\ j.match.needsReview => i.match.needsReview
      /\ Tightened(i, j)
      /\ i.active \subseteq j.active
  BY DEF Stricter
<1>2. /\ i.learned # {} <=> j.learned # {}
      /\ CoveringGrants(i) # {} <=> CoveringGrants(j) # {}
      /\ AsksAlways(j) => AsksAlways(i)
  BY <1>1, TightenedCovers
<1>3. Automatable(j)
  BY <1>1, <1>2 DEF Grounds, Automatable
<1>4. CoveringLeases(i) # {} => CoveringLeases(j) # {}
  BY <1>1 DEF CoveringLeases
<1>5. ~Ambiguous(j.match)
  BY <1>1 DEF Grounds, Ambiguous
<1>6. i.mode \in Modes /\ j.mode \in Modes /\ Strictness(i.mode) <= Strictness(j.mode)
  BY StricterIsConsidered DEF Stricter, Considered, Blocked
<1>7. /\ i.mode = "automatic" => j.mode = "automatic"
      /\ i.mode = "balanced" => j.mode \in {"balanced", "automatic"}
  BY <1>6 DEF Strictness, Modes
<1>8. CautiousAutoAllow(i) => CautiousAutoAllow(j) /\ ~j.write
  BY <1>1 DEF Stricter, CautiousAutoAllow
<1>9. LowRiskRule(i) => LowRiskRule(j)
  <2>1. CASE i.mode = "cautious"
    BY <1>8, <2>1 DEF LowRiskRule
  <2>2. CASE i.mode = "balanced"
    BY <1>1, <1>7, <2>2 DEF LowRiskRule
  <2>3. CASE i.mode = "automatic"
    BY <1>1, <1>7, <2>3 DEF LowRiskRule, Stricter
  <2> QED
    BY <1>6, <2>1, <2>2, <2>3 DEF Modes
<1>10. LearnedMediumRule(i) => LearnedMediumRule(j)
  BY <1>6, <1>7, <1>8 DEF LearnedMediumRule, Modes
<1> QED
  BY <1>1, <1>2, <1>3, <1>4, <1>5, <1>9, <1>10 DEF Grounds

\* The number of confirmations grows with the strictness of the mode.
LEMMA StricterConfirmsMore ==
    ASSUME NEW i, NEW j, Stricter(i, j)
    PROVE  RequiredConfirmations(i.mode, i.level) >= RequiredConfirmations(j.mode, j.level)
<1>1. i.level = j.level /\ Strictness(i.mode) <= Strictness(j.mode)
  BY DEF Stricter
<1>2. i.mode \in {"balanced", "automatic"} => j.mode \in {"balanced", "automatic"}
  BY <1>1 DEF Strictness, Modes
<1> QED
  BY <1>1, <1>2 DEF RequiredConfirmations

\* Decide and its three modes: of two decisions about one request of one risk, the one
\* under stricter conditions passes only if the other does and asks for at least as
\* many confirmations.
THEOREM StricterConditionsNeverOpen == RulingSpec => StricterNeverOpens
<1>1. ASSUME Stricter(input', input)
      PROVE  /\ Decide(input').verdict = "auto_allow" => Decide(input).verdict = "auto_allow"
             /\ /\ Decide(input').verdict = "require_approval"
                /\ Decide(input).verdict = "require_approval"
                => Decide(input').confirmations >= Decide(input).confirmations
  BY <1>1, DecideByGrounds, StricterIsConsidered, StricterHasFewerGrounds, StricterConfirmsMore
<1> QED
  BY <1>1, PTL DEF RulingSpec, StricterNeverOpens

-----------------------------------------------------------------------------
(* Trust: the inductive invariant *)

\* The decision engine let the request pass or asked for a human.
Ruled(r) == outcome[r].verdict \in {"auto_allow", "require_approval"}

\* The functions that TypeOK leaves open.
Shape ==
    /\ DOMAIN seen = Requests /\ DOMAIN grants = Requests /\ DOMAIN resolved = Requests
    /\ DOMAIN outcome = Requests /\ DOMAIN warned = Requests
    /\ cascade \in [step : {"idle", "revoking", "invalidating"},
                    identity : Identities \cup {Missing}, todo : SUBSET Nat]
    /\ cascade.step # "idle" => cascade.identity \in linked

\* What a request has and has not at each step.
StageOK(r) ==
    /\ pc[r] # "absent" => call[r] \in Calls
    /\ pc[r] \in {"absent", "resolving", "ruling"} =>
          outcome[r] = NoOutcome /\ lease[r].status = "none"
    /\ pc[r] = "issuing" => Passed(r)
    /\ pc[r] \in {"asked", "granting", "learning"} => outcome[r].verdict = "require_approval"
    /\ answer[r] # "none" =>
          outcome[r].verdict = "require_approval" /\ pc[r] \in {"granting", "learning", "done"}
    /\ pc[r] = "granting" => Allows(answer[r])
    /\ pc[r] = "learning" => Learns(answer[r])
    /\ Learns(answer[r]) => level[r] # "high"

\* The scope is that of the call, and the level no lower than the declared one.
ScopeOK(r) ==
    /\ pc[r] = "ruling" \/ Ruled(r) =>
          LET s == resolved[r].scope
              c == call[r]
          IN  /\ c \in Calls
              /\ Valid(s) /\ s.requestLimit = 1 /\ s.riskCeiling = c.label
              /\ s.agent = c.agent /\ s.workspace = c.workspace
              /\ s.service = c.service /\ s.operation = c.operation
    /\ Ruled(r) => level[r] \in Levels /\ (level[r] = "low" => call[r].label = "low")

\* A lease is for what passed, or for what a human allowed.
LeaseOK(r) == lease[r].status # "none" =>
    \/ Passed(r) /\ lease[r].scope = resolved[r].scope
    \/ Allows(answer[r]) /\ lease[r].scope = GrantedScope(r)

\* The memories a request has read are still what they were but for their status
\* and behaviour, and the ones it was warned of still ask.
GrantOK(r) ==
    /\ pc[r] # "ruling" => grants[r] = {}
    /\ \A g \in grants[r] :
          g.id \in DOMAIN memory /\ g.order = g.id /\ g.scope = memory[g.id].scope
    /\ \A m \in warned[r] : m \in DOMAIN memory /\ memory[m].behavior = "always_ask"

\* A request that is about to be ruled on has read every memory it was warned of.
HasRead(r) ==
    pc[r] = "ruling" /\ Cardinality(RowsOf(call[r])) <= MemoryLimit =>
        \A m \in warned[r] : Live(m) /\ m \in RowsOf(call[r]) =>
            \E g \in grants[r] : g.id = m /\ g.alwaysAsk

\* An approval is learned when it is over, and no row goes unbooked.
LearnedLast ==
    /\ \A m \in DOMAIN memory : pc[memory[m].from] = "done"
    /\ clearing \subseteq cleared

IInv ==
    /\ TypeOK
    /\ Shape
    /\ \A r \in Requests : StageOK(r) /\ ScopeOK(r) /\ LeaseOK(r)
    /\ \A r \in Requests : GrantOK(r) /\ HasRead(r)
    /\ LearnedLast
    /\ LearningIsTraceable
    /\ AlwaysAskWins
    /\ ConsentOrHarmless

-----------------------------------------------------------------------------
(* Coverage without the window *)

\* CoversIgnoringWindow by dimensions.
Within(s, o) ==
    /\ Valid(s)
    /\ s.resource \notin Patterns
    /\ \A d \in {"agent", "workspace", "service", "identity", "resource", "operation",
                 "environment"} : s[d] = o[d]
    /\ 0 < o.requestLimit /\ o.requestLimit <= s.requestLimit
    /\ 0 < Rank(o.riskCeiling) /\ Rank(o.riskCeiling) <= Rank(s.riskCeiling)

\* The two definitions agree.
LEMMA CoversByDimensions ==
    ASSUME NEW s \in Scopes, NEW o \in Scopes
    PROVE  CoversIgnoringWindow(s, o) <=> Within(s, o)
<1> DEFINE e == [o EXCEPT !.notBefore = s.notBefore, !.expiresAt = s.expiresAt]
<1>1. /\ e.notBefore = s.notBefore /\ e.expiresAt = s.expiresAt
      /\ e.requestLimit = o.requestLimit /\ e.riskCeiling = o.riskCeiling
      /\ e.agent = o.agent /\ e.workspace = o.workspace /\ e.service = o.service
      /\ e.identity = o.identity /\ e.resource = o.resource /\ e.operation = o.operation
      /\ e.environment = o.environment
  BY DEF Scopes
<1>2. /\ s.notBefore \in Nat /\ s.expiresAt \in Nat /\ s.requestLimit \in Nat
      /\ o.requestLimit \in Nat
  BY DEF Scopes
<1> HIDE DEF e
<1>3. Covers(s, e) <=> Within(s, o)
  BY <1>1, <1>2, RankIsNat DEF Covers, Within, Valid
<1> QED BY <1>3 DEF CoversIgnoringWindow, e

\* Coverage adds up whatever the windows are.
LEMMA CoverageAddsUp ==
    ASSUME NEW s \in Scopes, NEW t \in Scopes, NEW u \in Scopes,
           CoversIgnoringWindow(s, t), CoversIgnoringWindow(t, u)
    PROVE  CoversIgnoringWindow(s, u)
<1>1. Within(s, t) /\ Within(t, u)
  BY CoversByDimensions
<1>2. s.requestLimit \in Nat /\ t.requestLimit \in Nat /\ u.requestLimit \in Nat
  BY DEF Scopes
<1>3. Within(s, u)
  BY <1>1, <1>2, RankIsNat DEF Within
<1> QED BY <1>3, CoversByDimensions

-----------------------------------------------------------------------------
(* The match and the decision *)

\* The matcher names an identity it was given, or none.
LEMMA MatchNamesOne ==
    ASSUME NEW said, NEW available, NEW found, Missing \notin available
    PROVE  Match(said, available, Missing, found).identity \in available \cup {Missing}
<1> DEFINE matched(k) == (IF k = 4 THEN available ELSE said[k]) \cap available
           first == CHOOSE k \in 1..4 : /\ matched(k) # {}
                                        /\ \A j \in 1..(k - 1) : matched(j) = {}
<1>1. CASE available = {}
  BY <1>1 DEF Match, Unmatched
<1>2. CASE available # {}
  <2>1. matched(4) # {}
    BY <1>2
  <2>2. \E k \in 1..4 : matched(k) # {} /\ \A j \in 1..(k - 1) : matched(j) = {}
    <3> HIDE DEF matched
    <3>1. CASE matched(1) # {}
      BY <3>1
    <3>2. CASE matched(1) = {} /\ matched(2) # {}
      <4>1. \A j \in 1..(2 - 1) : j = 1
        OBVIOUS
      <4> QED BY <3>2, <4>1
    <3>3. CASE matched(1) = {} /\ matched(2) = {} /\ matched(3) # {}
      <4>1. \A j \in 1..(3 - 1) : j = 1 \/ j = 2
        OBVIOUS
      <4> QED BY <3>3, <4>1
    <3>4. CASE matched(1) = {} /\ matched(2) = {} /\ matched(3) = {}
      <4>1. \A j \in 1..(4 - 1) : j = 1 \/ j = 2 \/ j = 3
        OBVIOUS
      <4> QED BY <2>1, <3>4, <4>1
    <3> QED BY <3>1, <3>2, <3>3, <3>4
  <2>3. matched(first) # {}
    <3> HIDE DEF matched
    <3> QED BY <2>2
  <2>4. matched(first) \subseteq available /\ Missing \notin matched(first)
    OBVIOUS
  <2> HIDE DEF first
  <2>5. (CHOOSE x \in matched(first) : TRUE) \in available
    <3> HIDE DEF matched
    <3> QED BY <2>3, <2>4
  <2>6. Match(said, available, Missing, found) =
          IF Cardinality(matched(first)) = 1
          THEN Hit(CHOOSE x \in matched(first) : TRUE, MatchLevels[first], found)
          ELSE [Unmatched EXCEPT !.candidates = matched(first)]
    BY <1>2, <2>4 DEF Match, first
  <2> HIDE DEF matched
  <2>7. CASE Cardinality(matched(first)) = 1
    BY <2>5, <2>6, <2>7 DEF Hit
  <2>8. CASE Cardinality(matched(first)) # 1
    BY <2>6, <2>8 DEF Unmatched
  <2> QED BY <2>7, <2>8
<1> QED BY <1>1, <1>2

\* Of several grants there is a first one.
LEMMA FirstIsOne ==
    ASSUME NEW G, G # {}, \A g \in G : g.order \in Nat
    PROVE  FirstOf(G) \in G
<1> DEFINE T == {g.order : g \in G}
           Less == OpToRel(<, Nat)
<1>1. T \subseteq Nat /\ T # {}
  OBVIOUS
<1>2. PICK x \in T : \A y \in T : ~(<<y, x>> \in Less)
  BY <1>1, NatLessThanWellFounded, WFMin
<1>3. PICK g \in G : x = g.order
  OBVIOUS
<1>4. \A n, b \in Nat : n < b => <<n, b>> \in Less
  BY DEF OpToRel
<1> HIDE DEF Less
<1>5. \A h \in G : g.order <= h.order
  <2> SUFFICES ASSUME NEW h \in G PROVE g.order <= h.order
    OBVIOUS
  <2>1. h.order \in T
    OBVIOUS
  <2>2. ~(<<h.order, x>> \in Less)
    BY <1>2, <2>1
  <2>3. h.order \in Nat /\ x \in Nat
    BY <1>1, <2>1
  <2>4. ~(h.order < x)
    BY <1>4, <2>2, <2>3
  <2> QED BY <1>3, <2>3, <2>4
<1> QED BY <1>5 DEF FirstOf

\* A decision has one of three verdicts and names a memory that covers the
\* request, or none.
LEMMA DecisionNames ==
    ASSUME NEW i, \A g \in i.learned : g.order \in Nat
    PROVE  /\ Decide(i).verdict \in {"deny", "require_approval", "auto_allow"}
           /\ \/ Decide(i).memory = 0
              \/ \E g \in CoveringGrants(i) : Decide(i).memory = g.id
<1>1. CASE ~Considered(i)
  BY <1>1 DEF Considered, Decide, Denied
<1>2. CASE Considered(i)
  <2> DEFINE b == Branches(i)[FirstBranch(i)]
  <2>1. Decide(i) = Conclude(i, b)
    BY <1>2 DEF Considered, Decide
  <2>2. b.verdict \in {"require_approval", "auto_allow"}
    <3>1. FirstBranch(i) \in 1..7
      BY FirstBranchHits
    <3>2. \A k \in 1..7 : Branches(i)[k].verdict \in {"require_approval", "auto_allow"}
      BY BranchTable
    <3> QED BY <3>1, <3>2
  <2> HIDE DEF b
  <2>3. CoveringGrants(i) # {} => FirstOf(CoveringGrants(i)) \in CoveringGrants(i)
    BY FirstIsOne DEF CoveringGrants
  <2> QED BY <2>1, <2>2, <2>3 DEF Conclude
<1> QED BY <1>1, <1>2

-----------------------------------------------------------------------------
(* The rows of trust_memories *)

\* Row m of the table may change its status and its behaviour; the table may get
\* one more row.
RowKept(m) ==
    /\ m \in DOMAIN memory'
    /\ memory'[m].scope = memory[m].scope /\ memory'[m].ceiling = memory[m].ceiling
    /\ memory'[m].from = memory[m].from /\ memory'[m].expiresAt = memory[m].expiresAt
    /\ memory[m].behavior = "always_ask" => memory'[m].behavior = "always_ask"
    /\ memory'[m].status = "active" => memory[m].status = "active"

\* The row a request learns.
Lesson(r) ==
    [scope |-> resolved[r].scope,
     ceiling |-> LowerOf(level[r], resolved[r].scope.riskCeiling),
     behavior |-> IF answer[r] = "always_ask" THEN "always_ask" ELSE "auto_allow",
     status |-> "active", expiresAt |-> now + MemoryTTL, from |-> r]

\* A statement that updates one row leaves the others and their number.
LEMMA OneRow ==
    ASSUME NEW T, NEW s \in Seq(T), NEW a \in DOMAIN s, NEW row \in T
    PROVE  LET t == [s EXCEPT ![a] = row]
           IN  /\ t \in Seq(T) /\ Len(t) = Len(s) /\ DOMAIN t = DOMAIN s
               /\ t[a] = row
               /\ \A b \in DOMAIN s : b # a => t[b] = s[b]
  BY ExceptSeq

\* One that adds a row puts it behind the others.
LEMMA OneMoreRow ==
    ASSUME NEW T, NEW s \in Seq(T), NEW row \in T
    PROVE  LET t == Append(s, row)
           IN  /\ t \in Seq(T) /\ Len(t) = Len(s) + 1
               /\ DOMAIN t = DOMAIN s \cup {Len(s) + 1} /\ Len(s) + 1 \notin DOMAIN s
               /\ t[Len(s) + 1] = row
               /\ \A b \in DOMAIN s : t[b] = s[b]
<1>1. /\ Len(s) \in Nat /\ DOMAIN s = 1..Len(s)
      /\ DOMAIN Append(s, row) = 1..(Len(s) + 1)
  BY AppendProperties
<1>2. 1..(Len(s) + 1) = (1..Len(s)) \cup {Len(s) + 1} /\ Len(s) + 1 \notin 1..Len(s)
  BY <1>1
<1> QED BY <1>1, <1>2, AppendProperties

\* What a request may learn is a row of the table.
LEMMA LessonIsRow ==
    ASSUME IInv, NEW r \in Requests, MayGenerate(r)
    PROVE  Lesson(r) \in MemoryRows
<1>1. /\ resolved[r].scope \in Scopes /\ now \in Nat /\ MemoryTTL \in Nat
      /\ now + MemoryTTL \in Nat
  BY TrustAssumption DEF IInv, TypeOK
<1>2. Within(resolved[r].scope, resolved[r].scope)
  BY <1>1, CoversByDimensions DEF MayGenerate
<1>3. resolved[r].scope.riskCeiling \in Levels
  BY <1>2 DEF Within, Rank
<1>4. level[r] \in Levels
  BY DEF MayGenerate, Levels
<1>5. LowerOf(level[r], resolved[r].scope.riskCeiling) \in Levels
  BY <1>3, <1>4 DEF LowerOf
<1> QED BY <1>1, <1>5 DEF Lesson, MemoryRows

\* Every step keeps every row, and the rows stay what they are.
LEMMA RowsAreKept ==
    ASSUME IInv, [Next]_vars
    PROVE  memory' \in Seq(MemoryRows) /\ \A m \in DOMAIN memory : RowKept(m)
<1> DEFINE Kept == memory' \in Seq(MemoryRows) /\ \A b \in DOMAIN memory : RowKept(b)
<1> SUFFICES Kept
  OBVIOUS
<1> memory \in Seq(MemoryRows)
  BY DEF IInv, TypeOK
<1>0. memory' = memory => Kept
  BY DEF RowKept
<1>a. ASSUME NEW m \in DOMAIN memory, NEW row \in MemoryRows,
             memory' = [memory EXCEPT ![m] = row],
             row.scope = memory[m].scope, row.ceiling = memory[m].ceiling,
             row.from = memory[m].from, row.expiresAt = memory[m].expiresAt,
             memory[m].behavior = "always_ask" => row.behavior = "always_ask",
             row.status = "active" => memory[m].status = "active"
      PROVE  Kept
  <2>1. /\ memory' \in Seq(MemoryRows) /\ DOMAIN memory' = DOMAIN memory
        /\ memory'[m] = row /\ \A b \in DOMAIN memory : b # m => memory'[b] = memory[b]
    BY <1>a, OneRow
  <2> QED BY <1>a, <2>1 DEF RowKept
<1>b. \A m \in DOMAIN memory : memory[m] \in MemoryRows
  BY ElementOfSeq
<1> HIDE DEF Kept
<1>1. ASSUME NEW r \in Requests, NEW c \in Calls, Submit(r, c) PROVE Kept
  BY <1>0, <1>1 DEF Submit, requestVars
<1>2. ASSUME NEW r \in Requests, NEW a \in Submitted, Settle(r, a) PROVE Kept
  BY <1>0, <1>2 DEF Settle, requestVars
<1>3. ASSUME NEW r \in Requests, Resolve(r) PROVE Kept
  BY <1>0, <1>3 DEF Resolve, requestVars
<1>4. ASSUME NEW r \in Requests, Rule(r) PROVE Kept
  BY <1>0, <1>4 DEF Rule, requestVars
<1>5. ASSUME NEW r \in Requests, IssueAuto(r) PROVE Kept
  BY <1>0, <1>5 DEF IssueAuto, requestVars
<1>6. ASSUME NEW r \in Requests, Grant(r) PROVE Kept
  BY <1>0, <1>6 DEF Grant, requestVars
<1>7. ASSUME NEW r \in Requests, Learn(r) PROVE Kept
  <2>1. CASE MayGenerate(r)
    <3>1. memory' = Append(memory, Lesson(r))
      BY <1>7, <2>1 DEF Learn, Lesson
    <3>2. Lesson(r) \in MemoryRows
      BY <1>7, <2>1, LessonIsRow DEF Learn
    <3>3. /\ memory' \in Seq(MemoryRows)
          /\ \A b \in DOMAIN memory : b \in DOMAIN memory' /\ memory'[b] = memory[b]
      BY <3>1, <3>2, OneMoreRow
    <3> QED BY <3>3 DEF Kept, RowKept
  <2>2. CASE ~MayGenerate(r)
    BY <1>0, <1>7, <2>2 DEF Learn
  <2> QED BY <2>1, <2>2
<1>8. ASSUME NEW r \in Requests, LeaseEnds(r) PROVE Kept
  BY <1>0, <1>8 DEF LeaseEnds, requestVars
<1>9. ASSUME NEW r \in Requests, RevokeNext(r) PROVE Kept
  BY <1>0, <1>9 DEF RevokeNext, requestVars
<1>10. ASSUME NEW m \in DOMAIN memory, Tighten(m) PROVE Kept
  <2> DEFINE row == [memory[m] EXCEPT !.behavior = "always_ask"]
  <2>1. memory[m] \in MemoryRows
    BY <1>b
  <2>2. row \in MemoryRows
    BY <2>1 DEF MemoryRows
  <2>3. memory' = [memory EXCEPT ![m] = row]
    BY <1>10 DEF Tighten
  <2>4. /\ row.scope = memory[m].scope /\ row.ceiling = memory[m].ceiling
        /\ row.from = memory[m].from /\ row.expiresAt = memory[m].expiresAt
        /\ row.behavior = "always_ask" /\ row.status = memory[m].status
    BY <2>1 DEF MemoryRows
  <2> HIDE DEF row
  <2> QED BY <1>a, <2>2, <2>3, <2>4
<1>11. ASSUME NEW m \in DOMAIN memory, BookClearing(m) PROVE Kept
  BY <1>0, <1>11 DEF BookClearing, requestVars
<1>12. ASSUME NEW m \in DOMAIN memory, DeleteCleared(m) PROVE Kept
  <2> DEFINE row == [memory[m] EXCEPT !.status = "deleted"]
  <2>1. memory[m] \in MemoryRows
    BY <1>b
  <2>2. row \in MemoryRows
    BY <2>1 DEF MemoryRows
  <2>3. memory' = [memory EXCEPT ![m] = row] \/ memory' = memory
    BY <1>12 DEF DeleteCleared
  <2>4. /\ row.scope = memory[m].scope /\ row.ceiling = memory[m].ceiling
        /\ row.from = memory[m].from /\ row.expiresAt = memory[m].expiresAt
        /\ row.behavior = memory[m].behavior /\ row.status = "deleted"
    BY <2>1 DEF MemoryRows
  <2> HIDE DEF row
  <2> QED BY <1>0, <1>a, <2>2, <2>3, <2>4
<1>13. ASSUME NEW m \in DOMAIN memory, InvalidateNext(m) PROVE Kept
  <2> DEFINE row == [memory[m] EXCEPT !.status = "invalidated"]
  <2>1. memory[m] \in MemoryRows
    BY <1>b
  <2>2. row \in MemoryRows
    BY <2>1 DEF MemoryRows
  <2>3. memory' = [memory EXCEPT ![m] = row] \/ memory' = memory
    BY <1>13 DEF InvalidateNext
  <2>4. /\ row.scope = memory[m].scope /\ row.ceiling = memory[m].ceiling
        /\ row.from = memory[m].from /\ row.expiresAt = memory[m].expiresAt
        /\ row.behavior = memory[m].behavior /\ row.status = "invalidated"
    BY <2>1 DEF MemoryRows
  <2> HIDE DEF row
  <2> QED BY <1>0, <1>a, <2>2, <2>3, <2>4
<1>14. ASSUME NEW a \in Agents, ConfirmTrust(a) PROVE Kept
  BY <1>0, <1>14 DEF ConfirmTrust, requestVars
<1>15. ASSUME NEW i \in Identities, LinkIdentity(i) PROVE Kept
  BY <1>0, <1>15 DEF LinkIdentity, requestVars
<1>16. ASSUME NEW i \in Identities, Disconnect(i) PROVE Kept
  BY <1>0, <1>16 DEF Disconnect, requestVars
<1>17. ASSUME NEW i \in Identities, NEW healthy \in BOOLEAN, Verify(i, healthy) PROVE Kept
  BY <1>0, <1>17 DEF Verify, requestVars
<1>18. ASSUME ListMemories PROVE Kept
  BY <1>0, <1>18 DEF ListMemories, requestVars
<1>19. ASSUME MarkReview PROVE Kept
  BY <1>0, <1>19 DEF MarkReview, requestVars
<1>20. ASSUME FailCascade PROVE Kept
  BY <1>0, <1>20 DEF FailCascade, requestVars
<1>21. ASSUME Tick PROVE Kept
  BY <1>0, <1>21 DEF Tick, requestVars
<1>22. CASE UNCHANGED vars
  BY <1>0, <1>22 DEF vars
<1> QED BY <1>1, <1>2, <1>3, <1>4, <1>5, <1>6, <1>7, <1>8, <1>9, <1>10, <1>11, <1>12,
       <1>13, <1>14, <1>15, <1>16, <1>17, <1>18, <1>19, <1>20, <1>21, <1>22 DEF Next

\* A row is only added by the request it was learned from, behind the others.
LEMMA NewRow ==
    ASSUME IInv, [Next]_vars, NEW m \in DOMAIN memory', m \notin DOMAIN memory
    PROVE  \E r \in Requests : /\ Learn(r) /\ MayGenerate(r)
                               /\ memory' = Append(memory, Lesson(r))
                               /\ memory'[m] = Lesson(r) /\ m = Len(memory) + 1
<1> memory \in Seq(MemoryRows)
  BY DEF IInv, TypeOK
<1>a. \A b \in DOMAIN memory : memory[b] \in MemoryRows
  BY ElementOfSeq
<1>b. DOMAIN memory' # DOMAIN memory
  OBVIOUS
<1> DEFINE Goal == \E q \in Requests : /\ Learn(q) /\ MayGenerate(q)
                                       /\ memory' = Append(memory, Lesson(q))
                                       /\ memory'[m] = Lesson(q) /\ m = Len(memory) + 1
<1> SUFFICES Goal
  OBVIOUS
<1>c. ASSUME NEW b \in DOMAIN memory, NEW v, memory' = [memory EXCEPT ![b] = v]
      PROVE  FALSE
  BY <1>b, <1>c
<1> HIDE DEF Goal
<1>1. ASSUME NEW r \in Requests, NEW c \in Calls, Submit(r, c) PROVE Goal
  BY <1>b, <1>1 DEF Submit, requestVars
<1>2. ASSUME NEW r \in Requests, NEW a \in Submitted, Settle(r, a) PROVE Goal
  BY <1>b, <1>2 DEF Settle, requestVars
<1>3. ASSUME NEW r \in Requests, Resolve(r) PROVE Goal
  BY <1>b, <1>3 DEF Resolve, requestVars
<1>4. ASSUME NEW r \in Requests, Rule(r) PROVE Goal
  BY <1>b, <1>4 DEF Rule, requestVars
<1>5. ASSUME NEW r \in Requests, IssueAuto(r) PROVE Goal
  BY <1>b, <1>5 DEF IssueAuto, requestVars
<1>6. ASSUME NEW r \in Requests, Grant(r) PROVE Goal
  BY <1>b, <1>6 DEF Grant, requestVars
<1>7. ASSUME NEW r \in Requests, Learn(r) PROVE Goal
  <2>1. CASE MayGenerate(r)
    <3>1. memory' = Append(memory, Lesson(r))
      BY <1>7, <2>1 DEF Learn, Lesson
    <3>2. Lesson(r) \in MemoryRows
      BY <1>7, <2>1, LessonIsRow DEF Learn
    <3>3. /\ DOMAIN memory' = DOMAIN memory \cup {Len(memory) + 1}
          /\ memory'[Len(memory) + 1] = Lesson(r)
      BY <3>1, <3>2, OneMoreRow
    <3> QED BY <1>7, <2>1, <3>1, <3>3 DEF Goal
  <2>2. CASE ~MayGenerate(r)
    BY <1>b, <1>7, <2>2 DEF Learn
  <2> QED BY <2>1, <2>2
<1>8. ASSUME NEW r \in Requests, LeaseEnds(r) PROVE Goal
  BY <1>b, <1>8 DEF LeaseEnds, requestVars
<1>9. ASSUME NEW r \in Requests, RevokeNext(r) PROVE Goal
  BY <1>b, <1>9 DEF RevokeNext, requestVars
<1>10. ASSUME NEW b \in DOMAIN memory, Tighten(b) PROVE Goal
  BY <1>b, <1>c, <1>10 DEF Tighten
<1>11. ASSUME NEW b \in DOMAIN memory, BookClearing(b) PROVE Goal
  BY <1>b, <1>11 DEF BookClearing, requestVars
<1>12. ASSUME NEW b \in DOMAIN memory, DeleteCleared(b) PROVE Goal
  BY <1>b, <1>c, <1>12 DEF DeleteCleared
<1>13. ASSUME NEW b \in DOMAIN memory, InvalidateNext(b) PROVE Goal
  BY <1>b, <1>c, <1>13 DEF InvalidateNext
<1>14. ASSUME NEW a \in Agents, ConfirmTrust(a) PROVE Goal
  BY <1>b, <1>14 DEF ConfirmTrust, requestVars
<1>15. ASSUME NEW i \in Identities, LinkIdentity(i) PROVE Goal
  BY <1>b, <1>15 DEF LinkIdentity, requestVars
<1>16. ASSUME NEW i \in Identities, Disconnect(i) PROVE Goal
  BY <1>b, <1>16 DEF Disconnect, requestVars
<1>17. ASSUME NEW i \in Identities, NEW healthy \in BOOLEAN, Verify(i, healthy) PROVE Goal
  BY <1>b, <1>17 DEF Verify, requestVars
<1>18. ASSUME ListMemories PROVE Goal
  BY <1>b, <1>18 DEF ListMemories, requestVars
<1>19. ASSUME MarkReview PROVE Goal
  BY <1>b, <1>19 DEF MarkReview, requestVars
<1>20. ASSUME FailCascade PROVE Goal
  BY <1>b, <1>20 DEF FailCascade, requestVars
<1>21. ASSUME Tick PROVE Goal
  BY <1>b, <1>21 DEF Tick, requestVars
<1>22. CASE UNCHANGED vars
  BY <1>b, <1>22 DEF vars
<1> QED BY <1>1, <1>2, <1>3, <1>4, <1>5, <1>6, <1>7, <1>8, <1>9, <1>10, <1>11, <1>12,
       <1>13, <1>14, <1>15, <1>16, <1>17, <1>18, <1>19, <1>20, <1>21, <1>22 DEF Next

-----------------------------------------------------------------------------
(* Types, by the parts of the state that change together *)

WorldTypes ==
    /\ now \in Nat
    /\ trust \in [Agents -> {"unverified", "known"}]
    /\ linked \subseteq Identities
    /\ review \subseteq linked
    /\ cleared \subseteq DOMAIN memory
    /\ clearing \subseteq DOMAIN memory
    /\ events \in 0..MaxEvents

LeaseTypes == lease \in [Requests -> [status : {"none", "active", "closed"}, scope : Scopes]]

StepTypes ==
    /\ pc \in [Requests -> Steps]
    /\ call \in [Requests -> Calls \cup {Missing}]
    /\ level \in [Requests -> Levels \cup {"none"}]
    /\ answer \in [Requests -> Answers]

SeenTypes ==
    /\ DOMAIN seen = Requests /\ DOMAIN warned = Requests
    /\ \A r \in Requests : seen[r].identities \subseteq Identities

GrantTypes ==
    /\ DOMAIN grants = Requests
    /\ \A r \in Requests : \A g \in grants[r] : g.id \in DOMAIN memory

ScopeTypes ==
    DOMAIN resolved = Requests /\ \A r \in Requests : resolved[r].scope \in Scopes

OutcomeTypes ==
    DOMAIN outcome = Requests /\ \A r \in Requests : outcome[r].memory \in 0..Len(memory)

CascadeTypes ==
    /\ cascade \in [step : {"idle", "revoking", "invalidating"},
                    identity : Identities \cup {Missing}, todo : SUBSET Nat]
    /\ cascade.step # "idle" => cascade.identity \in linked

\* What a decision is about: the level is one of the three, and the verdict names a
\* memory the handler has read or none.
LEMMA RuledTypes ==
    ASSUME IInv, NEW r \in Requests, pc[r] = "ruling"
    PROVE  /\ InputFor(r).level \in Levels
           /\ InputFor(r).level = "low" => call[r].label = "low"
           /\ Decide(InputFor(r)).verdict \in {"deny", "require_approval", "auto_allow"}
           /\ Decide(InputFor(r)).memory \in 0..Len(memory)
           /\ Decide(InputFor(r)).memory # 0 =>
                 \E g \in grants[r] : /\ Decide(InputFor(r)).memory = g.id
                                      /\ CoversIgnoringWindow(g.scope, resolved[r].scope)
<1>1. call[r] \in CallType
  BY TrustAssumption DEF IInv, StageOK
<1>2. Declared(FactorsFor(r)) /\ FactorsFor(r).label = call[r].label
  BY <1>1 DEF FactorsFor, Declared, CallType
<1>3. /\ Evaluate(FactorsFor(r)) \in Levels
      /\ Rank(call[r].label) <= Rank(Evaluate(FactorsFor(r)))
  BY <1>2, EvaluateIsHighest DEF Raised
<1>4. /\ InputFor(r).level = Evaluate(FactorsFor(r)) /\ InputFor(r).learned = grants[r]
      /\ InputFor(r).scope = resolved[r].scope
  BY DEF InputFor
<1>5. call[r].label \in Levels
  BY <1>1 DEF CallType
<1>6. Evaluate(FactorsFor(r)) = "low" => call[r].label = "low"
  BY <1>3, <1>5, RankIsNat DEF Levels
<1>7. /\ memory \in Seq(MemoryRows)
      /\ \A g \in grants[r] : g.id \in DOMAIN memory /\ g.order = g.id
  BY DEF IInv, TypeOK, GrantOK
<1>8. Len(memory) \in Nat /\ DOMAIN memory = 1..Len(memory)
  BY <1>7, LenProperties
<1>9. \A g \in InputFor(r).learned : g.order \in Nat
  BY <1>4, <1>7, <1>8
<1>10. /\ Decide(InputFor(r)).verdict \in {"deny", "require_approval", "auto_allow"}
       /\ \/ Decide(InputFor(r)).memory = 0
          \/ \E g \in CoveringGrants(InputFor(r)) : Decide(InputFor(r)).memory = g.id
  BY <1>9, DecisionNames
<1>11. \A g \in CoveringGrants(InputFor(r)) :
           g \in grants[r] /\ CoversIgnoringWindow(g.scope, resolved[r].scope)
  BY <1>4 DEF CoveringGrants
<1> QED BY <1>3, <1>4, <1>6, <1>7, <1>8, <1>10, <1>11

\* TypeOK and Shape are preserved by every step.
LEMMA TypeStep ==
    ASSUME IInv, [Next]_vars
    PROVE  TypeOK' /\ Shape'
<1>a. /\ WorldTypes /\ LeaseTypes /\ StepTypes /\ SeenTypes /\ GrantTypes /\ ScopeTypes
      /\ OutcomeTypes /\ CascadeTypes /\ memory \in Seq(MemoryRows)
  BY DEF IInv, TypeOK, Shape, WorldTypes, LeaseTypes, StepTypes, SeenTypes, GrantTypes,
         ScopeTypes, OutcomeTypes, CascadeTypes
<1>b. memory' \in Seq(MemoryRows) /\ DOMAIN memory \subseteq DOMAIN memory'
  BY RowsAreKept DEF RowKept
<1>c. /\ Len(memory) \in Nat /\ DOMAIN memory = 1..Len(memory)
      /\ Len(memory') \in Nat /\ DOMAIN memory' = 1..Len(memory')
  BY <1>a, <1>b, LenProperties
<1>d. 0..Len(memory) \subseteq 0..Len(memory')
  <2>1. CASE Len(memory) = 0
    BY <1>c, <2>1
  <2>2. CASE Len(memory) # 0
    <3>1. Len(memory) \in DOMAIN memory
      BY <1>c, <2>2
    <3>2. Len(memory) \in 1..Len(memory')
      BY <1>b, <1>c, <3>1
    <3> QED BY <1>c, <3>2
  <2> QED BY <2>1, <2>2
<1>e. /\ LeaseDuration \in Nat /\ MaxEvents \in Nat /\ TaskRequestLimit \in Nat
      /\ Calls \subseteq CallType /\ Submitted \subseteq Answers
      /\ Missing \notin Identities
  BY TrustAssumption
<1> DEFINE Goal == /\ WorldTypes' /\ LeaseTypes' /\ StepTypes' /\ SeenTypes' /\ GrantTypes'
                   /\ ScopeTypes' /\ OutcomeTypes' /\ CascadeTypes'
<1> SUFFICES Goal
  BY <1>b DEF TypeOK, Shape, WorldTypes, LeaseTypes, StepTypes, SeenTypes, GrantTypes,
              ScopeTypes, OutcomeTypes, CascadeTypes
<1>f. /\ UNCHANGED <<now, trust, linked, review, cleared, clearing, events>> => WorldTypes'
      /\ UNCHANGED lease => LeaseTypes'
      /\ UNCHANGED <<pc, call, level, answer>> => StepTypes'
      /\ UNCHANGED <<seen, warned>> => SeenTypes'
      /\ UNCHANGED grants => GrantTypes'
      /\ UNCHANGED resolved => ScopeTypes'
      /\ UNCHANGED outcome => OutcomeTypes'
      /\ UNCHANGED <<cascade, linked>> => CascadeTypes'
  <2>1. UNCHANGED <<now, trust, linked, review, cleared, clearing, events>> => WorldTypes'
    BY <1>a, <1>b DEF WorldTypes
  <2>2. /\ UNCHANGED lease => LeaseTypes'
        /\ UNCHANGED <<pc, call, level, answer>> => StepTypes'
        /\ UNCHANGED <<seen, warned>> => SeenTypes'
    BY <1>a DEF LeaseTypes, StepTypes, SeenTypes
  <2>3. UNCHANGED grants => GrantTypes'
    BY <1>a, <1>b DEF GrantTypes
  <2>4. UNCHANGED resolved => ScopeTypes'
    BY <1>a DEF ScopeTypes
  <2>5. UNCHANGED outcome => OutcomeTypes'
    BY <1>a, <1>d DEF OutcomeTypes
  <2>6. UNCHANGED <<cascade, linked>> => CascadeTypes'
    BY <1>a DEF CascadeTypes
  <2> QED BY <2>1, <2>2, <2>3, <2>4, <2>5, <2>6
<1> HIDE DEF Goal
<1>1. ASSUME NEW r \in Requests, NEW c \in Calls, Submit(r, c) PROVE Goal
  <2>1. StepTypes'
    BY <1>a, <1>1 DEF Submit, StepTypes, Steps
  <2>2. SeenTypes'
    BY <1>a, <1>1 DEF Submit, SeenTypes, WorldTypes
  <2> QED BY <1>f, <1>1, <2>1, <2>2 DEF Submit, requestVars, clearVars, identityVars, cascadeVars, Goal
<1>2. ASSUME NEW r \in Requests, NEW a \in Submitted, Settle(r, a) PROVE Goal
  <2>1. StepTypes'
    BY <1>a, <1>e, <1>2 DEF Settle, StepTypes, Steps
  <2> QED BY <1>f, <1>2, <2>1 DEF Settle, requestVars, clearVars, identityVars, cascadeVars, Goal
<1>3. ASSUME NEW r \in Requests, Resolve(r) PROVE Goal
  <2> DEFINE c == call[r]
             match == Match(<<{}, {}, {memory[m].scope.identity : m \in Usable(c)}>>,
                            seen[r].identities, Missing, seen[r].review)
             scope == ScopeFor(c, match.identity, seen[r].identities)
  <2>1. StepTypes'
    BY <1>a, <1>3 DEF Resolve, FailClosed, StepTypes, Steps
  <2>2. SeenTypes'
    BY <1>a, <1>3 DEF Resolve, FailClosed, SeenTypes, NothingSeen
  <2>3. GrantTypes'
    <3>1. UNCHANGED grants \/ grants' = [grants EXCEPT ![r] = GrantsOf(Usable(c))]
      BY <1>3 DEF Resolve, FailClosed
    <3>2. \A g \in GrantsOf(Usable(c)) : g.id \in DOMAIN memory
      <4>1. Usable(c) \subseteq DOMAIN memory
        BY DEF Usable, Listed
      <4>2. \A g \in GrantsOf(Usable(c)) : g.id \in Usable(c)
        BY DEF GrantsOf
      <4> QED BY <4>1, <4>2
    <3>3. memory' = memory
      BY <1>3 DEF Resolve
    <3> QED BY <1>a, <1>f, <3>1, <3>2, <3>3 DEF GrantTypes
  <2>4. ScopeTypes'
    <3>1. \/ UNCHANGED resolved
          \/ Valid(scope) /\ resolved' = [resolved EXCEPT ![r] = [match |-> match, scope |-> scope]]
      BY <1>3 DEF Resolve, FailClosed
    <3>2. c \in CallType
      BY <1>e, <1>3 DEF IInv, StageOK, Resolve
    <3>3. match.identity \in Identities \cup {Missing}
      BY <1>a, <1>e, MatchNamesOne DEF SeenTypes
    <3>4. Valid(scope) => scope.environment \in Environments
      BY DEF Valid
    <3>5. now \in Nat /\ now + LeaseDuration \in Nat
      BY <1>a, <1>e DEF WorldTypes
    <3> HIDE DEF match
    <3>6. Valid(scope) => scope \in Scopes
      BY <3>2, <3>3, <3>4, <3>5 DEF ScopeFor, CallType, Scopes
    <3> HIDE DEF scope
    <3> QED BY <1>a, <1>f, <3>1, <3>6 DEF ScopeTypes
  <2>5. OutcomeTypes'
    BY <1>a, <1>c, <1>3 DEF Resolve, FailClosed, OutcomeTypes, Denied
  <2> QED BY <1>f, <1>3, <2>1, <2>2, <2>3, <2>4, <2>5 DEF Resolve, requestVars, clearVars,
             identityVars, cascadeVars, Goal
<1>4. ASSUME NEW r \in Requests, Rule(r) PROVE Goal
  <2> DEFINE decided == Decide(InputFor(r))
  <2>1. decided.verdict \in {"deny", "require_approval", "auto_allow"}
    BY <1>4, RuledTypes DEF Rule
  <2>2. decided.memory \in 0..Len(memory)
    BY <1>4, RuledTypes DEF Rule
  <2>3. InputFor(r).level \in Levels
    BY <1>4, RuledTypes DEF Rule
  <2> HIDE DEF decided
  <2>4. /\ \/ level' = [level EXCEPT ![r] = InputFor(r).level]
           \/ level' = level
        /\ outcome' = [outcome EXCEPT ![r] = decided] \/ outcome' = outcome
        /\ \/ pc' = [pc EXCEPT ![r] = "done"]
           \/ pc' = [pc EXCEPT ![r] = "asked"]
           \/ pc' = [pc EXCEPT ![r] = "issuing"]
    BY <1>4, <2>1 DEF Rule, decided
  <2>5. StepTypes'
    BY <1>a, <1>4, <2>3, <2>4 DEF Rule, StepTypes, Steps
  <2>6. SeenTypes' /\ GrantTypes'
    BY <1>a, <1>4 DEF Rule, SeenTypes, GrantTypes, NothingSeen
  <2>7. OutcomeTypes'
    BY <1>a, <1>4, <2>2, <2>4 DEF Rule, OutcomeTypes
  <2> QED BY <1>f, <1>4, <2>5, <2>6, <2>7 DEF Rule, identityVars, clearVars, cascadeVars, Goal
<1>5. ASSUME NEW r \in Requests, IssueAuto(r) PROVE Goal
  <2>1. StepTypes'
    BY <1>a, <1>5 DEF IssueAuto, StepTypes, Steps
  <2>2. LeaseTypes'
    BY <1>a, <1>5 DEF IssueAuto, LeaseTypes, ScopeTypes, Open
  <2> QED BY <1>f, <1>5, <2>1, <2>2 DEF IssueAuto, requestVars, clearVars, identityVars, cascadeVars, Goal
<1>6. ASSUME NEW r \in Requests, Grant(r) PROVE Goal
  <2>1. StepTypes'
    BY <1>a, <1>6 DEF Grant, StepTypes, Steps
  <2>2. GrantedScope(r) \in Scopes
    BY <1>a, <1>e DEF ScopeTypes, GrantedScope, Scopes
  <2>3. LeaseTypes'
    BY <1>a, <2>2, <1>6 DEF Grant, LeaseTypes, Open
  <2> QED BY <1>f, <1>6, <2>1, <2>2, <2>3 DEF Grant, requestVars, clearVars, identityVars, cascadeVars, Goal
<1>7. ASSUME NEW r \in Requests, Learn(r) PROVE Goal
  <2>1. StepTypes'
    BY <1>a, <1>7 DEF Learn, StepTypes, Steps
  <2> QED BY <1>f, <1>7, <2>1 DEF Learn, requestVars, clearVars, identityVars, cascadeVars, Goal
<1>8. ASSUME NEW r \in Requests, LeaseEnds(r) PROVE Goal
  <2>1. LeaseTypes'
    BY <1>a, <1>8 DEF LeaseEnds, LeaseTypes
  <2> QED BY <1>f, <1>8, <2>1 DEF LeaseEnds, requestVars, clearVars, identityVars, cascadeVars, Goal
<1>9. ASSUME NEW r \in Requests, RevokeNext(r) PROVE Goal
  <2>1. LeaseTypes'
    BY <1>a, <1>9 DEF RevokeNext, LeaseTypes
  <2>2. CascadeTypes'
    BY <1>a, <1>9 DEF RevokeNext, CascadeTypes, Idle, identityVars
  <2> QED BY <1>f, <1>9, <2>1, <2>2 DEF RevokeNext, requestVars, clearVars, identityVars, cascadeVars, Goal
<1>10. ASSUME NEW m \in DOMAIN memory, Tighten(m) PROVE Goal
  <2> QED BY <1>f, <1>10 DEF Tighten, requestVars, clearVars, identityVars, cascadeVars, Goal
<1>11. ASSUME NEW m \in DOMAIN memory, BookClearing(m) PROVE Goal
  <2>1. WorldTypes'
    BY <1>a, <1>11 DEF BookClearing, WorldTypes, identityVars, cascadeVars
  <2> QED BY <1>f, <1>11, <2>1 DEF BookClearing, requestVars, clearVars, identityVars, cascadeVars, Goal
<1>12. ASSUME NEW m \in DOMAIN memory, DeleteCleared(m) PROVE Goal
  <2>1. WorldTypes'
    BY <1>a, <1>b, <1>12 DEF DeleteCleared, WorldTypes, identityVars, cascadeVars
  <2> QED BY <1>f, <1>12, <2>1 DEF DeleteCleared, requestVars, clearVars, identityVars, cascadeVars, Goal
<1>13. ASSUME NEW m \in DOMAIN memory, InvalidateNext(m) PROVE Goal
  <2>1. CascadeTypes'
    BY <1>a, <1>13 DEF InvalidateNext, CascadeTypes, Idle, identityVars
  <2> QED BY <1>f, <1>13, <2>1 DEF InvalidateNext, requestVars, clearVars, identityVars, cascadeVars, Goal
<1>14. ASSUME NEW a \in Agents, ConfirmTrust(a) PROVE Goal
  <2>1. WorldTypes'
    BY <1>a, <1>14 DEF ConfirmTrust, WorldTypes, identityVars, cascadeVars, clearVars
  <2> QED BY <1>f, <1>14, <2>1 DEF ConfirmTrust, requestVars, clearVars, identityVars, cascadeVars, Goal
<1>15. ASSUME NEW i \in Identities, LinkIdentity(i) PROVE Goal
  <2>1. WorldTypes'
    BY <1>a, <1>15 DEF LinkIdentity, WorldTypes, identityVars, cascadeVars, clearVars
  <2>2. CascadeTypes'
    BY <1>a, <1>15 DEF LinkIdentity, CascadeTypes, cascadeVars
  <2> QED BY <1>f, <1>15, <2>1, <2>2 DEF LinkIdentity, requestVars, clearVars, identityVars, cascadeVars, Goal
<1>16. ASSUME NEW i \in Identities, Disconnect(i) PROVE Goal
  <2>1. WorldTypes'
    BY <1>a, <1>e, <1>16 DEF Disconnect, WorldTypes, identityVars, clearVars
  <2>2. CascadeTypes'
    BY <1>a, <1>16 DEF Disconnect, CascadeTypes, identityVars, Requests
  <2> QED BY <1>f, <1>16, <2>1, <2>2 DEF Disconnect, requestVars, clearVars, identityVars, cascadeVars, Goal
<1>17. ASSUME NEW i \in Identities, NEW healthy \in BOOLEAN, Verify(i, healthy) PROVE Goal
  <2>1. WorldTypes'
    BY <1>a, <1>e, <1>17 DEF Verify, WorldTypes, clearVars
  <2> QED BY <1>f, <1>17, <2>1 DEF Verify, requestVars, clearVars, identityVars, cascadeVars, Goal
<1>18. ASSUME ListMemories PROVE Goal
  <2>1. CascadeTypes'
    BY <1>a, <1>c, <1>18 DEF ListMemories, CascadeTypes, identityVars
  <2> QED BY <1>f, <1>18, <2>1 DEF ListMemories, requestVars, clearVars, identityVars, cascadeVars, Goal
<1>19. ASSUME MarkReview PROVE Goal
  <2>1. WorldTypes'
    BY <1>a, <1>19 DEF MarkReview, WorldTypes, CascadeTypes, clearVars
  <2>2. CascadeTypes'
    BY <1>a, <1>19 DEF MarkReview, CascadeTypes, Idle
  <2> QED BY <1>f, <1>19, <2>1, <2>2 DEF MarkReview, requestVars, clearVars, identityVars, cascadeVars, Goal
<1>20. ASSUME FailCascade PROVE Goal
  <2>1. CascadeTypes'
    BY <1>a, <1>20 DEF FailCascade, CascadeTypes, Idle, identityVars
  <2> QED BY <1>f, <1>20, <2>1 DEF FailCascade, requestVars, clearVars, identityVars, cascadeVars, Goal
<1>21. ASSUME Tick PROVE Goal
  <2>1. WorldTypes'
    BY <1>a, <1>e, <1>21 DEF Tick, WorldTypes, clearVars, identityVars
  <2> QED BY <1>f, <1>21, <2>1 DEF Tick, requestVars, clearVars, identityVars, cascadeVars, Goal
<1>22. CASE UNCHANGED vars
  BY <1>f, <1>22 DEF vars, requestVars, clearVars, identityVars, cascadeVars, Goal
<1> QED BY <1>1, <1>2, <1>3, <1>4, <1>5, <1>6, <1>7, <1>8, <1>9, <1>10, <1>11, <1>12,
       <1>13, <1>14, <1>15, <1>16, <1>17, <1>18, <1>19, <1>20, <1>21, <1>22 DEF Next

-----------------------------------------------------------------------------
(* The stages of a request *)

\* What is said of one request only.
Own(q) == StageOK(q) /\ ScopeOK(q) /\ LeaseOK(q)

\* Every step keeps what a request has and has not at its stage.
LEMMA StageStep ==
    ASSUME IInv, [Next]_vars, NEW q \in Requests
    PROVE  Own(q)'
<1>a. Own(q) /\ Shape
  BY DEF IInv, Own
<1>b. /\ pc \in [Requests -> Steps] /\ call \in [Requests -> Calls \cup {Missing}]
      /\ level \in [Requests -> Levels \cup {"none"}] /\ answer \in [Requests -> Answers]
      /\ lease \in [Requests -> [status : {"none", "active", "closed"}, scope : Scopes]]
      /\ DOMAIN resolved = Requests /\ DOMAIN outcome = Requests
  BY DEF IInv, TypeOK, Shape
<1>c. /\ NoOutcome.verdict = "none" /\ \A x : Denied(x).verdict = "deny"
  BY DEF NoOutcome, Denied
<1> DEFINE Same == UNCHANGED <<pc[q], call[q], level[q], answer[q], resolved[q], outcome[q]>>
<1>d. Same /\ UNCHANGED lease[q] => Own(q)'
  BY <1>a DEF Own, StageOK, ScopeOK, LeaseOK, Passed, Ruled, GrantedScope
<1>e. Same /\ lease[q].status # "none" /\ lease'[q].scope = lease[q].scope => Own(q)'
  BY <1>a DEF Own, StageOK, ScopeOK, LeaseOK, Passed, Ruled, GrantedScope
<1> HIDE DEF Same
<1>1. ASSUME NEW r \in Requests, NEW c \in Calls, Submit(r, c) PROVE Own(q)'
  <2>1. CASE q # r
    <3>1. Same /\ UNCHANGED lease[q]
      BY <1>b, <1>1, <2>1 DEF Submit, Same, FailClosed, Open
    <3> QED BY <1>d, <3>1
  <2>2. CASE q = r
    <3>1. /\ pc[q] = "absent" /\ pc'[q] = "resolving" /\ call'[q] = c /\ c \in Calls
          /\ UNCHANGED <<level[q], answer[q], resolved[q], outcome[q], lease[q]>>
      BY <1>b, <1>1, <2>2 DEF Submit
    <3> QED BY <1>a, <1>c, <3>1 DEF Own, StageOK, ScopeOK, LeaseOK, Passed, Ruled, Allows, Learns
  <2> QED BY <2>1, <2>2
<1>2. ASSUME NEW r \in Requests, NEW a \in Submitted, Settle(r, a) PROVE Own(q)'
  <2>1. CASE q # r
    <3>1. Same /\ UNCHANGED lease[q]
      BY <1>b, <1>2, <2>1 DEF Settle, Same, FailClosed, Open
    <3> QED BY <1>d, <3>1
  <2>2. CASE q = r
    <3>1. /\ pc[q] = "asked" /\ answer'[q] = a /\ (Learns(a) => level[q] # "high")
          /\ pc'[q] = IF Allows(a) THEN "granting" ELSE "done"
          /\ UNCHANGED <<call[q], level[q], resolved[q], outcome[q], lease[q]>>
      BY <1>b, <1>2, <2>2 DEF Settle
    <3>2. answer[q] = "none"
      BY <1>a, <3>1 DEF Own, StageOK
    <3>3. lease[q].status = "none" /\ outcome[q].verdict = "require_approval"
      BY <1>a, <3>1, <3>2 DEF Own, StageOK, LeaseOK, Passed, Allows
    <3>4. StageOK(q)'
      BY <1>a, <3>1, <3>3 DEF Own, StageOK, Allows, Passed
    <3>5. ScopeOK(q)' /\ LeaseOK(q)'
      BY <1>a, <3>1, <3>3 DEF Own, ScopeOK, LeaseOK, Ruled
    <3> QED BY <3>4, <3>5 DEF Own
  <2> QED BY <2>1, <2>2
<1>3. ASSUME NEW r \in Requests, Resolve(r) PROVE Own(q)'
  <2>1. CASE q # r
    <3>1. Same /\ UNCHANGED lease[q]
      BY <1>b, <1>3, <2>1 DEF Resolve, Same, FailClosed, Open
    <3> QED BY <1>d, <3>1
  <2>2. CASE q = r
    <3>1. /\ pc[q] = "resolving" /\ UNCHANGED <<call[q], level[q], answer[q], lease[q]>>
          /\ pc'[q] \in {"ruling", "done"}
          /\ pc'[q] = "done" => outcome'[q] = Denied("fail_closed")
          /\ pc'[q] = "ruling" => UNCHANGED outcome[q]
      BY <1>b, <1>3, <2>2 DEF Resolve, FailClosed
    <3>2. call[q] \in Calls /\ outcome[q] = NoOutcome /\ lease[q].status = "none"
      BY <1>a, <3>1 DEF Own, StageOK
    <3>3. answer[q] = "none"
      BY <1>a, <3>1 DEF Own, StageOK
    <3>4. pc'[q] = "ruling" =>
            \E i : /\ Valid(resolved'[q].scope)
                   /\ resolved'[q].scope = ScopeFor(call[q], i, seen[q].identities)
      <4> HAVE pc'[q] = "ruling"
      <4> DEFINE c == call[r]
                 match == Match(<<{}, {}, {memory[m].scope.identity : m \in Usable(c)}>>,
                                seen[r].identities, Missing, seen[r].review)
                 scope == ScopeFor(c, match.identity, seen[r].identities)
      <4>1. Valid(scope) /\ resolved' = [resolved EXCEPT ![r] = [match |-> match, scope |-> scope]]
        BY <1>b, <1>3, <2>2 DEF Resolve, FailClosed
      <4> HIDE DEF match
      <4>2. resolved'[q].scope = scope
        BY <1>b, <2>2, <4>1
      <4> QED BY <2>2, <4>1, <4>2
    <3>5. StageOK(q)' /\ LeaseOK(q)'
      BY <1>c, <3>1, <3>2, <3>3 DEF StageOK, LeaseOK, Passed, Allows, Learns
    <3>6. ~Ruled(q)'
      BY <1>c, <3>1, <3>2 DEF Ruled
    <3>7. ScopeOK(q)'
      <4>1. CASE pc'[q] # "ruling"
        BY <3>6, <4>1 DEF ScopeOK
      <4>2. CASE pc'[q] = "ruling"
        <5>1. PICK i : /\ Valid(resolved'[q].scope)
                       /\ resolved'[q].scope = ScopeFor(call[q], i, seen[q].identities)
          BY <3>4, <4>2
        <5>2. /\ resolved'[q].scope.requestLimit = 1
              /\ resolved'[q].scope.riskCeiling = call[q].label
              /\ resolved'[q].scope.agent = call[q].agent
              /\ resolved'[q].scope.workspace = call[q].workspace
              /\ resolved'[q].scope.service = call[q].service
              /\ resolved'[q].scope.operation = call[q].operation
          BY <5>1 DEF ScopeFor
        <5> QED BY <3>1, <3>2, <3>6, <5>1, <5>2 DEF ScopeOK
      <4> QED BY <4>1, <4>2
    <3> QED BY <3>5, <3>7 DEF Own
  <2> QED BY <2>1, <2>2
<1>4. ASSUME NEW r \in Requests, Rule(r) PROVE Own(q)'
  <2>1. CASE q # r
    <3>1. Same /\ UNCHANGED lease[q]
      BY <1>b, <1>4, <2>1 DEF Rule, Same, FailClosed, Open
    <3> QED BY <1>d, <3>1
  <2>2. CASE q = r
    <3>1. /\ pc[q] = "ruling" /\ UNCHANGED <<call[q], answer[q], lease[q], resolved[q]>>
      BY <1>b, <1>4, <2>2 DEF Rule
    <3> DEFINE decided == Decide(InputFor(q))
    <3>2. /\ InputFor(q).level \in Levels
          /\ InputFor(q).level = "low" => call[q].label = "low"
          /\ decided.verdict \in {"deny", "require_approval", "auto_allow"}
      BY <3>1, RuledTypes
    <3> HIDE DEF decided
    <3>3. \/ /\ level'[q] = InputFor(q).level
             /\ outcome'[q] = decided
             /\ pc'[q] = CASE decided.verdict = "deny" -> "done"
                           [] decided.verdict = "require_approval" -> "asked"
                           [] decided.verdict = "auto_allow" -> "issuing"
          \/ UNCHANGED <<level[q], outcome[q]>> /\ pc'[q] = "done"
      BY <1>b, <1>4, <2>2 DEF Rule, decided
    <3>4. call[q] \in Calls /\ outcome[q] = NoOutcome /\ lease[q].status = "none"
      BY <1>a, <3>1 DEF Own, StageOK
    <3>5. answer[q] = "none"
      BY <1>a, <3>1 DEF Own, StageOK
    <3>6. StageOK(q)' /\ LeaseOK(q)'
      BY <1>c, <3>1, <3>2, <3>3, <3>4, <3>5 DEF StageOK, LeaseOK, Passed, Allows, Learns
    <3>7. ScopeOK(q)'
      BY <1>a, <1>c, <3>1, <3>2, <3>3, <3>4 DEF Own, ScopeOK, Ruled
    <3> QED BY <3>6, <3>7 DEF Own
  <2> QED BY <2>1, <2>2
<1>5. ASSUME NEW r \in Requests, IssueAuto(r) PROVE Own(q)'
  <2>1. CASE q # r
    <3>1. Same /\ UNCHANGED lease[q]
      BY <1>b, <1>5, <2>1 DEF IssueAuto, Same, FailClosed, Open
    <3> QED BY <1>d, <3>1
  <2>2. CASE q = r
    <3>1. /\ pc[q] = "issuing" /\ pc'[q] = "done"
          /\ UNCHANGED <<call[q], level[q], answer[q], resolved[q], outcome[q]>>
          /\ UNCHANGED lease[q] \/ lease'[q].scope = resolved[q].scope
      BY <1>b, <1>5, <2>2 DEF IssueAuto, Open
    <3> QED BY <1>a, <3>1 DEF Own, StageOK, ScopeOK, LeaseOK, Passed, Ruled, GrantedScope
  <2> QED BY <2>1, <2>2
<1>6. ASSUME NEW r \in Requests, Grant(r) PROVE Own(q)'
  <2>1. CASE q # r
    <3>1. Same /\ UNCHANGED lease[q]
      BY <1>b, <1>6, <2>1 DEF Grant, Same, FailClosed, Open
    <3> QED BY <1>d, <3>1
  <2>2. CASE q = r
    <3>1. /\ pc[q] = "granting"
          /\ pc'[q] = "done" \/ (pc'[q] = "learning" /\ Learns(answer[q]))
          /\ UNCHANGED <<call[q], level[q], answer[q], resolved[q], outcome[q]>>
          /\ UNCHANGED lease[q] \/ lease'[q].scope = GrantedScope(q)
      BY <1>b, <1>6, <2>2 DEF Grant, Open
    <3>2. GrantedScope(q)' = GrantedScope(q)
      BY <3>1 DEF GrantedScope
    <3>3. StageOK(q)' /\ ScopeOK(q)'
      BY <1>a, <3>1 DEF Own, StageOK, ScopeOK, Passed, Ruled
    <3>4. LeaseOK(q)'
      BY <1>a, <3>1, <3>2 DEF Own, StageOK, LeaseOK, Passed
    <3> QED BY <3>3, <3>4 DEF Own
  <2> QED BY <2>1, <2>2
<1>7. ASSUME NEW r \in Requests, Learn(r) PROVE Own(q)'
  <2>1. CASE q # r
    <3>1. Same /\ UNCHANGED lease[q]
      BY <1>b, <1>7, <2>1 DEF Learn, Same, FailClosed, Open
    <3> QED BY <1>d, <3>1
  <2>2. CASE q = r
    <3>1. /\ pc[q] = "learning" /\ pc'[q] = "done"
          /\ UNCHANGED <<call[q], level[q], answer[q], resolved[q], outcome[q], lease[q]>>
      BY <1>b, <1>7, <2>2 DEF Learn
    <3> QED BY <1>a, <3>1 DEF Own, StageOK, ScopeOK, LeaseOK, Passed, Ruled, GrantedScope
  <2> QED BY <2>1, <2>2
<1>8. ASSUME NEW r \in Requests, LeaseEnds(r) PROVE Own(q)'
  <2>1. Same
    BY <1>8 DEF LeaseEnds, requestVars, Same
  <2>2. \/ UNCHANGED lease[q]
        \/ lease[q].status # "none" /\ lease'[q].scope = lease[q].scope
    BY <1>b, <1>8 DEF LeaseEnds
  <2> QED BY <1>d, <1>e, <2>1, <2>2
<1>9. ASSUME NEW r \in Requests, RevokeNext(r) PROVE Own(q)'
  <2>1. Same
    BY <1>9 DEF RevokeNext, requestVars, Same
  <2>2. \/ UNCHANGED lease[q]
        \/ lease[q].status # "none" /\ lease'[q].scope = lease[q].scope
    BY <1>b, <1>9 DEF RevokeNext
  <2> QED BY <1>d, <1>e, <2>1, <2>2
<1>10. ASSUME NEW m \in DOMAIN memory, Tighten(m) PROVE Own(q)'
  BY <1>d, <1>10 DEF Tighten, requestVars, Same
<1>11. ASSUME NEW m \in DOMAIN memory, BookClearing(m) PROVE Own(q)'
  BY <1>d, <1>11 DEF BookClearing, requestVars, Same
<1>12. ASSUME NEW m \in DOMAIN memory, DeleteCleared(m) PROVE Own(q)'
  BY <1>d, <1>12 DEF DeleteCleared, requestVars, Same
<1>13. ASSUME NEW m \in DOMAIN memory, InvalidateNext(m) PROVE Own(q)'
  BY <1>d, <1>13 DEF InvalidateNext, requestVars, Same
<1>14. ASSUME NEW a \in Agents, ConfirmTrust(a) PROVE Own(q)'
  BY <1>d, <1>14 DEF ConfirmTrust, requestVars, Same
<1>15. ASSUME NEW i \in Identities, LinkIdentity(i) PROVE Own(q)'
  BY <1>d, <1>15 DEF LinkIdentity, requestVars, Same
<1>16. ASSUME NEW i \in Identities, Disconnect(i) PROVE Own(q)'
  BY <1>d, <1>16 DEF Disconnect, requestVars, Same
<1>17. ASSUME NEW i \in Identities, NEW healthy \in BOOLEAN, Verify(i, healthy) PROVE Own(q)'
  BY <1>d, <1>17 DEF Verify, requestVars, Same
<1>18. ASSUME ListMemories PROVE Own(q)'
  BY <1>d, <1>18 DEF ListMemories, requestVars, Same
<1>19. ASSUME MarkReview PROVE Own(q)'
  BY <1>d, <1>19 DEF MarkReview, requestVars, Same
<1>20. ASSUME FailCascade PROVE Own(q)'
  BY <1>d, <1>20 DEF FailCascade, requestVars, Same
<1>21. ASSUME Tick PROVE Own(q)'
  BY <1>d, <1>21 DEF Tick, requestVars, Same
<1>22. CASE UNCHANGED vars
  BY <1>d, <1>22 DEF vars, requestVars, Same
<1> QED BY <1>1, <1>2, <1>3, <1>4, <1>5, <1>6, <1>7, <1>8, <1>9, <1>10, <1>11, <1>12,
       <1>13, <1>14, <1>15, <1>16, <1>17, <1>18, <1>19, <1>20, <1>21, <1>22 DEF Next

-----------------------------------------------------------------------------
(* What a step may do to a request *)

\* A request is what it is once it was submitted, its scope once it was resolved,
\* its decision once it was recorded and its answer once it was given.
Settled(q) ==
    /\ pc[q] # "absent" => UNCHANGED <<call[q], warned[q]>>
    /\ pc[q] # "resolving" => UNCHANGED resolved[q]
    /\ pc[q] # "ruling" => UNCHANGED level[q]
    /\ pc[q] # "asked" => UNCHANGED answer[q]
    /\ pc[q] = "done" => pc'[q] = "done"
    /\ pc[q] = "ruling" /\ pc'[q] = "ruling" => UNCHANGED grants[q]

\* The statements that put something new in a request's rows.
Fresh(q) ==
    /\ \/ UNCHANGED outcome[q]
       \/ outcome'[q] = Denied("fail_closed")
       \/ Rule(q) /\ outcome'[q] = Decide(InputFor(q)) /\ level'[q] = InputFor(q).level
    /\ \/ UNCHANGED grants[q] /\ (pc[q] # "ruling" => pc'[q] # "ruling")
                              /\ (pc[q] = "ruling" => pc'[q] = "ruling")
       \/ grants'[q] = {} /\ pc'[q] # "ruling"
       \/ Resolve(q) /\ pc'[q] = "ruling" /\ grants'[q] = GrantsOf(Usable(call[q]))
    /\ \/ UNCHANGED warned[q]
       \/ UNCHANGED memory /\ warned'[q] =
             {m \in DOMAIN memory : Live(m) /\ memory[m].behavior = "always_ask"}

\* Every step does no more than that.
LEMMA RequestStep ==
    ASSUME IInv, [Next]_vars, NEW q \in Requests
    PROVE  Settled(q) /\ Fresh(q)
<1>b. /\ pc \in [Requests -> Steps] /\ call \in [Requests -> Calls \cup {Missing}]
      /\ level \in [Requests -> Levels \cup {"none"}] /\ answer \in [Requests -> Answers]
      /\ DOMAIN resolved = Requests /\ DOMAIN outcome = Requests
      /\ DOMAIN grants = Requests /\ DOMAIN seen = Requests /\ DOMAIN warned = Requests
  BY DEF IInv, TypeOK, Shape
<1> DEFINE Same == UNCHANGED <<pc[q], call[q], level[q], answer[q], resolved[q], outcome[q],
                               grants[q], warned[q]>>
<1>d. Same => Settled(q) /\ Fresh(q)
  BY DEF Settled, Fresh
<1> HIDE DEF Same
<1>1. ASSUME NEW r \in Requests, NEW c \in Calls, Submit(r, c) PROVE Settled(q) /\ Fresh(q)
  <2>1. CASE q # r
    <3>1. Same
      BY <1>b, <1>1, <2>1 DEF Submit, Same, FailClosed
    <3> QED BY <1>d, <3>1
  <2>2. CASE q = r
    <3>1. /\ pc[q] = "absent" /\ pc'[q] = "resolving"
          /\ UNCHANGED <<level[q], answer[q], resolved[q], outcome[q], grants[q], memory>>
          /\ warned'[q] = {m \in DOMAIN memory : Live(m) /\ memory[m].behavior = "always_ask"}
      BY <1>b, <1>1, <2>2 DEF Submit
    <3> QED BY <3>1 DEF Settled, Fresh
  <2> QED BY <2>1, <2>2
<1>2. ASSUME NEW r \in Requests, NEW a \in Submitted, Settle(r, a) PROVE Settled(q) /\ Fresh(q)
  <2>1. CASE q # r
    <3>1. Same
      BY <1>b, <1>2, <2>1 DEF Settle, Same, FailClosed
    <3> QED BY <1>d, <3>1
  <2>2. CASE q = r
    <3>1. /\ pc[q] = "asked" /\ pc'[q] \in {"granting", "done"}
          /\ UNCHANGED <<call[q], level[q], resolved[q], outcome[q], grants[q], warned[q]>>
      BY <1>b, <1>2, <2>2 DEF Settle
    <3> QED BY <3>1 DEF Settled, Fresh
  <2> QED BY <2>1, <2>2
<1>3. ASSUME NEW r \in Requests, Resolve(r) PROVE Settled(q) /\ Fresh(q)
  <2>1. CASE q # r
    <3>1. Same
      BY <1>b, <1>3, <2>1 DEF Resolve, Same, FailClosed
    <3> QED BY <1>d, <3>1
  <2>2. CASE q = r
    <3>1. /\ pc[q] = "resolving" /\ UNCHANGED <<call[q], level[q], answer[q], warned[q]>>
          /\ \/ /\ pc'[q] = "ruling" /\ UNCHANGED outcome[q]
                /\ grants'[q] = GrantsOf(Usable(call[q]))
             \/ /\ pc'[q] = "done" /\ outcome'[q] = Denied("fail_closed")
                /\ UNCHANGED grants[q]
      BY <1>b, <1>3, <2>2 DEF Resolve, FailClosed
    <3> QED BY <1>3, <2>2, <3>1 DEF Settled, Fresh
  <2> QED BY <2>1, <2>2
<1>4. ASSUME NEW r \in Requests, Rule(r) PROVE Settled(q) /\ Fresh(q)
  <2>1. CASE q # r
    <3>1. Same
      BY <1>b, <1>4, <2>1 DEF Rule, Same, FailClosed
    <3> QED BY <1>d, <3>1
  <2>2. CASE q = r
    <3>1. /\ pc[q] = "ruling"
          /\ UNCHANGED <<call[q], answer[q], resolved[q], warned[q]>> /\ grants'[q] = {}
      BY <1>b, <1>4, <2>2 DEF Rule
    <3>2. Decide(InputFor(q)).verdict \in {"deny", "require_approval", "auto_allow"}
      BY <3>1, RuledTypes
    <3>3. /\ pc'[q] \in {"done", "asked", "issuing"}
          /\ \/ outcome'[q] = Decide(InputFor(q)) /\ level'[q] = InputFor(q).level
             \/ UNCHANGED outcome[q]
      BY <1>b, <1>4, <2>2, <3>2 DEF Rule
    <3> QED BY <1>4, <2>2, <3>1, <3>3 DEF Settled, Fresh
  <2> QED BY <2>1, <2>2
<1>5. ASSUME NEW r \in Requests, IssueAuto(r) PROVE Settled(q) /\ Fresh(q)
  <2>1. CASE q # r
    <3>1. Same
      BY <1>b, <1>5, <2>1 DEF IssueAuto, Same, FailClosed
    <3> QED BY <1>d, <3>1
  <2>2. CASE q = r
    <3>1. /\ pc[q] = "issuing" /\ pc'[q] \in {"done"}
          /\ UNCHANGED <<call[q], level[q], answer[q], resolved[q], outcome[q], grants[q],
                         warned[q]>>
      BY <1>b, <1>5, <2>2 DEF IssueAuto
    <3> QED BY <3>1 DEF Settled, Fresh
  <2> QED BY <2>1, <2>2
<1>6. ASSUME NEW r \in Requests, Grant(r) PROVE Settled(q) /\ Fresh(q)
  <2>1. CASE q # r
    <3>1. Same
      BY <1>b, <1>6, <2>1 DEF Grant, Same, FailClosed
    <3> QED BY <1>d, <3>1
  <2>2. CASE q = r
    <3>1. /\ pc[q] = "granting" /\ pc'[q] \in {"done", "learning"}
          /\ UNCHANGED <<call[q], level[q], answer[q], resolved[q], outcome[q], grants[q],
                         warned[q]>>
      BY <1>b, <1>6, <2>2 DEF Grant
    <3> QED BY <3>1 DEF Settled, Fresh
  <2> QED BY <2>1, <2>2
<1>7. ASSUME NEW r \in Requests, Learn(r) PROVE Settled(q) /\ Fresh(q)
  <2>1. CASE q # r
    <3>1. Same
      BY <1>b, <1>7, <2>1 DEF Learn, Same, FailClosed
    <3> QED BY <1>d, <3>1
  <2>2. CASE q = r
    <3>1. /\ pc[q] = "learning" /\ pc'[q] \in {"done"}
          /\ UNCHANGED <<call[q], level[q], answer[q], resolved[q], outcome[q], grants[q],
                         warned[q]>>
      BY <1>b, <1>7, <2>2 DEF Learn
    <3> QED BY <3>1 DEF Settled, Fresh
  <2> QED BY <2>1, <2>2
<1>8. ASSUME NEW r \in Requests, LeaseEnds(r) PROVE Settled(q) /\ Fresh(q)
  BY <1>d, <1>8 DEF LeaseEnds, requestVars, Same
<1>9. ASSUME NEW r \in Requests, RevokeNext(r) PROVE Settled(q) /\ Fresh(q)
  BY <1>d, <1>9 DEF RevokeNext, requestVars, Same
<1>10. ASSUME NEW m \in DOMAIN memory, Tighten(m) PROVE Settled(q) /\ Fresh(q)
  BY <1>d, <1>10 DEF Tighten, requestVars, Same
<1>11. ASSUME NEW m \in DOMAIN memory, BookClearing(m) PROVE Settled(q) /\ Fresh(q)
  BY <1>d, <1>11 DEF BookClearing, requestVars, Same
<1>12. ASSUME NEW m \in DOMAIN memory, DeleteCleared(m) PROVE Settled(q) /\ Fresh(q)
  BY <1>d, <1>12 DEF DeleteCleared, requestVars, Same
<1>13. ASSUME NEW m \in DOMAIN memory, InvalidateNext(m) PROVE Settled(q) /\ Fresh(q)
  BY <1>d, <1>13 DEF InvalidateNext, requestVars, Same
<1>14. ASSUME NEW a \in Agents, ConfirmTrust(a) PROVE Settled(q) /\ Fresh(q)
  BY <1>d, <1>14 DEF ConfirmTrust, requestVars, Same
<1>15. ASSUME NEW i \in Identities, LinkIdentity(i) PROVE Settled(q) /\ Fresh(q)
  BY <1>d, <1>15 DEF LinkIdentity, requestVars, Same
<1>16. ASSUME NEW i \in Identities, Disconnect(i) PROVE Settled(q) /\ Fresh(q)
  BY <1>d, <1>16 DEF Disconnect, requestVars, Same
<1>17. ASSUME NEW i \in Identities, NEW healthy \in BOOLEAN, Verify(i, healthy) PROVE Settled(q) /\ Fresh(q)
  BY <1>d, <1>17 DEF Verify, requestVars, Same
<1>18. ASSUME ListMemories PROVE Settled(q) /\ Fresh(q)
  BY <1>d, <1>18 DEF ListMemories, requestVars, Same
<1>19. ASSUME MarkReview PROVE Settled(q) /\ Fresh(q)
  BY <1>d, <1>19 DEF MarkReview, requestVars, Same
<1>20. ASSUME FailCascade PROVE Settled(q) /\ Fresh(q)
  BY <1>d, <1>20 DEF FailCascade, requestVars, Same
<1>21. ASSUME Tick PROVE Settled(q) /\ Fresh(q)
  BY <1>d, <1>21 DEF Tick, requestVars, Same
<1>22. CASE UNCHANGED vars
  BY <1>d, <1>22 DEF vars, requestVars, Same
<1> QED BY <1>1, <1>2, <1>3, <1>4, <1>5, <1>6, <1>7, <1>8, <1>9, <1>10, <1>11, <1>12,
       <1>13, <1>14, <1>15, <1>16, <1>17, <1>18, <1>19, <1>20, <1>21, <1>22 DEF Next

\* The clock does not go back, entries are not taken back, what is being cleared is
\* booked, and a row goes only when it is being cleared and nothing refers to it.
LEMMA BookedStep ==
    ASSUME IInv, [Next]_vars
    PROVE  /\ now' \in Nat /\ now <= now'
           /\ cleared \subseteq cleared' /\ clearing' \subseteq cleared'
           /\ \A b \in DOMAIN memory :
                 memory'[b].status = "deleted" /\ memory[b].status # "deleted" =>
                     b \in clearing /\ ~Referenced(b) /\ UNCHANGED outcome
<1>a. now \in Nat /\ clearing \subseteq cleared /\ memory \in Seq(MemoryRows)
  BY DEF IInv, TypeOK, LearnedLast
<1>b. now' \in Nat
  BY TypeStep DEF TypeOK
<1> DEFINE Kept == \A b \in DOMAIN memory :
                       memory'[b].status = "deleted" /\ memory[b].status # "deleted" =>
                           b \in clearing /\ ~Referenced(b) /\ UNCHANGED outcome
           Goal == /\ now <= now'
                   /\ cleared \subseteq cleared' /\ clearing' \subseteq cleared'
                   /\ Kept
<1> SUFFICES Goal
  BY <1>b
<1>c. UNCHANGED memory => Kept
  OBVIOUS
<1>d. UNCHANGED now => now <= now'
  BY <1>a
<1>e. UNCHANGED <<cleared, clearing>> => cleared \subseteq cleared' /\ clearing' \subseteq cleared'
  BY <1>a
<1>f. \A b \in DOMAIN memory : memory[b] \in MemoryRows
  BY <1>a, ElementOfSeq
<1> HIDE DEF Kept
<1>1. ASSUME NEW r \in Requests, NEW c \in Calls, Submit(r, c) PROVE Goal
  BY <1>c, <1>d, <1>e, <1>1 DEF Submit, clearVars
<1>2. ASSUME NEW r \in Requests, NEW a \in Submitted, Settle(r, a) PROVE Goal
  BY <1>c, <1>d, <1>e, <1>2 DEF Settle, clearVars
<1>3. ASSUME NEW r \in Requests, Resolve(r) PROVE Goal
  BY <1>c, <1>d, <1>e, <1>3 DEF Resolve, clearVars
<1>4. ASSUME NEW r \in Requests, Rule(r) PROVE Goal
  BY <1>c, <1>d, <1>e, <1>4 DEF Rule, clearVars
<1>5. ASSUME NEW r \in Requests, IssueAuto(r) PROVE Goal
  BY <1>c, <1>d, <1>e, <1>5 DEF IssueAuto, clearVars
<1>6. ASSUME NEW r \in Requests, Grant(r) PROVE Goal
  BY <1>c, <1>d, <1>e, <1>6 DEF Grant, clearVars
<1>7. ASSUME NEW r \in Requests, Learn(r) PROVE Goal
  <2>1. CASE MayGenerate(r)
    <3>1. memory' = Append(memory, Lesson(r))
      BY <1>7, <2>1 DEF Learn, Lesson
    <3>2. Lesson(r) \in MemoryRows
      BY <1>7, <2>1, LessonIsRow DEF Learn
    <3>3. \A b \in DOMAIN memory : memory'[b] = memory[b]
      BY <1>a, <3>1, <3>2, OneMoreRow
    <3>4. Kept
      BY <3>3 DEF Kept
    <3> QED BY <1>d, <1>e, <1>7, <3>4 DEF Learn, clearVars
  <2>2. CASE ~MayGenerate(r)
    BY <1>c, <1>d, <1>e, <1>7, <2>2 DEF Learn, clearVars
  <2> QED BY <2>1, <2>2
<1>8. ASSUME NEW r \in Requests, LeaseEnds(r) PROVE Goal
  BY <1>c, <1>d, <1>e, <1>8 DEF LeaseEnds, clearVars
<1>9. ASSUME NEW r \in Requests, RevokeNext(r) PROVE Goal
  BY <1>c, <1>d, <1>e, <1>9 DEF RevokeNext, clearVars
<1>10. ASSUME NEW m \in DOMAIN memory, Tighten(m) PROVE Goal
  <2>1. /\ DOMAIN memory' = DOMAIN memory
        /\ \A b \in DOMAIN memory : memory'[b].status = memory[b].status
    BY <1>f, <1>10 DEF Tighten, MemoryRows
  <2>2. Kept
    BY <2>1 DEF Kept
  <2> QED BY <1>d, <1>e, <1>10, <2>2 DEF Tighten, clearVars
<1>11. ASSUME NEW m \in DOMAIN memory, BookClearing(m) PROVE Goal
  BY <1>a, <1>c, <1>d, <1>11 DEF BookClearing
<1>12. ASSUME NEW m \in DOMAIN memory, DeleteCleared(m) PROVE Goal
  <2>1. /\ UNCHANGED outcome /\ m \in clearing
        /\ \/ UNCHANGED memory
           \/ /\ ~Referenced(m)
              /\ \A b \in DOMAIN memory : b # m => memory'[b] = memory[b]
    BY <1>12 DEF DeleteCleared, requestVars
  <2>2. Kept
    BY <1>c, <2>1 DEF Kept
  <2>3. cleared \subseteq cleared' /\ clearing' \subseteq cleared'
    BY <1>a, <1>12 DEF DeleteCleared
  <2> QED BY <1>d, <1>12, <2>2, <2>3 DEF DeleteCleared
<1>13. ASSUME NEW m \in DOMAIN memory, InvalidateNext(m) PROVE Goal
  <2>1. \A b \in DOMAIN memory : \/ memory'[b].status = memory[b].status
                                 \/ memory'[b].status = "invalidated"
    BY <1>f, <1>13 DEF InvalidateNext, MemoryRows
  <2>2. Kept
    BY <2>1 DEF Kept
  <2> QED BY <1>d, <1>e, <1>13, <2>2 DEF InvalidateNext, clearVars
<1>14. ASSUME NEW a \in Agents, ConfirmTrust(a) PROVE Goal
  BY <1>c, <1>d, <1>e, <1>14 DEF ConfirmTrust, clearVars
<1>15. ASSUME NEW i \in Identities, LinkIdentity(i) PROVE Goal
  BY <1>c, <1>d, <1>e, <1>15 DEF LinkIdentity, clearVars
<1>16. ASSUME NEW i \in Identities, Disconnect(i) PROVE Goal
  BY <1>c, <1>d, <1>e, <1>16 DEF Disconnect, clearVars
<1>17. ASSUME NEW i \in Identities, NEW healthy \in BOOLEAN, Verify(i, healthy) PROVE Goal
  BY <1>c, <1>d, <1>e, <1>17 DEF Verify, clearVars
<1>18. ASSUME ListMemories PROVE Goal
  BY <1>c, <1>d, <1>e, <1>18 DEF ListMemories, clearVars
<1>19. ASSUME MarkReview PROVE Goal
  BY <1>c, <1>d, <1>e, <1>19 DEF MarkReview, clearVars
<1>20. ASSUME FailCascade PROVE Goal
  BY <1>c, <1>d, <1>e, <1>20 DEF FailCascade, clearVars
<1>21. ASSUME Tick PROVE Goal
  <2>1. now <= now'
    BY <1>a, <1>21 DEF Tick
  <2> QED BY <1>c, <1>e, <2>1, <1>21 DEF Tick, clearVars
<1>22. CASE UNCHANGED vars
  BY <1>c, <1>d, <1>e, <1>22 DEF vars, clearVars
<1> QED BY <1>1, <1>2, <1>3, <1>4, <1>5, <1>6, <1>7, <1>8, <1>9, <1>10, <1>11, <1>12,
       <1>13, <1>14, <1>15, <1>16, <1>17, <1>18, <1>19, <1>20, <1>21, <1>22 DEF Next

-----------------------------------------------------------------------------
(* What a request has read *)

\* What is known of a request about to be ruled on stays known.
LEMMA GrantStep ==
    ASSUME IInv, [Next]_vars, NEW q \in Requests
    PROVE  GrantOK(q)'
<1>a. GrantOK(q)
  BY DEF IInv
<1>b. Fresh(q)
  BY RequestStep
<1>c. \A m \in DOMAIN memory : RowKept(m)
  BY RowsAreKept
<1>1. pc'[q] # "ruling" => grants'[q] = {}
  BY <1>a, <1>b DEF GrantOK, Fresh
<1>2. \A g \in grants'[q] :
          g.id \in DOMAIN memory' /\ g.order = g.id /\ g.scope = memory'[g.id].scope
  <2>1. CASE grants'[q] = grants[q] \/ grants'[q] = {}
    BY <1>a, <1>c, <2>1 DEF GrantOK, RowKept
  <2>2. CASE Resolve(q) /\ grants'[q] = GrantsOf(Usable(call[q]))
    <3>1. memory' = memory
      BY <2>2 DEF Resolve
    <3>2. Usable(call[q]) \subseteq DOMAIN memory
      BY DEF Usable, Listed
    <3>3. \A g \in GrantsOf(Usable(call[q])) :
              g.id \in Usable(call[q]) /\ g.order = g.id /\ g.scope = memory[g.id].scope
      BY DEF GrantsOf
    <3> QED BY <2>2, <3>1, <3>2, <3>3
  <2> QED BY <1>b, <2>1, <2>2 DEF Fresh
<1>3. \A m \in warned'[q] : m \in DOMAIN memory' /\ memory'[m].behavior = "always_ask"
  BY <1>a, <1>b, <1>c DEF GrantOK, Fresh, RowKept
<1> QED BY <1>1, <1>2, <1>3 DEF GrantOK

\* The rows of a call are finitely many, and only become more.
LEMMA RowsGrow ==
    ASSUME IInv, [Next]_vars, NEW c
    PROVE  /\ IsFiniteSet(RowsOf(c)) /\ IsFiniteSet(RowsOf(c)')
           /\ RowsOf(c) \subseteq RowsOf(c)'
           /\ Cardinality(RowsOf(c)) \in Nat /\ Cardinality(RowsOf(c)') \in Nat
           /\ Cardinality(RowsOf(c)) <= Cardinality(RowsOf(c)')
<1>1. memory \in Seq(MemoryRows) /\ memory' \in Seq(MemoryRows)
  BY RowsAreKept DEF IInv, TypeOK
<1>2. /\ DOMAIN memory = 1..Len(memory) /\ Len(memory) \in Nat
      /\ DOMAIN memory' = 1..Len(memory') /\ Len(memory') \in Nat
  BY <1>1, LenProperties
<1>3. IsFiniteSet(DOMAIN memory) /\ IsFiniteSet(DOMAIN memory')
  BY <1>2, FS_Interval
<1>4. RowsOf(c) \subseteq DOMAIN memory /\ RowsOf(c)' \subseteq DOMAIN memory'
  BY DEF RowsOf
<1>5. IsFiniteSet(RowsOf(c)) /\ IsFiniteSet(RowsOf(c)')
  BY <1>3, <1>4, FS_Subset
<1>6. RowsOf(c) \subseteq RowsOf(c)'
  BY RowsAreKept DEF RowsOf, RowKept
<1> QED BY <1>5, <1>6, FS_Subset, FS_CardinalityType

\* A row of the call that is in force is among the listed ones as long as there are
\* no more rows than one query returns.
LEMMA AllAreListed ==
    ASSUME IInv, NEW c, Cardinality(RowsOf(c)) <= MemoryLimit,
           NEW m \in RowsOf(c), Live(m)
    PROVE  m \in Usable(c)
<1> DEFINE own == {b \in DOMAIN memory : /\ memory[b].status = "active"
                                         /\ memory[b].scope.agent = c.agent
                                         /\ memory[b].scope.workspace = c.workspace
                                         /\ memory[b].scope.service = c.service}
           before == {k \in own : k < m}
<1>1. memory \in Seq(MemoryRows) /\ MemoryLimit \in Nat
  BY TrustAssumption DEF IInv, TypeOK
<1>2. DOMAIN memory = 1..Len(memory) /\ Len(memory) \in Nat
  BY <1>1, LenProperties
<1>3. IsFiniteSet(DOMAIN memory)
  BY <1>2, FS_Interval
<1>4. RowsOf(c) \subseteq DOMAIN memory /\ m \in DOMAIN memory /\ m \in Nat
  BY <1>2 DEF RowsOf
<1>5. IsFiniteSet(RowsOf(c))
  BY <1>3, <1>4, FS_Subset
<1>6. m \in own
  BY DEF RowsOf, Live
<1>7. before \subseteq RowsOf(c) \ {m}
  BY <1>4 DEF RowsOf
<1>8. /\ IsFiniteSet(RowsOf(c) \ {m})
      /\ Cardinality(RowsOf(c) \ {m}) = Cardinality(RowsOf(c)) - 1
  BY <1>5, FS_RemoveElement
<1>9. IsFiniteSet(before) /\ Cardinality(before) <= Cardinality(RowsOf(c) \ {m})
  BY <1>7, <1>8, FS_Subset
<1>10. /\ Cardinality(before) \in Nat /\ Cardinality(RowsOf(c)) \in Nat
  BY <1>5, <1>9, FS_CardinalityType
<1>11. Cardinality(before) < MemoryLimit
  BY <1>1, <1>8, <1>9, <1>10
<1>12. m \in Listed(c)
  BY <1>6, <1>11 DEF Listed
<1> QED BY <1>12 DEF Usable, Live

\* A row in force after a step was in force before it.
LEMMA LiveBefore ==
    ASSUME IInv, [Next]_vars, NEW m \in DOMAIN memory, Live(m)'
    PROVE  Live(m)
<1>1. now \in Nat /\ now' \in Nat /\ now <= now'
  BY BookedStep DEF IInv, TypeOK
<1>2. memory[m] \in MemoryRows
  BY ElementOfSeq DEF IInv, TypeOK
<1>3. memory[m].expiresAt \in Nat
  BY <1>2 DEF MemoryRows
<1>4. RowKept(m)
  BY RowsAreKept
<1> QED BY <1>1, <1>3, <1>4 DEF Live, RowKept

\* If the query returns all rows after a step it does before it.
LEMMA FewRowsBefore ==
    ASSUME IInv, [Next]_vars, NEW q \in Requests, call'[q] = call[q],
           Cardinality(RowsOf(call[q])') <= MemoryLimit
    PROVE  Cardinality(RowsOf(call[q])) <= MemoryLimit
<1>1. PICK c : c = call[q]
  OBVIOUS
<1>2. RowsOf(call[q]) = RowsOf(c) /\ RowsOf(call[q])' = RowsOf(c)'
  BY <1>1 DEF RowsOf
<1>3. /\ Cardinality(RowsOf(c)) \in Nat /\ Cardinality(RowsOf(c)') \in Nat
      /\ Cardinality(RowsOf(c)) <= Cardinality(RowsOf(c)')
  BY RowsGrow
<1>4. MemoryLimit \in Nat
  BY TrustAssumption
<1>5. Cardinality(RowsOf(c)') <= MemoryLimit
  BY <1>2
<1>6. Cardinality(RowsOf(c)) <= MemoryLimit
  BY <1>3, <1>4, <1>5
<1> QED BY <1>2, <1>6

\* A request has read what it was warned of.
LEMMA ReadStep ==
    ASSUME IInv, [Next]_vars, NEW q \in Requests
    PROVE  HasRead(q)'
<1> SUFFICES ASSUME pc'[q] = "ruling", Cardinality(RowsOf(call[q])') <= MemoryLimit,
                    NEW m \in warned'[q], Live(m)', m \in RowsOf(call[q])'
             PROVE  \E g \in grants'[q] : g.id = m /\ g.alwaysAsk
  BY DEF HasRead
<1>a. GrantOK(q) /\ HasRead(q) /\ StageOK(q)
  BY DEF IInv
<1>b. Settled(q) /\ Fresh(q)
  BY RequestStep
<1>c. \/ pc[q] = "ruling"
      \/ Resolve(q) /\ grants'[q] = GrantsOf(Usable(call[q]))
  BY <1>b DEF Fresh
<1>d. call'[q] = call[q] /\ warned'[q] = warned[q]
  BY <1>b, <1>c DEF Settled, Resolve
<1>e. m \in DOMAIN memory /\ memory[m].behavior = "always_ask"
  BY <1>a, <1>d DEF GrantOK
<1>f. RowKept(m)
  BY <1>e, RowsAreKept
<1>g. m \in RowsOf(call[q])
  BY <1>d, <1>e, <1>f DEF RowsOf, RowKept
<1>h. Live(m)
  BY <1>e, LiveBefore
<1>i. Cardinality(RowsOf(call[q])) <= MemoryLimit
  BY <1>d, FewRowsBefore
<1>1. CASE pc[q] = "ruling"
  <2>1. grants'[q] = grants[q]
    BY <1>b, <1>1 DEF Settled
  <2> QED BY <1>a, <1>d, <1>1, <1>g, <1>h, <1>i, <2>1 DEF HasRead
<1>2. CASE Resolve(q) /\ grants'[q] = GrantsOf(Usable(call[q]))
  <2>1. m \in Usable(call[q])
    BY <1>g, <1>h, <1>i, AllAreListed
  <2> DEFINE g == [id |-> m, order |-> m, scope |-> memory[m].scope,
                   alwaysAsk |-> memory[m].behavior = "always_ask"]
  <2>2. g \in grants'[q]
    BY <1>2, <2>1 DEF GrantsOf
  <2>3. g.id = m /\ g.alwaysAsk
    BY <1>e
  <2> QED BY <2>2, <2>3
<1> QED BY <1>c, <1>1, <1>2

-----------------------------------------------------------------------------
(* Learning can be traced *)

\* Approvals are over before they are learned from, and bookings precede deletions.
LEMMA LastStep ==
    ASSUME IInv, [Next]_vars
    PROVE  LearnedLast'
<1>1. \A m \in DOMAIN memory' : pc'[memory'[m].from] = "done"
  <2> SUFFICES ASSUME NEW m \in DOMAIN memory' PROVE pc'[memory'[m].from] = "done"
    OBVIOUS
  <2>1. CASE m \in DOMAIN memory
    <3>1. RowKept(m) /\ pc[memory[m].from] = "done"
      BY <2>1, RowsAreKept DEF IInv, LearnedLast
    <3>2. memory[m] \in MemoryRows
      BY <2>1, ElementOfSeq DEF IInv, TypeOK
    <3>3. memory[m].from \in Requests
      BY <3>2 DEF MemoryRows
    <3> QED BY <3>1, <3>3, RequestStep DEF Settled, RowKept
  <2>2. CASE m \notin DOMAIN memory
    <3>1. PICK r \in Requests : Learn(r) /\ memory'[m] = Lesson(r)
      BY <2>2, NewRow
    <3>2. pc \in [Requests -> Steps]
      BY DEF IInv, TypeOK
    <3> QED BY <3>1, <3>2 DEF Learn, Lesson
  <2> QED BY <2>1, <2>2
<1>2. clearing' \subseteq cleared'
  BY BookedStep
<1> QED BY <1>1, <1>2 DEF LearnedLast

\* A memory stays what one approval allowed.
LEMMA LearnedStep ==
    ASSUME IInv, [Next]_vars
    PROVE  LearnedAsApproved'
<1> DEFINE Good(m) ==
        LET r == memory[m].from IN
        /\ Learns(answer[r])
        /\ level[r] # "high"
        /\ memory[m].scope = resolved[r].scope
        /\ Rank(memory[m].ceiling) <= Rank(level[r])
        /\ \A k \in DOMAIN memory : memory[k].from = r => k = m
<1> SUFFICES ASSUME NEW m \in DOMAIN memory' PROVE Good(m)'
  BY DEF LearnedAsApproved
<1>a. \A b \in DOMAIN memory : Good(b) /\ pc[memory[b].from] = "done"
  BY DEF IInv, LearningIsTraceable, LearnedAsApproved, LearnedLast
<1>b. \A b \in DOMAIN memory : memory[b].from \in Requests
  <2>1. \A b \in DOMAIN memory : memory[b] \in MemoryRows
    BY ElementOfSeq DEF IInv, TypeOK
  <2> QED BY <2>1 DEF MemoryRows
<1>1. CASE m \in DOMAIN memory
  <2>1. PICK r \in Requests : r = memory[m].from
    BY <1>1, <1>b
  <2>2. RowKept(m) /\ pc[r] = "done" /\ Good(m)
    BY <1>a, <1>1, <2>1, RowsAreKept
  <2>3. UNCHANGED <<answer[r], level[r], resolved[r]>>
    BY <2>2, RequestStep DEF Settled
  <2>4. memory'[m].from = r
    BY <2>1, <2>2 DEF RowKept
  <2>5. \A k \in DOMAIN memory' : memory'[k].from = r => k = m
    <3> SUFFICES ASSUME NEW k \in DOMAIN memory', memory'[k].from = r PROVE k = m
      OBVIOUS
    <3>1. CASE k \in DOMAIN memory
      <4>1. memory[k].from = r
        BY <3>1, RowsAreKept DEF RowKept
      <4> QED BY <2>1, <2>2, <3>1, <4>1
    <3>2. CASE k \notin DOMAIN memory
      <4>1. PICK q \in Requests : Learn(q) /\ memory'[k] = Lesson(q)
        BY <3>2, NewRow
      <4>2. q = r /\ pc[q] = "learning"
        BY <4>1 DEF Learn, Lesson
      <4> QED BY <2>2, <4>2
    <3> QED BY <3>1, <3>2
  <2> QED BY <2>1, <2>2, <2>3, <2>4, <2>5 DEF RowKept
<1>2. CASE m \notin DOMAIN memory
  <2>1. PICK r \in Requests : /\ Learn(r) /\ MayGenerate(r)
                              /\ memory'[m] = Lesson(r) /\ m = Len(memory) + 1
    BY <1>2, NewRow
  <2>2. /\ memory'[m].from = r /\ memory'[m].scope = resolved[r].scope
        /\ memory'[m].ceiling = LowerOf(level[r], resolved[r].scope.riskCeiling)
    BY <2>1 DEF Lesson
  <2>3. pc[r] = "learning" /\ UNCHANGED <<answer, level, resolved>>
    BY <2>1 DEF Learn
  <2>4. Learns(answer[r])
    BY <2>3 DEF IInv, StageOK
  <2>5. level[r] # "high"
    BY <2>1 DEF MayGenerate
  <2>6. Rank(memory'[m].ceiling) <= Rank(level[r])
    <3>1. Rank(level[r]) \in 0..3 /\ Rank(resolved[r].scope.riskCeiling) \in 0..3
      BY RankIsNat
    <3> QED BY <2>2, <3>1 DEF LowerOf
  <2>7. \A k \in DOMAIN memory' : memory'[k].from = r => k = m
    <3> SUFFICES ASSUME NEW k \in DOMAIN memory', memory'[k].from = r PROVE k = m
      OBVIOUS
    <3>1. CASE k \in DOMAIN memory
      <4>1. memory[k].from = r
        BY <3>1, RowsAreKept DEF RowKept
      <4>2. pc[r] = "done"
        BY <1>a, <3>1, <4>1
      <4> QED BY <2>3, <4>2
    <3>2. CASE k \notin DOMAIN memory
      BY <2>1, <3>2, NewRow
    <3> QED BY <3>1, <3>2
  <2> QED BY <2>2, <2>3, <2>4, <2>5, <2>6, <2>7
<1> QED BY <1>1, <1>2

\* A request has no outcome before it is ruled on.
LEMMA OutcomeStage ==
    ASSUME IInv, NEW r \in Requests, outcome[r].memory # 0 \/ Passed(r)
    PROVE  pc[r] \notin {"absent", "resolving", "ruling"}
<1>1. NoOutcome.memory = 0 /\ NoOutcome.verdict = "none"
  BY DEF NoOutcome, Denied
<1> QED BY <1>1 DEF IInv, StageOK, Passed

\* A decision can always name the memory it rests on.
LEMMA ExplainedStep ==
    ASSUME IInv, [Next]_vars
    PROVE  DecisionsAreExplained'
<1> SUFFICES ASSUME NEW r \in Requests, outcome'[r].memory # 0
             PROVE  /\ memory'[outcome'[r].memory].status # "deleted"
                    /\ CoversIgnoringWindow(memory'[outcome'[r].memory].scope,
                                            resolved'[r].scope)
  BY DEF DecisionsAreExplained
<1> DEFINE m == outcome'[r].memory
<1>a. Settled(r) /\ Fresh(r)
  BY RequestStep
<1>b. memory \in Seq(MemoryRows)
  BY DEF IInv, TypeOK
<1>c. DOMAIN memory = 1..Len(memory) /\ Len(memory) \in Nat
  BY <1>b, LenProperties
<1>d. Denied("fail_closed").memory = 0
  BY DEF Denied
<1>1. CASE outcome'[r] = outcome[r]
  <2>1. m = outcome[r].memory
    BY <1>1
  <2>2. m \in 0..Len(memory)
    BY <2>1 DEF IInv, TypeOK
  <2>3. m \in DOMAIN memory
    BY <1>c, <2>2
  <2>4. resolved'[r] = resolved[r]
    BY <1>a, <1>1, OutcomeStage DEF Settled
  <2>5. /\ memory[m].status # "deleted"
        /\ CoversIgnoringWindow(memory[m].scope, resolved[r].scope)
    BY <2>1 DEF IInv, LearningIsTraceable, DecisionsAreExplained
  <2>6. RowKept(m)
    BY <2>3, RowsAreKept
  <2>7. Referenced(m)
    BY <2>1 DEF Referenced
  <2>8. memory'[m].status # "deleted"
    BY <2>3, <2>5, <2>7, BookedStep
  <2> QED BY <2>4, <2>5, <2>6, <2>8 DEF RowKept
<1>2. CASE Rule(r) /\ outcome'[r] = Decide(InputFor(r)) /\ outcome'[r] # outcome[r]
  <2>1. pc[r] = "ruling" /\ UNCHANGED <<memory, resolved>>
    BY <1>2 DEF Rule
  <2>2. m = Decide(InputFor(r)).memory
    BY <1>2
  <2>3. PICK g \in grants[r] : m = g.id /\ CoversIgnoringWindow(g.scope, resolved[r].scope)
    BY <2>1, <2>2, RuledTypes
  <2>4. g.scope = memory[m].scope
    BY <2>3 DEF IInv, GrantOK
  <2>5. memory[m].status # "deleted"
    <3>1. DOMAIN outcome = Requests
      BY DEF IInv, Shape
    <3> QED BY <1>2, <2>2, <3>1 DEF Rule
  <2> QED BY <2>1, <2>3, <2>4, <2>5
<1> QED BY <1>a, <1>d, <1>1, <1>2 DEF Fresh

\* The three parts together.
LEMMA TraceStep ==
    ASSUME IInv, [Next]_vars
    PROVE  LearningIsTraceable'
<1>1. ASSUME NEW m \in DOMAIN memory', memory'[m].status = "deleted" PROVE m \in cleared'
  <2>1. CASE m \in DOMAIN memory
    <3>1. memory[m].status = "deleted" => m \in cleared
      BY <2>1 DEF IInv, LearningIsTraceable
    <3>2. memory[m].status # "deleted" => m \in cleared
      BY <1>1, <2>1, BookedStep DEF IInv, LearnedLast
    <3> QED BY <3>1, <3>2, BookedStep
  <2>2. CASE m \notin DOMAIN memory
    <3>1. PICK r \in Requests : memory'[m] = Lesson(r)
      BY <2>2, NewRow
    <3>2. memory'[m].status = "active"
      BY <3>1 DEF Lesson
    <3> QED BY <1>1, <3>2
  <2> QED BY <2>1, <2>2
<1> QED BY <1>1, LearnedStep, ExplainedStep DEF LearningIsTraceable

-----------------------------------------------------------------------------
(* What asks always *)

\* A memory that asks always keeps the request from passing.
LEMMA AskStep ==
    ASSUME IInv, [Next]_vars
    PROVE  AlwaysAskWins'
<1> SUFFICES ASSUME NEW r \in Requests, Passed(r)',
                    Cardinality(RowsOf(call[r])') <= MemoryLimit,
                    NEW m \in warned'[r], Live(m)',
                    CoversIgnoringWindow(memory'[m].scope, resolved'[r].scope)
             PROVE  FALSE
  BY DEF AlwaysAskWins
<1>a. Settled(r) /\ Fresh(r) /\ GrantOK(r)
  BY RequestStep DEF IInv
<1>b. \/ outcome'[r] = outcome[r] /\ Passed(r)
      \/ pc[r] = "ruling" /\ Rule(r) /\ Decide(InputFor(r)).verdict = "auto_allow"
  BY <1>a DEF Fresh, Passed, Denied, Rule
<1>c. pc[r] \notin {"absent", "resolving"}
  BY <1>b, OutcomeStage
<1>d. UNCHANGED <<call[r], warned[r], resolved[r]>>
  BY <1>a, <1>c DEF Settled
<1>e. m \in DOMAIN memory
  BY <1>a, <1>d DEF GrantOK
<1>f. RowKept(m)
  BY <1>e, RowsAreKept
<1>g. Live(m)
  BY <1>e, LiveBefore
<1>h. CoversIgnoringWindow(memory[m].scope, resolved[r].scope)
  BY <1>d, <1>f DEF RowKept
<1>i. Cardinality(RowsOf(call[r])) <= MemoryLimit
  BY <1>d, FewRowsBefore
<1>1. CASE Passed(r)
  BY <1>1, <1>d, <1>g, <1>h, <1>i DEF IInv, AlwaysAskWins
<1>2. CASE pc[r] = "ruling" /\ Rule(r) /\ Decide(InputFor(r)).verdict = "auto_allow"
  <2>1. /\ resolved[r].scope \in Scopes /\ memory[m].scope \in Scopes
    <3>1. memory[m] \in MemoryRows
      BY <1>e, ElementOfSeq DEF IInv, TypeOK
    <3> QED BY <3>1 DEF IInv, TypeOK, MemoryRows
  <2>2. Within(memory[m].scope, resolved[r].scope)
    BY <1>h, <2>1, CoversByDimensions
  <2>3. m \in RowsOf(call[r])
    BY <1>e, <1>2, <2>2 DEF Within, RowsOf, IInv, ScopeOK
  <2>4. PICK g \in grants[r] : g.id = m /\ g.alwaysAsk
    BY <1>d, <1>g, <1>i, <1>2, <2>3 DEF IInv, HasRead
  <2>5. g.scope = memory[m].scope
    BY <1>a, <2>4 DEF GrantOK
  <2>6. InputFor(r).learned = grants[r] /\ InputFor(r).scope = resolved[r].scope
    BY DEF InputFor
  <2>7. AsksAlways(InputFor(r))
    BY <1>h, <2>4, <2>5, <2>6 DEF AsksAlways, CoveringGrants
  <2>8. Grounds(InputFor(r))
    BY <1>2, DecideByGrounds
  <2> QED BY <2>7, <2>8 DEF Grounds, Automatable
<1> QED BY <1>b, <1>1, <1>2

-----------------------------------------------------------------------------
(* What passes without a human *)

\* What a human answered stays answered, for the scope it was given for.
LEMMA ConsentStays ==
    ASSUME IInv, [Next]_vars, NEW r \in Requests, Consented(r), resolved'[r] = resolved[r]
    PROVE  Consented(r)'
<1>1. PICK q \in Requests : /\ Allows(answer[q])
                            /\ CoversIgnoringWindow(GrantedScope(q), resolved[r].scope)
  BY DEF Consented
<1>2. pc[q] \in {"granting", "learning", "done"}
  BY <1>1 DEF IInv, StageOK, Allows
<1>3. UNCHANGED <<answer[q], resolved[q]>>
  BY <1>2, RequestStep DEF Settled
<1>4. GrantedScope(q)' = GrantedScope(q)
  BY <1>3 DEF GrantedScope
<1> QED BY <1>1, <1>3, <1>4 DEF Consented

\* A memory that covers the request stands for the answer it was learned from.
LEMMA MemoryIsConsent ==
    ASSUME IInv, NEW r \in Requests, CoveringGrants(InputFor(r)) # {}
    PROVE  Consented(r)
<1>1. PICK g \in grants[r] : CoversIgnoringWindow(g.scope, resolved[r].scope)
  BY DEF CoveringGrants, InputFor
<1>2. g.id \in DOMAIN memory /\ g.scope = memory[g.id].scope
  BY <1>1 DEF IInv, GrantOK
<1>3. memory[g.id] \in MemoryRows
  BY <1>2, ElementOfSeq DEF IInv, TypeOK
<1>4. PICK q \in Requests : q = memory[g.id].from
  BY <1>3 DEF MemoryRows
<1>5. Learns(answer[q]) /\ memory[g.id].scope = resolved[q].scope
  BY <1>2, <1>4 DEF IInv, LearningIsTraceable, LearnedAsApproved
<1>6. resolved[q].scope \in Scopes
  BY DEF IInv, TypeOK
<1>7. GrantedScope(q) = [resolved[q].scope EXCEPT !.requestLimit = @]
  BY <1>5 DEF GrantedScope, Learns
<1>8. GrantedScope(q) = resolved[q].scope
  BY <1>6, <1>7 DEF Scopes
<1> QED BY <1>1, <1>2, <1>5, <1>8 DEF Consented, Learns, Allows

\* A request for what a harmless one covers is harmless as well, if it is not of
\* high risk.
LEMMA HarmlessByLease ==
    ASSUME IInv, NEW r \in Requests, pc[r] = "ruling", InputFor(r).level # "high",
           NEW q \in Requests, Passed(q), ~call[q].write, level[q] = "low",
           CoversIgnoringWindow(resolved[q].scope, resolved[r].scope)
    PROVE  ~call[r].write /\ InputFor(r).level = "low"
<1>1. resolved[q].scope \in Scopes /\ resolved[r].scope \in Scopes
  BY DEF IInv, TypeOK
<1>2. Within(resolved[q].scope, resolved[r].scope)
  BY <1>1, CoversByDimensions
<1>3. ScopeOK(q) /\ ScopeOK(r) /\ Ruled(q)
  BY DEF IInv, Ruled, Passed
<1>4. /\ call[q] \in Calls /\ call[r] \in Calls
      /\ call[q].operation = call[r].operation
  BY <1>2, <1>3 DEF ScopeOK, Within
<1>5. ~call[r].write
  BY <1>4, TrustAssumption
<1>6. Rank(call[r].label) <= Rank("low")
  BY <1>2, <1>3 DEF ScopeOK, Within
<1>7. call[r] \in CallType
  BY <1>4, TrustAssumption
<1>8. call[r].label \in Levels
  BY <1>7 DEF CallType
<1>9. call[r].label = "low"
  BY <1>6, <1>8, RankIsNat DEF Levels
<1>10. /\ FactorsFor(r).label = "low" /\ ~FactorsFor(r).write
  BY <1>5, <1>9 DEF FactorsFor
<1>11. InputFor(r).level = Evaluate(FactorsFor(r))
  BY DEF InputFor
<1>12. Evaluate(FactorsFor(r)) \in Raised(FactorsFor(r))
  BY <1>10, EvaluateIsHighest DEF Declared, Levels
<1>13. \A l \in Raised(FactorsFor(r)) : l = "low" \/ l = "high"
  BY <1>10 DEF Raised, RaisesToMedium, RaisesByOne
<1> QED BY <1>5, <1>11, <1>12, <1>13

\* A lease that covers the request stands for an answer or for a harmless request.
LEMMA LeaseIsConsent ==
    ASSUME IInv, NEW r \in Requests, pc[r] = "ruling", InputFor(r).level # "high",
           CoveringLeases(InputFor(r)) # {}
    PROVE  Consented(r) \/ (~call[r].write /\ InputFor(r).level = "low")
<1>1. PICK q \in Requests : /\ lease[q].status = "active"
                            /\ CoversIgnoringWindow(lease[q].scope, resolved[r].scope)
  <2>1. PICK l \in Standing(call[r]) : CoversIgnoringWindow(l.scope, resolved[r].scope)
    BY DEF CoveringLeases, InputFor
  <2>2. PICK q \in ActiveLeases : l.scope = lease[q].scope
    BY <2>1 DEF Standing
  <2>3. q \in Requests /\ lease[q].status = "active"
    BY <2>2 DEF ActiveLeases
  <2> QED BY <2>1, <2>2, <2>3
<1>2. LeaseOK(q)
  BY DEF IInv
<1>3. CASE Allows(answer[q]) /\ lease[q].scope = GrantedScope(q)
  BY <1>1, <1>3 DEF Consented
<1>4. CASE Passed(q) /\ lease[q].scope = resolved[q].scope
  <2>1. Consented(q) \/ (~call[q].write /\ level[q] = "low")
    BY <1>4 DEF IInv, ConsentOrHarmless
  <2>2. CASE Consented(q)
    <3>1. PICK p \in Requests : /\ Allows(answer[p])
                                /\ CoversIgnoringWindow(GrantedScope(p), resolved[q].scope)
      BY <2>2 DEF Consented
    <3>2. resolved[p].scope \in Scopes /\ resolved[q].scope \in Scopes /\ resolved[r].scope \in Scopes
      BY DEF IInv, TypeOK
    <3>3. GrantedScope(p) \in Scopes
      BY <3>2, TrustAssumption DEF GrantedScope, Scopes
    <3>4. CoversIgnoringWindow(GrantedScope(p), resolved[r].scope)
      BY <1>1, <1>4, <3>1, <3>2, <3>3, CoverageAddsUp
    <3> QED BY <3>1, <3>4 DEF Consented
  <2>3. CASE ~call[q].write /\ level[q] = "low"
    BY <1>1, <1>4, <2>3, HarmlessByLease
  <2> QED BY <2>1, <2>2, <2>3
<1> QED BY <1>1, <1>2, <1>3, <1>4 DEF LeaseOK

\* A write of low risk has been learned: the first one counts as medium.
LEMMA LowWriteIsLearned ==
    ASSUME IInv, NEW r \in Requests, pc[r] = "ruling", call[r].write,
           InputFor(r).level = "low"
    PROVE  grants[r] # {}
<1> SUFFICES ASSUME grants[r] = {} PROVE FALSE
  OBVIOUS
<1>1. call[r] \in CallType
  BY TrustAssumption DEF IInv, StageOK
<1>2. /\ FactorsFor(r).label = call[r].label /\ call[r].label \in Levels
      /\ RaisesToMedium(FactorsFor(r))
  BY <1>1 DEF FactorsFor, RaisesToMedium, CallType
<1>3. AtLeastMedium(call[r].label) \in Levels /\ Rank(AtLeastMedium(call[r].label)) >= 2
  BY <1>2, RankIsNat DEF AtLeastMedium, Levels
<1>4. AtLeastMedium(call[r].label) \in Raised(FactorsFor(r))
  BY <1>2, <1>3 DEF Raised
<1>5. Rank(AtLeastMedium(call[r].label)) <= Rank(Evaluate(FactorsFor(r)))
  BY <1>2, <1>4, EvaluateIsHighest DEF Declared
<1>6. Evaluate(FactorsFor(r)) = "low"
  BY DEF InputFor
<1>7. Rank("low") = 1 /\ Rank(AtLeastMedium(call[r].label)) \in 0..3
  BY RankIsNat
<1> QED BY <1>3, <1>5, <1>6, <1>7

\* What the engine lets pass has a human behind it or is harmless.
LEMMA PassIsEarned ==
    ASSUME IInv, NEW r \in Requests, pc[r] = "ruling",
           Decide(InputFor(r)).verdict = "auto_allow"
    PROVE  /\ InputFor(r).level # "high"
           /\ Consented(r) \/ (~call[r].write /\ InputFor(r).level = "low")
<1>1. Grounds(InputFor(r))
  BY DecideByGrounds
<1>2. InputFor(r).level # "high"
  BY <1>1 DEF Grounds
<1>3. InputFor(r).learned = grants[r]
  BY DEF InputFor
<1>4. CASE CoveringLeases(InputFor(r)) # {}
  BY <1>2, <1>4, LeaseIsConsent
<1>5. CASE CoveringGrants(InputFor(r)) # {}
  BY <1>2, <1>5, MemoryIsConsent
<1>6. CASE InputFor(r).level = "low" /\ call[r].write
  <2>1. CoveringGrants(InputFor(r)) # {}
    BY <1>1, <1>3, <1>6, LowWriteIsLearned DEF Grounds
  <2> QED BY <1>5, <2>1
<1>7. CASE InputFor(r).level = "low" /\ ~call[r].write
  BY <1>7
<1> QED BY <1>1, <1>4, <1>5, <1>6, <1>7 DEF Grounds

\* The promise is kept by every step.
LEMMA ConsentStep ==
    ASSUME IInv, [Next]_vars
    PROVE  ConsentOrHarmless'
<1> SUFFICES ASSUME NEW r \in Requests, Passed(r)'
             PROVE  /\ level'[r] # "high"
                    /\ Consented(r)' \/ (~call'[r].write /\ level'[r] = "low")
  BY DEF ConsentOrHarmless
<1>a. Settled(r) /\ Fresh(r)
  BY RequestStep
<1>1. CASE Passed(r)
  <2>1. UNCHANGED <<call[r], resolved[r], level[r]>>
    BY <1>a, <1>1, OutcomeStage DEF Settled
  <2>2. level[r] # "high" /\ (Consented(r) \/ (~call[r].write /\ level[r] = "low"))
    BY <1>1 DEF IInv, ConsentOrHarmless
  <2> QED BY <2>1, <2>2, ConsentStays
<1>2. CASE /\ Rule(r) /\ outcome'[r] = Decide(InputFor(r))
           /\ level'[r] = InputFor(r).level
  <2>1. pc[r] = "ruling" /\ UNCHANGED <<call, resolved>>
    BY <1>2 DEF Rule
  <2>2. Decide(InputFor(r)).verdict = "auto_allow"
    BY <1>2 DEF Passed
  <2> QED BY <1>2, <2>1, <2>2, PassIsEarned, ConsentStays
<1> QED BY <1>a, <1>1, <1>2 DEF Fresh, Passed, Denied

-----------------------------------------------------------------------------
(* The theorems *)

\* Nothing has happened yet.
LEMMA InitHolds == Init => IInv
<1> SUFFICES ASSUME Init PROVE IInv
  OBVIOUS
<1>1. NoScope \in Scopes
  BY DEF NoScope, Scopes
<1>2. memory = <<>> /\ memory \in Seq(MemoryRows) /\ DOMAIN memory = {} /\ Len(memory) = 0
  BY DEF Init
<1>3. TypeOK
  <2>1. WorldTypes
    BY <1>2, TrustAssumption DEF Init, WorldTypes
  <2>2. LeaseTypes /\ ScopeTypes
    BY <1>1 DEF Init, LeaseTypes, ScopeTypes, NoLease
  <2>3. StepTypes
    BY DEF Init, StepTypes, Steps, Answers
  <2>4. SeenTypes /\ GrantTypes
    BY DEF Init, SeenTypes, GrantTypes, NothingSeen
  <2>5. OutcomeTypes
    BY <1>2 DEF Init, OutcomeTypes, NoOutcome, Denied
  <2>6. cascade.step \in {"idle", "revoking", "invalidating"}
    BY DEF Init, Idle
  <2> QED BY <1>2, <2>1, <2>2, <2>3, <2>4, <2>5, <2>6 DEF TypeOK, WorldTypes, LeaseTypes,
             StepTypes, SeenTypes, GrantTypes, ScopeTypes, OutcomeTypes
<1>4. Shape
  BY DEF Init, Shape, Idle
<1>5. \A r \in Requests : StageOK(r)
  BY DEF Init, StageOK, NoLease, Learns, Passed
<1>6. \A r \in Requests : ScopeOK(r) /\ LeaseOK(r) /\ GrantOK(r) /\ HasRead(r)
  BY DEF Init, ScopeOK, LeaseOK, GrantOK, HasRead, NoLease, Ruled, NoOutcome, Denied
<1>7. LearnedLast /\ LearningIsTraceable
  BY <1>2 DEF Init, LearnedLast, LearningIsTraceable, LearnedAsApproved,
              DecisionsAreExplained, NoOutcome, Denied
<1>8. AlwaysAskWins /\ ConsentOrHarmless
  BY DEF Init, AlwaysAskWins, ConsentOrHarmless, Passed, NoOutcome, Denied
<1> QED BY <1>3, <1>4, <1>5, <1>6, <1>7, <1>8 DEF IInv

\* The invariant is inductive.
LEMMA Invariance == Spec => []IInv
<1>1. IInv /\ [Next]_vars => IInv'
  <2> SUFFICES ASSUME IInv, [Next]_vars PROVE IInv'
    OBVIOUS
  <2>1. TypeOK' /\ Shape'
    BY TypeStep
  <2>2. \A r \in Requests : (StageOK(r) /\ ScopeOK(r) /\ LeaseOK(r))'
    BY StageStep DEF Own
  <2>3. \A r \in Requests : (GrantOK(r) /\ HasRead(r))'
    BY GrantStep, ReadStep
  <2>4. LearnedLast' /\ LearningIsTraceable' /\ AlwaysAskWins' /\ ConsentOrHarmless'
    BY LastStep, TraceStep, AskStep, ConsentStep
  <2> QED BY <2>1, <2>2, <2>3, <2>4 DEF IInv
<1> QED BY <1>1, InitHolds, PTL DEF Spec

\* The rows of requests, memories, leases and identities are what the schema says,
\* whatever is asked, learned, cleared and disconnected.
THEOREM TrustTypes == Spec => []TypeOK
<1>1. IInv => TypeOK
  BY DEF IInv
<1> QED BY <1>1, Invariance, PTL

\* Pipeline.Handle with everything that is learned and leased around it: what passes
\* without a human is not of high risk, and is a low-risk read or within what some
\* human allowed, in every mode and for any number of requests and memories.
THEOREM NothingPassesUnearned == Spec => []ConsentOrHarmless
<1>1. IInv => ConsentOrHarmless
  BY DEF IInv
<1> QED BY <1>1, Invariance, PTL

\* Input.asksAlways: a memory in force that asks always and was there when the
\* request was submitted keeps it from passing by itself, as long as the query
\* returns all rows.
THEOREM AlwaysAskIsHeeded == Spec => []AlwaysAskWins
<1>1. IInv => AlwaysAskWins
  BY DEF IInv
<1> QED BY <1>1, Invariance, PTL

\* trust.Manager.Generate, recordDecision and ClearTrustMemory: every memory is what
\* one approval allowed, every decision can name the memory it rests on, and no
\* memory goes without an entry.
THEOREM LearningLeavesATrace == Spec => []LearningIsTraceable
<1>1. IInv => LearningIsTraceable
  BY DEF IInv
<1> QED BY <1>1, Invariance, PTL

=============================================================================
