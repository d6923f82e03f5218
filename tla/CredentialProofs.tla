-------------------------- MODULE CredentialProofs --------------------------
(***************************************************************************)
(* Proofs about credential references, for any number of calls, sources,   *)
(* items, services and accounts: whatever two connections, a probe and a   *)
(* crash do to each other, an identity leans on what its owner named, and  *)
(* the list of waiters is exact.                                           *)
(***************************************************************************)
EXTENDS Credential, TLAPS

\* The shape of the calls, which TypeOK leaves open.
CallsOK ==
    /\ connect \in [Connects ->
          [at : {"idle", "resolved", "registered", "referenced", "declared", "created"},
           spec : Specs \cup {Absent}, settled : ReferenceRows \cup {Absent}]]
    /\ verify \in [Verifies ->
          [at : {"idle", "probed", "recorded"}, label : Labels \cup {Absent},
           health : Health \cup {Absent}]]
    /\ fetch \in [Fetches ->
          [at : {"idle", "asking", "locked", "waiting", "again", "value", "failed"},
           reference : Coordinates \cup {Absent}]]

\* What a connection has secured so far: each step adds one line, and no other
\* call takes it back.
Secured(c) ==
    LET spec == connect[c].spec
        settled == connect[c].settled
        at == connect[c].at
    IN  /\ at # "idle" => spec \in Specs
        /\ at \in {"registered", "referenced", "declared", "created"} =>
              /\ settled \in ReferenceRows
              /\ spec.kind \in providers
              /\ references[Coordinate(spec)] \in ReferenceRows
              /\ references[Coordinate(spec)].service = settled.service
        /\ at \in {"referenced", "declared", "created"} => settled.service = spec.service
        /\ at \in {"declared", "created"} => spec.service \in declared
        /\ at = "created" =>
              /\ identities[Label(spec)] \in IdentityRows
              /\ identities[Label(spec)].reference = Coordinate(spec)

\* An identity leans on a reference that is there, and a probe under way is
\* about an identity that is there.
Anchored ==
    /\ \A l \in Labels : identities[l] # Absent =>
          references[identities[l].reference] \in ReferenceRows
    /\ \A v \in Verifies : verify[v].at # "idle" =>
          /\ verify[v].label \in Labels /\ verify[v].health \in Health
          /\ identities[verify[v].label] \in IdentityRows

\* A channel that is closed belongs to a call that still waits.
ClosedWait == \A f \in closed : fetch[f].at = "waiting"

IInv ==
    /\ TypeOK
    /\ CallsOK
    /\ \A c \in Connects : Secured(c)
    /\ Anchored
    /\ WaitersAreAccounted
    /\ ClosedWait

-----------------------------------------------------------------------------
\* What a step leaves of the tables: rows stay, a reference keeps its service
\* and an identity its reference.
Kept ==
    /\ providers \subseteq providers' /\ declared \subseteq declared'
    /\ \A x \in Coordinates : references[x] # Absent =>
          references'[x] \in ReferenceRows /\ references'[x].service = references[x].service
    /\ \A l \in Labels : identities[l] # Absent =>
          identities'[l] \in IdentityRows /\ identities'[l].reference = identities[l].reference


\* The coordinates and the label of a complete description are in the tables' domains.
LEMMA SpecParts ==
    ASSUME NEW spec \in Specs
    PROVE  Coordinate(spec) \in Coordinates /\ Label(spec) \in Labels
  BY DEF Specs, Coordinate, Coordinates, Label, Labels

\* Every variable stays in its type.
LEMMA TypeStep == IInv /\ [Next]_vars => TypeOK' /\ CallsOK'
<1> SUFFICES ASSUME IInv, [Next]_vars PROVE TypeOK' /\ CallsOK'
  OBVIOUS
<1> USE DEF IInv
<1>1. ASSUME NEW k \in Kinds, OwnerUnlocks(k) PROVE TypeOK' /\ CallsOK'
  BY <1>1 DEF OwnerUnlocks, TypeOK, CallsOK, NoConnect, Answers, tables, calls, waiting
<1>2. ASSUME NEW k \in Kinds, SourceCloses(k) PROVE TypeOK' /\ CallsOK'
  BY <1>2 DEF SourceCloses, TypeOK, CallsOK, NoConnect, Answers, tables, calls, waiting
<1>3. ASSUME NEW c \in Connects, Resolves(c) PROVE TypeOK' /\ CallsOK'
  BY <1>3 DEF Resolves, Refused, TypeOK, CallsOK, NoConnect, Answers, tables, calls, waiting
<1>4. ASSUME NEW c \in Connects, CreateRegistration(c) PROVE TypeOK' /\ CallsOK'
  <2>1. connect[c].spec \in Specs /\ connect[c].settled \in ReferenceRows \cup {Absent}
    BY <1>4 DEF CreateRegistration, CallsOK, Secured
  <2>2. Coordinate(connect[c].spec) \in Coordinates /\ Label(connect[c].spec) \in Labels
    BY <2>1, SpecParts
  <2> DEFINE x == Coordinate(connect[c].spec)
             new == [service |-> connect[c].spec.service, health |-> "ok"]
             row == IF references[x] = Absent THEN new ELSE references[x]
  <2>3. row \in ReferenceRows /\ connect[c].spec.kind \in Kinds
    BY <2>1, <2>2 DEF ReferenceRows, Specs, Health, TypeOK
  <2>4. /\ providers' = providers \cup {connect[c].spec.kind}
        /\ references' = [references EXCEPT ![x] = row]
        /\ connect' = [connect EXCEPT ![c] =
              [at |-> "registered", spec |-> connect[c].spec, settled |-> row]]
        /\ UNCHANGED <<source, announce, declared, identities, verify, fetch, waiters, closed>>
    BY <1>4 DEF CreateRegistration, waiting
  <2> HIDE DEF row, x
  <2>5. references' \in [Coordinates -> ReferenceRows \cup {Absent}]
    BY <2>3, <2>4 DEF TypeOK
  <2>6. CallsOK'
    BY <2>1, <2>3, <2>4 DEF CallsOK
  <2> QED BY <2>3, <2>4, <2>5, <2>6 DEF TypeOK, CallsOK, Answers
<1>5. ASSUME NEW c \in Connects, SettleReference(c) PROVE TypeOK' /\ CallsOK'
  <2>1. connect[c].spec \in Specs /\ connect[c].settled \in ReferenceRows \cup {Absent}
    BY <1>5 DEF SettleReference, CallsOK, Secured
  <2>2. Coordinate(connect[c].spec) \in Coordinates /\ Label(connect[c].spec) \in Labels
    BY <2>1, SpecParts
  <2>3. references[Coordinate(connect[c].spec)] \in ReferenceRows
    BY <1>5 DEF SettleReference, Secured
  <2>4. references' \in [Coordinates -> ReferenceRows \cup {Absent}]
    BY <1>5, <2>2, <2>3 DEF SettleReference, TypeOK, ReferenceRows, Health
  <2>5. connect'[c].spec \in Specs \cup {Absent} /\ CallsOK'
    BY <1>5 DEF SettleReference, Refused, ConnectTo, CallsOK, NoConnect, waiting
  <2> QED BY <1>5, <2>4, <2>5 DEF SettleReference, TypeOK, CallsOK, Answers, waiting
<1>6. ASSUME NEW c \in Connects, EnsureDeclared(c) PROVE TypeOK' /\ CallsOK'
  <2>1. connect[c].spec \in Specs /\ connect[c].settled \in ReferenceRows \cup {Absent}
    BY <1>6 DEF EnsureDeclared, CallsOK, Secured
  <2>2. Coordinate(connect[c].spec) \in Coordinates /\ Label(connect[c].spec) \in Labels
    BY <2>1, SpecParts
  <2>3. connect[c].settled.service \in Services
    BY <1>6 DEF EnsureDeclared, Secured, ReferenceRows
  <2> QED BY <1>6, <2>3 DEF EnsureDeclared, ConnectTo, TypeOK, CallsOK, Answers, waiting
<1>7. ASSUME NEW c \in Connects, CreateIdentity(c) PROVE TypeOK' /\ CallsOK'
  <2>1. connect[c].spec \in Specs /\ connect[c].settled \in ReferenceRows \cup {Absent}
    BY <1>7 DEF CreateIdentity, CallsOK, Secured
  <2>2. Coordinate(connect[c].spec) \in Coordinates /\ Label(connect[c].spec) \in Labels
    BY <2>1, SpecParts
  <2> DEFINE label == [Label(connect[c].spec) EXCEPT !.service = connect[c].settled.service]
             row == [reference |-> Coordinate(connect[c].spec), status |-> "ok"]
  <2>3. row \in IdentityRows
    BY <2>2 DEF IdentityRows
  <2>4. identities' = identities \/ identities' = [identities EXCEPT ![label] = row]
    BY <1>7 DEF CreateIdentity
  <2> HIDE DEF row, label
  <2>5. identities' \in [Labels -> IdentityRows \cup {Absent}]
    BY <2>3, <2>4 DEF TypeOK
  <2>6. connect'[c].spec \in Specs \cup {Absent} /\ CallsOK'
    BY <1>7 DEF CreateIdentity, Refused, ConnectTo, CallsOK, NoConnect, waiting
  <2> QED BY <1>7, <2>5, <2>6 DEF CreateIdentity, TypeOK, CallsOK, Answers, waiting
<1>8. ASSUME NEW c \in Connects, ConnectBreaks(c) PROVE TypeOK' /\ CallsOK'
  BY <1>8 DEF ConnectBreaks, Refused, TypeOK, CallsOK, NoConnect, Answers, tables, calls, waiting
<1>9. ASSUME NEW v \in Verifies, Probe(v) PROVE TypeOK' /\ CallsOK'
  <2>1. PICK l \in Labels : verify' = [verify EXCEPT ![v] =
                [at |-> "probed", label |-> l,
                 health |-> IF Available(identities[l].reference.kind)
                            THEN "ok" ELSE "unavailable"]]
    BY <1>9 DEF Probe
  <2> QED BY <1>9, <2>1 DEF Probe, TypeOK, CallsOK, Health, Answers, tables, waiting
<1>10. ASSUME NEW v \in Verifies, SetReferenceHealth(v) PROVE TypeOK' /\ CallsOK'
  <2>1. /\ verify[v].label \in Labels /\ verify[v].health \in Health
        /\ identities[verify[v].label] \in IdentityRows
    BY <1>10 DEF SetReferenceHealth, Anchored
  <2> DEFINE x == identities[verify[v].label].reference
  <2>2. x \in Coordinates /\ references[x] \in ReferenceRows
    BY <2>1, AbsentAssumption DEF Anchored, IdentityRows
  <2>3. references' = [references EXCEPT ![x].health = verify[v].health]
    BY <1>10 DEF SetReferenceHealth
  <2> HIDE DEF x
  <2>4. references' \in [Coordinates -> ReferenceRows \cup {Absent}]
    BY <2>1, <2>2, <2>3 DEF TypeOK, ReferenceRows
  <2> QED BY <1>10, <2>4 DEF SetReferenceHealth, TypeOK, CallsOK, Answers, waiting
<1>11. ASSUME NEW v \in Verifies, SetIdentityStatus(v) PROVE TypeOK' /\ CallsOK'
  <2>1. verify[v].label \in Labels /\ identities[verify[v].label] \in IdentityRows
    BY <1>11 DEF SetIdentityStatus, Anchored
  <2>2. identities' \in [Labels -> IdentityRows \cup {Absent}]
    BY <1>11, <2>1 DEF SetIdentityStatus, TypeOK, IdentityRows
  <2> QED BY <1>11, <2>2 DEF SetIdentityStatus, TypeOK, CallsOK, NoVerify, Answers, waiting
<1>12. ASSUME NEW f \in Fetches, Locate(f) PROVE TypeOK' /\ CallsOK'
  BY <1>12 DEF Locate, TypeOK, CallsOK, NoConnect, Answers, tables, calls, waiting
<1>13. ASSUME NEW f \in Fetches, AskSource(f) PROVE TypeOK' /\ CallsOK'
  BY <1>13 DEF AskSource, FetchTo, Answered, TypeOK, CallsOK, NoConnect, Answers, tables, calls, waiting
<1>14. ASSUME NEW f \in Fetches, Register(f) PROVE TypeOK' /\ CallsOK'
  <2>1. CallsOK'
    BY <1>14 DEF Register, FetchTo, CallsOK
  <2> QED BY <1>14, <2>1 DEF Register, TypeOK, CallsOK, Answers, tables
<1>15. ASSUME NEW f \in Fetches, Woken(f) PROVE TypeOK' /\ CallsOK'
  BY <1>15 DEF Woken, unregister, FetchTo, TypeOK, CallsOK, NoConnect, Answers, tables, calls, waiting
<1>16. ASSUME NEW f \in Fetches, AskAgain(f) PROVE TypeOK' /\ CallsOK'
  BY <1>16 DEF AskAgain, FetchTo, Answered, TypeOK, CallsOK, NoConnect, Answers, tables, calls, waiting
<1>17. ASSUME NEW f \in Fetches, GivesUp(f) PROVE TypeOK' /\ CallsOK'
  <2>1. CallsOK'
    BY <1>17 DEF GivesUp, unregister, FetchTo, CallsOK
  <2> QED BY <1>17, <2>1 DEF GivesUp, unregister, TypeOK, CallsOK, Answers, tables
<1>18. CASE Unlocked
  BY <1>18 DEF Unlocked, TypeOK, CallsOK, Answers, tables
<1>19. CASE UNCHANGED vars
  BY <1>19 DEF vars, TypeOK, CallsOK, Answers
<1> QED
  BY <1>1, <1>2, <1>3, <1>4, <1>5, <1>6, <1>7, <1>8, <1>9, <1>10, <1>11, <1>12, <1>13,
     <1>14, <1>15, <1>16, <1>17, <1>18, <1>19
  DEF Next, ConnectSteps, FetchSteps, TimesOut, Cancelled

\* No step takes a row away, gives a reference to another service or an identity
\* to another reference.
LEMMA KeptStep == IInv /\ [Next]_vars => Kept
<1> SUFFICES ASSUME IInv, [Next]_vars PROVE Kept
  OBVIOUS
<1> USE DEF IInv, Kept, TypeOK
<1>1. ASSUME NEW k \in Kinds, OwnerUnlocks(k) PROVE Kept
  BY <1>1 DEF OwnerUnlocks, tables, calls
<1>2. ASSUME NEW k \in Kinds, SourceCloses(k) PROVE Kept
  BY <1>2 DEF SourceCloses, tables, calls
<1>3. ASSUME NEW c \in Connects, Resolves(c) PROVE Kept
  BY <1>3 DEF Resolves, tables, calls
<1>4. ASSUME NEW c \in Connects, CreateRegistration(c) PROVE Kept
  <2>1. connect[c].spec \in Specs /\ connect[c].settled \in ReferenceRows \cup {Absent}
    BY <1>4 DEF CreateRegistration, CallsOK, Secured
  <2>2. Coordinate(connect[c].spec) \in Coordinates /\ Label(connect[c].spec) \in Labels
    BY <2>1, SpecParts
  <2> DEFINE x == Coordinate(connect[c].spec)
             new == [service |-> connect[c].spec.service, health |-> "ok"]
             row == IF references[x] = Absent THEN new ELSE references[x]
  <2>3. /\ providers' = providers \cup {connect[c].spec.kind}
        /\ references' = [references EXCEPT ![x] = row]
        /\ UNCHANGED <<declared, identities>>
    BY <1>4 DEF CreateRegistration
  <2>4. references[x] # Absent => row = references[x]
    OBVIOUS
  <2> HIDE DEF row, x
  <2> QED BY <2>3, <2>4
<1>5. ASSUME NEW c \in Connects, SettleReference(c) PROVE Kept
  <2>1. connect[c].spec \in Specs /\ connect[c].settled \in ReferenceRows \cup {Absent}
    BY <1>5 DEF SettleReference, CallsOK, Secured
  <2>2. Coordinate(connect[c].spec) \in Coordinates /\ Label(connect[c].spec) \in Labels
    BY <2>1, SpecParts
  <2>3. references[Coordinate(connect[c].spec)] \in ReferenceRows
    BY <1>5 DEF SettleReference, Secured
  <2> QED BY <1>5, <2>2, <2>3 DEF SettleReference, ReferenceRows, Health
<1>6. ASSUME NEW c \in Connects, EnsureDeclared(c) PROVE Kept
  BY <1>6 DEF EnsureDeclared, tables, calls
<1>7. ASSUME NEW c \in Connects, CreateIdentity(c) PROVE Kept
  <2> DEFINE label == [Label(connect[c].spec) EXCEPT !.service = connect[c].settled.service]
             row == [reference |-> Coordinate(connect[c].spec), status |-> "ok"]
  <2>1. /\ \/ identities' = identities
           \/ identities[label] = Absent /\ identities' = [identities EXCEPT ![label] = row]
        /\ UNCHANGED <<providers, references, declared>>
    BY <1>7 DEF CreateIdentity
  <2> HIDE DEF row, label
  <2> QED BY <2>1
<1>8. ASSUME NEW c \in Connects, ConnectBreaks(c) PROVE Kept
  BY <1>8 DEF ConnectBreaks, tables, calls
<1>9. ASSUME NEW v \in Verifies, Probe(v) PROVE Kept
  BY <1>9 DEF Probe, tables, calls
<1>10. ASSUME NEW v \in Verifies, SetReferenceHealth(v) PROVE Kept
  <2>1. /\ verify[v].label \in Labels /\ verify[v].health \in Health
        /\ identities[verify[v].label] \in IdentityRows
    BY <1>10 DEF SetReferenceHealth, Anchored
  <2> DEFINE x == identities[verify[v].label].reference
  <2>2. x \in Coordinates /\ references[x] \in ReferenceRows
    BY <2>1, AbsentAssumption DEF Anchored, IdentityRows
  <2>3. /\ references' = [references EXCEPT ![x].health = verify[v].health]
        /\ UNCHANGED <<providers, declared, identities>>
    BY <1>10 DEF SetReferenceHealth
  <2> HIDE DEF x
  <2> QED BY <2>1, <2>2, <2>3 DEF ReferenceRows
<1>11. ASSUME NEW v \in Verifies, SetIdentityStatus(v) PROVE Kept
  <2>1. verify[v].label \in Labels /\ identities[verify[v].label] \in IdentityRows
    BY <1>11 DEF SetIdentityStatus, Anchored
  <2> QED BY <1>11, <2>1 DEF SetIdentityStatus, IdentityRows
<1>12. ASSUME NEW f \in Fetches, Locate(f) PROVE Kept
  BY <1>12 DEF Locate, tables, calls
<1>13. ASSUME NEW f \in Fetches, AskSource(f) PROVE Kept
  BY <1>13 DEF AskSource, tables, calls
<1>14. ASSUME NEW f \in Fetches, Register(f) PROVE Kept
  BY <1>14 DEF Register, tables, calls
<1>15. ASSUME NEW f \in Fetches, Woken(f) PROVE Kept
  BY <1>15 DEF Woken, tables, calls
<1>16. ASSUME NEW f \in Fetches, AskAgain(f) PROVE Kept
  BY <1>16 DEF AskAgain, tables, calls
<1>17. ASSUME NEW f \in Fetches, GivesUp(f) PROVE Kept
  BY <1>17 DEF GivesUp, tables, calls
<1>18. CASE Unlocked
  BY <1>18 DEF Unlocked, tables
<1>19. CASE UNCHANGED vars
  BY <1>19 DEF vars
<1> QED
  BY <1>1, <1>2, <1>3, <1>4, <1>5, <1>6, <1>7, <1>8, <1>9, <1>10, <1>11, <1>12, <1>13,
     <1>14, <1>15, <1>16, <1>17, <1>18, <1>19
  DEF Next, ConnectSteps, FetchSteps, TimesOut, Cancelled

\* What a connection has secured stays secured as long as the call itself rests.
LEMMA SecuredRests ==
    ASSUME IInv, Kept, NEW d \in Connects, connect'[d] = connect[d]
    PROVE  Secured(d)'
<1>1. connect[d].at # "idle" =>
        /\ connect[d].spec \in Specs
        /\ Coordinate(connect[d].spec) \in Coordinates /\ Label(connect[d].spec) \in Labels
  BY SpecParts DEF IInv, Secured
<1> QED BY <1>1, AbsentAssumption DEF IInv, Secured, Kept, Coordinate, Label

\* No step takes back what a connection has secured.
LEMMA SecuredStep == IInv /\ [Next]_vars => \A d \in Connects : Secured(d)'
<1> SUFFICES ASSUME IInv, [Next]_vars PROVE \A d \in Connects : Secured(d)'
  OBVIOUS
<1> USE KeptStep DEF IInv
<1>1. ASSUME NEW k \in Kinds, OwnerUnlocks(k) PROVE \A d \in Connects : Secured(d)'
  BY <1>1, SecuredRests DEF OwnerUnlocks, tables, calls
<1>2. ASSUME NEW k \in Kinds, SourceCloses(k) PROVE \A d \in Connects : Secured(d)'
  BY <1>2, SecuredRests DEF SourceCloses, tables, calls
<1>3. ASSUME NEW c \in Connects, Resolves(c) PROVE \A d \in Connects : Secured(d)'
  <2>1. \A d \in Connects \ {c} : Secured(d)'
    BY <1>3, SecuredRests DEF Resolves, CallsOK
  <2>2. Secured(c)'
    BY <1>3 DEF Resolves, Secured, CallsOK, NoConnect
  <2> QED BY <2>1, <2>2
<1>4. ASSUME NEW c \in Connects, CreateRegistration(c) PROVE \A d \in Connects : Secured(d)'
  <2>1. \A d \in Connects \ {c} : Secured(d)'
    BY <1>4, SecuredRests DEF CreateRegistration, CallsOK
  <2>2. Secured(c)'
    <3> DEFINE spec == connect[c].spec
               x == Coordinate(spec)
               new == [service |-> spec.service, health |-> "ok"]
               row == IF references[x] = Absent THEN new ELSE references[x]
    <3>1. spec \in Specs /\ x \in Coordinates
      BY <1>4, SpecParts DEF CreateRegistration, Secured
    <3>2. row \in ReferenceRows
      BY <3>1 DEF ReferenceRows, Specs, Health, TypeOK
    <3>3. /\ spec.kind \in providers'
          /\ references' = [references EXCEPT ![x] = row]
          /\ connect'[c] = [at |-> "registered", spec |-> spec, settled |-> row]
      BY <1>4 DEF CreateRegistration, CallsOK
    <3> HIDE DEF row
    <3>4. references'[x] = row
      BY <3>1, <3>3 DEF TypeOK
    <3> QED BY <3>1, <3>2, <3>3, <3>4 DEF Secured, Coordinate
  <2> QED BY <2>1, <2>2
<1>5. ASSUME NEW c \in Connects, SettleReference(c) PROVE \A d \in Connects : Secured(d)'
  <2>1. \A d \in Connects \ {c} : Secured(d)'
    BY <1>5, SecuredRests DEF SettleReference, Refused, ConnectTo, CallsOK
  <2>2. Secured(c)'
    <3>1. CASE connect[c].settled.service # connect[c].spec.service
      BY <1>5, <3>1 DEF SettleReference, Refused, Secured, CallsOK, NoConnect
    <3>2. CASE connect[c].settled.service = connect[c].spec.service
      <4>1. connect' = [connect EXCEPT ![c].at = "referenced"]
        BY <1>5, <3>2 DEF SettleReference, ConnectTo
      <4>2. /\ connect'[c].at = "referenced" /\ connect'[c].spec = connect[c].spec
            /\ connect'[c].settled = connect[c].settled
        BY <4>1 DEF CallsOK
      <4>3. connect[c].spec \in Specs /\ Coordinate(connect[c].spec) \in Coordinates
        BY <1>5, SpecParts DEF SettleReference, Secured
      <4>4. /\ connect[c].settled \in ReferenceRows /\ connect[c].spec.kind \in providers
            /\ references[Coordinate(connect[c].spec)] \in ReferenceRows
            /\ references[Coordinate(connect[c].spec)].service = connect[c].settled.service
        BY <1>5 DEF SettleReference, Secured
      <4> QED BY <3>2, <4>2, <4>3, <4>4, AbsentAssumption DEF Secured, Kept, Coordinate
    <3> QED BY <3>1, <3>2
  <2> QED BY <2>1, <2>2
<1>6. ASSUME NEW c \in Connects, EnsureDeclared(c) PROVE \A d \in Connects : Secured(d)'
  <2>1. \A d \in Connects \ {c} : Secured(d)'
    BY <1>6, SecuredRests DEF EnsureDeclared, ConnectTo, CallsOK
  <2>2. Secured(c)'
    <3>1. /\ connect'[c].at = "declared" /\ connect'[c].spec = connect[c].spec
          /\ connect'[c].settled = connect[c].settled
          /\ connect[c].settled.service \in declared'
          /\ UNCHANGED <<providers, references>>
      BY <1>6 DEF EnsureDeclared, ConnectTo, CallsOK
    <3> QED BY <1>6, <3>1 DEF EnsureDeclared, Secured, Coordinate
  <2> QED BY <2>1, <2>2
<1>7. ASSUME NEW c \in Connects, CreateIdentity(c) PROVE \A d \in Connects : Secured(d)'
  <2>1. \A d \in Connects \ {c} : Secured(d)'
    BY <1>7, SecuredRests DEF CreateIdentity, Refused, ConnectTo, CallsOK
  <2>2. Secured(c)'
    <3> DEFINE spec == connect[c].spec
               label == [Label(spec) EXCEPT !.service = connect[c].settled.service]
               row == [reference |-> Coordinate(spec), status |-> "ok"]
    <3>1. spec \in Specs /\ Coordinate(spec) \in Coordinates /\ Label(spec) \in Labels
      BY <1>7, SpecParts DEF CreateIdentity, Secured
    <3>2. label = Label(spec)
      BY <1>7, <3>1 DEF CreateIdentity, Secured, Label, Labels
    <3>3. row \in IdentityRows /\ row.reference = Coordinate(spec)
      BY <3>1 DEF IdentityRows
    <3>4. CASE identities[label] # Absent
      BY <1>7, <3>4 DEF CreateIdentity, Refused, Secured, CallsOK, NoConnect
    <3>5. CASE identities[label] = Absent
      <4>1. identities' = [identities EXCEPT ![label] = row]
        BY <1>7, <3>5 DEF CreateIdentity
      <4>2. identities'[Label(spec)] = row
        BY <3>1, <3>2, <4>1 DEF TypeOK
      <4>3. connect' = [connect EXCEPT ![c].at = "created"]
        BY <1>7, <3>5 DEF CreateIdentity, ConnectTo
      <4>4. /\ connect'[c].at = "created" /\ connect'[c].spec = spec
            /\ connect'[c].settled = connect[c].settled
        BY <4>3 DEF CallsOK
      <4>5. UNCHANGED <<providers, references, declared>>
        BY <1>7 DEF CreateIdentity
      <4> HIDE DEF row
      <4> QED BY <1>7, <3>1, <3>3, <4>2, <4>4, <4>5 DEF CreateIdentity, Secured, Coordinate, Label
    <3> QED BY <3>4, <3>5
  <2> QED BY <2>1, <2>2
<1>8. ASSUME NEW c \in Connects, ConnectBreaks(c) PROVE \A d \in Connects : Secured(d)'
  <2>1. \A d \in Connects \ {c} : Secured(d)'
    BY <1>8, SecuredRests DEF ConnectBreaks, Refused, CallsOK
  <2>2. Secured(c)'
    BY <1>8 DEF ConnectBreaks, Refused, Secured, CallsOK, NoConnect
  <2> QED BY <2>1, <2>2
<1>9. ASSUME NEW v \in Verifies, Probe(v) PROVE \A d \in Connects : Secured(d)'
  BY <1>9, SecuredRests DEF Probe, tables, calls
<1>10. ASSUME NEW v \in Verifies, SetReferenceHealth(v) PROVE \A d \in Connects : Secured(d)'
  BY <1>10, SecuredRests DEF SetReferenceHealth, tables, calls
<1>11. ASSUME NEW v \in Verifies, SetIdentityStatus(v) PROVE \A d \in Connects : Secured(d)'
  BY <1>11, SecuredRests DEF SetIdentityStatus, tables, calls
<1>12. ASSUME NEW f \in Fetches, Locate(f) PROVE \A d \in Connects : Secured(d)'
  BY <1>12, SecuredRests DEF Locate, tables, calls
<1>13. ASSUME NEW f \in Fetches, AskSource(f) PROVE \A d \in Connects : Secured(d)'
  BY <1>13, SecuredRests DEF AskSource, tables, calls
<1>14. ASSUME NEW f \in Fetches, Register(f) PROVE \A d \in Connects : Secured(d)'
  BY <1>14, SecuredRests DEF Register, tables, calls
<1>15. ASSUME NEW f \in Fetches, Woken(f) PROVE \A d \in Connects : Secured(d)'
  BY <1>15, SecuredRests DEF Woken, tables, calls
<1>16. ASSUME NEW f \in Fetches, AskAgain(f) PROVE \A d \in Connects : Secured(d)'
  BY <1>16, SecuredRests DEF AskAgain, tables, calls
<1>17. ASSUME NEW f \in Fetches, GivesUp(f) PROVE \A d \in Connects : Secured(d)'
  BY <1>17, SecuredRests DEF GivesUp, tables, calls
<1>18. CASE Unlocked
  BY <1>18, SecuredRests DEF Unlocked
<1>19. CASE UNCHANGED vars
  BY <1>19, SecuredRests DEF vars
<1> QED
  BY <1>1, <1>2, <1>3, <1>4, <1>5, <1>6, <1>7, <1>8, <1>9, <1>10, <1>11, <1>12, <1>13,
     <1>14, <1>15, <1>16, <1>17, <1>18, <1>19
  DEF Next, ConnectSteps, FetchSteps, TimesOut, Cancelled

\* Whatever is anchored stays so while no identity is added and no probe moves.
LEMMA AnchoredRests ==
    ASSUME IInv, Kept, identities' = identities, verify' = verify
    PROVE  Anchored'
  BY AbsentAssumption DEF IInv, Anchored, Kept, TypeOK, IdentityRows

\* Identities keep their references, and probes their identities.
LEMMA AnchoredStep == IInv /\ [Next]_vars => Anchored'
<1> SUFFICES ASSUME IInv, [Next]_vars PROVE Anchored'
  OBVIOUS
<1> USE KeptStep DEF IInv
<1>1. ASSUME NEW k \in Kinds, OwnerUnlocks(k) PROVE Anchored'
  BY <1>1, AnchoredRests DEF OwnerUnlocks, tables, calls
<1>2. ASSUME NEW k \in Kinds, SourceCloses(k) PROVE Anchored'
  BY <1>2, AnchoredRests DEF SourceCloses, tables, calls
<1>3. ASSUME NEW c \in Connects, Resolves(c) PROVE Anchored'
  BY <1>3, AnchoredRests DEF Resolves, tables, calls
<1>4. ASSUME NEW c \in Connects, CreateRegistration(c) PROVE Anchored'
  BY <1>4, AnchoredRests DEF CreateRegistration, tables, calls
<1>5. ASSUME NEW c \in Connects, SettleReference(c) PROVE Anchored'
  BY <1>5, AnchoredRests DEF SettleReference, tables, calls
<1>6. ASSUME NEW c \in Connects, EnsureDeclared(c) PROVE Anchored'
  BY <1>6, AnchoredRests DEF EnsureDeclared, tables, calls
<1>7. ASSUME NEW c \in Connects, CreateIdentity(c) PROVE Anchored'
  <2> DEFINE spec == connect[c].spec
             label == [Label(spec) EXCEPT !.service = connect[c].settled.service]
             row == [reference |-> Coordinate(spec), status |-> "ok"]
  <2>1. row.reference = Coordinate(spec) /\ references[Coordinate(spec)] \in ReferenceRows
    BY <1>7 DEF CreateIdentity, Secured
  <2>2. /\ identities' = identities \/ identities' = [identities EXCEPT ![label] = row]
        /\ UNCHANGED <<references, verify>>
    BY <1>7 DEF CreateIdentity
  <2> HIDE DEF row, label
  <2>3. \A l \in Labels : identities'[l] = identities[l] \/ identities'[l] = row
    BY <2>2 DEF TypeOK
  <2>4. \A l \in Labels : identities'[l] # Absent =>
            references'[identities'[l].reference] \in ReferenceRows
    BY <2>1, <2>2, <2>3 DEF Anchored
  <2>5. \A v \in Verifies : verify[v].at # "idle" =>
            identities'[verify[v].label] \in IdentityRows
    BY AbsentAssumption DEF Anchored, Kept
  <2> QED BY <2>2, <2>4, <2>5 DEF Anchored
<1>8. ASSUME NEW c \in Connects, ConnectBreaks(c) PROVE Anchored'
  BY <1>8, AnchoredRests DEF ConnectBreaks, tables, calls
<1>9. ASSUME NEW v \in Verifies, Probe(v) PROVE Anchored'
  <2>1. PICK l \in Labels :
          /\ identities[l] # Absent
          /\ verify' = [verify EXCEPT ![v] =
                [at |-> "probed", label |-> l,
                 health |-> IF Available(identities[l].reference.kind)
                            THEN "ok" ELSE "unavailable"]]
    BY <1>9 DEF Probe
  <2>2. UNCHANGED <<references, identities>>
    BY <1>9 DEF Probe, tables
  <2>3. /\ verify'[v].label = l /\ verify'[v].health \in Health
        /\ \A w \in Verifies \ {v} : verify'[w] = verify[w]
    BY <2>1 DEF CallsOK, Health
  <2> QED BY <2>1, <2>2, <2>3 DEF Anchored, TypeOK
<1>10. ASSUME NEW v \in Verifies, SetReferenceHealth(v) PROVE Anchored'
  <2>1. /\ \A w \in Verifies : /\ verify'[w].label = verify[w].label
                               /\ verify'[w].health = verify[w].health
                               /\ verify'[w].at # "idle" => verify[w].at # "idle"
        /\ UNCHANGED identities
    BY <1>10 DEF SetReferenceHealth, CallsOK
  <2> QED BY <2>1, AbsentAssumption DEF Anchored, Kept, TypeOK, IdentityRows
<1>11. ASSUME NEW v \in Verifies, SetIdentityStatus(v) PROVE Anchored'
  <2>1. /\ \A w \in Verifies \ {v} : verify'[w] = verify[w]
        /\ verify'[v].at = "idle"
        /\ UNCHANGED references
    BY <1>11 DEF SetIdentityStatus, CallsOK, NoVerify
  <2>2. verify[v].label \in Labels /\ identities[verify[v].label] \in IdentityRows
    BY <1>11 DEF SetIdentityStatus, Anchored
  <2>3. \A l \in Labels : identities'[l] # Absent => identities[l] # Absent
    BY <1>11, <2>2, AbsentAssumption DEF SetIdentityStatus, TypeOK
  <2>4. \A l \in Labels : identities'[l] # Absent =>
            references'[identities'[l].reference] \in ReferenceRows
    BY <2>1, <2>3 DEF Anchored, Kept
  <2>5. \A w \in Verifies : verify'[w].at # "idle" =>
            /\ verify'[w].label \in Labels /\ verify'[w].health \in Health
            /\ identities'[verify'[w].label] \in IdentityRows
    BY <2>1, AbsentAssumption DEF Anchored, Kept
  <2> QED BY <2>4, <2>5 DEF Anchored
<1>12. ASSUME NEW f \in Fetches, Locate(f) PROVE Anchored'
  BY <1>12, AnchoredRests DEF Locate, tables, calls
<1>13. ASSUME NEW f \in Fetches, AskSource(f) PROVE Anchored'
  BY <1>13, AnchoredRests DEF AskSource, tables, calls
<1>14. ASSUME NEW f \in Fetches, Register(f) PROVE Anchored'
  BY <1>14, AnchoredRests DEF Register, tables, calls
<1>15. ASSUME NEW f \in Fetches, Woken(f) PROVE Anchored'
  BY <1>15, AnchoredRests DEF Woken, tables, calls
<1>16. ASSUME NEW f \in Fetches, AskAgain(f) PROVE Anchored'
  BY <1>16, AnchoredRests DEF AskAgain, tables, calls
<1>17. ASSUME NEW f \in Fetches, GivesUp(f) PROVE Anchored'
  BY <1>17, AnchoredRests DEF GivesUp, tables, calls
<1>18. CASE Unlocked
  BY <1>18, AnchoredRests DEF Unlocked, tables
<1>19. CASE UNCHANGED vars
  BY <1>19, AnchoredRests DEF vars
<1> QED
  BY <1>1, <1>2, <1>3, <1>4, <1>5, <1>6, <1>7, <1>8, <1>9, <1>10, <1>11, <1>12, <1>13,
     <1>14, <1>15, <1>16, <1>17, <1>18, <1>19
  DEF Next, ConnectSteps, FetchSteps, TimesOut, Cancelled

\* The list of waiters stays exact: whoever stops waiting leaves it, and only the
\* broadcast moves a call from the list to the closed channels.
LEMMA WaitStep == IInv /\ [Next]_vars => WaitersAreAccounted' /\ ClosedWait'
<1> SUFFICES ASSUME IInv, [Next]_vars PROVE WaitersAreAccounted' /\ ClosedWait'
  OBVIOUS
<1> USE DEF IInv, WaitersAreAccounted, ClosedWait
<1>1. ASSUME NEW k \in Kinds, OwnerUnlocks(k) PROVE WaitersAreAccounted' /\ ClosedWait'
  BY <1>1 DEF OwnerUnlocks, calls, waiting
<1>2. ASSUME NEW k \in Kinds, SourceCloses(k) PROVE WaitersAreAccounted' /\ ClosedWait'
  BY <1>2 DEF SourceCloses, calls, waiting
<1>3. ASSUME NEW c \in Connects, Resolves(c) PROVE WaitersAreAccounted' /\ ClosedWait'
  BY <1>3 DEF Resolves, calls, waiting
<1>4. ASSUME NEW c \in Connects, CreateRegistration(c) PROVE WaitersAreAccounted' /\ ClosedWait'
  BY <1>4 DEF CreateRegistration, calls, waiting
<1>5. ASSUME NEW c \in Connects, SettleReference(c) PROVE WaitersAreAccounted' /\ ClosedWait'
  BY <1>5 DEF SettleReference, calls, waiting
<1>6. ASSUME NEW c \in Connects, EnsureDeclared(c) PROVE WaitersAreAccounted' /\ ClosedWait'
  BY <1>6 DEF EnsureDeclared, calls, waiting
<1>7. ASSUME NEW c \in Connects, CreateIdentity(c) PROVE WaitersAreAccounted' /\ ClosedWait'
  BY <1>7 DEF CreateIdentity, calls, waiting
<1>8. ASSUME NEW c \in Connects, ConnectBreaks(c) PROVE WaitersAreAccounted' /\ ClosedWait'
  BY <1>8 DEF ConnectBreaks, calls, waiting
<1>9. ASSUME NEW v \in Verifies, Probe(v) PROVE WaitersAreAccounted' /\ ClosedWait'
  BY <1>9 DEF Probe, calls, waiting
<1>10. ASSUME NEW v \in Verifies, SetReferenceHealth(v) PROVE WaitersAreAccounted' /\ ClosedWait'
  BY <1>10 DEF SetReferenceHealth, calls, waiting
<1>11. ASSUME NEW v \in Verifies, SetIdentityStatus(v) PROVE WaitersAreAccounted' /\ ClosedWait'
  BY <1>11 DEF SetIdentityStatus, calls, waiting
<1>12. ASSUME NEW f \in Fetches, Locate(f) PROVE WaitersAreAccounted' /\ ClosedWait'
  BY <1>12 DEF Locate, waiting, TypeOK, CallsOK
<1>13. ASSUME NEW f \in Fetches, AskSource(f) PROVE WaitersAreAccounted' /\ ClosedWait'
  BY <1>13 DEF AskSource, FetchTo, Answered, waiting, TypeOK, CallsOK
<1>14. ASSUME NEW f \in Fetches, Register(f) PROVE WaitersAreAccounted' /\ ClosedWait'
  BY <1>14 DEF Register, FetchTo, waiting, TypeOK, CallsOK
<1>15. ASSUME NEW f \in Fetches, Woken(f) PROVE WaitersAreAccounted' /\ ClosedWait'
  BY <1>15 DEF Woken, unregister, FetchTo, waiting, TypeOK, CallsOK
<1>16. ASSUME NEW f \in Fetches, AskAgain(f) PROVE WaitersAreAccounted' /\ ClosedWait'
  BY <1>16 DEF AskAgain, FetchTo, Answered, waiting, TypeOK, CallsOK
<1>17. ASSUME NEW f \in Fetches, GivesUp(f) PROVE WaitersAreAccounted' /\ ClosedWait'
  BY <1>17 DEF GivesUp, unregister, FetchTo, waiting, TypeOK, CallsOK
<1>18. CASE Unlocked
  BY <1>18 DEF Unlocked
<1>19. CASE UNCHANGED vars
  BY <1>19 DEF vars
<1> QED
  BY <1>1, <1>2, <1>3, <1>4, <1>5, <1>6, <1>7, <1>8, <1>9, <1>10, <1>11, <1>12, <1>13,
     <1>14, <1>15, <1>16, <1>17, <1>18, <1>19
  DEF Next, ConnectSteps, FetchSteps, TimesOut, Cancelled

-----------------------------------------------------------------------------
LEMMA InitIInv == Init => IInv
<1> SUFFICES ASSUME Init PROVE IInv
  OBVIOUS
<1> USE DEF Init, NoConnect, NoVerify, NoFetch
<1>1. TypeOK
  BY DEF TypeOK, Answers
<1>2. CallsOK
  BY DEF CallsOK
<1>3. \A c \in Connects : Secured(c)
  BY DEF Secured
<1>4. Anchored
  BY DEF Anchored
<1>5. WaitersAreAccounted /\ ClosedWait
  BY DEF WaitersAreAccounted, ClosedWait
<1> QED BY <1>1, <1>2, <1>3, <1>4, <1>5 DEF IInv

LEMMA Inductive == Spec => []IInv
<1>1. IInv /\ [Next]_vars => IInv'
  BY TypeStep, SecuredStep, AnchoredStep, WaitStep DEF IInv
<1> QED BY InitIInv, <1>1, PTL DEF Spec

\* Type correctness of the tables and the calls (credential/registry).
THEOREM CredentialTypes == Spec => []TypeOK
<1>1. IInv => TypeOK
  BY DEF IInv
<1> QED BY Inductive, <1>1, PTL

\* connectIdentity, RegisterReference: however many connections race for the same
\* coordinates, break off or run beside probes, an identity reported as connected
\* leans on the coordinates and the service its owner named.
THEOREM ConnectionsAreAsAsked == Spec => []ConnectedAsAsked
<1>1. IInv => ConnectedAsAsked
  <2> SUFFICES ASSUME IInv, NEW c \in Connects, connect[c].at = "created"
               PROVE  /\ connect[c].spec.service \in declared
                      /\ connect[c].spec.kind \in providers
                      /\ identities[Label(connect[c].spec)] # Absent
                      /\ identities[Label(connect[c].spec)].reference = Coordinate(connect[c].spec)
                      /\ references[Coordinate(connect[c].spec)].service = connect[c].spec.service
    BY DEF ConnectedAsAsked
  <2> QED BY AbsentAssumption DEF IInv, Secured
<1> QED BY Inductive, <1>1, PTL

\* UnlockWaiter: the list holds exactly the calls that wait and were not woken, for
\* any number of calls, broadcasts, deadlines and callers that go away.
THEOREM WaitingIsExact == Spec => []WaitersAreAccounted
<1>1. IInv => WaitersAreAccounted
  BY DEF IInv
<1> QED BY Inductive, <1>1, PTL

=============================================================================
