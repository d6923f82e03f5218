---------------------------- MODULE VaultProofs -----------------------------
(***************************************************************************)
(* Proofs about the local vault, for any passwords and entries, any idle   *)
(* timeout, lockout and number of failures: guesses are spaced, strong     *)
(* authentication is recent, and a write that is cut leaves the file whole.*)
(***************************************************************************)
EXTENDS Vault, SequenceTheorems, TLAPS

\* The operation has replaced the file and is still to be answered.
Replaced == job # Absent /\ job.at = "renamed"

\* The file changes with the rename and with nothing else, and what is renamed
\* is what the operation sealed.
Written ==
    /\ job # Absent /\ job.at = "rename" => temp = job.seal
    /\ IF Replaced THEN file = job.seal ELSE file = claim

\* While the vault is open the owner was let in, or used it, `idle` ticks ago.
OpenSince == master # Absent => served = idle

\* Older wrong passwords come first.
Ordered == \A i, j \in 1..Len(wrong) : i <= j => wrong[j] <= wrong[i]

\* Behind the wrong passwords of the current count is the one that started the
\* last lockout, and what is left of that lockout makes up for its age.
Counted ==
    /\ failures <= Len(wrong)
    /\ failures < Len(wrong) => wrong[Len(wrong) - failures] + lockout >= LockoutDuration

IInv ==
    /\ TypeOK
    /\ Written
    /\ OpenSince
    /\ StrongAuthIsRecent
    /\ Ordered
    /\ Counted
    /\ GuessesAreSpaced

-----------------------------------------------------------------------------
(* The ages of the wrong passwords *)

\* The history of wrong passwords is a sequence of bounded length.
LEMMA BoundedSequences ==
    ASSUME NEW S, NEW n \in Nat, NEW s
    PROVE  s \in BoundedSeq(S, n) <=> s \in Seq(S) /\ Len(s) <= n
<1>1. ASSUME s \in BoundedSeq(S, n) PROVE s \in Seq(S) /\ Len(s) <= n
  <2>1. PICK m \in 0..n : s \in [1..m -> S]
    BY <1>1 DEF BoundedSeq, SeqOf
  <2> QED BY <2>1
<1>2. ASSUME s \in Seq(S), Len(s) <= n PROVE s \in BoundedSeq(S, n)
  <2>1. Len(s) \in 0..n /\ s \in [1..Len(s) -> S]
    BY <1>2
  <2> QED BY <2>1 DEF BoundedSeq, SeqOf
<1> QED BY <1>1, <1>2

\* The history starts, and starts again, empty.
LEMMA NoneWrong == <<>> \in BoundedSeq(0..LockoutDuration, MaxFailures + 1)
<1>1. MaxFailures + 1 \in Nat /\ 0 <= MaxFailures + 1
  BY VaultAssumption
<1> DEFINE e == <<>>
<1>2. e \in Seq(0..LockoutDuration) /\ Len(e) = 0
  BY EmptySeq
<1> HIDE DEF e
<1>3. e \in BoundedSeq(0..LockoutDuration, MaxFailures + 1)
  BY <1>1, <1>2, BoundedSequences
<1> QED BY <1>3 DEF e

\* w is the history without its k oldest entries and with a new one.
Shifted(w, k) ==
    /\ k = 1 => Len(wrong) = MaxFailures + 1
    /\ Len(w) = Len(wrong) + 1 - k
    /\ w[Len(w)] = 0
    /\ \A i \in 1..(Len(wrong) - k) : w[i] = wrong[i + k]

\* Recording one more wrong password drops the oldest of MaxFailures + 1 and
\* no other.
LEMMA RecordedShifts ==
    ASSUME TypeOK
    PROVE  LET w == Recorded(Append(wrong, 0))
           IN  /\ w \in Seq(0..LockoutDuration) /\ Len(w) <= MaxFailures + 1
               /\ \E k \in {0, 1} : Shifted(w, k)
<1> DEFINE S == 0..LockoutDuration
           n == Len(wrong)
           a == Append(wrong, 0)
<1>1. MaxFailures \in Nat /\ MaxFailures + 1 \in Nat /\ MaxFailures >= 1 /\ 0 \in S
  BY VaultAssumption
<1>2. wrong \in Seq(S) /\ n <= MaxFailures + 1 /\ n \in Nat
  BY <1>1, BoundedSequences DEF TypeOK
<1>3. a \in Seq(S) /\ Len(a) = n + 1 /\ a[n + 1] = 0 /\ \A i \in 1..n : a[i] = wrong[i]
  BY <1>1, <1>2
<1>4. CASE n = MaxFailures + 1
  <2>1. Recorded(a) = Tail(a)
    BY <1>1, <1>2, <1>3, <1>4 DEF Recorded
  <2> DEFINE t == Tail(a)
  <2>2. t \in Seq(S) /\ Len(t) = n /\ \A i \in 1..n : t[i] = a[i + 1]
    BY <1>2, <1>3
  <2> HIDE DEF a, t
  <2>3. \A i \in 1..(n - 1) : t[i] = wrong[i + 1]
    <3> SUFFICES ASSUME NEW i \in 1..(n - 1) PROVE t[i] = wrong[i + 1]
      OBVIOUS
    <3>1. i \in 1..n /\ i + 1 \in 1..n
      BY <1>2
    <3> QED BY <1>3, <2>2, <3>1
  <2>4. Len(t) = n /\ t[n] = 0
    <3>1. n \in 1..n
      BY <1>1, <1>2, <1>4
    <3>2. t[n] = a[n + 1]
      BY <2>2, <3>1
    <3> QED BY <1>3, <2>2, <3>2
  <2>5. Shifted(t, 1)
    BY <1>2, <1>4, <2>3, <2>4 DEF Shifted
  <2> QED BY <1>2, <2>1, <2>2, <2>5 DEF a, t
<1>5. CASE n # MaxFailures + 1
  <2>1. Recorded(a) = a
    BY <1>1, <1>2, <1>3, <1>5 DEF Recorded
  <2> HIDE DEF a
  <2>2. Shifted(a, 0) /\ Len(a) <= MaxFailures + 1
    BY <1>1, <1>2, <1>3, <1>5 DEF Shifted
  <2> QED BY <1>3, <2>1, <2>2 DEF a
<1> QED BY <1>4, <1>5

\* A tick changes no length and makes every age one older, up to the limit.
LEMMA AgedKeeps ==
    ASSUME TypeOK
    PROVE  LET w == Aged(wrong, LockoutDuration)
           IN  /\ w \in Seq(0..LockoutDuration) /\ Len(w) = Len(wrong)
               /\ \A i \in 1..Len(wrong) : w[i] = Capped(wrong[i] + 1, LockoutDuration)
<1> DEFINE S == 0..LockoutDuration
           w == Aged(wrong, LockoutDuration)
<1>1. wrong \in Seq(S) /\ Len(wrong) \in Nat /\ DOMAIN wrong = 1..Len(wrong)
  BY VaultAssumption, BoundedSequences DEF TypeOK
<1>2. \A i \in 1..Len(wrong) : wrong[i] \in S
  BY <1>1, ElementOfSeq
<1>3. w = [i \in 1..Len(wrong) |-> Capped(wrong[i] + 1, LockoutDuration)]
  BY <1>1 DEF Aged
<1>4. \A i \in 1..Len(wrong) : Capped(wrong[i] + 1, LockoutDuration) \in S
  BY <1>2, VaultAssumption DEF Capped
<1>5. w \in [1..Len(wrong) -> S]
  BY <1>3, <1>4
<1> QED BY <1>1, <1>3, <1>5

-----------------------------------------------------------------------------
(* Every variable stays in its type *)

\* Sealing an entry of the file gives a file.
LEMMA SealedEntry ==
    ASSUME NEW m \in Masters, NEW e \in Entries, NEW n \in Names, NEW v \in Values \cup {Absent}
    PROVE  Seal(m, [e EXCEPT ![n] = v]) \in Sealed
  BY DEF Seal, Sealed, Entries

\* No step leaves the types.
LEMMA TypeStep == IInv /\ [Next]_vars => TypeOK'
<1> SUFFICES ASSUME IInv, [Next]_vars PROVE TypeOK'
  OBVIOUS
<1> USE VaultAssumption DEF IInv
<1>1. ASSUME NEW m \in Masters, Create(m) PROVE TypeOK'
  <2>1. Seal(m, Empty) \in Sealed
    BY DEF Seal, Sealed, Entries, Empty
  <2>2. job' \in Jobs
    BY <1>1, <2>1 DEF Create, Begin, Jobs
  <2> QED BY <1>1, <2>2 DEF Create, Unanswered, history, TypeOK
<1>2. ASSUME NEW m \in Masters, Unlock(m) PROVE TypeOK'
  <2>1. CASE lockout > 0
    BY <1>2, <2>1 DEF Unlock, LockedOut, memory, TypeOK
  <2>2. CASE lockout = 0 /\ ~readEntries(m)
    <3>1. WrongPassword /\ pending < MaxPending /\ UNCHANGED <<file, temp, backup, job, strong, claim>>
      BY <1>2, <2>2 DEF Unlock
    <3>2. wrong' \in BoundedSeq(0..LockoutDuration, MaxFailures + 1)
      BY <3>1, RecordedShifts, BoundedSequences DEF WrongPassword
    <3>3. failures' \in 0..(MaxFailures - 1) /\ lockout' \in 0..LockoutDuration
              /\ pending' \in 0..MaxPending
      BY <3>1 DEF WrongPassword, TypeOK
    <3> QED BY <3>1, <3>2, <3>3 DEF WrongPassword, lockLocked, TypeOK
  <2>3. CASE lockout = 0 /\ readEntries(m)
    BY <1>2, <2>3, NoneWrong DEF Unlock, unlockLocked, TypeOK
  <2> QED BY <2>1, <2>2, <2>3 DEF TypeOK
<1>3. ASSUME NEW m \in Masters, RestoreBackup(m) PROVE TypeOK'
  <2>1. CASE Open(m, backup)
    <3>1. backup \in Sealed
      BY <2>1 DEF Open, HasHeader
    <3>2. job' \in Jobs
      BY <1>3, <2>1, <3>1 DEF RestoreBackup, Begin, Jobs
    <3> QED BY <1>3, <2>1, <3>2 DEF RestoreBackup, TypeOK
  <2>2. CASE ~Open(m, backup)
    BY <1>3, <2>2 DEF RestoreBackup, lockLocked, TypeOK
  <2> QED BY <2>1, <2>2
<1>4. ASSUME NEW n \in Names, Delete(n) PROVE TypeOK'
  <2>1. master \in Masters /\ file \in Sealed /\ file.entries \in Entries
    BY <1>4 DEF Delete, activeLocked, readEntries, Open, HasHeader, TypeOK, Sealed
  <2>2. Seal(master, [file.entries EXCEPT ![n] = Absent]) \in Sealed
    BY <2>1, SealedEntry
  <2>3. job' \in Jobs
    BY <1>4, <2>2 DEF Delete, Begin, Jobs
  <2> QED BY <1>4, <2>3 DEF Delete, Unanswered, history, TypeOK
<1>5. ASSUME NEW n \in Names, NEW v \in Values, Put(n, v) PROVE TypeOK'
  <2>1. master \in Masters /\ file \in Sealed /\ file.entries \in Entries
    BY <1>5 DEF Put, activeLocked, readEntries, Open, HasHeader, TypeOK, Sealed
  <2>2. Seal(master, [file.entries EXCEPT ![n] = v]) \in Sealed
    BY <2>1, SealedEntry
  <2>3. job' \in Jobs
    BY <1>5, <2>2 DEF Put, Begin, Jobs
  <2> QED BY <1>5, <2>3 DEF Put, Unanswered, history, TypeOK
<1>6. ASSUME OpenTemp PROVE TypeOK'
  BY <1>6 DEF OpenTemp, Free, Jobs, memory, history, TypeOK
<1>7. ASSUME WriteTemp PROVE TypeOK'
  BY <1>7 DEF WriteTemp, Free, Jobs, memory, history, TypeOK
<1>8. ASSUME Rename PROVE TypeOK'
  BY <1>8 DEF Rename, Free, Jobs, memory, history, TypeOK
<1>a. ASSUME Answer PROVE TypeOK'
  <2>1. job.seal \in Sealed /\ job.seal.master \in Masters
    BY <1>a DEF Answer, Free, Jobs, Sealed, TypeOK
  <2> QED BY <1>a, <2>1 DEF Answer, unlockLocked, TypeOK
<1>9. ASSUME WriteFails PROVE TypeOK'
  BY <1>9 DEF WriteFails, Free, memory, history, TypeOK
<1>10. ASSUME Read PROVE TypeOK'
  BY <1>10 DEF Read, touchLocked, TypeOK
<1>11. ASSUME ExportBackup PROVE TypeOK'
  BY <1>11 DEF ExportBackup, HasHeader, memory, history, TypeOK
<1>12. ASSUME FoundIdle PROVE TypeOK'
  BY <1>12 DEF FoundIdle, lockLocked, history, TypeOK
<1>13. ASSUME Lock PROVE TypeOK'
  BY <1>13 DEF Lock, lockLocked, TypeOK
<1>14. ASSUME RecordStrongAuthLocked PROVE TypeOK'
  BY <1>14 DEF RecordStrongAuthLocked, memory, history, TypeOK
<1>15. ASSUME StrongAuthCompleted PROVE TypeOK'
  BY <1>15 DEF StrongAuthCompleted, memory, TypeOK
<1>16. ASSUME Tick PROVE TypeOK'
  <2>1. wrong' \in BoundedSeq(0..LockoutDuration, MaxFailures + 1)
    <3>1. wrong \in Seq(0..LockoutDuration) /\ Len(wrong) <= MaxFailures + 1
      BY BoundedSequences DEF TypeOK
    <3>2. wrong' \in Seq(0..LockoutDuration) /\ Len(wrong') <= MaxFailures + 1
      BY <1>16, <3>1, AgedKeeps DEF Tick
    <3> QED BY <3>2, BoundedSequences
  <2>2. idle' \in 0..IdleTimeout /\ served' \in 0..IdleTimeout /\ lockout' \in 0..LockoutDuration
    BY <1>16 DEF Tick, Capped, TypeOK
  <2> QED BY <1>16, <2>1, <2>2 DEF Tick, TypeOK
<1>17. ASSUME Crash PROVE TypeOK'
  <2>1. claim' \in Sealed \cup {Absent}
    BY <1>17 DEF Crash, TypeOK, Jobs, Written
  <2> QED BY <1>17, <2>1, NoneWrong DEF Crash, lockLocked, TypeOK
<1>18. CASE UNCHANGED vars
  BY <1>18 DEF vars, TypeOK
<1> QED BY <1>1, <1>2, <1>3, <1>4, <1>5, <1>6, <1>7, <1>8, <1>a, <1>9, <1>10, <1>11, <1>12, <1>13, <1>14, <1>15, <1>16, <1>17, <1>18 DEF Next

-----------------------------------------------------------------------------
(* What each step does to the file, to strong authentication and to the count *)

\* What is renamed is what was sealed, and the file changes with nothing else.
LEMMA WrittenStep == IInv /\ [Next]_vars => Written'
<1> SUFFICES ASSUME IInv, [Next]_vars PROVE Written'
  OBVIOUS
<1> USE DEF IInv, Written, Replaced
<1>1. ASSUME NEW m \in Masters, Create(m) PROVE Written'
  BY <1>1 DEF Create, Begin, Free, Unanswered, history
<1>2. ASSUME NEW m \in Masters, Unlock(m) PROVE Written'
  BY <1>2 DEF Unlock
<1>3. ASSUME NEW m \in Masters, RestoreBackup(m) PROVE Written'
  BY <1>3 DEF RestoreBackup, Begin, Free
<1>4. ASSUME NEW n \in Names, Delete(n) PROVE Written'
  BY <1>4 DEF Delete, Begin, Free, Unanswered, history
<1>5. ASSUME NEW n \in Names, NEW v \in Values, Put(n, v) PROVE Written'
  BY <1>5 DEF Put, Begin, Free, Unanswered, history
<1>6. ASSUME OpenTemp PROVE Written'
  BY <1>6 DEF OpenTemp, history, Free, TypeOK, Jobs
<1>7. ASSUME WriteTemp PROVE Written'
  BY <1>7 DEF WriteTemp, history, Free, TypeOK, Jobs
<1>8. ASSUME Rename PROVE Written'
  BY <1>8, NoJobAssumption DEF Rename, Free, TypeOK, Jobs, history
<1>a. ASSUME Answer PROVE Written'
  BY <1>a DEF Answer, Free
<1>9. ASSUME WriteFails PROVE Written'
  BY <1>9 DEF WriteFails, history
<1>10. ASSUME Read PROVE Written'
  BY <1>10 DEF Read
<1>11. ASSUME ExportBackup PROVE Written'
  BY <1>11 DEF ExportBackup, history
<1>12. ASSUME FoundIdle PROVE Written'
  BY <1>12 DEF FoundIdle, history
<1>13. ASSUME Lock PROVE Written'
  BY <1>13 DEF Lock
<1>14. ASSUME RecordStrongAuthLocked PROVE Written'
  BY <1>14 DEF RecordStrongAuthLocked, history
<1>15. ASSUME StrongAuthCompleted PROVE Written'
  BY <1>15 DEF StrongAuthCompleted
<1>16. ASSUME Tick PROVE Written'
  BY <1>16 DEF Tick
<1>17. ASSUME Crash PROVE Written'
  BY <1>17 DEF Crash
<1>18. CASE UNCHANGED vars
  BY <1>18 DEF vars
<1> QED BY <1>1, <1>2, <1>3, <1>4, <1>5, <1>6, <1>7, <1>8, <1>a, <1>9, <1>10, <1>11, <1>12, <1>13, <1>14, <1>15, <1>16, <1>17, <1>18 DEF Next

\* Strong authentication goes to the owner of an open vault, and the vault is
\* open only to one who was let in.
LEMMA StrongStep == IInv /\ [Next]_vars => OpenSince' /\ StrongAuthIsRecent'
<1> SUFFICES ASSUME IInv, [Next]_vars PROVE OpenSince' /\ StrongAuthIsRecent'
  OBVIOUS
<1> USE VaultAssumption DEF IInv, OpenSince, StrongAuthIsRecent
<1>1. ASSUME NEW m \in Masters, Create(m) PROVE OpenSince' /\ StrongAuthIsRecent'
  BY <1>1 DEF Create, Unanswered, history
<1>2. ASSUME NEW m \in Masters, Unlock(m) PROVE OpenSince' /\ StrongAuthIsRecent'
  BY <1>2 DEF Unlock, unlockLocked, WrongPassword, lockLocked, LockedOut, memory
<1>3. ASSUME NEW m \in Masters, RestoreBackup(m) PROVE OpenSince' /\ StrongAuthIsRecent'
  BY <1>3 DEF RestoreBackup, lockLocked
<1>4. ASSUME NEW n \in Names, Delete(n) PROVE OpenSince' /\ StrongAuthIsRecent'
  BY <1>4 DEF Delete, Unanswered, history
<1>5. ASSUME NEW n \in Names, NEW v \in Values, Put(n, v) PROVE OpenSince' /\ StrongAuthIsRecent'
  BY <1>5 DEF Put, Unanswered, history
<1>6. ASSUME OpenTemp PROVE OpenSince' /\ StrongAuthIsRecent'
  BY <1>6 DEF OpenTemp, history, memory
<1>7. ASSUME WriteTemp PROVE OpenSince' /\ StrongAuthIsRecent'
  BY <1>7 DEF WriteTemp, history, memory
<1>8. ASSUME Rename PROVE OpenSince' /\ StrongAuthIsRecent'
  BY <1>8 DEF Rename, history, memory
<1>a. ASSUME Answer PROVE OpenSince' /\ StrongAuthIsRecent'
  BY <1>a DEF Answer, unlockLocked
<1>9. ASSUME WriteFails PROVE OpenSince' /\ StrongAuthIsRecent'
  BY <1>9 DEF WriteFails, history, memory
<1>10. ASSUME Read PROVE OpenSince' /\ StrongAuthIsRecent'
  BY <1>10 DEF Read, touchLocked
<1>11. ASSUME ExportBackup PROVE OpenSince' /\ StrongAuthIsRecent'
  BY <1>11 DEF ExportBackup, history, memory
<1>12. ASSUME FoundIdle PROVE OpenSince' /\ StrongAuthIsRecent'
  BY <1>12 DEF FoundIdle, history, lockLocked
<1>13. ASSUME Lock PROVE OpenSince' /\ StrongAuthIsRecent'
  BY <1>13 DEF Lock, lockLocked
<1>14. ASSUME RecordStrongAuthLocked PROVE OpenSince' /\ StrongAuthIsRecent'
  BY <1>14 DEF RecordStrongAuthLocked, history, memory
<1>15. ASSUME StrongAuthCompleted PROVE OpenSince' /\ StrongAuthIsRecent'
  BY <1>15 DEF StrongAuthCompleted, memory, activeLocked, TypeOK
<1>16. ASSUME Tick PROVE OpenSince' /\ StrongAuthIsRecent'
  BY <1>16 DEF Tick
<1>17. ASSUME Crash PROVE OpenSince' /\ StrongAuthIsRecent'
  BY <1>17 DEF Crash, lockLocked
<1>18. CASE UNCHANGED vars
  BY <1>18 DEF vars
<1> QED BY <1>1, <1>2, <1>3, <1>4, <1>5, <1>6, <1>7, <1>8, <1>a, <1>9, <1>10, <1>11, <1>12, <1>13, <1>14, <1>15, <1>16, <1>17, <1>18 DEF Next

\* The three facts about the history of wrong passwords.
Spaced == Ordered /\ Counted /\ GuessesAreSpaced

\* A wrong password is looked at once the last lockout is over, and the one
\* that started it is among the last MaxFailures.
LEMMA WrongStep ==
    ASSUME TypeOK, Spaced, lockout = 0, WrongPassword
    PROVE  Spaced'
<1> DEFINE n == Len(wrong)
           w == Recorded(Append(wrong, 0))
<1>1. /\ MaxFailures \in Nat \ {0} /\ LockoutDuration \in Nat \ {0} /\ n \in Nat
      /\ failures \in 0..(MaxFailures - 1) /\ n <= MaxFailures + 1
      /\ \A i \in 1..n : wrong[i] \in 0..LockoutDuration
  <2>1. wrong \in Seq(0..LockoutDuration) /\ Len(wrong) <= MaxFailures + 1
    BY VaultAssumption, BoundedSequences DEF TypeOK
  <2> QED BY <2>1, ElementOfSeq, VaultAssumption DEF TypeOK
<1>2. PICK k \in {0, 1} : Shifted(w, k)
  BY RecordedShifts
<1>3. wrong' = w /\ failures' = (IF failures + 1 >= MaxFailures THEN 0 ELSE failures + 1)
        /\ lockout' = (IF failures + 1 >= MaxFailures THEN LockoutDuration ELSE 0)
  BY DEF WrongPassword
<1> HIDE DEF w
<1>4. /\ k = 1 => n = MaxFailures + 1
      /\ Len(w) = n + 1 - k /\ Len(w) \in Nat /\ Len(w) >= 1 /\ w[Len(w)] = 0
      /\ \A i \in 1..(n - k) : w[i] = wrong[i + k]
  BY <1>1, <1>2 DEF Shifted
<1>5. Ordered'
  <2> SUFFICES ASSUME NEW i \in 1..Len(w), NEW j \in 1..Len(w), i <= j PROVE w[j] <= w[i]
    BY <1>3 DEF Ordered
  <2>1. CASE j = Len(w)
    <3>1. CASE i = Len(w)
      BY <1>4, <2>1, <3>1
    <3>2. CASE i # Len(w)
      <4>1. i \in 1..(n - k) /\ i + k \in 1..n
        BY <1>1, <1>4, <3>2
      <4> QED BY <1>1, <1>4, <2>1, <4>1
    <3> QED BY <3>1, <3>2
  <2>2. CASE j # Len(w)
    <3>1. i \in 1..(n - k) /\ j \in 1..(n - k) /\ i + k \in 1..n /\ j + k \in 1..n /\ i + k <= j + k
      BY <1>1, <1>4, <2>2
    <3> QED BY <1>4, <3>1 DEF Spaced, Ordered
  <2> QED BY <2>1, <2>2
<1>6. failures <= n /\ (failures < n => wrong[n - failures] >= LockoutDuration)
  <2>1. failures <= n
    BY DEF Spaced, Counted
  <2>2. ASSUME failures < n PROVE wrong[n - failures] >= LockoutDuration
    <3>1. n - failures \in 1..n
      BY <1>1, <2>2
    <3>2. wrong[n - failures] + 0 >= LockoutDuration
      BY <2>2 DEF Spaced, Counted
    <3> QED BY <1>1, <3>1, <3>2
  <2> QED BY <2>1, <2>2
<1>7. Counted'
  <2>1. CASE failures + 1 >= MaxFailures
    BY <1>1, <1>3, <1>4, <2>1 DEF Counted
  <2>2. CASE failures + 1 < MaxFailures
    <3>1. failures' = failures + 1 /\ lockout' = 0 /\ failures + 1 <= Len(w)
      BY <1>1, <1>3, <1>4, <1>6, <2>2
    <3>2. ASSUME failures + 1 < Len(w) PROVE w[Len(w) - (failures + 1)] >= LockoutDuration
      <4>1. Len(w) - (failures + 1) \in 1..(n - k) /\ Len(w) - (failures + 1) + k = n - failures
                /\ failures < n
        BY <1>1, <1>4, <3>2
      <4> QED BY <1>4, <1>6, <4>1
    <3>3. failures + 1 < Len(w) => w[Len(w) - (failures + 1)] + 0 >= LockoutDuration
      <4> SUFFICES ASSUME failures + 1 < Len(w)
                   PROVE  w[Len(w) - (failures + 1)] + 0 >= LockoutDuration
        OBVIOUS
      <4>1. Len(w) - (failures + 1) \in 1..(n - k) /\ Len(w) - (failures + 1) + k \in 1..n
        BY <1>1, <1>4
      <4>2. w[Len(w) - (failures + 1)] \in 0..LockoutDuration
        BY <1>1, <1>4, <4>1
      <4> QED BY <1>1, <3>2, <4>2
    <3> QED BY <1>3, <3>1, <3>3 DEF Counted
  <2> QED BY <1>1, <2>1, <2>2
<1>8. GuessesAreSpaced'
  <2> SUFFICES ASSUME Len(w) = MaxFailures + 1 PROVE w[1] >= LockoutDuration
    BY <1>3 DEF GuessesAreSpaced
  <2>1. /\ 1 \in 1..(n - k) /\ 1 + k \in 1..n /\ n - failures \in 1..n
        /\ 1 + k <= n - failures /\ failures < n
    BY <1>1, <1>4
  <2>2. w[1] = wrong[1 + k]
    BY <1>4, <2>1
  <2>3. wrong[n - failures] <= wrong[1 + k]
    BY <2>1 DEF Spaced, Ordered
  <2> QED BY <1>1, <1>6, <2>1, <2>2, <2>3
<1> QED BY <1>5, <1>7, <1>8 DEF Spaced

\* A tick ages them alike and takes from the lockout what it adds to them.
LEMMA AgeStep ==
    ASSUME TypeOK, Spaced, Tick
    PROVE  Spaced'
<1> DEFINE n == Len(wrong)
           w == Aged(wrong, LockoutDuration)
<1>1. /\ MaxFailures \in Nat \ {0} /\ LockoutDuration \in Nat \ {0} /\ n \in Nat
      /\ failures \in 0..(MaxFailures - 1) /\ lockout \in 0..LockoutDuration
      /\ \A i \in 1..n : wrong[i] \in 0..LockoutDuration
  <2>1. wrong \in Seq(0..LockoutDuration)
    BY VaultAssumption, BoundedSequences DEF TypeOK
  <2> QED BY <2>1, ElementOfSeq, VaultAssumption DEF TypeOK
<1>2. Len(w) = n /\ \A i \in 1..n : w[i] = Capped(wrong[i] + 1, LockoutDuration)
  BY AgedKeeps
<1>3. wrong' = w /\ failures' = failures /\ lockout' = IF lockout > 0 THEN lockout - 1 ELSE 0
  BY DEF Tick
<1> HIDE DEF w
<1>4. \A i \in 1..n : w[i] = IF wrong[i] + 1 < LockoutDuration THEN wrong[i] + 1 ELSE LockoutDuration
  BY <1>2 DEF Capped
<1>5. Ordered'
  <2> SUFFICES ASSUME NEW i \in 1..n, NEW j \in 1..n, i <= j PROVE w[j] <= w[i]
    BY <1>2, <1>3 DEF Ordered
  <2>1. wrong[j] <= wrong[i] /\ wrong[i] \in 0..LockoutDuration /\ wrong[j] \in 0..LockoutDuration
    BY <1>1 DEF Spaced, Ordered
  <2> QED BY <1>1, <1>4, <2>1
<1>6. Counted'
  <2>1. failures <= n
    BY DEF Spaced, Counted
  <2>2. ASSUME failures < n PROVE w[n - failures] + lockout' >= LockoutDuration
    <3>1. n - failures \in 1..n
      BY <1>1, <2>2
    <3>2. wrong[n - failures] + lockout >= LockoutDuration
            /\ wrong[n - failures] \in 0..LockoutDuration
      BY <1>1, <2>2, <3>1 DEF Spaced, Counted
    <3> QED BY <1>1, <1>3, <1>4, <3>1, <3>2
  <2> QED BY <1>2, <1>3, <2>1, <2>2 DEF Counted
<1>7. GuessesAreSpaced'
  <2> SUFFICES ASSUME n = MaxFailures + 1 PROVE w[MaxFailures + 1] # 0
    BY <1>2, <1>3 DEF GuessesAreSpaced
  <2>1. MaxFailures + 1 \in 1..n
    BY <1>1
  <2> QED BY <1>1, <1>4, <2>1
<1> QED BY <1>5, <1>6, <1>7 DEF Spaced

\* A history that is empty is spaced.
LEMMA NoneIsSpaced ==
    ASSUME wrong' = <<>>, failures' = 0
    PROVE  Spaced'
<1>1. Len(wrong') = 0
  BY EmptySeq
<1> QED BY <1>1, VaultAssumption DEF Spaced, Ordered, Counted, GuessesAreSpaced

\* Every other step leaves the count, the lockout and the history alone.
LEMMA SpacedStep == IInv /\ [Next]_vars => Spaced'
<1> SUFFICES ASSUME IInv, [Next]_vars PROVE Spaced'
  OBVIOUS
<1>0. TypeOK /\ Spaced /\ lockout \in Nat
  BY VaultAssumption DEF IInv, Spaced, TypeOK
<1> DEFINE Same == UNCHANGED <<failures, lockout, wrong>>
<1>s. Same => Spaced'
  BY <1>0 DEF Spaced, Ordered, Counted, GuessesAreSpaced
<1> HIDE DEF Same
<1>1. ASSUME NEW m \in Masters, Create(m) PROVE Spaced'
  BY <1>1, <1>s DEF Same, Create, Unanswered, history
<1>2. ASSUME NEW m \in Masters, Unlock(m) PROVE Spaced'
  <2>1. CASE lockout > 0
    BY <1>2, <2>1, <1>s DEF Same, Unlock, LockedOut, memory
  <2>2. CASE lockout = 0 /\ ~readEntries(m)
    <3>1. WrongPassword
      BY <1>2, <2>2 DEF Unlock
    <3> QED BY <1>0, <2>2, <3>1, WrongStep
  <2>3. CASE lockout = 0 /\ readEntries(m)
    BY <1>2, <2>3, NoneIsSpaced DEF Unlock
  <2> QED BY <1>0, <2>1, <2>2, <2>3
<1>3. ASSUME NEW m \in Masters, RestoreBackup(m) PROVE Spaced'
  BY <1>3, <1>s DEF Same, RestoreBackup
<1>4. ASSUME NEW n \in Names, Delete(n) PROVE Spaced'
  BY <1>4, <1>s DEF Same, Delete, Unanswered, history
<1>5. ASSUME NEW n \in Names, NEW v \in Values, Put(n, v) PROVE Spaced'
  BY <1>5, <1>s DEF Same, Put, Unanswered, history
<1>6. ASSUME OpenTemp PROVE Spaced'
  BY <1>6, <1>s DEF Same, OpenTemp, history, memory
<1>7. ASSUME WriteTemp PROVE Spaced'
  BY <1>7, <1>s DEF Same, WriteTemp, history, memory
<1>8. ASSUME Rename PROVE Spaced'
  BY <1>8, <1>s DEF Same, Rename, history, memory
<1>a. ASSUME Answer PROVE Spaced'
  BY <1>a, <1>s DEF Same, Answer
<1>9. ASSUME WriteFails PROVE Spaced'
  BY <1>9, <1>s DEF Same, WriteFails, history, memory
<1>10. ASSUME Read PROVE Spaced'
  BY <1>10, <1>s DEF Same, Read
<1>11. ASSUME ExportBackup PROVE Spaced'
  BY <1>11, <1>s DEF Same, ExportBackup, history, memory
<1>12. ASSUME FoundIdle PROVE Spaced'
  BY <1>12, <1>s DEF Same, FoundIdle, history
<1>13. ASSUME Lock PROVE Spaced'
  BY <1>13, <1>s DEF Same, Lock
<1>14. ASSUME RecordStrongAuthLocked PROVE Spaced'
  BY <1>14, <1>s DEF Same, RecordStrongAuthLocked, history, memory
<1>15. ASSUME StrongAuthCompleted PROVE Spaced'
  BY <1>15, <1>s DEF Same, StrongAuthCompleted, memory
<1>16. ASSUME Tick PROVE Spaced'
  BY <1>16, <1>0, AgeStep
<1>17. ASSUME Crash PROVE Spaced'
  BY <1>17, NoneIsSpaced DEF Crash
<1>18. CASE UNCHANGED vars
  BY <1>18, <1>s DEF Same, vars
<1> QED BY <1>1, <1>2, <1>3, <1>4, <1>5, <1>6, <1>7, <1>8, <1>a, <1>9, <1>10, <1>11, <1>12, <1>13, <1>14, <1>15, <1>16, <1>17, <1>18 DEF Next

-----------------------------------------------------------------------------
(* The theorems *)

\* The inductive invariant holds at the start.
LEMMA InitIInv == Init => IInv
<1> SUFFICES ASSUME Init PROVE IInv
  OBVIOUS
<1>1. Len(wrong) = 0 /\ failures = 0
  BY EmptySeq DEF Init
<1>2. TypeOK
  BY NoneWrong, VaultAssumption DEF Init, TypeOK
<1>3. Ordered /\ Counted /\ GuessesAreSpaced
  BY <1>1, VaultAssumption DEF Ordered, Counted, GuessesAreSpaced
<1> QED BY <1>2, <1>3, VaultAssumption DEF Init, IInv, Written, Replaced, OpenSince, StrongAuthIsRecent

\* It holds in every state the vault reaches.
LEMMA Inductive == Spec => []IInv
<1>1. IInv /\ [Next]_vars => IInv'
  BY TypeStep, WrittenStep, StrongStep, SpacedStep DEF IInv, Spaced
<1> QED BY InitIInv, <1>1, PTL DEF Spec

\* The vault stays in its types for every password, entry, timeout, lockout
\* and number of failures (localvault/vault.go).
THEOREM VaultTypes == Spec => []TypeOK
<1>1. IInv => TypeOK
  BY DEF IInv
<1> QED BY Inductive, <1>1, PTL

\* Of any MaxFailures + 1 wrong passwords in a row the first and the last are a
\* whole lockout apart, whatever the number and the lockout are (Unlock).
THEOREM GuessingIsSlow == Spec => []GuessesAreSpaced
<1>1. IInv => GuessesAreSpaced
  BY DEF IInv
<1> QED BY Inductive, <1>1, PTL

\* An approval never takes for strong authentication a vault whose owner was
\* let in a whole idle timeout ago, or has since locked it or mistyped the
\* password (activeLocked, strongAuthCompleted).
THEOREM StrongAuthMeansPresence == Spec => []StrongAuthIsRecent
<1>1. IInv => StrongAuthIsRecent
  BY DEF IInv
<1> QED BY Inductive, <1>1, PTL

\* No crash and no failed write leaves vault.enc torn or older than the last
\* operation that was answered (writeSealed).
THEOREM VaultSurvivesCrashes == Spec => []EntriesSurvive
<1>1. IInv => EntriesSurvive
  BY DEF IInv, Written, Replaced, EntriesSurvive
<1> QED BY Inductive, <1>1, PTL

=============================================================================
