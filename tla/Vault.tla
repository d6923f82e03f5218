------------------------------- MODULE Vault -------------------------------
(***************************************************************************)
(* The local vault (credential/localvault) and the console endpoints that  *)
(* open and close it.  Its file holds the entries sealed under the master  *)
(* password; the process keeps the master password while the vault is      *)
(* open and nothing else.  The approval endpoints take an open vault as    *)
(* the owner's strong authentication.                                      *)
(*                                                                         *)
(* A mutex makes each operation atomic for the others, but not for a       *)
(* crash: the write of the file is split where a crash or an error can     *)
(* cut it.  A crash is the end of the process, not a power cut: nothing is *)
(* synced to the disk.  Time passes in ticks, and clocks are kept as ages  *)
(* and as time left, so that it may pass without bound.                    *)
(***************************************************************************)
EXTENDS Naturals, Sequences, SequencesExt

CONSTANTS
    Masters,          \* master passwords that are long enough
    Names, Values,    \* entries of the vault
    IdleTimeout,      \* ticks without use after which the vault closes
    LockoutDuration,  \* ticks during which no password is looked at
    MaxFailures,      \* wrong passwords in a row that start a lockout
    MaxPending,       \* lockouts whose ledger entry is still being written
    Absent,           \* no file, no password, no entry, no operation
    Torn              \* what an interrupted write leaves

ASSUME VaultAssumption ==
    /\ IdleTimeout \in Nat \ {0} /\ LockoutDuration \in Nat \ {0}
    /\ MaxFailures \in Nat \ {0} /\ MaxPending \in Nat \ {0}
    /\ Absent \notin Masters \cup Values

VARIABLES
    file,      \* vault.enc
    temp,      \* vault.enc.tmp
    backup,    \* the backup the owner keeps
    master,    \* the password held in memory
    idle,      \* ticks since lastActive
    failures,  \* wrong passwords in a row
    lockout,   \* ticks until lockedUntil
    job,       \* the operation that is writing the file, under the mutex
    pending,   \* lockouts begun whose handler has yet to book them
    wrong,     \* history: ages of the last wrong passwords looked at
    served,    \* history: ticks since the owner was last let in
    strong,    \* history: `served` when strong authentication was last granted
    claim      \* history: the file as the last answered operation left it

vars == <<file, temp, backup, master, idle, failures, lockout, job, pending,
          wrong, served, strong, claim>>
memory == <<master, idle, failures, lockout>>
history == <<wrong, served, strong, claim>>

Entries == [Names -> Values \cup {Absent}]
Sealed == [master : Masters, entries : Entries]
Jobs == [seal : Sealed, at : {"mkdir", "write", "rename", "renamed"}]

ASSUME NoJobAssumption == Absent \notin Jobs

Empty == [n \in Names |-> Absent]
Capped(age, limit) == IF age < limit THEN age ELSE limit

Init ==
    /\ file = Absent /\ temp = Absent /\ backup = Absent
    /\ master = Absent /\ idle = 0 /\ failures = 0 /\ lockout = 0
    /\ job = Absent /\ pending = 0
    /\ wrong = <<>> /\ served = IdleTimeout /\ strong = 0 /\ claim = Absent

-----------------------------------------------------------------------------
(* Envelopes.  Seal binds the header and the salt to the entries, and Open  *)
(* fails on another password, a foreign header or a truncated file alike.   *)

Seal(m, entries) == [master |-> m, entries |-> entries]
HasHeader(sealed) == sealed \in Sealed
Open(m, sealed) == HasHeader(sealed) /\ sealed.master = m
readEntries(m) == Open(m, file)

-----------------------------------------------------------------------------
(* The state in memory *)

unlockLocked(m) == master' = m /\ idle' = 0
lockLocked == master' = Absent /\ idle' = 0
touchLocked == idle' = 0 /\ UNCHANGED master

\* Fault: the boundary of the idle timeout lets one more call in.
OpenOneTickMore == master # Absent /\ idle <= IdleTimeout

\* Anything that uses the vault asks this first; the answer "no" also locks.
activeLocked == master # Absent /\ idle < IdleTimeout

Free == job = Absent

\* A call that finds the vault idle for too long locks it and is refused.
FoundIdle ==
    /\ Free /\ master # Absent /\ ~activeLocked
    /\ lockLocked
    /\ UNCHANGED <<file, temp, backup, failures, lockout, job, pending, history>>

-----------------------------------------------------------------------------
(* Writing the file: into vault.enc.tmp, then renamed over vault.enc. *)

Begin(seal) == job' = [seal |-> seal, at |-> "mkdir"]
Unanswered == UNCHANGED <<file, temp, backup, failures, lockout, pending,
                          master, idle, history>>

Create(m) ==
    /\ Free /\ file = Absent
    /\ Begin(Seal(m, Empty))
    /\ Unanswered

\* Put and Delete read the whole file and write it back with one entry changed.
Put(n, v) ==
    /\ Free /\ activeLocked /\ readEntries(master)
    /\ Begin(Seal(master, [file.entries EXCEPT ![n] = v]))
    /\ Unanswered

Delete(n) ==
    /\ Free /\ activeLocked /\ readEntries(master)
    /\ file.entries[n] # Absent
    /\ Begin(Seal(master, [file.entries EXCEPT ![n] = Absent]))
    /\ Unanswered

\* Fault: the file is written in place.
WriteInPlace ==
    /\ ~Free /\ job.at = "mkdir"
    /\ file' = Torn
    /\ job' = [job EXCEPT !.at = "write"]
    /\ UNCHANGED <<temp, backup, memory, pending, history>>

OpenTemp ==
    /\ ~Free /\ job.at = "mkdir"
    /\ temp' = Torn
    /\ job' = [job EXCEPT !.at = "write"]
    /\ UNCHANGED <<file, backup, memory, pending, history>>

WriteTemp ==
    /\ ~Free /\ job.at = "write"
    /\ temp' = job.seal
    /\ job' = [job EXCEPT !.at = "rename"]
    /\ UNCHANGED <<file, backup, memory, pending, history>>

\* The rename is the point of no return.
Rename ==
    /\ ~Free /\ job.at = "rename"
    /\ file' = temp /\ temp' = Absent
    /\ job' = [job EXCEPT !.at = "renamed"]
    /\ UNCHANGED <<backup, memory, pending, history>>

\* What is left of the operation is to open the vault with the password
\* (Create, RestoreBackup) or to note the use of it (Put, Delete), under
\* which it is already open, and to answer.
Answer ==
    /\ ~Free /\ job.at = "renamed"
    /\ unlockLocked(job.seal.master)
    /\ job' = Absent
    /\ served' = 0 /\ claim' = job.seal
    /\ UNCHANGED <<file, temp, backup, failures, lockout, pending, wrong, strong>>

\* A step of the write fails and the caller is told; only a failed rename
\* removes the temporary file.
WriteFails ==
    /\ ~Free /\ job.at # "renamed"
    /\ temp' = IF job.at = "rename" THEN Absent ELSE temp
    /\ job' = Absent
    /\ UNCHANGED <<file, backup, memory, pending, history>>

\* Get and References: the file is read and opened again for each of them.
Read ==
    /\ Free /\ activeLocked /\ readEntries(master)
    /\ touchLocked
    /\ served' = 0
    /\ UNCHANGED <<file, temp, backup, failures, lockout, job, pending,
                   wrong, strong, claim>>

\* A copy of the file, also of a locked vault.
ExportBackup ==
    /\ Free /\ HasHeader(file)
    /\ backup' = file
    /\ UNCHANGED <<file, temp, memory, job, pending, history>>

\* The backup's own password opens it, whatever the password of the file is.
RestoreBackup(m) ==
    /\ Free /\ backup # Absent
    /\ IF Open(m, backup)
       THEN Begin(backup) /\ UNCHANGED <<master, idle, served>>
       ELSE lockLocked /\ served' = IdleTimeout /\ UNCHANGED job
    /\ UNCHANGED <<file, temp, backup, failures, lockout, pending,
                   wrong, strong, claim>>

-----------------------------------------------------------------------------
(* Opening and closing it *)

Recorded(ages) == IF Len(ages) > MaxFailures + 1 THEN Tail(ages) ELSE ages

\* Fault: the count starts again without a lockout.
CountWraps ==
    LET last == failures + 1 >= MaxFailures IN
    /\ lockLocked
    /\ failures' = IF last THEN 0 ELSE failures + 1
    /\ UNCHANGED <<lockout, pending>>
    /\ wrong' = Recorded(Append(wrong, 0)) /\ served' = IdleTimeout

\* Fault: the lockout starts without the count starting again.
CountStays ==
    LET last == failures + 1 >= MaxFailures IN
    /\ lockLocked
    /\ failures' = failures + 1
    /\ lockout' = IF last THEN LockoutDuration ELSE lockout
    /\ pending' = IF last THEN pending + 1 ELSE pending
    /\ wrong' = Recorded(Append(wrong, 0)) /\ served' = IdleTimeout

\* A wrong password locks the vault and counts; the last of MaxFailures
\* starts the lockout and the count again.
WrongPassword ==
    LET last == failures + 1 >= MaxFailures IN
    /\ lockLocked
    /\ failures' = IF last THEN 0 ELSE failures + 1
    /\ lockout' = IF last THEN LockoutDuration ELSE lockout
    /\ pending' = IF last THEN pending + 1 ELSE pending
    /\ wrong' = Recorded(Append(wrong, 0)) /\ served' = IdleTimeout

\* No password is looked at during a lockout.
LockedOut == UNCHANGED <<memory, pending, wrong, served>>

\* POST /vault/unlock.  A missing file counts as a wrong password.
Unlock(m) ==
    /\ Free /\ pending < MaxPending
    /\ IF lockout > 0 THEN LockedOut
       ELSE IF ~readEntries(m) THEN WrongPassword
       ELSE /\ unlockLocked(m) /\ failures' = 0 /\ lockout' = 0
            /\ wrong' = <<>> /\ served' = 0
            /\ UNCHANGED pending
    /\ UNCHANGED <<file, temp, backup, job, strong, claim>>

\* The handler that began a lockout books it after Unlock has returned, and
\* answers with the ledger's error when that fails: either settles it.
RecordStrongAuthLocked ==
    /\ pending > 0
    /\ pending' = pending - 1
    /\ UNCHANGED <<file, temp, backup, memory, job, history>>

Lock ==
    /\ Free
    /\ lockLocked
    /\ served' = IdleTimeout
    /\ UNCHANGED <<file, temp, backup, failures, lockout, job, pending,
                   wrong, strong, claim>>

\* An approval endpoint takes an open vault for strong authentication.  It
\* only asks: being asked does not keep the vault open.
StrongAuthCompleted ==
    /\ Free /\ activeLocked
    /\ strong' = served
    /\ UNCHANGED <<file, temp, backup, memory, job, pending, wrong, served, claim>>

-----------------------------------------------------------------------------
(* The environment *)

Aged(ages, limit) == [i \in DOMAIN ages |-> Capped(ages[i] + 1, limit)]

Tick ==
    /\ idle' = Capped(idle + 1, IdleTimeout)
    /\ lockout' = IF lockout > 0 THEN lockout - 1 ELSE 0
    /\ wrong' = Aged(wrong, LockoutDuration)
    /\ served' = Capped(served + 1, IdleTimeout)
    /\ UNCHANGED <<file, temp, backup, master, failures, job, pending, strong, claim>>

\* A crash of the gateway and its restart: New starts locked, without a
\* failure, and never looks at vault.enc.tmp.  The operation that was cut
\* may or may not have happened.
Crash ==
    /\ lockLocked /\ failures' = 0 /\ lockout' = 0
    /\ job' = Absent /\ pending' = 0
    /\ wrong' = <<>> /\ served' = IdleTimeout
    /\ claim' = IF job # Absent /\ file = job.seal THEN file ELSE claim
    /\ UNCHANGED <<file, temp, backup, strong>>

Next ==
    \/ \E m \in Masters : Create(m) \/ Unlock(m) \/ RestoreBackup(m)
    \/ \E n \in Names : Delete(n) \/ \E v \in Values : Put(n, v)
    \/ OpenTemp \/ WriteTemp \/ Rename \/ Answer \/ WriteFails
    \/ Read \/ ExportBackup \/ FoundIdle \/ Lock
    \/ RecordStrongAuthLocked \/ StrongAuthCompleted
    \/ Tick \/ Crash

Spec == Init /\ [][Next]_vars

-----------------------------------------------------------------------------
(* What makes it correct *)

TypeOK ==
    /\ file \in Sealed \cup {Absent, Torn}
    /\ temp \in Sealed \cup {Absent, Torn}
    /\ backup \in Sealed \cup {Absent}
    /\ claim \in Sealed \cup {Absent}
    /\ master \in Masters \cup {Absent}
    /\ idle \in 0..IdleTimeout /\ served \in 0..IdleTimeout /\ strong \in 0..IdleTimeout
    /\ failures \in 0..(MaxFailures - 1)
    /\ lockout \in 0..LockoutDuration
    /\ job \in Jobs \cup {Absent}
    /\ pending \in 0..MaxPending
    /\ wrong \in BoundedSeq(0..LockoutDuration, MaxFailures + 1)

\* "Three failures in a row and no password is accepted for a minute": of
\* any MaxFailures + 1 wrong passwords looked at without a right one between
\* them, the first and the last are a whole lockout apart, however the
\* attempts fall around the end of a lockout (vault.go Unlock).
GuessesAreSpaced ==
    Len(wrong) = MaxFailures + 1 /\ wrong[MaxFailures + 1] = 0
        => wrong[1] >= LockoutDuration

\* Strong authentication is granted only to an owner whose password opened
\* the vault, or who used it, less than the idle timeout ago, and who has
\* neither locked it nor mistyped the password since (vault.go activeLocked,
\* approvals.go strongAuthCompleted).
StrongAuthIsRecent == strong < IdleTimeout

\* Whatever write a crash or an error cuts, vault.enc holds the entries of the
\* last operation that was answered, or of the one that was cut: never a torn
\* file, never an older one (vault.go writeSealed).
EntriesSurvive == file = claim \/ (job # Absent /\ file = job.seal)

=============================================================================
