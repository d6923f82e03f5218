# OpenDelo in TLA+

A verification project for OpenDelo, the local gateway that stands between
software agents and the user's credentials. An agent asks for a capability; the
gateway decides, asks a human where it must, issues a *lease*, and carries out
the request without ever handing over the credential. The modules model this from
end to end: how an agent's session begins and ends, the decision and what is
learned from answers, requests, approvals, the audit ledger and leases, how the
credential is fetched and the vault behind it, what leaves the gateway, and the
life of the process itself, with the interleavings, failures and crashes the code
is exposed to. TLC checks them on small instances; TLAPS proves the main results,
including both refinements and the laws of the decision, for every value of the
constants.

All paths below are under `src/internal/` unless they start with `src/`.

## 1. The system

| Component | State | Operations | Talks to |
|---|---|---|---|
| Decision pipeline (`core/pipeline`) | capability requests, decisions | Handle, SettleApproval, ExpireApprovals, DisconnectAgent, DisconnectIdentity | everything below, by calls |
| Approval manager (`core/approval`) | approvals | Open, Settle (with replay), Expire | approvals table |
| Lease manager (`core/lease`) | leases | Issue, Use, Revoke, Shorten, Sweep, Active, IssuedFor | leases table |
| Audit ledger (`platform/audit`) | audit events, append only | Record, pages by cursor, export | audit table |
| Decision engine (`core/decision`) | none | Decide | called by the pipeline |
| Scope, risk, intent, matcher (`core/scope`, `core/risk`, `core/intent`, `core/matcher`) | catalog, identities, bindings | Resolve, Covers, Assess, Match | called by the pipeline |
| Trust memory (`core/trust`) | memories | Generate, Match, Invalidate, Clear | pipeline, decision engine |
| Agent authentication (`core/agentauth`) | devices, workspaces, agents with the hash of their session key | Register, Authenticate, ConfirmTrust, Disconnect | faces, pipeline |
| Expiry sweeper (`cli/expiry.go`) | none | one round every 15 s | ExpireApprovals |
| MCP calls (`cli/mcpcalls.go`) | none | Call, execute, record | pipeline, leases, adapters |
| Egress proxy (`transport/proxy`, `cli/proxyports.go`) | none | Authorize, forward | leases, credentials |
| HTTP API and console (`transport/httpapi`, `src/web`) | none of its own | submit, settle, cancel, sessions, identities, vault, views, pages of the ledger | pipeline, everything the console shows |
| Event broker (`transport/httpapi/events.go`) | subscribers and their buffers | Publish, Subscribe, Close | console |
| Credential registry, unlock waiting (`credential/registry`) | references, waiters | RegisterReference, Probe, Fetch, Wait, Unlocked | vault, keychain, 1Password |
| Local vault (`credential/localvault`) | master password, failures, lockout, last use | Create, Unlock, Lock, Put, Get, Delete, backups | its file |
| Gateway availability (`core/gateway`, `cli/start.go`) | flag, listeners | start, shut down | all faces |
| Adapters (`adapter`) | catalogs | build, send, redact | outside services |

The components live in one process and share a SQLite database. **No operation
modelled here runs in a transaction**, but for the registration of a credential
reference. What protects the tables are *conditional updates*: an
approval is settled only `WHERE status = 'pending'`, a request moves only from
the status its caller expects, a use is charged only while the row is active,
not past its deadline and below its limit. Between two statements of one call
any other call may run, the caller's context may be cancelled, and the process
may die.

The repository states its guarantees in `src/README.md` and in the requirements
quoted in comments: fail closed; the ledger entry precedes execution; high risk
always needs a human; leases are bounded and never widened; a verdict is given
once. What makes them hard is listed per line as `hazards` in `PROJECT.json`:
a submission, a repeated submission, a cancellation and the sweeper meeting on
one approval; five statements per verdict of which any may be the last; a status
read first and used last; a batch that stops in the middle; the last use of a
lease charged and closed in two statements; memories that are tightened, cleared
or invalidated while a request that has read them is on its way to a decision; a
session that is registered, rebound, touched and disconnected by several processes
at once; a waiter that misses the broadcast it waits for; a write of the vault cut
by a crash; an answer that is lost after the service did its work; an entry that
cannot be written after the answer came; a shutdown with streams open.

## 2. The modules

| Module | Role |
|---|---|
| `LeaseGrant` | what a lease promises: charged one use at a time, never past its deadline, never beyond its cap, ended by its last charge, only ever narrowed |
| `Lease` | the lease manager over its table, statement by statement |
| `LeaseProofs` | theorems about `Lease`, including that it implements `LeaseGrant` |
| `Verdict` | what the gateway promises about a request: one verdict, reported once, before the lease, before anything goes out |
| `Settlement` | handler, console submissions, cancellation, sweeper, MCP execution over the shared tables |
| `SettlementProofs` | theorems about `Settlement`, including that it implements `Verdict` |
| `Decide` | the pure operators of a decision: coverage of scopes, identity matching, risk, the table of branches |
| `Ruling` | `Decide` on its own, one input after the other |
| `Trust` | requests that read, decide and act while memories and identities change; uses `Decide` |
| `TrustProofs` | theorems about `Decide`, `Ruling` and `Trust` |
| `Session` | registration, authentication and disconnection of agents, with the session-bound leases |
| `Vault` | the local vault, its file, its lockout and its idle time |
| `Credential` | connecting identities to credential references, probing, fetching, and waiting for an unlock |
| `Adapters` | what the service adapters declare, and how a request is routed to a declaration |
| `Egress` | the proxy, the execution of MCP calls and previews, up to the attempts of the outbound client; uses `Adapters` |
| `Gateway` | the process: start, faces, sweeper, event broker and streams, shutdown |
| `SessionProofs`, `VaultProofs`, `CredentialProofs`, `EgressProofs`, `GatewayProofs` | theorems about the module each is named after |
| `Ledger` | recording entries and reading them in pages |
| `MC...` | instances for TLC |

The modules meet at the tables and calls they share. `Settlement` calls `Use` and
leaves to `Lease` when it succeeds; `Egress` takes the same conditional update as
its `Charge` and leaves the other lives of a lease to `Lease`; `Session` adds the
end of a lease that is bound to a session; `Trust` supplies the verdicts
`Settlement` leaves open; `Gateway` takes what a request changes as one fact, whether
it is in the database. Two pairs are related formally, `Lease` with `LeaseGrant` and `Settlement`
with `Verdict`, by refinement.

### 2.1 Lease

`status`, `expiresAt`, `requestLimit`, `usedRequests` are the columns of the
`leases` table. `Manager.Use` is three steps: `UseRead` (get the row and compare
the scope; neither status nor clock), `UseConsume`/`UseConsumeLast` (the
conditional update; `Consumable` is its WHERE clause) and, when the last use was
charged, `UseExhaust` (Close). `UseRefused` and `UseExhaustConflict` are its error
returns, `Cancelled` the end of a call whose context is gone. `Revoke` and
`Shorten` are one conditional update each. `Sweep` is a list and one Close per
lease; the first conflict ends the round. `Crash` drops all calls and keeps the
table. `served` is an observation: the calls that returned success.

`Spec` includes Sweep. The gateway as it is shipped never calls it: `GatewayNext` is
what remains, a disjunct of `Next`, so every safety result holds of it too.
For the same reason nothing is claimed about overdue leases being swept in the end.

Abstracted: the scope of a lease is fixed when it is issued, so coverage is the
constant relation `Covers`; identifiers are model values; a request limit of 0
stands for NULL. `UseConsume` compares the deadline with the clock of its own step;
the code passes a `clock.Now()` it took just before the statement
(`core/lease/manager.go:136`), so a use may be charged as much later than the
deadline as that one call takes.

### 2.2 Settlement

One action per statement that changes something.

*Handler* of a request (`Pipeline.Handle`, then `mcpCalls.execute`):
`Submit`, `FailClosed` or `RecordDecision`, `BookDecision` (the ledger entry),
`Open` / `ReuseLease` / `Issue` / `IssueRefused`, `HandlerAdvance` /
`HandlerConflict`; then for a call over MCP `ExecuteStart`, `Use`, `Send`,
`RecordExecuted`, `ExecuteEnd`, and on failure `RecordFailed`, `Abandon`. A
request over the HTTP API stays at `allowed`.

*Submission* from the console (`Pipeline.SettleApproval`): `SettleRead`
(approval, decision and request rows and the checks on them), `SettleWrite` (the
conditional update) or `SettleReplay` and `SettleLook` (a repeated submission),
`SettleBook`, `SettleGrant` / `SettleGrantRefused`, `SettleLearn`,
`SettleAdvance` / `SettleAdvanceConflict`.

*Sweeper* (`ExpireApprovals`): `SweepList`, `SweepClose` per approval or
`SweepConflict`, then `SweepBook` and `SweepAdvance` / `SweepAdvanceConflict` per
closed approval.

`Cancel` is the agent's cancellation. `HandlerFails`, `SettlerFails` and
`SweeperFails` let any statement fail, which ends that call; `Crash` ends all.

Abstracted: which verdict the engine gives (any of the three, except that high
risk is never auto-allowed, which is what the engine's first branch ensures); a
request's decision, approval, lease and memory carry the request's name, since
each request has at most one; a panic is caught while the handler decides (`FailClosed`),
and one caught later in Handle by the same recover (`core/pipeline/pipeline.go:165`), which
books an error for a request that has its decision already, is not modelled; submissions refused before their first write
change nothing and are no steps; uses of a lease are `Lease`'s subject, so `Use`
succeeds or fails here; the ledger counts entries by type per request.

### 2.3 Decide and Ruling

`Decide` has one operator per function of `core/scope`, `core/matcher`, `core/risk`
and `core/decision`. Tables stay tables: `Branches` is the list of branches in the
order of `engine.go`, and `FirstBranch` the first one that hits; `Raised` are the
levels the rules of `risk.Evaluate` arrive at, and `Evaluate` the highest of them.
`Blocked` is the fail-closed check, `Classify` the list of forbidden operations,
`LowRiskRule` and `LearnedMediumRule` what a mode adds to the two branches it
touches.

Abstracted: an identity and its account label are one value, since they come from
one row; a resource is one name, with the names that hold a wildcard in
`Patterns`; a keyword list of `forbidden.go` is one class, and an operation carries
the set of classes its words fall into; reasons are kept, their texts are not.

`Ruling` has the last input as its only state, and any input may follow any other. That
turns what relates two decisions, that a stricter mode opens nothing, into an
action property.

### 2.4 Trust

`trust`, `linked`, `review`, `memory` and `lease` are the tables; `pc` and the
variables behind it are what the handler of each request has read and decided so
far. A request goes through `Submit` (agent and identities), `Resolve` (memories,
matching, scope, or `FailClosed`), `Rule` (leases, risk, `Decide`,
recordDecision) and `IssueAuto`, or `Settle`, `Grant` and `Learn` when a human is
asked. Meanwhile `Tighten`, `BookClearing` and `DeleteCleared` are the automation
page; `LinkIdentity`, `Verify` and `ConfirmTrust` the console's other handlers;
`Disconnect`, `RevokeNext`, `ListMemories`, `InvalidateNext` and `MarkReview` the
statements of DisconnectIdentity, which `FailCascade` may cut short. `LeaseEnds`
stands for what `Lease` models in full.

Abstracted: the rest of a handler after its decision is `Settlement`'s subject, so
the expiry of approvals, repeated submissions and the ledger are left out, except
for the entry about a cleared memory; `Rule` reads the leases and writes the decision
in one step, the lease that ends in between being one that ends before `IssueAuto`;
of leases that expire together at the edge of `LeaseLimit` the query may leave out any,
the model leaves out the later ones; the lists of a disconnection are worked off in any
order and are shorter than their limits; the operations with a desired change are the writes;
the disconnection of the model is one at a time. `warned` is an observation: which
memories said "always ask" when a request came in.

The gateway never gives the pipeline a mode and the submissions never fill in the
facts about new services, identities and resources, so `Trust` runs in balanced
mode with these facts false; `Ruling` covers the other values.

### 2.5 Session

`devices`, `workspaces` and `agents` are the tables of `core/agentauth`; `pc` is where
each `opendelo run` is. `OpenSession`, `AgentByBinding`, then `RebindAgent` or
`CreateAgent` are the statements of `Register`; `Authenticate` compares the key, the
status and the executable's hash, `Touch` is its last statement. `Exit` and
`OwnerDisconnects` begin a `DisconnectAgent` (`closer`), whose statements are
`Disconnect`, `ListBound`, `RevokeBound` or `RevokeConflict`, and `CascadeEnds`;
`CloseFails` cuts it short. `SettleApproval` issues a lease until the end of the
task for a request of the agent, `CloseElsewhere` uses up or revokes one, `Expire`
is the end of a session's time, `ConfirmTrust` the owner's confirmation.

Abstracted: a key is fresh per registration, so the run that holds it stands for
it; a request, its approval and its lease have one name; the nine facts of a binding
are device, workspace and executable with its hash. `confirmed` is a history
variable.

### 2.6 Vault

`file` and `temp` are the two files, `master`, `idle`, `failures` and `lockout` what
the process holds. `Put`, `Delete`, `Create` and `RestoreBackup` begin a write (`job`),
which goes on with `OpenTemp`, `WriteTemp`, `Rename` and `Answer`, or ends in
`WriteFails`; `Crash` may come between any two of them. `Unlock` is right, wrong (`WrongPassword`)
or refused unseen (`LockedOut`); `RecordStrongAuthLocked` is the entry its handler
writes about a lockout. `FoundIdle` is any operation that finds the idle time over.
`StrongAuthCompleted` is what the approval endpoint asks.

Abstracted: a sealed file is the pair of the password and the entries, which opens
under that password only; times are kept as ages capped at the deadline they are
compared with. A crash is the end of the process, after which the disk has what was
written: writeSealed syncs nothing before the rename, so a power cut may leave less,
and nothing here speaks about that. `wrong`, `served`, `strong` and `claim` are history
variables.

### 2.7 Credential

`connectIdentity` is `Resolves` (the source must know the item), `CreateRegistration`
(the one transaction), `SettleReference` (the row that is there, whoever made it),
`EnsureDeclared` and `CreateIdentity`; `ConnectBreaks` ends it anywhere. `Probe`,
`SetReferenceHealth` and `SetIdentityStatus` are verifyIdentity. A fetch is `Locate`,
`AskSource`, and, when the source says it is locked, `Register` with the waiter, then
`Woken` and `AskAgain`, or `TimesOut`, or `Cancelled`. `Unlocked` is the broadcast,
`OwnerUnlocks` and `SourceCloses` the source, which is outside.

`EnsureDeclared` leaves a declaration that is there alone, whatever its status: its
comment says that it ends up enabled, which holds because nothing calls
SetDeclarationStatus. `Lockable` are the sources that answer `vault_locked`, for which
Fetch waits. The gateway registers 1Password and the keychain (`cli/assemble.go:459`),
which run into their deadline instead, and calls `Registry.Unlocked` nowhere: the wait
is checked as the package has it, with a source of the local vault's kind, as its tests
do, and is not reached in the gateway of this commit.

### 2.8 Adapters and Egress

`Adapters` holds the declarations of the four adapters as sets of records, with the
operations some adapters withhold and the paths of their base URLs, and `Resolve`, `MatchPath`, `Captured`, `buildPath`:
which declaration a method and a path mean, which resource they name, and which path
an operation and a resource lead to. `Egress` has the steps of a call: for the proxy
`Ask` (who, which route), `List` (the bounded listing of active leases), `Charge`,
`Skip` and `Exhaust` per candidate, `NoLease`; for a decided MCP call `Call`; for the
preview of a change `Preview`; then for all of them `Fetch` and the `Execute` of the
adapter: `ExecuteGitHub`, `ExecuteCloudflare` (which reads a record before it changes
it), `ExecuteGeneric` (which resolves its host anew) or `ExecuteRefused`, where a model
request ends because an exchange carries no budget. `Read` and `Send` are one step per
attempt (`Outcomes` are an answer, a refusal, a busy service, a lost and an unreadable
answer); `RecordExecuted` or, for a preview, `SavePreview` ends the call, and the client
`Leaves` when it likes.

Abstracted: lease number l is the l-th to expire, so the listing is in the order of
the numbers; schemas, bodies, response fields and redaction are data; a redirect
within the host is part of an attempt.

What is sent is not what was asked letter by letter. The method may be asked in any case
(`EqualFold`) and is sent as declared. The path is matched as it came, without the base
URL's (`cli/proxyservices.go:48`), taken apart, built again and sent under the base
URL's path (`BasePath`, `adapter/registry/client.go:218`); an asked path that has
`/client/v4` in front matches nothing. The query of the asked URL is dropped
(`cli/proxyexchange.go:59`), although `adapter/generichttp/execute.go:14` says that it
has to be passed on. `custom` is `adapter/generichttp` with a user's definition; the
package is modelled, but `assembleAdapters` registers none (`cli/assemble.go:334`). A
refused CONNECT is logged and never booked (`transport/proxy/handler.go:62`), one of the
outcomes of `AskRefused`.

### 2.9 Gateway

`run` goes through `Listen`, `Serve`, `Stop`, `StopFaces`, `Collect` and
`Close`, the statements of `Gateway.Run` and of the command around it. `face` and
`sweeper` are goroutines: `Drain`, `Drained`, `GraceEnds` and `FaceFails`; `SweepRound`
and `SweeperEnds`. A request `Arrive`s or is `Refuse`d, `Decide`s (its change is in the
database, `stored`, and it `owes` events), `Announce`s one event after the other to the
broker, and `Finish`es, which for a tool call is its execution. `KindOf` says what a
request is, and `News` what each kind announces: a submission its arrival, a settlement a
passage and the lease that came of it, a cancellation a passage, a shortened or revoked
lease itself, a proxied request nothing. Only the first two have an entry of the ledger
behind them; the others broadcast a change of a row. A console `Connect`s, `Subscribe`s,
`Pump`s events out of its bounded channel, and may `Leave`.

A face is `Reachable` while it serves, and also while it drains (a connection accepted
before may carry its first request) and after its listener failed (connections that are
kept alive). `Drained` asks for the handlers; that http.Server.Shutdown also waits for
connections opened and not used only means that the grace may run out without a handler,
which `GraceEnds` allows at any time.

### 2.10 Ledger

`Prepare` takes the time of an entry and `Append` stores it, in two steps as
`Recorder.Record` does, so that entries may be stored out of order. `Open` starts a
reader with a filter; `listEvents` is one page and the cursor to the next.

## 3. What TLC checks

| Run | Instance | Shows |
|---|---|---|
| `lease` | 2 leases, 2 callers, limits none/2, clock to 2, rounds of 2, 1 crash | limits hold under races, calls find what their earlier statements left, recorded reasons are true, `Lease` implements `LeaseGrant` |
| `settlement` | 1 request, 2 submissions, 3 actions, 2 risk levels, 2 failures | ledger, approval, lease, memory and status agree; every call finds the tables as its next statement needs them; `Verdict` is implemented |
| `settlement_live` | 2 requests, 1 submission, 1 failure | overdue approvals are closed in the end, also behind one whose conflict cut the round short |
| `trust` | 2 requests (a read, a write, a deletion), 4 answers, 1 identity, 1 disconnection, verification or tick | nothing passes without a human unless it is a low-risk read or within what a human allowed; "always ask" wins; memories, decisions and entries can be traced to each other |
| `ruling` | 1451 inputs, each followed by each | an automatic verdict has a ground and nothing against it; stricter conditions open nothing |
| `session` | 2 runs, 2 requests, 2 versions of an executable, 2 rows, 1 disconnection by the owner, listings of 1 lease | trust stays with the confirmed binding; a dead key stays dead; no session outlives its run; a disconnection that reports success has closed its leases, up to what one listing returns |
| `session_task` (violation) | the same | a lease until the end of the task is issued after the task |
| `vault` | 2 passwords, 1 entry, idle time 3, lockout 2, 3 attempts | guesses are spaced by the lockout; strong authentication is recent; no crash or error loses the entries |
| `credential` | 2 connections, 1 verification, 2 fetches, 3 items, 2 services | an identity gets the reference its owner named; waiters are accounted for; every fetch is answered |
| `egress` | 2 calls, 5 targets, 2 agents, 4 leases of which 2 are listed, 1 retry | what is sent is on a charged lease for just that operation and resource; nothing is sent twice that must not be; the ledger says what happened |
| `gateway` | a tool call and a settlement, 1 stream with room for 1 event, 1 failing or cut face | a console is shown only what has happened, in order, each once, and all of it unless its buffer was full; the database is closed last; the shutdown ends |
| `ledger_pages` (violation) | 3 entries, pages of 1 | an entry of the same millisecond as a page's last is on no page |

**Bounds.** The races are between two parties on one row: two callers suffice
for the last use of a lease, two submissions and the sweeper for one approval,
two requests for a batch that is cut short and for a lease used by another
request. Limit 2 separates the last use from the one before; the clock runs past
every deadline with an instant to spare. `MaxFailures = 2` allows a second
failure while the traces of the first are still there. `ApprovalTimeout` is
shorter than `WindowLength`, so approvals expire both before and after their
window is read, and submissions race both deadlines. In `trust` the second request
is the one that meets what was learned from the first, or the lease the first got;
leases and memories expire after one tick, and `MaxEvents` allows the tick, a
disconnection or a verification in between. `ruling` varies every field the table of
branches looks at, for one request, with memories that cover, ask always, or
miss it, plus one input for each way of being refused. In `session` two runs meet on
one row or on two (same or different executable), and the second row is the one
`Register` creates when the lookup came too early. In `vault` the idle time is longer
than the lockout, so that neither deadline hides the other, and ages are
capped, so the clock itself has no bound. In `egress` two leases are beyond the
listing and come into it when earlier ones are closed (one that has only expired keeps
its place); the targets are one of each kind an adapter treats differently (a write, a
read, a change whose record is read first, a model call, a path the adapter refuses to
build, a user's template that holds one placeholder twice), one of them with its method in
lower case and a query, under a base URL with a path and one without. In `trust`
`LeaseLimit` is 1, so that a lease can hide another. In `gateway` up to three events
of two handlers meet a buffer of 1. The other kinds of request differ from these two in
their face and in what `News` says of them; the theorems hold for all kinds.
`MaxTime`, `MaxUses`, `MaxCrashes`, `MaxFailures` of
`Settlement`, `MaxRequests`, `MaxEvents`, `MaxAgents`, `MaxOwner`, `MaxPending`,
`Horizon` and `MaxBroken` only bound counters: they appear in guards and in types and
nowhere else, but for `Requests == 1..MaxRequests`.

**Deadlock** is checked in `ruling` and `vault`: in the other modules, with the clock,
the failures or the calls bounded, all work ends and the system rests, as the gateway
does when nobody asks it anything.

**Symmetry** permutes interchangeable model values (requests, submissions, runs,
executables, passwords, calls) in the runs without liveness; runs with liveness use
none. `trust` needs none: its requests are ordered by arrival.

**Fairness.** A call that has begun goes on to its next statement (weak fairness
of `Handler`, `Settler`): goroutines are scheduled and every
statement returns with a result or an error. Time passes (`Tick`). The sweeper's
ticker fires every 15 seconds for as long as the gateway runs (`Sweeper`).
`Credential` assumes of a fetch that its own steps are taken, which includes
the deadline of the source's program and of the wait; not that the owner unlocks or
that the broadcast happens. `Gateway` assumes weak fairness of Run, of the faces, of
handlers and of streams, and strong fairness of `SweeperEnds`: between two ticks, 15
seconds apart, the sweeper's select finds only the cancelled context ready, again and
again. That streams go on (`Pump`) takes consoles that read: the server has no
WriteTimeout (`transport/httpapi/server.go:112`), and against a tab that is stuck with its
connection open only the five seconds of grace help, which the formula allows
(`GraceEnds`) and its fairness does not count on. For consoles that read,
`ShutdownFinishes` says that the shutdown does not have to be forced. No fairness is
assumed of submissions, cancellations, failures, crashes or `ExecuteStart`.

### Disagreements between code and comments

Two runs end in a counterexample to something the repository says of itself;
`findings` in `PROJECT.json` quotes the lines.

1. *A lease until the end of the task ends with it* (`cli/agentsession.go:27`,
   `core/pipeline/agent.go:18`). `DisconnectAgent` leaves pending approvals alone; when
   one is allowed afterwards, `grant` does not look at the session and issues a
   session-bound lease no disconnection will ever list. It has no way out while the
   key is dead, but stays active in the table and in the console until it expires.
2. *Pages show the whole ledger* (`platform/audit/event.go:125`,
   `transport/httpapi/ledger.go:119`). The cursor is a time in milliseconds and the
   next page begins strictly before it.

The other disagreements met while modelling are behaviours of the modules above
that no property states; each can be followed in the module named.

- *Used up means exhausted at once* (`core/lease/manager.go:141`; `Lease`). Consume and
  Close are two statements; a context cancelled between them leaves the row active
  and used up, and nothing closes it. Safety is not touched (`ServedWithinLimit`,
  `ImplementsGrant`), but `standing()` still offers it to the decision.
- *Cancelled is final* (`core/pipeline/request.go:33`; `Settlement`). Cancelling does not
  touch the approval; settling it later moves the request to approved, with a lease.
- *No approval is closed without an entry* (`core/pipeline/expire.go:21`; `Settlement`).
  When `Expire` meets an approval that was settled since it was listed, the ones it
  closed before are dropped.
- *A deleted memory asks the next time* (`transport/httpapi/automation.go:104`; `Trust`).
  The clearing is booked first; then `ON DELETE RESTRICT` refuses to delete a memory
  that a decision has referred to, and it keeps letting requests through.
- *Balanced mode allows what a memory matches completely* (`core/decision/engine.go:90`;
  `Decide`). The learned branch asks for medium risk and the low-risk branch for a
  read, so a learned write of low risk is asked about every time.
- *After a disconnection all automatic authorization stops*
  (`core/pipeline/identity.go:51`; `Trust`). A request that read the identity before the
  disconnection issues its lease after the leases have been listed.
- *The faces are stopped after the availability and the events*
  (`cli/start.go:74`; `Gateway`). The faces watch the context the signal cancels, so they
  may begin to drain first.

What the code has and nothing uses, and is therefore not in the modules:
`Availability.Blocker`, `Registry.Disconnect` and `Registry.Unlocked` outside of tests,
the ledger's `Pruner`, the adapter for user-defined services in a running gateway. The
web API does not ask the availability. `settings.Save` writes its preferences one by one.
A preview's read goes out before any lease exists for it when it belongs to an approval,
and under the write's lease when it belongs to an execution. The comments of the GitHub
adapter count eight and thirteen operations where it declares nine and fourteen.

## 4. What is proved

`LeaseProofs` holds for any sets of leases and callers, any limits, any coverage
relation, any sweep limit and any bounds; the assumptions are those of
`LeaseAssumption` (the constants have their types and `NoLease` is no lease).

The inductive invariant `IInv` is the conjunction of `TypeOK`, `UseInFlight`,
`SweepInFlight` (together `InFlight`), `ServedWithinLimit` and
`ClosedForTheRecordedReason`, each of which the run `lease` checks. None of the last four is inductive alone:

- a call in `spent` is about to be counted as served; that nobody else is about
  to be counted on the same lease needs `UseInFlight`: whoever is in `spent` finds
  all uses charged, so nobody else can pass Consume;
- `exhausted` is written by a call in `spent`, so its truth needs the same fact;
- `expired` is written by Sweep from a list read earlier; that the listed leases
  are still past their deadline needs `SweepInFlight`, which holds because deadlines
  only come closer and the clock only advances (`NarrowStep`).

| Theorem | Statement |
|---|---|
| `LeaseTypeCorrect` | `Spec => []TypeOK` |
| `LimitRespected` | `Spec => []ServedWithinLimit` |
| `CallsInFlightAreSound` | `Spec => []InFlight` |
| `ReasonsAreTrue` | `Spec => []ClosedForTheRecordedReason` |
| `LeasesOnlyNarrow` | `Spec => OnlyNarrows` |
| `ClosedLeasesAreFinal` | `Spec => ClosedIsFinal` |
| `LeaseImplementsGrant` | `Spec => ImplementsGrant` |

`SettlementProofs` holds for any sets of requests and submissions, any sets of
submitted actions and risk levels, any timeouts, any batch size and any bounds;
the assumptions are those of `SettlementAssumption`.

Its inductive invariant, also called `IInv`, has nine parts, each checked by the
run `settlement`. What is wanted are four statements about the tables:
`LedgerAgrees`, `GrantsAreEarned` and `StatusIsEarned` (together `EarnedOutcome`), and
`SentIsCovered`. None is
inductive, because a statement relies on what an earlier statement of the same
call established and the tables do not show:

- `SettleBook` writes to the ledger without looking at it; that this is the first
  report of the approval needs `SettlersInFlight`: whoever got past the
  conditional update owns the approval alone and has not been reported yet;
- `SweepBook` does the same from a list; `SweeperInFlight` says that the list has
  no repetitions and that everything on it is expired and, but for the one just
  written, unreported;
- `Issue`, `HandlerAdvance` and `Send` rely on the entry and the lease of earlier
  statements (`HandlerInFlight`), and on no submission touching a request before
  its approval is open;
- `SettleAdvance` moves a request to approved long after the verdict; that a lease
  and a memory are there needs `SettlersInFlight` again, and that a request with
  that status was not allowed by anyone else needs `RowsAgree`, the part that also
  survives failures and crashes, which forget where every call was.

The proof goes action by action. `Writes` collects the fourteen steps that change
the decision, approval, ledger, lease, memory and sent columns; `OthersOnlyRead`
disposes of all others at once. `ApartStep` and `SettlerKept` say what one actor's
step leaves alone for the others, so that each in-flight part is checked only
against its own actor's steps. The refinement maps the verdict of a request to
its decision, its approval or its error entry, whichever exists; the lemmas
`Decides`, `Books`, `Refuses`, `Grants`, `Executes` and `Stutters` say what a step
must do to the tables to be the step of that name in `Verdict`, and `PromiseStep`
shows each of the fourteen writes to be one of them.

| Theorem | Statement |
|---|---|
| `SettlementTypeCorrect` | `Spec => []TypeOK` |
| `OneReportPerApproval` | `Spec => []LedgerAgrees` |
| `OutcomesAreEarned` | `Spec => []EarnedOutcome` |
| `CallsInFlightAreSound` | `Spec => []InFlight` |
| `NothingGoesOutUncovered` | `Spec => []SentIsCovered` |
| `VerdictsStand` | `Spec => NothingIsTakenBack` |
| `SettlementImplementsVerdict` | `Spec => ImplementsVerdict` |

### Decisions and what is learned from them

`TrustProofs` begins with every input of `Decide` at all: no field is assumed to have
its type, except that the dimensions compared by order are numbers (`Comparable`) and
that the declared risk is a level (`Declared`).

The verdict is the first branch that hits, a choice the provers cannot compute with.
`FirstBranchHits` shows that there is a first one, and `DecideByGrounds` reads the
table as a formula: a request passes exactly if it is considered at all and has one
of the three grounds, with nothing of the first three branches against it. Both laws
follow from that formula. `StricterHasFewerGrounds` goes ground by ground: each
one under stricter conditions is one under the looser ones. The two inputs must be
of the same risk level: a decision for lower risk need not be more open, since the
learned branch asks for medium risk (section 3).

| Theorem | Statement |
|---|---|
| `CoversReflexive`, `CoversTransitive`, `CoversAntisymmetric` | `Covers` is a partial order on the scopes it accepts |
| `RiskIsMonotone` | a further risk factor or a higher declared level never lowers the level |
| `AutomaticDecisionsAreEarned` | `RulingSpec => []AutomaticIsEarned` |
| `StricterConditionsNeverOpen` | `RulingSpec => StricterNeverOpens` |

Then `Trust`, in any mode, for any calls, agents, identities and number of requests, any
lifetimes, and any limit of the listing (`TrustAssumption`; the one assumption that is
not a type says that an operation is a write or is not, whoever asks for it). The
inductive invariant ties what a request holds to the tables it read it from:

- `StageOK`, `ScopeOK` and `LeaseOK`: what each step may have, that the scope is that
  of the call, and that a lease is for what passed or for what a human allowed;
- `GrantOK`: what a request read of a memory stays true of it but for its status and its
  behaviour, because rows are only tightened, cleared or invalidated, never rewritten;
- `HasRead`: a request about to be ruled on has read every memory it was warned of, if
  the listing holds them all;
- `LearnedLast`: a request is learned from when it is over, so that its scope and level
  no longer change under the memory.

`ConsentOrHarmless` is then an induction over the chain from answer to memory to
automatic decision to lease to the next decision: `MemoryIsConsent` and
`LeaseIsConsent` say that either ground lies within a human answer, by
`CoverageAddsUp`, the transitivity of coverage without the window. A lease that was
itself issued without a human is why the harmless half needs `HarmlessByLease`: what a
low-risk read leaves behind covers low-risk reads only.

| Theorem | Statement |
|---|---|
| `TrustTypes` | `Spec => []TypeOK` |
| `NothingPassesUnearned` | `Spec => []ConsentOrHarmless` |
| `AlwaysAskIsHeeded` | `Spec => []AlwaysAskWins` |
| `LearningLeavesATrace` | `Spec => []LearningIsTraceable` |

### Sessions

`SessionProofs` holds for any finite sets of runs and requests, any devices, workspaces
and executables, any limit of the listing. That a key authenticates the right agent
needs `KeysOK`: a key is in one row, the one its run registered, with the run's binding;
and since a rebind writes a key into a row that was found a statement earlier, it
needs `RunsOK`: the row found still has the binding that was asked for. `CallsOK` says
that a disconnection past its first statement has killed the key, and `Due` that every
lease a disconnection must close is closed already, bound to its agent when it is
listed, or still on its list. The two action properties follow from one lemma each:
`DeadStays` (nothing writes a key back into a row or a row back to life) and `DueStep`.

| Theorem | Statement |
|---|---|
| `SessionTypes` | `Spec => []TypeOK` |
| `TrustStaysWithTheBinding` | `Spec => []TrustFollowsTheBinding` |
| `ClosedRunsAreGone` | `Spec => []NoOrphanSession` |
| `DeadKeysNeverRevive` | `Spec => DeadKeysStayDead` |
| `CascadesAreComplete` | `Spec => CascadeIsComplete` |

### The vault

`VaultProofs` holds for any passwords, entries, idle time, lockout and number of
failures. `GuessesAreSpaced` looks at the ages of the last wrong passwords and is not
inductive, because the ages do not show the lockout. `Counted` links them: behind
the wrong passwords of the current count lies the one that started the last lockout, and
its age and what is left of that lockout add up to a whole one. `Ordered` says that older
guesses come first, `OpenSince` that an open vault was used as long ago as its idle
time says, and `Written` that only the rename changes the file, to what its operation
sealed, and that the answer is all that may still be missing then.

| Theorem | Statement |
|---|---|
| `VaultTypes` | `Spec => []TypeOK` |
| `GuessingIsSlow` | `Spec => []GuessesAreSpaced` |
| `StrongAuthMeansPresence` | `Spec => []StrongAuthIsRecent` |
| `VaultSurvivesCrashes` | `Spec => []EntriesSurvive` |

### Credentials

`CredentialProofs` holds for any numbers of connections, verifications, fetches,
sources, items, services and accounts. `Secured` lists what a connection has made sure of
at each of its statements; `Kept` says that no step of anybody takes it back: rows
stay, a reference keeps its service and an identity its reference. `ClosedWait` (a closed
channel belongs to a call that still waits) is what the exact list of waiters needs.

| Theorem | Statement |
|---|---|
| `CredentialTypes` | `Spec => []TypeOK` |
| `ConnectionsAreAsAsked` | `Spec => []ConnectedAsAsked` |
| `WaitingIsExact` | `Spec => []WaitersAreAccounted` |

### What leaves

`EgressProofs` holds for any number of calls, agents, targets, leases, limits and
retries, and any declarations of a user that register (`EgressAssumption`,
`DeclarationsRegister`). Most of the invariant is about one call (`Own`), and
`OwnStep` shows that a call's own steps keep it and the others' do not touch it:

- `PaidOK`: the leases still to try fit the call and are not charged, but for the one
  whose last use was just counted; one that was granted is charged and fits;
- `TriesOK`: how many attempts were made at each step;
- `AskedOK`: the request matched a declaration; `CapabilityIsOne` and `PathIsKept` then
  give that the path built from what was captured is the path that was asked, and
  `SentAsAsked` that what is sent is `AsAsked`: that path under the service's base URL.

`Counted` (a lease has as many uses as calls that used it) is a fact about all
calls; it is kept because no call charges a lease twice (`PaidOK`).

| Theorem | Statement |
|---|---|
| `EgressTypes` | `Spec => []TypeOK` |
| `SentIsPaid` | `Spec => []SentIsPaidFor` |
| `NothingIsSentTwice` | `Spec => []SentAtMostOnce` |
| `TheLedgerSaysWhatLeft` | `Spec => []BookedAsHappened` |

### The process

`GatewayProofs` holds for any number of requests and consoles, any buffer and any number
of breaking faces, for requests of any kind. `Announced` says that a change is in the
database before it is announced and that an event which was broadcast is owed no more,
so that each is broadcast once; `Tells` that what a console has been given comes
from what was broadcast since it subscribed, in that order, and is all of it while the
channel cannot have been full. `TellsMore` and `TellsNoMore` are the two halves of
Publish, for a channel that takes the event and for one that is full or closed.
`LifeOK` and `Quiet` (a face that does not serve yet, or has drained, has no request)
give the order of the end.

| Theorem | Statement |
|---|---|
| `GatewayTypes` | `Spec => []TypeOK` |
| `ConsolesAreToldWhatHappened` | `Spec => []StreamsTellWhatHappened` |
| `TheDatabaseClosesLast` | `Spec => []OrderlyEnd` |

### What the proofs found

Five statements held on every instance TLC had seen and were not true for every value
of the constants. The code is as it was; the statements now say what it keeps.

- *A successful disconnection has closed every lease the agent had*
  (`core/pipeline/agent.go:82`). The listing is bounded, and a lease granted after the
  key stopped working can push an older one off it. `CascadeIsComplete` says so, and its
  instance has listings of one lease.
- *Always ask wins* (`core/pipeline/pipeline.go:281`). Only for memories that are among
  the first `MemoryLimit` rows; expired rows count.
- *What is sent is what was asked* (`adapter/registry/resolve.go:43`). A template may
  hold a placeholder twice; then only its last value is kept, and the path that is built
  differs from the path that was asked (`Plain`). The lease that is charged has the
  value that is sent.
- *A change is sent after a read of its record* (`adapter/cloudflare/adapter.go:133`).
  A user may declare an operation of the same name for a service of their own; the
  read is made for Cloudflare only.
- *A lease that is tried is one that is declared* (`adapter/registry/exchange.go:99`).
  Nothing obliges the scope of a lease to name a declared operation; Send looks the
  declaration up, which is now a guard of `Fetch`.

### Only model-checked

All liveness: `OverdueIsClosed`, `FetchIsAnswered` and `ShutdownFinishes`
(liveness under fairness is out of the prover's reach). `Ledger` has no property that
holds of it beyond its types; its run is a counterexample.

## 5. Not modelled

- *The catalogue of operations and the reading of resource fields*: `Trust` starts
  from what they arrive at (`Calls`).
- *Preferences*: the console can store a mode, but nothing carries it to the
  pipeline (`cli/assemble.go:424`), so `Mode` is a constant. The comment at
  `transport/httpapi/views.go:455` says a change is effective at once.
- *An ambiguous match*: its scope has no identity and is refused before the branch
  `identity_ambiguous` is looked at; `Decide` keeps the branch, and no input that
  `Trust` assembles reaches it.
- *InvalidateAll, InvalidateUnused and Use of memories*: no caller in the gateway.
- *Views, settings, configuration, logging*: formatting and single rows without a
  second writer that matters.
- *Export, redaction and pruning of the ledger*: formatting; the Pruner is never built.
- *Protocol framing of MCP, headers and bodies of the proxy, response fields*: data.
- *Encryption, the keychain and the 1Password program*: external; `Vault` and
  `Credential` say what is relied on.
- *Migrations, conversion of rows, the commands that print*: no behaviour of their own.
- *Web console*: a browser client.

## 6. Plan

Done: all modules of section 2, and a theorem for every invariant, every action property
and both refinements that a run checks. What is left:

1. Action properties from the invariants at hand: what no step of `Egress`, `Trust` and
   `Gateway` may undo (a charge, a booked entry, a broadcast event).
2. `Ledger`: what the pages do show, for entries of different milliseconds.
