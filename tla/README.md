# A TLA+ model of the mlxMesh (Open Inference Mesh) core

mlxMesh routes LLM inference jobs to volunteer nodes. A *coordinator* (one per
pod) keeps a registry of nodes, dispatches jobs to them, keeps a credit ledger
that charges consumers and pays node owners, and signs a history of its credits
that other pods witness. Agents on the nodes keep their registry
entries alive and do the work, directories tell clients which pods there are,
and an operator's tool deploys it all. This directory models these parts in
TLA+, checks them with TLC on small instances, and proves the most important
properties of eight components for all sizes with the TLA+ proof system.

Contents: [the system](#the-system), [the modules](#the-modules),
[the runs](#the-runs), [fairness](#fairness), [the proofs](#the-proofs),
[where the code disagrees with its docs](#where-the-code-and-its-documentation-disagree),
[what is not modelled](#what-is-not-modelled), [the plan](#the-plan).

## The system

State is what the component keeps; "hard" is what makes it worth modelling.

| Component | State | Operations | Hard | Correct when |
|---|---|---|---|---|
| Ledger, SQLite/memory (`internal/settlement/ledger.go`) | rows on disk, a copy in memory, one mutex | credit, startup grant, debit, admin action, replay at start | a crash or a failed INSERT between the check, the row and the copy; two processes on one file | no overdraft, one grant per user, nothing acknowledged lost, copy = file |
| Ledger, Postgres (`ledger_postgres.go`) | two logs, a balance table, a claims table | the same calls as transactions of many coordinators; reconcile | transactions interleave, block and roll back | balance table = logs, no overdraft, one grant per user, every transaction ends |
| Federation (`internal/federation`) | own signed events, pinned keys, witnessed events | credit callback (number, sign, append), pull, store, reload | callbacks race, two pulls overlap, restart, lost writes | dense history, no false accusation, an event that fails costs the witness no other |
| Pull dispatch (`pulldispatch.go`, `agent/pull.go`) | waiters by job id, a bounded queue per node | dispatch, claim, result | lost claims, late and repeated results, ids used twice | waiters reachable and never leaked, every dispatch returns, answers tagged with the node that gave them |
| Router fast lane (`router.go`) | in-flight counts and unreachable marks in the registry | rank, try candidates, fail over | caller gives up in the middle | counters return to zero |
| Job queue (`queue.go`) | a channel, a capacity, workers | enqueue, retry with deadline, retarget | admission against a moving capacity, absent callers, shutdown | each job in one place, callers and workers come free |
| Node registry (`registry.go`) | an entry per node | register, refresh, age, evict, mark unreachable, count | counters updated through stale pointers | load never overstated, live nodes come back, one candidate per ring |
| Pricing (`internal/economics`) | none | cost, reward, discount | rounding and clamping | reward <= charge <= list price |
| Billing handlers (`cmd/coordinator/main.go`) | set of credited job ids | gate, pointer reward, dispatch, reward, margin, debit | several ledger calls per request, concurrent requests, moving prices, crash | credits minted are covered by charges, one reward per job id, the gate is honest |
| Streaming relay (`router.go`, `sse`) | the candidates tried, the lines sent on, the last usage frame | rank, try, relay, fail over, settle | a node breaks off before or after the first line; a node that never answers | one node's voice per answer, charge = usage, every stream ends |
| Decomposition (`router.go`, `decomposer.go`, `parallelverifier.go`, `merger.go`) | sub-tasks, a replica, the merge | decide, list, fan out, join, verify, merge, fall back | partial failure; attestation lost between screening and sending | only finished, verified answers are merged; sensitive content stays with nodes that were attested |
| Background placement (`router.go`, `reservation.go`) | sticky assignments, reservations, enclave marks | assign, resolve a cycle, look up, reserve, redeem, attest | nodes age, fail and register again between the decision and its use | a ticket is redeemed once and for its registration; a backup is promoted for a reason |
| Agent (`internal/agent`, `nodeconfig`) | two pause flags, heartbeat loop, workers | tick, refresh, re-register, benchmark, claim, serve | flags read before a wait; the coordinator forgets the node; a config file read half-written | at most one straggler per worker and pause; the node comes back |
| Credentials (`main.go`, `wallet.go`, `adminauth.go`) | keys in two maps and a table, challenges, sessions | mint, rotate, revoke, log in, restart | check and write are separate; the table refuses a write; a restart keeps the table only | maps agree, a dead key stays dead, a nonce buys once |
| Directory (`cmd/directory`, `internal/directory`) | pins in memory and a file, a shelf of digests | report, pin, pass on, restart | lost and delayed messages, torn files, a peer that is down | pins hold, one hop of gossip, success means that somebody has it |
| Deployment (`cmd/oim/deploy.go`, `deploytool`) | image tags, one history file | push, rollback, health verdict | two operators rewrite one file whole | a verdict lands on its own record |
| Planning (`splitter.go`, `moe_planner.go`, `hintvalidator.go`, `consistenthash.go`, `schedule.go`) | none | cut, deal, judge a hint, pick an owner, open a window | boundaries: the ends of a document, remainders, midnight of the last day | both halves have content, each expert one node, hints never lower a tier, only a leaver's keys move |

How they interact. A chat handler reads the balance (gate), may pay a pointer
host, calls the router, which picks candidates from the registry and hands the
job over by push (one HTTP call) or through the pull dispatcher, which the
node's agent polls. If no node takes the job the handler may put it in the job
queue, whose workers call the same router. The answer comes back to the
handler, which pays the node and the treasury and debits the consumer. Every
credit the ledger writes calls back into the federation store after the
ledger's lock is released. Agents keep their registry entry alive with
heartbeats, and pause their workers by two flags. A background job that can be
cut up goes through decomposition instead, and a recurring one to the node of
its assignment. Coordinators report to directories, which gossip.

The modules follow these interfaces: a component sees another one only by what
the call promises. Billing uses ledger calls as atomic (Ledger and PgLedger
show that they are), and a dispatch that succeeds or fails (PullDispatch).
PullDispatch and NodeRegistry look at the same in-flight counter from its two
sides: PullDispatch shows that the router pairs its calls, NodeRegistry what
the counter does when entries are replaced in between. NodeAgent is the node's
side of what NodeRegistry sees as `Refresh`, and of the worker that PullDispatch
calls a node. Placement and Fanout each carry the part of the registry that they
read: attestation and liveness of a node, and the number of its registration.

## The modules

**CreditTotals** - the arithmetic of rows and balances that both backends and
the handlers share. An account is its *totals*: the sums of its grant, earned
and debited amounts and its number of grant rows. Every balance and every check
in the code is a function of these sums, so the order of rows is abstracted
away. Amounts are natural numbers; the code uses `float64`, and its callers pass
no negative amount (prices are not negative, and the treasury endpoint refuses
one).

**CreditBook** - the abstract specification of a ledger: a book of totals that
changes only by a whole credit, a grant to a user who has had none, or a debit
that the account can afford. No processes, memory, crashes or transactions.

**Ledger** - the SQLite backend. `disk` is the file, `mem[p]` the slice of rows
in process p, `op[p]` the write that holds p's mutex. A write is `Lock` (taken
by `CreditAccount`, `ClaimStartupGrantOnce`, `DebitAccount`, `TreasuryCredit`,
`RecordAdminAction`, each with its guard on the copy), then `Persist` or
`PersistFails` (the INSERT), then `Append` (the copy, and the reply to the
caller). The call is three steps, for a crash can fall between them, and other
processes can read the file. `Crash` drops the process's state; `Restart` is
`loadFromDB`. `owed[p]` counts treasury credits whose handler has still to write
its audit row. Refused calls change nothing and have no action.

**PgLedger** - the Postgres backend: `tx[s]` is the transaction of a session,
`BeginTx`, `InsertClaim`, `SelectForUpdate`, `Write`, `Commit`, `RollBack` its
statements. Only two facts of Postgres are assumed, both in the module's header:
writes become visible at commit, and row locks are held to the end of the
transaction. The two operators that say only that (`Open`, `EndTx`) are the
external part of the model. A blocked statement is a disabled action.
`ReconcileCredits` and `ReconcileDebits` are the two queries of the report.

**Federation** - the issuing and the witnessing pod. `pc[c]` follows the
callback of credit c from the ledger's commit over `NextSequence` to
`AppendSelfEvent`, `AppendRefused` (someone else took the number) or
`AppendFails` (the INSERT failed). `Restart` reloads what the table keeps.
`PollStart`, `FetchEventsSince`, `StoreNew`, `StoreKnown`, `StoreRejects`,
`StoreFails`, `PollEnd` are one pull, run by the poll loop and the audit handler
at the same time. `FetchFromOther` is a reply under the same pod id with another
key, as a misconfigured or re-keyed pod gives. Of a signature only this matters:
whether the fields served are the fields signed (`intact`). `skipped` collects the
issuer's numbers whose event the witness failed to store or rejected; the code only
logs them, and no action of the model reads them.

**PullDispatch** - `DispatchFastLane`'s loop over candidates, with one
`PullDispatcher.Dispatch` per attempt: `Register` (channel and waiter),
`Enqueue`, then `Receive` or `GiveUp`; every way out is `Leave`, which undoes
the waiter and the in-flight count as the deferred calls do. The node is
`runPullLoop`: `Poll`, `Claim`, `Execute`, `PostResult`. `ClaimLost`,
`PostAgain`, `LateResult` and `AgentForgets` are the lost reply, the retry of
`postJSON`, the copy that arrives late, and the agent's restart. Requests and
job ids are distinct, because a client may send one id twice.

**JobQueue** - `Enqueue` is `Admit` (the check of the capacity) and `Send`;
`processJob` is `Judge`, `Dispatched` or `DispatchFails`, `BackOffEnds`.
`Retarget` follows the benchmarked nodes. `gone` are callers whose context has
ended, `expired` jobs past their deadline.

**NodeRegistry** - `entry[n]` with its age class, unreachable mark and in-flight
counter; `disp[d]` is a dispatch, whose `IncrInFlight` and `DecrInFlight` are a
pointer fetch under the lock and atomic operations after it (`IncrFetch`,
`IncrAdd`, `DecrFetch`, `DecrAdd`, `DecrStore`); `held` says whether the pointer
it fetched is still in the map.

**Economics** - pricing in whole units of 1/10000 credit, the unit the code
rounds to. All factors are ratios of small integers, so every rounding is exact.
`float64` can fall on the other side of a rounding tie; that one unit is not
modelled.

**Billing** (and **MCBilling** for symmetry) - every handler that moves credit,
as the sequence of its ledger calls: `Gate` or `StartUnbilled`,
`CreditPointerHost`, `ChargeTreasury`, `Served` or `DispatchFails`,
`CreditReward` or `NoReward`, `CreditMargin`, `Debit` or `NotBilled`, with other
requests, `QueueMoves` and `Crash` between any two of them.

**Streaming** - `DispatchFastLaneStreaming`: `Rank` orders the push nodes
arbitrarily (the scores fix an order and nothing else), `Try`, `ConnectFails`,
`Accepted`, then the relay, line by line (`RelayLine`), until `RelayEnds` or
`RelayBreaks`. A line is the number of completion tokens of its usage frame, 0
for all others; `LastUsage` is how the code folds them.

**Fanout** - `RouteWithDecomposition` whole: `Decompose` (worth it or not),
`ListCandidates` (the attestation gate), `SendSubTask`, `SubTaskEnds`, `Join`,
`SendReplica`, `Judge`, `Merge`, and `DispatchWhole` from every point where the
code falls back. A sub-task that ends without an error and without a result fails the job. A query is the number of sub-task types that its keywords
match. `ReRegister` and `Attest` are the registry changing during the job; `seen`
are the nodes that have been sent content.

**NodeAgent** - one node. `TickPaused`, `TickChaos`, `TickNoManifest` and
`TickRefresh` are the branches of a heartbeat; `RefreshEnds`, `RegisterArrives` and
`BenchDone` end the calls in which the loop then sits; `Gate`, `ClaimArrives`,
`JobHanded` and `JobStarts` are the pull worker and the push handler.
`WindowMoves`, `SaveBegins` and `SaveEnds` change the schedule under it, `Evict`
and `CoordinatorRestarts` make the coordinator forget it. There is one agent,
because agents share nothing but the coordinator.

**Placement** - `AssignBackgroundJob`, `ResolveForCycle`, `LookUp` and the call;
`Reserve`, `Expire`, `Redeem`; `VerifyEnclaveAttestation` and
`MarkEnclaveAttested`, two critical sections. A node's manifest is the number of
its registration, for endpoint, fingerprint and key come with it.

**Credentials** - the handlers of API keys, wallet login and admin login, each as
its critical sections: `BeginRotate`, `Generate` or `InsertFails`, `BeginRevoke`,
`Revoke` (with or without the DELETE), `IssueChallenge`, `VerifyChallenge`,
`MintSession`, `Restart`. Keys are numbered as they are drawn.

**Directory** - a coordinator's report to every directory in turn (`BeginReport`,
`TimeOut`), `Receive` (pin, shelve, pass on), `LoseGossip`, `Crash`, `Start`. A
report in flight and a gossiped digest are records that may be overtaken. The
pin file is written in place: `Pin` may leave it torn or not write it.

**Deploy** - `oim deploy push` and `rollback` of several operators: `RemoteBuild`,
`TagLatestDeploy` and `TagLatest` (the three docker commands of
`RemoteBuildCommand`, each of which may fail), `Redeploy`, `AppendRecord`, `SaveRemoteHistory`, `GoldenSignals`,
`FetchForRollback`, `RemoteRetag`; `Abandon` is a command that dies. `Redeploy`
stands for redeploying everything (the `component` argument selects services and
changes neither tags nor history). The script on the target is external;
`ScriptTag` is the floating tag that it runs. A push has an image tag of its own;
the code's tags are timestamps of one second, so two pushes within one second are
not modelled.

**Planning** - pure definitions over bounded inputs, each compared with what it
promises: document cuts, experts by largest remainder, sensitivity hints, the
hash ring, contribution windows. Ratios are integers over a common denominator.
`SplitDocument` and `PlanMoEExpertAssignment` have no caller outside the tests
yet. In `IsActiveNow` a window whose start is its end is never open, which is
what the code says.

**MCRouting** and **MCServices** put the components of two groups into one run
each. They share no state, so `focus` names the one that moves; the others rest
in an initial state.

**LedgerProofs**, **SettlementProofs** (PgLedger and Federation), **BillingProofs**
(with Economics), **PullProofs**, **CoordinatorProofs** (NodeRegistry and JobQueue),
**RoutingProofs** (MCRouting: Streaming, Fanout, NodeAgent) and **ServicesProofs**
(MCServices: Placement, Credentials, Directory, Deploy, Planning) - the theorems about
those modules. **Sums** holds the lemmas about sums over finite sets that
BillingProofs and ServicesProofs share. Where two components meet in one module,
their definitions have a prefix: `Jq` JobQueue, `Fd` Federation, `St`, `Fo`, `Na`,
`Pm`, `Cr`, `Di`, `Dp` and `Pl` the parts of MCRouting and MCServices.

Some actions and operators have a wrong variant defined right before them
(`PersistTwice`, `SelectWithoutLock`, `StoreAnyKey`, ...). They are not part of
any specification: each is a plausible bug, and put in place of the definition
it precedes it makes the property it is paired with fail. `PROJECT.json` has the pairs.

## The runs

Bounds are named constants; the configurations give them values.

| Run | Bounds | Shows |
|---|---|---|
| `ledger` (Ledger.cfg) | 2 accounts, 1 process, amounts 0..2, 4 rows, 2 crashes | `BooksAgree` (memory, file, acknowledgements and audit rows), `GrantSpentFirst` (debits use up the grant before earned credit, a late grant repays spent earned credit only, the balance moves by exactly the row), and that the file implements CreditBook: no overdraft, one grant per user |
| `pgledger` (PgLedger.cfg) | 2 accounts, 2 sessions, amounts 0..1, 3 commits | `TablesAgree` (balances and claims against the logs), `TransactionsEnd`, and that the committed log implements CreditBook |
| `federation` (Federation.cfg) | 2 credits, 2 pulling activities, 1 restart, 1 failed write | `HistoryIsDense` (no hole, and no event lost but to a race), `WitnessTellsTruth` (no false accusation, nothing counted that was not issued, no gap of its own), `EventsGetWitnessed` |
| `pull` (PullDispatch.cfg) | 2 requests (one reserved), 1 job id, 2 nodes, queues of 1, 2 attempts, 1 fault, all requests with deadlines | `DispatchesExact` (waiters reachable and not leaked, counters exact), `DispatchReturns` |
| `jobqueue` (JobQueue.cfg) | 3 callers, 1 worker, 1 node, capacity 1..2 | `JobInOnePlace`, `JobsComeFree` (callers and workers) |
| `billing` (MCBilling.cfg) | 2 requests, 2 job ids, 1 user and anonymous callers, a real and a demo node, 2 queue depths of capacity 3, max_tokens 2 (0 or 3 tokens reported), 1 crash | `MintIsBacked`, `OneRewardPerJob`, `GateCoversDebit`, `ChargeWithinEdge` |
| `registry` (NodeRegistry.cfg) | 2 nodes of one ring, 2 dispatches | `LoadBounds` (never overstated, floor restored), `OneOfEachRing`, `NodesComeBack` |
| `routing` (MCRouting.cfg) | 2 streams over 3 nodes (one behind NAT), 2 attempts, 2 lines, 2 tokens; a pod of 3 nodes, 3 sub-task types, 2 answers, `max_parallel_nodes` to 2, 1 registry change; 2 workers, 2 moves of the window, 1 coordinator restart | `StreamsAreHonest`, `MergeIsSound`, `SensitiveShards`, `StragglersBounded`, `RoutesEnd`, `AgentsResume` |
| `services` (MCServices.cfg) | 2 hosts, 2 calls, 1 ticket, 1 backup, 2 registry events; 2 users, 2 requests, 2 nonces, 2 keys, 1 restart; 1 pod, 2 keys, 2 directories, 2 reports, 1 crash; 2 operators, 3 images, 2 rollbacks; documents of 2 to 6 characters, 5 experts on 1 to 3 nodes, hints with 3 accuracies, versions 0, 1 and unreadable, 3 confidences, a ring of 3 members and 5 points, days of 3 minutes | `PlacementIsSound`, `CredentialsAreSound`, `DirectoryIsSound`, `VerdictsAreOwn`, `PlansAreSound` |
| `ledger_shared_file` | as ledger, 2 processes, no crash | finding: two grants |
| `federation_restart` | as federation | finding: served events that do not verify |
| `pull_late_result` | as pull, one request | finding: an answer tagged with the wrong node |

Why the bounds are enough. Each hazard needs few actors: two sessions for a
race, two pulls for overlapping batches, two attempts for a late result, three
callers to have one served, one queued and one at the limit. Four ledger rows
are a grant, an earning and two debits of one account, with the crashes placed
anywhere among them. Amounts 0..2 include the zero row and a debit that uses up
more than the grant. In `billing` a start balance of 30 units covers one
two-token job at list price (20 units) but not two, and exactly two at full
discount (15), so gate and debit disagree when they can; an answer of 3 tokens is one that overruns
`max_tokens`, and 0 one that reports no usage. The depths 0 and 2 of 3 are 0% and
67% backpressure: full discount and none; the proofs cover every depth.

In `routing` two attempts and two lines give a failure before the first line and
one after it; up to three sub-task types on three nodes, of which
`max_parallel_nodes` may leave one or two, give a fan-out with a replica on
another node and one that is cut off; two workers and two moves of the window
give a straggler and a pause that ends and begins again. In `services` two
directories and two reports with one crash let an old digest overtake a new one
and a pin be lost; two keys and one restart let an old key come back if anything
let it; three images are one to leave, one to return to and one of another
operator. Six characters are enough for a boundary at either end, in the middle
and out of reach; three minutes make windows that cross midnight, touch it and
stay away from it.

`CHECK_DEADLOCK FALSE` is set where the system may really stop: a queue after
shutdown; requests, streams and jobs that are all done; operators who leave. Every other run checks for
deadlock.

What some properties leave out, on purpose:

- `WaiterReachable`, a part of `DispatchesExact`, speaks of jobs whose id no other request carries. Two
  dispatches of one id delete each other's waiter; the second then waits for its
  deadline.
- `GateCoversDebit` excepts a caller whose queue got busier or who had another
  request debited meanwhile: the code calls that the debit race and serves the
  job all the same. `Unpaid` in `MintIsBacked` is how much such cases leave
  uncovered, together with anonymous callers, background jobs and probes, which
  nobody pays for.
- `OneRewardPerJob` holds until a restart, because `creditedJobs` is in memory.
- `NoSelfInflictedGap` (in `WitnessTellsTruth`) and `EventsGetWitnessed` except the very event
  that was skipped, because its own INSERT failed or its own signature does not verify, and a
  witness that pinned another key. The watermark passes such a hole and the event is never
  asked for again; `WitnessHoldsPrefix` says that there are no holes, and is a finding.
- `HistoryIsDense` lets a callback lose its event when another one appended first, and when
  a write failed or the issuer restarted; `EveryCreditHasEvent`, a finding, excepts the last two only.
- `LoadNeverOverstated` (in `LoadBounds`) is one-sided: a re-registration may
  make the counter forget dispatches under way.
- `StragglersBounded` allows each worker one job that it had claimed, or a
  request that had passed the gate, before the pause. None at all is what a
  comment promises and the code does not keep.
- `SensitiveShards` allows a node that was attested at some time during the job:
  the gate screens once. `SensitiveAtDispatch` is the stronger statement, for a
  recurring job.
- `PinsHold` (in `DirectoryIsSound`) compares pins with the file except for a pin
  that no write has reached; after a crash that loses such a pin, another key may
  be learned.

## Fairness

- PgLedger: strong fairness of each session's next statement. A statement
  blocked on a row lock becomes possible again and again while other sessions
  pass; Postgres queues waiters, so it gets its turn.
- Federation: callbacks and a started pull run on (weak). The poll loop ticks
  for ever (weak). A fetch succeeds if it is tried again and again (strong); the
  poll loop retries every interval. Writes of credits, failures and restarts
  have none.
- PullDispatch: the router's goroutines and the nodes' loops run on, and
  deadlines of the requests in `Deadlined` pass (weak). A claim need not reach
  its node, and a node need not survive.
- JobQueue: callers' and workers' goroutines run and deadlines pass (weak). No
  dispatch need ever succeed and no caller need leave.
- NodeRegistry: agents that run tick (weak fairness of `Heartbeat`).
- MCRouting: a stream's goroutine runs on, and a call to a node ends by its
  deadline, for each has a client timeout of 120 s (`router.go:632`, `734`)
  (weak). The steps of a decomposed job run on, their calls likewise bounded
  (weak). The heartbeat ticks and, tried again and again, finds a manifest; a
  register call that is tried again and again arrives (strong). A
  refresh, a simulated outage and a write of the configuration end, and a
  silent node ages at the coordinator (weak).
- Ledger, Billing and MCServices have no liveness properties and no fairness.

## The proofs

Each theorem holds for every value of the constants that the named assumption
(`LedgerConstants`, `PgConstants`, `StreamingConstants`, ...) of its module admits.
Every invariant that a run checks, type invariants included, and every safety
property is a theorem.

| Module | Theorem | Says |
|---|---|---|
| LedgerProofs | `TypeCorrect` | the state is well typed, with any number of processes |
| | `LedgerSafety`, `AuditSafety`, `BooksAlwaysAgree` | with one process on the file (`Procs = {p0}`): `MirrorExact`, `NoOverdraft`, `GrantAtMostOnce`, `AckedIsDurable`; `AuditNeverInvents`; and `BooksAgree`, which the run checks. The assumption is needed: with two processes `ledger_shared_file` breaks `GrantAtMostOnce` |
| | `GrantFirst` | `GrantSpentFirst`, an action property: what a step may do to grant, earned and total balance of an account, late grants included |
| | `LedgerImplementsCreditBook` | the file implements CreditBook |
| SettlementProofs | `TablesNeverDrift`, `PgNeverOverdrawn`, `PgTypeCorrect` | PgLedger's `TablesAgree`, `PgNoOverdraft`, `TypeOK`, for any number of sessions |
| | `PgImplementsCreditBook` | the committed log implements CreditBook |
| | `FederationTypeCorrect`, `HistoryStaysDense`, `WitnessIsTruthful` | Federation's `FdTypeOK`, `HistoryIsDense`, `WitnessTellsTruth`, for any number of callbacks, pulls, restarts and failures |
| BillingProofs | `DiscountWithinEdge` | reward <= discounted charge <= list price, with all roundings |
| | `TypeCorrect`, `EdgeSafety`, `OneReward` | Billing's `TypeOK`, `ChargeWithinEdge` and `OneRewardPerJob` |
| | `GateIsHonest` | `GateCoversDebit`, if the treasury's account is not a consumer's (`Treasury \notin Users`), since `creditPointerHost` charges it |
| | `EveryMintIsBacked` | `MintIsBacked`, for finitely many users, nodes and requests, if the pointer host's account is neither a node's nor the treasury's |
| PullProofs | `TypeCorrect`, `BooksOfDispatches` | `TypeOK`, with it the bound on the queues, and `DispatchesExact` |
| CoordinatorProofs | `TypeCorrect`, `LoadStaysBounded` | NodeRegistry's `TypeOK` and `LoadBounds`, for any number of dispatches |
| | `OneCandidatePerRing` | `OneOfEachRing` |
| | `QueueTypeCorrect`, `NeverTwice` | JobQueue's `JqTypeOK`, with it the bound on the channel, and `JobInOnePlace` |
| RoutingProofs | `ShardsStayAttested`, `MergesAreSound` | Fanout's `SensitiveShards`, `MergeIsSound` |
| | `OneStragglerPerWorker` | NodeAgent's `StragglersBounded` |
| | `HonestStreams` | Streaming's `StreamsAreHonest`, for any number of streams, nodes, attempts, lines |
| | `RoutingTypeCorrect` | MCRouting's `TypeOK`, that is `StTypeOK`, `FoTypeOK`, `NaTypeOK` |
| ServicesProofs | `SoundPlacement` | Placement's `PlacementIsSound`, for any nodes, calls, tickets, events |
| | `SoundCredentials` | Credentials' `CredentialsAreSound`, for any users, handlers, nonces, keys, restarts |
| | `OwnVerdicts` | Deploy's `VerdictsAreOwn`, for any number of operators, images, rollbacks |
| | `SoundDirectory` | Directory's `DirectoryIsSound`, for any pods, keys, reports, crashes, and two directories |
| | `PlansStaySound` | `PlansAreSound`: the five algorithms of Planning on every input |
| | `ServicesTypeCorrect` | MCServices' `TypeOK` |

What is assumed of the constants. Bounds are naturals, sets whose members are
counted are finite, and values that stand for "nobody" are not members of what they
are told apart from. Beyond that: `Procs = {p0}` for the ledger's safety;
`Treasury \notin Users` in `GateIsHonest`; `Host \notin Nodes \cup {Treasury}` in
`EveryMintIsBacked`, because `creditPointerHost` pays the host for its pointer even
when the treasury cannot be charged, which is no job's mint; `DirectoryConstants`
asks for exactly two endpoints, for a directory has one configured peer
(`gossip.go`, `--peer` of `cmd/directory`); `PlanningConstants` for documents of at
least two characters (the code declines to split below 64), an integer for every
declared capacity, and percentages for a requester's accuracy.

The argument about the ledger. None of the invariants is inductive: `NoOverdraft` speaks of the
file, but the check that protects it read memory, a step earlier. The inductive
invariant `IInv` adds what connects them:

- `MirrorExact`: memory is the file, but for the row just inserted;
- `DownIsIdle`: a process that is down holds no operation;
- `RowAmountsGiven`: an operation's amount is a row amount;
- `CheckedStillTrue`: what a locked operation checked (a grant not yet made, a
  debit covered) is still true of the file, because the lock is held and nobody
  else writes;
- `AckWillBeDurable`: what is acknowledged, with the row under way added on both
  sides, is still in the file.

`LockKeepsIInv`, `PersistKeepsIInv` and `AppendKeepsIInv` are the cases that
matter; `StepKeepsIInv` puts them together with failures, crashes and restarts.
`PostMonotone` and `PostGrows` are the facts about posting rows that durability
rests on. `StepWritesOneRow` says what a step may do to the file - nothing, or
one row that its check allows - and gives both `GrantFirst` and the refinement;
`BalanceParts` and `RowMovesBalance` do the arithmetic of one row for `GrantFirst`.

`AuditSafety` rests on an invariant of its own, `AuditBalance`: audit rows
written, owed and under way never exceed the treasury credits on record or under
way.

In Billing the invariant (`IInv` of `BillingProofs`) is that every handler which
has begun is `Sound`: a typed record whose charge is within the edge, and whose
job id is a real one if it is deduplicated. A charge is computed from the queue
of one moment and used later; the invariant says that it stays within the edge
because reward and list price are functions of the handler's own fields, which
do not change after the answer. `OneHandlerMoves` reduces each action to its one
handler; the debit and the crash, which touch several, have their own lemmas. `OneReward` adds `ClaimsHold`: until a
crash, `creditedJobs` holds the job of every deduplicated request whose node was paid,
so a handler that finds its job unclaimed knows that nobody was paid for it. `GateIsHonest` carries the gate's estimate through the
handler (`Covers`): the caller affords the estimate until the answer comes, and the
charge after it, because prices grow with tokens and load (`PriceMonotone`, with all
roundings) and other steps only credit consumers or mark the request as disturbed.

In PgLedger the invariant `PgInv` says of each open transaction what it has
already established and which lock makes that last: a debit that has passed its
test still passes it because the session holds the row, a grant's claim is
free because the session holds the claim. `CommitKeeps` uses that at the one step
that publishes; `RowFollowsLog` is the reason that the cached row and the log stay
equal, and gives the refinement too. A debit of nothing against a missing row is
the case that needs care, since it finds no row to lock.

In Federation `FedInv` has four parts beside the types. `Numbers`: a callback that
has signed holds a number that is not above `nextSeq`, so a refused one finds its
number taken, and as long as nothing failed an ended one leaves its number in the history. `History`: the table has exactly one row
per number below `nextSeq`, counted twice, by rows and by credits, which is
also why no number exceeds the credits there are. `Copies`: an event under the
issuer's key is a row of that table wherever it is met, in memory, in a batch or
at the witness. `Complete`, as long as no other key is pinned: below every own event
held or in a batch nothing is missing, for it is held or skipped already or comes earlier
in the same batch. That is what two overlapping pulls preserve; `NoSelfInflictedGap`
alone is not inductive. `MaxOfBounded` and `LowestIsNext` (from the
well-foundedness of the naturals) say that watermark and next event exist.

In PullDispatch `PullInv` states the waiters from the moment of registration, and
the counters as the cardinality of the set of attempts at a node; every end of an
attempt goes through `LeaveKeeps`. In JobQueue `OnePlace` says without counting
what `JobInOnePlace` counts: a job is in the channel at one position, with one
worker, or in its result slot. In Fanout `FoInv` ties tasks, nodes and stage
together and says that the pod of a sensitive job consists of nodes that were
attested. In NodeAgent the invariant adds that a worker which has passed the flags
has begun nothing in this pause.

In NodeRegistry `LoadBounds` is not inductive: a dispatch whose pointer went stale
ends without a decrement of the entry that is in the map now. `RegInv` counts only
the dispatches that hold a current pointer (`Loaded`, `Flooring`): such a dispatch is
not among them, and one that re-fetches a newer entry joins them before it
decrements, so the counter may fall below zero, until the Store, but never stays too
high. Finiteness of the dispatches is an assumption, for their number is compared
with a counter.

`MintIsBacked` compares sums over all accounts and requests at the ends of ledger
calls. `MintInv` is `IInv`, `Progress` (nobody earns before the answer or has paid
before the end) and `Minted <= Collected + Due`, where `Due` counts the reward while
only the node has been credited (the margin is still to come) and `UnpaidOf` at every
other moment. `OneHandlerBalances` reduces a step to what it does to one account and
one handler. The lemmas of Sums (`SumMoves`, `SumGrows`, `SumTakes`, ...) say what that
does to the sums: the proof system cannot instantiate the library's induction
theorems, so an induction over a finite set is the choice of a smallest subset that
is a counterexample (`MinimalSubset`, from the well-foundedness of strict inclusion).

In Streaming `StInv` says of each handler what the client has heard from it: nothing
before a node's stream is open, afterwards only lines of the node in the headers,
with the usage of the last frame (`UsageOf`); and a node's counter is the
number of handlers that are at it, counted again at each end and each reconnection.

In Placement `PmInv` follows a reservation (`TicketInv`: unused until it is gone, and
then the only target of the job sent on it) and a call (`CallInv`: whatever is down
now, or was passed over, is among the nodes that have been down since the call
began, for `down` starts with those and grows with every change of the registry). In Credentials `CrInv` is `KeyInv`, the key
books with the order in which keys were drawn - a dead key cannot come back
because no later write can draw an old one - and `NonceInv`: a consumed nonce is in the
hands of at most one handler, and has bought nothing until that handler ends. In
Deploy `DpInv` says the same of an operator's own copy of the history
(`OwnUnder`, `CommandInv`) as of the file, since each writes back what it once read;
a push owns its image until its check, so a verdict met in a copy cannot become
false later.

In Directory `DiInv` has a part for a running directory's pins, shelf and file (`PinInv`),
for what was accepted (`HeardInv`: it has the pinned key, in memory or in a file that
is neither torn nor behind; `OneKeyInv`), for gossip (`OneHop`) and for the report under way
(`ReportInv`). `HeardInv` is what carries one key per pod over a restart:
`DirectoryIsSound` alone does not say what a directory starts with.

The algorithms of Planning have no steps; each is a lemma about every case.
`EveryExpertHeldOnce` rests on `RunsAreGapless`: the shares sum to the experts (floors
and marks, `SumOfBoth`, `SumOfMarks`), so the runs lie end to end and the node of an
expert is the one before the first run that begins later. `RingIsSound` names the point
that a key falls on (`OwnerOfPoint`); `SearchFindsNearest` the first distance at which
there is a boundary; `WeightNeedsHistory` bounds the product of the hint's factors;
`OneDayOneMinute` gives a minute of the week its one day and minute, modulo seven days.

MCRouting and MCServices move one component at a time: `RtInv` and `SvInv` are the
conjunctions of the components' invariants, and a step keeps those of the components
that rest because their variables do not change.

Only model-checked: every liveness property (`TransactionsEnd`, `EventsGetWitnessed`,
`DispatchReturns`, `JobsComeFree`, `NodesComeBack`, `RoutesEnd`, `AgentsResume`).
Fairness and `ENABLED` are beyond the proof system as used here and stay with TLC.

## Where the code and its documentation disagree

Each with its quotation in `PROJECT.json` under `findings`. The first three have a
run whose counterexample shows them. For the others a definition states the
promise where it can be stated (in parentheses); it is no property of a run.

1. Two coordinators on one ledger file (`main.go` says that this is done) can
   grant one user twice; `grant_decay.go` says never (`ledger_shared_file`).
2. A reloaded federation history lacks `pod_id`, which its signatures cover:
   nobody can verify it after a restart (`federation_restart`).
3. A late result of one node is taken for the answer of the next
   (`pull_late_result`).
4. A witness papers over a gap in the history it holds, which `event.go` says it
   must not (`WitnessHoldsPrefix`).
5. The Postgres reconciliation is two statements, not the consistent snapshot
   that `reconcile.go` describes (`ReconcileIsASnapshot`).
6. Two racing credits can lose one's event (`EveryCreditHasEvent`), and a credit
   between the two readings of an audit makes an honest peer inconsistent
   (`AuditAcquits`).
7. The handlers dispatch without the deadline that the pull dispatcher relies on.
8. Decomposition drops the sub-tasks beyond `max_parallel_nodes`
   (`MergeCoversQuery`), merges at a node that took part, counts no load, and pays
   none of its nodes; a reserved job's node is not paid either.
9. A recurring sensitive job is dispatched by liveness alone
   (`SensitiveAtDispatch`), and an attestation verified for one registration may
   mark the next (`MarkIsOfThisEntry`).
10. Two first mints of one key replace each other (`FirstMintReplacesNothing`), and
    a key whose DELETE failed is back after a restart (`RevokedIsForGood`).
11. `RegisterPod` reports what the last directory said (`ErrorMeansNobody`), and a
    torn pin file keeps a directory from starting (`RestartsAgain`).
12. A rollback retags an image that the services may not run
    (`RollbackTakesEffect`), and the deployment log loses records
    (`HistoryOnlyGrows`).
13. A pull node runs a job that it was handed after its pause began
    (`StartsNothingPaused`), and a configuration file read half-written opens a
    closed window until the next tick (`OpensOnlyInWindow`).

## What is not modelled

`PROJECT.json` lists every component with a reason. In short:

- Text and ranking heuristics (prompt texts, candidate scores, throughput averages): an
  arbitrary choice where the order does not matter to a property.
- Cryptography and encodings, except what a signature covers.
- Header, size and address checks of the HTTP layer, which are stateless, and
  its token buckets, one counter under one lock.
- Statistics, metrics, read-only endpoints.
- The size of startup grants and their proof of work; when and whom to probe.
- `verification.go` (one measure against one claim), `record.go` and
  `division_order.go` (records of what their callers hold), the list of
  coordination devices, device links of a wallet.
- `ResolvePodsForModel`, `RecordHintAccuracy` and `DetectExpertLoadImbalance`, which
  have no caller outside the tests.
- Work inside one node: Exo, thermal limits, installation.
- Clients: Swift apps, SDKs, dashboard, command line.

## The plan

Done, in this order: the credit core (CreditTotals, CreditBook, Ledger, PgLedger,
Economics, Billing), dispatch (PullDispatch, JobQueue, NodeRegistry), Federation;
then streaming, decomposition and the agent (MCRouting); placement, credentials,
directory, deployment and planning (MCServices); and the proofs of the table
above, which state every safety property that a run checks.

Left, in the order of what it would add:

1. The composition of PullDispatch with NodeAgent: a claim in the hands of an agent
   that pauses.
