# Verification of the Doudizhu platform

The repository is a Go server (`src/server`), its clients and its documents. The server's own core is
the Doudizhu business context: rooms and hands kept in MySQL under a command ledger, and *live hands*
kept in memory by one server instance and in a MySQL journal that lets another instance take over.
Around it stands a platform of accounts, sessions, authorization policy, cached rows and realtime
connections, shared by all instances. This directory models both in TLA+, checks small instances with
TLC and proves with TLAPS, for every size, the safety properties and both refinements that the small
instances check.

## 1. Inventory

Paths are relative to `src/server`; `ddz` stands for `business/doudizhu`.

| Component | State | Operations | Interacts with | Hard behaviour | Correct when |
|---|---|---|---|---|---|
| Durable live hand runtime (`ddz/infrastructure/runtime`, `ddz/infrastructure/mysqlstore/live_journal.go`) | epoch and receipts of each hand in memory; rows `doudizhu_live_writers`, `doudizhu_live_actions` | Start, RollbackStart, Bid, Play, Pass, Append, Acquire, DeleteUnused, RecoverActive, receipt queries | live directory, archive, application service, supervisor | takeover of a live owner, ambiguous COMMIT, retries, crash between any two transactions | an answered move is never lost or applied twice; memory shows a prefix of the log; one owner per epoch |
| Live directory and archive (`business/gamecore`) | entry per hand: game, quarantine, pending final record; row `game_final_records` | Begin, ApplyCommitted, Abort, RetryArchive, RemoveForCompensation, Archive | runtime, MySQL | archive errors before or after the insert, quarantined entries | one final record, the right one |
| Lifecycle supervisor (`ddz/application/lifecycle`) | entry per hand: due time, armed version, pending command | AfterBid/AfterPlay and their historical twins, Sweep, Retry, Cancel, Forget, ReconcileRecovered | service, runtime | callbacks in any order, deadline against move, one hand's error ending the sweep of all | the aggregate follows the game, timers only advance, every late hand ends |
| Application service (`ddz/application`) | none of its own | one transaction per command: claim, load for update, mutate, save, outbox; compensation | ledger, aggregates, runtime | lost acknowledgement of COMMIT, stored rejection, version conflict | a command is executed once, its answer repeats |
| Command ledger, client sequence, outbox (`ddz/application/service.go`, `ddz/infrastructure/mysqlstore`) | rows of commands, sequences, outbox events; the protected seed of each hand | execute, ClaimCommand, LockClientSequence, SaveClientSequence, AppendOutbox, CompleteCommand, PrepareHand, ReleaseHand | service, aggregates, seed vault | same ID twice at once, rejection that consumes a sequence, a seed saved outside the transaction | one stored result per command, told to everyone who sent it; events without gap; a created hand keeps its seed |
| Room and hand aggregates (`ddz/domain`) | rows of rooms, seats and hands | join, leave, ready, start, deal, advance, finish, terminate, close | service, directory | two rows changed by commands in any order; a stored combination the restore functions refuse | every stored row can be read back; a room and its hands agree |
| Game rules (`ddz/domain/bidding`, `playing`, `settlement`, `livehand`) | one game in memory | bid, play, pass, settle, abort | runtime | card sets that fit several patterns, bombs and springs doubling | turn order, patterns as the rules read, zero-sum scores |
| Fairness and the automatic dealer (`ddz/domain/hand_fairness.go`, `apps/app-api/internal/bootstrap/doudizhu_autodeal.go`) | contributions and beacon of each hand; the dealer's pass | commit, reveal, custodied contribution, scan, load, lock beacon, deal, abort | service, drand relay | clock read before a row lock is waited for; a failing hand ends a pass | nothing is contributed once the beacon is public; every hand leaves the fairness phases, unless one that cannot be dealt is in its way |
| Dispatcher and reply cache (`apps/app-api/internal/doudizhuapi`) | replies by request ID | Execute, callback after commit | clients, service, supervisor | duplicate request in flight | one execution per ID and instance |
| Realtime bridge (`doudizhuapi/realtime.go`) | what each read pump is broadcasting | sync, command, broadcast of a changed hand | dispatcher, hub | two broadcasts of one hand, a view read after its event was sent | an open connection has been told the last broadcast move |
| Realtime hub (`platform/realtime`) | indexes of connections and topics, a bounded queue per connection | register, pumps, subscribe, publish, terminate, close | sessions, bridge | closing against registration, subscription and pumps that end by themselves | limits hold, no dangling subscription, Close returns |
| Authentication and refresh sessions (`platform/authn`) | session keys in Redis | login, refresh, access, logout, rotate, list and revoke by account | identity, administration | a login or refresh that races with a revocation; no transaction over MySQL and Redis | a token is exchanged once, a revoked session stays revoked |
| Authorization policy cluster (`platform/authz/adapter/casbinmysql`) | rules and their version in MySQL, a copy per instance | load, claim, poll, reload, mutate | administration | lost notifications, reloads that fail, changes between load and claim | no reload claims what it did not load, a lagging instance catches up; a start should enforce what it claims, and does not (section 4) |
| Administration (`platform/admin`) | none of its own; one advisory lock | bootstrap, create account, replace roles, enable, disable, reset password, roles, resources | identity, policy, sessions | guards that count from an outdated copy, compensations after a commit | an active super administrator stays, but for compensations and misled guards (section 4) |
| Identity store and cache model (`platform/identity`, `foundation/cache`) | rows of accounts, roles, resources; shared copies in Redis | detail reads, creations, updates, deletions, invalidation | administration, authentication | a read that fills the cache across a write | a stale copy has one of the explanations its time to live is for |
| Checkpoints and retention (`live_checkpoint.go`, `live_retention.go`) | checkpoint rows | write, verify, prune | journal | pruning against readers | not modelled |
| Reveal tickets, reveal keys, external identities, envelope cryptography, shuffling, clients | keys, tickets, rows | | | none that a state model tells apart | not modelled |

`PROJECT.json` lists every component with its status, and the hazards, each at its line.

## 2. Modules

| Module | What it is |
|---|---|
| `LiveHand` | One live hand from MarkHandDealt to its final record: MySQL rows, server instances and their goroutines |
| `LiveLedger` | Abstract specification: one ledger of accepted moves, answers only for accepted moves, no move after the hand is sealed |
| `CommandLedger` | The command executor: transactions, row locks, sequences, outbox, and the seed a start saves on its own connection |
| `CommandOnce` | Abstract specification: a command is decided once, at the version it expected, and told as decided |
| `RoomTable` | A room and the hands started in it, as rows that commands change |
| `FairDeal` | From the start of a hand to its deal: contributions, the beacon, the automatic dealer |
| `GameRules` | One dealt game: auction, patterns of cards, tricks, settlement |
| `HandTimers` | The lifecycle supervisor of one instance over several hands |
| `HandNews` | The realtime bridge: how players learn of moves |
| `RealtimeHub` | Connections, their pumps and queues, topics and closing |
| `AccountSessions` | The sessions of one account against password and status changes |
| `PolicyCluster` | The authorization policy of several instances and the guard of the last super administrator |
| `CatalogCache` | Rows of accounts, roles and resources, and their cached copies |
| `MCLiveHand`, `MCCommandLedger`, `MCServices` | Small sets of requests, deals and samples for TLC; `MCServices` also joins the modules from `CommandLedger` to `CatalogCache` in one specification |
| `Aggregates` | `RoomTable` and `FairDeal` joined, as `restore.go` reads both back |
| `LiveHandInvariants` | The inductive invariant of `LiveHand` beyond its own `IInv`, in named groups |
| `LiveHandProofs`, `LiveOwnerProofs`, `LiveArchiveProofs` | Proofs about `LiveHand`: durability; who owns the journal; the aggregate, the final record and the refinement |
| `CommandLedgerProofs`, `AggregateProofs`, `GameProofs` | Proofs about commands and their refinement; about rooms and fair deals; about the rules of a game and its timers |
| `PlatformProofs` | Proofs about sessions, policy and cached rows; about the hub and the news of moves |
| `ServicesProofs` | Proofs about the modules that `MCServices` joins, together |

The modules meet where the code does. `LiveHand` and `CommandLedger` meet at the application service:
`LiveHand` keeps one row's worth of the ledger (the phase commands of one hand) and takes its atomic
transactions for granted, and `CommandLedger` shows how `Service.execute` makes them atomic and
repeatable. `RoomTable` and `FairDeal` are the mutations that `CommandLedger` reduces to a version and
a verdict: `FairDeal` has the phases `RoomTable` passes through, and ends where `LiveHand` begins, at
MarkHandDealt. `GameRules` is the game of which `LiveHand` keeps only the accepted moves. `HandTimers`
is the supervisor that `LiveHand` shows for one hand under faults, here for several hands without
them. `HandNews` uses the queues of `RealtimeHub`; `PolicyCluster`, `AccountSessions` and
`CatalogCache` are three faces of one administrative request: what it changes under the lock, whom
it signs out, and which copies it deletes.

A definition whose comment begins with "Variant" is a plausible bug of the definition it names; no
specification uses it, and each property is known to fail when one takes the place of the original.

### LiveHand and the code

Durable variables are what MySQL keeps (`handPhase`, `terminator`, `writer`, `actions`, `archive`).
Volatile ones are indexed by server instance and vanish in `Crash` (`server`, `boot`, `games`,
`entries`, `final`, `epochs`, `receipts`, `pending`, `dealing`). `threads` are goroutines; a goroutine
carries the request or termination it works on from one transaction to the next. `acked` is a history
variable: the requests whose answer reached the client.

A database transaction is one atomic step, because InnoDB serialises them on the row locks the code
takes (`LoadHandForUpdate`, `SELECT ... FOR UPDATE` on the writer row). Everything between two
transactions of a goroutine interleaves with everything else. In-process sections under the command
stripe or the entry mutex are steps of their own whenever a transaction lies inside them; the stripe
itself is modelled (`StripeFree`).

| Code | Actions |
|---|---|
| `Service.MarkHandDealt` with `LiveHandCoordinator.Start` and its compensation | `DealStart`, `DealCommit`, `DealError`, `RollbackStart` |
| `submitLiveBid`, `submitLivePlay`: receipt lookup, phase guard | `SubmitLive` |
| `bidInternal`, `applyPlayingCommand` under the stripe | `Enter` |
| `LiveJournal.Append` and its three outcomes | `AppendCommits`, `AppendRefused`, `AppendAmbiguous` |
| the rest of `ApplyCommitted` and `applyLive`: publish, archive, receipt | `Publish` |
| `finish` evicting the oldest of 64 retired hands | `Evict` |
| `AfterBid`, `AfterPlay`, `AfterHistorical...` | `Callback` |
| `advanceLiveHand`, one command per loop turn | `AdvanceLoad`, `AdvanceCommits`, `AdvanceFails` |
| `Cancel`, `Sweep`, `terminateWhenDue` | `Cancel`, `Sweep`, `Bind` |
| `terminateHand`, `executePending` | `TerminateCommits`, `TerminateYields`, `TerminateFails` |
| `finalizeTerminatedRuntime` with `Abort`, `RetryArchive` | `Finalize` |
| `RecoverActive`, `ReconcileRecovered` | `BootLoad`, `BootAcquire`, `BootReplay`, `Reconcile` |

Abstractions, each deliberate:

* A game is the sequence of requests it accepted. Its phase is computed from their kinds (three bids
  or a score of 3 close the auction, an emptied hand ends the play). Turn order and cards are left to
  the client's choice of request; `Legal` keeps the phase, version and "at most two raises" rules.
* From DEALING on every accepted command on the aggregate changes its phase, so the phase stands for
  the optimistic version. `CANCELLED` cannot be reached from DEALING on and is absent.
* Deadlines are not clocks: `Sweep` may fire whenever the timer could be armed for the version it
  reads. It omits the last check that the due time did not move, so the model sweeps in strictly more
  states than the code; `TerminateYields` is where the code catches the difference.
* `Bind` joins the aggregate's load with the registration of the pending command; nothing another
  goroutine does in between is visible to either half, because the phase is compared again in the
  transaction.
* Record digests, snapshots and checkpoints are not modelled; a final record is its status and
  version.
* A crash of an instance that has loaded but not acquired is omitted: it has changed nothing.

### CommandLedger and the code

`commands`, `sequences`, `versions`, `outbox`, `hands` and `seeds` are MySQL rows; `threads` are the
goroutines of all instances, each inside one transaction or compensating one; `answers` is the history
of what clients were told. A transaction takes its locks one by one, so it is several steps: the
writes it buffers are the `result` it decided, and they all take effect in `Commit`. Which rows it
holds follows from its label (`LocksCommand`, `LocksSequence`, `LocksAggregate`).

| Code | Actions |
|---|---|
| `ClaimCommand` of a new ID | `Claim` |
| `execute` on a completed row: stored result or conflict | `Replay` |
| `validateFreshness` | `Expire` |
| `LockClientSequence` and the comparison | `Admit` |
| a mutation handler: load for update, version check, rules | `Mutate`, `Refuse` |
| `StartRoomHand`: PrepareHand, InsertHand | `Prepare`, `InsertHand` |
| outbox, sequence, CompleteCommand and COMMIT | `Commit`, `CommitLost` |
| any infrastructure error, `failAfterPreparation`, the `rollback` closure | `Fail`, `ReleaseHand` |

Abstractions, each deliberate:

* A mutation is its verdict and its number of events. Room rules are the choice between `Mutate` and
  `Refuse`; every room operation checks the version before its rules, so a refusal names the
  expected version. A room creation expects version 0 and is refused only when the room exists.
* `CodeConflict` is split into `"exists"` (a row is taken) and `"conflict"` (an ID is reused), and
  all rules into `"refused"`. Requests that fail `validateCommandIdentity` reach no transaction and are
  left out.
* A request's identity is what `sameCommand` compares for transport commands; its server-generated
  times are not part of it, and freshness is the choice of `Expire`.
* The vault's memory cache of seeds is left out: a seed is its row, which the code inserts before it
  caches. A release that fails leaves the row.
* MySQL's own deadlock detection and lock timeouts are among the errors of `Fail`; `TransactionsEnd`
  shows that no deadlock needs them.

### RoomTable and the code

`room` is the `doudizhu_rooms` row, `handRows` the `doudizhu_hands` rows, `archives` the hands whose
live game was begun and will therefore be archived.

| Code | Actions |
|---|---|
| `CreateRoom`, `Room.Join`, `Room.Leave` (the owner, alone, closes the room), `Room.SetReady` | `CreateRoom`, `Join`, `Leave`, `SetReady` |
| `Service.StartRoomHand` with `Room.StartHand` and `InsertHand` | `StartHand` |
| `Service.mutateHand`, with `Room.FinishHand` on completion | `AdvanceHand` |
| `Service.MarkHandDealt` | `DealHand` |
| `Service.terminateHand` (cancel, abort, expire) | `EndHand` |

A command is one transaction, so it is one step; a refused one is no step. The optimistic versions are
left out: a command prepared for another version is refused whatever it asks. `ValidRoomState` and
`RestoreRoom` translate the checks with which stored rows are read back.

### FairDeal and the code

`deals` are the fairness columns of the hand rows, `calls` the contribution commands in flight,
`dealer` the pass of `fairAutoDealer.ProcessOnce`. Time counts drand rounds: round *r* is public from
time *r* on.

| Code | Actions |
|---|---|
| `NewHand`, `NewClientCustodiedHand` | `Begin` |
| a contribution command: its clock, read first, and its transaction, after waiting for the row | `Send`, `Contribute` |
| `CancelHand`, `AbortHand` | `Quit` |
| `Store.PendingDeals`, one hand of the pass, its command, an error that ends the pass | `Scan`, `Load`, `Issue`, `PassFails` |
| a deal that leaves its journal row behind, or finds one, or has no seed | `DealCrashes`, `Dealable` in `Issue` |
| the public clock | `PassTime` |

The relay's answer is its round: the beacon is there or not. What a contribution holds is cryptography
and left out; whether it was given, when, and in which mode is kept. `RestoreHand` translates the
checks of stored hands. `undealable` are the hands whose deal fails every time: the seed was lost when
the hand was begun (the run `lost_start`) or a crash left the journal row of a first deal
(`orphan_journal`). Such a hand ends every pass that comes to it, for ever; errors that pass are
`PassFails`.

### GameRules and the code

The variables are the fields of `livehand.Game`; `tally` is what the settlement reads from the history
of plays. Only ranks matter to the rules, so cards are bags of ranks. A command that the rules refuse
is applied to a clone and leaves the game as it was: no step.

| Code | Definitions |
|---|---|
| `livehand.New`, `Game.applyBid`, `Game.applyPlaying`, `Game.Abort` | `New`, `ApplyBid`, `PlayOn` (`Play`, `Pass`), `Abort` |
| `bidding.State.Submit` | `Bid`, `AuctionOver` |
| `playing.Analyze`, `playing.CanBeat` | `Analyze`, `CanBeat` with their helpers |
| `playing.State.Play`, `playing.State.Pass` | `Beats`, `Passed`, `MayPass` |
| `settlement.Calculate` with its bounds on bombs and rockets | `Settleable`, `Spring`, `Stake`, `Points`, `Calculate` |

`AnalyzeMeetsRules` compares `Analyze`, which tries patterns in the order of the code, with a
reference definition of what cards can be read as: a body of consecutive ranks with as many cards
each, and wings (`MadeOf`, `IsReading`).

### HandTimers and the code

`timed` is what MySQL and the live directory know of each hand, `entries` the supervisor's map,
`callbacks` what the dispatcher still has to tell it, `sweep` the sweep that runs.

| Code | Actions |
|---|---|
| a committed bid or play | `MoveHand` |
| `TrackBidding` | `Track`, `Tracked` |
| `AfterBid`, `AfterPlay`, `schedule`, `scheduleIfPhaseMissing`, `advanceLiveHand`, `Forget` (each step of a callback on its own) | `CallbackRuns` |
| `AfterHistoricalBid` | `RetryWin` |
| `Cancel`, `terminate`, `executePending` | `Cancel`, `Terminate`, `AbortPending` |
| a deadline passes | `Elapse` |
| `Sweep`: candidates by ID, refresh, decision, expiry, errors that end it | `SweepRuns` (`StartSweep`, `Refresh`, `DecideExpiry`, `ExpireOverdue`) |
| `ReconcileRecovered` after a restart | `Restart` |

A deadline is passed or not; the database answers, because `LiveHand` has its failures; the auction is
won, because `LiveHand` has the hand that is passed out.

### HandNews and the code

`move` is the committed version of the hand. A connection is on or off, with a bounded queue of
versions (0 for any other message); `casts` is what the read pump of a connection sends.

| Code | Actions |
|---|---|
| `Hub.Handler`, the end of a connection, the client's own reading | `Connect`, `Disconnect`, `Receive` |
| `handleSync`, `handleCommand` | `SyncHand`, `CommandHand`, `Reply` |
| `broadcastHand`: seats, event, view, snapshot, error | `LoadAudience`, `SendChanged`, `ReadView`, `SendSnapshot`, `AudienceFails`, `ViewFails` |
| a command over HTTP | `HttpMove` |

A move over HTTP is committed and not broadcast; `NewsArrives` is about the moves that are.
A broadcast that cannot read the seats owes its move to nobody, one that cannot read a view owes it to
that seat no more; what other broadcasts owe, and this one to other seats, stays owed.

### RealtimeHub and the code

`clients` and `subscribers` are the hub's indexes, `sockets` the connections with their pumps and the
length of their queue, `targets` the recipients a `Publish` copied under the lock and has not served.

| Code | Actions |
|---|---|
| `Hub.Handler`: register, start, greet | `Register`, `StartPumps`, `Hello` |
| `client.writePump`, `client.readPump` | `WritePump`, `WriteFails`, `StopWriting`, `StopReading` |
| `Hub.handle`, subscribe, unsubscribe | `AnswerMessage`, `ChangeTopic` |
| `Publish`, `SendAccount` | `Publish`, `Deliver` |
| `terminate`, `unregister`, `Close` | `Terminated` (in the actions that call it), `Unregister`, `Close`, `CloseStops` |

`terminate` waits for `unregister` in the code; here its caller goes on, which only adds
interleavings. Where a closed `done` channel and a free queue are both ready, either may be taken.

### AccountSessions and the code

`identity` is the account row with its credential, `sessions` the keys in Redis, `requests` the calls
in flight, `admin` an account-wide revocation. Passwords and tokens are numbered in the order of issue.

| Code | Actions |
|---|---|
| login: `Authenticate`, `VerifyPassword`, `Store.Create`; the login after a registration | `Login`, `VerifyPassword`, `Create`, `IssueVerified` |
| refresh, access check, logout: `Store.Get`, `ResolveActive`, `Store.Rotate`, `Store.Revoke` | `RefreshGet`, `AccessGet`, `ResolveActive`, `Rotate`, `Revoke` |
| the key's time to live | `ExpireSession` |
| `ChangePassword`, `EnableAccount` | the same names |
| `SetAccountEnabled`, `ResetPassword`, `RevokeAccountSessions`, then the scan and the deletion of what it listed | `DisableAccount`, `ResetPassword`, `RevokeAccountSessions`, `ScanAccount`, `DeleteListed`, `RevocationFails` |

Each call to MySQL or Redis is a step, and `Rotate` is one because the code compares and writes under
WATCH. A deletion may fail; only a logout and an account-wide revocation tell their caller.

### PolicyCluster and the code

`policy` is the versioned set of super administrators in MySQL, `engines` the copy of each instance
with the version it claims, `ops` the administrative request of each instance, `lock` the advisory
lock.

| Code | Actions |
|---|---|
| `NewClustered`, `Engine.Start` | `BootLoadPolicy`, `BootClaim` |
| `pollPolicyVersion`, `reconcilePolicyVersion` | `SyncRead`, `SyncLoad`, `SyncClaim` |
| an administrative request, its lock, its guard | `Ask`, `LockTimeout`, `Guard` |
| `mutateRules` and the reload that follows | `WritePolicy`, `Reload`, `ReloadFails` |
| account status and compensations | `WriteStatus`, `Enable`, `Undo` |
| the process ends | `CrashEngine` |

Notifications are hints: one that arrives is a poll, one that is lost is no step. Of the rules the
members of the super administrator's role are kept; its wildcard permission is written with the first
member and stays. Permissions and raw rules share the write path and are not told apart.

### CatalogCache and the code

`table` holds each row as the number of the write that made it (0: no row), `copies` the cached value.

| Code | Actions |
|---|---|
| a detail read: the copy, or the row and its store | `Take`, `LoadRow`, `Fill`, `LoadFails` |
| a write and the deletion of the copy after it | `AskWrite`, `WriteRow`, `WriteRefused`, `Invalidate`, `InvalidationLost` |
| the copy's time to live | `ExpireCopy` |

The absence of a row is cached too. Reads that decide something use the row itself and take no step.
go-zero's cache is modelled from its use.

## 3. Runs

Passing runs:

| Run | Specification | Question |
|---|---|---|
| `one` | `LiveHand`, 1 instance, 2 goroutines, short hand, every fault at once, MaxEpoch 3 | Does an answered move survive everything (`AckedDurable`); does the aggregate never run ahead of the log (`HandFollowsLog`); does an expiry never swallow progress (`ExpiryKeepsProgress`); is the invariant the proofs rest on right (`HandInv`)? |
| `ledger` | `LiveHand`, 2 instances alive at once, crashes, ambiguous appends, lost acknowledgements, a failing archive | One owner per epoch (`SingleOwner`), the owner's memory is the log (`OwnerIsCurrent`), no spurious quarantine (`OwnerAppendAccepted`), a fenced instance shows only committed moves (`PublishedIsCommitted`), the final record tells the hand's real end (`ArchiveAgrees`), recovery accepts what it finds (`RecoveryAccepts`), and the journal refines `LiveLedger` (`LedgerSpec`) |
| `liveness` | `LiveHand`, 1 instance, crashes, fairness, long hand | Won and expired hands reach their final record (`WonHandIsArchived`, `ExpiredHandIsArchived`); recovery ends every decided hand (`RecoveryEndsHand`) |
| `services` | `MCServices`: every behaviour chooses one of the ten other modules and runs it | The invariants, action properties and the refinement of `CommandOnce` listed below |
| `services_fair` | `MCServices` with the fairness of the parts that have it | The liveness properties, and the seeds of three goroutines that start one hand |

`services` joins modules that share no variable, so each is checked as in a run of its own; nothing
is claimed about two of them together beyond what section 2 says of their interfaces.

| Part | `services` | `services_fair` |
|---|---|---|
| `commands` | one result per command told to all (`AnswersAgree`, `IInv`), every version told once (`OutboxTellsHistory`), order of a client's commands (`SequencesOrderCommands`), `OnceSpec` | a created hand keeps its seed (`HandsKeepSeeds`), a failed start leaves none (`NoSeedLeaks`), no transaction waits for ever (`TransactionsEnd`) |
| `rooms` | stored rows can be read back (`AggregatesRestore`), a room and its hands agree (`RoomAgreesWithHands`) | |
| `deals` | contributions precede the beacon (`ContributionsPrecedeBeacon`), stored hands can be read back (`AggregatesRestore`) | every hand is dealt or ends, unless a hand that cannot be dealt blocks the dealer (`HandsLeaveFairnessUnlessBlocked`) |
| `games` | patterns are what the rules read (`AnalyzeMeetsRules`), order of the auction and of tricks, zero-sum, no winning play refused by the settlement (`GameIsFair`) | |
| `accounts` | `TokensAreSpentOnce`, `RevokedStaysRevoked`, `OldPasswordsKeepNoSession` | |
| `policy` | no reload, write or crash makes an instance claim what it does not enforce (`ReloadsAreEnforced`); what alone can take the last super administrator (`LastAdminStays`) | committed changes reach every instance (`PolicyReachesInstances`) |
| `hub` | the hub's part of `ServicesTypeOK`: limits, and no topic names a connection that was taken out | Close returns (`HubCloses`) |
| `news` | `NewsArrives` | |
| `timers` | `TimersOnlyAdvance` | a late hand ends unless a finished game blocks the sweep (`LateHandsEndUnlessBlocked`) |
| `catalog` | `StaleCopiesAreExplained` | |

Runs that expect a violation (section 4):

| Run | Instance | Claim |
|---|---|---|
| `cancel_race` | `LiveHand`, 1 instance | "EXPIRED/ABORTED may have ... no terminal live action" (`durable_live_recover.go`) |
| `orphan_journal` | `LiveHand`, 1 instance, crash | "after a crash the same phase is retried" (`doudizhu_autodeal.go`) |
| `passed_out` | `LiveHand`, 1 instance, fairness | an all-pass auction is aborted (Goal 0030) |
| `archive_retry` | `LiveHand`, 1 instance, fairness | a failed archive is retried (lifecycle document) |
| `lost_start` | `CommandLedger`, ambiguous commits | only an unused seed is removed (live-hand runtime document) |
| `blocked_sweep` | `HandTimers`, 2 hands, fairness | expired leases end their hands (Goal 0030) |
| `boot_claim` | `PolicyCluster`, 2 instances, one write, no failure | an out-of-date synchronizer is not ready (`cluster.go`) |

### Bounds

*Live hand.* Two moves decide the short hand, so every move is the first, the last, or a rival for the
same version; a request is also sent with another body and under contention. Two goroutines are enough
for every pair of handlers to interleave, and the stripe, the row locks and the compare-on-phase
commands conflict pairwise. `MaxEpoch` bounds takeovers, expiry fences and crashes together: 3 allows
a deal, a takeover (or an expiry) and one more fence after it. The safety runs use symmetry over
instances and goroutines; liveness runs use none.

*Commands.* The five requests of `ChangeRequests` hold a retry with another body, two rivals for one
version, a reused and a skipped sequence and two starts; any request may be sent any number of times,
under ambiguous commits, errors, failing releases, crashes and expiry; refusals are in the fair run. The
theorems of section 5 hold for every set of faults. Locks conflict pairwise, so two goroutines suffice. `StartRequests` start one
hand from two rooms on three goroutines, so that a rival can come between a start and its
compensation; that run excludes crashes, failing releases and ambiguous saves because the code removes
no seed after them: an orphan seed makes every retry of its start fail (`seed_vault.go:87`), which no
document denies.

*Rooms.* Four accounts for three seats, so that a seat changes hands, and two hands, so that one is
the last while the other plays. *Deals.* One hand whose players are there and one they left, a beacon
one round ahead; two contributions in flight, so that one overtakes the other across the round.
The fair run has one failed pass, and the
attended hand may become undealable, by a lost seed or a crash, while the other waits behind it. *Games.* Two deals with bombs, the rocket, runs and
springs, and scores 0, 1 and 3, which contain a pass, a raise and the score that ends the auction at
once. Every subset of the four `WideSamples` is analysed: runs of triples whose wings fit several ways, a
sequence that ends at the ace or the two, jokers, and bombs with pairs.

*Accounts.* One session ID: sessions of one account do not touch each other. Two requests, one change
of the password and three tokens (two rotations, hence a reuse of a spent token while another request
rotates). *Policy.* Two instances, two accounts, two writes and one mishap (one write in the fair
run): a write by one instance and an outdated guard on the other. *Hub.* Two connections with a queue
of one. One run has two users and room for one connection, the other one user and room for two, where
the limit per user binds. *News.* Two connections, a queue of one, two moves. *Timers.* Two hands,
three moves, cancels or restarts: a winning bid, a play and the last play of one hand, or a shorter
history beside a late hand with the larger ID. *Catalog.* One row of each kind, two requests, two
writes: everything the module does concerns one key.

### Fairness

*Live hand.* Weak fairness of each goroutine (the Go scheduler runs it, every database call returns), of the deal's
own commit and compensation, of startup (a dead instance is restarted by its deployment; the process
runs `RecoverActive` before it serves) and of the sweep of each instance (`bootstrap/doudizhu.go`
restarts `Supervisor.Run`, whose ticker fires at a fixed interval). Nothing is assumed of clients,
errors, crashes or evictions. Crashes are bounded by MaxEpoch, so an instance eventually stays up long
enough; without that no progress can be claimed of any program.

*Commands.* Strong fairness of each goroutine's own steps: InnoDB queues the waiters of a row lock and
grants it in turn, so a goroutine whose lock becomes free again and again gets it. Nothing is assumed
of claims, errors or lost commits.

*Deals.* Weak fairness of time and of the dealer's scan, load and command: its ticker fires for as
long as the server runs. Players may do nothing, and a pass may fail while its bound allows. Nothing is
assumed of a hand that cannot be dealt: it fails for ever.

*Policy.* Weak fairness of each instance's poll (a ticker, which needs no notification) and of the
reload that follows its own write. Requests and guards are free.

*Hub.* Weak fairness of starting the pumps, of a write pump that sees its connection ended, of `Close`
and of `unregister`; nothing is assumed of peers.

*Timers.* Weak fairness of callbacks as a whole, of the sweep (ticker and restarted loop) and of time.

## 4. Findings

Each is a violation run; the trace is the shortest TLC found.

* **Cancel race** (`cancel_race`): `AbortHand` is not fenced against a winning play that has been
  appended but not advanced. The aggregate becomes ABORTED over a finished game and
  `validateReplayedPhase` then refuses every later startup.
* **Orphan journal** (`orphan_journal`): the journal row commits on its own connection before
  MarkHandDealt does. A crash in between leaves a DEALING hand that can never be dealt.
* **Passed-out hand** (`passed_out`): the automatic abort is refused by a pending bidding timeout that
  later withdraws itself.
* **Lost acknowledgement of a start** (`lost_start`): `execute` runs the release of an accepted start
  also when COMMIT took effect but reported an error. The hand exists without the seed it must be
  dealt from, and the client's retry is answered as accepted from the stored row. The deal has the same
  flaw, in the same `execute`: after a lost acknowledgement of MarkHandDealt the compensation deletes
  the journal of a hand that is BIDDING, which `live_journal.go:84` reserves for a command that has not
  committed (`DealError`, `RollbackStart` in `LiveHand`, where the passing runs live with it).
* **Archive retry** (`archive_retry`): `Supervisor.Retry` has no caller; the sweep skips pending
  entries, so the record waits for a restart.
* **Blocked sweep** (`blocked_sweep`): the callback of an earlier move, running after the callback of
  the last one, arms the timer of a hand that was forgotten. Its game is over, so reading its progress
  fails in every sweep, the sweep returns there, and a late hand with a larger ID is never expired.
  `LateHandsEndUnlessBlocked` holds: nothing else keeps the supervisor from a late hand.
* **Claim at the start** (`boot_claim`): `NewClustered` loads the rules and `Start` later claims the
  version of the database. A change in between is claimed without being enforced; `Ping` compares the
  claim, so the instance is ready, and as no poll sees a newer version it enforces the old rules until
  somebody changes the policy again. `ReloadsAreEnforced` holds: no other step begins such a state.

Three claims hold only with an exception, which the property names and which the code can meet:

* **A hand that cannot be dealt** holds up the others. A pass returns at the first error, and always
  begins with the hands that are being dealt (`doudizhu_autodeal.go:81`, `:140`;
  `auto_deal_queries.go:13`). A hand without a seed, or with an orphan journal row, fails in every pass: it
  stays DEALING, and hands behind it are neither dealt nor, though `drand_deadline.go:16` says "must abort
  expired unfinished fairness rounds", aborted. Without the exception
  `HandsLeaveFairnessUnlessBlocked` is violated as soon as one hand is `Fragile`.
* **The last super administrator** can be lost, though Goal 0009 (lines 35, 142, 172) and
  `docs/architecture/admin-platform.md:54` promise otherwise: by the compensation of a bootstrap or a creation whose
  roles did commit but whose reload or acknowledgement failed, and by a disable whose guard was misled. A
  guard is misled by an outdated copy that shows another active administrator
  (`admin.go:483`), by an account that is enabled, without the lock, between the guard and the write,
  or by a compensation that takes the other administrator in that interval. `LastAdminStays` allows
  these steps for the very account they concern and no other, so it says as much after such a case as
  before.
* **Failed broadcasts** are not repeated: a seat whose view cannot be read is not told of that move
  until the next one (`realtime.go:158`).

Seen while modelling, not claimed as disagreements with a document: `Abort` writes the final record
through an entry that is quarantined (`gamecore/runtime.go:317`), without a fenced recovery first; the
winning play's advance loses its version race to the bid callback and the hand stays PLAYING until a
retry or a restart; and a login that checked the old password may store its session after an account-wide
revocation listed the sessions (`OldPasswordsKeepNoSession` excuses exactly that case).

## 5. Proofs

Every theorem holds for **any** value of the constants: any number of instances, goroutines, accounts,
hands or requests and any bounds, under the assumptions the modules name (`...Assumption`), which TLC
evaluates in every run.

**Live hand**, in three modules, each on the one before. `LiveHandProofs`: `Invariant`
(`Spec => []IInv`), `TypeCorrect`, `AckedNeverLost` (`AckedDurable`), `GamesAreCommitted` (`PublishedIsCommitted`) and `JournalOnlyGrows`
(every step keeps the journal as a prefix), under every fault. None of the properties is inductive.
That a logged answer stays logged needs the journal to be indexed by versions and counted by its
watermark (`LogIndexed`, `Watermark`): this is why an accepted append lands exactly at `expected`, and
why `DeleteUnused` cannot drop an action. That an answer is logged at all needs every goroutine past
its append to carry a logged request (`AnswersLogged`) and every receipt to be logged
(`ReceiptsLogged`), since a retry is answered from a receipt. That a published candidate is the
committed prefix needs the request to be next in the game it is published to (`NextInGame`), which
holds because one goroutine holds the stripe (`StripeExclusive`) and every step that replaces a game
takes it, or finds an instance without goroutines (`ThreadsRun`, `OneReconciler`). Typing itself rests
on `ThreadsRun`, which rests on `Undealt`: before the deal commits nothing but a cancel runs, because
nobody can know a receipt. The proof classifies what any action may do to a part of the state
(`JournalSteps`/`LogStep`, `DealStep`/`UndealtStep`, `RunsStep`, `StripeStep`, `LoggedStep`) and then
uses the classification alone.

`LiveOwnerProofs` and `LiveArchiveProofs` add what `LiveHandInvariants` names, up to `HandInvariant`
(`Spec => []HandInv`), one module step at a time:

* *The journal is a play of the game* (`GameInv`). Nothing follows a closed game (`LogPlayed`), because
  what is appended was legal in the game the goroutine holds (`AppendLegal`) and an accepted append
  holds the whole journal. Hence no phase is taken back, a result stays reached however late it is
  used (`ResultsReached`), and a receipt tells the phase its own move led to (`ReceiptsTrue`).
  `HandFollows` (`HandFollowsLog`) is the last part of it.
* *One owner* (`OwnerInv`). Epochs come from the writer row alone (`EpochsBounded`), to a startup that
  acquired it or to the instance the startup makes (`BootHolds`), so no two are equal
  (`ClaimsDistinct`): `OneOwner` (`SingleOwner`). Whoever holds the newest has applied the whole
  journal, or all but the row its own publisher is about to apply (`OwnersCurrent`). What it appends
  is therefore new (`AppendsNew`) and lands: `OwnerCurrent`, `OwnerAccepted` (`OwnerAppendAccepted`).
* *Expiry* (`ExpiryInv`). A deadline names a version at which the game still ran (`Deadlines`); an
  expired hand has fenced every goroutine that was let through before (`Fenced`): `ExpiryKeeps`.
* *Startup and the final record* (`RecoveryInv`, `ArchiveInv`). What `RecoverActive` read binds the
  journal that it reads later (`BootAgrees`); only a passed-out auction is aborted, and only by an
  instance that shows it (`TerminationsJustified`); every record, stored or still pending, tells how
  the hand ended (`RecordsTell`): `ArchiveAgreesAlways` and `RecoveryAcceptsAlways`. These two assume
  that no participant cancels, which is the case the run `cancel_race` refutes; takeovers, crashes,
  ambiguous commits, failing archives and evictions are all in.

`ImplementsLedger` (`Spec => LedgerSpec`) rests on all of it: an accepted append is the abstract
acceptance, an answer is for an accepted move (`AckedDurable`), and a sealed hand accepts nothing
because a completed game has no legal move (`LogPlayed`) and an expired one no owner (`Fenced`).

**Command ledger** (`CommandLedgerProofs`): `Invariant`, `TypeCorrect`, `AnswersAgreeAlways`,
`HistoryIsTold` (`OutboxTellsHistory`) and `CommandsInOrder` (`SequencesOrderCommands`), under every
fault; `Implements` (`Spec => OnceSpec`), where replays map to `Tell`, commits to `Accept` or `Reject`
with or without `Tell`, and everything else stutters; `SeedsKept` (`HandsKeepSeeds`) while no COMMIT
is ambiguous, and `NoSeedIsLost` (`NoSeedLeaks`) while in addition processes live and releases
succeed. The run `lost_start` is why the first condition is there. Agreement needs a claim to be
exclusive and to find no row (`CommandLock`). The refinement needs the aggregate to stand still
between the verdict and the commit (`AggregateLock`, `DecisionsFresh`). The history adds that no
accepted row is newer than its aggregate (`RowsArePast`). For the seeds, `SeedOwners` says that a
prepared seed has one owner and belongs to no hand, so a release never meets a created hand, and
`SeedsOwned` that a seed without a hand has an owner.

**Rooms** (`AggregateProofs`): `RoomInvariant`, `RoomTypeCorrect`, `RoomsRestore` (what is stored of a
room can be read back) and `RoomAgrees` (`RoomAgreesWithHands`). The room alone says too little: the
invariant adds that the hands that have not ended are the room's active hand and no other
(`OneHandPlays`), that its seats are the room's (`PlayersSit`), which the refusal of seat commands
during a hand preserves, and that every dealt hand has a live game (`DealtAreArchived`), which makes a
finished one the room's last hand.

**Fair deals** (`AggregateProofs`): `DealInvariant`, `FairTypeCorrect`, `ContributionsAreBlind`
(`ContributionsPrecedeBeacon`), `HandsRestore` and, with the rooms, `SnapshotsRestore`
(`AggregatesRestore`). A contribution carries the clock it read before it waited for the row,
and what was accepted was sent before the round of its hand, whenever it was stored (`Precedes`). Its
kind fits the mode of the hand, which never changes (`CallsFit`), so a phase is left exactly when all
players have given what it asks for (`DealIsSound`). The dealer's commands name a version; one that
still matches finds the phase that was loaded (`DealerIsCurrent`), so a beacon is never locked twice.
A pass over the hands needs them to be finitely many (`AttendedAssumption`).

**Timers** (`GameProofs`): `TimersInvariant`, `TimersTypeCorrect`, `TimersAdvance`
(`TimersOnlyAdvance`). The version of the winning bid separates what is known of the bidding from what
is known of the play: a callback or an entry of the play is at least as new, one of the bidding is
older, however late it comes (`EntriesAreSound`, `CallsAreSound`). While a sweep expires a hand, the
entry of that hand and of no other says so (`SweepClaims`), so a sweep does not undo a callback.

**Games** (`GameProofs`): `GameInvariant`, `GameFair` (`GameIsFair`), for any deals of one deck
(`DealsAssumption`). A card is played once (`CardsSound`): a bomb takes the last cards of its rank and
the rocket those of the jokers, so the ranks that are left bound the bombs still to come. That is why
the settlement's own limits, thirteen bombs and one rocket, never refuse the play that empties a hand
(`WinsAreSettled`), and why the stake stays below 3 * 2^15 and points balance. The auction remembers
who bid highest (`AuctionSound`); the turn is where the lead and the passes put it (`TrickSound`).

**Analysis** (`GameProofs`): `AnalysisMeetsRules`, for every bag of cards of one deck, where the run
enumerates the parts of four samples; hence `GameAnalyzes` (`AnalyzeMeetsRules`, for any samples of one
deck, `SamplesAssumption`) and `GameHandsAnalyzed` (for whatever a player may take from a hand that a
game left). Cards are taken apart into the body of a pattern and the rest, whose sizes add up
(`PartsAddUp`), and a body of n ranks with k cards each has k * n (`EqualCopies`). In one direction,
each arm of `Analyze` yields a body and a rest of the right size (`OneRankRead`, `WingedRead`,
`PairWingedRead`, `SequenceRead`, `AirplaneRead`), so what it says is a reading, and a reading of one
deck's cards has the structure `CanBeat` demands (`ReadingsAreValid`). In the other, cards with a
reading satisfy the guard of some arm (`BareAnalyzed`, `WingedAnalyzed`, `AirplaneAnalyzed`), so
nothing that is a pattern is refused (`ReadableAnalyzed`).

`GamePatternsAreValid`: `CanBeat` begins by refusing patterns without the structure of one
(`validatePattern`); neither what leads a trick nor what a player may play on it is ever refused there.
`CanBeatIsAnOrder`: beating is irreflexive and transitive over all patterns, bombs and the rocket
included.

**Sessions** (`PlatformProofs`): `SessionsInvariant`, `SessionsTypeCorrect`, `TokensSpentOnce`,
`RevocationIsFinal`, `OldPasswordsEnd`. A late store cannot revive a session because no two logins
work on one ID and none on an ID that was stored (`LoginsOwnSessions`); the token of a live session is
one more than the number of its exchanges (`ExchangesCount`). For passwords, `PasswordsInv` says that
between the scan and the deletion every stored session of an older password is listed
(`DeletionIsComplete`) or raced.

**Policy** (`PlatformProofs`): `PolicyInvariant`, `PolicyTypeCorrect`, `ClaimsEnforced`,
`AdminStays` (`LastAdminStays`). An engine claims what it read before it loaded, and a copy with the
version of the policy has its members (`EnginesFollow`); writers exclude one another
(`WritersHoldLock`), so when an account is disabled somebody else is still active unless the guard was
misled about this very account (`DisablesAreGuarded`). `ClaimsEnforced` (`ReloadsAreEnforced`) goes
through the steps that load or claim (`StepsEnforce`), `AdminStays` through those that write rules
(`WritesKeepAdmin`, whose transaction checks both), disable (`DisablesKeepAdmin`) or do neither.

**Cached rows** (`PlatformProofs`): `CachesInvariant`, `CachesTypeCorrect`, `CachesAreExplained`.
A request that loaded a row is about to make a copy of it, so the property is needed of the loads in
progress too (`StaleLoadsAreExplained`), and every request that writes must be one that invalidates
(`WritersInvalidate`).

**News** (`PlatformProofs`): `NewsInvariant`, `NewsTypeCorrect`, `NewsReaches` (`NewsArrives`). The property speaks of the
end of broadcasts. In between, a connection that is not yet told a move it is owed is still to be served
by the broadcast of that move (`NewsIsPending`): one that has not loaded its audience, or has the
connection before it, or is about to read its view, or has read one that is new enough (`Serves`). A
full queue ends the connection, which is then owed nothing.

**Hub** (`PlatformProofs`): `HubInvariant`, `HubTypeCorrect`. The limits are inductive once nothing is
sent to, and nothing terminates, a connection the hub has not registered: the index holds exactly the
registered connections that are not ended, or still on their way out (`SocketIsSound`), so no read
pump subscribes one that was taken out.

**All services together** (`ServicesProofs`): a behaviour of `MCServices` is one of every module it
joins (`PartsRunAlone`), so the theorems about the modules hold of it; the modules' invariants hold
side by side (`ServicesInvariant`), and with them `ServicesTypeCorrect` (`ServicesTypeOK`).

Every invariant and every action property that a passing run checks is stated by one of these theorems.
Only model-checked are the liveness properties of the runs `liveness` and `services_fair`, because
fairness and ENABLED are out of the prover's reach.

## 6. Plan

Done: the live hand, the command ledger and, around them, rooms, fair deals, rules, timers, news,
hub, sessions, policy and cached rows.

1. Proofs: a refinement of the room and its fair deals by the mutations of `CommandLedger`.
2. The lifetimes of the supervisor's commands (`supervisor.go:524`) in `HandTimers`, with the
   rejection that `CommandLedger` stores.
3. Roles other than the protected one in `PolicyCluster`: the deletion of a role after its members
   were counted (`admin.go:314`).
4. The expiry of the reply cache against the journal's receipts; retention against recovery and
   receipt queries.

## 7. Not modelled

* Checkpoints and retention: a checkpoint repeats a prefix of the journal, and recovery compares it
  with the journal action by action; pruning is an offline command for hands archived thirty days ago.
* Reveal tickets and the key registry: keys by ID and signed tickets, correct by their encodings and
  the clock.
* External identities: one upsert by a unique key and its reread.
* Cryptography: secure envelopes, commitments, shuffling, transcripts.
* Clients, HTTP and WebSocket transport, configuration, SQL beyond the rows named above, clocks as
  numbers (except the rounds of `FairDeal`).

Partly modelled, the rest being: command lifetimes of the supervisor; the undurable Apply path, views
and record digests of the live directory; the expiry of the reply cache; permissions and raw rules of
the policy; audit records and listings of the administration; the uniqueness of names in the identity
store.
