--------------------------- MODULE LiveHandProofs ---------------------------
(***************************************************************************)
(* The inductive invariant of LiveHand and the theorems that follow.       *)
(*                                                                         *)
(* First its typing half: one lemma per action, and the lemmas about       *)
(* operators and small steps they share.  Then each group of conjuncts of  *)
(* IInv has a section: what a step may do to the part of the state the     *)
(* group speaks of is proved first, action by action, and the group's      *)
(* preservation follows from that classification.                          *)
(***************************************************************************)
EXTENDS LiveHand, SequenceTheorems, TLAPS

-----------------------------------------------------------------------------
(* The variables keep their types. *)

Servers == {"down", "loaded", "acquired", "reconciling", "serving", "failed"}

(* A row of the journal carries a request of some client. *)
LEMMA ActionType == ASSUME TypeOK, NEW i \in 1..Len(actions)
                    PROVE  actions[i] \in [req : Requests, epoch : Nat] /\ actions[i].req \in Requests
  <1>1. actions \in Seq([req : Requests, epoch : Nat])
    BY DEF TypeOK
  <1>2. actions[i] \in [req : Requests, epoch : Nat]
    BY <1>1, ElementOfSeq
  <1>. QED BY <1>2

(* The moves of the journal are requests, one per row. *)
LEMMA MovesType == ASSUME TypeOK
                   PROVE  Moves \in Seq(Requests) /\ Len(Moves) = Len(actions)
  <1> DEFINE n == Len(actions)
  <1>1. n \in Nat
    BY DEF TypeOK
  <1>2. \A i \in 1..n : actions[i].req \in Requests
    BY ActionType
  <1> HIDE DEF n
  <1>3. [i \in 1..n |-> actions[i].req] \in [1..n -> Requests]
    BY <1>2
  <1>4. Moves = [i \in 1..n |-> actions[i].req]
    BY DEF Moves, n
  <1>. QED BY <1>1, <1>3, <1>4 DEF n

(* Any sequence of moves leaves the game in one of its phases. *)
LEMMA LivePhaseType == ASSUME NEW moves PROVE LivePhase(moves) \in LivePhases
  BY DEF LivePhase, LivePhases

(* Replaying the journal rebuilds well-formed receipts. *)
LEMMA ReplayedType == ASSUME TypeOK PROVE ReplayedReceipts \subseteq Receipts
  <1>1. \A i \in 1..Len(actions) : actions[i].req \in Requests
    BY ActionType
  <1>2. \A m : LivePhase(m) \in LivePhases
    BY LivePhaseType
  <1>. QED BY <1>1, <1>2 DEF ReplayedReceipts, Receipts

(* A receipt that answers a request carries that request. *)
LEMMA KnownType == ASSUME TypeOK, NEW p \in Proc, NEW r, NEW x \in Replays(p, r)
                   PROVE  x.req = r /\ r \in Requests /\ x.phase \in LivePhases
  <1>1. Known(p) \subseteq Receipts
    BY ReplayedType DEF Known, TypeOK
  <1>. QED BY <1>1 DEF Replays, Receipts

(* The idle goroutine is well formed. *)
LEMMA RestingType == Resting \in Goroutines
  BY DEF Resting, Goroutines, NoCommand, CommandOf, Commands, HandPhases, LivePhases

(* A goroutine that moves on without a new request keeps its type. *)
LEMMA GotoType == ASSUME TypeOK, NEW t \in Thread, NEW label, Goto(t, label),
                         label \in {"append", "publish", "advance", "finalize"}
                  PROVE  threads' \in [Thread -> Goroutines]
  <1>1. threads[t] \in Goroutines
    BY DEF TypeOK
  <1>2. [threads[t] EXCEPT !.pc = label] \in Goroutines
    BY <1>1 DEF Goroutines
  <1>. QED BY <1>2 DEF Goto, TypeOK

(* Returning an error keeps goroutines, status and answers typed. *)
LEMMA FailType == ASSUME TypeOK, NEW t \in Thread, Fail(t)
                  PROVE  /\ threads' \in [Thread -> Goroutines]
                         /\ server' \in [Proc -> Servers]
                         /\ acked' \subseteq Requests
  BY RestingType DEF Fail, TypeOK, Servers

(* Answering keeps goroutines, status and answers typed. *)
LEMMA DoneType == ASSUME TypeOK, ThreadsRun, NEW t \in Thread, threads[t].pc # "idle", Done(t)
                  PROVE  /\ threads' \in [Thread -> Goroutines]
                         /\ server' \in [Proc -> Servers]
                         /\ acked' \subseteq Requests
  BY RestingType DEF Done, TypeOK, Servers, ThreadsRun, RunsOn

(* What a goroutine that is not idle carries. *)
LEMMA RunningType == ASSUME TypeOK, ThreadsRun, NEW t \in Thread, threads[t].pc # "idle"
                     PROVE  /\ threads[t] \in Goroutines
                            /\ threads[t].home \in Proc
                            /\ threads[t].cmd \in Commands
                            /\ threads[t].result \in LivePhases
                            /\ threads[t].pc \in {"queued", "append", "publish"} =>
                                 threads[t].req \in Requests /\ threads[t].mode = "fresh"
  BY DEF TypeOK, ThreadsRun, RunsOn, Goroutines

(* The part of TypeOK that only goroutines and their answers change. *)
LEMMA QuietType ==
  ASSUME TypeOK, threads' \in [Thread -> Goroutines], server' \in [Proc -> Servers],
         acked' \subseteq Requests, UNCHANGED <<terminator, actions, archive, boot, games, entries,
                                                final, epochs, receipts, dealing>>,
         handPhase' \in HandPhases, writer' \in [epoch : Nat, committed : Nat],
         pending' \in [Proc -> Commands]
  PROVE  TypeOK'
  BY DEF TypeOK, Servers

-----------------------------------------------------------------------------
(* TypeOK is preserved: the actions of an instance. *)

(* A deal in progress writes a typed journal row, lock and phase. *)
LEMMA DealType == ASSUME TypeOK, NEW p \in Proc, DealStart(p) \/ DealCommit(p) \/ DealError(p)
                  PROVE  TypeOK'
  <1>1. CASE DealStart(p)
    BY <1>1 DEF DealStart, TypeOK
  <1>2. CASE DealCommit(p)
    BY <1>2 DEF DealCommit, TypeOK, HandPhases, journal, runtime
  <1>3. CASE DealError(p)
    BY <1>3 DEF DealError, TypeOK, HandPhases, journal, runtime
  <1>. QED BY <1>1, <1>2, <1>3

(* An absent writer row is typed. *)
LEMMA NoWriterType == NoWriter \in [epoch : Nat, committed : Nat]
  BY DEF NoWriter

(* An absent final record is typed. *)
LEMMA NoRecordType == NoRecord \in Records
  BY DEF NoRecord, Records

(* RollbackStart, with or without a journal to delete. *)
LEMMA RollbackType == ASSUME TypeOK, NEW p \in Proc, RollbackStart(p) PROVE TypeOK'
  <1>1. writer' \in [epoch : Nat, committed : Nat]
    BY NoWriterType DEF RollbackStart, DeleteUnused, TypeOK
  <1>2. entries' \in [Proc -> {"none", "open", "quarantined"}] /\ games' \in [Proc -> Seq(Requests)]
    <2>1. <<>> \in Seq(Requests)
      BY EmptySeq
    <2>2. CASE final[p] = NoRecord
      <3>1. /\ entries' = [entries EXCEPT ![p] = "none"]
            /\ games' = [games EXCEPT ![p] = <<>>]
        BY <2>2, Zenon DEF RollbackStart
      <3>. QED BY <2>1, <3>1 DEF TypeOK
    <2>3. CASE final[p] # NoRecord
      BY <2>3 DEF RollbackStart, TypeOK
    <2>. QED BY <2>2, <2>3
  <1>3. /\ epochs' \in [Proc -> Nat] /\ receipts' \in [Proc -> SUBSET Receipts]
        /\ dealing' \in [Proc -> {"none", "created", "rollback"}]
    BY DEF RollbackStart, TypeOK
  <1>. QED BY <1>1, <1>2, <1>3 DEF RollbackStart, TypeOK

(* Retiring a hand keeps the maps of its instance typed. *)
LEMMA RetireType == ASSUME TypeOK, NEW p \in Proc, Retire(p)
                    PROVE  /\ games' \in [Proc -> Seq(Requests)] /\ epochs' \in [Proc -> Nat]
                           /\ entries' \in [Proc -> {"none", "open", "quarantined"}]
                           /\ final' \in [Proc -> Records]
  BY EmptySeq, NoRecordType DEF Retire, TypeOK

(* The absent pending command is typed. *)
LEMMA NoCommandType == NoCommand \in Commands
  BY DEF NoCommand, CommandOf, Commands, HandPhases

(* An instance that has loaded nothing is typed. *)
LEMMA NotLoadedType == NotLoaded \in [phase : HandPhases, epoch : Nat, committed : Nat]
  BY DEF NotLoaded, HandPhases

(* Evicting receipts keeps every type. *)
LEMMA EvictType == ASSUME TypeOK, NEW p \in Proc, Evict(p) PROVE TypeOK'
  BY DEF Evict, TypeOK, durable, journal

(* A crash resets volatile state to typed values. *)
LEMMA CrashType == ASSUME TypeOK, NEW p \in Proc, Crash(p) PROVE TypeOK'
  <1>1. /\ server' \in [Proc -> Servers] /\ pending' \in [Proc -> Commands]
        /\ boot' \in [Proc -> [phase : HandPhases, epoch : Nat, committed : Nat]]
        /\ receipts' \in [Proc -> SUBSET Receipts]
        /\ dealing' \in [Proc -> {"none", "created", "rollback"}]
    BY NoCommandType, NotLoadedType DEF Crash, TypeOK, Servers
  <1>2. threads' \in [Thread -> Goroutines]
    BY RestingType DEF Crash, TypeOK
  <1>3. Retire(p) /\ UNCHANGED <<durable, acked>>
    BY DEF Crash
  <1>. QED BY <1>1, <1>2, <1>3, RetireType DEF TypeOK, Servers, durable, journal

Booted == [phase : HandPhases, epoch : Nat, committed : Nat]

(* RecoverActive loads the phase of the hand. *)
LEMMA BootLoadType == ASSUME TypeOK, NEW p \in Proc, BootLoad(p) PROVE TypeOK'
  <1>1. boot[p] \in Booted /\ handPhase \in HandPhases
    BY DEF TypeOK, Booted
  <1>2. [boot[p] EXCEPT !.phase = handPhase] \in Booted
    BY <1>1 DEF Booted
  <1>3. /\ \/ server' = [server EXCEPT ![p] = "loaded"]
           \/ server' = [server EXCEPT ![p] = "serving"]
        /\ boot' = boot \/ boot' = [boot EXCEPT ![p] = [@ EXCEPT !.phase = handPhase]]
    BY Zenon DEF BootLoad
  <1>4. server' \in [Proc -> Servers] /\ boot' \in [Proc -> Booted]
    <2>1. server' \in [Proc -> Servers]
      BY <1>3 DEF TypeOK, Servers
    <2>2. boot \in [Proc -> Booted]
      BY DEF TypeOK, Booted
    <2>3. boot' \in [Proc -> Booted]
      BY <1>2, <1>3, <2>2
    <2>. QED BY <2>1, <2>3
  <1>. QED BY <1>4 DEF BootLoad, TypeOK, Servers, Booted, durable, journal, runtime

(* Acquire moves the epoch and keeps the watermark. *)
LEMMA BootAcquireType == ASSUME TypeOK, NEW p \in Proc, BootAcquire(p) PROVE TypeOK'
  <1>1. boot[p] \in Booted /\ writer \in [epoch : Nat, committed : Nat]
    BY DEF TypeOK, Booted
  <1>2. /\ NextEpoch \in Nat /\ writer.committed \in Nat
        /\ [writer EXCEPT !.epoch = NextEpoch] \in [epoch : Nat, committed : Nat]
    BY <1>1 DEF NextEpoch
  <1>3. [boot[p] EXCEPT !.epoch = NextEpoch, !.committed = writer.committed] \in Booted
    BY <1>1, <1>2 DEF Booted
  <1>4. CASE writer = NoWriter
    BY <1>4 DEF BootAcquire, TypeOK, Servers, runtime
  <1>5. CASE writer # NoWriter
    <2>1. /\ writer' = [writer EXCEPT !.epoch = NextEpoch]
          /\ boot' = [boot EXCEPT ![p] =
                        [@ EXCEPT !.epoch = NextEpoch, !.committed = writer.committed]]
          /\ server' = [server EXCEPT ![p] = "acquired"]
      BY <1>5, Zenon DEF BootAcquire
    <2>2. boot' \in [Proc -> Booted]
      BY <1>3, <2>1 DEF TypeOK, Booted
    <2>3. server' \in [Proc -> Servers]
      BY <2>1 DEF TypeOK, Servers
    <2>4. writer' \in [epoch : Nat, committed : Nat]
      BY <1>2, <2>1
    <2>. QED BY <2>2, <2>3, <2>4 DEF BootAcquire, TypeOK, Servers, Booted, runtime
  <1>. QED BY <1>4, <1>5

(* The final record of any typed game is a record. *)
LEMMA CompletedType == ASSUME NEW s \in Seq(Requests)
                       PROVE  Completed(s) \in Records /\ Aborted(s) \in Records
  BY LenProperties DEF Completed, Aborted, Records

(* A successful archive holds a record. *)
LEMMA ArchiveOkType == ASSUME NEW record \in Records, ArchiveOk(record)
                       PROVE  archive' \in Records
  BY DEF ArchiveOk

(* A failed archive holds a record or what it held. *)
LEMMA ArchiveFailsType == ASSUME TypeOK, NEW record \in Records, ArchiveFails(record)
                          PROVE  archive' \in Records
  BY DEF ArchiveFails, TypeOK

(* Starting the reconciler keeps status and goroutines typed. *)
LEMMA ReconcilerType == ASSUME TypeOK, NEW p \in Proc, Reconciler(p)
                        PROVE  server' \in [Proc -> Servers] /\ threads' \in [Thread -> Goroutines]
  <1>1. server' \in [Proc -> Servers]
    BY DEF Reconciler, TypeOK, Servers
  <1>2. [Resting EXCEPT !.pc = "reconcile", !.home = p, !.mode = "boot", !.result = LivePhase(Moves)]
          \in Goroutines
    BY RestingType, LivePhaseType DEF Goroutines
  <1>3. threads' \in [Thread -> Goroutines]
    BY <1>2 DEF Reconciler, Starts, TypeOK
  <1>. QED BY <1>1, <1>3

(* Replay publishes a typed game, archives, or refuses. *)
LEMMA BootReplayType == ASSUME TypeOK, NEW p \in Proc, BootReplay(p) PROVE TypeOK'
  <1> DEFINE record == RecoveredRecord(boot[p].phase)
  <1>1. record \in Records /\ Moves \in Seq(Requests) /\ boot[p].epoch \in Nat
    BY MovesType, CompletedType, NoRecordType DEF RecoveredRecord, TypeOK
  <1>2. boot' \in [Proc -> Booted]
    BY NotLoadedType DEF BootReplay, TypeOK, Booted
  <1>3. UNCHANGED <<handPhase, terminator, journal, pending, dealing, acked>>
    BY DEF BootReplay
  <1> HIDE DEF record
  <1>4. CASE /\ games' = [games EXCEPT ![p] = Moves]
             /\ entries' = [entries EXCEPT ![p] = "open"]
             /\ epochs' = [epochs EXCEPT ![p] = boot[p].epoch]
             /\ receipts' = [receipts EXCEPT ![p] = ReplayedReceipts]
             /\ Reconciler(p) /\ UNCHANGED <<archive, final>>
    BY <1>1, <1>2, <1>3, <1>4, ReconcilerType, ReplayedType DEF TypeOK, Servers, Booted, journal
  <1>5. CASE /\ ArchiveOk(record)
             /\ receipts' = [receipts EXCEPT ![p] = ReplayedReceipts]
             /\ IF record.status = "COMPLETED" THEN Reconciler(p)
                ELSE server' = [server EXCEPT ![p] = "serving"] /\ UNCHANGED threads
             /\ UNCHANGED <<games, entries, final, epochs>>
    <2>1. server' \in [Proc -> Servers] /\ threads' \in [Thread -> Goroutines]
      BY <1>5, ReconcilerType DEF TypeOK, Servers
    <2>. QED BY <1>1, <1>2, <1>3, <1>5, <2>1, ArchiveOkType, ReplayedType
             DEF TypeOK, Servers, Booted, journal
  <1>6. CASE /\ UNCHANGED archive \/ ArchiveFails(record)
             /\ server' = [server EXCEPT ![p] = "failed"]
             /\ UNCHANGED <<runtime, threads>>
    BY <1>1, <1>2, <1>3, <1>6, ArchiveFailsType DEF TypeOK, Servers, Booted, journal, runtime
  <1>. QED BY <1>4, <1>5, <1>6, Zenon DEF BootReplay, record

-----------------------------------------------------------------------------
(* TypeOK is preserved: the actions of a goroutine. *)

(* One goroutine becomes another typed goroutine. *)
LEMMA BecomesType == ASSUME TypeOK, NEW t \in Thread, NEW thread \in Goroutines,
                            threads' = [threads EXCEPT ![t] = thread]
                     PROVE  threads' \in [Thread -> Goroutines]
  BY DEF TypeOK

(* A variable that does not change keeps its type. *)
LEMMA StayType == ASSUME TypeOK
                  PROVE  /\ UNCHANGED server => server' \in [Proc -> Servers]
                         /\ UNCHANGED acked => acked' \subseteq Requests
                         /\ UNCHANGED handPhase => handPhase' \in HandPhases
                         /\ UNCHANGED writer => writer' \in [epoch : Nat, committed : Nat]
                         /\ UNCHANGED pending => pending' \in [Proc -> Commands]
  BY DEF TypeOK, Servers

(* Forgetting a pending termination leaves typed commands. *)
LEMMA ForgetType == ASSUME TypeOK, NEW p \in Proc, Forget(p)
                    PROVE  pending' \in [Proc -> Commands]
  BY NoCommandType DEF Forget, TypeOK

(* A cancel, a sweep or a request starts a typed goroutine. *)
LEMMA StartType ==
  ASSUME TypeOK, NEW t \in Thread, NEW p \in Proc, StartNext(t, p)
  PROVE  TypeOK'
  <1>1. ASSUME Cancel(t, p) PROVE TypeOK'
    <2>1. [Resting EXCEPT !.pc = "bind", !.home = p, !.mode = "cancel",
                          !.cmd.reason = "participant_cancelled"] \in Goroutines
      BY DEF Resting, Goroutines, NoCommand, CommandOf, Commands, HandPhases, LivePhases
    <2>2. threads' \in [Thread -> Goroutines]
      BY <1>1, <2>1, BecomesType DEF Cancel, Starts
    <2>. QED BY <1>1, <2>2, QuietType, StayType DEF Cancel, durable, journal, runtime
  <1>2. ASSUME Sweep(t, p) PROVE TypeOK'
    <2>1. Len(games[p]) + 1 \in Nat
      BY LenProperties DEF TypeOK
    <2>2. [Resting EXCEPT !.pc = "bind", !.home = p, !.mode = "sweep",
                          !.cmd.reason = "timeout", !.cmd.live = Len(games[p]) + 1] \in Goroutines
      BY <2>1 DEF Resting, Goroutines, NoCommand, CommandOf, Commands, HandPhases, LivePhases
    <2>3. threads' \in [Thread -> Goroutines]
      BY <1>2, <2>2, BecomesType DEF Sweep, Starts
    <2>. QED BY <1>2, <2>3, QuietType, StayType DEF Sweep, durable, journal, runtime
  <1>3. ASSUME NEW r \in Requests, SubmitLive(t, p, r) PROVE TypeOK'
    <2>1. ASSUME NEW x \in Replays(p, r)
          PROVE  [Resting EXCEPT !.pc = "callback", !.home = p, !.req = r,
                                 !.mode = "historical", !.result = x.phase] \in Goroutines
      BY KnownType, RestingType DEF Goroutines
    <2>2. [Resting EXCEPT !.pc = "queued", !.home = p, !.req = r] \in Goroutines
      BY RestingType DEF Goroutines
    <2>3. threads' \in [Thread -> Goroutines]
      BY <1>3, <2>1, <2>2, BecomesType DEF SubmitLive, Starts
    <2>. QED BY <1>3, <2>3, QuietType, StayType DEF SubmitLive, durable, journal, runtime
  <1>. QED BY <1>1, <1>2, <1>3 DEF StartNext

(* Enter replays a receipt, takes the stripe or fails. *)
LEMMA EnterType == ASSUME TypeOK, ThreadsRun, NEW t \in Thread, Enter(t) PROVE TypeOK'
  <1> DEFINE p == threads[t].home  r == threads[t].req
  <1>1. p \in Proc /\ threads[t] \in Goroutines
    BY RunningType DEF Enter
  <1>2. CASE Fail(t)
    BY <1>2, FailType, QuietType, StayType DEF Enter, durable, journal, runtime
  <1>3. CASE Goto(t, "append") /\ UNCHANGED <<server, acked>>
    BY <1>3, GotoType, QuietType, StayType DEF Enter, durable, journal, runtime
  <1>4. ASSUME NEW x \in Replays(p, r), UNCHANGED <<server, acked>>,
               threads' = [threads EXCEPT ![t] =
                  [@ EXCEPT !.pc = "callback", !.mode = "historical", !.result = x.phase]]
        PROVE  TypeOK'
    <2>1. [threads[t] EXCEPT !.pc = "callback", !.mode = "historical", !.result = x.phase]
            \in Goroutines
      BY <1>1, KnownType DEF Goroutines
    <2>2. threads' \in [Thread -> Goroutines]
      BY <1>4, <2>1, BecomesType
    <2>. QED BY <1>4, <2>2, QuietType, StayType DEF Enter, durable, journal, runtime
  <1>. QED BY <1>2, <1>3, <1>4, Zenon DEF Enter

(* An appended row and its watermark are typed. *)
LEMMA JournalAppendType ==
  ASSUME TypeOK, NEW p \in Proc, NEW r \in Requests, JournalAppend(p, r)
  PROVE  /\ actions' \in Seq([req : Requests, epoch : Nat])
         /\ writer' \in [epoch : Nat, committed : Nat]
  <1>1. [req |-> r, epoch |-> epochs[p]] \in [req : Requests, epoch : Nat]
    BY DEF TypeOK
  <1>2. actions' \in Seq([req : Requests, epoch : Nat])
    BY <1>1, AppendProperties DEF JournalAppend, TypeOK
  <1>3. r.expected \in Nat
    BY RequestsAssumption
  <1>4. writer' \in [epoch : Nat, committed : Nat]
    <2>1. writer \in [epoch : Nat, committed : Nat]
      BY DEF TypeOK
    <2>2. writer' = [writer EXCEPT !.committed = r.expected + 1] /\ r.expected + 1 \in Nat
      BY <1>3 DEF JournalAppend
    <2>. QED BY <2>1, <2>2
  <1>. QED BY <1>2, <1>4

(* Quarantine is one of the states of an entry. *)
LEMMA QuarantineType == ASSUME TypeOK, NEW p \in Proc, Quarantine(p)
                        PROVE  entries' \in [Proc -> {"none", "open", "quarantined"}]
  BY DEF Quarantine, TypeOK

(* The three outcomes of Append keep every type. *)
LEMMA AppendType ==
  ASSUME TypeOK, ThreadsRun, NEW t \in Thread,
         AppendCommits(t) \/ AppendRefused(t) \/ AppendAmbiguous(t)
  PROVE  TypeOK'
  <1> DEFINE p == threads[t].home  r == threads[t].req
  <1>1. p \in Proc /\ r \in Requests
    BY RunningType DEF AppendCommits, AppendRefused, AppendAmbiguous
  <1>2. CASE AppendCommits(t)
    BY <1>1, <1>2, JournalAppendType, GotoType DEF AppendCommits, runtime, TypeOK
  <1>3. CASE AppendRefused(t)
    <2>1. /\ threads' \in [Thread -> Goroutines] /\ server' \in [Proc -> Servers]
          /\ entries' \in [Proc -> {"none", "open", "quarantined"}] /\ acked' \subseteq Requests
      BY <1>1, <1>3, QuarantineType, FailType DEF AppendRefused
    <2>. QED BY <1>3, <2>1 DEF AppendRefused, durable, journal, TypeOK, Servers
  <1>4. CASE AppendAmbiguous(t)
    <2>1. /\ actions' \in Seq([req : Requests, epoch : Nat])
          /\ writer' \in [epoch : Nat, committed : Nat]
      BY <1>1, <1>4, JournalAppendType DEF AppendAmbiguous, journal, TypeOK
    <2>. QED BY <1>1, <1>4, <2>1, QuarantineType, FailType DEF AppendAmbiguous, TypeOK, Servers
  <1>. QED BY <1>2, <1>3, <1>4

(* Publishing a candidate keeps every type. *)
LEMMA PublishType == ASSUME TypeOK, ThreadsRun, NEW t \in Thread, Publish(t) PROVE TypeOK'
  <1> DEFINE p == threads[t].home  r == threads[t].req
             moves == Append(games[p], r)
             phase == LivePhase(moves)
             called == [threads[t] EXCEPT !.pc = "callback", !.result = phase]
  <1>1. p \in Proc /\ r \in Requests /\ threads[t] \in Goroutines
    BY RunningType DEF Publish
  <1>2. phase \in LivePhases
    BY LivePhaseType
  <1>3. moves \in Seq(Requests)
    BY <1>1, AppendProperties DEF TypeOK
  <1>4. called \in Goroutines
    BY <1>1, <1>2 DEF Goroutines
  <1>5. receipts' \in [Proc -> SUBSET Receipts]
    <2>1. [req |-> r, phase |-> phase] \in Receipts
      BY <1>1, <1>2 DEF Receipts
    <2>2. receipts' = [receipts EXCEPT ![p] = @ \cup {[req |-> r, phase |-> phase]}]
      BY Zenon DEF Publish
    <2>. QED BY <2>1, <2>2 DEF TypeOK
  <1>6. Completed(moves) \in Records
    BY <1>3, CompletedType
  <1>7. UNCHANGED <<handPhase, terminator, journal, boot, pending, dealing>>
    BY DEF Publish
  <1>8. games \in [Proc -> Seq(Requests)] => [games EXCEPT ![p] = moves] \in [Proc -> Seq(Requests)]
    BY <1>3
  <1>9. threads' = [threads EXCEPT ![t] = called] => threads' \in [Thread -> Goroutines]
    BY <1>4, BecomesType
  <1> HIDE DEF moves, phase, called
  <1>10. CASE /\ games' = [games EXCEPT ![p] = moves]
              /\ threads' = [threads EXCEPT ![t] = called]
              /\ UNCHANGED <<archive, entries, final, epochs, server, acked>>
    BY <1>5, <1>7, <1>8, <1>9, <1>10 DEF TypeOK, journal
  <1>11. CASE /\ ArchiveOk(Completed(moves)) /\ Retire(p)
              /\ threads' = [threads EXCEPT ![t] = called]
              /\ UNCHANGED <<server, acked>>
    <2>1. archive' \in Records
      BY <1>6, <1>11, ArchiveOkType
    <2>. QED BY <1>1, <1>5, <1>7, <1>9, <1>11, <2>1, RetireType DEF TypeOK, journal
  <1>12. CASE /\ ArchiveFails(Completed(moves))
              /\ games' = [games EXCEPT ![p] = moves]
              /\ final' = [final EXCEPT ![p] = Completed(moves)]
              /\ Fail(t) /\ UNCHANGED <<entries, epochs>>
    <2>1. archive' \in Records
      BY <1>6, <1>12, ArchiveFailsType
    <2>2. final' \in [Proc -> Records]
      BY <1>6, <1>12 DEF TypeOK
    <2>3. games' \in [Proc -> Seq(Requests)]
      BY <1>8, <1>12 DEF TypeOK
    <2>4. /\ threads' \in [Thread -> Goroutines] /\ server' \in [Proc -> Servers]
          /\ acked' \subseteq Requests
      BY <1>12, FailType
    <2>. QED BY <1>5, <1>7, <1>12, <2>1, <2>2, <2>3, <2>4 DEF TypeOK, journal, Servers
  <1>. QED BY <1>10, <1>11, <1>12, Zenon DEF Publish, moves, phase, called

(* The callback starts the work it owes. *)
LEMMA CallbackType == ASSUME TypeOK, ThreadsRun, NEW t \in Thread, Callback(t) PROVE TypeOK'
  <1>1. threads[t] \in Goroutines /\ threads[t].pc # "idle"
    BY RunningType DEF Callback
  <1>2. [threads[t] EXCEPT !.pc = "bind", !.cmd.reason = "no_landlord"] \in Goroutines
    BY <1>1 DEF Goroutines, Commands
  <1>3. /\ threads' \in [Thread -> Goroutines] /\ server' \in [Proc -> Servers]
        /\ acked' \subseteq Requests
    BY <1>1, <1>2, BecomesType, DoneType, GotoType, StayType DEF Callback
  <1>. QED BY <1>3, QuietType, StayType DEF Callback, durable, journal, runtime

(* The phase that follows a running phase. *)
LEMMA NextPhaseType == ASSUME NEW phase \in {"BIDDING", "PLAYING", "SETTLING"}
                       PROVE  NextPhase[phase] \in {"PLAYING", "SETTLING", "COMPLETED"}
  BY DEF NextPhase

(* The advance binds its command to the phase it loads. *)
LEMMA AdvanceLoadType ==
  ASSUME TypeOK, ThreadsRun, NEW t \in Thread, AdvanceLoad(t) PROVE TypeOK'
  <1>1. /\ threads[t] \in Goroutines /\ threads[t].pc # "idle" /\ threads[t].home \in Proc
        /\ handPhase \in HandPhases
    BY RunningType DEF AdvanceLoad, TypeOK
  <1>2. [threads[t] EXCEPT !.pc = "advanceTx", !.cmd = CommandOf("advance", handPhase, 0)]
          \in Goroutines
    BY <1>1 DEF Goroutines, Commands, CommandOf
  <1>3. CASE Done(t)
    BY <1>1, <1>3, DoneType, ForgetType, QuietType, StayType DEF AdvanceLoad, durable, journal, runtime
  <1>4. CASE /\ threads' = [threads EXCEPT ![t] =
                 [@ EXCEPT !.pc = "advanceTx", !.cmd = CommandOf("advance", handPhase, 0)]]
             /\ UNCHANGED <<server, acked, pending>>
    <2>1. threads' \in [Thread -> Goroutines]
      BY <1>2, <1>4, BecomesType
    <2>. QED BY <1>4, <2>1, QuietType, StayType DEF AdvanceLoad, durable, journal, runtime
  <1>. QED BY <1>3, <1>4, Zenon DEF AdvanceLoad

(* An advance commits a typed phase or leaves it alone. *)
LEMMA AdvanceType == ASSUME TypeOK, ThreadsRun, NEW t \in Thread,
                            AdvanceCommits(t) \/ AdvanceFails(t)
                     PROVE  TypeOK'
  <1>1. threads[t].pc = "advanceTx" /\ threads[t].pc # "idle"
    BY DEF AdvanceCommits, AdvanceFails
  <1>2. threads[t].cmd.phase \in {"BIDDING", "PLAYING", "SETTLING"}
    BY <1>1 DEF ThreadsRun, RunsOn, NextPhase
  <1>3. handPhase' \in HandPhases
    <2>1. CASE handPhase = threads[t].cmd.phase
      BY <1>2, <2>1, NextPhaseType DEF AdvanceCommits, AdvanceFails, HandPhases
    <2>2. CASE handPhase # threads[t].cmd.phase
      BY <2>2 DEF AdvanceCommits, AdvanceFails, TypeOK
    <2>. QED BY <2>1, <2>2
  <1>4. CASE AdvanceCommits(t)
    <2>1. /\ threads' \in [Thread -> Goroutines] /\ server' \in [Proc -> Servers]
          /\ acked' \subseteq Requests
      BY <1>1, <1>4, DoneType, GotoType, StayType DEF AdvanceCommits
    <2>. QED BY <1>3, <1>4, <2>1, QuietType, StayType DEF AdvanceCommits, journal, runtime
  <1>5. CASE AdvanceFails(t)
    BY <1>3, <1>5, FailType, QuietType, StayType DEF AdvanceFails, journal, runtime
  <1>. QED BY <1>4, <1>5

(* Binding a termination keeps commands typed. *)
LEMMA BindType == ASSUME TypeOK, ThreadsRun, NEW t \in Thread, Bind(t) PROVE TypeOK'
  <1> DEFINE p == threads[t].home
             bound == [threads[t].cmd EXCEPT !.phase = handPhase]
  <1>1. /\ threads[t] \in Goroutines /\ p \in Proc /\ threads[t].pc # "idle"
        /\ threads[t].cmd \in Commands /\ handPhase \in HandPhases /\ pending[p] \in Commands
    BY RunningType DEF Bind, TypeOK
  <1>2. bound \in Commands
    BY <1>1 DEF Commands
  <1>3. ASSUME NEW cmd \in Commands,
               threads' = [threads EXCEPT ![t] = [@ EXCEPT !.pc = "terminateTx", !.cmd = cmd]]
        PROVE  threads' \in [Thread -> Goroutines]
    <2>1. [threads[t] EXCEPT !.pc = "terminateTx", !.cmd = cmd] \in Goroutines
      BY <1>1 DEF Goroutines
    <2>. QED BY <1>3, <2>1, BecomesType
  <1>4. UNCHANGED <<durable, boot, runtime, dealing>>
    BY DEF Bind
  <1>5. /\ threads' \in [Thread -> Goroutines] /\ server' \in [Proc -> Servers]
        /\ acked' \subseteq Requests
    BY <1>1, <1>2, <1>3, DoneType, FailType, StayType DEF Bind
  <1>6. pending' \in [Proc -> Commands]
    BY <1>1, <1>2 DEF Bind, TypeOK
  <1>. QED BY <1>4, <1>5, <1>6, QuietType, StayType DEF durable, journal, runtime

(* The rows a termination writes are typed. *)
LEMMA TerminateRowsType ==
  ASSUME TypeOK, ThreadsRun, NEW t \in Thread, threads[t].pc = "terminateTx", TerminateRows(t)
  PROVE  /\ handPhase' \in HandPhases
         /\ terminator' \in [by : Proc \cup {"none"}, cmd : Commands]
         /\ writer' \in [epoch : Nat, committed : Nat]
  <1>1. threads[t].home \in Proc /\ threads[t].cmd \in Commands
    BY RunningType
  <1>2. writer \in [epoch : Nat, committed : Nat] /\ NextEpoch \in Nat
    BY DEF TypeOK, NextEpoch
  <1>3. [writer EXCEPT !.epoch = NextEpoch] \in [epoch : Nat, committed : Nat]
    BY <1>2
  <1>4. handPhase' \in HandPhases /\ writer' \in [epoch : Nat, committed : Nat]
    BY <1>2, <1>3 DEF TerminateRows, HandPhases
  <1>. QED BY <1>1, <1>4 DEF TerminateRows

(* The outcomes of a termination keep every type. *)
LEMMA TerminateType ==
  ASSUME TypeOK, ThreadsRun, NEW t \in Thread,
         TerminateCommits(t) \/ TerminateYields(t) \/ TerminateFails(t)
  PROVE  TypeOK'
  <1>1. threads[t].pc = "terminateTx" /\ threads[t].home \in Proc
    BY RunningType DEF TerminateCommits, TerminateYields, TerminateFails
  <1>2. CASE TerminateCommits(t)
    <2>1. /\ handPhase' \in HandPhases
          /\ terminator' \in [by : Proc \cup {"none"}, cmd : Commands]
          /\ writer' \in [epoch : Nat, committed : Nat]
      BY <1>1, <1>2, TerminateRowsType DEF TerminateCommits, TypeOK
    <2>2. threads' \in [Thread -> Goroutines]
      BY <1>2, GotoType DEF TerminateCommits
    <2>. QED BY <1>2, <2>1, <2>2 DEF TerminateCommits, TypeOK, runtime
  <1>3. CASE TerminateYields(t)
    <2>1. pending' \in [Proc -> Commands]
      BY <1>1, <1>3, ForgetType, StayType DEF TerminateYields
    <2>. QED BY <1>3, <2>1, FailType, QuietType, StayType
             DEF TerminateYields, durable, journal, runtime
  <1>4. CASE TerminateFails(t)
    <2>1. /\ handPhase' \in HandPhases
          /\ terminator' \in [by : Proc \cup {"none"}, cmd : Commands]
          /\ writer' \in [epoch : Nat, committed : Nat]
      BY <1>1, <1>4, TerminateRowsType DEF TerminateFails, TypeOK
    <2>. QED BY <1>4, <2>1, FailType DEF TerminateFails, TypeOK, Servers, runtime
  <1>. QED BY <1>2, <1>3, <1>4

(* Finalizing archives a record and retires the hand. *)
LEMMA FinalizeType == ASSUME TypeOK, ThreadsRun, NEW t \in Thread, Finalize(t) PROVE TypeOK'
  <1> DEFINE p == threads[t].home
             record == IF final[p] # NoRecord THEN final[p] ELSE Aborted(games[p])
  <1>1. p \in Proc /\ threads[t].pc # "idle"
    BY RunningType DEF Finalize
  <1>2. record \in Records
    BY <1>1, CompletedType DEF TypeOK
  <1>3. UNCHANGED <<handPhase, terminator, journal, boot, receipts, dealing>>
    BY DEF Finalize
  <1> HIDE DEF record
  <1>4. CASE Forget(p) /\ Done(t) /\ UNCHANGED <<archive, games, entries, final, epochs>>
    BY <1>1, <1>3, <1>4, ForgetType, DoneType DEF TypeOK, Servers, journal
  <1>5. CASE ArchiveOk(record) /\ Retire(p) /\ Forget(p) /\ Done(t)
    <2>1. archive' \in Records
      BY <1>2, <1>5, ArchiveOkType
    <2>. QED BY <1>1, <1>3, <1>5, <2>1, RetireType, ForgetType, DoneType DEF TypeOK, Servers, journal
  <1>6. CASE /\ ArchiveFails(record) /\ final' = [final EXCEPT ![p] = record]
             /\ Fail(t) /\ UNCHANGED <<games, entries, epochs, pending>>
    <2>1. archive' \in Records
      BY <1>2, <1>6, ArchiveFailsType
    <2>2. final' \in [Proc -> Records]
      BY <1>2, <1>6 DEF TypeOK
    <2>. QED BY <1>3, <1>6, <2>1, <2>2, FailType DEF TypeOK, Servers, journal
  <1>. QED BY <1>4, <1>5, <1>6, Zenon DEF Finalize, record

(* Reconciliation ends or hands over to an advance or a bind. *)
LEMMA ReconcileType == ASSUME TypeOK, ThreadsRun, NEW t \in Thread, Reconcile(t) PROVE TypeOK'
  <1>1. threads[t] \in Goroutines /\ threads[t].pc # "idle"
    BY RunningType DEF Reconcile
  <1>2. [threads[t] EXCEPT !.pc = "bind", !.cmd.reason = "no_landlord"] \in Goroutines
    BY <1>1 DEF Goroutines, Commands
  <1>3. /\ threads' \in [Thread -> Goroutines] /\ server' \in [Proc -> Servers]
        /\ acked' \subseteq Requests
    BY <1>1, <1>2, BecomesType, DoneType, FailType, GotoType, StayType DEF Reconcile
  <1>. QED BY <1>3, QuietType, StayType DEF Reconcile, durable, journal, runtime

(* Every step of the program keeps the variables typed, as long as goroutines *)
(* run where ThreadsRun says they do. *)
THEOREM TypeStep == ASSUME TypeOK, ThreadsRun, [Next]_vars PROVE TypeOK'
  <1>1. ASSUME NEW p \in Proc, ProcNext(p) PROVE TypeOK'
    BY <1>1, DealType, RollbackType, EvictType, BootLoadType, BootAcquireType, BootReplayType,
       CrashType DEF ProcNext
  <1>2. ASSUME NEW t \in Thread, ThreadNext(t) PROVE TypeOK'
    BY <1>2, EnterType, AppendType, PublishType, CallbackType, AdvanceLoadType, AdvanceType,
       BindType, TerminateType, FinalizeType, ReconcileType DEF ThreadNext
  <1>3. CASE UNCHANGED vars
    BY <1>3 DEF TypeOK, vars, durable, journal, runtime
  <1>. QED BY <1>1, <1>2, <1>3, StartType DEF Next

-----------------------------------------------------------------------------
(* The journal: what any step may do to it, and what that keeps. *)

Appended == \E p \in Proc, r \in Requests : Appendable(p, r) /\ JournalAppend(p, r)

JournalStep ==
  \/ UNCHANGED journal
  \/ writer = NoWriter /\ writer' = [epoch |-> 1, committed |-> 1] /\ UNCHANGED actions
  \/ writer' = NoWriter /\ actions = <<>> /\ UNCHANGED actions
  \/ writer # NoWriter /\ writer' = [writer EXCEPT !.epoch = NextEpoch] /\ UNCHANGED actions
  \/ Appended

(* No other statement of the program touches the journal's tables. *)
LEMMA JournalSteps == ASSUME TypeOK, ThreadsRun, [Next]_vars PROVE JournalStep
  <1>1. ASSUME NEW p \in Proc, ProcNext(p) PROVE JournalStep
    <2>1. CASE DealStart(p)
      BY <2>1 DEF DealStart, JournalStep
    <2>2. CASE RollbackStart(p)
      BY <2>2 DEF RollbackStart, DeleteUnused, JournalStep, journal
    <2>3. CASE BootAcquire(p)
      BY <2>3 DEF BootAcquire, JournalStep, journal
    <2>4. CASE DealCommit(p) \/ DealError(p) \/ Evict(p) \/ BootLoad(p) \/ BootReplay(p) \/ Crash(p)
      <3>1. UNCHANGED journal
        BY <2>4, Zenon DEF DealCommit, DealError, Evict, BootLoad, BootReplay, Crash, durable
      <3>. QED BY <3>1 DEF JournalStep
    <2>. QED BY <1>1, <2>1, <2>2, <2>3, <2>4 DEF ProcNext
  <1>2. ASSUME NEW t \in Thread, ThreadNext(t) PROVE JournalStep
    <2>1. CASE AppendCommits(t) \/ AppendAmbiguous(t)
      <3>1. threads[t].home \in Proc /\ threads[t].req \in Requests
        BY <2>1, RunningType DEF AppendCommits, AppendAmbiguous
      <3>2. \/ UNCHANGED journal
            \/ /\ Appendable(threads[t].home, threads[t].req)
               /\ JournalAppend(threads[t].home, threads[t].req)
        BY <2>1, Zenon DEF AppendCommits, AppendAmbiguous
      <3>. QED BY <3>1, <3>2 DEF JournalStep, Appended
    <2>2. CASE TerminateCommits(t) \/ TerminateFails(t)
      <3>1. UNCHANGED actions
        BY <2>2 DEF TerminateCommits, TerminateFails
      <3>2. \/ UNCHANGED writer
            \/ writer # NoWriter /\ writer' = [writer EXCEPT !.epoch = NextEpoch]
        BY <2>2, Zenon DEF TerminateCommits, TerminateFails, TerminateRows
      <3>. QED BY <3>1, <3>2 DEF JournalStep, journal
    <2>3. CASE \/ Enter(t) \/ AppendRefused(t) \/ Publish(t) \/ Callback(t) \/ AdvanceLoad(t)
               \/ AdvanceCommits(t) \/ AdvanceFails(t) \/ Bind(t) \/ TerminateYields(t)
               \/ Finalize(t) \/ Reconcile(t)
      <3>1. UNCHANGED journal
        BY <2>3, Zenon DEF Enter, AppendRefused, Publish, Callback, AdvanceLoad, AdvanceCommits,
           AdvanceFails, Bind, TerminateYields, Finalize, Reconcile, durable
      <3>. QED BY <3>1 DEF JournalStep
    <2>. QED BY <1>2, <2>1, <2>2, <2>3 DEF ThreadNext
  <1>3. ASSUME NEW t \in Thread, NEW p \in Proc, StartNext(t, p) PROVE JournalStep
    <2>1. UNCHANGED journal
      BY <1>3, Zenon DEF StartNext, Cancel, Sweep, SubmitLive, durable
    <2>. QED BY <2>1 DEF JournalStep
  <1>4. CASE UNCHANGED vars
    BY <1>4 DEF JournalStep, vars, durable
  <1>. QED BY <1>1, <1>2, <1>3, <1>4 DEF Next

(* The journal after a step starts with the journal before it. *)
Grows == /\ Len(actions) <= Len(actions')
         /\ \A i \in 1..Len(actions) : actions'[i] = actions[i]

(* What a journal that only grows holds, it still holds. *)
LEMMA GrowsKeepsLogged == ASSUME Grows, TypeOK, TypeOK', NEW r, Logged(r) PROVE Logged(r)'
  <1>1. Len(actions) \in Nat /\ Len(actions') \in Nat
    <2>1. actions \in Seq([req : Requests, epoch : Nat])
      BY DEF TypeOK
    <2>2. actions' \in Seq([req : Requests, epoch : Nat])
      BY DEF TypeOK
    <2>. QED BY <2>1, <2>2, LenProperties
  <1>2. r.expected \in 1..Len(actions) /\ actions[r.expected].req = r
    BY DEF Logged
  <1>3. actions'[r.expected] = actions[r.expected]
    BY <1>2 DEF Grows
  <1>. QED BY <1>1, <1>2, <1>3 DEF Grows, Logged

(* An append lands at the version its request was made for. *)
LEMMA AppendedAtVersion ==
  ASSUME TypeOK, LogIndexed, Watermark, NEW p \in Proc, NEW r \in Requests,
         Appendable(p, r), JournalAppend(p, r)
  PROVE  Grows /\ LogIndexed' /\ Watermark' /\ Logged(r)' /\ writer # NoWriter
  <1> DEFINE n == Len(actions)
  <1>1. n \in Nat /\ actions \in Seq([req : Requests, epoch : Nat]) /\ epochs[p] \in Nat
    BY DEF TypeOK
  <1>2. r.expected \in Nat /\ r.expected # 0
    BY RequestsAssumption
  <1>3. writer.committed = r.expected /\ writer # NoWriter
    BY <1>2 DEF Appendable, NoWriter
  <1>4. r.expected = n + 1
    BY <1>3 DEF Watermark
  <1>5. [req |-> r, epoch |-> epochs[p]] \in [req : Requests, epoch : Nat]
    BY <1>1
  <1>6. /\ Len(actions') = n + 1
        /\ actions'[n + 1] = [req |-> r, epoch |-> epochs[p]]
        /\ \A i \in 1..n : actions'[i] = actions[i]
    BY <1>1, <1>5, AppendProperties DEF JournalAppend
  <1>7. Grows
    BY <1>1, <1>6 DEF Grows
  <1>8. Logged(r)'
    BY <1>1, <1>4, <1>6 DEF Logged
  <1> HIDE DEF n
  <1>9. LogIndexed'
    <2>1. ASSUME NEW i \in 1..(n + 1) PROVE actions'[i].req.expected = i
      <3>1. CASE i = n + 1
        BY <1>4, <1>6, <3>1
      <3>2. CASE i # n + 1
        <4>1. i \in 1..n
          BY <1>1, <3>2
        <4>. QED BY <1>6, <4>1 DEF LogIndexed, n
      <3>. QED BY <3>1, <3>2
    <2>. QED BY <1>6, <2>1 DEF LogIndexed
  <1>10. writer' = [writer EXCEPT !.committed = n + 2] /\ writer \in [epoch : Nat, committed : Nat]
    <2>1. writer' = [writer EXCEPT !.committed = r.expected + 1]
      BY DEF JournalAppend
    <2>2. r.expected + 1 = n + 2
      BY <1>1, <1>4
    <2>. QED BY <2>1, <2>2 DEF TypeOK
  <1>11. writer'.committed = n + 2 /\ writer'.committed # 0
    BY <1>1, <1>10
  <1>12. Watermark'
    BY <1>1, <1>6, <1>11 DEF Watermark, NoWriter
  <1>. QED BY <1>3, <1>7, <1>8, <1>9, <1>12

(* The journal stays indexed and counted, and never loses a row. *)
LEMMA LogStep == ASSUME TypeOK, LogIndexed, Watermark, JournalStep
                 PROVE  Grows /\ LogIndexed' /\ Watermark'
  <1>1. Len(actions) \in Nat /\ writer \in [epoch : Nat, committed : Nat]
    BY DEF TypeOK
  <1>2. CASE UNCHANGED actions
    <2>1. Grows /\ LogIndexed'
      BY <1>1, <1>2 DEF Grows, LogIndexed
    <2>2. CASE UNCHANGED writer
      BY <1>2, <2>1, <2>2 DEF Watermark
    <2>3. CASE writer = NoWriter /\ writer' = [epoch |-> 1, committed |-> 1]
      BY <1>2, <2>1, <2>3 DEF Watermark, NoWriter
    <2>4. CASE writer' = NoWriter /\ actions = <<>>
      BY <1>2, <2>1, <2>4 DEF Watermark
    <2>5. CASE writer # NoWriter /\ writer' = [writer EXCEPT !.epoch = NextEpoch]
      <3>1. writer'.committed = writer.committed /\ writer'.epoch # 0
        BY <1>1, <2>5 DEF NextEpoch
      <3>2. writer' # NoWriter
        BY <3>1 DEF NoWriter
      <3>. QED BY <1>2, <2>1, <2>5, <3>1, <3>2 DEF Watermark
    <2>6. CASE Appended
      BY <2>6, AppendedAtVersion DEF Appended
    <2>. QED BY <2>2, <2>3, <2>4, <2>5, <2>6, Zenon DEF JournalStep, journal
  <1>3. CASE Appended
    BY <1>3, AppendedAtVersion DEF Appended
  <1>. QED BY <1>2, <1>3 DEF JournalStep, journal

-----------------------------------------------------------------------------
(* The phase of the aggregate and the lock of a deal in progress. *)

(* A lock that is held after the step was held before it, over one phase. *)
DealKept == \A q \in Proc : dealing'[q] = "created" =>
                              dealing[q] = "created" /\ UNCHANGED handPhase

(* A step that only releases locks keeps the deal locked. *)
LEMMA DealKeptLocked == ASSUME DealLocked, DealKept PROVE DealLocked'
  BY DEF DealLocked, DealKept

(* DEALING is left once: no step returns to it. *)
LeavesDealing == handPhase' = "DEALING" => handPhase = "DEALING"

(* Every phase command but the deal itself waits for the row lock. *)
LEMMA DealStep ==
  ASSUME TypeOK, ThreadsRun, DealLocked, [Next]_vars
  PROVE  DealLocked' /\ LeavesDealing
  <1>1. ASSUME NEW p \in Proc, ProcNext(p) PROVE DealLocked' /\ LeavesDealing
    <2>0. dealing \in [Proc -> {"none", "created", "rollback"}]
      BY DEF TypeOK
    <2>1. CASE DealStart(p)
      BY <2>0, <2>1 DEF DealStart, HandRowFree, DealLocked, LeavesDealing
    <2>2. CASE DealCommit(p) \/ DealError(p)
      <3>1. \A q \in Proc : dealing[q] = "created" => p = q
        BY <2>2 DEF DealCommit, DealError, DealLocked
      <3>2. handPhase = "DEALING"
        BY <2>2 DEF DealCommit, DealError, DealLocked
      <3>3. \A q \in Proc : dealing'[q] # "created"
        BY <2>0, <2>2, <3>1 DEF DealCommit, DealError
      <3>. QED BY <3>2, <3>3 DEF DealLocked, LeavesDealing
    <2>3. CASE \/ RollbackStart(p) \/ Evict(p) \/ BootLoad(p) \/ BootAcquire(p)
               \/ BootReplay(p) \/ Crash(p)
      <3>1. UNCHANGED handPhase
        BY <2>3, Zenon DEF RollbackStart, Evict, BootLoad, BootAcquire, BootReplay, Crash, durable
      <3>2. UNCHANGED dealing \/ dealing' = [dealing EXCEPT ![p] = "none"]
        BY <2>3, Zenon DEF RollbackStart, Evict, BootLoad, BootAcquire, BootReplay, Crash
      <3>3. DealKept
        BY <2>0, <3>1, <3>2 DEF DealKept
      <3>. QED BY <3>1, <3>3, DealKeptLocked DEF LeavesDealing
    <2>. QED BY <1>1, <2>1, <2>2, <2>3 DEF ProcNext
  <1>2. ASSUME NEW t \in Thread, ThreadNext(t) PROVE DealLocked' /\ LeavesDealing
    <2>1. CASE AdvanceCommits(t) \/ AdvanceFails(t)
      <3>1. HandRowFree /\ UNCHANGED dealing
        BY <2>1 DEF AdvanceCommits, AdvanceFails
      <3>2. threads[t].cmd.phase \in {"BIDDING", "PLAYING", "SETTLING"}
        BY <2>1 DEF AdvanceCommits, AdvanceFails, ThreadsRun, RunsOn, NextPhase
      <3>3. LeavesDealing
        <4>1. CASE handPhase = threads[t].cmd.phase
          BY <2>1, <3>2, <4>1, NextPhaseType DEF AdvanceCommits, AdvanceFails, LeavesDealing
        <4>2. CASE handPhase # threads[t].cmd.phase
          BY <2>1, <4>2 DEF AdvanceCommits, AdvanceFails, LeavesDealing
        <4>. QED BY <4>1, <4>2
      <3>4. DealKept
        BY <3>1 DEF DealKept, HandRowFree
      <3>. QED BY <3>3, <3>4, DealKeptLocked
    <2>2. CASE TerminateCommits(t) \/ TerminateFails(t)
      <3>1. HandRowFree /\ UNCHANGED dealing
        BY <2>2 DEF TerminateCommits, TerminateFails
      <3>2. LeavesDealing
        BY <2>2 DEF TerminateCommits, TerminateFails, TerminateRows, LeavesDealing
      <3>3. DealKept
        BY <3>1 DEF DealKept, HandRowFree
      <3>. QED BY <3>2, <3>3, DealKeptLocked
    <2>3. CASE \/ Enter(t) \/ AppendCommits(t) \/ AppendRefused(t) \/ AppendAmbiguous(t)
               \/ Publish(t) \/ Callback(t) \/ AdvanceLoad(t) \/ Bind(t)
               \/ TerminateYields(t) \/ Finalize(t) \/ Reconcile(t)
      <3>1. UNCHANGED <<handPhase, dealing>>
        BY <2>3, Zenon DEF Enter, AppendCommits, AppendRefused, AppendAmbiguous, Publish, Callback,
           AdvanceLoad, Bind, TerminateYields, Finalize, Reconcile, durable
      <3>. QED BY <3>1, DealKeptLocked DEF DealKept, LeavesDealing
    <2>. QED BY <1>2, <2>1, <2>2, <2>3 DEF ThreadNext
  <1>3. ASSUME NEW t \in Thread, NEW p \in Proc, StartNext(t, p) PROVE DealLocked' /\ LeavesDealing
    <2>1. UNCHANGED <<handPhase, dealing>>
      BY <1>3, Zenon DEF StartNext, Cancel, Sweep, SubmitLive, durable
    <2>. QED BY <2>1, DealKeptLocked DEF DealKept, LeavesDealing
  <1>4. CASE UNCHANGED vars
    BY <1>4, DealKeptLocked DEF DealKept, LeavesDealing, vars, durable
  <1>. QED BY <1>1, <1>2, <1>3, <1>4 DEF Next

(* Nobody can know a receipt, or act for the supervisor, before the deal. *)
LEMMA UndealtSilent ==
  ASSUME TypeOK, Undealt, ReceiptsLogged, handPhase = "DEALING", NEW p \in Proc,
         NEW t \in Thread
  PROVE  ~Sweep(t, p) /\ \A r \in Requests : ~SubmitLive(t, p, r)
  <1>1. actions = <<>> /\ Len(actions) = 0
    BY DEF Undealt
  <1>2. receipts[p] = {}
    BY <1>1 DEF ReceiptsLogged, Logged
  <1>3. Known(p) = {}
    BY <1>2 DEF Known, Historic, Terminal
  <1>4. \A r : Replays(p, r) = {}
    BY <1>3 DEF Replays
  <1>. QED BY <1>4 DEF SubmitLive, Submittable, Sweep

(* Nothing but cancels runs, and nothing is appended, before the deal commits. *)
LEMMA UndealtStep ==
  ASSUME TypeOK, ThreadsRun, Undealt, ReceiptsLogged, LeavesDealing, [Next]_vars
  PROVE  Undealt'
  <1> SUFFICES ASSUME handPhase' = "DEALING"
               PROVE  /\ actions' = <<>>
                      /\ \A p \in Proc : server'[p] \notin {"loaded", "acquired", "reconciling"}
                      /\ \A t \in Thread : threads'[t].pc # "idle" => threads'[t].mode = "cancel"
    BY DEF Undealt
  <1>1. /\ handPhase = "DEALING" /\ actions = <<>>
        /\ \A p \in Proc : server[p] \notin {"loaded", "acquired", "reconciling"}
        /\ \A t \in Thread : threads[t].pc # "idle" => threads[t].mode = "cancel"
        /\ server \in [Proc -> Servers] /\ threads \in [Thread -> Goroutines]
    BY DEF Undealt, LeavesDealing, TypeOK, Servers
  <1>2. Resting.pc = "idle"
    BY DEF Resting
  <1>3. ASSUME NEW p \in Proc, ProcNext(p)
        PROVE  /\ actions' = <<>>
               /\ \A q \in Proc : server'[q] \notin {"loaded", "acquired", "reconciling"}
               /\ \A t \in Thread : threads'[t].pc # "idle" => threads'[t].mode = "cancel"
    <2>1. UNCHANGED actions
      BY <1>3, Zenon DEF ProcNext, DealStart, DealCommit, DealError, RollbackStart, Evict, BootLoad,
         BootAcquire, BootReplay, Crash, durable, journal
    <2>2. ~BootAcquire(p) /\ ~BootReplay(p)
      BY <1>1 DEF BootAcquire, BootReplay
    <2>3. \/ UNCHANGED server
          \/ server' = [server EXCEPT ![p] = "serving"]
          \/ server' = [server EXCEPT ![p] = "down"]
      <3>1. ~NeedsReplay
        BY <1>1 DEF NeedsReplay
      <3>. QED BY <1>3, <2>2, <3>1, Zenon DEF ProcNext, DealStart, DealCommit, DealError,
               RollbackStart, Evict, BootLoad, Crash
    <2>4. \/ UNCHANGED threads
          \/ threads' = [t \in Thread |-> IF threads[t].home = p THEN Resting ELSE threads[t]]
      BY <1>3, <2>2, Zenon DEF ProcNext, DealStart, DealCommit, DealError, RollbackStart, Evict,
         BootLoad, Crash
    <2>5. \A q \in Proc : server'[q] \notin {"loaded", "acquired", "reconciling"}
      BY <1>1, <2>3
    <2>6. \A t \in Thread : threads'[t].pc # "idle" => threads'[t].mode = "cancel"
      BY <1>1, <1>2, <2>4
    <2>. QED BY <1>1, <2>1, <2>5, <2>6
  <1>4. ASSUME NEW t \in Thread, ThreadNext(t)
        PROVE  /\ actions' = <<>>
               /\ \A q \in Proc : server'[q] \notin {"loaded", "acquired", "reconciling"}
               /\ \A u \in Thread : threads'[u].pc # "idle" => threads'[u].mode = "cancel"
    <2>1. threads[t].pc # "idle"
      BY <1>4 DEF ThreadNext, Enter, AppendCommits, AppendRefused, AppendAmbiguous, Publish,
         Callback, AdvanceLoad, AdvanceCommits, AdvanceFails, Bind, TerminateCommits,
         TerminateYields, TerminateFails, Finalize, Reconcile
    <2>2. threads[t].mode = "cancel"
      BY <1>1, <2>1
    <2>3. threads[t].pc \notin {"queued", "append", "publish", "callback", "advance",
                                "advanceTx", "reconcile"}
      BY <2>1, <2>2 DEF ThreadsRun, RunsOn
    <2>4. Bind(t) \/ TerminateCommits(t) \/ TerminateYields(t) \/ TerminateFails(t) \/ Finalize(t)
      BY <1>4, <2>3 DEF ThreadNext, Enter, AppendCommits, AppendRefused, AppendAmbiguous, Publish,
         Callback, AdvanceLoad, AdvanceCommits, AdvanceFails, Reconcile
    <2>5. UNCHANGED actions
      BY <2>4, Zenon DEF Bind, TerminateCommits, TerminateYields, TerminateFails, Finalize,
         durable, journal
    <2>6. UNCHANGED server
      <3>1. Fail(t) \/ Done(t) => UNCHANGED server
        BY <2>2 DEF Fail, Done
      <3>2. Fail(t) \/ Done(t) \/ UNCHANGED server
        BY <2>4, Zenon DEF Bind, TerminateCommits, TerminateYields, TerminateFails, Finalize
      <3>. QED BY <3>1, <3>2
    <2>7. \/ threads' = [threads EXCEPT ![t] = Resting]
          \/ Goto(t, "finalize")
          \/ \E cmd : threads' = [threads EXCEPT ![t] = [@ EXCEPT !.pc = "terminateTx", !.cmd = cmd]]
      BY <2>4, Zenon DEF Bind, TerminateCommits, TerminateYields, TerminateFails, Finalize, Fail, Done
    <2>8. ASSUME NEW u \in Thread, threads'[u].pc # "idle" PROVE threads'[u].mode = "cancel"
      <3>1. threads[t] \in Goroutines
        BY <1>1
      <3>2. \A cmd : [threads[t] EXCEPT !.pc = "terminateTx", !.cmd = cmd].mode = "cancel"
        BY <2>2, <3>1 DEF Goroutines
      <3>3. [threads[t] EXCEPT !.pc = "finalize"].mode = "cancel"
        BY <2>2, <3>1 DEF Goroutines
      <3>4. CASE u = t
        <4>1. CASE threads' = [threads EXCEPT ![t] = Resting]
          BY <1>1, <1>2, <2>8, <3>4, <4>1
        <4>2. CASE Goto(t, "finalize")
          BY <1>1, <3>3, <3>4, <4>2 DEF Goto
        <4>3. ASSUME NEW cmd, threads' = [threads EXCEPT ![t] =
                                            [@ EXCEPT !.pc = "terminateTx", !.cmd = cmd]]
              PROVE  threads'[u].mode = "cancel"
          BY <1>1, <3>2, <3>4, <4>3
        <4>. QED BY <2>7, <4>1, <4>2, <4>3
      <3>5. CASE u # t
        <4>1. threads'[u] = threads[u]
          BY <1>1, <2>7, <3>5 DEF Goto
        <4>. QED BY <1>1, <2>8, <4>1
      <3>. QED BY <3>4, <3>5
    <2>. QED BY <1>1, <2>5, <2>6, <2>8
  <1>5. ASSUME NEW t \in Thread, NEW p \in Proc, StartNext(t, p)
        PROVE  /\ actions' = <<>>
               /\ \A q \in Proc : server'[q] \notin {"loaded", "acquired", "reconciling"}
               /\ \A u \in Thread : threads'[u].pc # "idle" => threads'[u].mode = "cancel"
    <2>1. Cancel(t, p)
      BY <1>1, <1>5, UndealtSilent DEF StartNext
    <2>2. UNCHANGED <<actions, server>>
      BY <2>1, Zenon DEF Cancel, durable, journal
    <2>3. threads' = [threads EXCEPT ![t] =
                        [Resting EXCEPT !.pc = "bind", !.home = p, !.mode = "cancel",
                                        !.cmd.reason = "participant_cancelled"]]
      BY <2>1, Zenon DEF Cancel, Starts
    <2>4. [Resting EXCEPT !.pc = "bind", !.home = p, !.mode = "cancel",
                          !.cmd.reason = "participant_cancelled"].mode = "cancel"
      BY DEF Resting
    <2>5. \A u \in Thread : threads'[u].pc # "idle" => threads'[u].mode = "cancel"
      BY <1>1, <2>3, <2>4
    <2>. QED BY <1>1, <2>2, <2>5
  <1>6. CASE UNCHANGED vars
    BY <1>1, <1>6 DEF vars, durable, journal
  <1>. QED BY <1>3, <1>4, <1>5, <1>6, Zenon DEF Next

-----------------------------------------------------------------------------
(* Goroutines run where their instance serves or reconciles. *)

LEMMA UntouchedRuns ==
  ASSUME ThreadsRun, OneReconciler, UNCHANGED <<threads, server>>
  PROVE  ThreadsRun' /\ OneReconciler'
  BY DEF ThreadsRun, RunsOn, OneReconciler

(* A running goroutine moves on: same instance, same kind of work. *)
LEMMA BecomesRuns ==
  ASSUME TypeOK, ThreadsRun, OneReconciler, NEW t \in Thread, NEW thread,
         threads' = [threads EXCEPT ![t] = thread], UNCHANGED server,
         threads[t].pc # "idle", thread.home = threads[t].home,
         thread.mode = "boot" => threads[t].mode = "boot",
         RunsOn(thread, server[thread.home])
  PROVE  ThreadsRun' /\ OneReconciler'
  <1>1. \A u \in Thread : threads'[u] = IF u = t THEN thread ELSE threads[u]
    BY DEF TypeOK
  <1>2. ThreadsRun'
    BY <1>1 DEF ThreadsRun, RunsOn
  <1>3. OneReconciler'
    BY <1>1 DEF OneReconciler
  <1>. QED BY <1>2, <1>3

(* A request, a cancel or a sweep starts a goroutine on a serving instance. *)
LEMMA StartsRuns ==
  ASSUME TypeOK, ThreadsRun, OneReconciler, NEW t \in Thread, NEW thread,
         Starts(t, thread), UNCHANGED server,
         thread.mode # "boot", RunsOn(thread, server[thread.home])
  PROVE  ThreadsRun' /\ OneReconciler'
  <1>1. \A u \in Thread : threads'[u] = IF u = t THEN thread ELSE threads[u]
    BY DEF TypeOK, Starts
  <1>2. ThreadsRun'
    BY <1>1 DEF ThreadsRun, RunsOn
  <1>3. OneReconciler'
    BY <1>1 DEF OneReconciler
  <1>. QED BY <1>2, <1>3

(* A goroutine ends; the reconciler is the last one of its instance. *)
LEMMA RestsRuns ==
  ASSUME TypeOK, ThreadsRun, OneReconciler, NEW t \in Thread, threads[t].pc # "idle",
         Fail(t) \/ Done(t)
  PROVE  ThreadsRun' /\ OneReconciler'
  <1> DEFINE p == threads[t].home
  <1>1. /\ \A u \in Thread : threads'[u] = IF u = t THEN Resting ELSE threads[u]
        /\ Resting.pc = "idle"
    BY DEF TypeOK, Fail, Done, Resting
  <1>2. OneReconciler'
    BY <1>1 DEF OneReconciler
  <1>3. RunsOn(threads[t], server[p])
    BY DEF ThreadsRun
  <1>4. CASE threads[t].mode # "boot"
    <2>1. UNCHANGED server
      BY <1>4 DEF Fail, Done
    <2>2. ThreadsRun'
      BY <1>1, <2>1 DEF ThreadsRun, RunsOn
    <2>. QED BY <1>2, <2>2
  <1>5. CASE threads[t].mode = "boot"
    <2>1. server[p] = "reconciling" /\ server \in [Proc -> Servers] /\ p \in Proc
      BY <1>3, <1>5 DEF RunsOn, TypeOK, Servers
    <2>2. ASSUME NEW u \in Thread, threads[u].pc # "idle", u # t
          PROVE  threads[u].home # p
      <3>1. RunsOn(threads[u], server[threads[u].home])
        BY <2>2 DEF ThreadsRun
      <3>2. threads[u].home = p => threads[u].mode = "boot"
        BY <2>1, <3>1 DEF RunsOn
      <3>. QED BY <1>5, <2>2, <3>2 DEF OneReconciler
    <2>3. \E s : server' = [server EXCEPT ![p] = s]
      BY <1>5 DEF Fail, Done
    <2>4. \A q \in Proc : q # p => server'[q] = server[q]
      BY <2>1, <2>3
    <2>5. ASSUME NEW u \in Thread, threads'[u].pc # "idle"
          PROVE  RunsOn(threads'[u], server'[threads'[u].home])
      <3>1. u # t /\ threads'[u] = threads[u] /\ threads[u].pc # "idle"
        BY <1>1, <2>5
      <3>2. threads[u].home # p /\ RunsOn(threads[u], server[threads[u].home])
        BY <2>2, <3>1 DEF ThreadsRun
      <3>3. server'[threads[u].home] = server[threads[u].home]
        BY <2>4, <3>2 DEF RunsOn
      <3>. QED BY <3>1, <3>2, <3>3
    <2>6. ThreadsRun'
      BY <2>5 DEF ThreadsRun, RunsOn
    <2>. QED BY <1>2, <2>6
  <1>. QED BY <1>4, <1>5

(* An instance that runs no goroutine may change its status. *)
LEMMA QuietServerRuns ==
  ASSUME TypeOK, ThreadsRun, OneReconciler, NEW p \in Proc, NEW s,
         server[p] \notin {"serving", "reconciling"},
         server' = [server EXCEPT ![p] = s], UNCHANGED threads
  PROVE  ThreadsRun' /\ OneReconciler'
  <1>1. OneReconciler'
    BY DEF OneReconciler
  <1>2. ASSUME NEW u \in Thread, threads[u].pc # "idle"
        PROVE  RunsOn(threads[u], server'[threads[u].home])
    <2>1. RunsOn(threads[u], server[threads[u].home])
      BY <1>2 DEF ThreadsRun
    <2>2. threads[u].home \in Proc /\ threads[u].home # p
      BY <2>1 DEF RunsOn
    <2>3. server'[threads[u].home] = server[threads[u].home]
      BY <2>2 DEF TypeOK
    <2>. QED BY <2>1, <2>3
  <1>3. ThreadsRun'
    BY <1>2 DEF ThreadsRun, RunsOn
  <1>. QED BY <1>1, <1>3

(* Replay hands an instance without goroutines to one reconciler. *)
LEMMA ReconcilerRuns ==
  ASSUME TypeOK, ThreadsRun, OneReconciler, NEW p \in Proc, server[p] = "acquired", Reconciler(p)
  PROVE  ThreadsRun' /\ OneReconciler'
  <1> DEFINE thread == [Resting EXCEPT !.pc = "reconcile", !.home = p, !.mode = "boot",
                                       !.result = LivePhase(Moves)]
  <1>1. PICK t \in Thread : Starts(t, thread)
    BY DEF Reconciler
  <1>2. /\ thread.pc = "reconcile" /\ thread.home = p /\ thread.mode = "boot"
    BY DEF Resting
  <1> HIDE DEF thread
  <1>3. \A u \in Thread : threads'[u] = IF u = t THEN thread ELSE threads[u]
    BY <1>1 DEF TypeOK, Starts
  <1>4. \A q \in Proc : server'[q] = IF q = p THEN "reconciling" ELSE server[q]
    BY DEF TypeOK, Reconciler
  <1>5. ASSUME NEW u \in Thread, threads[u].pc # "idle"
        PROVE  threads[u].home # p /\ RunsOn(threads[u], server[threads[u].home])
    BY <1>5 DEF ThreadsRun, RunsOn
  <1>6. RunsOn(thread, server'[thread.home])
    BY <1>2, <1>4 DEF RunsOn
  <1>7. ASSUME NEW u \in Thread, threads'[u].pc # "idle"
        PROVE  RunsOn(threads'[u], server'[threads'[u].home])
    <2>1. CASE u = t
      BY <1>3, <1>6, <2>1
    <2>2. CASE u # t
      <3>1. threads'[u] = threads[u] /\ threads[u].pc # "idle"
        BY <1>3, <1>7, <2>2
      <3>2. threads[u].home \in Proc /\ threads[u].home # p
        BY <1>5, <3>1 DEF RunsOn
      <3>3. server'[threads[u].home] = server[threads[u].home]
        BY <1>4, <3>2
      <3>. QED BY <1>5, <3>1, <3>3
    <2>. QED BY <2>1, <2>2
  <1>8. ThreadsRun'
    BY <1>7 DEF ThreadsRun, RunsOn
  <1>9. OneReconciler'
    <2>1. ASSUME NEW u \in Thread, threads'[u].pc # "idle", threads'[u].home = p PROVE u = t
      BY <1>3, <1>5, <2>1
    <2>. QED BY <1>2, <1>3, <2>1 DEF OneReconciler
  <1>. QED BY <1>8, <1>9

(* A crash takes the goroutines of its instance and no other. *)
LEMMA CrashRuns ==
  ASSUME TypeOK, ThreadsRun, OneReconciler, NEW p \in Proc, Crash(p)
  PROVE  ThreadsRun' /\ OneReconciler'
  <1>1. /\ \A u \in Thread : threads'[u] = IF threads[u].home = p THEN Resting ELSE threads[u]
        /\ Resting.pc = "idle"
    BY DEF Crash, Resting
  <1>2. \A q \in Proc : q # p => server'[q] = server[q]
    BY DEF Crash, TypeOK
  <1>3. ASSUME NEW u \in Thread, threads'[u].pc # "idle"
        PROVE  RunsOn(threads'[u], server'[threads'[u].home])
    <2>1. threads'[u] = threads[u] /\ threads[u].pc # "idle" /\ threads[u].home # p
      BY <1>1, <1>3
    <2>2. RunsOn(threads[u], server[threads[u].home])
      BY <2>1 DEF ThreadsRun
    <2>3. server'[threads[u].home] = server[threads[u].home]
      BY <1>2, <2>1, <2>2 DEF RunsOn
    <2>. QED BY <2>1, <2>2, <2>3
  <1>4. ThreadsRun'
    BY <1>3 DEF ThreadsRun, RunsOn
  <1>5. OneReconciler'
    BY <1>1 DEF OneReconciler
  <1>. QED BY <1>4, <1>5

(* A running goroutine reaches its next statement. *)
LEMMA MovesRuns ==
  ASSUME TypeOK, ThreadsRun, OneReconciler, NEW t \in Thread, NEW thread,
         threads' = [threads EXCEPT ![t] = thread], UNCHANGED server,
         threads[t].pc # "idle", thread.home = threads[t].home, thread.req = threads[t].req,
         thread.mode = threads[t].mode \/ (threads[t].mode = "fresh" /\ thread.mode = "historical"),
         thread.pc \in {"append", "publish"} => thread.mode = "fresh",
         thread.pc = "callback" => thread.mode \in {"fresh", "historical"},
         thread.pc \in {"advance", "advanceTx"} => thread.mode \in {"fresh", "historical", "boot"},
         thread.pc = "advanceTx" => thread.cmd.phase \in DOMAIN NextPhase,
         thread.pc \notin {"queued", "reconcile"}
  PROVE  ThreadsRun' /\ OneReconciler'
  <1>1. RunsOn(threads[t], server[threads[t].home])
    BY DEF ThreadsRun
  <1>2. RunsOn(thread, server[thread.home])
    BY <1>1 DEF RunsOn
  <1>. QED BY <1>2, BecomesRuns

(* MovesRuns for a goroutine that only changes its place. *)
LEMMA GotoRuns ==
  ASSUME TypeOK, ThreadsRun, OneReconciler, NEW t \in Thread, NEW label, Goto(t, label),
         UNCHANGED server, threads[t].pc # "idle",
         label \in {"append", "publish"} => threads[t].mode = "fresh",
         label = "advance" => threads[t].mode \in {"fresh", "historical", "boot"},
         label \notin {"queued", "callback", "advanceTx", "reconcile"}
  PROVE  ThreadsRun' /\ OneReconciler'
  <1> DEFINE thread == [threads[t] EXCEPT !.pc = label]
  <1>1. threads[t] \in Goroutines
    BY DEF TypeOK
  <1>2. /\ thread.pc = label /\ thread.home = threads[t].home /\ thread.req = threads[t].req
        /\ thread.mode = threads[t].mode
    BY <1>1 DEF Goroutines
  <1>3. threads' = [threads EXCEPT ![t] = thread]
    BY DEF Goto
  <1> HIDE DEF thread
  <1>. QED BY <1>2, <1>3, MovesRuns

(* MovesRuns for a goroutine that starts or binds a termination. *)
LEMMA BindsRuns ==
  ASSUME TypeOK, ThreadsRun, OneReconciler, NEW t \in Thread, UNCHANGED server,
         threads[t].pc # "idle",
         \/ threads' = [threads EXCEPT ![t] = [@ EXCEPT !.pc = "bind", !.cmd.reason = "no_landlord"]]
         \/ \E cmd : threads' = [threads EXCEPT ![t] = [@ EXCEPT !.pc = "terminateTx", !.cmd = cmd]]
  PROVE  ThreadsRun' /\ OneReconciler'
  <1>1. threads[t] \in Goroutines
    BY DEF TypeOK
  <1>2. CASE threads' = [threads EXCEPT ![t] = [@ EXCEPT !.pc = "bind", !.cmd.reason = "no_landlord"]]
    <2> DEFINE thread == [threads[t] EXCEPT !.pc = "bind", !.cmd.reason = "no_landlord"]
    <2>1. /\ thread.pc = "bind" /\ thread.home = threads[t].home /\ thread.req = threads[t].req
          /\ thread.mode = threads[t].mode
      BY <1>1 DEF Goroutines
    <2>2. threads' = [threads EXCEPT ![t] = thread]
      BY <1>2
    <2> HIDE DEF thread
    <2>. QED BY <2>1, <2>2, MovesRuns
  <1>3. ASSUME NEW cmd,
               threads' = [threads EXCEPT ![t] = [@ EXCEPT !.pc = "terminateTx", !.cmd = cmd]]
        PROVE  ThreadsRun' /\ OneReconciler'
    <2> DEFINE thread == [threads[t] EXCEPT !.pc = "terminateTx", !.cmd = cmd]
    <2>1. /\ thread.pc = "terminateTx" /\ thread.home = threads[t].home
          /\ thread.req = threads[t].req /\ thread.mode = threads[t].mode
      BY <1>1 DEF Goroutines
    <2>2. threads' = [threads EXCEPT ![t] = thread]
      BY <1>3
    <2> HIDE DEF thread
    <2>. QED BY <2>1, <2>2, MovesRuns
  <1>. QED BY <1>2, <1>3

(* Every step of a goroutine keeps it running where it may. *)
LEMMA ThreadRuns ==
  ASSUME TypeOK, ThreadsRun, OneReconciler, Undealt, NEW t \in Thread, ThreadNext(t)
  PROVE  ThreadsRun' /\ OneReconciler'
  <1>1. threads[t].pc # "idle" /\ threads[t] \in Goroutines
    BY DEF TypeOK, ThreadNext, Enter, AppendCommits, AppendRefused, AppendAmbiguous, Publish,
       Callback, AdvanceLoad, AdvanceCommits, AdvanceFails, Bind, TerminateCommits,
       TerminateYields, TerminateFails, Finalize, Reconcile
  <1>2. RunsOn(threads[t], server[threads[t].home])
    BY <1>1 DEF ThreadsRun
  <1>3. CASE Enter(t)
    <2>1. threads[t].mode = "fresh"
      BY <1>2, <1>3 DEF Enter, RunsOn
    <2>2. CASE Goto(t, "append") /\ UNCHANGED <<server, acked>>
      BY <1>1, <2>1, <2>2, GotoRuns
    <2>3. ASSUME NEW result, UNCHANGED server,
                 threads' = [threads EXCEPT ![t] =
                    [@ EXCEPT !.pc = "callback", !.mode = "historical", !.result = result]]
          PROVE  ThreadsRun' /\ OneReconciler'
      <3> DEFINE thread == [threads[t] EXCEPT !.pc = "callback", !.mode = "historical",
                                              !.result = result]
      <3>1. /\ thread.pc = "callback" /\ thread.home = threads[t].home
            /\ thread.req = threads[t].req /\ thread.mode = "historical"
        BY <1>1 DEF Goroutines
      <3>2. threads' = [threads EXCEPT ![t] = thread]
        BY <2>3
      <3> HIDE DEF thread
      <3>. QED BY <1>1, <2>1, <2>3, <3>1, <3>2, MovesRuns
    <2>. QED BY <1>1, <1>3, <2>2, <2>3, RestsRuns DEF Enter
  <1>4. CASE AppendCommits(t)
    <2>1. threads[t].mode = "fresh" /\ UNCHANGED server /\ Goto(t, "publish")
      BY <1>2, <1>4 DEF AppendCommits, RunsOn
    <2>. QED BY <1>1, <2>1, GotoRuns
  <1>5. CASE AppendRefused(t) \/ AppendAmbiguous(t) \/ TerminateYields(t) \/ TerminateFails(t)
             \/ AdvanceFails(t)
    <2>1. Fail(t)
      BY <1>5, Zenon DEF AppendRefused, AppendAmbiguous, TerminateYields, TerminateFails, AdvanceFails
    <2>. QED BY <1>1, <2>1, RestsRuns
  <1>6. CASE Publish(t)
    <2>1. threads[t].mode = "fresh"
      BY <1>2, <1>6 DEF Publish, RunsOn
    <2>2. ASSUME NEW result, UNCHANGED server,
                 threads' = [threads EXCEPT ![t] = [@ EXCEPT !.pc = "callback", !.result = result]]
          PROVE  ThreadsRun' /\ OneReconciler'
      <3> DEFINE thread == [threads[t] EXCEPT !.pc = "callback", !.result = result]
      <3>1. /\ thread.pc = "callback" /\ thread.home = threads[t].home
            /\ thread.req = threads[t].req /\ thread.mode = "fresh"
        BY <1>1, <2>1 DEF Goroutines
      <3>2. threads' = [threads EXCEPT ![t] = thread]
        BY <2>2
      <3> HIDE DEF thread
      <3>. QED BY <1>1, <2>1, <2>2, <3>1, <3>2, MovesRuns
    <2>3. \/ Fail(t)
          \/ \E result : /\ UNCHANGED server
                         /\ threads' = [threads EXCEPT ![t] =
                                          [@ EXCEPT !.pc = "callback", !.result = result]]
      BY <1>6, Zenon DEF Publish
    <2>. QED BY <1>1, <2>2, <2>3, RestsRuns
  <1>7. CASE Callback(t)
    <2>1. threads[t].mode \in {"fresh", "historical"}
      BY <1>2, <1>7 DEF Callback, RunsOn
    <2>2. CASE Goto(t, "advance") /\ UNCHANGED <<server, acked>>
      BY <1>1, <2>1, <2>2, GotoRuns
    <2>. QED BY <1>1, <1>7, <2>2, RestsRuns, BindsRuns DEF Callback
  <1>8. CASE AdvanceLoad(t)
    <2>1. threads[t].mode \in {"fresh", "historical", "boot"} /\ threads[t].mode # "cancel"
      BY <1>2, <1>8 DEF AdvanceLoad, RunsOn
    <2>2. handPhase # "DEALING"
      BY <1>1, <2>1 DEF Undealt
    <2>3. CASE /\ Advances(threads[t]) /\ UNCHANGED server
               /\ threads' = [threads EXCEPT ![t] =
                    [@ EXCEPT !.pc = "advanceTx", !.cmd = CommandOf("advance", handPhase, 0)]]
      <3> DEFINE thread == [threads[t] EXCEPT !.pc = "advanceTx",
                                              !.cmd = CommandOf("advance", handPhase, 0)]
      <3>1. handPhase \in DOMAIN NextPhase
        BY <2>2, <2>3 DEF Advances, Terminal, NextPhase, TypeOK, HandPhases
      <3>2. /\ thread.pc = "advanceTx" /\ thread.home = threads[t].home
            /\ thread.req = threads[t].req /\ thread.mode = threads[t].mode
            /\ thread.cmd.phase \in DOMAIN NextPhase
        BY <1>1, <3>1 DEF Goroutines, CommandOf
      <3>3. threads' = [threads EXCEPT ![t] = thread]
        BY <2>3
      <3> HIDE DEF thread
      <3>. QED BY <1>1, <2>1, <2>3, <3>2, <3>3, MovesRuns
    <2>4. Done(t) \/ (/\ Advances(threads[t]) /\ UNCHANGED server
                      /\ threads' = [threads EXCEPT ![t] =
                           [@ EXCEPT !.pc = "advanceTx", !.cmd = CommandOf("advance", handPhase, 0)]])
      BY <1>8, Zenon DEF AdvanceLoad
    <2>. QED BY <1>1, <2>3, <2>4, RestsRuns
  <1>9. CASE AdvanceCommits(t)
    <2>1. threads[t].mode \in {"fresh", "historical", "boot"}
      BY <1>2, <1>9 DEF AdvanceCommits, RunsOn
    <2>. QED BY <1>1, <1>9, <2>1, RestsRuns, GotoRuns DEF AdvanceCommits
  <1>10. CASE Bind(t)
    <2>1. \/ Fail(t) \/ Done(t)
          \/ /\ UNCHANGED server
             /\ \E cmd : threads' = [threads EXCEPT ![t] = [@ EXCEPT !.pc = "terminateTx", !.cmd = cmd]]
      BY <1>10, Zenon DEF Bind
    <2>. QED BY <1>1, <2>1, RestsRuns, BindsRuns
  <1>11. CASE TerminateCommits(t)
    <2>1. Goto(t, "finalize") /\ UNCHANGED server
      BY <1>11 DEF TerminateCommits
    <2>. QED BY <1>1, <2>1, GotoRuns
  <1>12. CASE Finalize(t)
    <2>1. Fail(t) \/ Done(t)
      BY <1>12, Zenon DEF Finalize
    <2>. QED BY <1>1, <2>1, RestsRuns
  <1>13. CASE Reconcile(t)
    <2>1. threads[t].mode = "boot"
      BY <1>2, <1>13 DEF Reconcile, RunsOn
    <2>2. CASE Goto(t, "advance") /\ UNCHANGED server
      BY <1>1, <2>1, <2>2, GotoRuns
    <2>3. \/ Fail(t) \/ Done(t)
          \/ Goto(t, "advance") /\ UNCHANGED server
          \/ /\ UNCHANGED server
             /\ threads' = [threads EXCEPT ![t] =
                              [@ EXCEPT !.pc = "bind", !.cmd.reason = "no_landlord"]]
      BY <1>13, Zenon DEF Reconcile
    <2>. QED BY <1>1, <2>2, <2>3, RestsRuns, BindsRuns
  <1>. QED BY <1>3, <1>4, <1>5, <1>6, <1>7, <1>8, <1>9, <1>10, <1>11, <1>12, <1>13 DEF ThreadNext

(* Every step of the program keeps goroutines where they may run. *)
LEMMA RunsStep ==
  ASSUME TypeOK, ThreadsRun, OneReconciler, Undealt, [Next]_vars
  PROVE  ThreadsRun' /\ OneReconciler'
  <1>1. ASSUME NEW p \in Proc, ProcNext(p) PROVE ThreadsRun' /\ OneReconciler'
    <2>1. CASE \/ DealStart(p) \/ DealCommit(p) \/ DealError(p) \/ RollbackStart(p) \/ Evict(p)
      <3>1. UNCHANGED <<threads, server>>
        BY <2>1, Zenon DEF DealStart, DealCommit, DealError, RollbackStart, Evict
      <3>. QED BY <3>1, UntouchedRuns
    <2>2. CASE BootLoad(p) \/ BootAcquire(p)
      <3>1. \E s : server' = [server EXCEPT ![p] = s]
        BY <2>2, Zenon DEF BootLoad, BootAcquire
      <3>2. server[p] \notin {"serving", "reconciling"} /\ UNCHANGED threads
        BY <2>2 DEF BootLoad, BootAcquire
      <3>. QED BY <3>1, <3>2, QuietServerRuns
    <2>3. CASE BootReplay(p)
      <3>1. server[p] = "acquired"
        BY <2>3 DEF BootReplay
      <3>2. Reconciler(p) \/ (UNCHANGED threads /\ \E s : server' = [server EXCEPT ![p] = s])
        BY <2>3, Zenon DEF BootReplay
      <3>. QED BY <3>1, <3>2, QuietServerRuns, ReconcilerRuns
    <2>. QED BY <1>1, <2>1, <2>2, <2>3, CrashRuns DEF ProcNext
  <1>2. ASSUME NEW t \in Thread, NEW p \in Proc, StartNext(t, p) PROVE ThreadsRun' /\ OneReconciler'
    <2>1. UNCHANGED server /\ server[p] = "serving"
      BY <1>2, Zenon DEF StartNext, Cancel, Sweep, SubmitLive
    <2>2. ASSUME NEW thread, Starts(t, thread), thread.home = p,
                 \/ thread.mode \in {"cancel", "sweep"} /\ thread.pc = "bind"
                 \/ thread.mode = "historical" /\ thread.pc = "callback" /\ thread.req \in Requests
                 \/ thread.mode = "fresh" /\ thread.pc = "queued" /\ thread.req \in Requests
          PROVE  ThreadsRun' /\ OneReconciler'
      <3>1. RunsOn(thread, server[thread.home]) /\ thread.mode # "boot"
        BY <2>1, <2>2 DEF RunsOn
      <3>. QED BY <2>1, <2>2, <3>1, StartsRuns
    <2>3. CASE Cancel(t, p)
      <3> DEFINE thread == [Resting EXCEPT !.pc = "bind", !.home = p, !.mode = "cancel",
                                           !.cmd.reason = "participant_cancelled"]
      <3>1. thread.home = p /\ thread.mode = "cancel" /\ thread.pc = "bind"
        BY DEF Resting
      <3>2. Starts(t, thread)
        BY <2>3 DEF Cancel
      <3> HIDE DEF thread
      <3>. QED BY <2>2, <3>1, <3>2
    <2>4. CASE Sweep(t, p)
      <3> DEFINE thread == [Resting EXCEPT !.pc = "bind", !.home = p, !.mode = "sweep",
                              !.cmd.reason = "timeout", !.cmd.live = Len(games[p]) + 1]
      <3>1. thread.home = p /\ thread.mode = "sweep" /\ thread.pc = "bind"
        BY DEF Resting
      <3>2. Starts(t, thread)
        BY <2>4 DEF Sweep
      <3> HIDE DEF thread
      <3>. QED BY <2>2, <3>1, <3>2
    <2>5. ASSUME NEW r \in Requests, SubmitLive(t, p, r) PROVE ThreadsRun' /\ OneReconciler'
      <3>1. ASSUME NEW result
            PROVE  LET thread == [Resting EXCEPT !.pc = "callback", !.home = p, !.req = r,
                                                 !.mode = "historical", !.result = result]
                   IN  /\ thread.home = p /\ thread.mode = "historical"
                       /\ thread.pc = "callback" /\ thread.req = r
        BY DEF Resting
      <3>2. LET thread == [Resting EXCEPT !.pc = "queued", !.home = p, !.req = r]
            IN  /\ thread.home = p /\ thread.mode = "fresh"
                /\ thread.pc = "queued" /\ thread.req = r
        BY DEF Resting
      <3>3. \/ \E result : Starts(t, [Resting EXCEPT !.pc = "callback", !.home = p, !.req = r,
                                                     !.mode = "historical", !.result = result])
            \/ Starts(t, [Resting EXCEPT !.pc = "queued", !.home = p, !.req = r])
        BY <2>5, Zenon DEF SubmitLive
      <3>4. ASSUME NEW result,
                   Starts(t, [Resting EXCEPT !.pc = "callback", !.home = p, !.req = r,
                                             !.mode = "historical", !.result = result])
            PROVE  ThreadsRun' /\ OneReconciler'
        <4> DEFINE thread == [Resting EXCEPT !.pc = "callback", !.home = p, !.req = r,
                                             !.mode = "historical", !.result = result]
        <4>1. Starts(t, thread) /\ thread.home = p
              /\ thread.mode = "historical" /\ thread.pc = "callback" /\ thread.req \in Requests
          BY <3>1, <3>4
        <4> HIDE DEF thread
        <4>. QED BY <2>2, <4>1
      <3>5. ASSUME Starts(t, [Resting EXCEPT !.pc = "queued", !.home = p, !.req = r])
            PROVE  ThreadsRun' /\ OneReconciler'
        <4> DEFINE thread == [Resting EXCEPT !.pc = "queued", !.home = p, !.req = r]
        <4>1. Starts(t, thread) /\ thread.home = p
              /\ thread.mode = "fresh" /\ thread.pc = "queued" /\ thread.req \in Requests
          BY <3>2, <3>5
        <4> HIDE DEF thread
        <4>. QED BY <2>2, <4>1
      <3>. QED BY <3>3, <3>4, <3>5, Zenon
    <2>. QED BY <1>2, <2>3, <2>4, <2>5 DEF StartNext
  <1>3. CASE UNCHANGED vars
    BY <1>3, UntouchedRuns DEF vars
  <1>. QED BY <1>1, <1>2, <1>3, ThreadRuns DEF Next

-----------------------------------------------------------------------------
(* The command stripe: one holder per instance, and the game it saw. *)

(* Who holds the stripe after the step held it before, over the same game. *)
HoldersKept ==
  \A u \in Thread : Holds(u)' =>
    /\ Holds(u) /\ threads'[u].home = threads[u].home /\ threads'[u].req = threads[u].req
    /\ games'[threads[u].home] = games[threads[u].home]

(* Holders that keep their game keep the stripe exclusive and the request next. *)
LEMMA HoldersKeptStep == ASSUME StripeExclusive, NextInGame, HoldersKept
                         PROVE  StripeExclusive' /\ NextInGame'
  BY DEF StripeExclusive, NextInGame, HoldersKept, Holds

(* A goroutine that leaves the stripe, or never took it, changes nothing. *)
LEMMA LeavesStripe ==
  ASSUME TypeOK, NEW t \in Thread, NEW thread, threads' = [threads EXCEPT ![t] = thread],
         thread.pc \notin {"append", "publish"},
         \A u \in Thread : u # t /\ Holds(u) => games'[threads[u].home] = games[threads[u].home]
  PROVE  HoldersKept
  <1>1. \A u \in Thread : threads'[u] = IF u = t THEN thread ELSE threads[u]
    BY DEF TypeOK
  <1>. QED BY <1>1 DEF HoldersKept, Holds

(* A game changes only where no goroutine holds the stripe. *)
LEMMA FreeStripe ==
  ASSUME TypeOK, ThreadsRun, NEW p \in Proc, StripeFree(p), NEW g,
         games' = [games EXCEPT ![p] = g] \/ UNCHANGED games
  PROVE  \A u \in Thread : Holds(u) => games'[threads[u].home] = games[threads[u].home]
  <1> SUFFICES ASSUME NEW u \in Thread, Holds(u)
               PROVE  games'[threads[u].home] = games[threads[u].home]
    OBVIOUS
  <1>1. threads[u].home \in Proc /\ threads[u].home # p
    BY DEF Holds, StripeFree, ThreadsRun, RunsOn
  <1>. QED BY <1>1 DEF TypeOK

(* No goroutine moves and no held game changes. *)
LEMMA UntouchedHolders ==
  ASSUME TypeOK, UNCHANGED threads,
         \A u \in Thread : Holds(u) => games'[threads[u].home] = games[threads[u].home]
  PROVE  HoldersKept
  BY DEF HoldersKept, Holds

(* Deals, recovery and crashes change no game under a held stripe. *)
LEMMA ProcHolders ==
  ASSUME TypeOK, ThreadsRun, NEW p \in Proc, ProcNext(p)
  PROVE  HoldersKept
  <1>1. CASE \/ DealStart(p) \/ DealCommit(p) \/ DealError(p) \/ Evict(p) \/ BootLoad(p)
             \/ BootAcquire(p)
    <2>1. UNCHANGED <<threads, games>>
      BY <1>1, Zenon DEF DealStart, DealCommit, DealError, Evict, BootLoad, BootAcquire, runtime
    <2>. QED BY <2>1, UntouchedHolders
  <1>2. CASE RollbackStart(p)
    <2>1. StripeFree(p) /\ UNCHANGED threads
      BY <1>2 DEF RollbackStart
    <2>2. games' = [games EXCEPT ![p] = <<>>] \/ UNCHANGED games
      BY <1>2, Zenon DEF RollbackStart
    <2>. QED BY <2>1, <2>2, FreeStripe, UntouchedHolders
  <1>3. CASE BootReplay(p)
    <2>1. StripeFree(p)
      BY <1>3 DEF BootReplay, StripeFree, ThreadsRun, RunsOn
    <2>2. games' = [games EXCEPT ![p] = Moves] \/ UNCHANGED games
      BY <1>3, Zenon DEF BootReplay, runtime
    <2>3. UNCHANGED threads \/ Reconciler(p)
      BY <1>3, Zenon DEF BootReplay
    <2>4. \A u \in Thread : Holds(u) => games'[threads[u].home] = games[threads[u].home]
      BY <2>1, <2>2, FreeStripe
    <2>5. CASE Reconciler(p)
      <3> DEFINE thread == [Resting EXCEPT !.pc = "reconcile", !.home = p, !.mode = "boot",
                                           !.result = LivePhase(Moves)]
      <3>1. PICK t \in Thread : Starts(t, thread)
        BY <2>5 DEF Reconciler
      <3>2. thread.pc = "reconcile"
        BY DEF Resting
      <3> HIDE DEF thread
      <3>3. threads' = [threads EXCEPT ![t] = thread]
        BY <3>1 DEF Starts
      <3>. QED BY <2>4, <3>2, <3>3, LeavesStripe
    <2>. QED BY <2>3, <2>4, <2>5, UntouchedHolders
  <1>4. CASE Crash(p)
    <2>1. \A u \in Thread : threads'[u] = IF threads[u].home = p THEN Resting ELSE threads[u]
      BY <1>4 DEF Crash
    <2>2. \A q \in Proc : q # p => games'[q] = games[q]
      BY <1>4 DEF Crash, Retire, TypeOK
    <2>3. ASSUME NEW u \in Thread, Holds(u)' PROVE threads[u].home # p
      BY <2>1, <2>3 DEF Holds, Resting
    <2>4. ASSUME NEW u \in Thread, Holds(u)' PROVE Holds(u) /\ threads[u].home \in Proc
      BY <2>1, <2>3, <2>4 DEF Holds, ThreadsRun, RunsOn
    <2>. QED BY <2>1, <2>2, <2>3, <2>4 DEF HoldersKept
  <1>. QED BY <1>1, <1>2, <1>3, <1>4 DEF ProcNext

(* A goroutine starts outside the stripe. *)
LEMMA StartHolders ==
  ASSUME TypeOK, NEW t \in Thread, NEW p \in Proc, StartNext(t, p)
  PROVE  HoldersKept
  <1>1. UNCHANGED games
    BY Zenon DEF StartNext, Cancel, Sweep, SubmitLive, runtime
  <1>2. ASSUME NEW thread, threads' = [threads EXCEPT ![t] = thread],
               thread.pc \notin {"append", "publish"}
        PROVE  HoldersKept
    BY <1>1, <1>2, LeavesStripe
  <1>3. CASE Cancel(t, p)
    <2>1. [Resting EXCEPT !.pc = "bind", !.home = p, !.mode = "cancel",
                          !.cmd.reason = "participant_cancelled"].pc = "bind"
      BY DEF Resting
    <2>. QED BY <1>2, <1>3, <2>1 DEF Cancel, Starts
  <1>4. CASE Sweep(t, p)
    <2>1. [Resting EXCEPT !.pc = "bind", !.home = p, !.mode = "sweep",
                          !.cmd.reason = "timeout", !.cmd.live = Len(games[p]) + 1].pc = "bind"
      BY DEF Resting
    <2>. QED BY <1>2, <1>4, <2>1 DEF Sweep, Starts
  <1>5. ASSUME NEW r \in Requests, SubmitLive(t, p, r) PROVE HoldersKept
    <2>1. ASSUME NEW result,
                 Starts(t, [Resting EXCEPT !.pc = "callback", !.home = p, !.req = r,
                                           !.mode = "historical", !.result = result])
          PROVE  HoldersKept
      <3>1. [Resting EXCEPT !.pc = "callback", !.home = p, !.req = r,
                            !.mode = "historical", !.result = result].pc = "callback"
        BY DEF Resting
      <3>. QED BY <1>2, <2>1, <3>1 DEF Starts
    <2>2. CASE Starts(t, [Resting EXCEPT !.pc = "queued", !.home = p, !.req = r])
      <3>1. [Resting EXCEPT !.pc = "queued", !.home = p, !.req = r].pc = "queued"
        BY DEF Resting
      <3>. QED BY <1>2, <2>2, <3>1 DEF Starts
    <2>. QED BY <1>5, <2>1, <2>2, Zenon DEF SubmitLive
  <1>. QED BY <1>3, <1>4, <1>5 DEF StartNext

(* Enter takes the free stripe over the game it has just checked. *)
LEMMA EnterHolders ==
  ASSUME TypeOK, ThreadsRun, StripeExclusive, NextInGame, NEW t \in Thread, Enter(t)
  PROVE  StripeExclusive' /\ NextInGame'
  <1> DEFINE p == threads[t].home  r == threads[t].req
  <1>1. threads[t] \in Goroutines /\ UNCHANGED games /\ StripeFree(p)
    BY DEF TypeOK, Enter, runtime
  <1>2. CASE Playable(p, r) /\ Goto(t, "append")
    <2>1. r.expected = Len(games[p]) + 1
      BY <1>2 DEF Playable, Legal
    <2>2. \A u \in Thread : threads'[u] = IF u = t THEN [threads[t] EXCEPT !.pc = "append"]
                                          ELSE threads[u]
      BY <1>2 DEF TypeOK, Goto
    <2>3. /\ [threads[t] EXCEPT !.pc = "append"].home = p
          /\ [threads[t] EXCEPT !.pc = "append"].req = r
      BY <1>1 DEF Goroutines
    <2>4. ASSUME NEW u \in Thread, u # t, Holds(u)'
          PROVE  threads'[u] = threads[u] /\ Holds(u) /\ threads[u].home # p
      <3>1. threads'[u] = threads[u]
        BY <2>2, <2>4
      <3>2. Holds(u)
        BY <2>4, <3>1 DEF Holds
      <3>. QED BY <1>1, <3>1, <3>2 DEF Holds, StripeFree
    <2>5. ASSUME NEW u \in Thread, NEW v \in Thread, Holds(u)', Holds(v)',
                 threads'[u].home = threads'[v].home
          PROVE  u = v
      <3>0. threads'[t].home = p
        BY <2>2, <2>3
      <3>1. CASE u = t /\ v # t
        <4>1. threads'[v] = threads[v] /\ threads[v].home # p
          BY <2>4, <2>5, <3>1
        <4>. QED BY <2>5, <3>0, <3>1, <4>1
      <3>2. CASE v = t /\ u # t
        <4>1. threads'[u] = threads[u] /\ threads[u].home # p
          BY <2>4, <2>5, <3>2
        <4>. QED BY <2>5, <3>0, <3>2, <4>1
      <3>3. CASE u # t /\ v # t
        BY <2>4, <2>5, <3>3 DEF StripeExclusive
      <3>. QED BY <3>1, <3>2, <3>3
    <2>6. StripeExclusive'
      BY <2>5 DEF StripeExclusive, Holds
    <2>7. ASSUME NEW u \in Thread, Holds(u)'
          PROVE  threads'[u].req.expected = Len(games'[threads'[u].home]) + 1
      <3>1. CASE u = t
        BY <1>1, <2>1, <2>2, <2>3, <3>1
      <3>2. CASE u # t
        BY <1>1, <2>4, <2>7, <3>2 DEF NextInGame
      <3>. QED BY <3>1, <3>2
    <2>8. NextInGame'
      BY <2>7 DEF NextInGame, Holds
    <2>. QED BY <2>6, <2>8
  <1>3. CASE \E x \in Replays(p, r) :
               threads' = [threads EXCEPT ![t] =
                  [@ EXCEPT !.pc = "callback", !.mode = "historical", !.result = x.phase]]
    <2>1. \A x : [threads[t] EXCEPT !.pc = "callback", !.mode = "historical",
                                    !.result = x.phase].pc = "callback"
      BY <1>1 DEF Goroutines
    <2>2. HoldersKept
      BY <1>1, <1>3, <2>1, LeavesStripe
    <2>. QED BY <2>2, HoldersKeptStep
  <1>4. CASE Fail(t)
    <2>1. threads' = [threads EXCEPT ![t] = Resting] /\ Resting.pc = "idle"
      BY <1>4 DEF Fail, Resting
    <2>2. HoldersKept
      BY <1>1, <2>1, LeavesStripe
    <2>. QED BY <2>2, HoldersKeptStep
  <1>. QED BY <1>2, <1>3, <1>4, Zenon DEF Enter

(* Publishing changes the game of the stripe it leaves. *)
LEMMA PublishHolders ==
  ASSUME TypeOK, ThreadsRun, StripeExclusive, NEW t \in Thread, Publish(t)
  PROVE  HoldersKept
  <1> DEFINE p == threads[t].home
  <1>1. threads[t] \in Goroutines /\ p \in Proc /\ Holds(t)
    BY RunningType DEF Publish, Holds
  <1>2. \E g : games' = [games EXCEPT ![p] = g]
    BY Zenon DEF Publish, Retire
  <1>3. ASSUME NEW u \in Thread, u # t, Holds(u)
        PROVE  games'[threads[u].home] = games[threads[u].home]
    <2>1. threads[u].home # p /\ threads[u].home \in Proc
      BY <1>1, <1>3 DEF StripeExclusive, Holds, ThreadsRun, RunsOn
    <2>. QED BY <1>2, <2>1 DEF TypeOK
  <1>4. \E thread : threads' = [threads EXCEPT ![t] = thread]
                    /\ thread.pc \notin {"append", "publish"}
    <2>1. \A result : [threads[t] EXCEPT !.pc = "callback", !.result = result].pc = "callback"
      BY <1>1 DEF Goroutines
    <2>2. Resting.pc = "idle"
      BY DEF Resting
    <2>3. \/ threads' = [threads EXCEPT ![t] = Resting]
          \/ \E result : threads' = [threads EXCEPT ![t] =
                                       [@ EXCEPT !.pc = "callback", !.result = result]]
      BY Zenon DEF Publish, Fail
    <2>. QED BY <2>1, <2>2, <2>3
  <1>. QED BY <1>3, <1>4, LeavesStripe

(* Every step of a goroutine keeps the stripe exclusive. *)
LEMMA ThreadHolders ==
  ASSUME TypeOK, ThreadsRun, StripeExclusive, NextInGame, NEW t \in Thread, ThreadNext(t)
  PROVE  StripeExclusive' /\ NextInGame'
  <1>0. threads[t] \in Goroutines
    BY DEF TypeOK
  <1>1. CASE AppendCommits(t)
    <2>1. /\ Holds(t) /\ threads'[t] = [threads[t] EXCEPT !.pc = "publish"]
          /\ \A u \in Thread : u # t => threads'[u] = threads[u]
          /\ UNCHANGED games
      BY <1>1 DEF AppendCommits, Goto, Holds, TypeOK, runtime
    <2>2. threads'[t].home = threads[t].home /\ threads'[t].req = threads[t].req
      BY <1>0, <2>1 DEF Goroutines
    <2>3. HoldersKept
      BY <2>1, <2>2 DEF HoldersKept, Holds
    <2>. QED BY <2>3, HoldersKeptStep
  <1>2. CASE \/ AppendRefused(t) \/ AppendAmbiguous(t) \/ Callback(t) \/ AdvanceLoad(t)
             \/ AdvanceCommits(t) \/ AdvanceFails(t) \/ Bind(t) \/ TerminateCommits(t)
             \/ TerminateYields(t) \/ TerminateFails(t) \/ Reconcile(t)
    <2>1. UNCHANGED games
      BY <1>2, Zenon DEF AppendRefused, AppendAmbiguous, Callback, AdvanceLoad, AdvanceCommits,
         AdvanceFails, Bind, TerminateCommits, TerminateYields, TerminateFails, Reconcile, runtime
    <2>2. \/ threads' = [threads EXCEPT ![t] = Resting]
          \/ Goto(t, "advance") \/ Goto(t, "finalize")
          \/ threads' = [threads EXCEPT ![t] = [@ EXCEPT !.pc = "bind", !.cmd.reason = "no_landlord"]]
          \/ \E cmd : threads' = [threads EXCEPT ![t] = [@ EXCEPT !.pc = "advanceTx", !.cmd = cmd]]
          \/ \E cmd : threads' = [threads EXCEPT ![t] = [@ EXCEPT !.pc = "terminateTx", !.cmd = cmd]]
      BY <1>2, Zenon DEF AppendRefused, AppendAmbiguous, Callback, AdvanceLoad, AdvanceCommits,
         AdvanceFails, Bind, TerminateCommits, TerminateYields, TerminateFails, Reconcile, Fail, Done
    <2>3. /\ Resting.pc = "idle"
          /\ [threads[t] EXCEPT !.pc = "advance"].pc = "advance"
          /\ [threads[t] EXCEPT !.pc = "finalize"].pc = "finalize"
          /\ [threads[t] EXCEPT !.pc = "bind", !.cmd.reason = "no_landlord"].pc = "bind"
          /\ \A cmd : [threads[t] EXCEPT !.pc = "advanceTx", !.cmd = cmd].pc = "advanceTx"
          /\ \A cmd : [threads[t] EXCEPT !.pc = "terminateTx", !.cmd = cmd].pc = "terminateTx"
      BY <1>0 DEF Goroutines, Resting
    <2>4. \E thread : threads' = [threads EXCEPT ![t] = thread]
                      /\ thread.pc \notin {"append", "publish"}
      <3>1. CASE threads' = [threads EXCEPT ![t] = Resting]
        BY <2>3, <3>1
      <3>2. CASE Goto(t, "advance") \/ Goto(t, "finalize")
        BY <2>3, <3>2 DEF Goto
      <3>3. CASE threads' = [threads EXCEPT ![t] = [@ EXCEPT !.pc = "bind", !.cmd.reason = "no_landlord"]]
        BY <2>3, <3>3
      <3>4. ASSUME NEW cmd, threads' = [threads EXCEPT ![t] = [@ EXCEPT !.pc = "advanceTx", !.cmd = cmd]]
            PROVE  \E thread : threads' = [threads EXCEPT ![t] = thread]
                               /\ thread.pc \notin {"append", "publish"}
        BY <2>3, <3>4
      <3>5. ASSUME NEW cmd, threads' = [threads EXCEPT ![t] = [@ EXCEPT !.pc = "terminateTx", !.cmd = cmd]]
            PROVE  \E thread : threads' = [threads EXCEPT ![t] = thread]
                               /\ thread.pc \notin {"append", "publish"}
        BY <2>3, <3>5
      <3>. QED BY <2>2, <3>1, <3>2, <3>3, <3>4, <3>5, Zenon
    <2>5. HoldersKept
      BY <2>1, <2>4, LeavesStripe
    <2>. QED BY <2>5, HoldersKeptStep
  <1>3. CASE Finalize(t)
    <2> DEFINE p == threads[t].home
    <2>1. p \in Proc /\ StripeFree(p)
      BY <1>3, RunningType DEF Finalize
    <2>2. games' = [games EXCEPT ![p] = <<>>] \/ UNCHANGED games
      BY <1>3, Zenon DEF Finalize, Retire
    <2>3. threads' = [threads EXCEPT ![t] = Resting]
      BY <1>3, Zenon DEF Finalize, Fail, Done
    <2>4. \A u \in Thread : Holds(u) => games'[threads[u].home] = games[threads[u].home]
      BY <2>1, <2>2, FreeStripe
    <2>5. Resting.pc = "idle"
      BY DEF Resting
    <2>6. HoldersKept
      BY <2>3, <2>4, <2>5, LeavesStripe
    <2>. QED BY <2>6, HoldersKeptStep
  <1>4. CASE Publish(t)
    BY <1>4, PublishHolders, HoldersKeptStep
  <1>. QED BY <1>1, <1>2, <1>3, <1>4, EnterHolders DEF ThreadNext

(* Every step of the program keeps the stripe exclusive and its request next. *)
LEMMA StripeStep ==
  ASSUME TypeOK, ThreadsRun, StripeExclusive, NextInGame, [Next]_vars
  PROVE  StripeExclusive' /\ NextInGame'
  <1>1. CASE UNCHANGED vars
    BY <1>1, UntouchedHolders, HoldersKeptStep DEF vars, runtime
  <1>. QED BY <1>1, ProcHolders, StartHolders, ThreadHolders, HoldersKeptStep DEF Next

-----------------------------------------------------------------------------
(* Answers, receipts and games hold only what the journal holds. *)

Answers(thread) == /\ thread.pc \notin {"idle", "queued", "append"}
                   /\ thread.mode \in {"fresh", "historical"}

Committed(g) == /\ Len(g) <= Len(actions)
                /\ \A i \in 1..Len(g) : g[i] = actions[i].req

(* The same, of the journal after the step. *)
LoggedAfter(r) == r.expected \in 1..Len(actions') /\ actions'[r.expected].req = r
CommittedAfter(g) == /\ Len(g) <= Len(actions')
                     /\ \A i \in 1..Len(g) : g[i] = actions'[i].req

AnswersKept ==
  \A u \in Thread : Answers(threads'[u]) =>
    \/ Answers(threads[u]) /\ threads'[u].req = threads[u].req
    \/ LoggedAfter(threads'[u].req)

ReceiptsKept == \A q \in Proc : \A x \in receipts'[q] : x \in receipts[q] \/ LoggedAfter(x.req)

GamesKept == \A q \in Proc : games'[q] = games[q] \/ games'[q] = <<>> \/ CommittedAfter(games'[q])

AckedKept == \A r \in acked' : r \in acked \/ LoggedAfter(r)

(* Holding only what was held or is now in the journal keeps the four invariants. *)
LEMMA KeptLogged ==
  ASSUME TypeOK, TypeOK', Grows, AnswersLogged, ReceiptsLogged, PublishedIsCommitted, AckedDurable
  PROVE  /\ AnswersKept => AnswersLogged'
         /\ ReceiptsKept => ReceiptsLogged'
         /\ GamesKept => PublishedIsCommitted'
         /\ AckedKept => AckedDurable'
  <1>1. \A r : Logged(r) => LoggedAfter(r)
    BY GrowsKeepsLogged DEF Logged, LoggedAfter
  <1>2. AnswersKept => AnswersLogged'
    <2> SUFFICES ASSUME AnswersKept, NEW u \in Thread, Answers(threads'[u])
                 PROVE  LoggedAfter(threads'[u].req)
      BY DEF AnswersLogged, Answers, Logged, LoggedAfter
    <2>1. CASE Answers(threads[u]) /\ threads'[u].req = threads[u].req
      <3>1. Logged(threads[u].req)
        BY <2>1 DEF AnswersLogged, Answers
      <3>. QED BY <1>1, <2>1, <3>1
    <2>. QED BY <2>1 DEF AnswersKept
  <1>3. ReceiptsKept => ReceiptsLogged'
    BY <1>1 DEF ReceiptsKept, ReceiptsLogged, Logged, LoggedAfter
  <1>4. GamesKept => PublishedIsCommitted'
    <2> SUFFICES ASSUME GamesKept, NEW q \in Proc PROVE CommittedAfter(games'[q])
      BY DEF PublishedIsCommitted, CommittedAfter
    <2>1. games[q] \in Seq(Requests) /\ Len(games[q]) \in Nat
      BY DEF TypeOK
    <2>2. Committed(games[q])
      BY DEF PublishedIsCommitted, Committed
    <2>3. Len(actions) \in Nat /\ Len(actions') \in Nat
      <3>1. actions \in Seq([req : Requests, epoch : Nat])
        BY DEF TypeOK
      <3>2. actions' \in Seq([req : Requests, epoch : Nat])
        BY DEF TypeOK
      <3>. QED BY <3>1, <3>2, LenProperties
    <2>4. CASE games'[q] = games[q]
      BY <2>1, <2>2, <2>3, <2>4 DEF Grows, Committed, CommittedAfter
    <2>5. CASE games'[q] = <<>>
      BY <2>3, <2>5 DEF CommittedAfter
    <2>. QED BY <2>4, <2>5 DEF GamesKept
  <1>5. AckedKept => AckedDurable'
    BY <1>1 DEF AckedKept, AckedDurable, Logged, LoggedAfter
  <1>. QED BY <1>2, <1>3, <1>4, <1>5

(* A replayed receipt is of a row at its own version. *)
LEMMA ReplayedLogged ==
  ASSUME TypeOK, LogIndexed, NEW x \in ReplayedReceipts PROVE Logged(x.req)
  <1>1. PICK i \in 1..Len(actions) : x.req = actions[i].req
    BY DEF ReplayedReceipts
  <1>2. actions[i].req.expected = i
    BY DEF LogIndexed
  <1>. QED BY <1>1, <1>2 DEF Logged

(* A request that is answered from a receipt is in the journal. *)
LEMMA KnownLogged ==
  ASSUME TypeOK, LogIndexed, ReceiptsLogged, NEW p \in Proc, NEW r, NEW x \in Replays(p, r)
  PROVE  Logged(r)
  <1>1. x.req = r /\ (x \in receipts[p] \/ x \in ReplayedReceipts)
    BY DEF Replays, Known
  <1>2. Logged(x.req)
    BY <1>1, ReplayedLogged DEF ReceiptsLogged
  <1>. QED BY <1>1, <1>2

(* The replayed game is the journal. *)
LEMMA MovesCommitted == ASSUME TypeOK PROVE Committed(Moves)
  <1>1. Len(Moves) = Len(actions) /\ Len(actions) \in Nat
    BY MovesType DEF TypeOK
  <1>. QED BY <1>1 DEF Committed, Moves

(* An unchanged journal keeps what is logged and committed. *)
LEMMA SameJournal ==
  ASSUME UNCHANGED actions
  PROVE  (\A r : Logged(r) => LoggedAfter(r)) /\ (\A g : Committed(g) => CommittedAfter(g))
  BY DEF Logged, Committed, LoggedAfter, CommittedAfter

(* Deals, recovery and crashes publish nothing that is not in the journal. *)
LEMMA ProcLogged ==
  ASSUME TypeOK, LogIndexed, ReceiptsLogged, NEW p \in Proc, ProcNext(p)
  PROVE  AnswersKept /\ ReceiptsKept /\ GamesKept /\ AckedKept
  <1>1. UNCHANGED <<actions, acked>>
    BY Zenon DEF ProcNext, DealStart, DealCommit, DealError, RollbackStart, Evict, BootLoad,
       BootAcquire, BootReplay, Crash, durable, journal
  <1>2. AckedKept
    BY <1>1 DEF AckedKept
  <1>3. AnswersKept
    <2>1. CASE UNCHANGED threads
      BY <2>1 DEF AnswersKept
    <2>2. CASE threads' = [u \in Thread |-> IF threads[u].home = p THEN Resting ELSE threads[u]]
      BY <2>2 DEF AnswersKept, Answers, Resting
    <2>3. CASE Reconciler(p)
      <3> DEFINE thread == [Resting EXCEPT !.pc = "reconcile", !.home = p, !.mode = "boot",
                                           !.result = LivePhase(Moves)]
      <3>1. PICK t \in Thread : Starts(t, thread)
        BY <2>3 DEF Reconciler
      <3>2. thread.mode = "boot"
        BY DEF Resting
      <3> HIDE DEF thread
      <3>3. \A u \in Thread : threads'[u] = IF u = t THEN thread ELSE threads[u]
        BY <3>1 DEF Starts, TypeOK
      <3>. QED BY <3>2, <3>3 DEF AnswersKept, Answers
    <2>4. UNCHANGED threads \/ Reconciler(p)
          \/ threads' = [u \in Thread |-> IF threads[u].home = p THEN Resting ELSE threads[u]]
      BY Zenon DEF ProcNext, DealStart, DealCommit, DealError, RollbackStart, Evict, BootLoad,
         BootAcquire, BootReplay, Crash
    <2>. QED BY <2>1, <2>2, <2>3, <2>4
  <1>4. ReceiptsKept
    <2>1. \/ UNCHANGED receipts
          \/ receipts' = [receipts EXCEPT ![p] = {}]
          \/ receipts' = [receipts EXCEPT ![p] = ReplayedReceipts]
      BY Zenon DEF ProcNext, DealStart, DealCommit, DealError, RollbackStart, Evict, BootLoad,
         BootAcquire, BootReplay, Crash, runtime
    <2>2. \A x \in ReplayedReceipts : LoggedAfter(x.req)
      BY <1>1, ReplayedLogged, SameJournal
    <2>. QED BY <2>1, <2>2 DEF ReceiptsKept, TypeOK
  <1>5. GamesKept
    <2>1. \/ UNCHANGED games
          \/ games' = [games EXCEPT ![p] = <<>>]
          \/ games' = [games EXCEPT ![p] = Moves]
      BY Zenon DEF ProcNext, DealStart, DealCommit, DealError, RollbackStart, Evict, BootLoad,
         BootAcquire, BootReplay, Crash, Retire, runtime
    <2>2. CommittedAfter(Moves)
      BY <1>1, MovesCommitted, SameJournal
    <2>3. \A q \in Proc : games'[q] = games[q] \/ games'[q] = <<>> \/ games'[q] = Moves
      BY <2>1 DEF TypeOK
    <2>. QED BY <2>2, <2>3 DEF GamesKept
  <1>. QED BY <1>2, <1>3, <1>4, <1>5

(* A request is answered at once only from a receipt. *)
LEMMA StartLogged ==
  ASSUME TypeOK, LogIndexed, ReceiptsLogged, NEW t \in Thread, NEW p \in Proc, StartNext(t, p)
  PROVE  AnswersKept /\ ReceiptsKept /\ GamesKept /\ AckedKept
  <1>1. UNCHANGED <<actions, acked, receipts, games>>
    BY Zenon DEF StartNext, Cancel, Sweep, SubmitLive, durable, journal, runtime
  <1>2. ReceiptsKept /\ GamesKept /\ AckedKept
    BY <1>1 DEF ReceiptsKept, GamesKept, AckedKept
  <1>3. ASSUME NEW thread, Starts(t, thread),
               ~Answers(thread) \/ LoggedAfter(thread.req)
        PROVE  AnswersKept
    <2>1. \A u \in Thread : threads'[u] = IF u = t THEN thread ELSE threads[u]
      BY <1>3 DEF Starts, TypeOK
    <2>2. ASSUME NEW u \in Thread, Answers(threads'[u])
          PROVE  \/ Answers(threads[u]) /\ threads'[u].req = threads[u].req
                 \/ LoggedAfter(threads'[u].req)
      <3>1. CASE u = t
        <4>1. threads'[u] = thread
          BY <2>1, <3>1
        <4>. QED BY <1>3, <2>2, <4>1
      <3>2. CASE u # t
        <4>1. threads'[u] = threads[u]
          BY <2>1, <3>2
        <4>. QED BY <2>2, <4>1
      <3>. QED BY <3>1, <3>2
    <2>. QED BY <2>2 DEF AnswersKept
  <1>4. CASE Cancel(t, p)
    <2>1. [Resting EXCEPT !.pc = "bind", !.home = p, !.mode = "cancel",
                          !.cmd.reason = "participant_cancelled"].mode = "cancel"
      BY DEF Resting
    <2>2. ~Answers([Resting EXCEPT !.pc = "bind", !.home = p, !.mode = "cancel",
                                   !.cmd.reason = "participant_cancelled"])
      BY <2>1 DEF Answers
    <2>3. AnswersKept
      BY <1>3, <1>4, <2>2 DEF Cancel
    <2>. QED BY <1>2, <2>3
  <1>5. CASE Sweep(t, p)
    <2> DEFINE thread == [Resting EXCEPT !.pc = "bind", !.home = p, !.mode = "sweep",
                            !.cmd.reason = "timeout", !.cmd.live = Len(games[p]) + 1]
    <2>1. thread.mode = "sweep"
      BY DEF Resting
    <2>2. Starts(t, thread)
      BY <1>5 DEF Sweep
    <2> HIDE DEF thread
    <2>3. ~Answers(thread)
      BY <2>1 DEF Answers
    <2>4. AnswersKept
      BY <1>3, <2>2, <2>3
    <2>. QED BY <1>2, <2>4
  <1>6. ASSUME NEW r \in Requests, SubmitLive(t, p, r) PROVE AnswersKept
    <2>1. ASSUME NEW x \in Replays(p, r),
                 Starts(t, [Resting EXCEPT !.pc = "callback", !.home = p, !.req = r,
                                           !.mode = "historical", !.result = x.phase])
          PROVE  AnswersKept
      <3> DEFINE thread == [Resting EXCEPT !.pc = "callback", !.home = p, !.req = r,
                                           !.mode = "historical", !.result = x.phase]
      <3>1. thread.req = r
        BY DEF Resting
      <3>2. Starts(t, thread)
        BY <2>1
      <3> HIDE DEF thread
      <3>3. LoggedAfter(r)
        BY <1>1, KnownLogged, SameJournal
      <3>4. LoggedAfter(thread.req)
        BY <3>1, <3>3
      <3>. QED BY <1>3, <3>2, <3>4
    <2>2. CASE Starts(t, [Resting EXCEPT !.pc = "queued", !.home = p, !.req = r])
      <3> DEFINE thread == [Resting EXCEPT !.pc = "queued", !.home = p, !.req = r]
      <3>1. ~Answers(thread)
        BY DEF Resting, Answers
      <3>2. Starts(t, thread)
        BY <2>2
      <3> HIDE DEF thread
      <3>. QED BY <1>3, <3>1, <3>2
    <2>. QED BY <1>6, <2>1, <2>2, Zenon DEF SubmitLive
  <1>. QED BY <1>2, <1>4, <1>5, <1>6 DEF StartNext

(* The goroutine still works on the same request, in the same way. *)
SameWork(t, thread) == thread.req = threads[t].req /\ thread.mode = threads[t].mode

(* Outside Enter and AppendCommits a goroutine keeps its request and kind. *)
LEMMA ThreadMoves ==
  ASSUME TypeOK, NEW t \in Thread, ThreadNext(t), ~Enter(t), ~AppendCommits(t)
  PROVE  \/ threads' = [threads EXCEPT ![t] = Resting]
         \/ /\ threads[t].pc \notin {"idle", "queued", "append"}
            /\ \E thread : threads' = [threads EXCEPT ![t] = thread] /\ SameWork(t, thread)
  <1>1. threads[t] \in Goroutines
    BY DEF TypeOK
  <1>2. CASE \/ AppendRefused(t) \/ AppendAmbiguous(t) \/ AdvanceFails(t) \/ TerminateYields(t)
             \/ TerminateFails(t) \/ Finalize(t)
    BY <1>2, Zenon DEF AppendRefused, AppendAmbiguous, AdvanceFails, TerminateYields,
       TerminateFails, Finalize, Fail, Done
  <1>3. CASE Callback(t) \/ AdvanceCommits(t) \/ TerminateCommits(t) \/ Reconcile(t)
    <2>1. threads[t].pc \in {"callback", "advanceTx", "terminateTx", "reconcile"}
      BY <1>3, Zenon DEF Callback, AdvanceCommits, TerminateCommits, Reconcile
    <2>2. \/ threads' = [threads EXCEPT ![t] = Resting]
          \/ Goto(t, "advance") \/ Goto(t, "finalize")
          \/ threads' = [threads EXCEPT ![t] = [@ EXCEPT !.pc = "bind", !.cmd.reason = "no_landlord"]]
      BY <1>3, Zenon DEF Callback, AdvanceCommits, TerminateCommits, Reconcile, Fail, Done
    <2>3. /\ SameWork(t, [threads[t] EXCEPT !.pc = "advance"])
          /\ SameWork(t, [threads[t] EXCEPT !.pc = "finalize"])
          /\ SameWork(t, [threads[t] EXCEPT !.pc = "bind", !.cmd.reason = "no_landlord"])
      BY <1>1 DEF Goroutines, SameWork
    <2>. QED BY <2>1, <2>2, <2>3 DEF Goto
  <1>4. CASE AdvanceLoad(t) \/ Bind(t)
    <2>1. threads[t].pc \in {"advance", "bind"}
      BY <1>4, Zenon DEF AdvanceLoad, Bind
    <2>2. \/ threads' = [threads EXCEPT ![t] = Resting]
          \/ \E cmd : threads' = [threads EXCEPT ![t] = [@ EXCEPT !.pc = "advanceTx", !.cmd = cmd]]
          \/ \E cmd : threads' = [threads EXCEPT ![t] = [@ EXCEPT !.pc = "terminateTx", !.cmd = cmd]]
      BY <1>4, Zenon DEF AdvanceLoad, Bind, Fail, Done
    <2>3. ASSUME NEW cmd
          PROVE  /\ SameWork(t, [threads[t] EXCEPT !.pc = "advanceTx", !.cmd = cmd])
                 /\ SameWork(t, [threads[t] EXCEPT !.pc = "terminateTx", !.cmd = cmd])
      BY <1>1 DEF Goroutines, SameWork
    <2>. QED BY <2>1, <2>2, <2>3
  <1>5. CASE Publish(t)
    <2>1. threads[t].pc = "publish"
      BY <1>5 DEF Publish
    <2>2. \/ threads' = [threads EXCEPT ![t] = Resting]
          \/ \E result : threads' = [threads EXCEPT ![t] =
                                       [@ EXCEPT !.pc = "callback", !.result = result]]
      BY <1>5, Zenon DEF Publish, Fail
    <2>3. ASSUME NEW result
          PROVE  SameWork(t, [threads[t] EXCEPT !.pc = "callback", !.result = result])
      BY <1>1 DEF Goroutines, SameWork
    <2>. QED BY <2>1, <2>2, <2>3
  <1>. QED BY <1>2, <1>3, <1>4, <1>5 DEF ThreadNext

(* A goroutine comes to its answer by its own append or by a receipt. *)
LEMMA ThreadAnswers ==
  ASSUME TypeOK, ThreadsRun, LogIndexed, Watermark, ReceiptsLogged, NEW t \in Thread, ThreadNext(t)
  PROVE  AnswersKept
  <1> DEFINE p == threads[t].home  r == threads[t].req
  <1>1. threads[t] \in Goroutines
    BY DEF TypeOK
  <1>2. ASSUME NEW thread, threads' = [threads EXCEPT ![t] = thread],
               Answers(thread) => \/ Answers(threads[t]) /\ thread.req = r
                                  \/ LoggedAfter(thread.req)
        PROVE  AnswersKept
    <2>1. \A u \in Thread : threads'[u] = IF u = t THEN thread ELSE threads[u]
      BY <1>2 DEF TypeOK
    <2>. QED BY <1>2, <2>1 DEF AnswersKept
  <1>3. ~Answers(Resting)
    BY DEF Answers, Resting
  <1>4. CASE AppendCommits(t)
    <2> DEFINE thread == [threads[t] EXCEPT !.pc = "publish"]
    <2>1. p \in Proc /\ r \in Requests
      BY <1>4, RunningType DEF AppendCommits
    <2>2. Appendable(p, r) /\ JournalAppend(p, r)
      BY <1>4 DEF AppendCommits
    <2>3. \A q \in Proc, x \in Requests :
            Appendable(q, x) /\ JournalAppend(q, x) => LoggedAfter(x)
      BY AppendedAtVersion DEF Logged, LoggedAfter
    <2>4. thread.req = r /\ threads' = [threads EXCEPT ![t] = thread]
      BY <1>1, <1>4 DEF AppendCommits, Goto, Goroutines
    <2> HIDE DEF thread
    <2>. QED BY <1>2, <2>1, <2>2, <2>3, <2>4
  <1>5. CASE Enter(t)
    <2>1. p \in Proc /\ UNCHANGED actions
      BY <1>5, RunningType DEF Enter, durable, journal
    <2>2. ASSUME NEW x \in Replays(p, r),
                 threads' = [threads EXCEPT ![t] =
                    [@ EXCEPT !.pc = "callback", !.mode = "historical", !.result = x.phase]]
          PROVE  AnswersKept
      <3> DEFINE thread == [threads[t] EXCEPT !.pc = "callback", !.mode = "historical",
                                              !.result = x.phase]
      <3>1. thread.req = r /\ threads' = [threads EXCEPT ![t] = thread]
        BY <1>1, <2>2 DEF Goroutines
      <3>2. LoggedAfter(r)
        BY <2>1, KnownLogged, SameJournal
      <3> HIDE DEF thread
      <3>. QED BY <1>2, <3>1, <3>2
    <2>3. CASE Goto(t, "append")
      <3> DEFINE thread == [threads[t] EXCEPT !.pc = "append"]
      <3>1. thread.pc = "append" /\ threads' = [threads EXCEPT ![t] = thread]
        BY <1>1, <2>3 DEF Goto, Goroutines
      <3> HIDE DEF thread
      <3>2. ~Answers(thread)
        BY <3>1 DEF Answers
      <3>. QED BY <1>2, <3>1, <3>2
    <2>4. CASE Fail(t)
      BY <1>2, <1>3, <2>4 DEF Fail
    <2>. QED BY <1>5, <2>2, <2>3, <2>4, Zenon DEF Enter
  <1>6. CASE ~Enter(t) /\ ~AppendCommits(t)
    <2>1. CASE threads' = [threads EXCEPT ![t] = Resting]
      BY <1>2, <1>3, <2>1
    <2>2. ASSUME NEW thread, threads[t].pc \notin {"idle", "queued", "append"},
                 threads' = [threads EXCEPT ![t] = thread], SameWork(t, thread)
          PROVE  AnswersKept
      <3>1. Answers(thread) => Answers(threads[t]) /\ thread.req = r
        BY <2>2 DEF Answers, SameWork
      <3>. QED BY <1>2, <2>2, <3>1
    <2>. QED BY <1>6, <2>1, <2>2, ThreadMoves
  <1>. QED BY <1>4, <1>5, <1>6

(* Only a goroutine whose request is in the journal answers its client. *)
LEMMA ThreadAcked ==
  ASSUME TypeOK, ThreadsRun, TypeOK', Grows, AnswersLogged, NEW t \in Thread, ThreadNext(t)
  PROVE  AckedKept
  <1>1. CASE UNCHANGED acked
    BY <1>1 DEF AckedKept
  <1>2. CASE Done(t) /\ threads[t].pc \notin {"idle", "queued", "append"}
    <2>1. \A r \in acked' : \/ r \in acked
                            \/ r = threads[t].req /\ threads[t].mode \in {"fresh", "historical"}
      BY <1>2 DEF Done
    <2>2. threads[t].mode \in {"fresh", "historical"} => LoggedAfter(threads[t].req)
      BY <1>2, GrowsKeepsLogged DEF AnswersLogged, Logged, LoggedAfter
    <2>. QED BY <2>1, <2>2 DEF AckedKept
  <1>3. UNCHANGED acked \/ (Done(t) /\ threads[t].pc \notin {"idle", "queued", "append"})
    BY Zenon DEF ThreadNext, Enter, AppendCommits, AppendRefused, AppendAmbiguous, Publish,
       Callback, AdvanceLoad, AdvanceCommits, AdvanceFails, Bind, TerminateCommits,
       TerminateYields, TerminateFails, Finalize, Reconcile, Fail
  <1>. QED BY <1>1, <1>2, <1>3

(* A published candidate is the committed prefix and the logged request. *)
LEMMA PublishLogged ==
  ASSUME TypeOK, ThreadsRun, NextInGame, AnswersLogged, PublishedIsCommitted,
         NEW t \in Thread, Publish(t)
  PROVE  ReceiptsKept /\ GamesKept
  <1> DEFINE p == threads[t].home  r == threads[t].req
             moves == Append(games[p], r)
  <1>1. p \in Proc /\ r \in Requests /\ threads[t].mode = "fresh" /\ games[p] \in Seq(Requests)
    BY RunningType DEF Publish, TypeOK
  <1>2. UNCHANGED actions /\ Logged(r)
    BY <1>1 DEF Publish, journal, AnswersLogged
  <1>3. r.expected = Len(games[p]) + 1
    BY DEF Publish, NextInGame, Holds
  <1>4. LoggedAfter(r)
    BY <1>2, SameJournal
  <1>5. Committed(moves)
    <2>1. Committed(games[p])
      BY <1>1 DEF PublishedIsCommitted, Committed
    <2>2. /\ Len(moves) = Len(games[p]) + 1 /\ moves[Len(games[p]) + 1] = r
          /\ \A i \in 1..Len(games[p]) : moves[i] = games[p][i]
      BY <1>1, AppendProperties
    <2>3. Len(games[p]) \in Nat /\ Len(actions) \in Nat
      BY <1>1 DEF TypeOK
    <2>4. Len(moves) <= Len(actions) /\ actions[Len(moves)].req = r
      BY <1>2, <1>3, <2>2, <2>3 DEF Logged
    <2> HIDE DEF moves
    <2>5. ASSUME NEW i \in 1..Len(moves) PROVE moves[i] = actions[i].req
      <3>1. CASE i = Len(moves)
        BY <2>2, <2>4, <3>1
      <3>2. CASE i # Len(moves)
        <4>1. i \in 1..Len(games[p])
          BY <2>2, <2>3, <3>2
        <4>. QED BY <2>1, <2>2, <4>1 DEF Committed
      <3>. QED BY <3>1, <3>2
    <2>. QED BY <2>4, <2>5 DEF Committed
  <1>6. CommittedAfter(moves)
    BY <1>2, <1>5, SameJournal
  <1>7. ReceiptsKept
    <2>1. \E phase : receipts' = [receipts EXCEPT ![p] = @ \cup {[req |-> r, phase |-> phase]}]
      BY Zenon DEF Publish
    <2>2. \A phase : [req |-> r, phase |-> phase].req = r
      OBVIOUS
    <2>. QED BY <1>4, <2>1, <2>2 DEF ReceiptsKept, TypeOK
  <1>8. GamesKept
    <2>1. games' = [games EXCEPT ![p] = moves] \/ games' = [games EXCEPT ![p] = <<>>]
      BY Zenon DEF Publish, Retire
    <2> HIDE DEF moves
    <2>2. \A q \in Proc : games'[q] = games[q] \/ games'[q] = <<>> \/ games'[q] = moves
      BY <2>1 DEF TypeOK
    <2>. QED BY <1>6, <2>2 DEF GamesKept
  <1>. QED BY <1>7, <1>8

(* Publish is the only step of a goroutine that adds a receipt or a move. *)
LEMMA ThreadLogged ==
  ASSUME TypeOK, ThreadsRun, NextInGame, AnswersLogged, PublishedIsCommitted,
         NEW t \in Thread, ThreadNext(t)
  PROVE  ReceiptsKept /\ GamesKept
  <1>1. CASE ~Publish(t)
    <2>1. UNCHANGED receipts
      BY <1>1, Zenon DEF ThreadNext, Enter, AppendCommits, AppendRefused, AppendAmbiguous,
         Callback, AdvanceLoad, AdvanceCommits, AdvanceFails, Bind, TerminateCommits,
         TerminateYields, TerminateFails, Finalize, Reconcile, runtime
    <2>2. UNCHANGED games \/ games' = [games EXCEPT ![threads[t].home] = <<>>]
      BY <1>1, Zenon DEF ThreadNext, Enter, AppendCommits, AppendRefused, AppendAmbiguous,
         Callback, AdvanceLoad, AdvanceCommits, AdvanceFails, Bind, TerminateCommits,
         TerminateYields, TerminateFails, Finalize, Reconcile, Retire, runtime
    <2>3. \A q \in Proc : games'[q] = games[q] \/ games'[q] = <<>>
      BY <2>2 DEF TypeOK
    <2>. QED BY <2>1, <2>3 DEF ReceiptsKept, GamesKept
  <1>. QED BY <1>1, PublishLogged

(* Every step of the program keeps answers, receipts and games in the journal. *)
LEMMA LoggedStep ==
  ASSUME TypeOK, TypeOK', ThreadsRun, LogIndexed, Watermark, NextInGame, Grows,
         AnswersLogged, ReceiptsLogged, PublishedIsCommitted, AckedDurable, [Next]_vars
  PROVE  AnswersLogged' /\ ReceiptsLogged' /\ PublishedIsCommitted' /\ AckedDurable'
  <1>1. AnswersKept /\ ReceiptsKept /\ GamesKept /\ AckedKept
    <2>1. CASE UNCHANGED vars
      BY <2>1 DEF vars, runtime, AnswersKept, ReceiptsKept, GamesKept, AckedKept
    <2>. QED BY <2>1, ProcLogged, StartLogged, ThreadAnswers, ThreadAcked, ThreadLogged DEF Next
  <1>. QED BY <1>1, KeptLogged

-----------------------------------------------------------------------------
(* The inductive invariant holds at the start and after every step. *)

LEMMA InitInvariant == ASSUME Init PROVE IInv
  <1>1. TypeOK
    <2>1. <<>> \in Seq(Requests) /\ <<>> \in Seq([req : Requests, epoch : Nat])
      BY EmptySeq
    <2>2. Unterminated \in [by : Proc \cup {"none"}, cmd : Commands]
      BY NoCommandType DEF Unterminated
    <2>. QED BY <2>1, <2>2, NoWriterType, NoRecordType, NotLoadedType, NoCommandType, RestingType
             DEF Init, TypeOK, HandPhases
  <1>2. \A t \in Thread : threads[t].pc = "idle"
    BY DEF Init, Resting
  <1>3. Len(actions) = 0 /\ actions = <<>> /\ \A p \in Proc : games[p] = <<>>
    BY DEF Init
  <1>4. LogIndexed /\ Watermark /\ PublishedIsCommitted
    BY <1>3 DEF Init, LogIndexed, Watermark, PublishedIsCommitted
  <1>5. DealLocked /\ Undealt /\ ReceiptsLogged /\ AckedDurable
    BY <1>2, <1>3 DEF Init, DealLocked, Undealt, ReceiptsLogged, AckedDurable
  <1>6. ThreadsRun /\ OneReconciler /\ StripeExclusive /\ NextInGame /\ AnswersLogged
    BY <1>2 DEF ThreadsRun, OneReconciler, StripeExclusive, NextInGame, AnswersLogged, Holds
  <1>. QED BY <1>1, <1>4, <1>5, <1>6 DEF IInv

(* The invariant is inductive: the lemmas above, one group of parts each. *)
LEMMA InvariantStep == ASSUME IInv, [Next]_vars PROVE IInv'
  <1>1. /\ TypeOK /\ LogIndexed /\ Watermark /\ DealLocked /\ Undealt
        /\ ThreadsRun /\ OneReconciler /\ StripeExclusive /\ NextInGame
        /\ AnswersLogged /\ ReceiptsLogged /\ PublishedIsCommitted /\ AckedDurable
    BY DEF IInv
  <1>2. TypeOK'
    BY <1>1, TypeStep
  <1>3. Grows /\ LogIndexed' /\ Watermark'
    BY <1>1, JournalSteps, LogStep
  <1>4. DealLocked' /\ LeavesDealing
    BY <1>1, DealStep
  <1>5. Undealt'
    BY <1>1, <1>4, UndealtStep
  <1>6. ThreadsRun' /\ OneReconciler'
    BY <1>1, RunsStep
  <1>7. StripeExclusive' /\ NextInGame'
    BY <1>1, StripeStep
  <1>8. AnswersLogged' /\ ReceiptsLogged' /\ PublishedIsCommitted' /\ AckedDurable'
    BY <1>1, <1>2, <1>3, LoggedStep
  <1>. QED BY <1>2, <1>3, <1>4, <1>5, <1>6, <1>7, <1>8 DEF IInv

(* Every reachable state satisfies the inductive invariant: whatever the   *)
(* number of instances, goroutines, requests and takeovers, the journal is *)
(* indexed and counted, and games, receipts and answers come from it.      *)
THEOREM Invariant == Spec => []IInv
  <1>. QED BY InitInvariant, InvariantStep, PTL DEF Spec

(* The variables always hold what their rows and maps can hold. *)
THEOREM TypeCorrect == Spec => []TypeOK
  <1>1. IInv => TypeOK
    BY DEF IInv
  <1>. QED BY <1>1, Invariant, PTL

(* A client that has its answer never loses its move, for any number of    *)
(* instances that crash, take over and compensate.                         *)
THEOREM AckedNeverLost == Spec => []AckedDurable
  <1>1. IInv => AckedDurable
    BY DEF IInv
  <1>. QED BY <1>1, Invariant, PTL

(* No instance ever shows a move that is not in the journal. *)
THEOREM GamesAreCommitted == Spec => []PublishedIsCommitted
  <1>1. IInv => PublishedIsCommitted
    BY DEF IInv
  <1>. QED BY <1>1, Invariant, PTL

(* The journal only grows: no step of Append, Acquire, ExpireHand or       *)
(* DeleteUnused rewrites or drops a committed action.                      *)
THEOREM JournalOnlyGrows == Spec => [][Grows]_vars
  <1>1. ASSUME IInv, [Next]_vars PROVE Grows
    BY <1>1, JournalSteps, LogStep DEF IInv
  <1>. QED BY <1>1, Invariant, PTL DEF Spec
=============================================================================
