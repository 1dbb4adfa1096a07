------------------------- MODULE LiveArchiveProofs --------------------------
(***************************************************************************)
(* The rest of LiveHandInvariants is inductive: what a startup has loaded  *)
(* still binds the journal, and, unless a participant cancels, a hand is   *)
(* terminated for what its game shows and its final record tells it.  The  *)
(* theorems on the live hand and its refinement of LiveLedger close the    *)
(* module.                                                                 *)
(***************************************************************************)
EXTENDS LiveOwnerProofs

-----------------------------------------------------------------------------
(* What a startup has loaded. *)

(* A terminated hand stays as it was terminated. *)
LEMMA EndedStays ==
  ASSUME IInv, CommandsBound, [Next]_vars, handPhase \in {"ABORTED", "EXPIRED"}
  PROVE  UNCHANGED <<handPhase, terminator>>
  <1>1. \A p \in Proc : dealing[p] # "created"
    BY DEF IInv, DealLocked
  <1>2. ASSUME NEW t \in Thread PROVE ~Advancing(t)
    <2>1. threads[t].pc = "advanceTx" => threads[t].cmd.phase \in DOMAIN NextPhase
      BY DEF IInv, ThreadsRun, RunsOn
    <2>. QED BY <2>1 DEF Advancing, NextPhase
  <1>3. ASSUME NEW t \in Thread PROVE ~Terminating(t)
    <2>1. Terminating(t) => handPhase = threads[t].cmd.phase
      BY DEF Terminating, TerminateRows
    <2>. QED BY <2>1 DEF CommandsBound, Terminal
  <1>. QED BY <1>1, <1>2, <1>3, PhaseStep

(* The terminator tells how the hand was terminated. *)
LEMMA TerminatorStep ==
  ASSUME IInv, CommandsBound, TerminatorKept, [Next]_vars
  PROVE  TerminatorKept'
  <1>1. TypeOK /\ ThreadsRun
    BY DEF IInv
  <1> DEFINE Ended == handPhase' = IF Expires(terminator'.cmd) THEN "EXPIRED" ELSE "ABORTED"
  <1>2. ASSUME NEW t \in Thread, Terminating(t) PROVE Ended
    BY <1>2 DEF Terminating, TerminateRows
  <1>3. ASSUME terminator'.by # "none" PROVE Ended
    <2>1. CASE UNCHANGED <<handPhase, terminator>>
      BY <1>3, <2>1 DEF TerminatorKept
    <2>2. CASE UNCHANGED terminator
      <3>1. handPhase \in {"ABORTED", "EXPIRED"}
        BY <1>3, <2>2 DEF TerminatorKept
      <3>2. UNCHANGED <<handPhase, terminator>>
        BY <3>1, EndedStays
      <3>. QED BY <1>3, <3>2 DEF TerminatorKept
    <2>3. UNCHANGED terminator \/ \E t \in Thread : Terminating(t)
      BY PhaseStep DEF Advancing
    <2>. QED BY <1>2, <2>2, <2>3
  <1>4. ASSUME NEW u \in Thread, threads'[u].pc = "finalize"
        PROVE  handPhase' \in {"ABORTED", "EXPIRED"}
    <2>1. CASE threads'[u] = threads[u]
      <3>1. handPhase \in {"ABORTED", "EXPIRED"}
        BY <1>4, <2>1 DEF TerminatorKept
      <3>. QED BY <3>1, EndedStays
    <2>2. ASSUME threads[u].pc # "idle", WorksOn(u, threads'[u])
          PROVE  handPhase' \in {"ABORTED", "EXPIRED"}
      <3>1. TerminateCommits(u)
        BY <1>4, <2>2 DEF WorksOn, Recalls, Takes, Passes, Shows, Turns, Loads, Aborts, Binds,
           Ends, GoesOn
      <3>2. TerminateRows(u) \/ (Accepted(u) /\ UNCHANGED handPhase)
        BY <3>1 DEF TerminateCommits
      <3>3. TerminateRows(u) => handPhase' \in {"ABORTED", "EXPIRED"}
        BY DEF TerminateRows
      <3>4. Accepted(u) => handPhase \in {"ABORTED", "EXPIRED"}
        <4>1. threads[u].home \in Proc
          BY <1>1, <2>2, RunningType
        <4>. QED BY <4>1, ProcAssumption DEF Accepted, TerminatorKept
      <3>. QED BY <3>2, <3>3, <3>4
    <2>3. threads'[u] # Resting
      BY <1>4 DEF Resting
    <2>4. ASSUME NEW q \in Proc PROVE ~Begins(u, q, threads'[u])
      BY <1>4 DEF Begins, Answered, Queues, Cancels, Sweeps, Reconciles
    <2>. QED BY <1>1, <2>1, <2>2, <2>3, <2>4, GoroutineStep
  <1>. QED BY <1>3, <1>4 DEF TerminatorKept

(* The watermark a startup has acquired stands while its epoch does. *)
LEMMA AcquiredStands ==
  ASSUME IInv, EpochInv, HoldersWrite, [Next]_vars, NEW p \in Proc,
         server[p] = "acquired", boot[p].epoch = writer'.epoch
  PROVE  writer'.committed = writer.committed /\ writer'.epoch = writer.epoch
  <1>1. TypeOK /\ ThreadsRun /\ Undealt
    BY DEF IInv
  <1>2. boot[p].epoch # 0 /\ boot[p].epoch \in Nat
    BY <1>1 DEF EpochInv, BootHolds, TypeOK
  <1>3. writer \in [epoch : Nat, committed : Nat] /\ writer.epoch \in Nat
    BY <1>1 DEF TypeOK
  <1>4. ASSUME NEW d \in Proc, DealStart(d) PROVE FALSE
    BY <1>1, <1>4 DEF DealStart, Undealt
  <1>5. writer' # NoWriter
    <2>1. NoWriter.epoch = 0
      BY DEF NoWriter
    <2>. QED BY <1>2, <2>1
  <1>6. ~Fences
    <2>1. Fences => writer'.epoch = writer.epoch + 1 /\ boot[p].epoch <= writer.epoch
      BY <1>3 DEF Fences, NextEpoch, EpochInv, EpochsBounded
    <2>2. Fences => boot[p].epoch = writer.epoch + 1 /\ boot[p].epoch <= writer.epoch
      BY <2>1
    <2>. QED BY <1>2, <1>3, <2>2
  <1>7. ASSUME NEW t \in Thread, Appends(t) PROVE FALSE
    <2> DEFINE q == threads[t].home
    <2>1. q \in Proc /\ server[q] = "serving" /\ epochs[q] = writer.epoch /\ epochs[q] # 0
      BY <1>1, <1>7, RunningType DEF Appends, Appendable, ThreadsRun, RunsOn, HoldersWrite, Holds,
         Writable, Contains
    <2>2. writer'.epoch = writer.epoch
      BY <1>3, <1>7 DEF Appends, JournalAppend
    <2>3. q # p /\ epochs[q] = boot[p].epoch
      BY <2>1, <2>2
    <2>. QED BY <2>1, <2>3 DEF EpochInv, ClaimsDistinct
  <1>. QED BY <1>4, <1>5, <1>6, <1>7, WriterStep

(* What RecoverActive has loaded keeps binding the journal. *)
LEMMA BootAgreesStep ==
  ASSUME IInv, IInv', GameInv, EpochInv, HoldersWrite, CommandsBound, BootAgrees, [Next]_vars
  PROVE  BootAgrees'
  <1>1. TypeOK /\ ThreadsRun /\ AppendLegal
    BY DEF IInv, GameInv
  <1>2. \A phase : Reached(phase) => ReachedAfter(phase)
    BY <1>1, ReachedKept
  <1> DEFINE Agrees(phase) ==
        /\ phase # "DEALING"
        /\ phase = "PLAYING" => LivePhase(Moves) \in {"PLAYING", "COMPLETED"}
        /\ phase \in {"SETTLING", "COMPLETED"} => LivePhase(Moves) = "COMPLETED"
        /\ phase \in {"ABORTED", "EXPIRED"} => handPhase = phase
             AgreesAfter(phase) ==
        /\ phase # "DEALING"
        /\ phase = "PLAYING" => LivePhase(Moves') \in {"PLAYING", "COMPLETED"}
        /\ phase \in {"SETTLING", "COMPLETED"} => LivePhase(Moves') = "COMPLETED"
        /\ phase \in {"ABORTED", "EXPIRED"} => handPhase' = phase
  <1>3. ASSUME NEW phase, Agrees(phase) PROVE AgreesAfter(phase)
    <2>1. phase = "PLAYING" => ReachedAfter("PLAYING")
      BY <1>2, <1>3 DEF Reached
    <2>2. phase \in {"SETTLING", "COMPLETED"} => ReachedAfter("COMPLETED")
      BY <1>2, <1>3 DEF Reached
    <2>3. phase \in {"ABORTED", "EXPIRED"} => handPhase' = phase
      BY <1>3, EndedStays
    <2>. QED BY <1>3, <2>1, <2>2, <2>3 DEF ReachedAfter
  <1>4. ASSUME NEW p \in Proc, server'[p] \in {"loaded", "acquired"}
        PROVE  AgreesAfter(boot'[p].phase)
    <2>1. boot[p] \in [phase : HandPhases, epoch : Nat, committed : Nat]
      BY <1>1 DEF TypeOK
    <2>2. CASE Loaded(p)
      <3>1. boot'[p].phase = handPhase /\ handPhase # "DEALING"
        BY <2>1, <2>2 DEF Loaded, NeedsReplay
      <3>2. Agrees(handPhase)
        BY <3>1 DEF GameInv, HandFollowsLog
      <3>. QED BY <1>3, <3>1, <3>2
    <2>3. CASE Acquired(p) \/ Settles(p)
      <3>1. boot'[p].phase = boot[p].phase
        BY <2>1, <2>3 DEF Acquired, Settles
      <3>2. server[p] \in {"loaded", "acquired"}
        BY <1>4, <2>3 DEF Acquired, Settles
      <3>3. Agrees(boot[p].phase)
        BY <3>2 DEF BootAgrees
      <3>. QED BY <1>3, <3>1, <3>3
    <2>. QED BY <1>1, <1>4, <2>2, <2>3, BootEffect DEF Replayed, Crashed
  <1>5. ASSUME NEW p \in Proc, server'[p] = "acquired", boot'[p].epoch = writer'.epoch
        PROVE  boot'[p].committed = writer'.committed
    <2>1. /\ boot[p] \in [phase : HandPhases, epoch : Nat, committed : Nat]
          /\ writer \in [epoch : Nat, committed : Nat]
      BY <1>1 DEF TypeOK
    <2>2. CASE Acquired(p)
      BY <2>1, <2>2 DEF Acquired
    <2>3. CASE Settles(p)
      <3>1. server[p] = "acquired" /\ boot'[p] = boot[p]
        BY <1>5, <2>3 DEF Settles
      <3>2. writer'.committed = writer.committed /\ writer'.epoch = writer.epoch
        BY <1>5, <3>1, AcquiredStands
      <3>. QED BY <1>5, <3>1, <3>2 DEF BootAgrees
    <2>. QED BY <1>1, <1>5, <2>2, <2>3, BootEffect DEF Loaded, Replayed, Crashed
  <1>. QED BY <1>4, <1>5 DEF BootAgrees
(* How a game that is kept in an instance comes about. *)
Keeps(p) == epochs[p] # 0 /\ games'[p] = games[p] /\ receipts'[p] = receipts[p]
Adds(t, p) ==
    LET moves == Append(games[p], threads[t].req)
    IN  /\ epochs[p] # 0 /\ Publish(t) /\ threads[t].home = p /\ games'[p] = moves
        /\ receipts'[p] = receipts[p] \cup {[req |-> threads[t].req, phase |-> LivePhase(moves)]}
Recovers(p) == BootReplay(p) /\ games'[p] = Moves /\ receipts'[p] = ReplayedReceipts

LEMMA GameEffect ==
  ASSUME TypeOK, ThreadsRun, EpochInv, [Next]_vars, NEW p \in Proc, epochs'[p] # 0
  PROVE  \/ Keeps(p) \/ DealStart(p) \/ Recovers(p)
         \/ \E t \in Thread : Adds(t, p)
  <1>1. CASE Untouched(p)
    BY <1>1 DEF Untouched, SameHand, Keeps
  <1>2. CASE RollbackStart(p) \/ Crash(p)
    BY <1>2 DEF RollbackStart, Crash, Retire, TypeOK
  <1>3. CASE Evict(p)
    BY <1>3 DEF Evict, Contains
  <1>4. CASE BootReplay(p)
    <2>1. epochs[p] = 0
      BY <1>4 DEF BootReplay, EpochInv, BootHolds
    <2>2. \/ games' = [games EXCEPT ![p] = Moves] /\ receipts' = [receipts EXCEPT ![p] = ReplayedReceipts]
          \/ epochs' = epochs
      BY <1>4, Zenon DEF BootReplay, runtime
    <2>. QED BY <1>4, <2>1, <2>2 DEF TypeOK, Recovers
  <1>5. ASSUME NEW t \in Thread, threads[t].home = p, AppendRefused(t) \/ AppendAmbiguous(t) \/ Finalize(t)
        PROVE  Keeps(p)
    <2>1. UNCHANGED <<games, epochs, receipts>> \/ epochs' = [epochs EXCEPT ![p] = 0]
      BY <1>5, Zenon DEF AppendRefused, AppendAmbiguous, Finalize, Retire
    <2>2. UNCHANGED receipts
      BY <1>5, Zenon DEF AppendRefused, AppendAmbiguous, Finalize
    <2>. QED BY <2>1, <2>2 DEF Keeps, TypeOK
  <1>6. ASSUME NEW t \in Thread, threads[t].home = p, Publish(t)
        PROVE  Adds(t, p)
    <2> DEFINE moves == Append(games[p], threads[t].req)
               x == [req |-> threads[t].req, phase |-> LivePhase(moves)]
    <2>1. receipts' = [receipts EXCEPT ![p] = @ \cup {x}]
      BY <1>6, Zenon DEF Publish
    <2>2. \/ games' = [games EXCEPT ![p] = moves] /\ epochs' = epochs
          \/ epochs' = [epochs EXCEPT ![p] = 0]
      BY <1>6, Zenon DEF Publish, Retire
    <2> HIDE DEF moves, x
    <2>3. epochs[p] # 0 /\ games'[p] = moves /\ receipts'[p] = receipts[p] \cup {x}
      BY <2>1, <2>2 DEF TypeOK
    <2>. QED BY <1>6, <2>3 DEF Adds, moves, x
  <1>. QED BY <1>1, <1>2, <1>3, <1>4, <1>5, <1>6, HandStep DEF Touched

(* A game that is kept loses no move. *)
LEMMA GameGrew ==
  ASSUME IInv, EpochInv, [Next]_vars, NEW p \in Proc, epochs'[p] # 0
  PROVE  \/ epochs[p] # 0 /\ Len(games'[p]) >= Len(games[p])
         \/ Len(games'[p]) >= Len(actions')
  <1>1. TypeOK /\ ThreadsRun
    BY DEF IInv
  <1>2. games[p] \in Seq(Requests) /\ Len(games[p]) \in Nat
    BY <1>1, LenProperties DEF TypeOK
  <1>3. CASE Keeps(p)
    BY <1>2, <1>3 DEF Keeps
  <1>4. CASE DealStart(p)
    <2>1. KnowsAfter(p)
      BY <1>4, DealtCurrent
    <2>2. handPhase = "DEALING" /\ UNCHANGED <<actions, games>>
      BY <1>4 DEF DealStart
    <2>3. actions = <<>> /\ Len(actions) = 0
      BY <2>2 DEF IInv, Undealt
    <2>. QED BY <1>2, <2>2, <2>3
  <1>5. CASE Recovers(p)
    <2>1. UNCHANGED actions
      BY <1>5 DEF Recovers, BootReplay, journal
    <2>2. Len(Moves) = Len(actions) /\ Len(actions) \in Nat
      BY <1>1, MovesType, LenProperties
    <2>. QED BY <1>5, <2>1, <2>2 DEF Recovers
  <1>6. ASSUME NEW t \in Thread, Adds(t, p)
        PROVE  epochs[p] # 0 /\ Len(games'[p]) >= Len(games[p])
    <2>1. threads[t].req \in Requests
      BY <1>1, <1>6, RunningType DEF Adds, Publish, ThreadsRun, RunsOn
    <2>2. Len(Append(games[p], threads[t].req)) = Len(games[p]) + 1
      BY <1>2, <2>1, AppendProperties
    <2>. QED BY <1>2, <1>6, <2>2 DEF Adds
  <1>. QED BY <1>1, <1>3, <1>4, <1>5, <1>6, GameEffect

(* A game keeps showing what it has receipts of. *)
LEMMA ReceiptsShownStep ==
  ASSUME IInv, EpochInv, ReceiptsShown, [Next]_vars
  PROVE  ReceiptsShown'
  <1>1. TypeOK /\ ThreadsRun /\ NextInGame
    BY DEF IInv
  <1> DEFINE Shown(p) == \A x \in receipts'[p] : x.req.expected <= Len(games'[p])
  <1>2. ASSUME NEW p \in Proc, epochs'[p] # 0 PROVE Shown(p)
    <2>1. games[p] \in Seq(Requests) /\ Len(games[p]) \in Nat
      BY <1>1, LenProperties DEF TypeOK
    <2>2. CASE Keeps(p)
      BY <2>2 DEF Keeps, ReceiptsShown, Contains
    <2>3. CASE DealStart(p)
      <3>1. handPhase = "DEALING" /\ UNCHANGED receipts
        BY <2>3 DEF DealStart
      <3>2. Len(actions) = 0
        BY <3>1 DEF IInv, Undealt
      <3>3. \A x \in receipts[p] : FALSE
        BY <3>2 DEF IInv, ReceiptsLogged, Logged
      <3>. QED BY <3>1, <3>3
    <2>4. CASE Recovers(p)
      <3>1. Len(Moves) = Len(actions) /\ Len(actions) \in Nat
        BY <1>1, MovesType, LenProperties
      <3>2. \A x \in ReplayedReceipts : x.req.expected \in 1..Len(actions)
        BY ReplayedTrue DEF Logged
      <3>. QED BY <2>4, <3>1, <3>2 DEF Recovers
    <2>5. ASSUME NEW t \in Thread, Adds(t, p) PROVE Shown(p)
      <3>1. threads[t].req \in Requests /\ threads[t].pc = "publish" /\ threads[t].home = p
        BY <1>1, <2>5, RunningType DEF Adds, Publish, ThreadsRun, RunsOn
      <3>2. Len(Append(games[p], threads[t].req)) = Len(games[p]) + 1
        BY <2>1, <3>1, AppendProperties
      <3>3. threads[t].req.expected = Len(games[p]) + 1
        BY <1>1, <3>1 DEF NextInGame, Holds
      <3>4. \A x \in receipts[p] : x.req.expected <= Len(games[p])
        BY <2>5 DEF ReceiptsShown, Contains, Adds
      <3>5. \A x \in receipts[p] : x.req.expected \in Nat
        BY <1>1, RequestsAssumption DEF TypeOK, Receipts
      <3>6. Len(games'[p]) = Len(games[p]) + 1
        BY <2>5, <3>2 DEF Adds
      <3>7. ASSUME NEW x \in receipts'[p] PROVE x \in receipts[p] \/ x.req.expected = Len(games[p]) + 1
        BY <2>5, <3>3 DEF Adds
      <3>. QED BY <2>1, <3>4, <3>5, <3>6, <3>7
    <2>. QED BY <1>1, <1>2, <2>2, <2>3, <2>4, <2>5, GameEffect
  <1>. QED BY <1>2 DEF ReceiptsShown, Contains

(* The fourth group is inductive. *)
LEMMA RecoveryStep ==
  ASSUME IInv, IInv', GameInv, OwnerInv, CommandsBound, RecoveryInv, [Next]_vars
  PROVE  RecoveryInv'
  BY TerminatorStep, BootAgreesStep, ReceiptsShownStep DEF RecoveryInv, OwnerInv
-----------------------------------------------------------------------------
(* Terminations are justified by what the instance shows. *)

(* Nothing is appended to a game that is over. *)
LEMMA OverQuiet ==
  ASSUME IInv, IInv', AppendLegal, [Next]_vars, LivePhase(Moves) \notin {"BIDDING", "PLAYING"}
  PROVE  UNCHANGED actions /\ Moves' = Moves
  <1>1. TypeOK
    BY DEF IInv
  <1>2. ASSUME NEW t \in Thread, Appends(t) PROVE FALSE
    BY <1>2, AppendGrows DEF Legal
  <1>3. UNCHANGED actions
    BY <1>1, <1>2, JournalGrows
  <1>. QED BY <1>3 DEF Moves

(* Nothing is appended to a hand that was terminated. *)
LEMMA EndedQuiet ==
  ASSUME IInv, IInv', AppendLegal, HoldersWrite, Fenced, [Next]_vars,
         handPhase = "ABORTED" => LivePhase(Moves) = "NO_LANDLORD",
         handPhase \in {"ABORTED", "EXPIRED"}
  PROVE  UNCHANGED actions /\ Moves' = Moves
  <1>1. TypeOK
    BY DEF IInv
  <1>2. CASE handPhase = "ABORTED"
    BY <1>2, OverQuiet
  <1>3. CASE handPhase = "EXPIRED"
    <2>1. ASSUME NEW t \in Thread, Appends(t) PROVE FALSE
      <3>1. threads[t].pc = "append" /\ writer.epoch = epochs[threads[t].home]
        BY <2>1 DEF Appends, Appendable
      <3>2. epochs[threads[t].home] # 0
        BY <3>1 DEF HoldersWrite, Holds, Writable, Contains
      <3>. QED BY <1>3, <3>1, <3>2 DEF Fenced
    <2>2. UNCHANGED actions
      BY <1>1, <2>1, JournalGrows
    <2>. QED BY <2>2 DEF Moves
  <1>. QED BY <1>2, <1>3

WholeAfter(p) == epochs'[p] # 0 => Len(games'[p]) >= Len(actions')
JustifiedAfter(cmd, p) ==
    /\ cmd.reason # "participant_cancelled"
    /\ cmd.reason = "no_landlord" => LivePhase(Moves') = "NO_LANDLORD" /\ WholeAfter(p)
    /\ Expires(cmd) /\ epochs'[p] # 0 => cmd.live <= Len(games'[p]) + 1

(* A whole game stays whole while nothing is appended. *)
LEMMA WholeKept ==
  ASSUME IInv, IInv', EpochInv, [Next]_vars, NEW p \in Proc, Whole(p), UNCHANGED actions
  PROVE  WholeAfter(p)
  <1>1. ASSUME epochs'[p] # 0, epochs[p] # 0, Len(games'[p]) >= Len(games[p])
        PROVE  Len(games'[p]) >= Len(actions')
    <2>1. Len(games[p]) >= Len(actions)
      BY <1>1 DEF Whole, Contains
    <2>2. Len(games[p]) \in Nat /\ Len(actions) \in Nat
      BY LenProperties DEF IInv, TypeOK
    <2>3. Len(games'[p]) \in Nat
      BY LenProperties DEF IInv, TypeOK
    <2>. QED BY <1>1, <2>1, <2>2, <2>3
  <1>. QED BY <1>1, GameGrew DEF WholeAfter

(* What justifies a termination keeps justifying it. *)
LEMMA JustifiedKept ==
  ASSUME IInv, IInv', AppendLegal, EpochInv, [Next]_vars,
         NEW cmd \in Commands, NEW p \in Proc, Justified(cmd, p), Due(cmd)
  PROVE  JustifiedAfter(cmd, p)
  <1>1. TypeOK /\ TypeOK' /\ LogIndexed /\ Watermark /\ ThreadsRun
    BY DEF IInv
  <1>2. CASE cmd.reason = "no_landlord"
    <2>1. LivePhase(Moves) = "NO_LANDLORD" /\ Whole(p)
      BY <1>2 DEF Justified, Passed
    <2>2. UNCHANGED actions /\ Moves' = Moves
      BY <2>1, OverQuiet
    <2>3. WholeAfter(p)
      BY <2>1, <2>2, WholeKept
    <2>. QED BY <1>2, <2>1, <2>2, <2>3 DEF JustifiedAfter, Expires
  <1>3. ASSUME Expires(cmd), epochs'[p] # 0 PROVE cmd.live <= Len(games'[p]) + 1
    <2>1. cmd.live \in 1..(Len(actions) + 1)
      BY <1>3 DEF Due
    <2>2. Len(actions) \in Nat /\ Len(actions') \in Nat /\ Len(games[p]) \in Nat
          /\ Len(games'[p]) \in Nat /\ cmd.live \in Nat
      BY <1>1, <2>1, LenProperties DEF TypeOK, Commands
    <2>3. Len(actions) <= Len(actions')
      BY <1>1, JournalSteps, LogStep DEF Grows
    <2>4. epochs[p] # 0 => cmd.live <= Len(games[p]) + 1
      BY <1>3 DEF Justified, Contains
    <2>. QED BY <1>3, <2>1, <2>2, <2>3, <2>4, GameGrew
  <1>. QED BY <1>2, <1>3 DEF Justified, JustifiedAfter

(* An instance that has the receipt of a passed-out auction shows it. *)
LEMMA ReceiptWhole ==
  ASSUME IInv, LogPlayed, ReceiptsTrue, ReceiptsShown, NEW p \in Proc, NEW r,
         NEW x \in Replays(p, r), x.phase = "NO_LANDLORD"
  PROVE  Whole(p)
  <1>1. TypeOK /\ ReceiptsLogged
    BY DEF IInv
  <1>2. x \in receipts[p] \/ ~Contains(p)
    BY DEF Replays, Known, Historic
  <1>3. ASSUME x \in receipts[p], Contains(p) PROVE Len(games[p]) >= Len(actions)
    <2>1. x.req.expected \in 1..Len(actions) /\ x.phase = LivePhase(Prefix(x.req.expected))
      BY <1>1, <1>3 DEF ReceiptsTrue, ReceiptsLogged, Logged
    <2>2. Len(actions) \in Nat /\ Len(games[p]) \in Nat
      BY <1>1, LenProperties DEF TypeOK
    <2>3. x.req.expected = Len(actions)
      BY <2>1, <2>2 DEF LogPlayed
    <2>4. x.req.expected <= Len(games[p])
      BY <1>3 DEF ReceiptsShown
    <2>. QED BY <2>2, <2>3, <2>4
  <1>. QED BY <1>2, <1>3 DEF Whole

(* A publisher that ends the game has the whole journal. *)
LEMMA PublishedWhole ==
  ASSUME IInv, LogPlayed, NEW t \in Thread, threads[t].pc = "publish",
         LivePhase(Append(games[threads[t].home], threads[t].req)) \notin {"BIDDING", "PLAYING"}
  PROVE  Append(games[threads[t].home], threads[t].req) = Moves
  <1> DEFINE r == threads[t].req
  <1>1. TypeOK
    BY DEF IInv
  <1>2. r.expected \in 1..Len(actions)
        /\ Append(games[threads[t].home], r) = Prefix(r.expected)
    BY PublishedPrefix
  <1>3. Len(actions) \in Nat
    BY <1>1, LenProperties DEF TypeOK
  <1>4. r.expected = Len(actions)
    BY <1>2, <1>3 DEF LogPlayed
  <1>. QED BY <1>1, <1>2, <1>4, PrefixWhole(* What a goroutine that is not idle may be about to terminate. *)
Terminates(thread) ==
    thread.pc # "idle" =>
        /\ JustifiedAfter(thread.cmd, thread.home)
        /\ thread.result = "NO_LANDLORD" => WholeAfter(thread.home)
        /\ thread.pc \in {"bind", "terminateTx"} => thread.cmd.reason \in {"no_landlord", "timeout"}
        /\ thread.pc = "finalize" => WholeAfter(thread.home)

(* A goroutine whose result is a passed-out auction still shows it. *)
LEMMA PassedKept ==
  ASSUME IInv, IInv', GameInv, EpochInv, TerminationsJustified, [Next]_vars, NEW u \in Thread,
         threads[u].pc # "idle", threads[u].result = "NO_LANDLORD"
  PROVE  /\ LivePhase(Moves') = "NO_LANDLORD"
         /\ WholeAfter(threads[u].home)
  <1>1. TypeOK /\ ThreadsRun /\ AppendLegal
    BY DEF IInv, GameInv
  <1>2. threads[u].home \in Proc
    BY <1>1, RunningType
  <1>3. LivePhase(Moves) = "NO_LANDLORD"
    BY DEF GameInv, ResultsReached, Reached
  <1>4. UNCHANGED actions /\ Moves' = Moves
    BY <1>1, <1>3, OverQuiet
  <1>5. Whole(threads[u].home)
    BY DEF TerminationsJustified
  <1>. QED BY <1>2, <1>3, <1>4, <1>5, WholeKept

(* A goroutine that terminates a hand holds all of its game. *)
LEMMA EndsWhole ==
  ASSUME IInv, IInv', EpochInv, ExpiryInv, TerminatorKept, TerminationsJustified, [Next]_vars,
         NEW u \in Thread, threads[u].pc # "idle", Ends(u, threads'[u])
  PROVE  WholeAfter(threads[u].home)
  <1> DEFINE p == threads[u].home  cmd == threads[u].cmd
  <1>1. TypeOK /\ ThreadsRun /\ Watermark
    BY DEF IInv
  <1>2. p \in Proc /\ cmd \in Commands
    BY <1>1, RunningType DEF Goroutines
  <1>3. /\ threads[u].pc = "terminateTx" /\ UNCHANGED actions
        /\ TerminateRows(u) \/ Accepted(u)
    BY DEF Ends, TerminateCommits
  <1>4. Justified(cmd, p) /\ cmd.reason \in {"no_landlord", "timeout"}
    BY <1>3 DEF TerminationsJustified
  <1>5. Len(actions) \in Nat /\ Len(games[p]) \in Nat /\ cmd.live \in Nat /\ writer.committed \in Nat
    BY <1>1, <1>2, LenProperties DEF TypeOK, Commands
  <1>6. CASE cmd.reason = "no_landlord"
    BY <1>2, <1>3, <1>4, <1>6, WholeKept DEF Justified, Passed
  <1>7. CASE cmd.reason = "timeout"
    <2>1. Len(actions) < cmd.live
      <3>1. CASE TerminateRows(u)
        <4>1. writer # NoWriter /\ ~(writer.committed > cmd.live)
          BY <1>7, <3>1 DEF TerminateRows, Progressed, Expires
        <4>2. writer.committed = Len(actions) + 1
          BY <1>1, <4>1 DEF Watermark
        <4>. QED BY <1>5, <4>1, <4>2
      <3>2. CASE Accepted(u)
        <4>1. terminator.by # "none" /\ terminator.cmd = cmd
          BY <1>2, <3>2, ProcAssumption DEF Accepted
        <4>2. handPhase = "EXPIRED"
          BY <1>7, <4>1 DEF TerminatorKept, Expires
        <4>. QED BY <4>1, <4>2 DEF ExpiryInv, ExpiryKeepsProgress
      <3>. QED BY <1>3, <3>1, <3>2
    <2>2. Contains(p) => cmd.live <= Len(games[p]) + 1
      BY <1>4, <1>7 DEF Justified, Expires
    <2>3. Whole(p)
      BY <1>5, <2>1, <2>2 DEF Whole
    <2>. QED BY <1>2, <1>3, <2>3, WholeKept
  <1>. QED BY <1>4, <1>6, <1>7

(* A goroutine goes on to terminate only what its game justifies. *)
LEMMA JustifiedWorks ==
  ASSUME IInv, IInv', GameInv, EpochInv, ExpiryInv, RecoveryInv, TerminationsJustified,
         [Next]_vars, NEW u \in Thread, threads[u].pc # "idle", WorksOn(u, threads'[u])
  PROVE  Terminates(threads'[u])
  <1> DEFINE p == threads[u].home  r == threads[u].req  thread == threads'[u]
  <1>1. /\ LogPlayed /\ AppendLegal /\ ReceiptsTrue /\ TypeOK /\ ThreadsRun /\ ReceiptsShown
        /\ TerminatorKept /\ Deadlines
    BY DEF GameInv, IInv, RecoveryInv, ExpiryInv
  <1>2. /\ p \in Proc /\ threads[u] \in Goroutines /\ thread.home = p
        /\ threads[u].cmd \in Commands /\ pending[p] \in Commands
    BY <1>1, RunningType DEF WorksOn, Goroutines, TypeOK
  <1>3. JustifiedAfter(threads[u].cmd, p)
    BY <1>1, <1>2, JustifiedKept DEF TerminationsJustified, Deadlines
  <1>4. threads[u].result = "NO_LANDLORD" => LivePhase(Moves') = "NO_LANDLORD" /\ WholeAfter(p)
    BY PassedKept
  <1>5. threads[u].pc \in {"bind", "terminateTx"} =>
          threads[u].cmd.reason \in {"no_landlord", "timeout"}
    BY DEF TerminationsJustified
  <1>6. CASE Recalls(u, thread)
    <2>1. thread.pc = "callback" /\ thread.cmd = threads[u].cmd /\ UNCHANGED actions
      BY <1>6, Zenon DEF Recalls, Enter, durable, journal
    <2>2. thread.result = "NO_LANDLORD" => Whole(p)
      BY <1>1, <1>2, <1>6, ReceiptWhole DEF Recalls
    <2>3. thread.result = "NO_LANDLORD" => WholeAfter(p)
      BY <1>2, <2>1, <2>2, WholeKept
    <2>. QED BY <1>2, <1>3, <2>1, <2>3 DEF Terminates
  <1>7. CASE Takes(u, thread) \/ Passes(u, thread) \/ Turns(u, thread)
    BY <1>2, <1>3, <1>4, <1>7 DEF Takes, Passes, Turns, GoesOn, Terminates
  <1>8. CASE Ends(u, thread)
    <2>1. WholeAfter(p)
      BY <1>1, <1>8, EndsWhole
    <2>. QED BY <1>2, <1>3, <1>4, <1>8, <2>1 DEF Ends, GoesOn, Terminates
  <1>9. CASE Shows(u, thread)
    <2> DEFINE moves == Append(games[p], r)
    <2>1. /\ threads[u].pc = "publish" /\ thread.pc = "callback" /\ thread.cmd = threads[u].cmd
          /\ thread.result = LivePhase(moves) /\ UNCHANGED actions
      BY <1>9 DEF Shows, Publish, journal
    <2>2. ASSUME thread.result = "NO_LANDLORD" PROVE WholeAfter(p)
      <3>1. moves = Moves
        BY <1>1, <2>1, <2>2, PublishedWhole
      <3>2. games' = [games EXCEPT ![p] = moves]
        BY <1>9, <2>1, <2>2 DEF Shows, Publish
      <3>3. games'[p] = Moves
        BY <1>1, <1>2, <3>1, <3>2 DEF TypeOK
      <3>4. Len(Moves) = Len(actions) /\ Len(actions) \in Nat
        BY <1>1, MovesType, LenProperties
      <3>. QED BY <2>1, <3>3, <3>4 DEF WholeAfter
    <2>. QED BY <1>2, <1>3, <2>1, <2>2 DEF Terminates
  <1>10. CASE Loads(u, thread)
    <2>1. /\ thread.pc = "advanceTx" /\ thread.result = threads[u].result
          /\ thread.cmd.reason = "advance"
      BY <1>10 DEF Loads, CommandOf
    <2>. QED BY <1>2, <1>4, <2>1 DEF Terminates, JustifiedAfter, Expires
  <1>11. CASE Aborts(u, thread)
    <2>1. /\ thread.pc = "bind" /\ thread.result = "NO_LANDLORD" /\ threads[u].result = "NO_LANDLORD"
          /\ thread.cmd.reason = "no_landlord"
      BY <1>2, <1>11 DEF Aborts, Commands
    <2>. QED BY <1>2, <1>4, <2>1 DEF Terminates, JustifiedAfter, Expires
  <1>12. CASE Binds(u, thread)
    <2>1. thread.pc = "terminateTx" /\ thread.result = threads[u].result /\ threads[u].pc = "bind"
      BY <1>12 DEF Binds, Bind
    <2>2. CASE thread.cmd = [threads[u].cmd EXCEPT !.phase = handPhase]
      <3>1. thread.cmd.reason = threads[u].cmd.reason /\ thread.cmd.live = threads[u].cmd.live
        BY <1>2, <2>2 DEF Commands
      <3>. QED BY <1>2, <1>3, <1>4, <1>5, <2>1, <3>1 DEF Terminates, JustifiedAfter, Expires
    <2>3. CASE thread.cmd = pending[p] /\ pending[p].reason = threads[u].cmd.reason
      <3>1. JustifiedAfter(pending[p], p)
        BY <1>1, <1>2, JustifiedKept DEF TerminationsJustified, Deadlines
      <3>. QED BY <1>2, <1>4, <1>5, <2>1, <2>3, <3>1 DEF Terminates
    <2>. QED BY <1>12, <2>2, <2>3 DEF Binds
  <1>. QED BY <1>6, <1>7, <1>8, <1>9, <1>10, <1>11, <1>12 DEF WorksOn

(* A goroutine starts with nothing to terminate but a deadline of its game. *)
LEMMA JustifiedBegins ==
  ASSUME IInv, IInv', GameInv, EpochInv, RecoveryInv, "cancel" \notin Faults, [Next]_vars,
         NEW u \in Thread, NEW p \in Proc, Begins(u, p, threads'[u])
  PROVE  Terminates(threads'[u])
  <1> DEFINE thread == threads'[u]
  <1>1. LogPlayed /\ ReceiptsTrue /\ ReceiptsShown /\ TypeOK
    BY DEF IInv, GameInv, RecoveryInv
  <1>2. thread.home = p
    BY DEF Begins
  <1>3. JustifiedAfter(NoCommand, p)
    BY DEF JustifiedAfter, NoCommand, CommandOf, Expires
  <1>4. CASE Answered(p, thread) /\ UNCHANGED actions
    <2>1. thread.result = "NO_LANDLORD" => Whole(p)
      BY <1>1, <1>4, ReceiptWhole DEF Answered
    <2>2. thread.result = "NO_LANDLORD" => WholeAfter(p)
      BY <1>4, <2>1, WholeKept
    <2>. QED BY <1>2, <1>3, <1>4, <2>2 DEF Answered, Terminates
  <1>5. CASE Queues(p, thread)
    BY <1>2, <1>3, <1>5 DEF Queues, Terminates
  <1>6. CASE Sweeps(u, p, thread) /\ UNCHANGED games
    <2>1. thread.cmd.reason = "timeout" /\ thread.cmd.live = Len(games'[p]) + 1
      BY <1>6 DEF Sweeps, CommandOf
    <2>2. Len(games'[p]) + 1 \in Nat
      BY LenProperties DEF IInv, TypeOK
    <2>3. JustifiedAfter(thread.cmd, p)
      BY <2>1, <2>2 DEF JustifiedAfter
    <2>. QED BY <1>2, <1>6, <2>1, <2>3 DEF Sweeps, Terminates
  <1>7. CASE Reconciles(p, thread)
    <2>1. epochs[p] = 0
      BY <1>7 DEF Reconciles, BootReplay, EpochInv, BootHolds
    <2>2. WholeAfter(p)
      BY <2>1, GameGrew DEF WholeAfter
    <2>. QED BY <1>2, <1>3, <1>7, <2>2 DEF Reconciles, Terminates
  <1>8. ~Cancels(thread)
    BY DEF Cancels
  <1>. QED BY <1>4, <1>5, <1>6, <1>7, <1>8, Zenon DEF Begins, durable, journal, runtime(* Terminations stay justified. *)
LEMMA TerminationsStep ==
  ASSUME IInv, IInv', GameInv, OwnerInv, ExpiryInv, RecoveryInv, "cancel" \notin Faults,
         TerminationsJustified, [Next]_vars
  PROVE  TerminationsJustified'
  <1>1. /\ TypeOK /\ ThreadsRun /\ AppendLegal /\ ResultsReached /\ EpochInv /\ HoldersWrite
        /\ TerminatorKept /\ Fenced /\ Deadlines
    BY DEF IInv, GameInv, OwnerInv, RecoveryInv, ExpiryInv
  <1>2. handPhase = "ABORTED" => LivePhase(Moves) = "NO_LANDLORD"
    BY DEF TerminationsJustified
  <1>3. ASSUME NEW u \in Thread PROVE Terminates(threads'[u])
    <2>1. CASE threads'[u] = threads[u] /\ threads[u].pc # "idle"
      <3>1. threads[u].home \in Proc /\ threads[u].cmd \in Commands
        BY <1>1, <2>1, RunningType DEF Goroutines
      <3>2. JustifiedAfter(threads[u].cmd, threads[u].home)
        BY <1>1, <2>1, <3>1, JustifiedKept DEF TerminationsJustified, Deadlines
      <3>3. threads[u].result = "NO_LANDLORD" => WholeAfter(threads[u].home)
        BY <1>1, <2>1, PassedKept
      <3>4. threads[u].pc = "finalize" => WholeAfter(threads[u].home)
        <4>1. ASSUME threads[u].pc = "finalize" PROVE WholeAfter(threads[u].home)
          <5>1. handPhase \in {"ABORTED", "EXPIRED"}
            BY <1>1, <4>1 DEF TerminatorKept
          <5>2. UNCHANGED actions
            BY <1>1, <1>2, <5>1, EndedQuiet
          <5>3. Whole(threads[u].home)
            BY <2>1, <4>1 DEF TerminationsJustified
          <5>. QED BY <1>1, <3>1, <5>2, <5>3, WholeKept
        <4>. QED BY <4>1
      <3>5. threads[u].pc \in {"bind", "terminateTx"} =>
              threads[u].cmd.reason \in {"no_landlord", "timeout"}
        BY <2>1 DEF TerminationsJustified
      <3>. QED BY <2>1, <3>2, <3>3, <3>4, <3>5 DEF Terminates
    <2>2. CASE threads'[u] = Resting \/ threads'[u].pc = "idle"
      BY <2>2 DEF Resting, Terminates
    <2>. QED BY <1>1, <2>1, <2>2, GoroutineStep, JustifiedWorks, JustifiedBegins
  <1>4. ASSUME NEW q \in Proc PROVE JustifiedAfter(pending'[q], q)
    <2>1. JustifiedAfter(pending[q], q)
      BY <1>1, JustifiedKept DEF TerminationsJustified, Deadlines, TypeOK
    <2>2. JustifiedAfter(NoCommand, q)
      BY DEF JustifiedAfter, NoCommand, CommandOf, Expires
    <2>3. ASSUME NEW t \in Thread, Bind(t), threads[t].home = q
          PROVE  JustifiedAfter([threads[t].cmd EXCEPT !.phase = handPhase], q)
      <3> DEFINE cmd == threads[t].cmd  bound == [cmd EXCEPT !.phase = handPhase]
      <3>1. threads[t].pc # "idle" /\ cmd \in Commands
        BY <1>1, <2>3 DEF Bind, TypeOK, Goroutines
      <3>2. JustifiedAfter(cmd, q)
        BY <1>1, <2>3, <3>1, JustifiedKept DEF TerminationsJustified, Deadlines
      <3>3. bound.reason = cmd.reason /\ bound.live = cmd.live
        BY <3>1 DEF Commands
      <3> HIDE DEF bound
      <3>4. JustifiedAfter(bound, q)
        BY <3>2, <3>3 DEF JustifiedAfter, Expires
      <3>. QED BY <3>4 DEF bound
    <2>4. \/ pending'[q] = pending[q] \/ pending'[q] = NoCommand
          \/ \E t \in Thread : /\ Bind(t) /\ threads[t].home = q
                             /\ pending'[q] = [threads[t].cmd EXCEPT !.phase = handPhase]
      BY <1>1, PendingEffect
    <2>. QED BY <2>1, <2>2, <2>3, <2>4
  <1>5. ASSUME handPhase' = "ABORTED" PROVE LivePhase(Moves') = "NO_LANDLORD"
    <2>1. CASE UNCHANGED handPhase
      BY <1>1, <1>2, <1>5, <2>1, OverQuiet
    <2>2. ASSUME NEW t \in Thread, Advancing(t) PROVE FALSE
      <3>1. threads[t].cmd.phase \in DOMAIN NextPhase
        BY <1>1, <2>2 DEF Advancing, ThreadsRun, RunsOn
      <3>. QED BY <1>5, <2>2, <3>1 DEF Advancing, NextPhase
    <2>3. ASSUME NEW t \in Thread, Terminating(t) PROVE LivePhase(Moves') = "NO_LANDLORD"
      <3>1. threads[t].cmd.reason # "timeout" /\ threads[t].pc = "terminateTx"
        BY <1>5, <2>3 DEF Terminating, TerminateRows, Expires
      <3>2. LivePhase(Moves) = "NO_LANDLORD"
        BY <3>1 DEF TerminationsJustified, Justified, Passed
      <3>. QED BY <1>1, <3>2, OverQuiet
    <2>. QED BY <1>5, <2>1, <2>2, <2>3, PhaseStep
  <1>. QED BY <1>3, <1>4, <1>5
           DEF TerminationsJustified, Terminates, Justified, JustifiedAfter, Passed, Whole,
               WholeAfter, Contains

-----------------------------------------------------------------------------
(* Final records tell how the hand ended. *)

(* The record a termination owes. *)
Owed(t) ==
    LET p == threads[t].home
    IN  IF final[p] # NoRecord THEN final[p] ELSE Aborted(games[p])

(* Where a record comes from: a won game that is published, a terminated   *)
(* hand that is finalized, or a recovery.                                  *)
RecordFrom(record) ==
    \/ \E t \in Thread :
         LET moves == Append(games[threads[t].home], threads[t].req)
         IN  Publish(t) /\ LivePhase(moves) = "COMPLETED" /\ record = Completed(moves)
    \/ \E t \in Thread : Finalize(t) /\ Contains(threads[t].home) /\ record = Owed(t)
    \/ \E p \in Proc : BootReplay(p) /\ record # NoRecord /\ record = RecoveredRecord(boot[p].phase)

LEMMA ArchiveFrom ==
  ASSUME [Next]_vars
  PROVE  archive' = archive \/ RecordFrom(archive')
  <1> DEFINE Goal == archive' = archive \/ RecordFrom(archive')
  <1>1. \A record : ArchiveOk(record) \/ ArchiveFails(record) => archive' \in {archive, record}
    BY DEF ArchiveOk, ArchiveFails
  <1>2. ASSUME NEW t \in Thread, Publish(t) PROVE Goal
    <2> DEFINE moves == Append(games[threads[t].home], threads[t].req)
    <2>1. \/ UNCHANGED archive
          \/ LivePhase(moves) = "COMPLETED" /\ (ArchiveOk(Completed(moves)) \/ ArchiveFails(Completed(moves)))
      BY <1>2, Zenon DEF Publish
    <2>. QED BY <1>1, <1>2, <2>1 DEF RecordFrom
  <1>3. ASSUME NEW t \in Thread, Finalize(t) PROVE Goal
    <2>1. \/ UNCHANGED archive
          \/ Contains(threads[t].home) /\ (ArchiveOk(Owed(t)) \/ ArchiveFails(Owed(t)))
      BY <1>3, Zenon DEF Finalize, Owed
    <2>. QED BY <1>1, <1>3, <2>1 DEF RecordFrom
  <1>4. ASSUME NEW p \in Proc, BootReplay(p) PROVE Goal
    <2> DEFINE record == RecoveredRecord(boot[p].phase)
    <2>1. UNCHANGED archive \/ (record # NoRecord /\ (ArchiveOk(record) \/ ArchiveFails(record)))
      BY <1>4, Zenon DEF BootReplay
    <2>. QED BY <1>1, <1>4, <2>1 DEF RecordFrom
  <1>5. ASSUME NEW p \in Proc, ProcNext(p), ~BootReplay(p) PROVE UNCHANGED archive
    BY <1>5, Zenon DEF ProcNext, DealStart, DealCommit, DealError, RollbackStart, Evict,
       BootLoad, BootAcquire, Crash, durable
  <1>6. ASSUME NEW t \in Thread, ThreadNext(t), ~Publish(t), ~Finalize(t) PROVE UNCHANGED archive
    BY <1>6, Zenon DEF ThreadNext, Enter, AppendCommits, AppendRefused, AppendAmbiguous, Callback,
       AdvanceLoad, AdvanceCommits, AdvanceFails, Bind, TerminateCommits, TerminateYields,
       TerminateFails, Reconcile, durable
  <1>7. ASSUME NEW t \in Thread, NEW p \in Proc, StartNext(t, p) PROVE UNCHANGED archive
    BY <1>7, Zenon DEF StartNext, Cancel, Sweep, SubmitLive, durable
  <1>8. UNCHANGED vars => UNCHANGED archive
    BY DEF vars, durable
  <1> HIDE DEF Goal
  <1>9. (UNCHANGED archive) => Goal
    BY DEF Goal
  <1>10. Goal
    BY <1>2, <1>3, <1>4, <1>5, <1>6, <1>7, <1>8, <1>9, Zenon DEF Next
  <1>. QED BY <1>10 DEF Goal

(* The same of the record an instance has yet to archive. *)
LEMMA FinalFrom ==
  ASSUME TypeOK, [Next]_vars, NEW q \in Proc
  PROVE  final'[q] \in {final[q], NoRecord} \/ RecordFrom(final'[q])
  <1> DEFINE Goal == final'[q] \in {final[q], NoRecord} \/ RecordFrom(final'[q])
  <1>1. ASSUME NEW t \in Thread, Publish(t) PROVE Goal
    <2> DEFINE moves == Append(games[threads[t].home], threads[t].req)
               record == Completed(moves)
    <2>1. \/ UNCHANGED final
          \/ final' = [final EXCEPT ![threads[t].home] = NoRecord]
          \/ LivePhase(moves) = "COMPLETED" /\ final' = [final EXCEPT ![threads[t].home] = record]
      BY <1>1, Zenon DEF Publish, Retire
    <2> HIDE DEF record
    <2>2. final'[q] \in {final[q], NoRecord} \/ (final'[q] = record /\ LivePhase(moves) = "COMPLETED")
      BY <2>1 DEF TypeOK
    <2>. QED BY <1>1, <2>2 DEF RecordFrom, record
  <1>2. ASSUME NEW t \in Thread, Finalize(t) PROVE Goal
    <2>1. \/ UNCHANGED final
          \/ final' = [final EXCEPT ![threads[t].home] = NoRecord]
          \/ Contains(threads[t].home) /\ final' = [final EXCEPT ![threads[t].home] = Owed(t)]
      BY <1>2, Zenon DEF Finalize, Retire, Owed
    <2>2. final'[q] \in {final[q], NoRecord} \/ (final'[q] = Owed(t) /\ Contains(threads[t].home))
      BY <2>1 DEF TypeOK
    <2>. QED BY <1>2, <2>2 DEF RecordFrom
  <1>3. ASSUME NEW p \in Proc, ProcNext(p) PROVE Goal
    <2>1. UNCHANGED final \/ final' = [final EXCEPT ![p] = NoRecord]
      BY <1>3, Zenon DEF ProcNext, DealStart, DealCommit, DealError, RollbackStart, Evict,
         BootLoad, BootAcquire, BootReplay, Crash, Retire, runtime
    <2>. QED BY <2>1 DEF TypeOK
  <1>4. ASSUME NEW t \in Thread, ThreadNext(t), ~Publish(t), ~Finalize(t) PROVE UNCHANGED final
    BY <1>4, Zenon DEF ThreadNext, Enter, AppendCommits, AppendRefused, AppendAmbiguous, Callback,
       AdvanceLoad, AdvanceCommits, AdvanceFails, Bind, TerminateCommits, TerminateYields,
       TerminateFails, Reconcile, runtime
  <1>5. ASSUME NEW t \in Thread, NEW p \in Proc, StartNext(t, p) PROVE UNCHANGED final
    BY <1>5, Zenon DEF StartNext, Cancel, Sweep, SubmitLive, runtime
  <1>6. UNCHANGED vars => UNCHANGED final
    BY DEF vars, runtime
  <1>7. (UNCHANGED final) => Goal
    OBVIOUS
  <1> HIDE DEF Goal
  <1>8. Goal
    BY <1>1, <1>2, <1>3, <1>4, <1>5, <1>6, <1>7, Zenon DEF Next
  <1>. QED BY <1>8 DEF Goal

TellsAfter(record) ==
    /\ record.status = "NONE" => record = NoRecord
    /\ record.status = "COMPLETED" =>
         record = Completed(Moves') /\ LivePhase(Moves') = "COMPLETED"
    /\ record.status = "ABORTED" =>
         record = Aborted(Moves') /\ handPhase' \in {"ABORTED", "EXPIRED"}

(* Final records keep telling how the hand ended. *)
LEMMA RecordsStep ==
  ASSUME IInv, IInv', GameInv, OwnerInv, ExpiryInv, RecoveryInv, TerminationsJustified,
         RecordsTell, [Next]_vars
  PROVE  RecordsTell'
  <1>1. /\ TypeOK /\ ThreadsRun /\ AppendLegal /\ LogPlayed /\ EpochInv /\ HoldersWrite
        /\ TerminatorKept /\ BootAgrees /\ Fenced /\ CommandsBound /\ PublishedIsCommitted
    BY DEF IInv, GameInv, OwnerInv, RecoveryInv, ExpiryInv
  <1>2. handPhase = "ABORTED" => LivePhase(Moves) = "NO_LANDLORD"
    BY DEF TerminationsJustified
  <1>3. handPhase \in {"ABORTED", "EXPIRED"} => Moves' = Moves /\ UNCHANGED handPhase
    BY <1>1, <1>2, EndedQuiet, EndedStays
  <1>4. LivePhase(Moves) = "COMPLETED" => Moves' = Moves
    BY <1>1, OverQuiet
  <1>5. ASSUME NEW record, Tells(record) PROVE TellsAfter(record)
    BY <1>3, <1>4, <1>5 DEF Tells, TellsAfter
  <1>6. \A moves : Completed(moves).status = "COMPLETED" /\ Aborted(moves).status = "ABORTED"
    BY DEF Completed, Aborted
  <1>7. ASSUME NEW record, RecordFrom(record) PROVE Tells(record)
    <2>1. ASSUME NEW t \in Thread, Publish(t),
                 LivePhase(Append(games[threads[t].home], threads[t].req)) = "COMPLETED"
          PROVE  Tells(Completed(Append(games[threads[t].home], threads[t].req)))
      <3>1. threads[t].pc = "publish"
        BY <2>1 DEF Publish
      <3>2. Append(games[threads[t].home], threads[t].req) = Moves
        BY <1>1, <2>1, <3>1, PublishedWhole
      <3>. QED BY <1>6, <2>1, <3>2 DEF Tells
    <2>2. ASSUME NEW t \in Thread, Finalize(t), Contains(threads[t].home) PROVE Tells(Owed(t))
      <3> DEFINE p == threads[t].home
      <3>1. threads[t].pc = "finalize"
        BY <2>2 DEF Finalize
      <3>2. p \in Proc /\ games[p] \in Seq(Requests)
        BY <1>1, <3>1, RunningType DEF TypeOK
      <3>3. handPhase \in {"ABORTED", "EXPIRED"} /\ Whole(p)
        BY <1>1, <3>1 DEF TerminatorKept, TerminationsJustified
      <3>4. games[p] = Moves
        BY <1>1, <2>2, <3>2, <3>3, CommittedWhole DEF PublishedIsCommitted, Committed, Whole
      <3>5. Tells(Aborted(games[p]))
        BY <1>6, <3>3, <3>4 DEF Tells
      <3>. QED BY <3>2, <3>5 DEF Owed, RecordsTell
    <2>3. ASSUME NEW p \in Proc, BootReplay(p), RecoveredRecord(boot[p].phase) # NoRecord
          PROVE  Tells(RecoveredRecord(boot[p].phase))
      <3>1. server[p] = "acquired"
        BY <2>3 DEF BootReplay
      <3>2. boot[p].phase \in {"ABORTED", "EXPIRED"} => handPhase = boot[p].phase
        BY <1>1, <3>1 DEF BootAgrees
      <3>. QED BY <1>6, <2>3, <3>2 DEF RecoveredRecord, Tells
    <2>. QED BY <1>7, <2>1, <2>2, <2>3 DEF RecordFrom
  <1>8. Tells(NoRecord)
    BY DEF Tells, NoRecord
  <1>9. TellsAfter(archive')
    BY <1>5, <1>7, ArchiveFrom DEF RecordsTell
  <1>10. ASSUME NEW q \in Proc PROVE TellsAfter(final'[q])
    BY <1>1, <1>5, <1>7, <1>8, FinalFrom DEF RecordsTell
  <1>. QED BY <1>9, <1>10 DEF RecordsTell, Tells, TellsAfter

(* The last group is inductive. *)
LEMMA ArchiveStep ==
  ASSUME IInv, IInv', GameInv, OwnerInv, ExpiryInv, RecoveryInv, ArchiveInv, [Next]_vars
  PROVE  ArchiveInv'
  BY TerminationsStep, RecordsStep DEF ArchiveInv-----------------------------------------------------------------------------
(* The theorems on a live hand. *)

LEMMA HandInit == ASSUME Init PROVE HandInv
  <1>1. IInv /\ TypeOK
    BY InitInvariant DEF IInv
  <1>2. /\ \A t \in Thread : threads[t] = Resting
        /\ \A p \in Proc : /\ epochs[p] = 0 /\ boot[p] = NotLoaded /\ server[p] = "down"
                           /\ pending[p] = NoCommand /\ dealing[p] = "none" /\ receipts[p] = {}
                           /\ final[p] = NoRecord
        /\ actions = <<>> /\ Len(actions) = 0 /\ handPhase = "DEALING" /\ archive = NoRecord
        /\ terminator.by = "none" /\ writer = NoWriter
    BY DEF Init, Unterminated
  <1>3. /\ Resting.pc = "idle" /\ Resting.cmd = NoCommand /\ NoCommand.phase = "DEALING"
        /\ NoCommand.reason = "none" /\ NotLoaded.epoch = 0 /\ NoRecord.status = "NONE"
    BY DEF Resting, NoCommand, CommandOf, NotLoaded, NoRecord
  <1>4. Prefix(0) = <<>> /\ LivePhase(Prefix(0)) = "BIDDING"
    <2>1. Prefix(0) \in Seq(Requests) /\ Len(Prefix(0)) = 0
      BY <1>1, <1>2, PrefixIs
    <2>. QED BY <2>1, EmptySeq, EmptyPhase
  <1>5. LogPlayed
    <2>1. 0..Len(actions) = {0}
      BY <1>2
    <2>. QED BY <1>2, <1>4, <2>1 DEF LogPlayed, Reached
  <1>6. GameInv
    BY <1>2, <1>3, <1>5 DEF GameInv, AppendLegal, ResultsReached, ReceiptsTrue, HandFollowsLog
  <1>7. OwnerInv
    <2>1. EpochInv
      BY <1>2, <1>3 DEF EpochInv, EpochsBounded, BootHolds, ClaimsDistinct, DealOwner
    <2>2. HoldersWrite /\ OwnersCurrent /\ AppendsNew
      BY <1>2, <1>3 DEF HoldersWrite, Holds, OwnersCurrent, Owns, Writable, Contains, AppendsNew
    <2>. QED BY <2>1, <2>2 DEF OwnerInv
  <1>8. ExpiryInv
    BY <1>2, <1>3 DEF ExpiryInv, CommandsBound, Terminal, Deadlines, Due, Expires, Fenced,
                      ExpiryKeepsProgress
  <1>9. RecoveryInv
    BY <1>2, <1>3 DEF RecoveryInv, TerminatorKept, BootAgrees, ReceiptsShown
  <1>10. ArchiveInv
    BY <1>2, <1>3 DEF ArchiveInv, TerminationsJustified, Justified, Expires, RecordsTell, Tells
  <1>. QED BY <1>1, <1>6, <1>7, <1>8, <1>9, <1>10 DEF HandInv

LEMMA HandInvStep == ASSUME HandInv, [Next]_vars PROVE HandInv'
  <1>1. IInv /\ GameInv /\ OwnerInv /\ ExpiryInv /\ RecoveryInv /\ ArchiveInv
        /\ AppendLegal /\ CommandsBound
    BY DEF HandInv, GameInv, ExpiryInv
  <1>2. IInv'
    BY <1>1, InvariantStep
  <1>. QED BY <1>1, <1>2, GameStep, OwnerStep, ExpiryStep, RecoveryStep, ArchiveStep DEF HandInv

(* Every reachable state satisfies the whole invariant: the journal is a   *)
(* play of the game, one instance owns it and has all of it in memory, and *)
(* phases, startups and final records agree with it.                       *)
THEOREM HandInvariant == Spec => []HandInv
  <1>. QED BY HandInit, HandInvStep, PTL DEF Spec

(* However goroutines, crashes and takeovers interleave, the aggregate     *)
(* never runs ahead of the moves in the journal.                           *)
THEOREM HandFollows == Spec => []HandFollowsLog
  <1>1. HandInv => HandFollowsLog
    BY DEF HandInv, GameInv
  <1>. QED BY <1>1, HandInvariant, PTL

(* An expiry never overtakes a move that was committed before it, and      *)
(* never a decided game, for any number of instances and deadlines.        *)
THEOREM ExpiryKeeps == Spec => []ExpiryKeepsProgress
  <1>1. HandInv => ExpiryKeepsProgress
    BY DEF HandInv, ExpiryInv
  <1>. QED BY <1>1, HandInvariant, PTL

(* No two instances ever write with the same epoch. *)
THEOREM OneOwner == Spec => []SingleOwner
  <1>1. HandInv => SingleOwner
    BY DEF HandInv, OwnerInv, EpochInv, ClaimsDistinct, SingleOwner, Contains
  <1>. QED BY <1>1, HandInvariant, PTL

(* The owner of the epoch has the whole journal and every receipt in       *)
(* memory when its stripe is free, however it came to own the hand.        *)
THEOREM OwnerCurrent == Spec => []OwnerIsCurrent
  <1>1. ASSUME HandInv PROVE OwnerIsCurrent
    BY <1>1 DEF HandInv, OwnerInv, OwnersCurrent, Owns, Publishes, OwnerIsCurrent, StripeFree
  <1>. QED BY <1>1, HandInvariant, PTL

(* The journal refuses nobody but a fenced instance. *)
THEOREM OwnerAccepted == Spec => []OwnerAppendAccepted
  <1>1. ASSUME HandInv PROVE OwnerAppendAccepted
    <2>1. /\ TypeOK /\ Watermark /\ ThreadsRun /\ StripeExclusive /\ NextInGame
          /\ HoldersWrite /\ OwnersCurrent /\ AppendsNew
      BY <1>1 DEF HandInv, IInv, OwnerInv
    <2>2. ASSUME NEW t \in Thread, threads[t].pc = "append",
                 writer.epoch = epochs[threads[t].home]
          PROVE  Appendable(threads[t].home, threads[t].req)
      <3> DEFINE p == threads[t].home  r == threads[t].req
      <3>1. p \in Proc /\ Writable(p) /\ r.expected = Len(games[p]) + 1
        BY <2>1, <2>2, RunningType DEF HoldersWrite, Holds, NextInGame
      <3>2. \A u \in Thread : ~Publishes(u, p)
        BY <2>1, <2>2 DEF StripeExclusive, Holds, Publishes
      <3>3. games[p] = Moves
        BY <2>1, <2>2, <3>1, <3>2 DEF OwnersCurrent, Owns
      <3>4. Len(Moves) = Len(actions)
        BY <2>1, MovesType
      <3>5. writer # NoWriter
        BY <2>2, <3>1 DEF Writable, Contains, NoWriter
      <3>6. writer.committed = r.expected
        BY <2>1, <3>1, <3>3, <3>4, <3>5 DEF Watermark
      <3>7. r.id \notin Ids
        BY <2>1, <2>2 DEF AppendsNew
      <3>. QED BY <2>2, <3>6, <3>7 DEF Appendable
    <2>. QED BY <2>2 DEF OwnerAppendAccepted
  <1>. QED BY <1>1, HandInvariant, PTL

(* What a terminated hand's journal says, unless a participant cancels. *)
LEMMA TerminatedUndecided ==
  ASSUME HandInv, "cancel" \notin Faults, handPhase \in {"ABORTED", "EXPIRED"}
  PROVE  LivePhase(Moves) # "COMPLETED"
  BY DEF HandInv, ArchiveInv, TerminationsJustified, ExpiryInv, ExpiryKeepsProgress

(* Unless a participant cancels, the final record tells how the hand ended *)
(* and no other end overtakes it, whatever archives fail or are retried.   *)
THEOREM ArchiveAgreesAlways == "cancel" \notin Faults => (Spec => []ArchiveAgrees)
  <1> SUFFICES ASSUME "cancel" \notin Faults PROVE Spec => []ArchiveAgrees
    OBVIOUS
  <1>1. ASSUME HandInv PROVE ArchiveAgrees
    <2>1. Tells(archive)
      BY <1>1 DEF HandInv, ArchiveInv, RecordsTell
    <2>. QED BY <1>1, <2>1, TerminatedUndecided DEF Tells, ArchiveAgrees
  <1>2. HandInv => ArchiveAgrees
    BY <1>1
  <1>. QED BY <1>2, HandInvariant, PTL

(* Unless a participant cancels, a startup with the newest epoch passes    *)
(* verification and meets no foreign final record, after any crashes.      *)
THEOREM RecoveryAcceptsAlways == "cancel" \notin Faults => (Spec => []RecoveryAccepts)
  <1> SUFFICES ASSUME "cancel" \notin Faults PROVE Spec => []RecoveryAccepts
    OBVIOUS
  <1>1. ASSUME HandInv, NEW p \in Proc, server[p] = "acquired", boot[p].epoch = writer.epoch
        PROVE  /\ Verified(boot[p])
               /\ RecoveredRecord(boot[p].phase) # NoRecord => Archivable(RecoveredRecord(boot[p].phase))
    <2> DEFINE phase == boot[p].phase
    <2>1. TypeOK /\ Watermark /\ BootHolds /\ BootAgrees /\ Tells(archive)
      BY <1>1 DEF HandInv, IInv, OwnerInv, EpochInv, RecoveryInv, ArchiveInv, RecordsTell
    <2>2. phase \in HandPhases \ {"DEALING"} /\ LivePhase(Moves) \in LivePhases
      BY <1>1, <2>1, LivePhaseType DEF TypeOK, BootAgrees
    <2>3. phase \in {"ABORTED", "EXPIRED"} =>
            handPhase \in {"ABORTED", "EXPIRED"} /\ LivePhase(Moves) # "COMPLETED"
      BY <1>1, <2>1, TerminatedUndecided DEF BootAgrees
    <2>4. boot[p].committed = Len(actions) + 1
      <3>1. writer # NoWriter
        BY <1>1, <2>1 DEF BootHolds, NoWriter
      <3>. QED BY <1>1, <2>1, <3>1 DEF BootAgrees, Watermark
    <2>5. ReplayAgrees(phase, LivePhase(Moves))
      BY <1>1, <2>1, <2>2, <2>3 DEF BootAgrees, ReplayAgrees, HandPhases
    <2>6. ASSUME RecoveredRecord(phase) # NoRecord PROVE Archivable(RecoveredRecord(phase))
      <3>1. archive.status \in {"NONE", "COMPLETED", "ABORTED"}
        BY <2>1 DEF TypeOK, Records
      <3>2. archive.status = "COMPLETED" => RecoveredRecord(phase) = archive
        BY <2>1, <2>3 DEF Tells, RecoveredRecord
      <3>3. archive.status = "ABORTED" => RecoveredRecord(phase) = archive
        BY <1>1, <2>1, <2>6, TerminatedUndecided DEF Tells, RecoveredRecord
      <3>. QED BY <2>1, <3>1, <3>2, <3>3 DEF Tells, Archivable
    <2>. QED BY <2>4, <2>5, <2>6 DEF Verified
  <1>2. HandInv => RecoveryAccepts
    BY <1>1 DEF RecoveryAccepts
  <1>. QED BY <1>2, HandInvariant, PTL-----------------------------------------------------------------------------
(* The refinement of LiveLedger. *)

Sealed == handPhase \in {"EXPIRED", "COMPLETED"}

(* A sealed hand stays sealed. *)
LEMMA SealStays ==
  ASSUME IInv, CommandsBound, [Next]_vars, Sealed
  PROVE  UNCHANGED handPhase
  <1>1. \A p \in Proc : dealing[p] # "created"
    BY DEF IInv, DealLocked, Sealed
  <1>2. ASSUME NEW t \in Thread PROVE ~Advancing(t)
    <2>1. threads[t].pc = "advanceTx" => threads[t].cmd.phase \in DOMAIN NextPhase
      BY DEF IInv, ThreadsRun, RunsOn
    <2>. QED BY <2>1 DEF Advancing, NextPhase, Sealed
  <1>3. ASSUME NEW t \in Thread PROVE ~Terminating(t)
    <2>1. Terminating(t) => handPhase = threads[t].cmd.phase
      BY DEF Terminating, TerminateRows
    <2>. QED BY <2>1 DEF CommandsBound, Terminal, Sealed
  <1>. QED BY <1>1, <1>2, <1>3, PhaseStep

(* An answer that reaches a client is of a request in the journal, and its *)
(* goroutine does not seal the hand in the same step.                      *)
LEMMA AckedEffect ==
  ASSUME IInv, ResultsReached, [Next]_vars
  PROVE  \/ UNCHANGED acked
         \/ \E t \in Thread :
              /\ threads[t].req \in Requests /\ Logged(threads[t].req)
              /\ acked' = acked \cup {threads[t].req}
              /\ UNCHANGED actions /\ Sealed' = Sealed
  <1> DEFINE Acks(t) ==
               /\ threads[t].req \in Requests /\ Logged(threads[t].req)
               /\ acked' = acked \cup {threads[t].req}
               /\ UNCHANGED actions /\ Sealed' = Sealed
             Goal == UNCHANGED acked \/ \E t \in Thread : Acks(t)
  <1>1. TypeOK /\ ThreadsRun /\ AnswersLogged
    BY DEF IInv
  <1>2. ASSUME NEW t \in Thread, ThreadNext(t), acked' # acked PROVE Acks(t)
    <2>1. Done(t) /\ threads[t].pc \notin {"idle", "queued", "append"} /\ UNCHANGED actions
      BY <1>2, Zenon DEF ThreadNext, Enter, AppendCommits, AppendRefused, AppendAmbiguous, Publish,
         Callback, AdvanceLoad, AdvanceCommits, AdvanceFails, Bind, TerminateCommits,
         TerminateYields, TerminateFails, Finalize, Reconcile, Fail, durable, journal
    <2>2. threads[t].mode \in {"fresh", "historical"} /\ acked' = acked \cup {threads[t].req}
      BY <1>2, <2>1 DEF Done
    <2>3. threads[t].req \in Requests /\ Logged(threads[t].req)
      BY <1>1, <2>1, <2>2 DEF ThreadsRun, RunsOn, AnswersLogged
    <2>4. Sealed' = Sealed
      <3>1. CASE UNCHANGED handPhase
        BY <3>1 DEF Sealed
      <3>2. CASE AdvanceCommits(t)
        <4>1. threads[t].pc = "advanceTx" /\ threads[t].result # "COMPLETED"
          <5>1. threads[t].result = "COMPLETED" => UNCHANGED acked
            BY <3>2 DEF AdvanceCommits
          <5>. QED BY <1>2, <3>2, <5>1 DEF AdvanceCommits
        <4>2. threads[t].cmd.phase = "BIDDING"
          BY <4>1 DEF ResultsReached
        <4>3. handPhase = "BIDDING" /\ handPhase' = "PLAYING"
          BY <3>2, <4>2 DEF AdvanceCommits, NextPhase
        <4>. QED BY <4>3 DEF Sealed
      <3>3. UNCHANGED handPhase \/ AdvanceCommits(t)
        BY <1>2, Zenon DEF ThreadNext, Enter, AppendCommits, AppendRefused, AppendAmbiguous, Publish,
           Callback, AdvanceLoad, AdvanceFails, Bind, TerminateCommits,
           TerminateYields, TerminateFails, Finalize, Reconcile, Fail, durable
      <3>. QED BY <3>1, <3>2, <3>3
    <2>. QED BY <2>1, <2>2, <2>3, <2>4
  <1>3. ASSUME NEW p \in Proc, ProcNext(p) PROVE UNCHANGED acked
    BY <1>3, Zenon DEF ProcNext, DealStart, DealCommit, DealError, RollbackStart, Evict, BootLoad,
       BootAcquire, BootReplay, Crash
  <1>4. ASSUME NEW t \in Thread, NEW p \in Proc, StartNext(t, p) PROVE UNCHANGED acked
    BY <1>4, Zenon DEF StartNext, Cancel, Sweep, SubmitLive
  <1>5. UNCHANGED vars => UNCHANGED acked
    BY DEF vars
  <1> HIDE DEF Acks
  <1>6. Goal
    BY <1>2, <1>3, <1>4, <1>5, Zenon DEF Next
  <1>. QED BY <1>6 DEF Acks

(* A committed append is accepted by the ledger. *)
LEMMA AppendAccepts ==
  ASSUME HandInv, IInv', [Next]_vars, NEW t \in Thread, AppendCommits(t) \/ AppendAmbiguous(t),
         Appends(t)
  PROVE  Ledger!Next
  <1> DEFINE r == threads[t].req
  <1>1. /\ IInv /\ AppendLegal /\ HandFollowsLog /\ Fenced /\ HoldersWrite /\ TypeOK
    BY DEF HandInv, GameInv, ExpiryInv, OwnerInv, IInv
  <1>2. /\ r \in Requests /\ Legal(Moves, r) /\ r.id \notin Ids
        /\ Moves' = Append(Moves, r) /\ writer.epoch = epochs[threads[t].home]
    BY <1>1, AppendGrows
  <1>3. UNCHANGED <<handPhase, acked>>
    BY Zenon DEF AppendCommits, AppendAmbiguous, Fail
  <1>4. ~Sealed
    <2>1. handPhase # "COMPLETED"
      BY <1>1, <1>2 DEF HandFollowsLog, Legal
    <2>2. threads[t].pc = "append" /\ epochs[threads[t].home] # 0
      BY <1>1 DEF Appends, HoldersWrite, Holds, Writable, Contains
    <2>3. handPhase # "EXPIRED"
      BY <1>1, <1>2, <2>2 DEF Fenced
    <2>. QED BY <2>1, <2>3 DEF Sealed
  <1>5. r.expected = Len(Moves) + 1
    BY <1>2 DEF Legal
  <1>6. \A i \in 1..Len(Moves) : Moves[i].id # r.id
    <2>1. Len(Moves) = Len(actions)
      BY <1>1, MovesType
    <2>. QED BY <1>2, <2>1 DEF Moves, Ids
  <1>7. Ledger!Accept(r)
    BY <1>2, <1>3, <1>4, <1>5, <1>6 DEF Ledger!Accept, Sealed
  <1>. QED BY <1>2, <1>7 DEF Ledger!Next

(* Every step of a live hand is a step of the ledger or changes nothing a  *)
(* player can see.                                                         *)
LEMMA LedgerStep ==
  ASSUME HandInv, HandInv', [Next]_vars
  PROVE  [Ledger!Next]_(Ledger!ledgerVars)
  <1>1. IInv /\ IInv' /\ TypeOK /\ CommandsBound /\ ResultsReached
    BY DEF HandInv, IInv, ExpiryInv, GameInv
  <1>2. ASSUME NEW t \in Thread, AppendCommits(t) \/ AppendAmbiguous(t), Appends(t)
        PROVE  Ledger!Next
    BY <1>1, <1>2, AppendAccepts
  <1>3. CASE UNCHANGED actions
    <2>1. Moves' = Moves
      BY <1>3 DEF Moves
    <2>2. ASSUME NEW t \in Thread, threads[t].req \in Requests, Logged(threads[t].req),
                 acked' = acked \cup {threads[t].req}, Sealed' = Sealed
          PROVE  Ledger!Next
      <3>1. threads[t].req.expected \in 1..Len(Moves)
            /\ Moves[threads[t].req.expected] = threads[t].req
        BY <1>1, <2>2, MovesType DEF Logged, Moves
      <3>2. Ledger!Acknowledge(threads[t].req)
        BY <2>1, <2>2, <3>1 DEF Ledger!Acknowledge, Sealed
      <3>. QED BY <2>2, <3>2 DEF Ledger!Next
    <2>3. CASE UNCHANGED acked
      <3>1. CASE Sealed
        <4>1. UNCHANGED handPhase
          BY <1>1, <3>1, SealStays
        <4>. QED BY <2>1, <2>3, <4>1 DEF Ledger!ledgerVars
      <3>2. CASE ~Sealed /\ Sealed'
        <4>1. Ledger!Seal
          BY <2>1, <2>3, <3>2 DEF Ledger!Seal, Sealed
        <4>. QED BY <4>1 DEF Ledger!Next
      <3>3. CASE ~Sealed /\ ~Sealed'
        BY <2>1, <2>3, <3>3 DEF Ledger!ledgerVars, Sealed
      <3>. QED BY <3>1, <3>2, <3>3
    <2>. QED BY <1>1, <2>2, <2>3, AckedEffect
  <1>. QED BY <1>1, <1>2, <1>3, JournalGrows

(* A live hand implements the ledger its players are promised: whatever    *)
(* instances, epochs, appends, crashes and recoveries stand behind it, a   *)
(* move is accepted once and at its version, answered only once accepted,  *)
(* and never accepted after the hand is sealed.                            *)
THEOREM ImplementsLedger == Spec => LedgerSpec
  <1>1. Init => Ledger!Init
    <2> SUFFICES ASSUME Init PROVE Ledger!Init
      OBVIOUS
    <2>1. TypeOK /\ Len(actions) = 0 /\ acked = {} /\ handPhase = "DEALING"
      BY InitInvariant DEF Init, IInv
    <2>2. Moves = <<>>
      BY <2>1, MovesType, EmptySeq
    <2>. QED BY <2>1, <2>2 DEF Ledger!Init
  <1>. QED BY <1>1, LedgerStep, HandInvariant, PTL DEF Spec, LedgerSpec, Ledger!Spec
=============================================================================
