-------------------------- MODULE LiveOwnerProofs ---------------------------
(***************************************************************************)
(* The first three groups of LiveHandInvariants are inductive: the journal *)
(* is a play of the game that the aggregate follows, one instance at a     *)
(* time owns it and knows all of it, and expiry fences what it overtakes.  *)
(*                                                                         *)
(* The first section says what any step does to a goroutine, to the rows   *)
(* and to the game of an instance; the groups are proved from that.        *)
(***************************************************************************)
EXTENDS LiveHandProofs, LiveHandInvariants

-----------------------------------------------------------------------------
(* Moves, prefixes of the journal and phases. *)

(* A legal move follows a running game, and an auction that is closed with *)
(* a landlord stays so until the last card.                                *)
LEMMA LegalPhase ==
  ASSUME NEW s \in Seq(Requests), NEW r \in Requests, Legal(s, r)
  PROVE  /\ LivePhase(s) \in {"BIDDING", "PLAYING"}
         /\ LivePhase(s) = "PLAYING" => LivePhase(Append(s, r)) \in {"PLAYING", "COMPLETED"}
  <1>1. LivePhase(s) \in {"BIDDING", "PLAYING"}
    BY DEF Legal
  <1>2. ASSUME LivePhase(s) = "PLAYING"
        PROVE  LivePhase(Append(s, r)) \in {"PLAYING", "COMPLETED"}
    <2> DEFINE a == Append(s, r)
    <2>1. /\ Len(s) \in Nat /\ Len(a) = Len(s) + 1
          /\ \A i \in 1..Len(s) : a[i] = s[i]
      BY AppendProperties, LenProperties
    <2> HIDE DEF a
    <2>2. /\ Len(s) >= 3 \/ \E i \in 1..Len(s) : s[i].kind = "top"
          /\ \E i \in 1..Len(s) : s[i].kind # "pass"
      BY <1>2 DEF LivePhase
    <2>3. \A i \in 1..Len(s) : i \in 1..Len(a)
      BY <2>1
    <2>4. Len(a) >= 3 \/ \E i \in 1..Len(a) : a[i].kind = "top"
      BY <2>1, <2>2, <2>3
    <2>5. \E i \in 1..Len(a) : a[i].kind # "pass"
      BY <2>1, <2>2, <2>3
    <2>. QED BY <2>4, <2>5 DEF LivePhase, a
  <1>. QED BY <1>1, <1>2

(* The game starts with the auction. *)
LEMMA EmptyPhase == LivePhase(<<>>) = "BIDDING"
  BY DEF LivePhase

(* A prefix holds the first elements. *)
LEMMA PrefixElements ==
  ASSUME NEW S, NEW moves, NEW n \in Nat, \A i \in 1..n : moves[i] \in S
  PROVE  /\ SubSeq(moves, 1, n) \in Seq(S) /\ Len(SubSeq(moves, 1, n)) = n
         /\ \A i \in 1..n : SubSeq(moves, 1, n)[i] = moves[i]
  <1>1. n \in Int /\ 1 \in Int
    OBVIOUS
  <1>2. /\ SubSeq(moves, 1, n) \in Seq(S)
        /\ Len(SubSeq(moves, 1, n)) = IF 1 <= n THEN n - 1 + 1 ELSE 0
        /\ \A i \in 1..(n - 1 + 1) : SubSeq(moves, 1, n)[i] = moves[1 + i - 1]
    BY <1>1, SubSeqProperties
  <1>3. Len(SubSeq(moves, 1, n)) = n
    BY <1>2
  <1>4. \A i \in 1..n : SubSeq(moves, 1, n)[i] = moves[i]
    BY <1>2
  <1>. QED BY <1>2, <1>3, <1>4

(* The moves of rows, and a prefix of them. *)
LEMMA RowsPrefix ==
  ASSUME NEW rows \in Seq([req : Requests, epoch : Nat]), NEW n \in 0..Len(rows), NEW moves,
         moves = [i \in 1..Len(rows) |-> rows[i].req]
  PROVE  /\ SubSeq(moves, 1, n) \in Seq(Requests) /\ Len(SubSeq(moves, 1, n)) = n
         /\ \A i \in 1..n : SubSeq(moves, 1, n)[i] = rows[i].req
  <1>1. Len(rows) \in Nat /\ n \in Nat
    BY LenProperties
  <1>2. \A i \in 1..n : i \in 1..Len(rows)
    BY <1>1
  <1>3. \A i \in 1..Len(rows) : rows[i] \in [req : Requests, epoch : Nat]
    BY ElementOfSeq
  <1>4. \A i \in 1..n : moves[i] \in Requests /\ moves[i] = rows[i].req
    BY <1>2, <1>3
  <1>5. \A m : (\A i \in 1..n : m[i] \in Requests) =>
                /\ SubSeq(m, 1, n) \in Seq(Requests) /\ Len(SubSeq(m, 1, n)) = n
                /\ \A i \in 1..n : SubSeq(m, 1, n)[i] = m[i]
    BY <1>1, PrefixElements
  <1>6. /\ SubSeq(moves, 1, n) \in Seq(Requests) /\ Len(SubSeq(moves, 1, n)) = n
        /\ \A i \in 1..n : SubSeq(moves, 1, n)[i] = moves[i]
    BY <1>4, <1>5, Zenon
  <1>. QED BY <1>4, <1>6

(* A prefix of the journal holds its first rows. *)
LEMMA PrefixIs ==
  ASSUME TypeOK, NEW n \in 0..Len(actions)
  PROVE  /\ Prefix(n) \in Seq(Requests) /\ Len(Prefix(n)) = n
         /\ \A i \in 1..n : Prefix(n)[i] = actions[i].req
  <1>1. actions \in Seq([req : Requests, epoch : Nat]) /\ Moves = [i \in 1..Len(actions) |-> actions[i].req]
    BY DEF TypeOK, Moves
  <1>. QED BY <1>1, RowsPrefix DEF Prefix

(* The longest prefix is the journal. *)
LEMMA PrefixWhole == ASSUME TypeOK PROVE Prefix(Len(actions)) = Moves
  BY MovesType, SubSeqFull DEF Prefix

(* A game of committed moves is a prefix of the journal. *)
LEMMA CommittedPrefix ==
  ASSUME TypeOK, NEW g \in Seq(Requests), Committed(g)
  PROVE  Len(g) \in 0..Len(actions) /\ g = Prefix(Len(g))
  <1>1. Len(g) \in 0..Len(actions)
    BY LenProperties DEF Committed, TypeOK
  <1>2. /\ Prefix(Len(g)) \in Seq(Requests) /\ Len(Prefix(Len(g))) = Len(g)
        /\ \A i \in 1..Len(g) : Prefix(Len(g))[i] = actions[i].req
    BY <1>1, PrefixIs
  <1>3. \A i \in 1..Len(g) : g[i] = Prefix(Len(g))[i]
    BY <1>2 DEF Committed
  <1>4. g = Prefix(Len(g))
    BY <1>2, <1>3, SeqEqual
  <1>. QED BY <1>1, <1>4

(* A committed game as long as the journal is the journal. *)
LEMMA CommittedWhole ==
  ASSUME TypeOK, NEW g \in Seq(Requests), Committed(g), Len(g) >= Len(actions)
  PROVE  g = Moves
  <1>1. Len(g) \in 0..Len(actions) /\ g = Prefix(Len(g))
    BY CommittedPrefix
  <1>2. Len(g) = Len(actions)
    BY <1>1, LenProperties DEF TypeOK
  <1>. QED BY <1>1, <1>2, PrefixWhole

(* What the journal held, it holds at the same place. *)
LEMMA PrefixKept ==
  ASSUME TypeOK, TypeOK', Grows, NEW n \in 0..Len(actions)
  PROVE  n \in 0..Len(actions') /\ Prefix(n)' = Prefix(n)
  <1>1. Len(actions) \in Nat /\ Len(actions') \in Nat
    <2>1. actions \in Seq([req : Requests, epoch : Nat])
      BY DEF TypeOK
    <2>2. actions' \in Seq([req : Requests, epoch : Nat])
      BY DEF TypeOK
    <2>. QED BY <2>1, <2>2, LenProperties
  <1>2. n \in 0..Len(actions')
    BY <1>1 DEF Grows
  <1>3. /\ Prefix(n) \in Seq(Requests) /\ Len(Prefix(n)) = n
        /\ \A i \in 1..n : Prefix(n)[i] = actions[i].req
    BY PrefixIs
  <1>4. /\ actions' \in Seq([req : Requests, epoch : Nat])
        /\ Moves' = [i \in 1..Len(actions') |-> actions'[i].req]
    BY DEF TypeOK, Moves
  <1>5. /\ Prefix(n)' \in Seq(Requests) /\ Len(Prefix(n)') = n
        /\ \A i \in 1..n : Prefix(n)'[i] = actions'[i].req
    BY <1>2, <1>4, RowsPrefix DEF Prefix
  <1>6. \A i \in 1..n : Prefix(n)'[i] = Prefix(n)[i]
    BY <1>1, <1>3, <1>5 DEF Grows
  <1>7. Prefix(n)' = Prefix(n)
    BY <1>3, <1>5, <1>6, SeqEqual
  <1>. QED BY <1>2, <1>7

-----------------------------------------------------------------------------
(* What a step does to a goroutine. *)

Became(t, thread) == \A u \in Thread : threads'[u] = IF u = t THEN thread ELSE threads[u]

(* It goes on with the same request, result and command. *)
GoesOn(t, thread, label) ==
    /\ thread.pc = label /\ thread.mode = threads[t].mode
    /\ thread.result = threads[t].result /\ thread.cmd = threads[t].cmd

(* Under the stripe: a receipt answers, or the candidate is appended, and  *)
(* published once it is committed.                                         *)
Recalls(t, thread) ==
    /\ Enter(t) /\ thread.pc = "callback" /\ thread.mode = "historical"
    /\ thread.cmd = threads[t].cmd
    /\ \E x \in Replays(threads[t].home, threads[t].req) : thread.result = x.phase
Takes(t, thread) ==
    /\ Enter(t) /\ Replays(threads[t].home, threads[t].req) = {}
    /\ Playable(threads[t].home, threads[t].req) /\ GoesOn(t, thread, "append")
Passes(t, thread) == AppendCommits(t) /\ GoesOn(t, thread, "publish")
Shows(t, thread) ==
    /\ Publish(t) /\ thread.pc = "callback" /\ thread.mode = threads[t].mode
    /\ thread.cmd = threads[t].cmd
    /\ thread.result = LivePhase(Append(games[threads[t].home], threads[t].req))

(* Afterwards: the aggregate is advanced, or a termination bound and run. *)
Turns(t, thread) ==
    /\ Callback(t) \/ Reconcile(t) \/ AdvanceCommits(t)
    /\ GoesOn(t, thread, "advance") /\ threads[t].result \in {"PLAYING", "COMPLETED"}
Loads(t, thread) ==
    /\ AdvanceLoad(t) /\ Advances(threads[t]) /\ thread.pc = "advanceTx"
    /\ thread.mode = threads[t].mode /\ thread.result = threads[t].result
    /\ thread.cmd = CommandOf("advance", handPhase, 0)
Aborts(t, thread) ==
    /\ Callback(t) \/ Reconcile(t)
    /\ thread.pc = "bind" /\ thread.mode = threads[t].mode
    /\ thread.result = threads[t].result /\ threads[t].result = "NO_LANDLORD"
    /\ thread.cmd = [threads[t].cmd EXCEPT !.reason = "no_landlord"]
Binds(t, thread) ==
    /\ Bind(t) /\ thread.pc = "terminateTx" /\ thread.mode = threads[t].mode
    /\ thread.result = threads[t].result
    /\ \/ /\ pending[threads[t].home] = NoCommand /\ ~Terminal(handPhase)
          /\ thread.cmd = [threads[t].cmd EXCEPT !.phase = handPhase]
       \/ /\ thread.cmd = pending[threads[t].home]
          /\ pending[threads[t].home].reason = threads[t].cmd.reason
Ends(t, thread) == TerminateCommits(t) /\ GoesOn(t, thread, "finalize")

WorksOn(t, thread) ==
    /\ thread.home = threads[t].home /\ thread.req = threads[t].req
    /\ \/ Recalls(t, thread) \/ Takes(t, thread) \/ Passes(t, thread) \/ Shows(t, thread)
       \/ Turns(t, thread) \/ Loads(t, thread) \/ Aborts(t, thread) \/ Binds(t, thread)
       \/ Ends(t, thread)

(* Every step of a goroutine ends it or takes it one statement further. *)
LEMMA ThreadEffect ==
  ASSUME TypeOK, NEW t \in Thread, ThreadNext(t)
  PROVE  /\ threads[t].pc # "idle"
         /\ \E thread : Became(t, thread) /\ (thread = Resting \/ WorksOn(t, thread))
  <1> DEFINE p == threads[t].home  r == threads[t].req
             Goal == \E thread : Became(t, thread) /\ (thread = Resting \/ WorksOn(t, thread))
  <1>1. threads[t].pc # "idle" /\ threads[t] \in Goroutines
    BY DEF TypeOK, ThreadNext, Enter, AppendCommits, AppendRefused, AppendAmbiguous, Publish,
       Callback, AdvanceLoad, AdvanceCommits, AdvanceFails, Bind, TerminateCommits,
       TerminateYields, TerminateFails, Finalize, Reconcile
  <1>2. \A thread : threads' = [threads EXCEPT ![t] = thread] => Became(t, thread)
    BY DEF TypeOK, Became
  <1>3. ASSUME NEW label, Goto(t, label)
        PROVE  \E thread : /\ Became(t, thread) /\ GoesOn(t, thread, label)
                           /\ thread.home = p /\ thread.req = r
    <2> DEFINE thread == [threads[t] EXCEPT !.pc = label]
    <2>1. Became(t, thread)
      BY <1>2, <1>3 DEF Goto
    <2>2. GoesOn(t, thread, label) /\ thread.home = p /\ thread.req = r
      BY <1>1 DEF Goroutines, GoesOn
    <2>. QED BY <2>1, <2>2
  <1>4. Fail(t) \/ Done(t) => Became(t, Resting)
    BY <1>2 DEF Fail, Done
  <1>5. ASSUME Enter(t) PROVE Goal
    <2>1. ASSUME NEW x \in Replays(p, r),
                 threads' = [threads EXCEPT ![t] =
                    [@ EXCEPT !.pc = "callback", !.mode = "historical", !.result = x.phase]]
          PROVE  Goal
      <3> DEFINE thread == [threads[t] EXCEPT !.pc = "callback", !.mode = "historical",
                                              !.result = x.phase]
      <3>1. Became(t, thread)
        BY <1>2, <2>1
      <3>2. /\ thread.home = p /\ thread.req = r /\ thread.pc = "callback"
            /\ thread.mode = "historical" /\ thread.cmd = threads[t].cmd /\ thread.result = x.phase
        BY <1>1 DEF Goroutines
      <3> HIDE DEF thread
      <3>3. WorksOn(t, thread)
        BY <1>5, <3>2, Zenon DEF WorksOn, Recalls
      <3>. QED BY <3>1, <3>3
    <2>2. CASE Replays(p, r) = {} /\ Playable(p, r) /\ Goto(t, "append")
      BY <1>3, <1>5, <2>2 DEF WorksOn, Takes
    <2>3. CASE Fail(t)
      BY <1>4, <2>3
    <2> HIDE DEF Goal
    <2>. QED BY <1>5, <2>1, <2>2, <2>3, Zenon DEF Enter
  <1>6. ASSUME AppendCommits(t) PROVE Goal
    BY <1>3, <1>6 DEF AppendCommits, WorksOn, Passes
  <1>7. ASSUME Publish(t) PROVE Goal
    <2> DEFINE phase == LivePhase(Append(games[p], r))
               thread == [threads[t] EXCEPT !.pc = "callback", !.result = phase]
    <2>1. Fail(t) \/ threads' = [threads EXCEPT ![t] = thread]
      BY <1>7, Zenon DEF Publish
    <2>2. /\ thread.home = p /\ thread.req = r /\ thread.pc = "callback"
          /\ thread.mode = threads[t].mode /\ thread.cmd = threads[t].cmd /\ thread.result = phase
      BY <1>1 DEF Goroutines
    <2> HIDE DEF thread
    <2>3. WorksOn(t, thread)
      BY <1>7, <2>2 DEF WorksOn, Shows
    <2>. QED BY <1>2, <1>4, <2>1, <2>3
  <1>8. ASSUME Callback(t) \/ Reconcile(t) PROVE Goal
    <2> DEFINE thread == [threads[t] EXCEPT !.pc = "bind", !.cmd.reason = "no_landlord"]
    <2>1. Callback(t) => \/ Done(t)
                         \/ Goto(t, "advance") /\ Owes(threads[t]) = "advance"
                         \/ threads' = [threads EXCEPT ![t] = thread] /\ Owes(threads[t]) = "bind"
      BY Zenon DEF Callback
    <2>2. Reconcile(t) => \/ Fail(t) \/ Done(t)
                          \/ Goto(t, "advance") /\ threads[t].result \in {"PLAYING", "COMPLETED"}
                          \/ /\ threads' = [threads EXCEPT ![t] = thread]
                             /\ threads[t].result = "NO_LANDLORD"
      BY Zenon DEF Reconcile
    <2>3. /\ Owes(threads[t]) = "advance" => threads[t].result \in {"PLAYING", "COMPLETED"}
          /\ Owes(threads[t]) = "bind" => threads[t].result = "NO_LANDLORD"
      BY DEF Owes
    <2>4. /\ thread.home = p /\ thread.req = r /\ thread.pc = "bind"
          /\ thread.mode = threads[t].mode /\ thread.result = threads[t].result
          /\ thread.cmd = [threads[t].cmd EXCEPT !.reason = "no_landlord"]
      BY <1>1 DEF Goroutines
    <2> HIDE DEF thread
    <2>5. CASE Goto(t, "advance") /\ threads[t].result \in {"PLAYING", "COMPLETED"}
      BY <1>3, <1>8, <2>5 DEF WorksOn, Turns
    <2>6. CASE threads' = [threads EXCEPT ![t] = thread] /\ threads[t].result = "NO_LANDLORD"
      <3>1. WorksOn(t, thread)
        BY <1>8, <2>4, <2>6 DEF WorksOn, Aborts
      <3>. QED BY <1>2, <2>6, <3>1
    <2>. QED BY <1>4, <1>8, <2>1, <2>2, <2>3, <2>5, <2>6
  <1>9. ASSUME AdvanceLoad(t) PROVE Goal
    <2> DEFINE thread == [threads[t] EXCEPT !.pc = "advanceTx",
                                            !.cmd = CommandOf("advance", handPhase, 0)]
    <2>1. Done(t) \/ (Advances(threads[t]) /\ threads' = [threads EXCEPT ![t] = thread])
      BY <1>9, Zenon DEF AdvanceLoad
    <2>2. /\ thread.home = p /\ thread.req = r /\ thread.pc = "advanceTx"
          /\ thread.mode = threads[t].mode /\ thread.result = threads[t].result
          /\ thread.cmd = CommandOf("advance", handPhase, 0)
      BY <1>1 DEF Goroutines
    <2> HIDE DEF thread
    <2>3. Advances(threads[t]) => WorksOn(t, thread)
      BY <1>9, <2>2 DEF WorksOn, Loads
    <2>. QED BY <1>2, <1>4, <2>1, <2>3
  <1>10. ASSUME AdvanceCommits(t) PROVE Goal
    <2>1. Done(t) \/ (Goto(t, "advance") /\ threads[t].result \in {"PLAYING", "COMPLETED"})
      BY <1>10 DEF AdvanceCommits
    <2>. QED BY <1>3, <1>4, <1>10, <2>1 DEF WorksOn, Turns
  <1>11. ASSUME Bind(t) PROVE Goal
    <2> DEFINE bound == [threads[t].cmd EXCEPT !.phase = handPhase]
    <2>1. \/ Fail(t) \/ Done(t)
          \/ \E cmd : /\ threads' = [threads EXCEPT ![t] = [@ EXCEPT !.pc = "terminateTx", !.cmd = cmd]]
                      /\ \/ pending[p] = NoCommand /\ ~Terminal(handPhase) /\ cmd = bound
                         \/ cmd = pending[p] /\ pending[p].reason = bound.reason
      BY <1>11, Zenon DEF Bind
    <2>2. bound.reason = threads[t].cmd.reason
      BY <1>1 DEF Goroutines, Commands
    <2> HIDE DEF bound
    <2>3. ASSUME NEW cmd,
                 threads' = [threads EXCEPT ![t] = [@ EXCEPT !.pc = "terminateTx", !.cmd = cmd]],
                 \/ pending[p] = NoCommand /\ ~Terminal(handPhase) /\ cmd = bound
                 \/ cmd = pending[p] /\ pending[p].reason = bound.reason
          PROVE  Goal
      <3> DEFINE thread == [threads[t] EXCEPT !.pc = "terminateTx", !.cmd = cmd]
      <3>1. /\ thread.home = p /\ thread.req = r /\ thread.pc = "terminateTx"
            /\ thread.mode = threads[t].mode /\ thread.result = threads[t].result
            /\ thread.cmd = cmd
        BY <1>1 DEF Goroutines
      <3>2. threads' = [threads EXCEPT ![t] = thread]
        BY <2>3
      <3> HIDE DEF thread
      <3>3. WorksOn(t, thread)
        BY <1>11, <2>2, <2>3, <3>1 DEF WorksOn, Binds, bound
      <3>. QED BY <1>2, <3>2, <3>3
    <2>. QED BY <1>4, <2>1, <2>3
  <1>12. ASSUME TerminateCommits(t) PROVE Goal
    BY <1>3, <1>12 DEF TerminateCommits, WorksOn, Ends
  <1>13. ASSUME \/ AppendRefused(t) \/ AppendAmbiguous(t) \/ AdvanceFails(t)
                \/ TerminateYields(t) \/ TerminateFails(t) \/ Finalize(t)
         PROVE  Goal
    <2>1. Fail(t) \/ Done(t)
      BY <1>13, Zenon DEF AppendRefused, AppendAmbiguous, AdvanceFails, TerminateYields,
         TerminateFails, Finalize
    <2>. QED BY <1>4, <2>1
  <1>. QED BY <1>1, <1>5, <1>6, <1>7, <1>8, <1>9, <1>10, <1>11, <1>12, <1>13 DEF ThreadNext

(* A request, a cancel, a sweep or a startup starts a goroutine. *)
Answered(p, thread) ==
    \E r \in Requests :
        /\ thread.req = r /\ thread.pc = "callback" /\ thread.mode = "historical"
        /\ \E x \in Replays(p, r) : thread.result = x.phase
        /\ thread.cmd = NoCommand
Queues(p, thread) ==
    \E r \in Requests :
        /\ Unknown(p, r) /\ Submittable(r)
        /\ thread.req = r /\ thread.pc = "queued" /\ thread.mode = "fresh"
        /\ thread.result = "BIDDING" /\ thread.cmd = NoCommand
Cancels(thread) ==
    /\ "cancel" \in Faults /\ thread.pc = "bind" /\ thread.mode = "cancel"
    /\ thread.result = "BIDDING"
    /\ thread.cmd = CommandOf("participant_cancelled", "DEALING", 0)
Sweeps(t, p, thread) ==
    /\ Sweep(t, p) /\ thread.pc = "bind" /\ thread.mode = "sweep"
    /\ thread.result = "BIDDING"
    /\ thread.cmd = CommandOf("timeout", "DEALING", Len(games[p]) + 1)
Reconciles(p, thread) ==
    /\ BootReplay(p) /\ Verified(boot[p]) /\ Reconciler(p)
    /\ thread.pc = "reconcile" /\ thread.mode = "boot"
    /\ thread.result = LivePhase(Moves) /\ thread.cmd = NoCommand

Begins(t, p, thread) ==
    /\ Idle(t) /\ thread.home = p
    /\ \/ /\ server[p] = "serving" /\ UNCHANGED <<durable, server, boot, runtime, pending, dealing, acked>>
          /\ Answered(p, thread) \/ Queues(p, thread) \/ Cancels(thread) \/ Sweeps(t, p, thread)
       \/ Reconciles(p, thread)

(* A goroutine starts with what its caller gives it. *)
LEMMA StartEffect ==
  ASSUME TypeOK, NEW t \in Thread, NEW p \in Proc, StartNext(t, p)
  PROVE  \E thread : Became(t, thread) /\ Begins(t, p, thread)
  <1> DEFINE Goal == \E thread : Became(t, thread) /\ Begins(t, p, thread)
  <1>1. server[p] = "serving" /\ UNCHANGED <<durable, server, boot, runtime, pending, dealing, acked>>
    BY Zenon DEF StartNext, Cancel, Sweep, SubmitLive
  <1>2. ASSUME NEW thread, Starts(t, thread), thread.home = p,
               Answered(p, thread) \/ Queues(p, thread) \/ Cancels(thread) \/ Sweeps(t, p, thread)
        PROVE  Goal
    <2>1. Became(t, thread) /\ Idle(t)
      BY <1>2 DEF Starts, TypeOK, Became
    <2>. QED BY <1>1, <1>2, <2>1, Zenon DEF Begins
  <1>3. ASSUME Cancel(t, p) PROVE Goal
    <2> DEFINE thread == [Resting EXCEPT !.pc = "bind", !.home = p, !.mode = "cancel",
                                         !.cmd.reason = "participant_cancelled"]
    <2>1. /\ thread.home = p /\ thread.pc = "bind" /\ thread.mode = "cancel"
          /\ thread.result = "BIDDING" /\ thread.cmd = CommandOf("participant_cancelled", "DEALING", 0)
      BY DEF Resting, NoCommand, CommandOf
    <2>2. Starts(t, thread) /\ "cancel" \in Faults
      BY <1>3 DEF Cancel
    <2> HIDE DEF thread
    <2>. QED BY <1>2, <2>1, <2>2 DEF Cancels
  <1>4. ASSUME Sweep(t, p) PROVE Goal
    <2> DEFINE thread == [Resting EXCEPT !.pc = "bind", !.home = p, !.mode = "sweep",
                            !.cmd.reason = "timeout", !.cmd.live = Len(games[p]) + 1]
    <2>1. /\ thread.home = p /\ thread.pc = "bind" /\ thread.mode = "sweep"
          /\ thread.result = "BIDDING"
          /\ thread.cmd = CommandOf("timeout", "DEALING", Len(games[p]) + 1)
      BY DEF Resting, NoCommand, CommandOf
    <2>2. Starts(t, thread)
      BY <1>4 DEF Sweep
    <2> HIDE DEF thread
    <2>. QED BY <1>2, <1>4, <2>1, <2>2 DEF Sweeps
  <1>5. ASSUME NEW r \in Requests, SubmitLive(t, p, r) PROVE Goal
    <2>1. ASSUME NEW x \in Replays(p, r),
                 Starts(t, [Resting EXCEPT !.pc = "callback", !.home = p, !.req = r,
                                           !.mode = "historical", !.result = x.phase])
          PROVE  Goal
      <3> DEFINE thread == [Resting EXCEPT !.pc = "callback", !.home = p, !.req = r,
                                           !.mode = "historical", !.result = x.phase]
      <3>1. /\ thread.home = p /\ thread.req = r /\ thread.pc = "callback"
            /\ thread.mode = "historical" /\ thread.result = x.phase /\ thread.cmd = NoCommand
        BY DEF Resting
      <3> HIDE DEF thread
      <3>2. Answered(p, thread)
        BY <3>1 DEF Answered
      <3>. QED BY <1>2, <2>1, <3>1, <3>2 DEF thread
    <2>2. ASSUME Unknown(p, r), Submittable(r),
                 Starts(t, [Resting EXCEPT !.pc = "queued", !.home = p, !.req = r])
          PROVE  Goal
      <3> DEFINE thread == [Resting EXCEPT !.pc = "queued", !.home = p, !.req = r]
      <3>1. /\ thread.home = p /\ thread.req = r /\ thread.pc = "queued"
            /\ thread.mode = "fresh" /\ thread.result = "BIDDING" /\ thread.cmd = NoCommand
        BY DEF Resting
      <3>2. Starts(t, thread)
        BY <2>2
      <3> HIDE DEF thread
      <3>3. Queues(p, thread)
        BY <2>2, <3>1 DEF Queues
      <3>. QED BY <1>2, <3>1, <3>2, <3>3
    <2> HIDE DEF Goal
    <2>. QED BY <1>5, <2>1, <2>2, Zenon DEF SubmitLive
  <1>. QED BY <1>3, <1>4, <1>5 DEF StartNext

(* The reconciler starts with the phase the journal has reached. *)
LEMMA ReplayEffect ==
  ASSUME TypeOK, NEW p \in Proc, BootReplay(p)
  PROVE  \/ UNCHANGED threads
         \/ \E t \in Thread : \E thread : Became(t, thread) /\ Begins(t, p, thread)
  <1> DEFINE thread == [Resting EXCEPT !.pc = "reconcile", !.home = p, !.mode = "boot",
                                       !.result = LivePhase(Moves)]
  <1>1. /\ thread.home = p /\ thread.pc = "reconcile" /\ thread.mode = "boot"
        /\ thread.result = LivePhase(Moves) /\ thread.cmd = NoCommand
    BY DEF Resting
  <1>2. UNCHANGED threads \/ (Verified(boot[p]) /\ Reconciler(p))
    BY Zenon DEF BootReplay
  <1>3. Reconciler(p) => \E t \in Thread : Starts(t, thread)
    BY Zenon DEF Reconciler
  <1> HIDE DEF thread
  <1>4. \A t \in Thread : Starts(t, thread) => Became(t, thread) /\ Idle(t)
    BY DEF Starts, TypeOK, Became
  <1>. QED BY <1>1, <1>2, <1>3, <1>4 DEF Begins, Reconciles

(* Every goroutine stays as it is, ends, works on or begins. *)
LEMMA GoroutineStep ==
  ASSUME TypeOK, [Next]_vars, NEW u \in Thread
  PROVE  \/ threads'[u] = threads[u]
         \/ threads'[u] = Resting
         \/ ThreadNext(u) /\ threads[u].pc # "idle" /\ WorksOn(u, threads'[u])
         \/ \E p \in Proc : Begins(u, p, threads'[u])
  <1>1. ASSUME NEW p \in Proc, ProcNext(p)
        PROVE  \/ threads'[u] = threads[u]
               \/ threads'[u] = Resting
               \/ Begins(u, p, threads'[u])
    <2>1. CASE BootReplay(p)
      BY <2>1, ReplayEffect DEF Became
    <2>2. CASE Crash(p)
      BY <2>2 DEF Crash
    <2>3. CASE ~BootReplay(p) /\ ~Crash(p)
      <3>1. UNCHANGED threads
        BY <1>1, <2>3, Zenon DEF ProcNext, DealStart, DealCommit, DealError, RollbackStart, Evict,
           BootLoad, BootAcquire
      <3>. QED BY <3>1
    <2>. QED BY <2>1, <2>2, <2>3
  <1>2. ASSUME NEW t \in Thread, ThreadNext(t)
        PROVE  \/ threads'[u] = threads[u]
               \/ threads'[u] = Resting
               \/ ThreadNext(u) /\ threads[u].pc # "idle" /\ WorksOn(u, threads'[u])
    BY <1>2, ThreadEffect DEF Became
  <1>3. ASSUME NEW t \in Thread, NEW p \in Proc, StartNext(t, p)
        PROVE  threads'[u] = threads[u] \/ Begins(u, p, threads'[u])
    BY <1>3, StartEffect DEF Became
  <1>4. CASE UNCHANGED vars
    BY <1>4 DEF vars
  <1>. QED BY <1>1, <1>2, <1>3, <1>4 DEF Next

-----------------------------------------------------------------------------
(* The journal is a play of the game. *)

(* The moves of rows: one request per row. *)
LEMMA RowsMoves ==
  ASSUME NEW rows \in Seq([req : Requests, epoch : Nat]), NEW moves,
         moves = [i \in 1..Len(rows) |-> rows[i].req]
  PROVE  moves \in Seq(Requests) /\ Len(moves) = Len(rows)
  <1>1. \A i \in 1..Len(rows) : rows[i] \in [req : Requests, epoch : Nat]
    BY ElementOfSeq
  <1>2. Len(rows) \in Nat
    BY LenProperties
  <1>3. moves \in [1..Len(rows) -> Requests]
    BY <1>1
  <1>. QED BY <1>2, <1>3

(* The journal after a step is its longest prefix as well. *)
LEMMA MovesAfter ==
  ASSUME TypeOK'
  PROVE  /\ Moves' \in Seq(Requests) /\ Len(Moves') = Len(actions') /\ Len(actions') \in Nat
         /\ Prefix(Len(actions))' = Moves'
  <1>1. actions' \in Seq([req : Requests, epoch : Nat])
    BY DEF TypeOK
  <1>2. Moves' = [i \in 1..Len(actions') |-> actions'[i].req]
    BY DEF Moves
  <1>3. Moves' \in Seq(Requests) /\ Len(Moves') = Len(actions')
    BY <1>1, <1>2, RowsMoves
  <1>4. Len(actions') \in Nat
    BY <1>1, LenProperties
  <1>. QED BY <1>3, <1>4, SubSeqFull DEF Prefix

Appends(t) ==
    /\ threads[t].pc = "append"
    /\ Appendable(threads[t].home, threads[t].req)
    /\ JournalAppend(threads[t].home, threads[t].req)

(* Only a goroutine that holds the stripe adds to the journal. *)
LEMMA JournalGrows ==
  ASSUME TypeOK, [Next]_vars
  PROVE  \/ UNCHANGED actions
         \/ \E t \in Thread : (AppendCommits(t) \/ AppendAmbiguous(t)) /\ Appends(t)
  <1>1. ASSUME NEW p \in Proc, ProcNext(p) PROVE UNCHANGED actions
    BY <1>1, Zenon DEF ProcNext, DealStart, DealCommit, DealError, RollbackStart, Evict, BootLoad,
       BootAcquire, BootReplay, Crash, durable, journal
  <1>2. ASSUME NEW t \in Thread, ThreadNext(t)
        PROVE  UNCHANGED actions \/ ((AppendCommits(t) \/ AppendAmbiguous(t)) /\ Appends(t))
    BY <1>2, Zenon DEF ThreadNext, Enter, AppendCommits, AppendRefused, AppendAmbiguous, Publish,
       Callback, AdvanceLoad, AdvanceCommits, AdvanceFails, Bind, TerminateCommits,
       TerminateYields, TerminateFails, Finalize, Reconcile, durable, journal, Appends
  <1>3. ASSUME NEW t \in Thread, NEW p \in Proc, StartNext(t, p) PROVE UNCHANGED actions
    BY <1>3, Zenon DEF StartNext, Cancel, Sweep, SubmitLive, durable, journal
  <1>4. CASE UNCHANGED vars
    BY <1>4 DEF vars, durable, journal
  <1>. QED BY <1>1, <1>2, <1>3, <1>4, Zenon DEF Next

(* What is appended is the next legal move of a game that was complete. *)
LEMMA AppendGrows ==
  ASSUME IInv, IInv', AppendLegal, NEW t \in Thread, Appends(t)
  PROVE  LET p == threads[t].home  r == threads[t].req
         IN  /\ p \in Proc /\ r \in Requests /\ writer # NoWriter /\ writer.epoch = epochs[p]
             /\ games[p] = Moves /\ Legal(Moves, r) /\ r.id \notin Ids
             /\ Moves' = Append(Moves, r) /\ Len(actions') = Len(actions) + 1
             /\ writer'.epoch = writer.epoch
             /\ \A i \in 1..Len(actions) : actions'[i] = actions[i]
             /\ actions'[Len(actions) + 1].req = r /\ r.expected = Len(actions) + 1
  <1> DEFINE p == threads[t].home  r == threads[t].req  n == Len(actions)
  <1>1. TypeOK /\ TypeOK' /\ LogIndexed /\ Watermark /\ NextInGame /\ PublishedIsCommitted /\ ThreadsRun
    BY DEF IInv
  <1>2. p \in Proc /\ r \in Requests /\ Holds(t) /\ Appendable(p, r) /\ JournalAppend(p, r)
    BY <1>1, RunningType DEF Appends, Holds
  <1>3. /\ actions \in Seq([req : Requests, epoch : Nat]) /\ n \in Nat
        /\ writer \in [epoch : Nat, committed : Nat] /\ epochs[p] \in Nat
        /\ games[p] \in Seq(Requests) /\ Len(games[p]) \in Nat
    <2>1. actions \in Seq([req : Requests, epoch : Nat]) /\ games \in [Proc -> Seq(Requests)]
          /\ epochs \in [Proc -> Nat] /\ writer \in [epoch : Nat, committed : Nat]
      BY <1>1 DEF TypeOK
    <2>2. games[p] \in Seq(Requests) /\ epochs[p] \in Nat
      BY <1>2, <2>1
    <2>. QED BY <2>1, <2>2, LenProperties
  <1>4. writer # NoWriter /\ writer.committed = r.expected /\ writer.epoch = epochs[p]
    BY <1>1, <1>2, AppendedAtVersion DEF Appendable
  <1>5. r.expected = n + 1 /\ r.expected = Len(games[p]) + 1
    BY <1>1, <1>2, <1>4 DEF Watermark, NextInGame
  <1>6. games[p] = Moves
    <2>1. Committed(games[p]) /\ Len(games[p]) >= Len(actions)
      BY <1>1, <1>2, <1>3, <1>5 DEF PublishedIsCommitted, Committed
    <2>. QED BY <1>1, <1>3, <2>1, CommittedWhole
  <1>7. Legal(Moves, r) /\ r.id \notin Ids
    BY <1>2, <1>6 DEF AppendLegal, Appends, Appendable
  <1>8. /\ Len(actions') = n + 1 /\ actions'[n + 1].req = r
        /\ \A i \in 1..n : actions'[i] = actions[i]
    <2>1. [req |-> r, epoch |-> epochs[p]] \in [req : Requests, epoch : Nat]
      BY <1>2, <1>3
    <2>. QED BY <1>2, <1>3, <2>1, AppendProperties DEF JournalAppend
  <1>9. writer'.epoch = writer.epoch
    BY <1>2, <1>3 DEF JournalAppend
  <1>10. Moves' = Append(Moves, r)
    <2>1. Moves \in Seq(Requests) /\ Len(Moves) = n
      BY <1>1, MovesType
    <2>2. Moves' \in Seq(Requests) /\ Len(Moves') = n + 1
      BY <1>1, <1>8, MovesAfter
    <2>3. /\ Append(Moves, r) \in Seq(Requests) /\ Len(Append(Moves, r)) = n + 1
          /\ \A i \in 1..n : Append(Moves, r)[i] = Moves[i]
          /\ Append(Moves, r)[n + 1] = r
      BY <1>2, <2>1, AppendProperties
    <2>4. /\ \A i \in 1..n : Moves[i] = actions[i].req
          /\ \A i \in 1..(n + 1) : Moves'[i] = actions'[i].req
      BY <1>8 DEF Moves
    <2> HIDE DEF n
    <2>5. ASSUME NEW i \in 1..(n + 1) PROVE Moves'[i] = Append(Moves, r)[i]
      <3>1. CASE i = n + 1
        BY <1>8, <2>3, <2>4, <3>1
      <3>2. CASE i # n + 1
        <4>1. i \in 1..n
          BY <1>3, <3>2
        <4>. QED BY <1>8, <2>3, <2>4, <4>1
      <3>. QED BY <3>1, <3>2
    <2>. QED BY <2>2, <2>3, <2>5, SeqEqual
  <1>. QED BY <1>2, <1>4, <1>5, <1>6, <1>7, <1>8, <1>9, <1>10
(* What the game has reached, it has still reached after a step. *)
ReachedAfter(phase) ==
    /\ phase = "PLAYING" => LivePhase(Moves') \in {"PLAYING", "COMPLETED"}
    /\ phase \in {"NO_LANDLORD", "COMPLETED"} => LivePhase(Moves') = phase

LEMMA ReachedKept ==
  ASSUME IInv, IInv', AppendLegal, [Next]_vars, NEW phase, Reached(phase)
  PROVE  ReachedAfter(phase)
  <1>1. TypeOK
    BY DEF IInv
  <1>2. CASE UNCHANGED actions
    <2>1. Moves' = Moves
      BY <1>2 DEF Moves
    <2>. QED BY <2>1 DEF Reached, ReachedAfter
  <1>3. ASSUME NEW t \in Thread, Appends(t) PROVE ReachedAfter(phase)
    <2> DEFINE r == threads[t].req
    <2>1. r \in Requests /\ Legal(Moves, r) /\ Moves' = Append(Moves, r) /\ Moves \in Seq(Requests)
      BY <1>1, <1>3, AppendGrows, MovesType
    <2>2. /\ LivePhase(Moves) \in {"BIDDING", "PLAYING"}
          /\ LivePhase(Moves) = "PLAYING" => LivePhase(Moves') \in {"PLAYING", "COMPLETED"}
      BY <2>1, LegalPhase
    <2>. QED BY <2>2 DEF Reached, ReachedAfter
  <1>. QED BY <1>1, <1>2, <1>3, JournalGrows

(* Every prefix of the journal is a play, the new one included. *)
LEMMA PlayedStep ==
  ASSUME IInv, IInv', AppendLegal, LogPlayed, [Next]_vars
  PROVE  LogPlayed'
  <1>1. TypeOK /\ TypeOK' /\ LogIndexed /\ Watermark /\ ThreadsRun
    BY DEF IInv
  <1>2. Grows
    BY <1>1, JournalSteps, LogStep
  <1>3. Len(actions) \in Nat /\ Len(actions') \in Nat /\ Prefix(Len(actions))' = Moves'
    BY <1>1, MovesType, MovesAfter DEF TypeOK
  <1>4. \A n \in 0..Len(actions) : Prefix(n)' = Prefix(n)
    BY <1>1, <1>2, PrefixKept
  <1>5. \A phase : Reached(phase) => ReachedAfter(phase)
    BY ReachedKept
  <1>6. \/ Moves' = Moves /\ Len(actions') = Len(actions)
        \/ LivePhase(Moves) \in {"BIDDING", "PLAYING"} /\ Len(actions') = Len(actions) + 1
    <2>1. CASE UNCHANGED actions
      BY <2>1 DEF Moves
    <2>2. ASSUME NEW t \in Thread, Appends(t)
          PROVE  LivePhase(Moves) \in {"BIDDING", "PLAYING"} /\ Len(actions') = Len(actions) + 1
      BY <2>2, AppendGrows DEF Legal
    <2>. QED BY <1>1, <2>1, <2>2, JournalGrows
  <1>7. ASSUME NEW n \in 0..Len(actions')
        PROVE  /\ ReachedAfter(LivePhase(Prefix(n)'))
               /\ n < Len(actions') => LivePhase(Prefix(n)') \in {"BIDDING", "PLAYING"}
    <2>1. CASE n \in 0..Len(actions)
      <3>1. ReachedAfter(LivePhase(Prefix(n)'))
        BY <1>4, <1>5, <2>1 DEF LogPlayed
      <3>2. n < Len(actions') => LivePhase(Prefix(n)') \in {"BIDDING", "PLAYING"}
        <4>1. CASE n < Len(actions)
          BY <1>4, <2>1, <4>1 DEF LogPlayed
        <4>2. CASE n = Len(actions)
          BY <1>1, <1>3, <1>4, <1>6, <2>1, <4>2, PrefixWhole
        <4>. QED BY <1>3, <2>1, <4>1, <4>2
      <3>. QED BY <3>1, <3>2
    <2>2. CASE n \notin 0..Len(actions)
      <3>1. n = Len(actions')
        BY <1>3, <1>6, <2>2
      <3>2. Prefix(n)' = Moves'
        BY <1>1, <3>1, MovesAfter DEF Prefix
      <3>. QED BY <1>3, <3>1, <3>2 DEF ReachedAfter
    <2>. QED BY <2>1, <2>2
  <1>. QED BY <1>7 DEF LogPlayed, Reached, ReachedAfter

(* A goroutine that holds the stripe works on the same game throughout. *)
LEMMA HeldGame ==
  ASSUME IInv, IInv', [Next]_vars, NEW t \in Thread, Holds(t), Holds(t)',
         threads'[t].home = threads[t].home, threads'[t].req = threads[t].req
  PROVE  games'[threads[t].home] = games[threads[t].home]
  <1> DEFINE p == threads[t].home
  <1>1. TypeOK /\ TypeOK' /\ LogIndexed /\ Watermark /\ ThreadsRun
    BY DEF IInv
  <1>2. Grows /\ p \in Proc
    BY <1>1, JournalSteps, LogStep, RunningType DEF Holds
  <1>3. Len(games'[p]) = Len(games[p]) /\ games[p] \in Seq(Requests) /\ games'[p] \in Seq(Requests)
    <2>1. /\ threads[t].req.expected = Len(games[p]) + 1
          /\ threads[t].req.expected = Len(games'[p]) + 1
      BY DEF IInv, NextInGame
    <2>2. games[p] \in Seq(Requests) /\ games'[p] \in Seq(Requests)
      BY <1>1, <1>2 DEF TypeOK
    <2>3. Len(games[p]) \in Nat /\ Len(games'[p]) \in Nat
      BY <2>2, LenProperties
    <2>. QED BY <2>1, <2>2, <2>3
  <1>4. /\ Len(games[p]) <= Len(actions) /\ \A i \in 1..Len(games[p]) : games[p][i] = actions[i].req
        /\ \A i \in 1..Len(games'[p]) : games'[p][i] = actions'[i].req
    BY <1>2 DEF IInv, PublishedIsCommitted
  <1>5. \A i \in 1..Len(games[p]) : games'[p][i] = games[p][i]
    <2>. SUFFICES ASSUME NEW i \in 1..Len(games[p]) PROVE games'[p][i] = games[p][i]
      OBVIOUS
    <2>1. Len(actions) \in Nat /\ Len(games[p]) \in Nat
      BY <1>1, <1>3, MovesType, LenProperties
    <2>2. i \in 1..Len(actions) /\ i \in 1..Len(games'[p])
      BY <1>3, <1>4, <2>1
    <2>3. actions'[i] = actions[i]
      BY <1>2, <2>2 DEF Grows
    <2>. QED BY <1>4, <2>2, <2>3
  <1>. QED BY <1>3, <1>5, SeqEqual

(* What a publisher makes of its game is the prefix its move ends. *)
LEMMA PublishedPrefix ==
  ASSUME IInv, NEW t \in Thread, threads[t].pc = "publish"
  PROVE  LET p == threads[t].home  r == threads[t].req
         IN  /\ r.expected \in 1..Len(actions)
             /\ Append(games[p], r) = Prefix(r.expected)
  <1> DEFINE p == threads[t].home  r == threads[t].req  n == Len(games[p])
  <1>1. TypeOK /\ ThreadsRun /\ NextInGame /\ AnswersLogged /\ PublishedIsCommitted
    BY DEF IInv
  <1>2. p \in Proc /\ r \in Requests /\ Logged(r) /\ r.expected = n + 1
    BY <1>1, RunningType DEF AnswersLogged, NextInGame, Holds
  <1>3. games[p] \in Seq(Requests) /\ n \in Nat
    BY <1>1, <1>2, LenProperties DEF TypeOK
  <1>4. /\ Append(games[p], r) \in Seq(Requests) /\ Len(Append(games[p], r)) = n + 1
        /\ \A i \in 1..n : Append(games[p], r)[i] = games[p][i]
        /\ Append(games[p], r)[n + 1] = r
    BY <1>2, <1>3, AppendProperties
  <1>5. n + 1 \in 1..Len(actions) /\ actions[n + 1].req = r
    BY <1>2 DEF Logged
  <1>6. \A i \in 1..n : games[p][i] = actions[i].req
    BY <1>1, <1>2 DEF PublishedIsCommitted
  <1>7. n + 1 \in 0..Len(actions)
    BY <1>3, <1>5
  <1>8. /\ Prefix(n + 1) \in Seq(Requests) /\ Len(Prefix(n + 1)) = n + 1
        /\ \A i \in 1..(n + 1) : Prefix(n + 1)[i] = actions[i].req
    BY <1>1, <1>7, PrefixIs
  <1> HIDE DEF n
  <1>9. ASSUME NEW i \in 1..(n + 1) PROVE Append(games[p], r)[i] = Prefix(n + 1)[i]
    <2>1. CASE i = n + 1
      BY <1>4, <1>5, <1>8, <2>1
    <2>2. CASE i # n + 1
      <3>1. i \in 1..n
        BY <1>3, <2>2
      <3>. QED BY <1>4, <1>6, <1>8, <3>1
    <2>. QED BY <2>1, <2>2
  <1>10. Append(games[p], r) = Prefix(n + 1)
    BY <1>4, <1>8, <1>9, SeqEqual
  <1>. QED BY <1>2, <1>5, <1>10

(* Receipts tell the phase their moves led to, so the game has reached it. *)
LEMMA ReceiptReached ==
  ASSUME IInv, LogPlayed, NEW x, Logged(x.req), x.phase = LivePhase(Prefix(x.req.expected))
  PROVE  Reached(x.phase)
  <1>1. x.req.expected \in 0..Len(actions)
    <2>1. Len(actions) \in Nat /\ x.req.expected \in 1..Len(actions)
      BY MovesType, LenProperties DEF IInv, TypeOK, Logged
    <2>. QED BY <2>1
  <1>. QED BY <1>1 DEF LogPlayed

(* A receipt rebuilt from the journal tells the phase of its prefix. *)
LEMMA ReplayedTrue ==
  ASSUME IInv, NEW x \in ReplayedReceipts
  PROVE  Logged(x.req) /\ x.phase = LivePhase(Prefix(x.req.expected))
  <1>1. PICK i \in 1..Len(actions) :
          x = [req |-> actions[i].req, phase |-> LivePhase(SubSeq(Moves, 1, i))]
    BY DEF ReplayedReceipts
  <1>2. x.req = actions[i].req /\ x.phase = LivePhase(Prefix(i)) /\ actions[i].req.expected = i
    BY <1>1 DEF Prefix, IInv, LogIndexed
  <1>. QED BY <1>2 DEF Logged

(* So does every receipt that may answer a request. *)
LEMMA KnownTrue ==
  ASSUME IInv, LogPlayed, ReceiptsTrue, NEW p \in Proc, NEW r, NEW x \in Replays(p, r)
  PROVE  Reached(x.phase)
  <1>1. x \in receipts[p] \/ x \in ReplayedReceipts
    BY DEF Replays, Known
  <1>2. CASE x \in receipts[p]
    BY <1>2, ReceiptReached DEF ReceiptsTrue, IInv, ReceiptsLogged
  <1>3. CASE x \in ReplayedReceipts
    BY <1>3, ReplayedTrue, ReceiptReached
  <1>. QED BY <1>1, <1>2, <1>3
(* A candidate that is being appended was computed from a legal move. *)
LEMMA LegalStep ==
  ASSUME IInv, IInv', AppendLegal, [Next]_vars
  PROVE  AppendLegal'
  <1>1. TypeOK /\ TypeOK'
    BY DEF IInv
  <1>2. ASSUME NEW u \in Thread, threads'[u].pc = "append"
        PROVE  Legal(games'[threads'[u].home], threads'[u].req)
    <2> DEFINE p == threads[u].home  r == threads[u].req
    <2>1. CASE threads'[u] = threads[u]
      <3>1. Holds(u) /\ Holds(u)'
        BY <1>2, <2>1 DEF Holds
      <3>2. games'[p] = games[p]
        BY <2>1, <3>1, HeldGame
      <3>. QED BY <1>2, <2>1, <3>2 DEF AppendLegal
    <2>2. CASE ThreadNext(u) /\ threads[u].pc # "idle" /\ WorksOn(u, threads'[u])
      <3>1. Takes(u, threads'[u]) /\ threads'[u].home = p /\ threads'[u].req = r
        BY <1>2, <2>2 DEF WorksOn, Recalls, Passes, Shows, Turns, Loads, Aborts, Binds, Ends, GoesOn
      <3>2. Legal(games[p], r) /\ UNCHANGED games
        BY <3>1 DEF Takes, Playable, Enter, runtime
      <3>. QED BY <3>1, <3>2
    <2>3. threads'[u] # Resting
      BY <1>2 DEF Resting
    <2>4. ASSUME NEW q \in Proc PROVE ~Begins(u, q, threads'[u])
      BY <1>2 DEF Begins, Answered, Queues, Cancels, Sweeps, Reconciles
    <2>. QED BY <1>1, <2>1, <2>2, <2>3, <2>4, GoroutineStep
  <1>. QED BY <1>2 DEF AppendLegal

Acts(thread) ==
    thread.pc # "idle" =>
        /\ ReachedAfter(thread.result)
        /\ thread.pc \in {"advance", "advanceTx"} => thread.result \in {"PLAYING", "COMPLETED"}
        /\ thread.pc = "advanceTx" /\ thread.cmd.phase # "BIDDING" => thread.result = "COMPLETED"

(* A goroutine goes on with a result the game has reached. *)
LEMMA ResultWorks ==
  ASSUME IInv, IInv', GameInv, [Next]_vars, NEW u \in Thread,
         threads[u].pc # "idle", WorksOn(u, threads'[u])
  PROVE  Acts(threads'[u])
  <1> DEFINE p == threads[u].home  r == threads[u].req  thread == threads'[u]
  <1>1. /\ LogPlayed /\ AppendLegal /\ ResultsReached /\ ReceiptsTrue
        /\ TypeOK /\ ThreadsRun /\ AnswersLogged /\ ReceiptsLogged
    BY DEF GameInv, IInv
  <1>2. p \in Proc /\ threads[u] \in Goroutines
    BY <1>1, RunningType
  <1>3. \A phase : Reached(phase) => ReachedAfter(phase)
    BY <1>1, ReachedKept
  <1>4. ReachedAfter(threads[u].result)
    BY <1>1, <1>3 DEF ResultsReached
  <1>5. CASE Recalls(u, thread)
    <2>1. thread.pc = "callback" /\ ReachedAfter(thread.result)
      BY <1>1, <1>2, <1>3, <1>5, KnownTrue DEF Recalls
    <2>. QED BY <2>1 DEF Acts
  <1>6. CASE Takes(u, thread) \/ Passes(u, thread) \/ Ends(u, thread)
    BY <1>4, <1>6 DEF Takes, Passes, Ends, GoesOn, Acts
  <1>7. CASE Shows(u, thread)
    <2>1. /\ threads[u].pc = "publish" /\ thread.pc = "callback"
          /\ thread.result = LivePhase(Append(games[p], r))
      BY <1>7 DEF Shows, Publish
    <2>2. r.expected \in 0..Len(actions) /\ Append(games[p], r) = Prefix(r.expected)
      <3>1. r.expected \in 1..Len(actions) /\ Append(games[p], r) = Prefix(r.expected)
        BY <2>1, PublishedPrefix
      <3>2. Len(actions) \in Nat
        BY <1>1, LenProperties DEF TypeOK
      <3>. QED BY <3>1, <3>2
    <2>3. Reached(thread.result)
      BY <1>1, <2>1, <2>2 DEF LogPlayed
    <2>. QED BY <1>3, <2>1, <2>3 DEF Acts
  <1>8. CASE Turns(u, thread)
    BY <1>4, <1>8 DEF Turns, GoesOn, Acts
  <1>9. CASE Loads(u, thread)
    <2>1. threads[u].pc = "advance" /\ thread.result = threads[u].result /\ thread.pc = "advanceTx"
      BY <1>9 DEF Loads, AdvanceLoad
    <2>2. thread.cmd.phase = handPhase /\ Advances(threads[u])
      BY <1>9 DEF Loads, CommandOf
    <2>3. threads[u].result \in {"PLAYING", "COMPLETED"}
      BY <1>1, <2>1 DEF ResultsReached
    <2>. QED BY <1>4, <2>1, <2>2, <2>3 DEF Acts, Advances
  <1>10. CASE Aborts(u, thread) \/ Binds(u, thread)
    BY <1>4, <1>10 DEF Aborts, Binds, Acts
  <1>. QED BY <1>5, <1>6, <1>7, <1>8, <1>9, <1>10 DEF WorksOn

(* A goroutine starts with a result the game has reached. *)
LEMMA ResultBegins ==
  ASSUME IInv, IInv', GameInv, [Next]_vars, NEW u \in Thread, NEW p \in Proc,
         Begins(u, p, threads'[u])
  PROVE  Acts(threads'[u])
  <1> DEFINE thread == threads'[u]
  <1>1. LogPlayed /\ AppendLegal /\ ReceiptsTrue
    BY DEF GameInv
  <1>2. \A phase : Reached(phase) => ReachedAfter(phase)
    BY <1>1, ReachedKept
  <1>3. ReachedAfter("BIDDING")
    BY DEF ReachedAfter
  <1>4. CASE Answered(p, thread)
    BY <1>1, <1>2, <1>4, KnownTrue DEF Answered, Acts
  <1>5. CASE Queues(p, thread) \/ Cancels(thread) \/ Sweeps(u, p, thread)
    BY <1>3, <1>5 DEF Queues, Cancels, Sweeps, Acts
  <1>6. CASE Reconciles(p, thread)
    <2>1. Reached(LivePhase(Moves))
      BY DEF Reached
    <2>. QED BY <1>2, <1>6, <2>1 DEF Reconciles, Acts
  <1>. QED BY <1>4, <1>5, <1>6 DEF Begins

(* Results stay reached. *)
LEMMA ResultsStep ==
  ASSUME IInv, IInv', GameInv, [Next]_vars
  PROVE  ResultsReached'
  <1>1. TypeOK /\ AppendLegal /\ ResultsReached
    BY DEF IInv, GameInv
  <1>2. \A phase : Reached(phase) => ReachedAfter(phase)
    BY <1>1, ReachedKept
  <1>3. ASSUME NEW u \in Thread PROVE Acts(threads'[u])
    <2>1. CASE threads'[u] = threads[u]
      BY <1>1, <1>2, <2>1 DEF ResultsReached, Acts
    <2>2. CASE threads'[u] = Resting
      BY <2>2 DEF Resting, Acts
    <2>. QED BY <1>1, <2>1, <2>2, GoroutineStep, ResultWorks, ResultBegins
  <1>. QED BY <1>3 DEF ResultsReached, Acts, Reached, ReachedAfter

(* Where receipts come from: the publisher's own move, or the journal. *)
LEMMA ReceiptsFrom ==
  ASSUME TypeOK, [Next]_vars, NEW q \in Proc, NEW x \in receipts'[q]
  PROVE  \/ x \in receipts[q]
         \/ x \in ReplayedReceipts
         \/ \E t \in Thread :
              /\ Publish(t)
              /\ x = [req |-> threads[t].req,
                      phase |-> LivePhase(Append(games[threads[t].home], threads[t].req))]
  <1>1. ASSUME NEW p \in Proc, ProcNext(p) PROVE x \in receipts[q] \/ x \in ReplayedReceipts
    <2>1. \/ UNCHANGED receipts \/ receipts' = [receipts EXCEPT ![p] = {}]
          \/ receipts' = [receipts EXCEPT ![p] = ReplayedReceipts]
      BY <1>1, Zenon DEF ProcNext, DealStart, DealCommit, DealError, RollbackStart, Evict,
         BootLoad, BootAcquire, BootReplay, Crash, runtime
    <2>. QED BY <2>1 DEF TypeOK
  <1>2. ASSUME NEW t \in Thread, Publish(t)
        PROVE  \/ x \in receipts[q]
               \/ x = [req |-> threads[t].req,
                       phase |-> LivePhase(Append(games[threads[t].home], threads[t].req))]
    <2> DEFINE y == [req |-> threads[t].req,
                     phase |-> LivePhase(Append(games[threads[t].home], threads[t].req))]
    <2>1. receipts' = [receipts EXCEPT ![threads[t].home] = @ \cup {y}]
      BY <1>2, Zenon DEF Publish
    <2> HIDE DEF y
    <2>2. x \in receipts[q] \/ x = y
      BY <2>1 DEF TypeOK
    <2>. QED BY <2>2 DEF y
  <1>3. ASSUME NEW t \in Thread, ThreadNext(t), ~Publish(t) PROVE UNCHANGED receipts
    BY <1>3, Zenon DEF ThreadNext, Enter, AppendCommits, AppendRefused, AppendAmbiguous,
       Callback, AdvanceLoad, AdvanceCommits, AdvanceFails, Bind, TerminateCommits,
       TerminateYields, TerminateFails, Finalize, Reconcile, runtime
  <1>4. ASSUME NEW t \in Thread, NEW p \in Proc, StartNext(t, p) PROVE UNCHANGED receipts
    BY <1>4, Zenon DEF StartNext, Cancel, Sweep, SubmitLive, runtime
  <1>5. CASE UNCHANGED vars
    BY <1>5 DEF vars, runtime
  <1>. QED BY <1>1, <1>2, <1>3, <1>4, <1>5 DEF Next

(* A receipt keeps telling the phase its move led to. *)
LEMMA ReceiptsStep ==
  ASSUME IInv, IInv', LogPlayed, ReceiptsTrue, [Next]_vars
  PROVE  ReceiptsTrue'
  <1>1. TypeOK /\ TypeOK' /\ LogIndexed /\ Watermark /\ ThreadsRun /\ ReceiptsLogged
    BY DEF IInv
  <1>2. Grows
    BY <1>1, JournalSteps, LogStep
  <1>3. \A n \in 1..Len(actions) : Prefix(n)' = Prefix(n)
    <2>1. \A n \in 1..Len(actions) : n \in 0..Len(actions)
      BY <1>1, MovesType, LenProperties
    <2>. QED BY <1>1, <1>2, <2>1, PrefixKept
  <1>4. ASSUME NEW q \in Proc, NEW x \in receipts'[q]
        PROVE  x.req.expected \in 1..Len(actions) /\ x.phase = LivePhase(Prefix(x.req.expected))
    <2>1. CASE x \in receipts[q]
      BY <1>1, <2>1 DEF ReceiptsTrue, ReceiptsLogged, Logged
    <2>2. CASE x \in ReplayedReceipts
      BY <2>2, ReplayedTrue DEF Logged
    <2>3. ASSUME NEW t \in Thread, Publish(t),
                 x = [req |-> threads[t].req,
                      phase |-> LivePhase(Append(games[threads[t].home], threads[t].req))]
          PROVE  x.req.expected \in 1..Len(actions) /\ x.phase = LivePhase(Prefix(x.req.expected))
      BY <2>3, PublishedPrefix DEF Publish
    <2>. QED BY <1>1, <2>1, <2>2, <2>3, ReceiptsFrom
  <1>5. ASSUME NEW q \in Proc, NEW x \in receipts'[q]
        PROVE  x.phase = LivePhase(Prefix(x.req.expected)')
    BY <1>3, <1>4
  <1>. QED BY <1>5 DEF ReceiptsTrue

-----------------------------------------------------------------------------
(* The aggregate follows the game. *)

Advancing(t) ==
    /\ threads[t].pc = "advanceTx" /\ handPhase = threads[t].cmd.phase
    /\ handPhase' = NextPhase[handPhase] /\ UNCHANGED <<terminator, journal>>
Terminating(t) ==
    threads[t].pc = "terminateTx" /\ TerminateRows(t) /\ UNCHANGED <<actions, runtime>>

(* What moves the phase row: the deal, an advance or a termination. *)
LEMMA PhaseStep ==
  ASSUME [Next]_vars
  PROVE  \/ UNCHANGED <<handPhase, terminator>>
         \/ \E p \in Proc : dealing[p] = "created" /\ UNCHANGED <<terminator, journal>>
                            /\ handPhase' \in {"DEALING", "BIDDING"}
         \/ \E t \in Thread : Advancing(t) \/ Terminating(t)
  <1> DEFINE Goal == \/ UNCHANGED <<handPhase, terminator>>
                     \/ \E p \in Proc : dealing[p] = "created" /\ UNCHANGED <<terminator, journal>>
                                        /\ handPhase' \in {"DEALING", "BIDDING"}
                     \/ \E t \in Thread : Advancing(t) \/ Terminating(t)
  <1>1. ASSUME NEW p \in Proc, ProcNext(p) PROVE Goal
    <2>1. CASE DealCommit(p) \/ DealError(p)
      BY <2>1 DEF DealCommit, DealError
    <2>2. CASE ~DealCommit(p) /\ ~DealError(p)
      <3>1. UNCHANGED <<handPhase, terminator>>
        BY <1>1, <2>2, Zenon DEF ProcNext, DealStart, RollbackStart, Evict, BootLoad,
           BootAcquire, BootReplay, Crash, durable
      <3>. QED BY <3>1
    <2>. QED BY <2>1, <2>2
  <1>2. ASSUME NEW t \in Thread, ThreadNext(t)
        PROVE  UNCHANGED <<handPhase, terminator>> \/ Advancing(t) \/ Terminating(t)
    <2>1. CASE AdvanceCommits(t) \/ AdvanceFails(t)
      BY <2>1 DEF AdvanceCommits, AdvanceFails, Advancing
    <2>2. CASE TerminateCommits(t) \/ TerminateFails(t)
      BY <2>2, Zenon DEF TerminateCommits, TerminateFails, Terminating
    <2>3. CASE /\ ~AdvanceCommits(t) /\ ~AdvanceFails(t)
               /\ ~TerminateCommits(t) /\ ~TerminateFails(t)
      BY <1>2, <2>3, Zenon DEF ThreadNext, Enter, AppendCommits, AppendRefused, AppendAmbiguous,
         Publish, Callback, AdvanceLoad, Bind, TerminateYields, Finalize, Reconcile, durable
    <2>. QED BY <2>1, <2>2, <2>3
  <1>3. ASSUME NEW t \in Thread, NEW p \in Proc, StartNext(t, p)
        PROVE  UNCHANGED <<handPhase, terminator>>
    BY <1>3, Zenon DEF StartNext, Cancel, Sweep, SubmitLive, durable
  <1>4. CASE UNCHANGED vars
    BY <1>4 DEF vars, durable
  <1>. QED BY <1>1, <1>2, <1>3, <1>4 DEF Next

(* The aggregate never gets ahead of the game. *)
LEMMA FollowsStep ==
  ASSUME IInv, IInv', GameInv, [Next]_vars
  PROVE  HandFollowsLog'
  <1>1. TypeOK /\ ThreadsRun /\ AppendLegal /\ ResultsReached /\ HandFollowsLog
    BY DEF IInv, GameInv
  <1>2. \A phase : Reached(phase) => ReachedAfter(phase)
    BY <1>1, ReachedKept
  <1> DEFINE Goal == /\ handPhase' = "PLAYING" => LivePhase(Moves') \in {"PLAYING", "COMPLETED"}
                     /\ handPhase' \in {"SETTLING", "COMPLETED"} => LivePhase(Moves') = "COMPLETED"
  <1>3. CASE UNCHANGED handPhase
    <2>1. handPhase = "PLAYING" => Reached("PLAYING")
      BY <1>1 DEF HandFollowsLog, Reached
    <2>2. handPhase \in {"SETTLING", "COMPLETED"} => Reached("COMPLETED")
      BY <1>1 DEF HandFollowsLog, Reached
    <2>3. /\ handPhase' = "PLAYING" => ReachedAfter("PLAYING")
          /\ handPhase' \in {"SETTLING", "COMPLETED"} => ReachedAfter("COMPLETED")
      BY <1>2, <1>3, <2>1, <2>2
    <2>. QED BY <2>3 DEF ReachedAfter, HandFollowsLog
  <1>4. ASSUME NEW t \in Thread, Advancing(t) PROVE Goal
    <2>1. threads[t].cmd.phase = handPhase /\ handPhase \in DOMAIN NextPhase
      BY <1>1, <1>4 DEF Advancing, ThreadsRun, RunsOn
    <2>2. /\ ReachedAfter(threads[t].result) /\ threads[t].result \in {"PLAYING", "COMPLETED"}
          /\ handPhase # "BIDDING" => threads[t].result = "COMPLETED"
      BY <1>1, <1>2, <1>4, <2>1 DEF ResultsReached, Advancing
    <2>3. /\ handPhase = "BIDDING" => handPhase' = "PLAYING"
          /\ handPhase = "PLAYING" => handPhase' = "SETTLING"
          /\ handPhase = "SETTLING" => handPhase' = "COMPLETED"
          /\ handPhase \in {"BIDDING", "PLAYING", "SETTLING"}
      BY <1>4, <2>1 DEF Advancing, NextPhase
    <2>. QED BY <2>2, <2>3 DEF ReachedAfter
  <1>5. ASSUME NEW t \in Thread, Terminating(t) PROVE handPhase' \in {"EXPIRED", "ABORTED"}
    BY <1>5 DEF Terminating, TerminateRows
  <1>. QED BY <1>3, <1>4, <1>5, PhaseStep DEF HandFollowsLog

(* The first group is inductive. *)
LEMMA GameStep ==
  ASSUME IInv, IInv', GameInv, [Next]_vars
  PROVE  GameInv'
  <1>1. LogPlayed /\ AppendLegal /\ ReceiptsTrue
    BY DEF GameInv
  <1>. QED BY <1>1, PlayedStep, LegalStep, ResultsStep, ReceiptsStep, FollowsStep DEF GameInv
-----------------------------------------------------------------------------
(* What a step does to the hand in one instance. *)

SameHand(q) ==
    /\ games'[q] = games[q] /\ entries'[q] = entries[q] /\ final'[q] = final[q]
    /\ epochs'[q] = epochs[q] /\ receipts'[q] = receipts[q]

Publishing(t, q) == threads[t].home = q /\ threads[t].pc = "publish"

Untouched(q) ==
    /\ SameHand(q)
    /\ \A t \in Thread : Publishing(t, q) => threads'[t] = threads[t]

(* The steps that change the hand in an instance. *)
Touched(q) ==
    \/ DealStart(q) \/ RollbackStart(q) \/ Evict(q) \/ BootReplay(q) \/ Crash(q)
    \/ \E t \in Thread :
         /\ threads[t].home = q
         /\ AppendRefused(t) \/ AppendAmbiguous(t) \/ Publish(t) \/ Finalize(t)

(* Steps that update the maps of one instance leave the others alone. *)
LEMMA OthersKeep ==
  ASSUME TypeOK, NEW p \in Proc, NEW q \in Proc, p # q, NEW g, NEW e, NEW f, NEW c, NEW s,
         games' = games \/ games' = [games EXCEPT ![p] = g],
         entries' = entries \/ entries' = [entries EXCEPT ![p] = e],
         final' = final \/ final' = [final EXCEPT ![p] = f],
         epochs' = epochs \/ epochs' = [epochs EXCEPT ![p] = c],
         receipts' = receipts \/ receipts' = [receipts EXCEPT ![p] = s]
  PROVE  SameHand(q)
  BY DEF TypeOK, SameHand

(* A step of an instance leaves the hand of another one alone. *)
LEMMA ProcOthers ==
  ASSUME TypeOK, NEW p \in Proc, NEW q \in Proc, p # q, ProcNext(p)
  PROVE  SameHand(q)
  <1>1. CASE DealStart(p)
    BY <1>1, OthersKeep DEF DealStart
  <1>2. CASE DealCommit(p) \/ DealError(p) \/ BootLoad(p) \/ BootAcquire(p)
    <2>1. UNCHANGED runtime
      BY <1>2, Zenon DEF DealCommit, DealError, BootLoad, BootAcquire
    <2>. QED BY <2>1 DEF runtime, SameHand
  <1>3. CASE RollbackStart(p)
    <2>1. /\ games' = games \/ games' = [games EXCEPT ![p] = <<>>]
          /\ entries' = entries \/ entries' = [entries EXCEPT ![p] = "none"]
          /\ epochs' = [epochs EXCEPT ![p] = 0] /\ receipts' = [receipts EXCEPT ![p] = {}]
          /\ final' = final
      BY <1>3, Zenon DEF RollbackStart
    <2>. QED BY <2>1, OthersKeep
  <1>4. CASE Evict(p)
    BY <1>4, OthersKeep DEF Evict
  <1>5. CASE BootReplay(p)
    <2>1. /\ games' = games \/ games' = [games EXCEPT ![p] = Moves]
          /\ entries' = entries \/ entries' = [entries EXCEPT ![p] = "open"]
          /\ epochs' = epochs \/ epochs' = [epochs EXCEPT ![p] = boot[p].epoch]
          /\ receipts' = receipts \/ receipts' = [receipts EXCEPT ![p] = ReplayedReceipts]
          /\ final' = final
      BY <1>5, Zenon DEF BootReplay, runtime
    <2>. QED BY <2>1, OthersKeep
  <1>6. CASE Crash(p)
    BY <1>6, OthersKeep DEF Crash, Retire
  <1>. QED BY <1>1, <1>2, <1>3, <1>4, <1>5, <1>6 DEF ProcNext

(* A goroutine changes only the hand of the instance it runs on. *)
LEMMA ThreadOthers ==
  ASSUME TypeOK, NEW t \in Thread, NEW q \in Proc, threads[t].home \in Proc, ThreadNext(t)
  PROVE  \/ SameHand(q)
         \/ /\ threads[t].home = q
            /\ AppendRefused(t) \/ AppendAmbiguous(t) \/ Publish(t) \/ Finalize(t)
  <1> DEFINE p == threads[t].home
  <1>1. CASE AppendRefused(t) \/ AppendAmbiguous(t)
    <2>1. entries' = [entries EXCEPT ![p] = "quarantined"]
          /\ UNCHANGED <<games, final, epochs, receipts>>
      BY <1>1 DEF AppendRefused, AppendAmbiguous, Quarantine
    <2>. QED BY <1>1, <2>1, OthersKeep
  <1>2. CASE Publish(t)
    <2> DEFINE moves == Append(games[p], threads[t].req)
               x == [req |-> threads[t].req, phase |-> LivePhase(moves)]
    <2>1. /\ games' = [games EXCEPT ![p] = moves] \/ games' = [games EXCEPT ![p] = <<>>]
          /\ entries' = entries \/ entries' = [entries EXCEPT ![p] = "none"]
          /\ \/ final' = final \/ final' = [final EXCEPT ![p] = NoRecord]
             \/ final' = [final EXCEPT ![p] = Completed(moves)]
          /\ epochs' = epochs \/ epochs' = [epochs EXCEPT ![p] = 0]
          /\ receipts' = [receipts EXCEPT ![p] = @ \cup {x}]
      BY <1>2, Zenon DEF Publish, Retire
    <2> HIDE DEF moves, x
    <2>2. p # q => SameHand(q)
      BY <2>1 DEF TypeOK, SameHand
    <2>. QED BY <1>2, <2>2
  <1>3. CASE Finalize(t)
    <2> DEFINE record == IF final[p] # NoRecord THEN final[p] ELSE Aborted(games[p])
    <2>1. /\ games' = games \/ games' = [games EXCEPT ![p] = <<>>]
          /\ entries' = entries \/ entries' = [entries EXCEPT ![p] = "none"]
          /\ \/ final' = final \/ final' = [final EXCEPT ![p] = NoRecord]
             \/ final' = [final EXCEPT ![p] = record]
          /\ epochs' = epochs \/ epochs' = [epochs EXCEPT ![p] = 0]
          /\ receipts' = receipts
      BY <1>3, Zenon DEF Finalize, Retire
    <2> HIDE DEF record
    <2>2. p # q => SameHand(q)
      BY <2>1 DEF TypeOK, SameHand
    <2>. QED BY <1>3, <2>2
  <1>4. CASE ~AppendRefused(t) /\ ~AppendAmbiguous(t) /\ ~Publish(t) /\ ~Finalize(t)
    <2>1. UNCHANGED runtime
      BY <1>4, Zenon DEF ThreadNext, Enter, AppendCommits, Callback, AdvanceLoad, AdvanceCommits,
         AdvanceFails, Bind, TerminateCommits, TerminateYields, TerminateFails, Reconcile
    <2>. QED BY <2>1 DEF runtime, SameHand
  <1>. QED BY <1>1, <1>2, <1>3, <1>4

(* Every step touches the hand of an instance or leaves it as it is. *)
LEMMA HandStep ==
  ASSUME TypeOK, ThreadsRun, [Next]_vars, NEW q \in Proc
  PROVE  Touched(q) \/ Untouched(q)
  <1>1. ASSUME NEW p \in Proc, ProcNext(p), ~Touched(q) PROVE Untouched(q)
    <2>1. SameHand(q)
      <3>1. CASE p # q
        BY <1>1, <3>1, ProcOthers
      <3>2. CASE p = q
        <4>1. UNCHANGED runtime
          BY <1>1, <3>2, Zenon DEF ProcNext, Touched, DealCommit, DealError, BootLoad, BootAcquire
        <4>. QED BY <4>1 DEF runtime, SameHand
      <3>. QED BY <3>1, <3>2
    <2>2. ASSUME NEW t \in Thread, Publishing(t, q) PROVE threads'[t] = threads[t]
      <3>1. CASE Crash(p)
        BY <1>1, <2>2, <3>1 DEF Crash, Publishing, Touched
      <3>2. CASE BootReplay(p)
        BY <2>2, <3>2, ReplayEffect DEF Became, Begins, Idle, Publishing
      <3>3. CASE ~BootReplay(p) /\ ~Crash(p)
        <4>1. UNCHANGED threads
          BY <1>1, <3>3, Zenon DEF ProcNext, DealStart, DealCommit, DealError, RollbackStart, Evict,
             BootLoad, BootAcquire
        <4>. QED BY <4>1
      <3>. QED BY <3>1, <3>2, <3>3
    <2>. QED BY <2>1, <2>2 DEF Untouched
  <1>2. ASSUME NEW t \in Thread, ThreadNext(t), ~Touched(q) PROVE Untouched(q)
    <2>1. threads[t].pc # "idle" /\ threads[t].home \in Proc
      BY <1>2, ThreadEffect, RunningType
    <2>2. SameHand(q)
      BY <1>2, <2>1, ThreadOthers DEF Touched
    <2>3. ~Publishing(t, q)
      <3>1. threads[t].pc = "publish" => Publish(t)
        BY <1>2 DEF ThreadNext, Enter, AppendCommits, AppendRefused, AppendAmbiguous,
           Callback, AdvanceLoad, AdvanceCommits, AdvanceFails, Bind, TerminateCommits,
           TerminateYields, TerminateFails, Finalize, Reconcile
      <3>. QED BY <1>2, <3>1 DEF Publishing, Touched
    <2>. QED BY <1>2, <2>2, <2>3, ThreadEffect DEF Untouched, Became
  <1>3. ASSUME NEW t \in Thread, NEW p \in Proc, StartNext(t, p) PROVE Untouched(q)
    <2>1. UNCHANGED runtime
      BY <1>3, Zenon DEF StartNext, Cancel, Sweep, SubmitLive
    <2>2. \A u \in Thread : Publishing(u, q) => threads'[u] = threads[u]
      BY <1>3, StartEffect DEF Became, Begins, Idle, Publishing
    <2>. QED BY <2>1, <2>2 DEF runtime, SameHand, Untouched
  <1>4. CASE UNCHANGED vars
    BY <1>4 DEF vars, runtime, SameHand, Untouched
  <1>. QED BY <1>1, <1>2, <1>3, <1>4 DEF Next

(* What moves the writer row. *)
Fences == writer # NoWriter /\ writer' = [writer EXCEPT !.epoch = NextEpoch] /\ UNCHANGED actions

LEMMA WriterStep ==
  ASSUME [Next]_vars
  PROVE  \/ UNCHANGED writer
         \/ \E p \in Proc : DealStart(p)
         \/ \E p \in Proc : RollbackStart(p) /\ writer' = NoWriter
         \/ Fences
         \/ \E t \in Thread : (AppendCommits(t) \/ AppendAmbiguous(t)) /\ Appends(t)
  <1> DEFINE Goal == \/ UNCHANGED writer
                     \/ \E p \in Proc : DealStart(p)
                     \/ \E p \in Proc : RollbackStart(p) /\ writer' = NoWriter
                     \/ Fences
                     \/ \E t \in Thread : (AppendCommits(t) \/ AppendAmbiguous(t)) /\ Appends(t)
  <1>1. ASSUME NEW p \in Proc, ProcNext(p) PROVE Goal
    <2>1. CASE RollbackStart(p)
      BY <2>1 DEF RollbackStart, DeleteUnused
    <2>2. CASE BootAcquire(p)
      BY <2>2 DEF BootAcquire, Fences
    <2>3. CASE ~RollbackStart(p) /\ ~BootAcquire(p) /\ ~DealStart(p)
      <3>1. UNCHANGED writer
        BY <1>1, <2>3, Zenon DEF ProcNext, DealCommit, DealError, Evict, BootLoad,
           BootReplay, Crash, durable, journal
      <3>. QED BY <3>1
    <2>. QED BY <2>1, <2>2, <2>3
  <1>2. ASSUME NEW t \in Thread, ThreadNext(t) PROVE Goal
    <2>1. CASE TerminateCommits(t) \/ TerminateFails(t)
      <3>1. UNCHANGED writer \/ TerminateRows(t)
        BY <2>1, Zenon DEF TerminateCommits, TerminateFails
      <3>2. UNCHANGED actions
        BY <2>1 DEF TerminateCommits, TerminateFails
      <3>3. TerminateRows(t) => UNCHANGED writer \/ (writer # NoWriter /\ writer' = [writer EXCEPT !.epoch = NextEpoch])
        BY Zenon DEF TerminateRows
      <3>. QED BY <3>1, <3>2, <3>3 DEF Fences
    <2>2. CASE AppendCommits(t) \/ AppendAmbiguous(t)
      <3>1. UNCHANGED writer \/ ((AppendCommits(t) \/ AppendAmbiguous(t)) /\ Appends(t))
        BY <2>2, Zenon DEF AppendCommits, AppendAmbiguous, Appends, journal
      <3>. QED BY <3>1
    <2>3. CASE /\ ~TerminateCommits(t) /\ ~TerminateFails(t)
               /\ ~AppendCommits(t) /\ ~AppendAmbiguous(t)
      <3>1. UNCHANGED writer
        BY <1>2, <2>3, Zenon DEF ThreadNext, Enter, AppendRefused, Publish, Callback, AdvanceLoad,
           AdvanceCommits, AdvanceFails, Bind, TerminateYields, Finalize, Reconcile, durable, journal
      <3>. QED BY <3>1
    <2>. QED BY <2>1, <2>2, <2>3
  <1>3. ASSUME NEW t \in Thread, NEW p \in Proc, StartNext(t, p) PROVE UNCHANGED writer
    BY <1>3, Zenon DEF StartNext, Cancel, Sweep, SubmitLive, durable, journal
  <1>4. UNCHANGED vars => UNCHANGED writer
    BY DEF vars, durable, journal
  <1> HIDE DEF Goal
  <1>5. UNCHANGED writer => Goal
    BY Zenon DEF Goal
  <1>6. Goal
    BY <1>1, <1>2, <1>3, <1>4, <1>5, Zenon DEF Next
  <1>. QED BY <1>6, Zenon DEF Goal
-----------------------------------------------------------------------------
(* One instance at a time owns the journal. *)

(* An instance keeps or drops its epoch, or takes the one it has acquired. *)
LEMMA EpochEffect ==
  ASSUME TypeOK, ThreadsRun, [Next]_vars, NEW q \in Proc
  PROVE  \/ epochs'[q] = epochs[q] \/ epochs'[q] = 0
         \/ DealStart(q) /\ epochs'[q] = 1
         \/ BootReplay(q) /\ epochs'[q] = boot[q].epoch
  <1> DEFINE Goal == \/ epochs'[q] = epochs[q] \/ epochs'[q] = 0
                     \/ DealStart(q) /\ epochs'[q] = 1
                     \/ BootReplay(q) /\ epochs'[q] = boot[q].epoch
  <1>1. ASSUME Touched(q) PROVE Goal
    <2>1. DealStart(q) => epochs'[q] = 1
      BY DEF DealStart, TypeOK
    <2>2. RollbackStart(q) \/ Crash(q) => epochs'[q] = 0
      BY DEF RollbackStart, Crash, Retire, TypeOK
    <2>3. BootReplay(q) => epochs'[q] = epochs[q] \/ epochs'[q] = boot[q].epoch
      <3>1. BootReplay(q) => epochs' = epochs \/ epochs' = [epochs EXCEPT ![q] = boot[q].epoch]
        BY Zenon DEF BootReplay, runtime
      <3>. QED BY <3>1 DEF TypeOK
    <2>4. Evict(q) => epochs'[q] = epochs[q]
      BY DEF Evict
    <2>5. ASSUME NEW t \in Thread, threads[t].home = q,
                 AppendRefused(t) \/ AppendAmbiguous(t) \/ Publish(t) \/ Finalize(t)
          PROVE  epochs'[q] = epochs[q] \/ epochs'[q] = 0
      <3>1. epochs' = epochs \/ epochs' = [epochs EXCEPT ![q] = 0]
        BY <2>5, Zenon DEF AppendRefused, AppendAmbiguous, Publish, Finalize, Retire
      <3>. QED BY <3>1 DEF TypeOK
    <2>. QED BY <1>1, <2>1, <2>2, <2>3, <2>4, <2>5 DEF Touched
  <1>. QED BY <1>1, HandStep DEF Untouched, SameHand

(* How an instance goes through its startup. *)
Loaded(q) ==
    /\ BootLoad(q) /\ NeedsReplay /\ server[q] = "down" /\ server'[q] = "loaded"
    /\ boot'[q] = [boot[q] EXCEPT !.phase = handPhase]
    /\ UNCHANGED durable
Acquired(q) ==
    /\ BootAcquire(q) /\ writer # NoWriter /\ server[q] = "loaded" /\ server'[q] = "acquired"
    /\ writer' = [writer EXCEPT !.epoch = NextEpoch]
    /\ boot'[q] = [boot[q] EXCEPT !.epoch = NextEpoch, !.committed = writer.committed]
    /\ UNCHANGED <<handPhase, actions>>
Replayed(q) ==
    /\ BootReplay(q) /\ boot'[q] = NotLoaded
    /\ server[q] = "acquired" /\ server'[q] \in {"reconciling", "serving", "failed"}
Crashed(q) == Crash(q) /\ boot'[q] = NotLoaded /\ server'[q] = "down"
Settles(q) ==
    /\ boot'[q] = boot[q]
    /\ \/ server'[q] = server[q]
       \/ server[q] = "reconciling" /\ server'[q] \in {"failed", "serving"}
       \/ server[q] = "down" /\ server'[q] = "serving"
       \/ server[q] = "loaded" /\ server'[q] = "failed"

LEMMA BootEffect ==
  ASSUME TypeOK, ThreadsRun, [Next]_vars, NEW q \in Proc
  PROVE  Loaded(q) \/ Acquired(q) \/ Replayed(q) \/ Crashed(q) \/ Settles(q)
  <1> DEFINE Goal == Loaded(q) \/ Acquired(q) \/ Replayed(q) \/ Crashed(q) \/ Settles(q)
  <1>0. /\ server \in [Proc -> {"down", "loaded", "acquired", "reconciling", "serving", "failed"}]
        /\ boot \in [Proc -> [phase : HandPhases, epoch : Nat, committed : Nat]]
    BY DEF TypeOK
  <1>1. ASSUME NEW p \in Proc, ProcNext(p) PROVE Goal
    <2>1. CASE BootLoad(p)
      <3>1. \/ NeedsReplay /\ server' = [server EXCEPT ![p] = "loaded"]
               /\ boot' = [boot EXCEPT ![p] = [@ EXCEPT !.phase = handPhase]]
            \/ server' = [server EXCEPT ![p] = "serving"] /\ boot' = boot
        BY <2>1, Zenon DEF BootLoad
      <3>2. server[p] = "down" /\ UNCHANGED durable
        BY <2>1, Zenon DEF BootLoad
      <3>. QED BY <1>0, <2>1, <3>1, <3>2 DEF Loaded, Settles
    <2>2. CASE BootAcquire(p)
      <3>1. \/ /\ writer # NoWriter /\ writer' = [writer EXCEPT !.epoch = NextEpoch]
               /\ boot' = [boot EXCEPT ![p] =
                    [@ EXCEPT !.epoch = NextEpoch, !.committed = writer.committed]]
               /\ server' = [server EXCEPT ![p] = "acquired"]
            \/ server' = [server EXCEPT ![p] = "failed"] /\ boot' = boot
        BY <2>2, Zenon DEF BootAcquire
      <3>2. server[p] = "loaded" /\ UNCHANGED <<handPhase, actions>>
        BY <2>2, Zenon DEF BootAcquire
      <3>. QED BY <1>0, <2>2, <3>1, <3>2 DEF Acquired, Settles
    <2>3. CASE BootReplay(p)
      <3>1. \/ server' = [server EXCEPT ![p] = "reconciling"]
            \/ server' = [server EXCEPT ![p] = "serving"]
            \/ server' = [server EXCEPT ![p] = "failed"]
        BY <2>3, Zenon DEF BootReplay, Reconciler
      <3>2. server[p] = "acquired" /\ boot' = [boot EXCEPT ![p] = NotLoaded]
        BY <2>3, Zenon DEF BootReplay
      <3>. QED BY <1>0, <2>3, <3>1, <3>2 DEF Replayed, Settles
    <2>4. CASE Crash(p)
      BY <1>0, <2>4 DEF Crash, Crashed, Settles
    <2>5. CASE ~BootLoad(p) /\ ~BootAcquire(p) /\ ~BootReplay(p) /\ ~Crash(p)
      <3>1. UNCHANGED <<server, boot>>
        BY <1>1, <2>5, Zenon DEF ProcNext, DealStart, DealCommit, DealError, RollbackStart, Evict
      <3>. QED BY <3>1 DEF Settles
    <2>. QED BY <2>1, <2>2, <2>3, <2>4, <2>5
  <1>2. ASSUME NEW t \in Thread, ThreadNext(t) PROVE Settles(q)
    <2>1. threads[t].home \in Proc /\ threads[t].mode = "boot" => server[threads[t].home] = "reconciling"
      BY <1>2, ThreadEffect, RunningType DEF ThreadsRun, RunsOn
    <2>2. UNCHANGED boot
      BY <1>2, Zenon DEF ThreadNext, Enter, AppendCommits, AppendRefused, AppendAmbiguous, Publish,
         Callback, AdvanceLoad, AdvanceCommits, AdvanceFails, Bind, TerminateCommits,
         TerminateYields, TerminateFails, Finalize, Reconcile
    <2>3. UNCHANGED server \/ Fail(t) \/ Done(t)
      BY <1>2, Zenon DEF ThreadNext, Enter, AppendCommits, AppendRefused, AppendAmbiguous, Publish,
         Callback, AdvanceLoad, AdvanceCommits, AdvanceFails, Bind, TerminateCommits,
         TerminateYields, TerminateFails, Finalize, Reconcile
    <2>4. Fail(t) => server' = server \/ (threads[t].mode = "boot" /\ server' = [server EXCEPT ![threads[t].home] = "failed"])
      BY Zenon DEF Fail
    <2>5. Done(t) => server' = server \/ (threads[t].mode = "boot" /\ server' = [server EXCEPT ![threads[t].home] = "serving"])
      BY Zenon DEF Done
    <2>. QED BY <1>0, <2>1, <2>2, <2>3, <2>4, <2>5 DEF Settles
  <1>3. ASSUME NEW t \in Thread, NEW p \in Proc, StartNext(t, p) PROVE Settles(q)
    <2>1. UNCHANGED <<server, boot>>
      BY <1>3, Zenon DEF StartNext, Cancel, Sweep, SubmitLive
    <2>. QED BY <2>1 DEF Settles
  <1>4. UNCHANGED vars => Settles(q)
    BY DEF vars, Settles
  <1> HIDE DEF Goal
  <1>5. Settles(q) => Goal
    BY Zenon DEF Goal
  <1>6. Goal
    BY <1>1, <1>2, <1>3, <1>4, <1>5, Zenon DEF Next
  <1>. QED BY <1>6, Zenon DEF Goal

(* How a pending termination is bound and dropped. *)
LEMMA PendingEffect ==
  ASSUME TypeOK, ThreadsRun, [Next]_vars, NEW q \in Proc
  PROVE  \/ pending'[q] = pending[q] \/ pending'[q] = NoCommand
         \/ \E t \in Thread :
              /\ Bind(t) /\ threads[t].home = q /\ pending[q] = NoCommand /\ ~Terminal(handPhase)
              /\ pending'[q] = [threads[t].cmd EXCEPT !.phase = handPhase] /\ UNCHANGED server
  <1> DEFINE Bound(t) ==
        /\ Bind(t) /\ threads[t].home = q /\ pending[q] = NoCommand /\ ~Terminal(handPhase)
        /\ pending'[q] = [threads[t].cmd EXCEPT !.phase = handPhase] /\ UNCHANGED server
  <1>0. pending \in [Proc -> Commands]
    BY DEF TypeOK
  <1>1. ASSUME NEW p \in Proc, ProcNext(p) PROVE pending'[q] = pending[q] \/ pending'[q] = NoCommand
    <2>1. pending' = pending \/ pending' = [pending EXCEPT ![p] = NoCommand]
      BY <1>1, Zenon DEF ProcNext, DealStart, DealCommit, DealError, RollbackStart, Evict,
         BootLoad, BootAcquire, BootReplay, Crash
    <2>. QED BY <1>0, <2>1
  <1>2. ASSUME NEW t \in Thread, ThreadNext(t)
        PROVE  pending'[q] = pending[q] \/ pending'[q] = NoCommand \/ Bound(t)
    <2>1. threads[t].home \in Proc
      BY <1>2, ThreadEffect, RunningType
    <2>2. CASE Bind(t)
      <3>1. \/ pending' = pending
            \/ /\ pending[threads[t].home] = NoCommand /\ ~Terminal(handPhase) /\ UNCHANGED server
               /\ pending' = [pending EXCEPT ![threads[t].home] =
                                [threads[t].cmd EXCEPT !.phase = handPhase]]
        BY <2>2, Zenon DEF Bind
      <3>. QED BY <1>0, <2>1, <2>2, <3>1
    <2>3. CASE ~Bind(t)
      <3>1. pending' = pending \/ pending' = [pending EXCEPT ![threads[t].home] = NoCommand]
        BY <1>2, <2>3, Zenon DEF ThreadNext, Enter, AppendCommits, AppendRefused, AppendAmbiguous,
           Publish, Callback, AdvanceLoad, AdvanceCommits, AdvanceFails, TerminateCommits,
           TerminateYields, TerminateFails, Finalize, Reconcile, Forget
      <3>. QED BY <1>0, <3>1
    <2>. QED BY <2>2, <2>3
  <1>3. ASSUME NEW t \in Thread, NEW p \in Proc, StartNext(t, p) PROVE pending'[q] = pending[q]
    BY <1>3, Zenon DEF StartNext, Cancel, Sweep, SubmitLive
  <1>4. UNCHANGED vars => pending'[q] = pending[q]
    BY DEF vars
  <1>. QED BY <1>1, <1>2, <1>3, <1>4, Zenon DEF Next

(* How a deal goes. *)
LEMMA DealEffect ==
  ASSUME TypeOK, [Next]_vars, NEW q \in Proc
  PROVE  \/ dealing'[q] = dealing[q]
         \/ DealStart(q)
         \/ DealCommit(q)
         \/ DealError(q)
         \/ (RollbackStart(q) \/ Crash(q)) /\ dealing'[q] = "none" /\ epochs'[q] = 0
  <1> DEFINE Goal == \/ dealing'[q] = dealing[q]
                     \/ DealStart(q)
                     \/ DealCommit(q)
                     \/ DealError(q)
                     \/ (RollbackStart(q) \/ Crash(q)) /\ dealing'[q] = "none" /\ epochs'[q] = 0
  <1>1. ASSUME NEW p \in Proc, ProcNext(p) PROVE Goal
    <2>1. CASE p # q
      <3>1. dealing' = dealing \/ \E s : dealing' = [dealing EXCEPT ![p] = s]
        BY <1>1, Zenon DEF ProcNext, DealStart, DealCommit, DealError, RollbackStart, Evict,
           BootLoad, BootAcquire, BootReplay, Crash
      <3>. QED BY <2>1, <3>1 DEF TypeOK
    <2>2. CASE p = q
      <3>1. RollbackStart(p) \/ Crash(p) => dealing'[p] = "none" /\ epochs'[p] = 0
        BY DEF RollbackStart, Crash, Retire, TypeOK
      <3>2. Evict(p) \/ BootLoad(p) \/ BootAcquire(p) \/ BootReplay(p) => dealing' = dealing
        BY Zenon DEF Evict, BootLoad, BootAcquire, BootReplay
      <3>. QED BY <1>1, <2>2, <3>1, <3>2 DEF ProcNext
    <2>. QED BY <2>1, <2>2
  <1>2. ASSUME NEW t \in Thread, ThreadNext(t) PROVE dealing'[q] = dealing[q]
    BY <1>2, Zenon DEF ThreadNext, Enter, AppendCommits, AppendRefused, AppendAmbiguous, Publish,
       Callback, AdvanceLoad, AdvanceCommits, AdvanceFails, Bind, TerminateCommits,
       TerminateYields, TerminateFails, Finalize, Reconcile
  <1>3. ASSUME NEW t \in Thread, NEW p \in Proc, StartNext(t, p) PROVE dealing'[q] = dealing[q]
    BY <1>3, Zenon DEF StartNext, Cancel, Sweep, SubmitLive
  <1>4. UNCHANGED vars => dealing'[q] = dealing[q]
    BY DEF vars
  <1> HIDE DEF Goal
  <1>5. dealing'[q] = dealing[q] => Goal
    BY Zenon DEF Goal
  <1>6. Goal
    BY <1>1, <1>2, <1>3, <1>4, <1>5, Zenon DEF Next
  <1>. QED BY <1>6, Zenon DEF Goal
(* An instance claims an epoch it writes with, or has acquired to do so. *)
Claim(e, q) == e # 0 /\ (e = epochs[q] \/ e = boot[q].epoch)
ClaimAfter(e, q) == e # 0 /\ (e = epochs'[q] \/ e = boot'[q].epoch)

(* Claims are kept from before, or fresh from the writer row. *)
LEMMA ClaimEffect ==
  ASSUME TypeOK, ThreadsRun, [Next]_vars, NEW q \in Proc, NEW e, ClaimAfter(e, q)
  PROVE  \/ Claim(e, q)
         \/ DealStart(q) /\ e = 1
         \/ Acquired(q) /\ e = NextEpoch
  <1>1. boot[q] \in [phase : HandPhases, epoch : Nat, committed : Nat]
    BY DEF TypeOK
  <1>2. boot'[q].epoch = boot[q].epoch \/ boot'[q].epoch = 0 \/ (Acquired(q) /\ boot'[q].epoch = NextEpoch)
    <2>1. Loaded(q) \/ Settles(q) => boot'[q].epoch = boot[q].epoch
      BY <1>1 DEF Loaded, Settles
    <2>2. Acquired(q) => boot'[q].epoch = NextEpoch
      BY <1>1 DEF Acquired
    <2>3. Replayed(q) \/ Crashed(q) => boot'[q].epoch = 0
      BY DEF Replayed, Crashed, NotLoaded
    <2>. QED BY <2>1, <2>2, <2>3, BootEffect
  <1>3. \/ epochs'[q] = epochs[q] \/ epochs'[q] = 0
        \/ DealStart(q) /\ epochs'[q] = 1
        \/ epochs'[q] = boot[q].epoch
    BY EpochEffect
  <1>. QED BY <1>2, <1>3 DEF Claim, ClaimAfter

(* Before the journal row is there, nobody claims an epoch. *)
LEMMA NoClaimBeforeDeal ==
  ASSUME IInv, EpochInv, NEW p \in Proc, DealStart(p), NEW q \in Proc, NEW e
  PROVE  ~Claim(e, q)
  <1>1. handPhase = "DEALING" /\ writer = NoWriter
    BY DEF DealStart
  <1>2. epochs[q] = 0
    BY <1>1 DEF EpochInv, DealOwner
  <1>3. server[q] # "acquired"
    BY <1>1 DEF IInv, Undealt
  <1>4. boot[q].epoch = 0
    BY <1>3 DEF EpochInv, BootHolds
  <1>. QED BY <1>2, <1>4 DEF Claim

(* A claim is bounded by the writer row. *)
LEMMA ClaimBounded ==
  ASSUME IInv, EpochInv, writer # NoWriter, NEW q \in Proc, NEW e, Claim(e, q)
  PROVE  e \in Nat /\ e <= writer.epoch
  <1>1. TypeOK
    BY DEF IInv
  <1>2. epochs[q] \in Nat /\ boot[q].epoch \in Nat
    BY <1>1 DEF TypeOK
  <1>. QED BY <1>2 DEF Claim, EpochInv, EpochsBounded

(* No epoch is claimed twice. *)
LEMMA ClaimsStep ==
  ASSUME IInv, EpochInv, [Next]_vars
  PROVE  ClaimsDistinct'
  <1>1. TypeOK /\ ThreadsRun
    BY DEF IInv
  <1>2. writer.epoch \in Nat
    BY <1>1 DEF TypeOK
  <1>3. ASSUME NEW p \in Proc, NEW q \in Proc, p # q, NEW e, ClaimAfter(e, p), ClaimAfter(e, q)
        PROVE  FALSE
    <2>1. ~(Claim(e, p) /\ Claim(e, q))
      BY <1>3 DEF Claim, EpochInv, ClaimsDistinct
    <2>2. ASSUME NEW a \in Proc, NEW b \in Proc, Claim(e, a), ClaimAfter(e, b) PROVE Claim(e, b)
      <3>1. ~DealStart(b)
        BY <2>2, NoClaimBeforeDeal
      <3>2. ~(Acquired(b) /\ e = NextEpoch)
        BY <1>2, <2>2, ClaimBounded DEF Acquired, NextEpoch
      <3>. QED BY <1>1, <2>2, <3>1, <3>2, ClaimEffect
    <2>3. ~Claim(e, p) /\ ~Claim(e, q)
      BY <1>3, <2>1, <2>2
    <2>4. DealStart(p) \/ Acquired(p)
      BY <1>1, <1>3, <2>3, ClaimEffect
    <2>5. DealStart(q) \/ Acquired(q)
      BY <1>1, <1>3, <2>3, ClaimEffect
    <2>6. DealStart(p) => epochs' = [epochs EXCEPT ![p] = 1] /\ UNCHANGED boot /\ writer = NoWriter
      BY DEF DealStart
    <2>7. DealStart(q) => epochs' = [epochs EXCEPT ![q] = 1] /\ UNCHANGED boot /\ writer = NoWriter
      BY DEF DealStart
    <2>8. Acquired(p) => UNCHANGED epochs /\ (\E b : boot' = [boot EXCEPT ![p] = b]) /\ writer # NoWriter
      <3>1. BootAcquire(p) /\ writer # NoWriter
              => UNCHANGED epochs /\ \E b : boot' = [boot EXCEPT ![p] = b]
        BY Zenon DEF BootAcquire, runtime
      <3>. QED BY <3>1 DEF Acquired
    <2>9. Acquired(p) => ~ClaimAfter(e, q)
      BY <1>1, <1>3, <2>3, <2>8 DEF ClaimAfter, Claim, TypeOK
    <2>10. DealStart(p) => ~ClaimAfter(e, q)
      BY <1>1, <1>3, <2>3, <2>6 DEF ClaimAfter, Claim, TypeOK
    <2>. QED BY <1>3, <2>4, <2>9, <2>10
  <1>. QED BY <1>3 DEF ClaimsDistinct, ClaimAfter

(* Epochs stay bounded by the writer row. *)
LEMMA BoundedStep ==
  ASSUME IInv, IInv', EpochInv, [Next]_vars
  PROVE  EpochsBounded'
  <1>1. TypeOK /\ TypeOK' /\ ThreadsRun
    BY DEF IInv
  <1>2. SUFFICES ASSUME writer' # NoWriter, NEW q \in Proc, NEW e, ClaimAfter(e, q)
                 PROVE  e <= writer'.epoch
    <2>1. /\ \A q \in Proc : epochs'[q] \in Nat /\ boot'[q].epoch \in Nat
          /\ writer'.epoch \in Nat
      BY <1>1 DEF TypeOK
    <2>. QED BY <2>1 DEF EpochsBounded, ClaimAfter
  <1>3. writer.epoch \in Nat /\ writer'.epoch \in Nat /\ writer \in [epoch : Nat, committed : Nat]
    BY <1>1 DEF TypeOK
  <1>4. ASSUME NEW p \in Proc, DealStart(p) PROVE e <= writer'.epoch
    <2>1. writer'.epoch = 1 /\ writer = NoWriter
      BY <1>4 DEF DealStart
    <2>2. ~Acquired(q)
      BY <2>1 DEF Acquired
    <2>. QED BY <1>1, <1>2, <1>4, <2>1, <2>2, NoClaimBeforeDeal, ClaimEffect
  <1>5. CASE \A p \in Proc : ~DealStart(p)
    <2>1. writer # NoWriter
      <3>1. ASSUME NEW t \in Thread, Appends(t) PROVE writer # NoWriter
        <4>1. threads[t].home \in Proc /\ threads[t].req \in Requests
          BY <1>1, <3>1, RunningType DEF Appends
        <4>. QED BY <3>1, <4>1, AppendedAtVersion DEF Appends, IInv
      <3>. QED BY <1>2, <1>5, <3>1, WriterStep DEF Fences
    <2>2. writer'.epoch = writer.epoch \/ writer'.epoch = NextEpoch
      <3>1. ASSUME NEW t \in Thread, Appends(t) PROVE writer'.epoch = writer.epoch
        BY <1>3, <3>1 DEF Appends, JournalAppend
      <3>2. Fences => writer'.epoch = NextEpoch
        BY <1>3 DEF Fences
      <3>. QED BY <1>2, <1>5, <3>1, <3>2, WriterStep
    <2>3. Acquired(q) => writer'.epoch = NextEpoch
      BY <1>3 DEF Acquired
    <2>4. Claim(e, q) \/ (Acquired(q) /\ e = NextEpoch)
      BY <1>1, <1>2, <1>5, ClaimEffect
    <2>. QED BY <1>3, <2>1, <2>2, <2>3, <2>4, ClaimBounded DEF NextEpoch
  <1>. QED BY <1>4, <1>5

(* Only a startup that has acquired an epoch holds it in boot. *)
LEMMA BootHoldsStep ==
  ASSUME IInv, EpochInv, [Next]_vars
  PROVE  BootHolds'
  <1>1. TypeOK /\ ThreadsRun
    BY DEF IInv
  <1>2. SUFFICES ASSUME NEW q \in Proc
                 PROVE  /\ boot'[q].epoch # 0 <=> server'[q] = "acquired"
                        /\ server'[q] \in {"down", "loaded", "acquired"} =>
                             epochs'[q] = 0 /\ pending'[q] = NoCommand
    BY DEF BootHolds
  <1>3. /\ boot[q].epoch # 0 <=> server[q] = "acquired"
        /\ server[q] \in {"down", "loaded", "acquired"} => epochs[q] = 0 /\ pending[q] = NoCommand
    BY DEF EpochInv, BootHolds
  <1>4. boot[q] \in [phase : HandPhases, epoch : Nat, committed : Nat] /\ writer.epoch \in Nat
    BY <1>1 DEF TypeOK
  <1>5. boot'[q].epoch # 0 <=> server'[q] = "acquired"
    <2>1. Loaded(q) => boot'[q].epoch = 0 /\ server'[q] = "loaded"
      BY <1>3, <1>4 DEF Loaded
    <2>2. Settles(q) => boot'[q].epoch = boot[q].epoch /\ (server'[q] = "acquired" <=> server[q] = "acquired")
      BY DEF Settles
    <2>3. Acquired(q) => boot'[q].epoch = NextEpoch /\ server'[q] = "acquired"
      BY <1>4 DEF Acquired
    <2>4. NextEpoch # 0
      BY <1>4 DEF NextEpoch
    <2>5. Replayed(q) \/ Crashed(q) => boot'[q].epoch = 0 /\ server'[q] # "acquired"
      BY DEF Replayed, Crashed, NotLoaded
    <2>. QED BY <1>1, <1>3, <2>1, <2>2, <2>3, <2>4, <2>5, BootEffect
  <1>6. ASSUME server'[q] \in {"down", "loaded", "acquired"}
        PROVE  epochs'[q] = 0 /\ pending'[q] = NoCommand
    <2>1. CASE Crash(q)
      BY <1>1, <2>1 DEF Crash, Retire, TypeOK
    <2>2. CASE ~Crash(q)
      <3>1. server[q] \in {"down", "loaded", "acquired"} /\ ~BootReplay(q)
        <4>1. ~Replayed(q)
          BY <1>6 DEF Replayed
        <4>2. Loaded(q) \/ Acquired(q) \/ Settles(q)
          BY <1>1, <2>2, <4>1, BootEffect DEF Crashed
        <4>3. server[q] \in {"down", "loaded", "acquired"}
          BY <1>6, <4>2 DEF Loaded, Acquired, Settles
        <4>4. BootReplay(q) => boot'[q] = NotLoaded /\ server[q] = "acquired"
          BY <1>1 DEF BootReplay, TypeOK
        <4>5. ~BootReplay(q)
          <5>1. ASSUME BootReplay(q) PROVE FALSE
            <6>1. boot'[q].epoch = 0 /\ server[q] = "acquired"
              BY <4>4, <5>1 DEF NotLoaded
            <6>2. server'[q] = "acquired" => FALSE
              BY <1>5, <6>1
            <6>3. \/ server' = [server EXCEPT ![q] = "reconciling"]
                  \/ server' = [server EXCEPT ![q] = "serving"]
                  \/ server' = [server EXCEPT ![q] = "failed"]
              BY <5>1, Zenon DEF BootReplay, Reconciler
            <6>. QED BY <1>1, <1>6, <6>3 DEF TypeOK
          <5>. QED BY <5>1
        <4>. QED BY <4>3, <4>5
      <3>2. epochs[q] = 0 /\ pending[q] = NoCommand
        BY <1>3, <3>1
      <3>3. ~DealStart(q)
        BY <3>1 DEF DealStart
      <3>4. epochs'[q] = 0
        BY <1>1, <3>1, <3>2, <3>3, EpochEffect
      <3>5. pending'[q] = NoCommand
        <4>1. ASSUME NEW t \in Thread, Bind(t), threads[t].home = q PROVE FALSE
          BY <1>1, <3>1, <4>1 DEF Bind, ThreadsRun, RunsOn
        <4>. QED BY <1>1, <3>2, <4>1, PendingEffect
      <3>. QED BY <3>4, <3>5
    <2>. QED BY <2>1, <2>2
  <1>. QED BY <1>5, <1>6

(* Until the deal commits, the dealer alone has an epoch. *)
LEMMA DealOwnerStep ==
  ASSUME IInv, EpochInv, [Next]_vars
  PROVE  DealOwner'
  <1>1. TypeOK /\ ThreadsRun /\ DealLocked /\ Undealt
    BY DEF IInv
  <1>2. SUFFICES ASSUME handPhase' = "DEALING"
                 PROVE  \A p \in Proc :
                          /\ epochs'[p] # 0 => dealing'[p] # "none"
                          /\ dealing'[p] # "none" =>
                               writer' # NoWriter /\ \A q \in Proc : dealing'[q] # "none" => p = q
    BY DEF DealOwner
  <1>3. handPhase = "DEALING"
    BY <1>1, <1>2, DealStep DEF LeavesDealing
  <1>4. \A p \in Proc :
          /\ epochs[p] # 0 => dealing[p] # "none"
          /\ dealing[p] # "none" =>
               writer # NoWriter /\ \A q \in Proc : dealing[q] # "none" => p = q
    BY <1>3 DEF EpochInv, DealOwner
  <1>5. \A p \in Proc : ~DealCommit(p)
    BY <1>2 DEF DealCommit
  <1>6. \A p \in Proc : ~BootReplay(p)
    BY <1>1, <1>3 DEF Undealt, BootReplay
  <1>7. ASSUME NEW p \in Proc, DealStart(p)
        PROVE  /\ writer = NoWriter /\ writer' # NoWriter /\ dealing'[p] # "none" /\ epochs'[p] # 0
               /\ \A q \in Proc : q # p => dealing'[q] = dealing[q] /\ epochs'[q] = epochs[q]
    BY <1>1, <1>7 DEF DealStart, NoWriter, TypeOK
  <1>8. ASSUME NEW p \in Proc PROVE epochs'[p] # 0 => dealing'[p] # "none"
    <2>1. epochs'[p] # 0 => epochs[p] # 0 \/ DealStart(p)
      BY <1>1, <1>6, EpochEffect
    <2>2. dealing'[p] = "none" => dealing[p] = "none" \/ epochs'[p] = 0
      <3>1. DealError(p) => dealing'[p] # "none"
        BY <1>1 DEF DealError, TypeOK
      <3>. QED BY <1>1, <1>5, <1>7, <3>1, DealEffect
    <2>. QED BY <1>4, <1>7, <2>1, <2>2
  <1>9. \A p \in Proc : dealing'[p] # "none" => dealing[p] # "none" \/ DealStart(p)
    BY <1>1, <1>5, DealEffect DEF DealError
  <1>10. ASSUME NEW p \in Proc, dealing'[p] # "none"
         PROVE  writer' # NoWriter /\ \A q \in Proc : dealing'[q] # "none" => p = q
    <2>1. CASE \E d \in Proc : DealStart(d)
      BY <1>4, <1>7, <1>10, <2>1
    <2>2. CASE \A d \in Proc : ~DealStart(d)
      <3>1. dealing[p] # "none" /\ \A q \in Proc : dealing'[q] # "none" => p = q
        BY <1>4, <1>9, <1>10, <2>2
      <3>2. writer # NoWriter
        BY <1>4, <3>1
      <3>3. ASSUME NEW d \in Proc, RollbackStart(d) PROVE FALSE
        <4>1. dealing[d] # "none" /\ dealing'[d] = "none"
          BY <1>1, <3>3 DEF RollbackStart, TypeOK
        <4>. QED BY <1>4, <1>10, <3>1, <4>1
      <3>4. writer' # NoWriter
        <4>1. ASSUME NEW t \in Thread, Appends(t) PROVE FALSE
          BY <1>1, <1>3, <4>1 DEF Appends, Undealt, ThreadsRun, RunsOn
        <4>2. Fences => writer' # NoWriter
          <5>1. writer \in [epoch : Nat, committed : Nat]
            BY <1>1 DEF TypeOK
          <5>. QED BY <5>1 DEF Fences, NextEpoch, NoWriter
        <4>. QED BY <2>2, <3>2, <3>3, <4>1, <4>2, WriterStep
      <3>. QED BY <3>1, <3>4
    <2>. QED BY <2>1, <2>2
  <1>. QED BY <1>8, <1>10

(* The epochs of the instances are inductive. *)
LEMMA EpochStep ==
  ASSUME IInv, IInv', EpochInv, [Next]_vars
  PROVE  EpochInv'
  BY ClaimsStep, BoundedStep, BootHoldsStep, DealOwnerStep DEF EpochInv
(* While a goroutine holds the stripe nobody else touches the hand. *)
LEMMA HeldUntouched ==
  ASSUME IInv, HoldersWrite, [Next]_vars, NEW t \in Thread, Holds(t), Holds(t)'
  PROVE  Untouched(threads[t].home)
  <1> DEFINE p == threads[t].home
  <1>1. TypeOK /\ ThreadsRun /\ Undealt /\ StripeExclusive
    BY DEF IInv
  <1>2. p \in Proc /\ threads[t].mode = "fresh" /\ server[p] = "serving" /\ ~StripeFree(p)
    BY <1>1, RunningType DEF Holds, ThreadsRun, RunsOn, StripeFree
  <1>3. threads'[t] # Resting
    BY DEF Holds, Resting
  <1>4. ~DealStart(p)
    BY <1>1, <1>2 DEF DealStart, Undealt, Holds
  <1>5. ~RollbackStart(p) /\ ~BootReplay(p)
    BY <1>2 DEF RollbackStart, BootReplay
  <1>6. ~Evict(p)
    BY DEF Evict, HoldersWrite, Writable
  <1>7. ~Crash(p)
    BY <1>3 DEF Crash
  <1>8. ASSUME NEW u \in Thread, threads[u].home = p,
               AppendRefused(u) \/ AppendAmbiguous(u) \/ Publish(u) \/ Finalize(u)
        PROVE  FALSE
    <2>1. ~Finalize(u)
      BY <1>2, <1>8 DEF Finalize
    <2>2. Holds(u)
      BY <1>8, <2>1 DEF AppendRefused, AppendAmbiguous, Publish, Holds
    <2>3. u = t
      BY <1>1, <1>8, <2>2 DEF StripeExclusive
    <2>4. AppendRefused(t) \/ AppendAmbiguous(t) => Fail(t)
      BY Zenon DEF AppendRefused, AppendAmbiguous
    <2>5. Fail(t) => threads'[t] = Resting
      BY <1>1 DEF Fail, TypeOK
    <2>6. Publish(t) => Fail(t) \/ threads'[t].pc = "callback"
      <3> DEFINE phase == LivePhase(Append(games[p], threads[t].req))
                 thread == [threads[t] EXCEPT !.pc = "callback", !.result = phase]
      <3>1. Publish(t) => Fail(t) \/ threads' = [threads EXCEPT ![t] = thread]
        BY Zenon DEF Publish
      <3>2. thread.pc = "callback"
        BY <1>1 DEF TypeOK, Goroutines
      <3> HIDE DEF thread
      <3>. QED BY <1>1, <3>1, <3>2 DEF TypeOK
    <2>. QED BY <1>3, <1>8, <2>1, <2>3, <2>4, <2>5, <2>6 DEF Holds
  <1>. QED BY <1>1, <1>2, <1>4, <1>5, <1>6, <1>7, <1>8, HandStep DEF Touched

(* Who holds the stripe may write. *)
LEMMA HoldersWriteStep ==
  ASSUME IInv, HoldersWrite, [Next]_vars
  PROVE  HoldersWrite'
  <1>1. TypeOK /\ ThreadsRun
    BY DEF IInv
  <1>2. ASSUME NEW u \in Thread, Holds(u)'
        PROVE  /\ epochs'[threads'[u].home] # 0 /\ entries'[threads'[u].home] = "open"
               /\ final'[threads'[u].home] = NoRecord
    <2> DEFINE p == threads[u].home
    <2>1. CASE threads'[u] = threads[u]
      <3>1. Holds(u)
        BY <1>2, <2>1 DEF Holds
      <3>2. Untouched(p) /\ Writable(p)
        BY <1>2, <3>1, HeldUntouched DEF HoldersWrite
      <3>. QED BY <2>1, <3>2 DEF Untouched, SameHand, Writable, Contains
    <2>2. CASE ThreadNext(u) /\ threads[u].pc # "idle" /\ WorksOn(u, threads'[u])
      <3>1. /\ threads'[u].home = p
            /\ Takes(u, threads'[u]) \/ Passes(u, threads'[u])
        BY <1>2, <2>2 DEF WorksOn, Recalls, Shows, Turns, Loads, Aborts, Binds, Ends, GoesOn, Holds
      <3>2. Takes(u, threads'[u]) => Writable(p) /\ UNCHANGED runtime
        BY DEF Takes, Playable, Enter
      <3>3. Passes(u, threads'[u]) => Writable(p) /\ UNCHANGED runtime
        BY DEF Passes, AppendCommits, HoldersWrite, Holds
      <3>. QED BY <3>1, <3>2, <3>3 DEF runtime, Writable, Contains
    <2>3. threads'[u] # Resting
      BY <1>2 DEF Resting, Holds
    <2>4. ASSUME NEW q \in Proc PROVE ~Begins(u, q, threads'[u])
      BY <1>2 DEF Begins, Answered, Queues, Cancels, Sweeps, Reconciles, Holds
    <2>. QED BY <1>1, <2>1, <2>2, <2>3, <2>4, GoroutineStep
  <1>. QED BY <1>2 DEF HoldersWrite, Writable, Contains

(* The newest epoch was the newest before, or was taken in this step. *)
LEMMA NewestBefore ==
  ASSUME IInv, EpochInv, [Next]_vars, NEW p \in Proc,
         epochs'[p] # 0, epochs'[p] = writer'.epoch
  PROVE  \/ epochs[p] # 0 /\ epochs[p] = writer.epoch /\ epochs'[p] = epochs[p]
         \/ DealStart(p) \/ BootReplay(p)
  <1>1. TypeOK /\ ThreadsRun
    BY DEF IInv
  <1>2. SUFFICES ASSUME ~DealStart(p), ~BootReplay(p)
                 PROVE  epochs[p] # 0 /\ epochs[p] = writer.epoch /\ epochs'[p] = epochs[p]
    OBVIOUS
  <1>3. epochs'[p] = epochs[p] /\ epochs[p] # 0
    BY <1>1, <1>2, EpochEffect
  <1>4. writer # NoWriter /\ writer' # NoWriter /\ epochs[p] <= writer.epoch
    <2>1. writer' # NoWriter
      <3>1. NoWriter.epoch = 0
        BY DEF NoWriter
      <3>. QED BY <1>3, <3>1
    <2>2. ASSUME NEW d \in Proc, DealStart(d) PROVE FALSE
      BY <1>3, <2>2, NoClaimBeforeDeal DEF Claim
    <2>3. ASSUME NEW t \in Thread, Appends(t) PROVE writer # NoWriter
      <3>1. threads[t].home \in Proc /\ threads[t].req \in Requests
        BY <1>1, <2>3, RunningType DEF Appends
      <3>. QED BY <2>3, <3>1, AppendedAtVersion DEF Appends, IInv
    <2>4. writer # NoWriter
      BY <2>1, <2>2, <2>3, WriterStep DEF Fences
    <2>. QED BY <2>1, <2>4 DEF EpochInv, EpochsBounded
  <1>5. epochs[p] = writer.epoch
    <2>1. writer \in [epoch : Nat, committed : Nat] /\ epochs[p] \in Nat
      BY <1>1 DEF TypeOK
    <2>2. Fences => FALSE
      <3>1. Fences => writer'.epoch = writer.epoch + 1
        BY <2>1 DEF Fences, NextEpoch
      <3>. QED BY <1>3, <1>4, <2>1, <3>1
    <2>3. ASSUME NEW d \in Proc, DealStart(d) PROVE FALSE
      BY <1>3, <2>3, NoClaimBeforeDeal DEF Claim
    <2>4. ASSUME NEW t \in Thread, Appends(t) PROVE writer'.epoch = writer.epoch
      BY <2>1, <2>4 DEF Appends, JournalAppend
    <2>. QED BY <1>3, <1>4, <2>2, <2>3, <2>4, WriterStep
  <1>. QED BY <1>3, <1>5

(* An owner was the owner before, or took the hand in this step. *)
LEMMA OwnedBefore ==
  ASSUME IInv, EpochInv, [Next]_vars, NEW p \in Proc,
         epochs'[p] # 0, entries'[p] = "open", final'[p] = NoRecord, epochs'[p] = writer'.epoch
  PROVE  \/ Owns(p) \/ DealStart(p) \/ BootReplay(p)
  <1>1. TypeOK /\ ThreadsRun
    BY DEF IInv
  <1>2. SUFFICES ASSUME ~DealStart(p), ~BootReplay(p) PROVE Owns(p)
    OBVIOUS
  <1>3. epochs'[p] = epochs[p] /\ epochs[p] # 0 /\ epochs[p] = writer.epoch
    BY <1>2, NewestBefore
  <1>4. entries[p] = "open" /\ final[p] = NoRecord
    <2>1. CASE Untouched(p)
      BY <2>1 DEF Untouched, SameHand
    <2>2. CASE Touched(p)
      <3>1. ~RollbackStart(p) /\ ~Crash(p)
        BY <1>1, <1>3 DEF RollbackStart, Crash, Retire, TypeOK
      <3>2. Evict(p) => entries' = entries /\ final' = final
        BY DEF Evict
      <3>3. ASSUME NEW t \in Thread, threads[t].home = p,
                   AppendRefused(t) \/ AppendAmbiguous(t)
            PROVE  FALSE
        BY <1>1, <3>3 DEF AppendRefused, AppendAmbiguous, Quarantine, TypeOK
      <3>4. ASSUME NEW t \in Thread, threads[t].home = p, Publish(t) \/ Finalize(t)
            PROVE  entries[p] = "open" /\ final[p] = NoRecord
        <4> DEFINE record == IF final[p] # NoRecord THEN final[p] ELSE Aborted(games[p])
        <4>1. \/ UNCHANGED <<entries, final>>
              \/ epochs' = [epochs EXCEPT ![p] = 0]
              \/ final' = [final EXCEPT ![p] = Completed(Append(games[p], threads[t].req))]
              \/ final' = [final EXCEPT ![p] = record]
          BY <3>4, Zenon DEF Publish, Finalize, Retire
        <4>2. /\ record # NoRecord
              /\ Completed(Append(games[p], threads[t].req)) # NoRecord
          BY DEF Aborted, Completed, NoRecord
        <4> HIDE DEF record
        <4>. QED BY <1>1, <1>3, <4>1, <4>2 DEF TypeOK
      <3>. QED BY <1>2, <2>2, <3>1, <3>2, <3>3, <3>4 DEF Touched
    <2>. QED BY <1>1, <2>1, <2>2, HandStep
  <1>. QED BY <1>3, <1>4 DEF Owns, Writable, Contains
(* A committed append adds its own receipt to what a replay rebuilds. *)
LEMMA ReplayedGrows ==
  ASSUME IInv, IInv', AppendLegal, [Next]_vars, NEW t \in Thread, Appends(t)
  PROVE  /\ ReplayedReceipts' = ReplayedReceipts \cup
                                  {[req |-> threads[t].req, phase |-> LivePhase(Moves')]}
         /\ Ids' = Ids \cup {threads[t].req.id}
  <1> DEFINE r == threads[t].req  n == Len(actions)
             Row(i) == [req |-> actions[i].req, phase |-> LivePhase(Prefix(i))]
             RowAfter(i) == [req |-> actions'[i].req, phase |-> LivePhase(SubSeq(Moves', 1, i))]
  <1>1. TypeOK /\ TypeOK' /\ LogIndexed /\ Watermark /\ ThreadsRun
    BY DEF IInv
  <1>2. Grows
    BY <1>1, JournalSteps, LogStep
  <1>3. /\ Len(actions') = n + 1 /\ actions'[n + 1].req = r
        /\ \A i \in 1..n : actions'[i] = actions[i]
    BY AppendGrows
  <1>4. n \in Nat
    BY <1>1, LenProperties DEF TypeOK
  <1>5. \A i \in 1..n : SubSeq(Moves', 1, i) = Prefix(i)
    <2>1. \A i \in 1..n : i \in 0..n
      BY <1>4
    <2>. QED BY <1>1, <1>2, <2>1, PrefixKept DEF Prefix
  <1>6. SubSeq(Moves', 1, n + 1) = Moves'
    BY <1>1, <1>3, MovesAfter DEF Prefix
  <1>7. /\ ReplayedReceipts = {Row(i) : i \in 1..n}
        /\ ReplayedReceipts' = {RowAfter(i) : i \in 1..(n + 1)}
    BY <1>3 DEF ReplayedReceipts, Prefix
  <1>8. \A i \in 1..n : RowAfter(i) = Row(i)
    BY <1>3, <1>5
  <1>9. RowAfter(n + 1) = [req |-> r, phase |-> LivePhase(Moves')]
    BY <1>3, <1>6
  <1>10. /\ Ids = {actions[i].req.id : i \in 1..n}
         /\ Ids' = {actions'[i].req.id : i \in 1..(n + 1)}
    BY <1>3 DEF Ids
  <1>11. 1..(n + 1) = (1..n) \cup {n + 1}
    BY <1>4
  <1> HIDE DEF n, Row, RowAfter
  <1>12. ReplayedReceipts' = ReplayedReceipts \cup {[req |-> r, phase |-> LivePhase(Moves')]}
    BY <1>7, <1>8, <1>9, <1>11
  <1>13. Ids' = Ids \cup {r.id}
    BY <1>3, <1>10, <1>11
  <1>. QED BY <1>12, <1>13

Current(p) == games[p] = Moves /\ receipts[p] = ReplayedReceipts
Lags(t, p) ==
    /\ Moves = Append(games[p], threads[t].req)
    /\ ReplayedReceipts = receipts[p] \cup {[req |-> threads[t].req, phase |-> LivePhase(Moves)]}

CurrentAfter(p) == games'[p] = Moves' /\ receipts'[p] = ReplayedReceipts'
LagsAfter(t, p) ==
    /\ Moves' = Append(games'[p], threads'[t].req)
    /\ ReplayedReceipts' = receipts'[p] \cup
                             {[req |-> threads'[t].req, phase |-> LivePhase(Moves')]}

(* The hand of p is as complete as the stripe of its instance lets it be. *)
KnowsAfter(p) ==
    /\ (\A t \in Thread : ~(threads'[t].home = p /\ threads'[t].pc = "publish")) => CurrentAfter(p)
    /\ \A t \in Thread : threads'[t].home = p /\ threads'[t].pc = "publish" => LagsAfter(t, p)

(* Where a publisher comes from. *)
LEMMA PublisherFrom ==
  ASSUME TypeOK, [Next]_vars, NEW u \in Thread, threads'[u].pc = "publish"
  PROVE  threads'[u] = threads[u] \/ (AppendCommits(u) /\ threads'[u].home = threads[u].home
                                        /\ threads'[u].req = threads[u].req)
  <1>1. threads'[u] # Resting
    BY DEF Resting
  <1>2. ASSUME NEW q \in Proc PROVE ~Begins(u, q, threads'[u])
    BY DEF Begins, Answered, Queues, Cancels, Sweeps, Reconciles
  <1>3. WorksOn(u, threads'[u]) => /\ AppendCommits(u) /\ threads'[u].home = threads[u].home
                                   /\ threads'[u].req = threads[u].req
    BY DEF WorksOn, Recalls, Takes, Passes, Shows, Turns, Loads, Aborts, Binds, Ends, GoesOn
  <1>. QED BY <1>1, <1>2, <1>3, GoroutineStep

(* The owner stays current when its own hand is not touched. *)
LEMMA UntouchedCurrent ==
  ASSUME IInv, IInv', AppendLegal, OwnerInv, [Next]_vars, NEW p \in Proc,
         Owns(p), Untouched(p), entries'[p] = "open"
  PROVE  KnowsAfter(p)
  <1>1. TypeOK /\ TypeOK' /\ StripeExclusive /\ (StripeExclusive)' /\ ThreadsRun
    BY DEF IInv
  <1>2. /\ (\A t \in Thread : ~Publishing(t, p)) => Current(p)
        /\ \A t \in Thread : Publishing(t, p) => Lags(t, p)
    BY DEF OwnerInv, OwnersCurrent, Publishes, Publishing, Current, Lags
  <1>3. games'[p] = games[p] /\ receipts'[p] = receipts[p]
    BY DEF Untouched, SameHand
  <1>4. CASE UNCHANGED actions
    <2>1. Moves' = Moves /\ ReplayedReceipts' = ReplayedReceipts
      BY <1>4 DEF Moves, ReplayedReceipts
    <2>2. ASSUME NEW t \in Thread, threads'[t].home = p, threads'[t].pc = "publish"
          PROVE  Publishing(t, p) /\ threads'[t] = threads[t]
      <3>1. AppendCommits(t) => Len(actions') = Len(actions) + 1
        BY AppendGrows DEF AppendCommits, Appends
      <3>2. Len(actions) \in Nat
        BY <1>1, LenProperties DEF TypeOK
      <3>3. threads'[t] = threads[t]
        BY <1>1, <1>4, <2>2, <3>1, <3>2, PublisherFrom
      <3>. QED BY <2>2, <3>3 DEF Publishing
    <2>3. \A t \in Thread : Publishing(t, p) => threads'[t].home = p /\ threads'[t].pc = "publish"
      BY DEF Untouched, Publishing
    <2>4. CASE \A t \in Thread : ~Publishing(t, p)
      BY <1>2, <1>3, <2>1, <2>2, <2>4 DEF Current, CurrentAfter, KnowsAfter
    <2>5. CASE \E t \in Thread : Publishing(t, p)
      BY <1>2, <1>3, <2>1, <2>2, <2>3, <2>5 DEF Lags, LagsAfter, KnowsAfter
    <2>. QED BY <2>4, <2>5
  <1>5. ASSUME NEW t \in Thread, AppendCommits(t) \/ AppendAmbiguous(t), Appends(t)
        PROVE  KnowsAfter(p)
    <2> DEFINE r == threads[t].req
    <2>1. /\ threads[t].home \in Proc /\ epochs[threads[t].home] = writer.epoch
          /\ games[threads[t].home] = Moves /\ Moves' = Append(Moves, r)
      BY <1>5, AppendGrows
    <2>2. threads[t].home = p
      BY <2>1 DEF OwnerInv, EpochInv, ClaimsDistinct, Owns, Writable, Contains
    <2>3. AppendCommits(t)
      <3>1. AppendAmbiguous(t) => entries'[p] = "quarantined"
        BY <1>1, <2>2 DEF AppendAmbiguous, Quarantine, TypeOK
      <3>. QED BY <1>5, <3>1
    <2>4. \A u \in Thread : ~Publishing(u, p)
      BY <1>1, <1>5, <2>2 DEF StripeExclusive, Holds, Appends, Publishing
    <2>5. games[p] = Moves /\ receipts[p] = ReplayedReceipts
      BY <1>2, <2>4 DEF Current
    <2>6. ReplayedReceipts' = ReplayedReceipts \cup {[req |-> r, phase |-> LivePhase(Moves')]}
      BY <1>5, ReplayedGrows
    <2>7. threads'[t].home = p /\ threads'[t].pc = "publish" /\ threads'[t].req = r
      BY <1>1, <2>2, <2>3 DEF AppendCommits, Goto, TypeOK, Goroutines
    <2>8. ASSUME NEW u \in Thread, threads'[u].home = p, threads'[u].pc = "publish" PROVE u = t
      BY <1>1, <2>7, <2>8 DEF StripeExclusive, Holds
    <2>9. LagsAfter(t, p)
      BY <1>3, <2>1, <2>5, <2>6, <2>7 DEF LagsAfter
    <2>. QED BY <2>7, <2>8, <2>9 DEF KnowsAfter
  <1>. QED BY <1>1, <1>4, <1>5, JournalGrows
(* The dealer starts with an empty journal and an empty game. *)
LEMMA DealtCurrent ==
  ASSUME IInv, NEW p \in Proc, DealStart(p)
  PROVE  KnowsAfter(p)
  <1>1. /\ TypeOK /\ Undealt /\ PublishedIsCommitted /\ ReceiptsLogged /\ ThreadsRun
        /\ handPhase = "DEALING"
    BY DEF IInv, DealStart
  <1>2. actions = <<>> /\ Len(actions) = 0
    BY <1>1 DEF Undealt
  <1>3. /\ UNCHANGED <<actions, games, receipts, threads>>
    BY DEF DealStart
  <1>4. games[p] = <<>>
    <2>1. games[p] \in Seq(Requests) /\ Len(games[p]) <= 0
      BY <1>1, <1>2 DEF TypeOK, PublishedIsCommitted
    <2>2. Len(games[p]) \in Nat
      BY <2>1, LenProperties
    <2>3. Len(games[p]) = 0
      BY <2>1, <2>2
    <2>. QED BY <2>1, <2>3, EmptySeq
  <1>5. Moves' = <<>>
    <2>1. Moves' \in Seq(Requests) /\ Len(Moves') = 0
      <3>1. Moves' = Moves
        BY <1>3 DEF Moves
      <3>. QED BY <1>1, <1>2, <3>1, MovesType
    <2>. QED BY <2>1, EmptySeq
  <1>6. receipts[p] = {}
    <2>1. ASSUME NEW x \in receipts[p] PROVE FALSE
      BY <1>1, <1>2 DEF ReceiptsLogged, Logged
    <2>. QED BY <2>1
  <1>7. ReplayedReceipts' = {}
    BY <1>2, <1>3 DEF ReplayedReceipts
  <1>8. ASSUME NEW t \in Thread PROVE threads'[t].pc # "publish"
    BY <1>1, <1>3 DEF Undealt, ThreadsRun, RunsOn
  <1>. QED BY <1>3, <1>4, <1>5, <1>6, <1>7, <1>8 DEF KnowsAfter, CurrentAfter

(* A recovered instance starts with the whole journal. *)
LEMMA ReplayedCurrent ==
  ASSUME IInv, EpochInv, [Next]_vars, NEW p \in Proc, BootReplay(p), epochs'[p] # 0
  PROVE  KnowsAfter(p)
  <1>1. TypeOK /\ ThreadsRun
    BY DEF IInv
  <1>2. epochs[p] = 0 /\ server[p] = "acquired"
    BY DEF BootReplay, EpochInv, BootHolds
  <1>3. games' = [games EXCEPT ![p] = Moves] /\ receipts' = [receipts EXCEPT ![p] = ReplayedReceipts]
    <2>1. \/ games' = [games EXCEPT ![p] = Moves] /\ receipts' = [receipts EXCEPT ![p] = ReplayedReceipts]
          \/ epochs' = epochs
      BY Zenon DEF BootReplay, runtime
    <2>. QED BY <1>2, <2>1
  <1>4. UNCHANGED actions
    BY DEF BootReplay, journal
  <1>5. Moves' = Moves /\ ReplayedReceipts' = ReplayedReceipts
    BY <1>4 DEF Moves, ReplayedReceipts
  <1>6. CurrentAfter(p)
    BY <1>1, <1>3, <1>5 DEF CurrentAfter, TypeOK
  <1>7. ASSUME NEW t \in Thread, threads'[t].home = p, threads'[t].pc = "publish" PROVE FALSE
    <2>1. CASE threads'[t] = threads[t]
      BY <1>1, <1>2, <1>7, <2>1 DEF ThreadsRun, RunsOn
    <2>2. CASE threads'[t] # threads[t]
      <3>1. AppendCommits(t) => UNCHANGED boot
        BY DEF AppendCommits
      <3>2. boot'[p] = NotLoaded /\ boot[p].epoch # 0
        BY <1>1, <1>2 DEF BootReplay, TypeOK, EpochInv, BootHolds
      <3>3. NotLoaded.epoch = 0
        BY DEF NotLoaded
      <3>. QED BY <1>1, <1>7, <2>2, <3>1, <3>2, <3>3, PublisherFrom
    <2>. QED BY <2>1, <2>2
  <1>. QED BY <1>6, <1>7 DEF KnowsAfter

(* Publishing the committed move makes its owner current again. *)
LEMMA PublishedCurrent ==
  ASSUME IInv, OwnerInv, [Next]_vars, NEW p \in Proc, NEW t \in Thread, Publish(t),
         threads[t].home = p, Owns(p), epochs'[p] # 0, final'[p] = NoRecord
  PROVE  KnowsAfter(p)
  <1> DEFINE r == threads[t].req  moves == Append(games[p], r)
             x == [req |-> r, phase |-> LivePhase(moves)]
  <1>1. TypeOK /\ ThreadsRun /\ StripeExclusive
    BY DEF IInv
  <1>2. Publishing(t, p)
    BY DEF Publish, Publishing
  <1>3. Moves = moves /\ ReplayedReceipts = receipts[p] \cup {x}
    BY <1>2 DEF OwnerInv, OwnersCurrent, Publishes, Publishing
  <1>4. UNCHANGED actions
    BY DEF Publish, journal
  <1>5. Moves' = Moves /\ ReplayedReceipts' = ReplayedReceipts
    BY <1>4 DEF Moves, ReplayedReceipts
  <1>6. receipts' = [receipts EXCEPT ![p] = @ \cup {x}]
    BY Zenon DEF Publish
  <1>7. games' = [games EXCEPT ![p] = moves]
    <2>1. games' = [games EXCEPT ![p] = moves] \/ epochs' = [epochs EXCEPT ![p] = 0]
      BY Zenon DEF Publish, Retire
    <2>. QED BY <1>1, <2>1 DEF TypeOK
  <1> HIDE DEF moves, x
  <1>8. CurrentAfter(p)
    BY <1>1, <1>3, <1>5, <1>6, <1>7 DEF CurrentAfter, TypeOK
  <1>9. threads'[t].pc \in {"callback", "idle"}
    <2> DEFINE thread == [threads[t] EXCEPT !.pc = "callback", !.result = LivePhase(moves)]
    <2>1. Fail(t) \/ threads' = [threads EXCEPT ![t] = thread]
      BY Zenon DEF Publish, moves
    <2>2. thread.pc = "callback"
      BY <1>1 DEF TypeOK, Goroutines
    <2> HIDE DEF thread
    <2>. QED BY <1>1, <2>1, <2>2 DEF Fail, Resting, TypeOK
  <1>10. ASSUME NEW u \in Thread, threads'[u].home = p, threads'[u].pc = "publish" PROVE FALSE
    <2>1. ~AppendCommits(u)
      <3>1. AppendCommits(u) => u # t /\ threads'[t] = threads[t]
        BY <1>1, <1>2 DEF AppendCommits, Goto, Publishing, TypeOK
      <3>. QED BY <1>2, <1>9, <3>1 DEF Publishing
    <2>2. threads'[u] = threads[u]
      BY <1>1, <1>10, <2>1, PublisherFrom
    <2>3. u = t
      BY <1>1, <1>2, <1>10, <2>2 DEF StripeExclusive, Holds, Publishing
    <2>. QED BY <1>9, <1>10, <2>3
  <1>. QED BY <1>8, <1>10 DEF KnowsAfter

(* The owner of the epoch is always current, up to its own publisher. *)
LEMMA CurrentStep ==
  ASSUME IInv, IInv', AppendLegal, OwnerInv, [Next]_vars
  PROVE  OwnersCurrent'
  <1>1. TypeOK /\ ThreadsRun /\ EpochInv
    BY DEF IInv, OwnerInv
  <1>2. ASSUME NEW p \in Proc, epochs'[p] # 0, entries'[p] = "open", final'[p] = NoRecord,
               epochs'[p] = writer'.epoch
        PROVE  KnowsAfter(p)
    <2>1. CASE DealStart(p)
      BY <2>1, DealtCurrent
    <2>2. CASE BootReplay(p)
      BY <1>1, <1>2, <2>2, ReplayedCurrent
    <2>3. CASE Owns(p) /\ Untouched(p)
      BY <1>2, <2>3, UntouchedCurrent
    <2>4. CASE Owns(p) /\ Touched(p) /\ ~DealStart(p) /\ ~BootReplay(p)
      <3>1. ~RollbackStart(p) /\ ~Crash(p) /\ ~Evict(p)
        BY <1>1, <1>2, <2>4 DEF RollbackStart, Crash, Retire, TypeOK, Evict, Owns, Writable
      <3>2. ASSUME NEW t \in Thread, threads[t].home = p,
                   AppendRefused(t) \/ AppendAmbiguous(t)
            PROVE  FALSE
        BY <1>1, <1>2, <3>2 DEF AppendRefused, AppendAmbiguous, Quarantine, TypeOK
      <3>3. ASSUME NEW t \in Thread, threads[t].home = p, Finalize(t) PROVE FALSE
        <4> DEFINE record == IF final[p] # NoRecord THEN final[p] ELSE Aborted(games[p])
        <4>1. \/ ~Contains(p)
              \/ epochs' = [epochs EXCEPT ![p] = 0]
              \/ final' = [final EXCEPT ![p] = record]
          BY <3>3, Zenon DEF Finalize, Retire
        <4>2. record # NoRecord
          BY DEF Aborted, NoRecord
        <4> HIDE DEF record
        <4>. QED BY <1>1, <1>2, <2>4, <4>1, <4>2 DEF TypeOK, Owns, Writable
      <3>. QED BY <1>2, <2>4, <3>1, <3>2, <3>3, PublishedCurrent DEF Touched
    <2>. QED BY <1>1, <1>2, <2>1, <2>2, <2>3, <2>4, OwnedBefore, HandStep
  <1>. QED BY <1>2 DEF OwnersCurrent, Owns, Writable, Contains, Publishes, KnowsAfter,
                       CurrentAfter, LagsAfter

(* A command ID is appended once. *)
LEMMA AppendsNewStep ==
  ASSUME IInv, IInv', AppendLegal, OwnerInv, (HoldersWrite)', [Next]_vars
  PROVE  AppendsNew'
  <1>1. TypeOK /\ TypeOK' /\ ThreadsRun /\ EpochInv /\ HoldersWrite /\ StripeExclusive
    BY DEF IInv, OwnerInv
  <1>2. ASSUME NEW u \in Thread, threads'[u].pc = "append",
               epochs'[threads'[u].home] = writer'.epoch
        PROVE  threads'[u].req.id \notin Ids'
    <2> DEFINE p == threads[u].home  r == threads[u].req
    <2>1. ASSUME Takes(u, threads'[u]), threads'[u].home = p, threads'[u].req = r
          PROVE  threads'[u].req.id \notin Ids'
      <3>1. /\ threads[u].pc = "queued" /\ Playable(p, r) /\ StripeFree(p)
            /\ UNCHANGED <<writer, actions, epochs>>
        BY <2>1 DEF Takes, Enter, durable, journal, runtime
      <3>2. p \in Proc
        BY <1>1, <3>1, RunningType
      <3>3. Owns(p) /\ \A x \in receipts[p] : x.req.id # r.id
        BY <1>2, <2>1, <3>1 DEF Owns, Playable, Unknown, Known
      <3>4. \A t \in Thread : ~Publishes(t, p)
        BY <3>1 DEF StripeFree, Publishes
      <3>5. receipts[p] = ReplayedReceipts
        BY <3>2, <3>3, <3>4 DEF OwnerInv, OwnersCurrent
      <3>6. ASSUME NEW i \in 1..Len(actions) PROVE actions[i].req.id # r.id
        <4>1. [req |-> actions[i].req, phase |-> LivePhase(SubSeq(Moves, 1, i))] \in receipts[p]
          BY <3>5 DEF ReplayedReceipts
        <4>. QED BY <3>3, <4>1
      <3>7. Ids' = Ids
        BY <3>1 DEF Ids
      <3>. QED BY <2>1, <3>6, <3>7 DEF Ids
    <2>2. ASSUME threads'[u] = threads[u] PROVE threads'[u].req.id \notin Ids'
      <3>1. Holds(u) /\ Holds(u)' /\ p \in Proc
        BY <1>1, <1>2, <2>2, RunningType DEF Holds
      <3>2. epochs'[p] # 0 /\ entries'[p] = "open" /\ final'[p] = NoRecord
        BY <2>2, <3>1 DEF HoldersWrite, Writable, Contains
      <3>3. Untouched(p)
        BY <1>1, <3>1, HeldUntouched
      <3>4. threads[u].mode = "fresh" /\ server[p] = "serving"
        BY <1>1, <3>1, RunningType DEF Holds, ThreadsRun, RunsOn
      <3>5. ~DealStart(p) /\ ~BootReplay(p)
        BY <1>2, <2>2, <3>4 DEF IInv, DealStart, Undealt, BootReplay
      <3>6. Owns(p)
        BY <1>1, <1>2, <2>2, <3>1, <3>2, <3>5, OwnedBefore
      <3>7. r.id \notin Ids
        BY <1>2, <2>2, <3>6 DEF OwnerInv, AppendsNew, Owns
      <3>8. UNCHANGED actions
        <4>1. ASSUME NEW t \in Thread, AppendCommits(t) \/ AppendAmbiguous(t), Appends(t) PROVE FALSE
          <5>1. threads[t].home \in Proc /\ epochs[threads[t].home] = writer.epoch
            BY <1>1, <4>1, AppendGrows DEF OwnerInv
          <5>2. threads[t].home = p
            BY <1>1, <3>1, <3>6, <5>1 DEF EpochInv, ClaimsDistinct, Owns, Writable, Contains
          <5>3. t = u
            BY <1>1, <3>1, <4>1, <5>2 DEF StripeExclusive, Holds, Appends
          <5>4. AppendCommits(u) => threads'[u].pc = "publish"
            BY <1>1 DEF AppendCommits, Goto, TypeOK, Goroutines
          <5>5. AppendAmbiguous(u) => threads'[u] = Resting
            BY <1>1 DEF AppendAmbiguous, Fail, TypeOK
          <5>. QED BY <1>2, <4>1, <5>3, <5>4, <5>5 DEF Resting
        <4>. QED BY <1>1, <4>1, JournalGrows
      <3>. QED BY <2>2, <3>7, <3>8 DEF Ids
    <2>3. threads'[u] # Resting
      BY <1>2 DEF Resting
    <2>4. ASSUME NEW q \in Proc PROVE ~Begins(u, q, threads'[u])
      BY <1>2 DEF Begins, Answered, Queues, Cancels, Sweeps, Reconciles
    <2>5. WorksOn(u, threads'[u]) =>
            Takes(u, threads'[u]) /\ threads'[u].home = p /\ threads'[u].req = r
      BY <1>2 DEF WorksOn, Recalls, Passes, Shows, Turns, Loads, Aborts, Binds, Ends, GoesOn
    <2>. QED BY <1>1, <2>1, <2>2, <2>3, <2>4, <2>5, GoroutineStep
  <1>. QED BY <1>2 DEF AppendsNew

(* The second group is inductive. *)
LEMMA OwnerStep ==
  ASSUME IInv, IInv', AppendLegal, OwnerInv, [Next]_vars
  PROVE  OwnerInv'
  <1>1. EpochInv /\ HoldersWrite
    BY DEF OwnerInv
  <1>2. EpochInv' /\ (HoldersWrite)'
    BY <1>1, EpochStep, HoldersWriteStep
  <1>3. OwnersCurrent'
    BY CurrentStep
  <1>4. AppendsNew'
    BY <1>2, AppendsNewStep
  <1>. QED BY <1>2, <1>3, <1>4 DEF OwnerInv
-----------------------------------------------------------------------------
(* Terminal phases are final, and expiry fences what it would overtake. *)

(* A goroutine's command is the one it had, or is made from the phase, the *)
(* pending command or the game of its instance.                            *)
LEMMA CommandFrom ==
  ASSUME TypeOK, ThreadsRun, [Next]_vars, NEW u \in Thread
  PROVE  LET cmd == threads'[u].cmd  was == threads[u].cmd
         IN  \/ cmd = was
             \/ cmd = NoCommand
             \/ ~Terminal(handPhase) /\ cmd = CommandOf("advance", handPhase, 0)
             \/ cmd = [was EXCEPT !.reason = "no_landlord"]
             \/ ~Terminal(handPhase) /\ cmd = [was EXCEPT !.phase = handPhase]
             \/ threads[u].home \in Proc /\ cmd = pending[threads[u].home]
             \/ cmd = CommandOf("participant_cancelled", "DEALING", 0)
             \/ \E p \in Proc :
                  Sweep(u, p) /\ cmd = CommandOf("timeout", "DEALING", Len(games[p]) + 1)
  <1> DEFINE p == threads[u].home
  <1>1. CASE threads'[u] = threads[u]
    BY <1>1
  <1>2. CASE threads'[u] = Resting
    BY <1>2 DEF Resting
  <1>3. CASE threads[u].pc # "idle" /\ WorksOn(u, threads'[u])
    <2>1. p \in Proc
      BY <1>3, RunningType
    <2>2. Loads(u, threads'[u]) => ~Terminal(handPhase)
      BY DEF Loads, Advances, Terminal
    <2>. QED BY <1>3, <2>1, <2>2 DEF WorksOn, Recalls, Takes, Passes, Shows, Turns, Loads, Aborts,
                                    Binds, Ends, GoesOn
  <1>4. ASSUME NEW q \in Proc, Begins(u, q, threads'[u])
        PROVE  LET cmd == threads'[u].cmd
               IN  \/ cmd = NoCommand
                   \/ cmd = CommandOf("participant_cancelled", "DEALING", 0)
                   \/ Sweep(u, q) /\ cmd = CommandOf("timeout", "DEALING", Len(games[q]) + 1)
    BY <1>4 DEF Begins, Answered, Queues, Cancels, Sweeps, Reconciles
  <1>. QED BY <1>1, <1>2, <1>3, <1>4, GoroutineStep

(* No command is bound to a terminal phase. *)
LEMMA BoundStep ==
  ASSUME TypeOK, ThreadsRun, CommandsBound, [Next]_vars
  PROVE  CommandsBound'
  <1>1. ASSUME NEW cmd \in Commands
        PROVE  /\ [cmd EXCEPT !.reason = "no_landlord"].phase = cmd.phase
               /\ [cmd EXCEPT !.phase = handPhase].phase = handPhase
    BY DEF Commands
  <1>2. /\ ~Terminal(NoCommand.phase) /\ ~Terminal(CommandOf("participant_cancelled", "DEALING", 0).phase)
        /\ \A n : CommandOf("timeout", "DEALING", n).phase = "DEALING"
        /\ CommandOf("advance", handPhase, 0).phase = handPhase
        /\ ~Terminal("DEALING")
    BY DEF NoCommand, CommandOf, Terminal
  <1>3. ASSUME NEW u \in Thread PROVE ~Terminal(threads'[u].cmd.phase)
    <2>1. threads[u].cmd \in Commands
      BY DEF TypeOK, Goroutines
    <2>2. /\ ~Terminal(threads[u].cmd.phase)
          /\ threads[u].home \in Proc => ~Terminal(pending[threads[u].home].phase)
      BY DEF CommandsBound
    <2>3. /\ ~Terminal([threads[u].cmd EXCEPT !.reason = "no_landlord"].phase)
          /\ ~Terminal(handPhase) => ~Terminal([threads[u].cmd EXCEPT !.phase = handPhase].phase)
      BY <1>1, <2>1, <2>2
    <2>4. \A n : ~Terminal(CommandOf("timeout", "DEALING", n).phase)
      BY <1>2
    <2>. QED BY <1>2, <2>2, <2>3, <2>4, CommandFrom
  <1>4. ASSUME NEW q \in Proc PROVE ~Terminal(pending'[q].phase)
    <2>1. ASSUME NEW t \in Thread, ~Terminal(handPhase),
                 pending'[q] = [threads[t].cmd EXCEPT !.phase = handPhase]
          PROVE  ~Terminal(pending'[q].phase)
      <3>1. threads[t].cmd \in Commands
        BY DEF TypeOK, Goroutines
      <3>. QED BY <1>1, <2>1, <3>1
    <2>2. \/ pending'[q] = pending[q]
          \/ pending'[q] = NoCommand
          \/ \E t \in Thread : /\ ~Terminal(handPhase)
                            /\ pending'[q] = [threads[t].cmd EXCEPT !.phase = handPhase]
      BY PendingEffect, Zenon
    <2>3. CASE pending'[q] = pending[q]
      <3>1. ~Terminal(pending[q].phase)
        BY DEF CommandsBound
      <3>. QED BY <2>3, <3>1
    <2>4. CASE pending'[q] = NoCommand
      BY <1>2, <2>4
    <2>5. CASE \E t \in Thread : /\ ~Terminal(handPhase)
                             /\ pending'[q] = [threads[t].cmd EXCEPT !.phase = handPhase]
      BY <2>1, <2>5, Zenon
    <2>. QED BY <2>2, <2>3, <2>4, <2>5
  <1>. QED BY <1>3, <1>4 DEF CommandsBound

DueAfter(cmd) ==
    Expires(cmd) => /\ cmd.live \in 1..(Len(actions') + 1)
                    /\ LivePhase(SubSeq(Moves', 1, cmd.live - 1)) \in {"BIDDING", "PLAYING"}

(* A deadline stays due for the version it was armed for. *)
LEMMA DueKept ==
  ASSUME TypeOK, TypeOK', Grows, NEW cmd, Due(cmd)
  PROVE  DueAfter(cmd)
  <1>1. Len(actions) \in Nat /\ Len(actions') \in Nat /\ Len(actions) <= Len(actions')
    BY MovesType, MovesAfter, LenProperties DEF Grows, TypeOK
  <1>2. CASE Expires(cmd)
    <2>1. cmd.live \in 1..(Len(actions) + 1) /\ LivePhase(Prefix(cmd.live - 1)) \in {"BIDDING", "PLAYING"}
      BY <1>2 DEF Due
    <2>2. cmd.live - 1 \in 0..Len(actions) /\ cmd.live \in 1..(Len(actions') + 1)
      BY <1>1, <2>1
    <2>3. \A n \in 0..Len(actions) : SubSeq(Moves', 1, n) = Prefix(n)
      BY PrefixKept DEF Prefix
    <2>4. SubSeq(Moves', 1, cmd.live - 1) = Prefix(cmd.live - 1)
      BY <2>2, <2>3
    <2>. QED BY <2>1, <2>2, <2>4 DEF DueAfter
  <1>. QED BY <1>2 DEF DueAfter

(* A sweep arms a deadline for the version its game shows. *)
LEMMA SweepDue ==
  ASSUME IInv, NEW t \in Thread, NEW p \in Proc, Sweep(t, p)
  PROVE  Due(CommandOf("timeout", "DEALING", Len(games[p]) + 1))
  <1> DEFINE n == Len(games[p])  cmd == CommandOf("timeout", "DEALING", n + 1)
  <1>1. TypeOK /\ Committed(games[p]) /\ games[p] \in Seq(Requests)
    BY DEF IInv, PublishedIsCommitted, Committed, TypeOK
  <1>2. n \in 0..Len(actions) /\ games[p] = Prefix(n)
    BY <1>1, CommittedPrefix
  <1>3. Len(actions) \in Nat
    BY <1>1, LenProperties DEF TypeOK
  <1>4. LivePhase(games[p]) \in {"BIDDING", "PLAYING"}
    BY DEF Sweep
  <1>5. cmd.live = n + 1
    BY DEF CommandOf
  <1> HIDE DEF n, cmd
  <1>6. cmd.live - 1 = n /\ cmd.live \in 1..(Len(actions) + 1)
    BY <1>2, <1>3, <1>5
  <1>7. Due(cmd)
    BY <1>2, <1>4, <1>6 DEF Due
  <1>. QED BY <1>7 DEF cmd, n

(* Deadlines stay due. *)
LEMMA DeadlinesStep ==
  ASSUME IInv, IInv', Deadlines, [Next]_vars
  PROVE  Deadlines'
  <1>1. TypeOK /\ TypeOK' /\ LogIndexed /\ Watermark /\ ThreadsRun
    BY DEF IInv
  <1>2. Grows
    BY <1>1, JournalSteps, LogStep
  <1>3. \A cmd : Due(cmd) => DueAfter(cmd)
    BY <1>1, <1>2, DueKept
  <1>4. ASSUME NEW cmd \in Commands, Due(cmd)
        PROVE  DueAfter([cmd EXCEPT !.phase = handPhase])
    <2>1. /\ [cmd EXCEPT !.phase = handPhase].reason = cmd.reason
          /\ [cmd EXCEPT !.phase = handPhase].live = cmd.live
      BY DEF Commands
    <2>. QED BY <1>3, <1>4, <2>1 DEF DueAfter, Expires
  <1>5. \A cmd \in Commands : DueAfter([cmd EXCEPT !.reason = "no_landlord"])
    BY DEF DueAfter, Expires, Commands
  <1>6. /\ DueAfter(NoCommand) /\ DueAfter(CommandOf("participant_cancelled", "DEALING", 0))
        /\ DueAfter(CommandOf("advance", handPhase, 0))
    BY DEF DueAfter, Expires, NoCommand, CommandOf
  <1>7. ASSUME NEW u \in Thread PROVE DueAfter(threads'[u].cmd)
    <2>1. threads[u].cmd \in Commands /\ Due(threads[u].cmd)
      BY <1>1 DEF TypeOK, Goroutines, Deadlines
    <2>2. threads[u].home \in Proc => Due(pending[threads[u].home])
      BY DEF Deadlines
    <2>3. ASSUME NEW p \in Proc, Sweep(u, p)
          PROVE  DueAfter(CommandOf("timeout", "DEALING", Len(games[p]) + 1))
      BY <1>3, <2>3, SweepDue
    <2>. QED BY <1>1, <1>3, <1>4, <1>5, <1>6, <2>1, <2>2, <2>3, CommandFrom
  <1>8. ASSUME NEW q \in Proc PROVE DueAfter(pending'[q])
    <2>1. Due(pending[q])
      BY DEF Deadlines
    <2>2. \A t \in Thread : threads[t].cmd \in Commands /\ Due(threads[t].cmd)
      BY <1>1 DEF TypeOK, Goroutines, Deadlines
    <2>3. \A t \in Thread : DueAfter([threads[t].cmd EXCEPT !.phase = handPhase])
      BY <1>4, <2>2
    <2>4. \/ pending'[q] = pending[q] \/ pending'[q] = NoCommand
          \/ \E t \in Thread : pending'[q] = [threads[t].cmd EXCEPT !.phase = handPhase]
      BY <1>1, PendingEffect
    <2>5. DueAfter(pending[q])
      BY <1>3, <2>1
    <2>. QED BY <1>6, <2>3, <2>4, <2>5
  <1>. QED BY <1>7, <1>8 DEF Deadlines, Due, DueAfter, Prefix

(* A hand expires only when the goroutine that expires it fences the row. *)
LEMMA Expiring ==
  ASSUME IInv, CommandsBound, [Next]_vars, handPhase' = "EXPIRED"
  PROVE  \/ handPhase = "EXPIRED" /\ UNCHANGED terminator
         \/ \E t \in Thread : Terminating(t) /\ Expires(threads[t].cmd) /\ Fences
                              /\ terminator'.cmd = threads[t].cmd
  <1>1. ASSUME NEW p \in Proc, handPhase' \in {"DEALING", "BIDDING"} PROVE FALSE
    BY <1>1
  <1>2. ASSUME NEW t \in Thread, Advancing(t) PROVE FALSE
    <2>1. threads[t].cmd.phase \in DOMAIN NextPhase
      BY <1>2 DEF Advancing, IInv, ThreadsRun, RunsOn
    <2>. QED BY <1>2, <2>1 DEF Advancing, NextPhase
  <1>3. ASSUME NEW t \in Thread, Terminating(t)
        PROVE  Expires(threads[t].cmd) /\ Fences /\ terminator'.cmd = threads[t].cmd
    <2>1. TerminateRows(t) /\ UNCHANGED actions
      BY <1>3 DEF Terminating
    <2>2. Expires(threads[t].cmd)
      BY <2>1 DEF TerminateRows
    <2>3. writer # NoWriter /\ writer' = [writer EXCEPT !.epoch = NextEpoch]
      BY <2>1, <2>2, Zenon DEF TerminateRows
    <2>4. terminator'.cmd = threads[t].cmd
      BY <2>1 DEF TerminateRows
    <2>. QED BY <2>1, <2>2, <2>3, <2>4 DEF Fences
  <1>. QED BY <1>1, <1>2, <1>3, PhaseStep

(* Whoever could still append to an expired hand has lost the epoch. *)
LEMMA FencedStep ==
  ASSUME IInv, IInv', EpochInv, CommandsBound, Fenced, [Next]_vars
  PROVE  Fenced'
  <1>1. TypeOK /\ ThreadsRun /\ (ThreadsRun)' /\ TypeOK'
    BY DEF IInv
  <1>2. SUFFICES ASSUME handPhase' = "EXPIRED", NEW u \in Thread,
                        threads'[u].pc \in {"queued", "append"},
                        epochs'[threads'[u].home] # 0,
                        epochs'[threads'[u].home] = writer'.epoch
                 PROVE  FALSE
    BY DEF Fenced
  <1> DEFINE p == threads'[u].home
  <1>3. p \in Proc
    BY <1>1, <1>2 DEF ThreadsRun, RunsOn
  <1>4. ASSUME NEW t \in Thread, Terminating(t), Fences PROVE FALSE
    <2>1. writer \in [epoch : Nat, committed : Nat] /\ writer.epoch \in Nat /\ epochs[p] \in Nat
      BY <1>1, <1>3 DEF TypeOK
    <2>2. epochs'[p] = epochs[p] /\ epochs[p] <= writer.epoch
      BY <1>3, <1>4 DEF Terminating, runtime, Fences, EpochInv, EpochsBounded
    <2>3. writer'.epoch = writer.epoch + 1
      BY <1>4, <2>1 DEF Fences, NextEpoch
    <2>4. epochs[p] = writer.epoch + 1
      BY <1>2, <2>2, <2>3
    <2>. QED BY <2>1, <2>2, <2>4
  <1>5. CASE handPhase = "EXPIRED"
    <2>1. ~DealStart(p)
      BY <1>5 DEF DealStart
    <2>2. threads'[u] # Resting
      BY <1>2 DEF Resting
    <2>3. ASSUME NEW q \in Proc PROVE ~Begins(u, q, threads'[u])
      BY <1>2, <1>5 DEF Begins, Answered, Queues, Submittable, Cancels, Sweeps, Reconciles
    <2>4. threads'[u] = threads[u] \/ (Takes(u, threads'[u]) /\ threads'[u].home = threads[u].home)
      <3>1. WorksOn(u, threads'[u]) => Takes(u, threads'[u]) /\ threads'[u].home = threads[u].home
        BY <1>2 DEF WorksOn, Recalls, Passes, Shows, Turns, Loads, Aborts, Binds, Ends, GoesOn
      <3>. QED BY <1>1, <2>2, <2>3, <3>1, GoroutineStep
    <2>5. threads[u].pc \in {"queued", "append"} /\ threads[u].home = p
      BY <1>2, <2>4 DEF Takes, Enter
    <2>6. ~BootReplay(p)
      BY <1>1, <2>5 DEF BootReplay, ThreadsRun, RunsOn
    <2>7. epochs[p] # 0 /\ epochs[p] = writer.epoch
      BY <1>2, <1>3, <2>1, <2>6, NewestBefore
    <2>. QED BY <1>5, <2>5, <2>7 DEF Fenced
  <1>. QED BY <1>2, <1>4, <1>5, Expiring

(* Expiry keeps the progress it was decided on. *)
LEMMA ProgressStep ==
  ASSUME IInv, IInv', AppendLegal, HoldersWrite, ExpiryInv, [Next]_vars
  PROVE  ExpiryKeepsProgress'
  <1>1. TypeOK /\ TypeOK' /\ Watermark /\ CommandsBound /\ Deadlines /\ Fenced
    BY DEF IInv, ExpiryInv
  <1>2. SUFFICES ASSUME handPhase' = "EXPIRED"
                 PROVE  /\ Len(actions') < terminator'.cmd.live
                        /\ LivePhase(Moves') \in {"BIDDING", "PLAYING"}
    BY DEF ExpiryKeepsProgress
  <1>3. CASE handPhase = "EXPIRED" /\ UNCHANGED terminator
    <2>1. UNCHANGED actions
      <3>1. ASSUME NEW t \in Thread, Appends(t) PROVE FALSE
        BY <1>1, <1>3, <3>1 DEF Appends, Appendable, Fenced, HoldersWrite, Holds, Writable, Contains
      <3>. QED BY <1>1, <3>1, JournalGrows
    <2>2. Moves' = Moves
      BY <2>1 DEF Moves
    <2>. QED BY <1>3, <2>1, <2>2 DEF ExpiryInv, ExpiryKeepsProgress
  <1>4. ASSUME NEW t \in Thread, Terminating(t), Expires(threads[t].cmd), Fences,
               terminator'.cmd = threads[t].cmd
        PROVE  /\ Len(actions') < terminator'.cmd.live
               /\ LivePhase(Moves') \in {"BIDDING", "PLAYING"}
    <2> DEFINE live == threads[t].cmd.live
    <2>1. writer.committed = Len(actions) + 1 /\ Len(actions) \in Nat
      BY <1>1, <1>4, LenProperties DEF Fences, Watermark, TypeOK
    <2>2. ~(writer.committed > live)
      BY <1>4 DEF Terminating, TerminateRows, Progressed
    <2>3. live \in 1..(Len(actions) + 1) /\ LivePhase(Prefix(live - 1)) \in {"BIDDING", "PLAYING"}
      BY <1>1, <1>4 DEF Deadlines, Due
    <2>4. live - 1 = Len(actions) /\ Len(actions) < live
      BY <2>1, <2>2, <2>3
    <2>5. LivePhase(Moves) \in {"BIDDING", "PLAYING"}
      BY <1>1, <2>3, <2>4, PrefixWhole
    <2>6. actions' = actions /\ Moves' = Moves
      BY <1>4 DEF Terminating, Moves
    <2>. QED BY <1>4, <2>4, <2>5, <2>6
  <1>. QED BY <1>1, <1>2, <1>3, <1>4, Expiring

(* The third group is inductive. *)
LEMMA ExpiryStep ==
  ASSUME IInv, IInv', AppendLegal, OwnerInv, ExpiryInv, [Next]_vars
  PROVE  ExpiryInv'
  <1>1. TypeOK /\ ThreadsRun /\ EpochInv /\ HoldersWrite /\ CommandsBound /\ Deadlines /\ Fenced
    BY DEF IInv, OwnerInv, ExpiryInv
  <1>2. CommandsBound' /\ Deadlines' /\ Fenced'
    BY <1>1, BoundStep, DeadlinesStep, FencedStep
  <1>3. ExpiryKeepsProgress'
    BY <1>1, ProgressStep
  <1>. QED BY <1>2, <1>3 DEF ExpiryInv
=============================================================================
