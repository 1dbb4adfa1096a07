------------------------------ MODULE LiveHand ------------------------------
(***************************************************************************)
(* One live Doudizhu hand, from MarkHandDealt to its final record.         *)
(*                                                                         *)
(* Durable state is what MySQL keeps for the hand: the phase of its        *)
(* aggregate row, the command that terminated it, its                      *)
(* doudizhu_live_writers row (owner epoch and committed version), its      *)
(* doudizhu_live_actions rows and its game_final_records row.  Volatile    *)
(* state is what each server instance keeps: the game and entry flags of   *)
(* gamecore.LiveDirectory, the epoch and receipts of the                   *)
(* LiveHandCoordinator and the pending termination of the Supervisor.      *)
(* Threads are the goroutines that execute one dispatched request, one     *)
(* sweep or one startup reconciliation.                                    *)
(*                                                                         *)
(* Every transaction on the database is one atomic step; everything        *)
(* between two transactions of a goroutine interleaves with the other      *)
(* goroutines, the other instances and crashes.  From DEALING on every     *)
(* accepted command on the aggregate changes its phase, so the phase       *)
(* stands for the optimistic version that commands are bound to.           *)
(***************************************************************************)
EXTENDS Naturals, Sequences, FiniteSets

CONSTANTS
    Proc,      \* server instances
    Thread,    \* goroutines
    Requests,  \* the live requests clients may send, retries included
    MaxEpoch,  \* bound on owner epochs: takeovers and fences stop there
    Faults     \* which of AllFaults may happen

Bids      == {"pass", "bid", "top"}       \* score 0, score 1 or 2, score 3
Plays     == {"play", "last"}             \* "last" empties the actor's hand
AllFaults == {"ambiguous", "lostAck", "archive", "crash", "cancel", "evict"}

NoRequest == [id |-> "none", expected |-> 0, kind |-> "pass"]

ASSUME ProcAssumption == "none" \notin Proc
ASSUME RequestsAssumption ==
    /\ Requests \subseteq [id : STRING, expected : Nat \ {0}, kind : Bids \cup Plays]
    /\ \A r \in Requests : r.id # NoRequest.id
ASSUME MaxEpochAssumption == MaxEpoch \in Nat \ {0}
ASSUME FaultsAssumption == Faults \subseteq AllFaults

VARIABLES
    handPhase,  \* phase of the doudizhu_hands row
    terminator, \* the accepted ABORT or EXPIRE command, and whose it was
    writer,     \* the doudizhu_live_writers row
    actions,    \* the doudizhu_live_actions rows, in state_version order
    archive,    \* the game_final_records row
    server,     \* progress of each instance through startup
    boot,       \* what RecoverActive has loaded and acquired so far
    games,      \* the game each instance would show, as the commands applied
    entries,    \* state of the LiveDirectory entry
    final,      \* the entry's pending final record
    epochs,     \* LiveHandCoordinator.epochs, 0 when absent
    receipts,   \* LiveHandCoordinator.receipts
    pending,    \* the Supervisor's pending termination
    dealing,    \* progress of MarkHandDealt; "created" holds the hand row lock
    threads,    \* the goroutines
    acked       \* requests whose response reached the client

journal == <<writer, actions>>
durable == <<handPhase, terminator, journal, archive>>
runtime == <<games, entries, final, epochs, receipts>>
vars    == <<durable, server, boot, runtime, pending, dealing, threads, acked>>

-----------------------------------------------------------------------------
(* Values *)

HandPhases == {"DEALING", "BIDDING", "PLAYING", "SETTLING",
               "COMPLETED", "ABORTED", "EXPIRED"}
Terminal(phase) == phase \in {"COMPLETED", "ABORTED", "EXPIRED"}

LivePhases == {"BIDDING", "NO_LANDLORD", "PLAYING", "COMPLETED"}

NoWriter == [epoch |-> 0, committed |-> 0]
NoRecord == [status |-> "NONE", version |-> 0]

(* A command of the supervisor: the phase it was bound to and, for an      *)
(* expiry, the committed live version its deadline was armed for.          *)
CommandOf(reason, phase, live) == [reason |-> reason, phase |-> phase, live |-> live]
NoCommand == CommandOf("none", "DEALING", 0)
Unterminated == [by |-> "none", cmd |-> NoCommand]

Resting == [pc |-> "idle", home |-> "none", req |-> NoRequest, mode |-> "fresh",
            result |-> "BIDDING", cmd |-> NoCommand]

(* The phase of a game after the commands in moves: three bids or a score *)
(* of 3 close the auction, an emptied hand ends the play.                  *)
LivePhase(moves) ==
    LET closed == Len(moves) >= 3 \/ \E i \in 1..Len(moves) : moves[i].kind = "top"
        sold   == \E i \in 1..Len(moves) : moves[i].kind # "pass"
    IN  IF \E i \in 1..Len(moves) : moves[i].kind = "last" THEN "COMPLETED"
        ELSE IF ~closed THEN "BIDDING"
        ELSE IF sold THEN "PLAYING" ELSE "NO_LANDLORD"

(* The moves the game accepts; which seat moves and which cards it holds   *)
(* are left to the client's choice of request.                             *)
Legal(moves, r) ==
    /\ r.expected = Len(moves) + 1
    /\ \/ LivePhase(moves) = "BIDDING" /\ r.kind \in Bids
       \/ LivePhase(moves) = "PLAYING" /\ r.kind \in Plays
    /\ r.kind = "bid" => Cardinality({i \in 1..Len(moves) : moves[i].kind = "bid"}) < 2

Moves == [i \in 1..Len(actions) |-> actions[i].req]
Ids   == {actions[i].req.id : i \in 1..Len(actions)}

(* The receipt index that replaying the journal rebuilds. *)
ReplayedReceipts ==
    {[req |-> actions[i].req, phase |-> LivePhase(SubSeq(Moves, 1, i))] :
        i \in 1..Len(actions)}

Completed(moves) == [status |-> "COMPLETED", version |-> Len(moves) + 1]
Aborted(moves)   == [status |-> "ABORTED", version |-> Len(moves) + 2]

-----------------------------------------------------------------------------
(* Locks and small steps shared by several handlers *)

Idle(t) == threads[t].pc = "idle"

(* A goroutine starts on a process, moves on, or changes what it holds. *)
Starts(t, thread) == Idle(t) /\ threads' = [threads EXCEPT ![t] = thread]
Goto(t, label) == threads' = [threads EXCEPT ![t].pc = label]

(* The coordinator adds and drops a hand's game and its epoch together. *)
Contains(p) == epochs[p] # 0

(* Variant: ApplyCommitted that overlooks the quarantine. *)
WritableQuarantined(p) == Contains(p) /\ final[p] = NoRecord

(* ApplyCommitted writes neither through a quarantined entry nor through   *)
(* one that awaits its archive.                                            *)
Writable(p) == Contains(p) /\ entries[p] = "open" /\ final[p] = NoRecord

(* Variant: a handler that forgets the stripe. *)
StripeIgnored(p) == p \in Proc

(* The per-hand command stripe and the entry mutex of an instance. *)
StripeFree(p) ==
    \A t \in Thread : threads[t].home = p => threads[t].pc \notin {"append", "publish"}

(* LoadHandForUpdate waits for the row lock MarkHandDealt holds. *)
HandRowFree == \A p \in Proc : dealing[p] # "created"

(* Variant: a takeover that keeps the epoch it found. *)
SameEpoch == writer.epoch

(* Acquire and FenceLiveWriter both move the writer to a fresh epoch. *)
NextEpoch == writer.epoch + 1

(* The goroutine returns an error; a failed reconciliation ends startup. *)
Fail(t) ==
    /\ threads' = [threads EXCEPT ![t] = Resting]
    /\ server' = IF threads[t].mode = "boot"
                 THEN [server EXCEPT ![threads[t].home] = "failed"] ELSE server
    /\ UNCHANGED acked

(* The goroutine returns success: the client has its response, or startup  *)
(* is over and the instance serves.                                        *)
Done(t) ==
    /\ threads' = [threads EXCEPT ![t] = Resting]
    /\ server' = IF threads[t].mode = "boot"
                 THEN [server EXCEPT ![threads[t].home] = "serving"] ELSE server
    /\ acked' = IF threads[t].mode \in {"fresh", "historical"}
                THEN acked \cup {threads[t].req} ELSE acked

(* Archive inserts the record or accepts its exact retry; it fails on a    *)
(* different record, on an error, or after an insert it cannot confirm.    *)
Archivable(record) == archive \in {NoRecord, record}
ArchiveOk(record) == Archivable(record) /\ archive' = record
ArchiveFails(record) ==
    \/ ~Archivable(record) /\ UNCHANGED archive
    \/ "archive" \in Faults /\ Archivable(record) /\ archive' \in {archive, record}

(* finish: the hand leaves the instance, its receipts stay. *)
Retire(p) ==
    /\ games' = [games EXCEPT ![p] = <<>>]
    /\ entries' = [entries EXCEPT ![p] = "none"]
    /\ final' = [final EXCEPT ![p] = NoRecord]
    /\ epochs' = [epochs EXCEPT ![p] = 0]

Forget(p) == pending' = [pending EXCEPT ![p] = NoCommand]

-----------------------------------------------------------------------------
(* MarkHandDealt: the journal row is created on its own connection, the    *)
(* game is registered, and only then does the transaction commit.          *)

DealStart(p) ==
    /\ server[p] = "serving" /\ dealing[p] = "none"
    /\ handPhase = "DEALING" /\ HandRowFree
    /\ writer = NoWriter              \* otherwise Create meets its primary key
    /\ writer' = [epoch |-> 1, committed |-> 1]
    /\ entries' = [entries EXCEPT ![p] = "open"]
    /\ epochs' = [epochs EXCEPT ![p] = 1]
    /\ dealing' = [dealing EXCEPT ![p] = "created"]
    /\ UNCHANGED <<handPhase, terminator, actions, archive, server, boot, games,
                   final, receipts, pending, threads, acked>>

DealCommit(p) ==
    /\ dealing[p] = "created"
    /\ handPhase' = "BIDDING"
    /\ dealing' = [dealing EXCEPT ![p] = "none"]
    /\ UNCHANGED <<terminator, journal, archive, server, boot, runtime, pending,
                   threads, acked>>

(* The transaction returns an error: rolled back, or committed with the    *)
(* acknowledgement lost.  execute runs the compensation in both cases.     *)
DealError(p) ==
    /\ dealing[p] = "created" /\ "lostAck" \in Faults
    /\ handPhase' \in {"DEALING", "BIDDING"}
    /\ dealing' = [dealing EXCEPT ![p] = "rollback"]
    /\ UNCHANGED <<terminator, journal, archive, server, boot, runtime, pending,
                   threads, acked>>

(* RollbackStart: RemoveForCompensation, then DeleteUnused, which refuses  *)
(* to drop a journal that holds an action.                                 *)
DeleteUnused == writer' = IF writer.committed = 1 /\ actions = <<>> THEN NoWriter ELSE writer

RollbackStart(p) ==
    /\ dealing[p] = "rollback" /\ StripeFree(p)
    /\ IF final[p] = NoRecord
       THEN /\ entries' = [entries EXCEPT ![p] = "none"]
            /\ games' = [games EXCEPT ![p] = <<>>]
       ELSE UNCHANGED <<entries, games>>
    /\ DeleteUnused
    /\ epochs' = [epochs EXCEPT ![p] = 0]
    /\ receipts' = [receipts EXCEPT ![p] = {}]
    /\ dealing' = [dealing EXCEPT ![p] = "none"]
    /\ UNCHANGED <<handPhase, terminator, actions, archive, server, boot, final,
                   pending, threads, acked>>

-----------------------------------------------------------------------------
(* A live bid or play *)

(* validateReplayedPhase: which live phase may stand behind a hand phase. *)
ReplayAgrees(phase, replayed) ==
    \/ phase \in {"ABORTED", "EXPIRED"} /\ replayed # "COMPLETED"
    \/ phase \in {"BIDDING", "PLAYING", "SETTLING", "COMPLETED"} /\ replayed = "COMPLETED"
    \/ phase = "BIDDING"
    \/ phase = "PLAYING" /\ replayed = "PLAYING"

(* What loadReceipt knows of a request ID: the index in memory and, once   *)
(* the hand is retired, the verified history of a terminal hand.           *)
Historic(p) ==
    ~Contains(p) /\ Terminal(handPhase) /\ ReplayAgrees(handPhase, LivePhase(Moves))
Known(p) == receipts[p] \cup (IF Historic(p) THEN ReplayedReceipts ELSE {})

Replays(p, r) == {x \in Known(p) : x.req = r}

(* No receipt bears the request ID, and the history can be read. *)
Unknown(p, r) ==
    /\ \A x \in Known(p) : x.req.id # r.id
    /\ Contains(p) \/ r.id \notin Ids

(* The reply cache lets one execution of a request ID run per instance.    *)
NotInFlight(p, r) == \A t \in Thread : threads[t].home = p => threads[t].req.id # r.id

(* A bid needs a hand that is bidding; a play also accepts a hand whose    *)
(* phase has not followed the auction yet.                                 *)
Submittable(r) == handPhase = "BIDDING" \/ (handPhase = "PLAYING" /\ r.kind \in Plays)

(* submitLiveBid and submitLivePlay look for a receipt before the phase    *)
(* guard, which reads the aggregate before the command stripe is taken.    *)
SubmitLive(t, p, r) ==
    /\ server[p] = "serving" /\ NotInFlight(p, r) /\ StripeFree(p)
    /\ \/ \E x \in Replays(p, r) :
            Starts(t, [Resting EXCEPT !.pc = "callback", !.home = p, !.req = r,
                                      !.mode = "historical", !.result = x.phase])
       \/ /\ Unknown(p, r) /\ Submittable(r)
          /\ Starts(t, [Resting EXCEPT !.pc = "queued", !.home = p, !.req = r])
    /\ UNCHANGED <<durable, server, boot, runtime, pending, dealing, acked>>

(* bidInternal and applyPlayingCommand: under the stripe, the receipt is   *)
(* looked up again before ApplyCommitted computes a candidate.             *)
Playable(p, r) == Unknown(p, r) /\ Writable(p) /\ Legal(games[p], r)

Enter(t) ==
    LET p == threads[t].home  r == threads[t].req
    IN  /\ threads[t].pc = "queued" /\ StripeFree(p)
        /\ \/ \E x \in Replays(p, r) :
                /\ threads' = [threads EXCEPT ![t] =
                     [@ EXCEPT !.pc = "callback", !.mode = "historical", !.result = x.phase]]
                /\ UNCHANGED <<server, acked>>
           \/ /\ Replays(p, r) = {} /\ Playable(p, r)
              /\ Goto(t, "append") /\ UNCHANGED <<server, acked>>
           \/ Replays(p, r) = {} /\ ~Playable(p, r) /\ Fail(t)
        /\ UNCHANGED <<durable, boot, runtime, pending, dealing>>

(* Variant: an append that does not compare the owner epoch. *)
AppendableUnfenced(p, r) ==
    /\ writer.committed = r.expected
    /\ r.id \notin Ids

(* LiveJournal.Append, guarded by the owner epoch, the watermark and the   *)
(* unique command ID.                                                      *)
Appendable(p, r) ==
    /\ writer.epoch = epochs[p]
    /\ writer.committed = r.expected
    /\ r.id \notin Ids

(* Variant: the watermark moves without its action row. *)
JournalWatermarkOnly(p, r) ==
    /\ writer' = [writer EXCEPT !.committed = r.expected + 1]
    /\ UNCHANGED actions

JournalAppend(p, r) ==
    /\ actions' = Append(actions, [req |-> r, epoch |-> epochs[p]])
    /\ writer' = [writer EXCEPT !.committed = r.expected + 1]

(* Variant: the entry stays open after an ambiguous append. *)
NoQuarantine(p) == UNCHANGED entries

Quarantine(p) == entries' = [entries EXCEPT ![p] = "quarantined"]

AppendCommits(t) ==
    /\ threads[t].pc = "append" /\ Appendable(threads[t].home, threads[t].req)
    /\ JournalAppend(threads[t].home, threads[t].req)
    /\ Goto(t, "publish")
    /\ UNCHANGED <<handPhase, terminator, archive, server, boot, runtime, pending,
                   dealing, acked>>

(* Variant: a refused append is published all the same. *)
AppendRefusedIgnored(t) ==
    /\ threads[t].pc = "append"
    /\ ~Appendable(threads[t].home, threads[t].req)
    /\ Goto(t, "publish")
    /\ UNCHANGED <<durable, server, boot, runtime, pending, dealing, acked>>

AppendRefused(t) ==
    /\ threads[t].pc = "append"
    /\ ~Appendable(threads[t].home, threads[t].req)
    /\ Quarantine(threads[t].home) /\ Fail(t)
    /\ UNCHANGED <<durable, boot, games, final, epochs, receipts, pending, dealing>>

(* An error from the transaction or its COMMIT, or a cancelled request:    *)
(* the rows may or may not be there.                                       *)
AppendAmbiguous(t) ==
    LET p == threads[t].home  r == threads[t].req
    IN  /\ threads[t].pc = "append" /\ "ambiguous" \in Faults
        /\ (Appendable(p, r) /\ JournalAppend(p, r)) \/ UNCHANGED journal
        /\ Quarantine(p) /\ Fail(t)
        /\ UNCHANGED <<handPhase, terminator, archive, boot, games, final, epochs,
                       receipts, pending, dealing>>

(* The committed candidate becomes the game, a finished game is archived   *)
(* under the entry lock, and the receipt is stored.                        *)
Publish(t) ==
    LET p == threads[t].home  r == threads[t].req
        moves == Append(games[p], r)
        phase == LivePhase(moves)
        called == threads' = [threads EXCEPT ![t] = [@ EXCEPT !.pc = "callback", !.result = phase]]
    IN  /\ threads[t].pc = "publish"
        /\ receipts' = [receipts EXCEPT ![p] = @ \cup {[req |-> r, phase |-> phase]}]
        /\ \/ /\ phase # "COMPLETED"
              /\ games' = [games EXCEPT ![p] = moves]
              /\ called /\ UNCHANGED <<archive, entries, final, epochs, server, acked>>
           \/ /\ phase = "COMPLETED" /\ ArchiveOk(Completed(moves)) /\ Retire(p)
              /\ called /\ UNCHANGED <<server, acked>>
           \/ /\ phase = "COMPLETED" /\ ArchiveFails(Completed(moves))
              /\ games' = [games EXCEPT ![p] = moves]
              /\ final' = [final EXCEPT ![p] = Completed(moves)]
              /\ Fail(t) /\ UNCHANGED <<entries, epochs>>
        /\ UNCHANGED <<handPhase, terminator, journal, boot, pending, dealing>>

(* finish keeps 64 retired hands: later hands push this one out.           *)
Evict(p) ==
    /\ "evict" \in Faults
    /\ server[p] = "serving" /\ ~Contains(p) /\ receipts[p] # {}
    /\ receipts' = [receipts EXCEPT ![p] = {}]
    /\ UNCHANGED <<durable, server, boot, games, entries, final, epochs, pending,
                   dealing, threads, acked>>

-----------------------------------------------------------------------------
(* The dispatcher's callback: AfterBid, AfterPlay and their historical     *)
(* counterparts decide what a committed result still owes the aggregate.   *)

(* Variant: every bid advances the phase, also an open auction. *)
OwesEveryBid(thread) ==
    CASE thread.result \in {"BIDDING", "PLAYING", "COMPLETED"} -> "advance"
      [] OTHER -> "bind"

Owes(thread) ==
    LET fresh == thread.mode = "fresh"
    IN  CASE thread.result = "PLAYING" /\ (IF fresh THEN thread.req.kind \in Bids
                                           ELSE handPhase = "BIDDING") -> "advance"
          [] thread.result = "COMPLETED" /\ (fresh \/ ~Terminal(handPhase)) -> "advance"
          [] thread.result = "NO_LANDLORD" /\ (fresh \/ handPhase = "BIDDING") -> "bind"
          [] OTHER -> "nothing"

Callback(t) ==
    /\ threads[t].pc = "callback"
    /\ \/ Owes(threads[t]) = "nothing" /\ Done(t)
       \/ /\ Owes(threads[t]) = "advance"
          /\ Goto(t, "advance") /\ UNCHANGED <<server, acked>>
       \/ /\ Owes(threads[t]) = "bind"
          /\ threads' = [threads EXCEPT ![t] =
               [@ EXCEPT !.pc = "bind", !.cmd.reason = "no_landlord"]]
          /\ UNCHANGED <<server, acked>>
    /\ UNCHANGED <<durable, boot, runtime, pending, dealing>>

(* advanceLiveHand re-reads the aggregate before every step, then issues   *)
(* one command bound to the version it read.                               *)
NextPhase == [BIDDING |-> "PLAYING", PLAYING |-> "SETTLING", SETTLING |-> "COMPLETED"]

(* Variant: an advance that gives up at SETTLING. *)
AdvancesNotSettling(thread) ==
    handPhase = "BIDDING" \/ (thread.result = "COMPLETED" /\ handPhase = "PLAYING")

Advances(thread) ==
    handPhase = "BIDDING" \/ (thread.result = "COMPLETED" /\ ~Terminal(handPhase))

AdvanceLoad(t) ==
    /\ threads[t].pc = "advance"
    /\ \/ /\ ~Advances(threads[t]) /\ Done(t)
          /\ IF threads[t].result = "COMPLETED"
             THEN Forget(threads[t].home) ELSE UNCHANGED pending
       \/ /\ Advances(threads[t])
          /\ threads' = [threads EXCEPT ![t] =
               [@ EXCEPT !.pc = "advanceTx", !.cmd = CommandOf("advance", handPhase, 0)]]
          /\ UNCHANGED <<server, acked, pending>>
    /\ UNCHANGED <<durable, boot, runtime, dealing>>

AdvanceCommits(t) ==
    /\ threads[t].pc = "advanceTx" /\ HandRowFree /\ handPhase = threads[t].cmd.phase
    /\ handPhase' = NextPhase[handPhase]
    /\ IF threads[t].result = "COMPLETED"
       THEN Goto(t, "advance") /\ UNCHANGED <<server, acked>>
       ELSE Done(t)
    /\ UNCHANGED <<terminator, journal, archive, boot, runtime, pending, dealing>>

(* A version conflict is a rejection; a transaction error leaves the       *)
(* caller not knowing whether the phase moved.                             *)
AdvanceFails(t) ==
    /\ threads[t].pc = "advanceTx" /\ HandRowFree
    /\ \/ handPhase # threads[t].cmd.phase /\ UNCHANGED handPhase
       \/ /\ "lostAck" \in Faults /\ handPhase = threads[t].cmd.phase
          /\ handPhase' \in {handPhase, NextPhase[handPhase]}
    /\ Fail(t)
    /\ UNCHANGED <<terminator, journal, archive, boot, runtime, pending, dealing>>

-----------------------------------------------------------------------------
(* Terminations: terminateWhenDue binds one command per hand and instance, *)
(* executePending runs it, finalizeTerminatedRuntime archives the game.    *)

(* A participant cancels the hand. *)
Cancel(t, p) ==
    /\ "cancel" \in Faults /\ server[p] = "serving"
    /\ Starts(t, [Resting EXCEPT !.pc = "bind", !.home = p, !.mode = "cancel",
                                 !.cmd.reason = "participant_cancelled"])
    /\ UNCHANGED <<durable, server, boot, runtime, pending, dealing, acked>>

(* The deadline passed and refreshCommittedProgress found the game at the  *)
(* version the timer was armed with; one sweep runs at a time.             *)
Sweep(t, p) ==
    /\ server[p] = "serving" /\ StripeFree(p)
    /\ Writable(p) /\ pending[p] = NoCommand
    /\ handPhase # "DEALING"         \* TrackBidding arms no timer before BIDDING
    /\ LivePhase(games[p]) \in {"BIDDING", "PLAYING"}
    /\ \A u \in Thread : threads[u].home = p => threads[u].mode # "sweep"
    /\ Starts(t, [Resting EXCEPT !.pc = "bind", !.home = p, !.mode = "sweep",
                    !.cmd.reason = "timeout", !.cmd.live = Len(games[p]) + 1])
    /\ UNCHANGED <<durable, server, boot, runtime, pending, dealing, acked>>

(* The command is bound to the phase read here, unless the hand is         *)
(* terminal; a command already pending is joined for the same reason,      *)
(* except by a sweep, which leaves it alone.                               *)
Bind(t) ==
    LET p == threads[t].home
        bound == [threads[t].cmd EXCEPT !.phase = handPhase]
        runs(cmd) == threads' = [threads EXCEPT ![t] = [@ EXCEPT !.pc = "terminateTx", !.cmd = cmd]]
    IN  /\ threads[t].pc = "bind"
        /\ \/ /\ pending[p] = NoCommand /\ ~Terminal(handPhase)
              /\ pending' = [pending EXCEPT ![p] = bound]
              /\ runs(bound) /\ UNCHANGED <<server, acked>>
           \/ /\ pending[p] = NoCommand /\ Terminal(handPhase)
              /\ Done(t) /\ UNCHANGED pending
           \/ /\ pending[p] # NoCommand /\ pending[p].reason = bound.reason
              /\ threads[t].mode # "sweep"
              /\ runs(pending[p]) /\ UNCHANGED <<server, acked, pending>>
           \/ /\ pending[p] # NoCommand
              /\ pending[p].reason # bound.reason \/ threads[t].mode = "sweep"
              /\ Fail(t) /\ UNCHANGED pending
        /\ UNCHANGED <<durable, boot, runtime, dealing>>

Expires(cmd) == cmd.reason = "timeout"
(* Variant: off by one in the progress an expiry yields to. *)
ProgressedByTwo(cmd) == Expires(cmd) /\ writer.committed > cmd.live + 1

Progressed(cmd) == Expires(cmd) /\ writer.committed > cmd.live

(* The command ledger answers the command that terminated the hand again   *)
(* with its stored acceptance.                                             *)
Accepted(t) == terminator = [by |-> threads[t].home, cmd |-> threads[t].cmd]

(* Variant: an expiry that does not fence the writer. *)
TerminateRowsUnfenced(t) ==
    LET cmd == threads[t].cmd
    IN  /\ handPhase = cmd.phase /\ ~Progressed(cmd)
        /\ terminator' = [by |-> threads[t].home, cmd |-> cmd]
        /\ handPhase' = IF Expires(cmd) THEN "EXPIRED" ELSE "ABORTED"
        /\ UNCHANGED writer

(* terminateHand: expiry also needs the watermark it was decided on and    *)
(* fences the writer in the same transaction.                              *)
TerminateRows(t) ==
    LET cmd == threads[t].cmd
    IN  /\ handPhase = cmd.phase /\ ~Progressed(cmd)
        /\ terminator' = [by |-> threads[t].home, cmd |-> cmd]
        /\ handPhase' = IF Expires(cmd) THEN "EXPIRED" ELSE "ABORTED"
        /\ IF Expires(cmd)
           THEN /\ writer # NoWriter /\ writer.epoch < MaxEpoch
                /\ writer' = [writer EXCEPT !.epoch = NextEpoch]
           ELSE UNCHANGED writer

TerminateCommits(t) ==
    /\ threads[t].pc = "terminateTx" /\ HandRowFree
    /\ TerminateRows(t) \/ (Accepted(t) /\ UNCHANGED <<handPhase, terminator, writer>>)
    /\ Goto(t, "finalize")
    /\ UNCHANGED <<actions, archive, server, boot, runtime, pending, dealing, acked>>

(* ErrLiveProgressed rolls the expiry back and retires its pending ID.     *)
TerminateYields(t) ==
    LET p == threads[t].home  cmd == threads[t].cmd
    IN  /\ threads[t].pc = "terminateTx" /\ HandRowFree
        /\ handPhase = cmd.phase /\ Progressed(cmd)
        /\ IF pending[p] = cmd THEN Forget(p) ELSE UNCHANGED pending
        /\ Fail(t)
        /\ UNCHANGED <<durable, boot, runtime, dealing>>

(* A version conflict is stored, so every retry meets it; a transaction    *)
(* error, a missing writer row included, keeps the pending command.        *)
TerminateFails(t) ==
    LET cmd == threads[t].cmd
    IN  /\ threads[t].pc = "terminateTx" /\ HandRowFree
        /\ \/ handPhase # cmd.phase /\ ~Accepted(t) /\ UNCHANGED <<handPhase, terminator, writer>>
           \/ /\ handPhase = cmd.phase /\ Expires(cmd) /\ writer = NoWriter
              /\ UNCHANGED <<handPhase, terminator, writer>>
           \/ "lostAck" \in Faults /\ UNCHANGED <<handPhase, terminator, writer>>
           \/ "lostAck" \in Faults /\ TerminateRows(t)
        /\ Fail(t)
        /\ UNCHANGED <<actions, archive, boot, runtime, pending, dealing>>

(* finalizeTerminatedRuntime: an unfinished archive is retried, a game is  *)
(* aborted (quarantined or not), a hand without a game releases its seed.  *)
Finalize(t) ==
    LET p == threads[t].home
        record == IF final[p] # NoRecord THEN final[p] ELSE Aborted(games[p])
    IN  /\ threads[t].pc = "finalize" /\ StripeFree(p)
        /\ \/ /\ ~Contains(p) /\ Forget(p) /\ Done(t)
              /\ UNCHANGED <<archive, games, entries, final, epochs>>
           \/ /\ Contains(p) /\ ArchiveOk(record) /\ Retire(p)
              /\ Forget(p) /\ Done(t)
           \/ /\ Contains(p) /\ ArchiveFails(record)
              /\ final' = [final EXCEPT ![p] = record]
              /\ Fail(t) /\ UNCHANGED <<games, entries, epochs, pending>>
        /\ UNCHANGED <<handPhase, terminator, journal, boot, receipts, dealing>>

-----------------------------------------------------------------------------
(* Startup: RecoverActive, then ReconcileRecovered, then the handlers.     *)

NotLoaded == [phase |-> "DEALING", epoch |-> 0, committed |-> 0]

(* Variant: recovery skips terminal hands. *)
NeedsReplayActive == writer # NoWriter /\ handPhase \in {"BIDDING", "PLAYING", "SETTLING"}

NeedsReplay == writer # NoWriter /\ handPhase # "DEALING"

BootLoad(p) ==
    /\ server[p] = "down"
    /\ IF NeedsReplay
       THEN /\ server' = [server EXCEPT ![p] = "loaded"]
            /\ boot' = [boot EXCEPT ![p] = [@ EXCEPT !.phase = handPhase]]
       ELSE server' = [server EXCEPT ![p] = "serving"] /\ UNCHANGED boot
    /\ UNCHANGED <<durable, runtime, pending, dealing, threads, acked>>

(* Acquire takes the next epoch under the writer's row lock. *)
BootAcquire(p) ==
    /\ server[p] = "loaded"
    /\ \/ /\ writer # NoWriter /\ writer.epoch < MaxEpoch
          /\ writer' = [writer EXCEPT !.epoch = NextEpoch]
          /\ boot' = [boot EXCEPT ![p] =
               [@ EXCEPT !.epoch = NextEpoch, !.committed = writer.committed]]
          /\ server' = [server EXCEPT ![p] = "acquired"]
       \/ /\ writer = NoWriter
          /\ server' = [server EXCEPT ![p] = "failed"]
          /\ UNCHANGED <<writer, boot>>
    /\ UNCHANGED <<handPhase, terminator, actions, archive, runtime, pending,
                   dealing, threads, acked>>

(* Variant: recovery takes a won game for a running one. *)
RecoveredRecordTerminal(phase) ==
    IF phase \in {"ABORTED", "EXPIRED"} THEN Aborted(Moves)
    ELSE IF phase = "COMPLETED" THEN Completed(Moves)
    ELSE NoRecord

(* The final record replay owes the archive: the abort of a terminated     *)
(* hand, or the completion whose last action is in the journal.            *)
RecoveredRecord(phase) ==
    IF phase \in {"ABORTED", "EXPIRED"} THEN Aborted(Moves)
    ELSE IF LivePhase(Moves) = "COMPLETED" THEN Completed(Moves)
    ELSE NoRecord

(* Replay refuses a watermark that is not the log's and a phase that       *)
(* contradicts it.                                                         *)
Verified(b) == b.committed = Len(actions) + 1 /\ ReplayAgrees(b.phase, LivePhase(Moves))

(* The goroutine that runs ReconcileRecovered. *)
Reconciler(p) ==
    /\ server' = [server EXCEPT ![p] = "reconciling"]
    /\ \E t \in Thread :
         Starts(t, [Resting EXCEPT !.pc = "reconcile", !.home = p, !.mode = "boot",
                                   !.result = LivePhase(Moves)])

BootReplay(p) ==
    LET record == RecoveredRecord(boot[p].phase)
    IN  /\ server[p] = "acquired"
        /\ boot' = [boot EXCEPT ![p] = NotLoaded]
        /\ \/ /\ Verified(boot[p]) /\ record = NoRecord
              /\ games' = [games EXCEPT ![p] = Moves]
              /\ entries' = [entries EXCEPT ![p] = "open"]
              /\ epochs' = [epochs EXCEPT ![p] = boot[p].epoch]
              /\ receipts' = [receipts EXCEPT ![p] = ReplayedReceipts]
              /\ Reconciler(p) /\ UNCHANGED <<archive, final>>
           \/ /\ Verified(boot[p]) /\ record # NoRecord /\ ArchiveOk(record)
              /\ receipts' = [receipts EXCEPT ![p] = ReplayedReceipts]
              /\ IF record.status = "COMPLETED" THEN Reconciler(p)
                 ELSE server' = [server EXCEPT ![p] = "serving"] /\ UNCHANGED threads
              /\ UNCHANGED <<games, entries, final, epochs>>
           \/ /\ \/ ~Verified(boot[p]) /\ UNCHANGED archive
                 \/ Verified(boot[p]) /\ record # NoRecord /\ ArchiveFails(record)
              /\ server' = [server EXCEPT ![p] = "failed"]
              /\ UNCHANGED <<runtime, threads>>
        /\ UNCHANGED <<handPhase, terminator, journal, pending, dealing, acked>>

Reconcile(t) ==
    LET live == threads[t].result
    IN  /\ threads[t].pc = "reconcile"
        /\ \/ Terminal(handPhase) /\ Done(t)
           \/ ~Terminal(handPhase) /\ live = "BIDDING" /\ handPhase = "BIDDING" /\ Done(t)
           \/ ~Terminal(handPhase) /\ live = "BIDDING" /\ handPhase # "BIDDING" /\ Fail(t)
           \/ /\ ~Terminal(handPhase) /\ live \in {"PLAYING", "COMPLETED"}
              /\ Goto(t, "advance") /\ UNCHANGED <<server, acked>>
           \/ /\ ~Terminal(handPhase) /\ live = "NO_LANDLORD"
              /\ threads' = [threads EXCEPT ![t] =
                   [@ EXCEPT !.pc = "bind", !.cmd.reason = "no_landlord"]]
              /\ UNCHANGED <<server, acked>>
        /\ UNCHANGED <<durable, boot, runtime, pending, dealing>>

(* The process dies, or exits after a failed startup: MySQL keeps what was *)
(* committed, nothing else stays.  MaxEpoch bounds the crashes as well; a  *)
(* crash before Acquire has touched nothing and is left out.               *)
Crash(p) ==
    /\ \/ "crash" \in Faults /\ writer.epoch < MaxEpoch /\ server[p] \notin {"down", "loaded"}
       \/ server[p] = "failed"
    /\ server' = [server EXCEPT ![p] = "down"]
    /\ boot' = [boot EXCEPT ![p] = NotLoaded]
    /\ Retire(p)
    /\ receipts' = [receipts EXCEPT ![p] = {}]
    /\ pending' = [pending EXCEPT ![p] = NoCommand]
    /\ dealing' = [dealing EXCEPT ![p] = "none"]
    /\ threads' = [t \in Thread |-> IF threads[t].home = p THEN Resting ELSE threads[t]]
    /\ UNCHANGED <<durable, acked>>

-----------------------------------------------------------------------------
Init ==
    /\ handPhase = "DEALING" /\ terminator = Unterminated
    /\ writer = NoWriter /\ actions = <<>> /\ archive = NoRecord
    /\ server = [p \in Proc |-> "down"] /\ boot = [p \in Proc |-> NotLoaded]
    /\ games = [p \in Proc |-> <<>>] /\ entries = [p \in Proc |-> "none"]
    /\ final = [p \in Proc |-> NoRecord] /\ epochs = [p \in Proc |-> 0]
    /\ receipts = [p \in Proc |-> {}] /\ pending = [p \in Proc |-> NoCommand]
    /\ dealing = [p \in Proc |-> "none"]
    /\ threads = [t \in Thread |-> Resting]
    /\ acked = {}

ProcNext(p) ==
    \/ DealStart(p) \/ DealCommit(p) \/ DealError(p) \/ RollbackStart(p)
    \/ Evict(p) \/ BootLoad(p) \/ BootAcquire(p) \/ BootReplay(p) \/ Crash(p)

ThreadNext(t) ==
    \/ Enter(t) \/ AppendCommits(t) \/ AppendRefused(t) \/ AppendAmbiguous(t)
    \/ Publish(t) \/ Callback(t) \/ AdvanceLoad(t) \/ AdvanceCommits(t)
    \/ AdvanceFails(t) \/ Bind(t) \/ TerminateCommits(t) \/ TerminateYields(t)
    \/ TerminateFails(t) \/ Finalize(t) \/ Reconcile(t)

StartNext(t, p) ==
    Cancel(t, p) \/ Sweep(t, p) \/ \E r \in Requests : SubmitLive(t, p, r)

Next ==
    \/ \E p \in Proc : ProcNext(p)
    \/ \E t \in Thread : ThreadNext(t)
    \/ \E t \in Thread, p \in Proc : StartNext(t, p)

Spec == Init /\ [][Next]_vars

-----------------------------------------------------------------------------
(* Properties *)

Commands == [reason : {"none", "no_landlord", "participant_cancelled", "timeout", "advance"},
             phase : HandPhases, live : Nat]

Records == [status : {"NONE", "COMPLETED", "ABORTED"}, version : Nat]
Receipts == [req : Requests, phase : LivePhases]
Goroutines ==
    [pc : {"idle", "queued", "append", "publish", "callback", "advance", "advanceTx",
           "bind", "terminateTx", "finalize", "reconcile"},
     home : Proc \cup {"none"}, req : Requests \cup {NoRequest},
     mode : {"fresh", "historical", "cancel", "sweep", "boot"},
     result : LivePhases, cmd : Commands]

(* The variables hold what their rows and maps can hold, and a goroutine   *)
(* that is not idle runs on some instance.                                 *)
TypeOK ==
    /\ handPhase \in HandPhases
    /\ terminator \in [by : Proc \cup {"none"}, cmd : Commands]
    /\ writer \in [epoch : Nat, committed : Nat]
    /\ actions \in Seq([req : Requests, epoch : Nat])
    /\ archive \in Records
    /\ server \in [Proc -> {"down", "loaded", "acquired", "reconciling", "serving", "failed"}]
    /\ boot \in [Proc -> [phase : HandPhases, epoch : Nat, committed : Nat]]
    /\ games \in [Proc -> Seq(Requests)]
    /\ entries \in [Proc -> {"none", "open", "quarantined"}]
    /\ final \in [Proc -> Records]
    /\ epochs \in [Proc -> Nat]
    /\ receipts \in [Proc -> SUBSET Receipts]
    /\ pending \in [Proc -> Commands]
    /\ dealing \in [Proc -> {"none", "created", "rollback"}]
    /\ threads \in [Thread -> Goroutines]
    /\ acked \subseteq Requests

(* A request is in the journal, at the version it was made for. *)
Logged(r) == r.expected \in 1..Len(actions) /\ actions[r.expected].req = r

(* A client that has its answer never loses its move: whatever crashes,    *)
(* takeovers, ambiguous commits and compensations follow, the journal      *)
(* keeps the request at the version it was made for.                       *)
AckedDurable == \A r \in acked : Logged(r)

(* No instance, a fenced one included, ever shows a move that is not       *)
(* committed: ApplyCommitted publishes a candidate only after Append.      *)
PublishedIsCommitted ==
    \A p \in Proc : /\ Len(games[p]) <= Len(actions)
                    /\ \A i \in 1..Len(games[p]) : games[p][i] = actions[i].req

(* The instance that owns the writer's epoch and may still write has the   *)
(* whole log applied and its whole receipt index in memory whenever its    *)
(* stripe is free, so a retry is never taken for a new command.            *)
OwnerIsCurrent ==
    \A p \in Proc :
        Writable(p) /\ epochs[p] = writer.epoch /\ StripeFree(p) =>
            games[p] = Moves /\ receipts[p] = ReplayedReceipts

(* A journal refusal means that the instance was fenced: the owner of the  *)
(* epoch never meets a watermark or a command-ID conflict, which would     *)
(* quarantine a hand nobody else is writing.                               *)
OwnerAppendAccepted ==
    \A t \in Thread :
        threads[t].pc = "append" /\ writer.epoch = epochs[threads[t].home]
            => Appendable(threads[t].home, threads[t].req)

(* Two instances never hold the same epoch of a hand, compensation and     *)
(* re-creation of the writer row included.                                 *)
SingleOwner ==
    \A p, q \in Proc : p # q /\ Contains(p) => epochs[p] # epochs[q]

(* The aggregate never runs ahead of the game: PLAYING needs a closed      *)
(* auction in the journal, SETTLING and COMPLETED a committed last card.   *)
HandFollowsLog ==
    /\ handPhase = "PLAYING" => LivePhase(Moves) \in {"PLAYING", "COMPLETED"}
    /\ handPhase \in {"SETTLING", "COMPLETED"} => LivePhase(Moves) = "COMPLETED"

(* An expired hand never holds a move newer than the one whose deadline    *)
(* passed, whichever of Append and ExpireHand takes the writer row first,  *)
(* and expiry never beats a game that is already decided.                  *)
ExpiryKeepsProgress ==
    handPhase = "EXPIRED" =>
        /\ Len(actions) < terminator.cmd.live
        /\ LivePhase(Moves) \in {"BIDDING", "PLAYING"}

(* The final record tells how the hand ended, and is never overtaken by a  *)
(* different end of the aggregate.                                         *)
ArchiveAgrees ==
    /\ archive.status = "COMPLETED" =>
         archive = Completed(Moves) /\ handPhase \notin {"ABORTED", "EXPIRED"}
    /\ archive.status = "ABORTED" =>
         archive = Aborted(Moves) /\ handPhase \in {"ABORTED", "EXPIRED"}

(* A startup that holds the newest watermark always passes verification    *)
(* and finds either no final record or its own exact retry.                *)
RecoveryAccepts ==
    \A p \in Proc :
        server[p] = "acquired" /\ boot[p].epoch = writer.epoch =>
            Verified(boot[p]) /\ (LET record == RecoveredRecord(boot[p].phase)
                                  IN  record # NoRecord => Archivable(record))

(* The inductive invariant.  The journal is indexed by the versions of its *)
(* requests and counted by the watermark; a hand that is not dealt has no  *)
(* moves, no recovery and no goroutine but a cancel; an instance runs      *)
(* goroutines only while it serves or reconciles; one of them holds the    *)
(* stripe, with the request that comes next in the game it will publish;   *)
(* and every one past its append carries a request that is in the journal. *)
LogIndexed == \A i \in 1..Len(actions) : actions[i].req.expected = i

Watermark ==
    /\ writer = NoWriter => actions = <<>>
    /\ writer # NoWriter => writer.committed = Len(actions) + 1

RunsOn(thread, status) ==
    /\ thread.home \in Proc
    /\ status = IF thread.mode = "boot" THEN "reconciling" ELSE "serving"
    /\ thread.pc \in {"queued", "append", "publish"} => thread.mode = "fresh"
    /\ thread.pc = "callback" => thread.mode \in {"fresh", "historical"}
    /\ thread.pc = "reconcile" => thread.mode = "boot"
    /\ thread.pc \in {"advance", "advanceTx"} => thread.mode \in {"fresh", "historical", "boot"}
    /\ thread.pc = "advanceTx" => thread.cmd.phase \in DOMAIN NextPhase
    /\ thread.mode \in {"fresh", "historical"} => thread.req \in Requests

ThreadsRun ==
    \A t \in Thread :
        threads[t].pc # "idle" => RunsOn(threads[t], server[threads[t].home])

DealLocked ==
    \A p, q \in Proc :
        dealing[p] = "created" => handPhase = "DEALING" /\ (dealing[q] = "created" => p = q)

Undealt ==
    handPhase = "DEALING" =>
        /\ actions = <<>>
        /\ \A p \in Proc : server[p] \notin {"loaded", "acquired", "reconciling"}
        /\ \A t \in Thread : threads[t].pc # "idle" => threads[t].mode = "cancel"

OneReconciler ==
    \A t, u \in Thread :
        /\ threads[t].pc # "idle" /\ threads[t].mode = "boot"
        /\ threads[u].pc # "idle" /\ threads[u].mode = "boot"
        /\ threads[t].home = threads[u].home
        => t = u

Holds(t) == threads[t].pc \in {"append", "publish"}
StripeExclusive ==
    \A t, u \in Thread :
        Holds(t) /\ Holds(u) /\ threads[t].home = threads[u].home => t = u

NextInGame ==
    \A t \in Thread :
        Holds(t) => threads[t].req.expected = Len(games[threads[t].home]) + 1

AnswersLogged ==
    \A t \in Thread :
        /\ threads[t].pc \notin {"idle", "queued", "append"}
        /\ threads[t].mode \in {"fresh", "historical"}
        => Logged(threads[t].req)

ReceiptsLogged == \A p \in Proc : \A x \in receipts[p] : Logged(x.req)

IInv ==
    /\ TypeOK /\ LogIndexed /\ Watermark /\ DealLocked /\ Undealt
    /\ ThreadsRun /\ OneReconciler /\ StripeExclusive /\ NextInGame
    /\ AnswersLogged /\ ReceiptsLogged /\ PublishedIsCommitted /\ AckedDurable

(* What players are promised: the journal and the phase row implement the  *)
(* ledger of LiveLedger, so a move is accepted once, at its own version,   *)
(* before its answer and never after the hand is sealed.                   *)
Ledger == INSTANCE LiveLedger
    WITH ledger <- Moves, acknowledged <- acked,
         sealed <- handPhase \in {"EXPIRED", "COMPLETED"}
LedgerSpec == Ledger!Spec

-----------------------------------------------------------------------------
(* Fairness: goroutines are scheduled, the database answers, a dead        *)
(* instance is restarted and the ticker of Supervisor.Run fires.  Clients, *)
(* crashes, errors and evictions may happen or not.                        *)

Startup(p) == BootLoad(p) \/ BootAcquire(p) \/ BootReplay(p)

Fairness ==
    /\ \A p \in Proc :
         /\ WF_vars(DealCommit(p)) /\ WF_vars(RollbackStart(p)) /\ WF_vars(Startup(p))
         /\ WF_vars(\E t \in Thread : Sweep(t, p))
    /\ \A t \in Thread : WF_vars(ThreadNext(t))

FairSpec == Spec /\ Fairness

(* The last card of a hand, once committed, reaches the final archive even *)
(* if the instance dies between Append and the archive.                    *)
WonHandIsArchived ==
    (LivePhase(Moves) = "COMPLETED") ~> (archive.status = "COMPLETED")

(* An expired hand gets its final record, even if the instance dies        *)
(* between the transaction that expires it and the archive of its game.    *)
ExpiredHandIsArchived == (handPhase = "EXPIRED") ~> (archive.status = "ABORTED")

(* A restart ends every hand whose game is over: RecoverActive archives a  *)
(* won game and ReconcileRecovered walks its aggregate to COMPLETED, or    *)
(* aborts a passed-out hand, however often the instance dies on the way.   *)
RecoveryEndsHand ==
    \A p \in Proc :
        (server[p] = "acquired" /\ LivePhase(Moves) \in {"COMPLETED", "NO_LANDLORD"})
            ~> (Terminal(handPhase) /\ archive.status # "NONE")

-----------------------------------------------------------------------------
(* Claims of the repository's own documents and comments.                  *)

(* durable_live_recover.go: an expired or aborted hand may have accepted   *)
(* live actions, but no terminal live action.                              *)
TerminatedWithoutResult ==
    handPhase \in {"ABORTED", "EXPIRED"} => LivePhase(Moves) # "COMPLETED"

(* doudizhu_autodeal.go: after a crash the same phase is retried by a      *)
(* fresh instance, so a hand left DEALING can be dealt: no journal row     *)
(* bars Create.                                                            *)
DealCanBeRetried ==
    handPhase = "DEALING" /\ (\A p \in Proc : dealing[p] = "none") => writer = NoWriter

(* Goal 0030: a successful all-pass auction becomes one automatic terminal *)
(* command instead of leaving the hand indefinitely in NO_LANDLORD.        *)
PassedOutHandAborts == (LivePhase(Moves) = "NO_LANDLORD") ~> (handPhase = "ABORTED")

=============================================================================
