------------------------- MODULE LiveHandInvariants -------------------------
(***************************************************************************)
(* The inductive invariants of LiveHand beyond IInv, in three groups: the  *)
(* journal is a play of the game and the aggregate follows it; one         *)
(* instance at a time owns the journal and knows all of it; and the final  *)
(* record tells what the journal and the aggregate tell.                   *)
(***************************************************************************)
EXTENDS LiveHand

(* The first n moves of the journal. *)
Prefix(n) == SubSeq(Moves, 1, n)

-----------------------------------------------------------------------------
(* The journal is a play of the game. *)

(* The game has come as far as a receipt of this phase says. *)
Reached(phase) ==
    /\ phase = "PLAYING" => LivePhase(Moves) \in {"PLAYING", "COMPLETED"}
    /\ phase \in {"NO_LANDLORD", "COMPLETED"} => LivePhase(Moves) = phase

(* Nothing follows a closed game, and no phase is ever taken back. *)
LogPlayed ==
    \A n \in 0..Len(actions) :
        /\ Reached(LivePhase(Prefix(n)))
        /\ n < Len(actions) => LivePhase(Prefix(n)) \in {"BIDDING", "PLAYING"}

(* The candidate a goroutine appends was computed from the game it holds. *)
AppendLegal ==
    \A t \in Thread :
        threads[t].pc = "append" => Legal(games[threads[t].home], threads[t].req)

(* A goroutine acts on a result the game has reached; only a finished game *)
(* takes the aggregate beyond PLAYING.                                     *)
ResultsReached ==
    \A t \in Thread :
        threads[t].pc # "idle" =>
            /\ Reached(threads[t].result)
            /\ threads[t].pc \in {"advance", "advanceTx"} =>
                 threads[t].result \in {"PLAYING", "COMPLETED"}
            /\ threads[t].pc = "advanceTx" /\ threads[t].cmd.phase # "BIDDING" =>
                 threads[t].result = "COMPLETED"

(* A receipt tells the phase its own move led to. *)
ReceiptsTrue ==
    \A p \in Proc : \A x \in receipts[p] : x.phase = LivePhase(Prefix(x.req.expected))

GameInv == LogPlayed /\ AppendLegal /\ ResultsReached /\ ReceiptsTrue /\ HandFollowsLog

-----------------------------------------------------------------------------
(* One instance at a time owns the journal. *)

(* Epochs are handed out by the writer row, to a startup that has acquired *)
(* it and to the instance that startup makes; others hold none.            *)
EpochsBounded ==
    writer # NoWriter =>
        \A p \in Proc : epochs[p] <= writer.epoch /\ boot[p].epoch <= writer.epoch

BootHolds ==
    \A p \in Proc :
        /\ boot[p].epoch # 0 <=> server[p] = "acquired"
        /\ server[p] \in {"down", "loaded", "acquired"} =>
             epochs[p] = 0 /\ pending[p] = NoCommand

ClaimsDistinct ==
    \A p, q \in Proc :
        p # q => /\ epochs[p] # 0 => epochs[p] # epochs[q] /\ epochs[p] # boot[q].epoch
                 /\ boot[p].epoch # 0 => boot[p].epoch # boot[q].epoch

(* Until the deal commits, only the instance that deals has an epoch. *)
DealOwner ==
    handPhase = "DEALING" =>
        \A p \in Proc :
            /\ epochs[p] # 0 => dealing[p] # "none"
            /\ dealing[p] # "none" =>
                 writer # NoWriter /\ \A q \in Proc : dealing[q] # "none" => p = q

EpochInv == EpochsBounded /\ BootHolds /\ ClaimsDistinct /\ DealOwner

(* The entry mutex: nobody quarantines, finishes or drops a held game. *)
HoldersWrite == \A t \in Thread : Holds(t) => Writable(threads[t].home)

Owns(p) == Writable(p) /\ epochs[p] = writer.epoch
Publishes(t, p) == threads[t].home = p /\ threads[t].pc = "publish"

(* The owner has applied the whole journal, or all but the row its own     *)
(* publisher is about to apply.                                            *)
OwnersCurrent ==
    \A p \in Proc :
        Owns(p) =>
            /\ (\A t \in Thread : ~Publishes(t, p)) =>
                 games[p] = Moves /\ receipts[p] = ReplayedReceipts
            /\ \A t \in Thread :
                 Publishes(t, p) =>
                   /\ Moves = Append(games[p], threads[t].req)
                   /\ ReplayedReceipts = receipts[p] \cup
                        {[req |-> threads[t].req, phase |-> LivePhase(Moves)]}

(* What the owner appends is not yet in the journal. *)
AppendsNew ==
    \A t \in Thread :
        threads[t].pc = "append" /\ epochs[threads[t].home] = writer.epoch =>
            threads[t].req.id \notin Ids

OwnerInv == EpochInv /\ HoldersWrite /\ OwnersCurrent /\ AppendsNew

-----------------------------------------------------------------------------
(* Terminal phases are final, and expiry fences what it would overtake. *)

(* No command is bound to a terminal phase. *)
CommandsBound ==
    /\ \A t \in Thread : ~Terminal(threads[t].cmd.phase)
    /\ \A p \in Proc : ~Terminal(pending[p].phase)

(* A deadline was armed for a version of the journal with the game running. *)
Due(cmd) ==
    Expires(cmd) => /\ cmd.live \in 1..(Len(actions) + 1)
                    /\ LivePhase(Prefix(cmd.live - 1)) \in {"BIDDING", "PLAYING"}

Deadlines ==
    /\ \A t \in Thread : Due(threads[t].cmd)
    /\ \A p \in Proc : Due(pending[p])

(* Whoever was let through before the expiry has lost the epoch. *)
Fenced ==
    handPhase = "EXPIRED" =>
        \A t \in Thread :
            threads[t].pc \in {"queued", "append"} =>
                epochs[threads[t].home] = 0 \/ epochs[threads[t].home] # writer.epoch

ExpiryInv == CommandsBound /\ Deadlines /\ Fenced /\ ExpiryKeepsProgress

-----------------------------------------------------------------------------
(* The final record, and what a startup has loaded. *)

(* A hand with a terminator, or a goroutine that finalizes, is terminated. *)
TerminatorKept ==
    /\ terminator.by # "none" =>
         handPhase = IF Expires(terminator.cmd) THEN "EXPIRED" ELSE "ABORTED"
    /\ \A t \in Thread : threads[t].pc = "finalize" => handPhase \in {"ABORTED", "EXPIRED"}

(* What RecoverActive read of the aggregate still binds the journal, and   *)
(* the watermark it acquired stands as long as its epoch does.             *)
BootAgrees ==
    \A p \in Proc :
        /\ server[p] \in {"loaded", "acquired"} =>
             /\ boot[p].phase # "DEALING"
             /\ boot[p].phase = "PLAYING" => LivePhase(Moves) \in {"PLAYING", "COMPLETED"}
             /\ boot[p].phase \in {"SETTLING", "COMPLETED"} => LivePhase(Moves) = "COMPLETED"
             /\ boot[p].phase \in {"ABORTED", "EXPIRED"} => handPhase = boot[p].phase
        /\ server[p] = "acquired" /\ boot[p].epoch = writer.epoch =>
             boot[p].committed = writer.committed

(* The game of the instance, while it has one, holds the whole journal. *)
Whole(p) == Contains(p) => Len(games[p]) >= Len(actions)

(* A game that is kept holds every move it has a receipt of. *)
ReceiptsShown ==
    \A p \in Proc :
        Contains(p) => \A x \in receipts[p] : x.req.expected <= Len(games[p])

(* Without a participant's cancel only a passed-out auction is aborted, by *)
(* an instance that shows it, and only a deadline of the instance's own    *)
(* game expires.                                                           *)
Passed(p) == LivePhase(Moves) = "NO_LANDLORD" /\ Whole(p)

Justified(cmd, p) ==
    /\ cmd.reason # "participant_cancelled"
    /\ cmd.reason = "no_landlord" => Passed(p)
    /\ Expires(cmd) /\ Contains(p) => cmd.live <= Len(games[p]) + 1

TerminationsJustified ==
    /\ \A t \in Thread :
         threads[t].pc # "idle" =>
           /\ Justified(threads[t].cmd, threads[t].home)
           /\ threads[t].result = "NO_LANDLORD" => Whole(threads[t].home)
           /\ threads[t].pc \in {"bind", "terminateTx"} =>
                threads[t].cmd.reason \in {"no_landlord", "timeout"}
           /\ threads[t].pc = "finalize" => Whole(threads[t].home)
    /\ \A p \in Proc : Justified(pending[p], p)
    /\ handPhase = "ABORTED" => LivePhase(Moves) = "NO_LANDLORD"

(* A final record, archived or waiting to be, tells how the hand ended. *)
Tells(record) ==
    /\ record.status = "NONE" => record = NoRecord
    /\ record.status = "COMPLETED" =>
         record = Completed(Moves) /\ LivePhase(Moves) = "COMPLETED"
    /\ record.status = "ABORTED" =>
         record = Aborted(Moves) /\ handPhase \in {"ABORTED", "EXPIRED"}

RecordsTell == Tells(archive) /\ \A p \in Proc : Tells(final[p])

RecoveryInv == TerminatorKept /\ BootAgrees /\ ReceiptsShown
ArchiveInv == "cancel" \notin Faults => TerminationsJustified /\ RecordsTell

(* Everything that is proved of a live hand rests on this invariant. *)
HandInv == IInv /\ GameInv /\ OwnerInv /\ ExpiryInv /\ RecoveryInv /\ ArchiveInv
=============================================================================
