------------------------------ MODULE HandNews ------------------------------
(***************************************************************************)
(* The realtime bridge of the Doudizhu dispatcher: how the players of a    *)
(* hand learn of its moves.                                                *)
(*                                                                         *)
(* A move sent over a connection is committed and then broadcast by that   *)
(* connection's read pump: the seats are read, and to each of them go a    *)
(* change event and the private view, read after the event was sent.       *)
(* Broadcasts of several moves run at once, so views may be queued out of  *)
(* order; a client keeps the newest.  A move over HTTP is not broadcast.   *)
(* Module RealtimeHub has the connections themselves: here one is on or    *)
(* off, and its queue holds versions of the hand, 0 for any other message. *)
(* "owed" is history: the moves whose broadcast is still to reach the      *)
(* connection, or has reached it.                                          *)
(***************************************************************************)
EXTENDS Naturals, Sequences

CONSTANTS Lines,       \* connections, one per seated account
          LineQueue,   \* SendQueueSize
          MaxMoves     \* bound: moves of the hand

ASSUME NewsAssumption == LineQueue \in Nat \ {0} /\ MaxMoves \in Nat

VARIABLES
    lines,  \* the connections
    casts,  \* what the read pump of each connection is sending
    move    \* the committed version of the hand

newsVars == <<lines, casts, move>>

Items == 0..MaxMoves
Off == [on |-> FALSE, queue |-> <<>>, seen |-> 0, owed |-> {}]
NoCast == [at |-> "idle", news |-> 0, todo |-> {}, seat |-> "none", item |-> 0]

(* Variant: a message that finds the queue full is dropped. *)
QueuedOrDropped(l, item) ==
    IF l.on /\ Len(l.queue) < LineQueue THEN [l EXCEPT !.queue = Append(@, item)] ELSE l

(* enqueue: a slow consumer is terminated. *)
Queued(l, item) ==
    IF ~l.on THEN l
    ELSE IF Len(l.queue) < LineQueue THEN [l EXCEPT !.queue = Append(@, item)] ELSE Off

(* The read pump of the last connection has returned. *)
Connect(c) ==
    /\ ~lines[c].on /\ casts[c].at = "idle"
    /\ lines' = [lines EXCEPT ![c] = [Off EXCEPT !.on = TRUE]]
    /\ UNCHANGED <<casts, move>>

Disconnect(c) ==
    /\ lines[c].on
    /\ lines' = [lines EXCEPT ![c] = Off]
    /\ UNCHANGED <<casts, move>>

(* The client keeps the newest version it was shown. *)
Receive(c) ==
    /\ lines[c].queue # <<>>
    /\ LET item == Head(lines[c].queue) IN
       lines' = [lines EXCEPT ![c].queue = Tail(@),
                              ![c].seen = IF item > @ THEN item ELSE @]
    /\ UNCHANGED <<casts, move>>

(* handleSync answers with the current view, or with the final evidence. *)
SyncHand(c) ==
    /\ lines[c].on /\ casts[c].at = "idle"
    /\ casts' = [casts EXCEPT ![c] = [NoCast EXCEPT !.at = "reply", !.item = move]]
    /\ UNCHANGED <<lines, move>>

(* handleCommand: the move is committed, its broadcast comes after.  From  *)
(* then on every open connection is owed this move.                        *)
CommandHand(c) ==
    /\ lines[c].on /\ casts[c].at = "idle" /\ move < MaxMoves
    /\ move' = move + 1
    /\ casts' = [casts EXCEPT ![c] = [NoCast EXCEPT !.at = "load", !.news = move + 1]]
    /\ lines' = [d \in Lines |-> IF lines[d].on THEN [lines[d] EXCEPT !.owed = @ \cup {move + 1}]
                                 ELSE lines[d]]

(* A move over HTTP. *)
HttpMove ==
    /\ move < MaxMoves /\ move' = move + 1
    /\ UNCHANGED <<lines, casts>>

(* broadcastHand reads the seats, served in any order here. *)
LoadAudience(c) ==
    /\ casts[c].at = "load"
    /\ casts' = [casts EXCEPT ![c].at = "seat", ![c].todo = Lines]
    /\ UNCHANGED <<lines, move>>

SendChanged(c, d) ==
    /\ casts[c].at = "seat" /\ d \in casts[c].todo
    /\ lines' = [lines EXCEPT ![d] = Queued(@, 0)]
    /\ casts' = [casts EXCEPT ![c].at = "view", ![c].todo = @ \ {d}, ![c].seat = d]
    /\ UNCHANGED move

ReadView(c) ==
    /\ casts[c].at = "view"
    /\ casts' = [casts EXCEPT ![c].at = "snapshot", ![c].item = move]
    /\ UNCHANGED <<lines, move>>

SendSnapshot(c) ==
    /\ casts[c].at = "snapshot"
    /\ lines' = [lines EXCEPT ![casts[c].seat] = Queued(@, casts[c].item)]
    /\ casts' = [casts EXCEPT ![c].at = "seat", ![c].seat = "none", ![c].item = 0]
    /\ UNCHANGED move

(* The handler's answer: the result of the command, or the synced view. *)
Reply(c) ==
    /\ \/ casts[c].at = "reply"
       \/ casts[c].at = "seat" /\ casts[c].todo = {}
    /\ lines' = [lines EXCEPT ![c] = Queued(@, casts[c].item)]
    /\ casts' = [casts EXCEPT ![c] = NoCast]
    /\ UNCHANGED move

(* A line is not owed this move any more. *)
Forgiven(l, news) == [l EXCEPT !.owed = @ \ {news}]

(* The seats cannot be read, for instance because the connection that sent *)
(* the move is gone and its context with it: nobody is told of this move.  *)
AudienceFails(c) ==
    /\ casts[c].at = "load"
    /\ casts' = [casts EXCEPT ![c] = [NoCast EXCEPT !.at = "reply"]]
    /\ lines' = [d \in Lines |-> Forgiven(lines[d], casts[c].news)]
    /\ UNCHANGED move

(* Neither the view nor the final evidence can be read: this seat is not   *)
(* told of this move, and the next one is served.                          *)
ViewFails(c) ==
    /\ casts[c].at = "view"
    /\ casts' = [casts EXCEPT ![c].at = "seat", ![c].seat = "none"]
    /\ lines' = [lines EXCEPT ![casts[c].seat] = Forgiven(@, casts[c].news)]
    /\ UNCHANGED move

NewsInit ==
    /\ lines = [c \in Lines |-> Off] /\ casts = [c \in Lines |-> NoCast] /\ move = 0

NewsNext ==
    \/ HttpMove
    \/ \E c \in Lines :
        \/ Connect(c) \/ Disconnect(c) \/ Receive(c) \/ SyncHand(c) \/ CommandHand(c)
        \/ LoadAudience(c) \/ ReadView(c) \/ SendSnapshot(c) \/ Reply(c)
        \/ AudienceFails(c) \/ ViewFails(c)
        \/ \E d \in Lines : SendChanged(c, d)

NewsSpec == NewsInit /\ [][NewsNext]_newsVars

-----------------------------------------------------------------------------
(* Properties *)

(* The state is well formed. *)
NewsTypeOK ==
    /\ move \in Items
    /\ lines \in [Lines -> [on : BOOLEAN, queue : Seq(Items), seen : Items, owed : SUBSET Items]]
    /\ \A c \in Lines : /\ Len(lines[c].queue) <= LineQueue
                        /\ casts[c].item \in Items /\ casts[c].news \in Items
                        /\ casts[c].todo \subseteq Lines

(* What a connection was shown or has queued. *)
Known(c) == {lines[c].seen} \cup {lines[c].queue[i] : i \in 1..Len(lines[c].queue)}

(* When no broadcast runs, every open connection has been shown, or has    *)
(* queued, a version at least as new as each move that was broadcast since *)
(* it opened and did not fail for its seat, whichever moves, broadcasts    *)
(* and failures for other seats or of other moves raced each other: one    *)
(* that cannot be told is ended (realtime.go, broadcastHand; client.go,    *)
(* enqueue).                                                               *)
NewsArrives ==
    (\A c \in Lines : casts[c].at \in {"idle", "reply"}) =>
        \A c \in Lines : lines[c].on => \A m \in lines[c].owed : \E v \in Known(c) : v >= m
=============================================================================
