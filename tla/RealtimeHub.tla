---------------------------- MODULE RealtimeHub ----------------------------
(***************************************************************************)
(* The realtime hub of one server instance: its indexes, the connections   *)
(* and how they end.                                                       *)
(*                                                                         *)
(* Every connection has a read pump, which runs the handlers, a write pump *)
(* and a bounded queue between them.  Publish and SendAccount copy their   *)
(* recipients under the hub's lock and send to them after releasing it, so *)
(* connections come and go between the two.  Terminating a connection      *)
(* closes its done channel first and takes it out of the indexes later.    *)
(*                                                                         *)
(* Of a queue only its length matters.  terminate waits for unregister in  *)
(* the code; here its caller goes on, which only adds interleavings.       *)
(***************************************************************************)
EXTENDS Naturals, FiniteSets

CONSTANTS Sockets,  \* connections, each used once
          Users,    \* accounts
          QueueSize, MaxConnections, MaxPerUser

ASSUME HubAssumption == {QueueSize, MaxConnections, MaxPerUser} \subseteq Nat \ {0}

VARIABLES
    clients,      \* h.clients; h.accounts indexes it by owner
    subscribers,  \* h.topics of the topic
    sockets,      \* the connections
    targets,      \* the recipients that a Publish or SendAccount has still to serve
    closing       \* Close was called, and the connections it still terminates

hubVars == <<clients, subscribers, sockets, targets, closing>>

Stages == {"new", "refused", "listed", "started", "greeted"}
Unconnected == [owner |-> "none", stage |-> "new", done |-> FALSE, leaving |-> FALSE,
          reading |-> FALSE, writing |-> FALSE, queued |-> 0]

Owned(u) == {c \in clients : sockets[c].owner = u}
PumpsRun(s) == s.stage \in {"started", "greeted"}
Finished(s) == PumpsRun(s) /\ ~s.writing

-----------------------------------------------------------------------------
(* Queues and termination *)

(* Variant: a connection whose pumps do not run yet has nothing to stop. *)
TerminatedRunning(s) ==
    IF s.done \/ ~PumpsRun(s) THEN s ELSE [s EXCEPT !.done = TRUE, !.leaving = TRUE]

(* terminate, up to unregister; only the first call counts. *)
Terminated(s) == IF s.done THEN s ELSE [s EXCEPT !.done = TRUE, !.leaving = TRUE]

(* The outcomes of enqueue: a closed done channel and a free queue are     *)
(* both ready, and select picks either; a full queue ends a slow consumer. *)
Enqueued(s) ==
    (IF s.done THEN {s} ELSE {}) \cup
    {IF s.queued < QueueSize THEN [s EXCEPT !.queued = @ + 1] ELSE Terminated(s)}

Enqueue(c) == \E s \in Enqueued(sockets[c]) : sockets' = [sockets EXCEPT ![c] = s]

Unregister(c) ==
    /\ sockets[c].leaving
    /\ sockets' = [sockets EXCEPT ![c].leaving = FALSE]
    /\ clients' = clients \ {c} /\ subscribers' = subscribers \ {c}
    /\ UNCHANGED <<targets, closing>>

-----------------------------------------------------------------------------
(* Connecting *)

Admits(u) ==
    /\ ~closing.called
    /\ Cardinality(clients) < MaxConnections
    /\ Cardinality(Owned(u)) < MaxPerUser

(* The handshake registers the connection of an authenticated account. *)
Register(c, u) ==
    /\ sockets[c].stage = "new"
    /\ \/ /\ Admits(u)
          /\ sockets' = [sockets EXCEPT ![c].stage = "listed", ![c].owner = u]
          /\ clients' = clients \cup {c}
       \/ /\ ~Admits(u)
          /\ sockets' = [sockets EXCEPT ![c].stage = "refused"]
          /\ UNCHANGED clients
    /\ UNCHANGED <<subscribers, targets, closing>>

StartPumps(c) ==
    /\ sockets[c].stage = "listed"
    /\ sockets' = [sockets EXCEPT ![c].stage = "started", ![c].reading = TRUE,
                                  ![c].writing = TRUE]
    /\ UNCHANGED <<clients, subscribers, targets, closing>>

(* The hello is queued after the pumps run. *)
Hello(c) ==
    /\ sockets[c].stage = "started"
    /\ \E s \in Enqueued([sockets[c] EXCEPT !.stage = "greeted"]) :
           sockets' = [sockets EXCEPT ![c] = s]
    /\ UNCHANGED <<clients, subscribers, targets, closing>>

-----------------------------------------------------------------------------
(* The pumps *)

WritePump(c) ==
    /\ sockets[c].writing /\ sockets[c].queued > 0
    /\ sockets' = [sockets EXCEPT ![c].queued = @ - 1]
    /\ UNCHANGED <<clients, subscribers, targets, closing>>

(* A write or a heartbeat fails. *)
WriteFails(c) ==
    /\ sockets[c].writing
    /\ sockets' = [sockets EXCEPT ![c] = [Terminated(@) EXCEPT !.writing = FALSE]]
    /\ UNCHANGED <<clients, subscribers, targets, closing>>

(* done is closed: the pump sends the close frame and finishes. *)
StopWriting(c) ==
    /\ sockets[c].writing /\ sockets[c].done
    /\ sockets' = [sockets EXCEPT ![c].writing = FALSE]
    /\ UNCHANGED <<clients, subscribers, targets, closing>>

(* The connection fails, sends what is not text, or was closed. *)
StopReading(c) ==
    /\ sockets[c].reading
    /\ sockets' = [sockets EXCEPT ![c] = [Terminated(@) EXCEPT !.reading = FALSE]]
    /\ UNCHANGED <<clients, subscribers, targets, closing>>

-----------------------------------------------------------------------------
(* Messages *)

(* A ping, an unknown type or a registered handler: one answer is queued. *)
AnswerMessage(c) ==
    /\ sockets[c].reading /\ Enqueue(c)
    /\ UNCHANGED <<clients, subscribers, targets, closing>>

(* Subscribing is refused once the connection is unregistered. *)
Subscribed(c) == IF c \in clients THEN subscribers \cup {c} ELSE subscribers

(* The index is changed under the lock, the answer queued after it. *)
ChangeTopic(c) ==
    /\ sockets[c].reading /\ Enqueue(c)
    /\ \E next \in {Subscribed(c), subscribers \ {c}} : subscribers' = next
    /\ UNCHANGED <<clients, targets, closing>>

Publish ==
    /\ targets = {}
    /\ \E recipients \in {subscribers} \cup {Owned(u) : u \in Users} : targets' = recipients
    /\ UNCHANGED <<clients, subscribers, sockets, closing>>

Deliver(c) ==
    /\ c \in targets /\ targets' = targets \ {c}
    /\ Enqueue(c)
    /\ UNCHANGED <<clients, subscribers, closing>>

-----------------------------------------------------------------------------
(* Closing *)

Close ==
    /\ ~closing.called
    /\ closing' = [called |-> TRUE, stops |-> clients]
    /\ UNCHANGED <<clients, subscribers, sockets, targets>>

(* Close then waits until all of them finished. *)
CloseStops(c) ==
    /\ c \in closing.stops
    /\ sockets' = [sockets EXCEPT ![c] = Terminated(@)]
    /\ closing' = [closing EXCEPT !.stops = @ \ {c}]
    /\ UNCHANGED <<clients, subscribers, targets>>

-----------------------------------------------------------------------------
HubInit ==
    /\ clients = {} /\ subscribers = {} /\ targets = {}
    /\ sockets = [c \in Sockets |-> Unconnected]
    /\ closing = [called |-> FALSE, stops |-> {}]

HubNext ==
    \/ Publish \/ Close
    \/ \E c \in Sockets :
        \/ \E u \in Users : Register(c, u)
        \/ StartPumps(c) \/ Hello(c) \/ Unregister(c)
        \/ WritePump(c) \/ WriteFails(c) \/ StopWriting(c) \/ StopReading(c)
        \/ AnswerMessage(c) \/ ChangeTopic(c) \/ Deliver(c) \/ CloseStops(c)

(* The goroutines of a handshake, of a write pump, of Close and of whoever *)
(* terminates run; that a peer sends, reads or answers is not assumed.     *)
HubSpec == HubInit /\ [][HubNext]_hubVars
           /\ \A c \in Sockets : WF_hubVars(StartPumps(c)) /\ WF_hubVars(StopWriting(c))
                                 /\ WF_hubVars(CloseStops(c)) /\ WF_hubVars(Unregister(c))

-----------------------------------------------------------------------------
(* Properties *)

(* The state is well formed, the limits hold, and no topic names a         *)
(* connection that unregister took out: a read pump may subscribe while    *)
(* its connection is being terminated (hub.go, register and subscribe).    *)
HubTypeOK ==
    /\ subscribers \subseteq clients /\ clients \subseteq Sockets /\ targets \subseteq Sockets
    /\ Cardinality(clients) <= MaxConnections
    /\ \A u \in Users : Cardinality(Owned(u)) <= MaxPerUser
    /\ closing.called \in BOOLEAN /\ closing.stops \subseteq Sockets
    /\ \A c \in Sockets :
           /\ sockets[c].stage \in Stages /\ sockets[c].queued \in 0..QueueSize
           /\ sockets[c].leaving => sockets[c].done
           /\ (c \in clients) = (sockets[c].stage \notin {"new", "refused"}
                               /\ (sockets[c].done => sockets[c].leaving))

(* Once Close was called every connection that was ever registered         *)
(* finishes and leaves the hub, also one that Close terminated between     *)
(* its registration and the start of its pumps, so Close returns (hub.go,  *)
(* Close; bootstrap.go calls it without a deadline).                       *)
HubCloses ==
    closing.called ~>
        clients = {} /\ \A c \in Sockets : sockets[c].owner # "none" => Finished(sockets[c])
=============================================================================
