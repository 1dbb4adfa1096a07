------------------------------ MODULE RoomTable ------------------------------
(***************************************************************************)
(* A room and the hands that are started in it.                            *)
(*                                                                         *)
(* The room and its hands are separate aggregates, in rows of their own.   *)
(* Every command on either is one transaction (CommandLedger models how),  *)
(* so it is one step here, and a command that the aggregate refuses is no  *)
(* step.  A command that was prepared for another version of its aggregate *)
(* is refused, whatever it asks, which leaves the versions out of this     *)
(* module.  Between its creation and DEALING a hand collects contributions *)
(* (module FairDeal); here it passes through those phases.                 *)
(***************************************************************************)
EXTENDS Naturals, FiniteSets

CONSTANTS
    Accounts,  \* the players that use the room
    Owner,     \* the account that created it
    HandIDs    \* the IDs under which hands may be started

ASSUME OwnerAssumption == Owner \in Accounts
ASSUME RoomNamesAssumption == "none" \notin Accounts \cup HandIDs

VARIABLES
    room,     \* the doudizhu_rooms row
    handRows,  \* the doudizhu_hands rows
    archives  \* the hands whose live game was started, and will be archived

roomVars == <<room, handRows, archives>>

-----------------------------------------------------------------------------
(* Values *)

Seats    == 1 .. 3
PreDeal  == {"FAIRNESS_COMMITTING", "FAIRNESS_REVEALING", "WAITING_PUBLIC_BEACON", "DEALING"}
InPlay   == {"BIDDING", "PLAYING", "SETTLING"}
Ended    == {"COMPLETED", "CANCELLED", "ABORTED", "EXPIRED"}

EmptySeat   == [account |-> "none", ready |-> FALSE]
Unstarted   == [phase |-> "none", seats |-> [i \in Seats |-> "none"]]
Started(h)  == handRows[h].phase # "none"

Occupied(seats) == {i \in Seats : seats[i].account # "none"}
SeatsOf(a)      == {i \in Seats : room.seats[i].account = a}
AllReady(seats) == \A i \in Seats : seats[i].account # "none" /\ seats[i].ready

(* recalculateStatus: outside a closed room the status follows the seats   *)
(* and the active hand.                                                    *)
StatusOf(seats, active) ==
    IF active # "none" THEN "HAND_ACTIVE"
    ELSE IF AllReady(seats) THEN "READY" ELSE "WAITING_PLAYERS"

RoomWith(seats, active, last) ==
    [status |-> StatusOf(seats, active), seats |-> seats, active |-> active, last |-> last]

-----------------------------------------------------------------------------
(* The seats *)

(* Variant: a room that plays a hand takes seat commands too. *)
OpenDuringHand == room.status \in {"WAITING_PLAYERS", "READY", "HAND_ACTIVE"}

Open == room.status \in {"WAITING_PLAYERS", "READY"}

CreateRoom ==
    /\ room.status = "NONE"
    /\ room' = RoomWith([i \in Seats |-> IF i = 1 THEN [account |-> Owner, ready |-> FALSE]
                                                  ELSE EmptySeat], "none", "none")
    /\ UNCHANGED <<handRows, archives>>

(* The first free seat, for an account that has none. *)
Join(a) ==
    /\ Open
    /\ SeatsOf(a) = {}
    /\ \E i \in Seats \ Occupied(room.seats) :
        /\ \A j \in Seats \ Occupied(room.seats) : i <= j
        /\ room' = RoomWith([room.seats EXCEPT ![i] = [account |-> a, ready |-> FALSE]],
                            room.active, room.last)
    /\ UNCHANGED <<handRows, archives>>

Vacated(seats, i) == [seats EXCEPT ![i] = EmptySeat]
Closed(seats)     == [status |-> "CLOSED", seats |-> seats, active |-> "none", last |-> room.last]

(* The owner may only leave an otherwise empty room, which closes it. *)
Leave(a) ==
    /\ Open
    /\ \E i \in SeatsOf(a) :
        IF a = Owner
        THEN Occupied(room.seats) = {i} /\ room' = Closed(Vacated(room.seats, i))
        ELSE room' = RoomWith(Vacated(room.seats, i), room.active, room.last)
    /\ UNCHANGED <<handRows, archives>>

SetReady(a, ready) ==
    /\ Open
    /\ \E i \in SeatsOf(a) :
        /\ room.seats[i].ready # ready
        /\ room' = RoomWith([room.seats EXCEPT ![i] = [account |-> a, ready |-> ready]],
                            room.active, room.last)
    /\ UNCHANGED <<handRows, archives>>

-----------------------------------------------------------------------------
(* Hands *)

Unready(seats) == [i \in Seats |-> [account |-> seats[i].account, ready |-> FALSE]]

(* InsertHand refuses an ID that was used before, and with it the whole    *)
(* transaction.                                                            *)
Insertable(h) == ~Started(h)

(* StartRoomHand: the hand takes the players of a READY room, and the room *)
(* forgets who was ready.                                                  *)
StartHand(h) ==
    /\ room.status = "READY"
    /\ Insertable(h)
    /\ handRows' = [handRows EXCEPT ![h] = [phase |-> "FAIRNESS_COMMITTING",
                                     seats |-> [i \in Seats |-> room.seats[i].account]]]
    /\ room' = RoomWith(Unready(room.seats), h, room.last)
    /\ UNCHANGED archives

InPhase(h, phase) == [handRows EXCEPT ![h] = [phase |-> phase, seats |-> handRows[h].seats]]

(* Variant: a phase the schema does not know. *)
NextPhasesMisnamed(phase) ==
    CASE phase = "FAIRNESS_COMMITTING" -> {"WAITING_BEACON"}
      [] phase = "DEALING"             -> {}
      [] OTHER                         -> {}

(* Commands on the hand alone: contributions, the beacon lock, the start   *)
(* of play and of settlement.  Custodied contributions skip REVEALING.     *)
NextPhases(phase) ==
    CASE phase = "FAIRNESS_COMMITTING"   -> {"FAIRNESS_REVEALING", "WAITING_PUBLIC_BEACON"}
      [] phase = "FAIRNESS_REVEALING"    -> {"WAITING_PUBLIC_BEACON"}
      [] phase = "WAITING_PUBLIC_BEACON" -> {"DEALING"}
      [] phase = "BIDDING"               -> {"PLAYING"}
      [] phase = "PLAYING"               -> {"SETTLING"}
      [] OTHER                           -> {}

AdvanceHand(h) ==
    /\ \E phase \in NextPhases(handRows[h].phase) : handRows' = InPhase(h, phase)
    /\ UNCHANGED <<room, archives>>

(* MarkHandDealt starts the live game in the same command. *)
DealHand(h) ==
    /\ handRows[h].phase = "DEALING"
    /\ handRows' = InPhase(h, "BIDDING")
    /\ archives' = archives \cup {h}
    /\ UNCHANGED room

(* The phases the commands that end a hand accept: CompleteHand after the  *)
(* settlement, CancelHand before the deal, AbortHand at any time, and      *)
(* ExpireHand from the turn timers of a dealt hand.                        *)
EndsFrom(to) ==
    CASE to = "COMPLETED" -> {"SETTLING"}
      [] to = "CANCELLED" -> PreDeal \ {"DEALING"}
      [] to = "EXPIRED"   -> InPlay
      [] OTHER            -> PreDeal \cup InPlay

(* A hand stopped before the deal has no archive; the room then forgets    *)
(* the previous hand too.                                                  *)
LastHand(h, phase) == IF phase \in InPlay THEN h ELSE "none"

(* terminateHand: the hand ends and FinishHand releases its room in one    *)
(* transaction, which fails when the room does not play that hand.         *)
EndHand(h, to) ==
    /\ handRows[h].phase \in EndsFrom(to)
    /\ room.active = h
    /\ handRows' = InPhase(h, to)
    /\ room' = RoomWith(room.seats, "none", LastHand(h, handRows[h].phase))
    /\ UNCHANGED archives

-----------------------------------------------------------------------------
RoomInit ==
    /\ room = [status |-> "NONE", seats |-> [i \in Seats |-> EmptySeat],
               active |-> "none", last |-> "none"]
    /\ handRows = [h \in HandIDs |-> Unstarted]
    /\ archives = {}

RoomNext ==
    \/ CreateRoom
    \/ \E a \in Accounts : Join(a) \/ Leave(a) \/ \E ready \in BOOLEAN : SetReady(a, ready)
    \/ \E h \in HandIDs :
        \/ StartHand(h) \/ AdvanceHand(h) \/ DealHand(h)
        \/ \E to \in Ended : EndHand(h, to)

RoomSpec == RoomInit /\ [][RoomNext]_roomVars

-----------------------------------------------------------------------------
(* Properties *)

RoomTypeOK ==
    /\ room \in [status : {"NONE", "WAITING_PLAYERS", "READY", "HAND_ACTIVE", "CLOSED"},
                 seats : [Seats -> [account : Accounts \cup {"none"}, ready : BOOLEAN]],
                 active : HandIDs \cup {"none"}, last : HandIDs \cup {"none"}]
    /\ handRows \in [HandIDs -> [phase : PreDeal \cup InPlay \cup Ended \cup {"none"},
                             seats : [Seats -> Accounts \cup {"none"}]]]
    /\ archives \subseteq HandIDs

(* validateRoomSnapshotState *)
ValidRoomState(r) ==
    /\ r.status = "HAND_ACTIVE" => r.active # "none" /\ Occupied(r.seats) = Seats
    /\ r.status = "READY" => r.active = "none" /\ AllReady(r.seats)
    /\ r.status = "WAITING_PLAYERS" => r.active = "none" /\ ~AllReady(r.seats)
    /\ r.status = "CLOSED" => r.active = "none" /\ Occupied(r.seats) = {}

(* RestoreRoom, which every command runs on the snapshot it loads. *)
RestoreRoom(r) ==
    /\ \A i \in Seats : r.seats[i].ready => r.seats[i].account # "none"
    /\ \A i, j \in Occupied(r.seats) : i # j => r.seats[i].account # r.seats[j].account
    /\ r.status # "CLOSED" => r.seats[1].account = Owner
    /\ ValidRoomState(r)

(* No sequence of legal commands bricks a room: every snapshot they store  *)
(* is one the next command can restore.                                    *)
RoomRestores == room.status # "NONE" => RestoreRoom(room)

(* The hand a room plays is its only hand that has not ended, and is       *)
(* played by the accounts that sit there.                                  *)
ActiveHandIsSeated ==
    /\ {h \in HandIDs : Started(h) /\ handRows[h].phase \notin Ended} = {room.active} \ {"none"}
    /\ room.active # "none" =>
           \A i \in Seats : handRows[room.active].seats[i] = room.seats[i].account

(* The hand a room shows as its last one has a final archive: it was dealt *)
(* and it ended.                                                           *)
LastHandIsArchived ==
    room.last # "none" => room.last \in archives /\ handRows[room.last].phase \in Ended

(* The two aggregates agree, although commands of players, the dealer and  *)
(* the supervisor change them in any order.                                *)
RoomAgreesWithHands == ActiveHandIsSeated /\ LastHandIsArchived
=============================================================================
