-------------------------- MODULE AggregateProofs ---------------------------
(***************************************************************************)
(* Proofs about RoomTable and FairDeal, for any accounts and any hands.    *)
(*                                                                         *)
(* RoomTable: the agreement of the two aggregates is nearly inductive.  It *)
(* needs what the rows say of themselves: that a room which takes seat     *)
(* commands plays no hand, which is part of what RestoreRoom checks, and   *)
(* that a hand past its deal has an archive.                               *)
(*                                                                         *)
(* FairDeal: what a phase says of the contributions is inductive once the  *)
(* contributions in flight are known to fit the mode of their hand, and a  *)
(* hand that kept the version the dealer loaded to have kept its phase.    *)
(***************************************************************************)
EXTENDS Aggregates, FiniteSetTheorems, SequenceTheorems, TLAPS

SeatRecords == [account : Accounts \cup {"none"}, ready : BOOLEAN]
RoomRecords == [status : {"NONE", "WAITING_PLAYERS", "READY", "HAND_ACTIVE", "CLOSED"},
                seats : [Seats -> SeatRecords],
                active : HandIDs \cup {"none"}, last : HandIDs \cup {"none"}]
HandRecords == [phase : PreDeal \cup InPlay \cup Ended \cup {"none"},
                seats : [Seats -> Accounts \cup {"none"}]]

(* The seats of a room that is not closed. *)
SeatedWell(seats) ==
    /\ \A i \in Seats : seats[i].ready => seats[i].account # "none"
    /\ \A i, j \in Seats :
           i # j /\ seats[i].account # "none" => seats[i].account # seats[j].account
    /\ seats[1].account = Owner

(* What is stored of the room, which begins with a row that is not there. *)
RoomIsSound ==
    IF room.status = "NONE" THEN room.active = "none" ELSE RestoreRoom(room)

Playing(h) == handRows[h].phase \notin Ended \cup {"none"}

OneHandPlays == \A h \in HandIDs : Playing(h) <=> room.active = h

PlayersSit ==
    room.active # "none" => \A i \in Seats : handRows[room.active].seats[i] = room.seats[i].account

DealtAreArchived == \A h \in HandIDs : handRows[h].phase \in InPlay => h \in archives

RoomInv ==
    RoomTypeOK /\ RoomIsSound /\ OneHandPlays /\ PlayersSit /\ LastHandIsArchived /\ DealtAreArchived

-----------------------------------------------------------------------------
LEMMA RoomKnown ==
    ASSUME RoomInv
    PROVE  /\ room \in RoomRecords /\ handRows \in [HandIDs -> HandRecords] /\ archives \subseteq HandIDs
           /\ room.seats \in [Seats -> SeatRecords] /\ room.active \in HandIDs \cup {"none"}
           /\ room.last \in HandIDs \cup {"none"} /\ RoomIsSound /\ OneHandPlays /\ PlayersSit
           /\ LastHandIsArchived /\ DealtAreArchived
  BY DEF RoomInv, RoomTypeOK, RoomRecords, HandRecords, SeatRecords

(* Outside its hands a room plays none, and its seats are in order. *)
LEMMA OpenRooms ==
    ASSUME RoomInv, Open
    PROVE  room.active = "none" /\ SeatedWell(room.seats)
<1>1. RestoreRoom(room) /\ room.status \in {"WAITING_PLAYERS", "READY"}
  BY RoomKnown DEF RoomIsSound, Open
<1>2. room.active = "none"
  BY <1>1 DEF RestoreRoom, ValidRoomState
<1>3. SeatedWell(room.seats)
  BY <1>1 DEF RestoreRoom, SeatedWell, Occupied
<1> QED
  BY <1>2, <1>3

(* recalculateStatus gives every room a status it can be restored with. *)
LEMMA StatusFits ==
    ASSUME NEW seats \in [Seats -> SeatRecords], SeatedWell(seats),
           NEW active \in HandIDs \cup {"none"}, NEW last \in HandIDs \cup {"none"},
           active # "none" => Occupied(seats) = Seats
    PROVE  LET r == RoomWith(seats, active, last)
           IN  /\ r \in RoomRecords /\ RestoreRoom(r) /\ r.status # "NONE"
               /\ r.seats = seats /\ r.active = active /\ r.last = last
<1> DEFINE r == RoomWith(seats, active, last)
<1>1. r.seats = seats /\ r.active = active /\ r.last = last /\ r.status = StatusOf(seats, active)
  BY DEF RoomWith
<1>2. r \in RoomRecords /\ r.status # "NONE" /\ r.status # "CLOSED"
  BY DEF RoomWith, StatusOf, RoomRecords
<1>3. ValidRoomState(r)
  BY <1>1 DEF ValidRoomState, StatusOf
<1> HIDE DEF r
<1>4. RestoreRoom(r)
  BY <1>1, <1>2, <1>3 DEF RestoreRoom, SeatedWell, Occupied
<1> QED
  BY <1>1, <1>2, <1>4 DEF r

LEMMA RoomStarts == RoomInit => RoomInv
<1> SUFFICES ASSUME RoomInit PROVE RoomInv
  OBVIOUS
<1>1. /\ room.status = "NONE" /\ room.active = "none" /\ room.last = "none"
      /\ \A h \in HandIDs : handRows[h].phase = "none"
  BY DEF RoomInit, Unstarted
<1>2. room \in RoomRecords /\ handRows \in [HandIDs -> HandRecords] /\ archives \subseteq HandIDs
  BY DEF RoomInit, Unstarted, EmptySeat, RoomRecords, SeatRecords, HandRecords
<1>3. RoomTypeOK
  BY <1>2 DEF RoomTypeOK, RoomRecords, SeatRecords, HandRecords
<1>4. OneHandPlays
  BY <1>1, RoomNamesAssumption DEF OneHandPlays, Playing
<1> QED
  BY <1>1, <1>3, <1>4 DEF RoomInv, RoomIsSound, PlayersSit, LastHandIsArchived, DealtAreArchived, InPlay

-----------------------------------------------------------------------------
(* Commands on the room alone. *)
LEMMA SeatsMove ==
    ASSUME RoomInv, room' \in RoomRecords, RestoreRoom(room'), room'.status # "NONE",
           room.active = "none", room'.active = "none", room'.last \in {room.last, "none"},
           UNCHANGED <<handRows, archives>>
    PROVE  RoomInv'
<1>1. RoomTypeOK'
  BY RoomKnown DEF RoomTypeOK, RoomRecords, HandRecords, SeatRecords
<1>2. RoomIsSound'
  BY DEF RoomIsSound, RestoreRoom, ValidRoomState, Occupied, AllReady
<1>3. OneHandPlays' /\ PlayersSit'
  BY RoomKnown DEF OneHandPlays, Playing, PlayersSit
<1>4. LastHandIsArchived' /\ DealtAreArchived'
  BY RoomKnown DEF LastHandIsArchived, DealtAreArchived
<1> QED
  BY <1>1, <1>2, <1>3, <1>4 DEF RoomInv

LEMMA SeatsChange ==
    ASSUME RoomInv, room.active = "none", NEW seats \in [Seats -> SeatRecords], SeatedWell(seats),
           room' = RoomWith(seats, "none", room.last), UNCHANGED <<handRows, archives>>
    PROVE  RoomInv'
<1> DEFINE r == RoomWith(seats, "none", room.last)
<1>1. /\ r \in RoomRecords /\ RestoreRoom(r) /\ r.status # "NONE" /\ r.active = "none"
      /\ r.last = room.last
  BY StatusFits, RoomKnown
<1> QED
  BY <1>1, SeatsMove

LEMMA CreateRoomKeeps == ASSUME RoomInv, CreateRoom PROVE RoomInv'
<1> DEFINE seats == [i \in Seats |-> IF i = 1 THEN [account |-> Owner, ready |-> FALSE] ELSE EmptySeat]
<1>1. seats \in [Seats -> SeatRecords] /\ SeatedWell(seats)
  BY OwnerAssumption, RoomNamesAssumption DEF EmptySeat, SeatRecords, SeatedWell, Seats
<1>2. room.active = "none"
  BY RoomKnown DEF CreateRoom, RoomIsSound
<1>3. room' = RoomWith(seats, "none", "none") /\ UNCHANGED <<handRows, archives>>
  BY DEF CreateRoom
<1> DEFINE r == RoomWith(seats, "none", "none")
<1> HIDE DEF seats
<1>4. r \in RoomRecords /\ RestoreRoom(r) /\ r.status # "NONE" /\ r.active = "none" /\ r.last = "none"
  BY <1>1, StatusFits
<1> QED
  BY <1>2, <1>3, <1>4, SeatsMove

LEMMA JoinKeeps == ASSUME RoomInv, NEW a \in Accounts, Join(a) PROVE RoomInv'
<1> USE RoomKnown
<1>1. PICK i \in Seats \ Occupied(room.seats) :
        room' = RoomWith([room.seats EXCEPT ![i] = [account |-> a, ready |-> FALSE]], room.active, room.last)
  BY DEF Join
<1> DEFINE seats == [room.seats EXCEPT ![i] = [account |-> a, ready |-> FALSE]]
<1>2. room.active = "none" /\ SeatedWell(room.seats)
  BY OpenRooms DEF Join
<1>3. room.seats[i].account = "none" /\ \A j \in Seats : room.seats[j].account # a
  BY <1>1 DEF Join, SeatsOf, Occupied
<1>4. seats \in [Seats -> SeatRecords]
  BY <1>1 DEF SeatRecords
<1>5. SeatedWell(seats)
  <2>1. \A j \in Seats : seats[j] = IF j = i THEN [account |-> a, ready |-> FALSE] ELSE room.seats[j]
    BY <1>1
  <2>2. i # 1 /\ a # "none"
    BY <1>2, <1>3, OwnerAssumption, RoomNamesAssumption DEF SeatedWell
  <2>3. 1 \in Seats
    BY DEF Seats
  <2> HIDE DEF seats
  <2> QED
    BY <1>2, <1>3, <2>1, <2>2, <2>3 DEF SeatedWell
<1> HIDE DEF seats
<1> QED
  BY <1>1, <1>2, <1>4, <1>5, SeatsChange DEF Join, seats

LEMMA SetReadyKeeps ==
    ASSUME RoomInv, NEW a \in Accounts, NEW ready \in BOOLEAN, SetReady(a, ready)
    PROVE  RoomInv'
<1> USE RoomKnown
<1>1. PICK i \in SeatsOf(a) :
        room' = RoomWith([room.seats EXCEPT ![i] = [account |-> a, ready |-> ready]], room.active, room.last)
  BY DEF SetReady
<1> DEFINE seats == [room.seats EXCEPT ![i] = [account |-> a, ready |-> ready]]
<1>2. room.active = "none" /\ SeatedWell(room.seats)
  BY OpenRooms DEF SetReady
<1>3. i \in Seats /\ room.seats[i].account = a /\ a # "none"
  BY <1>1, RoomNamesAssumption DEF SeatsOf
<1>4. seats \in [Seats -> SeatRecords]
  BY <1>3 DEF SeatRecords
<1>5. SeatedWell(seats)
  <2>1. \A j \in Seats : seats[j].account = room.seats[j].account /\ (j # i => seats[j] = room.seats[j])
    BY <1>3
  <2>2. 1 \in Seats
    BY DEF Seats
  <2> HIDE DEF seats
  <2> QED
    BY <1>2, <1>3, <2>1, <2>2 DEF SeatedWell
<1> HIDE DEF seats
<1> QED
  BY <1>1, <1>2, <1>4, <1>5, SeatsChange DEF SetReady, seats

(* The owner leaves a room that is empty then; another player does not sit *)
(* at the owner's seat.                                                    *)
LEMMA LeaveKeeps == ASSUME RoomInv, NEW a \in Accounts, Leave(a) PROVE RoomInv'
<1> USE RoomKnown
<1>1. PICK i \in SeatsOf(a) :
        IF a = Owner
        THEN Occupied(room.seats) = {i} /\ room' = Closed(Vacated(room.seats, i))
        ELSE room' = RoomWith(Vacated(room.seats, i), room.active, room.last)
  BY DEF Leave
<1> DEFINE seats == Vacated(room.seats, i)
<1>2. room.active = "none" /\ SeatedWell(room.seats) /\ UNCHANGED <<handRows, archives>>
  BY OpenRooms DEF Leave
<1>3. i \in Seats /\ room.seats[i].account = a /\ a # "none"
  BY <1>1, RoomNamesAssumption DEF SeatsOf
<1>4. seats \in [Seats -> SeatRecords]
  BY <1>3 DEF Vacated, EmptySeat, SeatRecords
<1>5. \A j \in Seats : seats[j] = IF j = i THEN EmptySeat ELSE room.seats[j]
  BY <1>3 DEF Vacated
<1>6. EmptySeat.account = "none" /\ ~EmptySeat.ready
  BY DEF EmptySeat
<1> HIDE DEF seats
<1>7. CASE a # Owner
  <2>1. i # 1 /\ 1 \in Seats
    BY <1>2, <1>3, <1>7 DEF SeatedWell, Seats
  <2>2. SeatedWell(seats)
    BY <1>2, <1>5, <1>6, <2>1 DEF SeatedWell
  <2> QED
    BY <1>1, <1>2, <1>4, <1>7, <2>2, SeatsChange DEF seats
<1>8. CASE a = Owner
  <2> DEFINE r == Closed(seats)
  <2>1. room' = r /\ Occupied(seats) = {} /\ \A j \in Seats : ~seats[j].ready
    BY <1>1, <1>2, <1>5, <1>6, <1>8 DEF Occupied, SeatedWell, seats
  <2>2. r.status = "CLOSED" /\ r.seats = seats /\ r.active = "none" /\ r.last = room.last
    BY DEF Closed
  <2>3. r \in RoomRecords
    BY <1>4 DEF Closed, RoomRecords
  <2> HIDE DEF r
  <2>4. RestoreRoom(r)
    BY <2>1, <2>2 DEF RestoreRoom, ValidRoomState
  <2> QED
    BY <1>2, <2>1, <2>2, <2>3, <2>4, SeatsMove
<1> QED
  BY <1>7, <1>8

-----------------------------------------------------------------------------
(* Commands on a hand.  Its row gets another phase and keeps its players.  *)
LEMMA PhaseChanges ==
    ASSUME RoomInv, NEW h \in HandIDs, NEW phase \in PreDeal \cup InPlay \cup Ended \cup {"none"},
           handRows' = InPhase(h, phase)
    PROVE  /\ handRows' \in [HandIDs -> HandRecords] /\ handRows'[h].phase = phase
           /\ handRows'[h].seats = handRows[h].seats
           /\ \A g \in HandIDs : g # h => handRows'[g] = handRows[g]
<1>1. /\ handRows \in [HandIDs -> HandRecords] /\ handRows[h].seats \in [Seats -> Accounts \cup {"none"}]
  BY RoomKnown DEF HandRecords
<1> DEFINE row == [phase |-> phase, seats |-> handRows[h].seats]
<1>2. row \in HandRecords /\ row.phase = phase /\ row.seats = handRows[h].seats
  BY <1>1 DEF HandRecords
<1>3. handRows' = [handRows EXCEPT ![h] = row]
  BY DEF InPhase
<1> HIDE DEF row
<1> QED
  BY <1>1, <1>2, <1>3

(* A hand that goes on. *)
LEMMA HandMoves ==
    ASSUME RoomInv, NEW h \in HandIDs, NEW phase \in PreDeal \cup InPlay, Playing(h),
           handRows' = InPhase(h, phase), archives' \in SUBSET HandIDs, archives \subseteq archives',
           phase \in InPlay => h \in archives', UNCHANGED room
    PROVE  RoomInv'
<1> USE RoomKnown
<1>0. phase \notin Ended \cup {"none"}
  BY DEF PreDeal, InPlay, Ended
<1>1. /\ handRows' \in [HandIDs -> HandRecords] /\ handRows'[h].phase = phase
      /\ handRows'[h].seats = handRows[h].seats
      /\ \A g \in HandIDs : g # h => handRows'[g] = handRows[g]
  BY PhaseChanges
<1>2. RoomTypeOK'
  BY <1>1 DEF RoomTypeOK, RoomRecords, HandRecords, SeatRecords
<1>3. OneHandPlays'
  BY <1>0, <1>1 DEF OneHandPlays, Playing
<1>4. PlayersSit'
  BY <1>1 DEF PlayersSit
<1>5. LastHandIsArchived'
  BY <1>1 DEF LastHandIsArchived, Playing
<1>6. DealtAreArchived'
  BY <1>1 DEF DealtAreArchived
<1>7. RoomIsSound'
  BY DEF RoomIsSound, RestoreRoom, ValidRoomState, Occupied, AllReady
<1> QED
  BY <1>2, <1>3, <1>4, <1>5, <1>6, <1>7 DEF RoomInv

LEMMA AdvanceHandKeeps == ASSUME RoomInv, NEW h \in HandIDs, AdvanceHand(h) PROVE RoomInv'
<1>1. PICK phase \in NextPhases(handRows[h].phase) : handRows' = InPhase(h, phase)
  BY DEF AdvanceHand
<1>2. /\ phase \in PreDeal \cup InPlay /\ Playing(h)
      /\ phase \in InPlay => handRows[h].phase \in InPlay
  BY <1>1 DEF NextPhases, PreDeal, InPlay, Ended, Playing
<1>3. UNCHANGED <<room, archives>> /\ archives \in SUBSET HandIDs
  BY RoomKnown DEF AdvanceHand
<1>4. phase \in InPlay => h \in archives'
  BY <1>2, <1>3, RoomKnown DEF DealtAreArchived
<1> QED
  BY <1>1, <1>2, <1>3, <1>4, HandMoves

LEMMA DealHandKeeps == ASSUME RoomInv, NEW h \in HandIDs, DealHand(h) PROVE RoomInv'
<1>1. Playing(h) /\ "BIDDING" \in PreDeal \cup InPlay /\ handRows' = InPhase(h, "BIDDING") /\ UNCHANGED room
  BY DEF DealHand, Playing, Ended, InPlay
<1>2. archives' \in SUBSET HandIDs /\ archives \subseteq archives' /\ h \in archives'
  BY RoomKnown DEF DealHand
<1> QED
  BY <1>1, <1>2, HandMoves

(* Seat commands and hands both change the room's row.  What a step on     *)
(* both has to show.                                                       *)
LEMMA BothMove ==
    ASSUME RoomInv, NEW h \in HandIDs, handRows' \in [HandIDs -> HandRecords],
           NEW seats \in [Seats -> SeatRecords], SeatedWell(seats), Occupied(seats) = Seats,
           NEW active \in HandIDs \cup {"none"}, NEW last \in HandIDs \cup {"none"},
           room' = RoomWith(seats, active, last), UNCHANGED archives,
           \A g \in HandIDs : g # h => handRows'[g] = handRows[g] /\ ~Playing(g) /\ active # g,
           Playing(h)' <=> active = h,
           active = h => \A i \in Seats : handRows'[h].seats[i] = seats[i].account,
           last # "none" => last \in archives /\ handRows'[last].phase \in Ended,
           handRows'[h].phase \in InPlay => h \in archives
    PROVE  RoomInv'
<1> DEFINE r == RoomWith(seats, active, last)
<1>1. /\ r \in RoomRecords /\ RestoreRoom(r) /\ r.status # "NONE" /\ r.seats = seats
      /\ r.active = active /\ r.last = last
  <2>1. RestoreRoom(r) /\ r \in RoomRecords
    BY StatusFits
  <2>2. r.seats = seats /\ r.active = active /\ r.last = last /\ r.status # "NONE"
    BY DEF RoomWith, StatusOf
  <2> QED
    BY <2>1, <2>2
<1>2. room' = r
  OBVIOUS
<1> HIDE DEF r
<1> USE RoomKnown
<1>3. RoomTypeOK'
  BY <1>1, <1>2 DEF RoomTypeOK, RoomRecords, HandRecords, SeatRecords
<1>4. RoomIsSound'
  BY <1>1, <1>2 DEF RoomIsSound, RestoreRoom, ValidRoomState, Occupied, AllReady
<1>5. OneHandPlays'
  <2> SUFFICES ASSUME NEW g \in HandIDs PROVE Playing(g)' <=> active = g
    BY <1>1, <1>2 DEF OneHandPlays
  <2> QED
    BY DEF Playing
<1>6. PlayersSit'
  <2>1. active \in {h, "none"}
    OBVIOUS
  <2> QED
    BY <1>1, <1>2, <2>1 DEF PlayersSit
<1>7. LastHandIsArchived'
  BY <1>1, <1>2 DEF LastHandIsArchived
<1>8. DealtAreArchived'
  BY DEF DealtAreArchived
<1> QED
  BY <1>3, <1>4, <1>5, <1>6, <1>7, <1>8 DEF RoomInv

LEMMA StartHandKeeps == ASSUME RoomInv, NEW h \in HandIDs, StartHand(h) PROVE RoomInv'
<1> USE RoomKnown
<1> DEFINE seats == Unready(room.seats)
           row   == [phase |-> "FAIRNESS_COMMITTING", seats |-> [i \in Seats |-> room.seats[i].account]]
<1>1. room.active = "none" /\ SeatedWell(room.seats) /\ AllReady(room.seats)
  BY OpenRooms DEF StartHand, Open, RoomIsSound, RestoreRoom, ValidRoomState
<1>2. seats \in [Seats -> SeatRecords]
  BY DEF Unready, SeatRecords
<1>3. \A i \in Seats : seats[i].account = room.seats[i].account /\ ~seats[i].ready
  BY DEF Unready
<1>4. /\ row \in HandRecords /\ row.phase = "FAIRNESS_COMMITTING"
      /\ \A i \in Seats : row.seats[i] = room.seats[i].account
  BY DEF HandRecords, SeatRecords, PreDeal
<1>5. handRows' = [handRows EXCEPT ![h] = row] /\ room' = RoomWith(seats, h, room.last) /\ UNCHANGED archives
  BY DEF StartHand
<1> HIDE DEF seats, row
<1>6. SeatedWell(seats) /\ Occupied(seats) = Seats
  <2>1. 1 \in Seats
    BY DEF Seats
  <2> QED
    BY <1>1, <1>3, <2>1 DEF SeatedWell, Occupied, AllReady
<1>7. /\ handRows' \in [HandIDs -> HandRecords] /\ handRows'[h] = row
      /\ \A g \in HandIDs : g # h => handRows'[g] = handRows[g]
  BY <1>4, <1>5
<1>8. \A g \in HandIDs : ~Playing(g)
  BY <1>1, RoomNamesAssumption DEF OneHandPlays
<1>9. Playing(h)' /\ handRows'[h].phase \notin InPlay
  BY <1>4, <1>7 DEF Playing, Ended, InPlay
<1>10. ASSUME room.last # "none" PROVE room.last \in archives /\ handRows'[room.last].phase \in Ended
  <2>1. room.last # h
    BY <1>10 DEF LastHandIsArchived, StartHand, Insertable, Started, Ended
  <2> QED
    BY <1>7, <1>10, <2>1 DEF LastHandIsArchived
<1> QED
  BY <1>2, <1>3, <1>4, <1>5, <1>6, <1>7, <1>8, <1>9, <1>10, BothMove

(* The hand that ends is the room's; it is its last one if it was dealt.   *)
LEMMA EndHandKeeps == ASSUME RoomInv, NEW h \in HandIDs, NEW to \in Ended, EndHand(h, to) PROVE RoomInv'
<1> USE RoomKnown
<1> DEFINE last == LastHand(h, handRows[h].phase)
<1>1. room.active = h /\ h # "none" /\ RestoreRoom(room)
  BY RoomNamesAssumption DEF EndHand, RoomIsSound
<1>2. SeatedWell(room.seats) /\ Occupied(room.seats) = Seats
  <2>1. room.status = "HAND_ACTIVE"
    BY <1>1 DEF RestoreRoom, ValidRoomState, RoomRecords, RoomIsSound
  <2> QED
    BY <1>1, <2>1 DEF RestoreRoom, ValidRoomState, SeatedWell, Occupied
<1>3. handRows' = InPhase(h, to) /\ room' = RoomWith(room.seats, "none", last) /\ UNCHANGED archives
  BY DEF EndHand
<1>4. /\ handRows' \in [HandIDs -> HandRecords] /\ handRows'[h].phase = to
      /\ \A g \in HandIDs : g # h => handRows'[g] = handRows[g]
  BY <1>3, PhaseChanges
<1>5. last \in HandIDs \cup {"none"} /\ (last # "none" => last = h /\ h \in archives)
  BY DEF LastHand, DealtAreArchived
<1> HIDE DEF last
<1>6. \A g \in HandIDs : g # h => ~Playing(g) /\ "none" # g
  BY <1>1, RoomNamesAssumption DEF OneHandPlays
<1>7. ~Playing(h)' /\ handRows'[h].phase \notin InPlay
  BY <1>4 DEF Playing, Ended, InPlay
<1>8. last # "none" => last \in archives /\ handRows'[last].phase \in Ended
  BY <1>4, <1>5
<1> QED
  BY <1>1, <1>2, <1>3, <1>4, <1>5, <1>6, <1>7, <1>8, BothMove

-----------------------------------------------------------------------------
LEMMA RoomStutters == ASSUME RoomInv, UNCHANGED roomVars PROVE RoomInv'
<1>1. room' = room /\ handRows' = handRows /\ archives' = archives
  BY DEF roomVars
<1>2. RoomTypeOK' /\ RoomIsSound'
  BY <1>1 DEF RoomInv, RoomTypeOK, RoomIsSound, RestoreRoom, ValidRoomState, Occupied, AllReady
<1>3. OneHandPlays' /\ PlayersSit' /\ LastHandIsArchived' /\ DealtAreArchived'
  BY <1>1, RoomKnown DEF OneHandPlays, Playing, PlayersSit, LastHandIsArchived, DealtAreArchived
<1> QED
  BY <1>2, <1>3 DEF RoomInv

(* The invariant is inductive. *)
LEMMA RoomKept == RoomInv /\ [RoomNext]_roomVars => RoomInv'
<1> SUFFICES ASSUME RoomInv, [RoomNext]_roomVars PROVE RoomInv'
  OBVIOUS
<1>1. CASE CreateRoom
  BY <1>1, CreateRoomKeeps
<1>2. ASSUME NEW a \in Accounts, Join(a) \/ Leave(a) \/ \E ready \in BOOLEAN : SetReady(a, ready)
      PROVE  RoomInv'
  BY <1>2, JoinKeeps, LeaveKeeps, SetReadyKeeps
<1>3. ASSUME NEW h \in HandIDs,
             StartHand(h) \/ AdvanceHand(h) \/ DealHand(h) \/ \E to \in Ended : EndHand(h, to)
      PROVE  RoomInv'
  BY <1>3, StartHandKeeps, AdvanceHandKeeps, DealHandKeeps, EndHandKeeps
<1> QED
  BY <1>1, <1>2, <1>3, RoomStutters DEF RoomNext

(* Every state of the room and its hands satisfies the invariant: the      *)
(* transactions of the application service keep both rows sound.           *)
THEOREM RoomInvariant == RoomSpec => []RoomInv
<1>1. RoomInit => RoomInv
  BY RoomStarts
<1>2. RoomInv /\ [RoomNext]_roomVars => RoomInv'
  BY RoomKept
<1> QED
  BY <1>1, <1>2, PTL DEF RoomSpec

(* Type correctness of the rows of the room, its hands and their archives. *)
THEOREM RoomTypeCorrect == RoomSpec => []RoomTypeOK
<1>1. RoomInv => RoomTypeOK
  BY DEF RoomInv
<1> QED
  BY <1>1, RoomInvariant, PTL

(* RestoreRoom accepts every snapshot a command stored: no sequence of     *)
(* commands makes a room unreadable.                                       *)
THEOREM RoomsRestore == RoomSpec => []RoomRestores
<1>1. RoomInv => RoomRestores
  BY DEF RoomInv, RoomIsSound, RoomRestores
<1> QED
  BY <1>1, RoomInvariant, PTL

(* The hand a room plays is its only one that has not ended, is played by  *)
(* those that sit there, and the hand it shows as its last one was dealt   *)
(* and ended, for any number of accounts and hands.                        *)
THEOREM RoomAgrees == RoomSpec => []RoomAgreesWithHands
<1>1. RoomInv => RoomAgreesWithHands
  <2> SUFFICES ASSUME RoomInv PROVE RoomAgreesWithHands
    OBVIOUS
  <2> USE RoomKnown
  <2>1. \A h \in HandIDs : Started(h) /\ handRows[h].phase \notin Ended <=> room.active = h
    BY DEF OneHandPlays, Playing, Started
  <2>2. {h \in HandIDs : Started(h) /\ handRows[h].phase \notin Ended} = {room.active} \ {"none"}
    BY <2>1, RoomNamesAssumption
  <2> QED
    BY <2>2 DEF PlayersSit, ActiveHandIsSeated, RoomAgreesWithHands
<1> QED
  BY <1>1, RoomInvariant, PTL

-----------------------------------------------------------------------------
(* FairDeal.  Counts of players stand for sets of them: three committed    *)
(* players are all of them.                                                *)
Committed(hand) == {p \in Players : hand.given[p].committed}
Revealed(hand)  == {p \in Players : hand.given[p].revealed}

Contributions == [committed : BOOLEAN, revealed : BOOLEAN, at : Nat]
DealRecords == [phase : Fairness \cup {"none", "BIDDING", "ABORTED"}, mode : Modes,
                version : Nat, round : Nat, beacon : Nat, given : [Players -> Contributions]]
CallRecords == [kind : {"commit", "reveal", "contribution"}, hand : FairHands,
                player : Players, version : Nat, began : Nat]

(* What the phase of a hand says of its contributions and its beacon. *)
DealIsSound(hand) ==
    /\ Revealed(hand) \subseteq Committed(hand)
    /\ hand.phase = Committing =>
           /\ Committed(hand) # Players /\ hand.beacon = 0
           /\ Revealed(hand) = IF hand.mode = "client-custodied" THEN Committed(hand) ELSE {}
    /\ hand.phase = Revealing =>
           /\ hand.mode = "commit-reveal" /\ hand.beacon = 0
           /\ Committed(hand) = Players /\ Revealed(hand) # Players
    /\ hand.phase = Waiting => Revealed(hand) = Players /\ hand.beacon = 0
    /\ hand.phase \in {"DEALING", "BIDDING"} => Revealed(hand) = Players /\ hand.beacon = hand.round

Precedes(hand) == \A p \in Players : hand.given[p].committed => hand.given[p].at < hand.round

DealsAreSound == \A h \in FairHands : DealIsSound(deals[h]) /\ Precedes(deals[h])

(* The mode of a hand is chosen before anything is contributed to it. *)
CallFits(call) ==
    /\ deals[call.hand].phase # "none"
    /\ call.kind = "contribution" <=> deals[call.hand].mode = "client-custodied"

CallsFit == \A call \in calls : CallFits(call)

(* The phase in which the dealer issues a command. *)
Expects(pc) ==
    CASE pc = "lock"  -> {Waiting}
      [] pc = "deal"  -> {"DEALING"}
      [] OTHER        -> {Committing, Revealing}

(* A hand that still has the version the dealer loaded is still in the     *)
(* phase that the dealer saw.                                              *)
DealerIsCurrent ==
    /\ dealer.pc # "rest" => dealer.queue # <<>>
    /\ dealer.pc \in {"abort", "lock", "deal"} =>
           LET hand == deals[Head(dealer.queue)]
           IN  /\ dealer.version <= hand.version
               /\ dealer.version = hand.version => hand.phase \in Expects(dealer.pc)

DealInv == FairTypeOK /\ DealsAreSound /\ CallsFit /\ DealerIsCurrent

-----------------------------------------------------------------------------
LEMMA DealKnown ==
    ASSUME DealInv
    PROVE  /\ deals \in [FairHands -> DealRecords] /\ now \in Nat /\ calls \subseteq CallRecords
           /\ dealer.pc \in {"rest", "load", "abort", "lock", "deal"}
           /\ dealer.queue \in Seq(FairHands) /\ dealer.version \in Nat /\ dealer.failures \in Nat
           /\ undealable \subseteq Fragile
           /\ dealer = [pc |-> dealer.pc, queue |-> dealer.queue, version |-> dealer.version,
                        failures |-> dealer.failures]
           /\ \A h \in FairHands : DealIsSound(deals[h]) /\ Precedes(deals[h])
           /\ \A call \in calls : CallFits(call)
  BY DEF DealInv, FairTypeOK, DealRecords, CallRecords, Contributions, DealsAreSound, CallsFit

LEMMA DealTyped ==
    ASSUME deals' \in [FairHands -> DealRecords], now' \in Nat, calls' \subseteq CallRecords,
           dealer' \in [pc : {"rest", "load", "abort", "lock", "deal"}, queue : Seq(FairHands),
                        version : Nat, failures : Nat],
           undealable' \subseteq Fragile
    PROVE  FairTypeOK'
  BY DEF FairTypeOK, DealRecords, CallRecords, Contributions

(* Three players have contributed when all of them have. *)
LEMMA PlayersCounted ==
    ASSUME NEW S \in SUBSET Players
    PROVE  Cardinality(S) \in 0 .. 3 /\ (Cardinality(S) = 3 <=> S = Players)
<1>0. 1 \in Int /\ 3 \in Int /\ ~(1 > 3) /\ 3 - 1 + 1 = 3
  OBVIOUS
<1>1. IsFiniteSet(Players) /\ Cardinality(Players) = 3
  BY <1>0, FS_Interval, Zenon DEF Players
<1>2. Cardinality(S) \in Nat /\ Cardinality(S) <= 3 /\ (Cardinality(S) = 3 => S = Players)
  BY <1>1, FS_Subset, FS_CardinalityType
<1> QED
  BY <1>1, <1>2

LEMMA EmptyCounted == Cardinality({}) = 0
  BY FS_EmptySet

LEMMA HandCounts ==
    ASSUME NEW hand
    PROVE  /\ Commits(hand) \in 0 .. 3 /\ (Commits(hand) = 3 <=> Committed(hand) = Players)
           /\ Reveals(hand) \in 0 .. 3 /\ (Reveals(hand) = 3 <=> Revealed(hand) = Players)
<1>1. Commits(hand) = Cardinality(Committed(hand)) /\ Reveals(hand) = Cardinality(Revealed(hand))
  BY DEF Commits, Reveals, Committed, Revealed
<1>2. Committed(hand) \subseteq Players /\ Revealed(hand) \subseteq Players
  BY DEF Committed, Revealed
<1> QED
  BY <1>1, <1>2, PlayersCounted

(* A sound hand is one that RestoreHand accepts. *)
LEMMA SoundRestores == ASSUME NEW hand, DealIsSound(hand) PROVE RestoreHand(hand)
<1>1. \A p \in Players : hand.given[p].revealed => hand.given[p].committed
  BY DEF DealIsSound, Committed, Revealed
<1>2. Commits(hand) = Cardinality(Committed(hand)) /\ Reveals(hand) = Cardinality(Revealed(hand))
  BY DEF Commits, Reveals, Committed, Revealed
<1>3. Revealed(hand) = Players => Committed(hand) = Players
  BY DEF DealIsSound, Committed
<1>4. hand.phase = Committing => /\ Commits(hand) < 3 /\ hand.beacon = 0
                                 /\ Reveals(hand) = IF hand.mode = "client-custodied" THEN Commits(hand) ELSE 0
  <2> HAVE hand.phase = Committing
  <2>1. Commits(hand) \in 0 .. 3 /\ Commits(hand) # 3 /\ hand.beacon = 0
    BY HandCounts DEF DealIsSound
  <2>2. Reveals(hand) = IF hand.mode = "client-custodied" THEN Commits(hand) ELSE 0
    BY <1>2, EmptyCounted DEF DealIsSound
  <2> QED
    BY <2>1, <2>2
<1>5. hand.phase = Revealing => Commits(hand) = 3 /\ Reveals(hand) < 3 /\ hand.beacon = 0
  <2> HAVE hand.phase = Revealing
  <2>1. Commits(hand) = 3 /\ Reveals(hand) \in 0 .. 3 /\ Reveals(hand) # 3 /\ hand.beacon = 0
    BY HandCounts DEF DealIsSound
  <2> QED
    BY <2>1
<1>6. hand.phase = Waiting => Commits(hand) = 3 /\ Reveals(hand) = 3 /\ hand.beacon = 0
  BY <1>3, HandCounts DEF DealIsSound
<1>7. hand.phase \in {"DEALING", "BIDDING"} =>
          Commits(hand) = 3 /\ Reveals(hand) = 3 /\ hand.beacon = hand.round
  BY <1>3, HandCounts DEF DealIsSound
<1> QED
  BY <1>1, <1>4, <1>5, <1>6, <1>7 DEF RestoreHand, ValidHandState

(* An event moves a hand to another version, and keeps what it holds. *)
LEMMA EventsCount ==
    ASSUME NEW hand \in DealRecords, NEW phase \in Fairness \cup {"none", "BIDDING", "ABORTED"},
           NEW events \in Nat, events > 0 \/ phase # hand.phase
    PROVE  /\ Moved(hand, phase, events) \in DealRecords
           /\ Moved(hand, phase, events).version > hand.version
           /\ Moved(hand, phase, events).phase = phase
           /\ Moved(hand, phase, events).mode = hand.mode
           /\ Moved(hand, phase, events).round = hand.round
           /\ Moved(hand, phase, events).beacon = hand.beacon
           /\ Moved(hand, phase, events).given = hand.given
<1> DEFINE grown == hand.version + events + (IF phase = hand.phase THEN 0 ELSE 1)
<1>1. hand.version \in Nat
  BY DEF DealRecords
<1>2. grown \in Nat /\ grown > hand.version
  BY <1>1
<1> HIDE DEF grown
<1>3. Moved(hand, phase, events) = [hand EXCEPT !.phase = phase, !.version = grown]
  BY DEF Moved, grown
<1> QED
  BY <1>2, <1>3 DEF DealRecords

(* The events of a lock, a deal and an abort. *)
LEMMA CommandsCount ==
    ASSUME NEW hand \in DealRecords, NEW phase, NEW events,
           \/ phase \in {"DEALING", "ABORTED"} /\ events = 1
           \/ phase = "BIDDING" /\ events = 0 /\ hand.phase # "BIDDING"
    PROVE  /\ Moved(hand, phase, events) \in DealRecords
           /\ Moved(hand, phase, events).version > hand.version
           /\ Moved(hand, phase, events).phase = phase
           /\ Moved(hand, phase, events).mode = hand.mode
           /\ Moved(hand, phase, events).round = hand.round
           /\ Moved(hand, phase, events).beacon = hand.beacon
           /\ Moved(hand, phase, events).given = hand.given
<1>1. /\ phase \in Fairness \cup {"none", "BIDDING", "ABORTED"}
      /\ events \in Nat /\ (events > 0 \/ phase # hand.phase)
  BY DEF Fairness
<1> QED
  BY <1>1, EventsCount

LEMMA SameGiven ==
    ASSUME NEW hand, NEW other, other.given = hand.given, other.round = hand.round
    PROVE  /\ Committed(other) = Committed(hand) /\ Revealed(other) = Revealed(hand)
           /\ Precedes(hand) => Precedes(other)
  BY DEF Committed, Revealed, Precedes

-----------------------------------------------------------------------------
(* A step that changes one hand, gives it another version, and may answer  *)
(* calls.                                                                  *)
LEMMA OneDealMoves ==
    ASSUME DealInv, NEW h \in FairHands, NEW hand \in DealRecords, DealIsSound(hand), Precedes(hand),
           deals' = [deals EXCEPT ![h] = hand], hand.version > deals[h].version,
           hand.phase # "none", deals[h].phase = "none" \/ hand.mode = deals[h].mode,
           calls' \subseteq calls, now' = now
    PROVE  /\ deals' \in [FairHands -> DealRecords] /\ DealsAreSound' /\ CallsFit'
           /\ now' \in Nat /\ calls' \subseteq CallRecords
           /\ \A g \in FairHands : deals'[g] = IF g = h THEN hand ELSE deals[g]
<1> USE DealKnown
<1>1. deals' \in [FairHands -> DealRecords]
  OBVIOUS
<1>2. \A g \in FairHands : deals'[g] = IF g = h THEN hand ELSE deals[g]
  OBVIOUS
<1>3. DealsAreSound'
  <2> SUFFICES ASSUME NEW g \in FairHands PROVE DealIsSound(deals'[g]) /\ Precedes(deals'[g])
    BY Zenon DEF DealsAreSound, DealIsSound, Precedes, Committed, Revealed
  <2>1. deals'[g] = hand \/ deals'[g] = deals[g]
    BY <1>2
  <2> QED
    BY <2>1 DEF DealsAreSound
<1>4. CallsFit'
  <2> SUFFICES ASSUME NEW call \in calls' PROVE CallFits(call)'
    BY DEF CallsFit
  <2>1. CallFits(call) /\ call.hand \in FairHands
    BY DEF CallRecords
  <2> QED
    BY <1>2, <2>1 DEF CallFits
<1> QED
  BY <1>1, <1>2, <1>3, <1>4

(* The dealer does not notice: it compares versions when it commands. *)
LEMMA OneDealUnderDealer ==
    ASSUME DealInv, NEW h \in FairHands, NEW hand \in DealRecords, DealIsSound(hand), Precedes(hand),
           deals' = [deals EXCEPT ![h] = hand], hand.version > deals[h].version,
           hand.phase # "none", deals[h].phase = "none" \/ hand.mode = deals[h].mode,
           calls' \subseteq calls, now' = now, dealer' = dealer, undealable' \subseteq Fragile
    PROVE  DealInv'
<1> USE DealKnown
<1>1. /\ deals' \in [FairHands -> DealRecords] /\ DealsAreSound' /\ CallsFit'
      /\ now' \in Nat /\ calls' \subseteq CallRecords
      /\ \A g \in FairHands : deals'[g] = IF g = h THEN hand ELSE deals[g]
  BY OneDealMoves
<1>2. FairTypeOK'
  BY <1>1, DealTyped DEF DealInv, FairTypeOK
<1>3. DealerIsCurrent'
  <2>1. dealer.pc # "rest" => dealer.queue # <<>>
    BY DEF DealInv, DealerIsCurrent
  <2>2. ASSUME dealer.pc \in {"abort", "lock", "deal"}
        PROVE  LET row == deals'[Head(dealer.queue)]
               IN  dealer.version <= row.version
                   /\ (dealer.version = row.version => row.phase \in Expects(dealer.pc))
    <3>1. Head(dealer.queue) \in FairHands
      BY <2>1, <2>2
    <3> DEFINE first == Head(dealer.queue)
    <3>2. /\ dealer.version <= deals[first].version
          /\ dealer.version = deals[first].version => deals[first].phase \in Expects(dealer.pc)
      BY <2>2 DEF DealInv, DealerIsCurrent
    <3> HIDE DEF first
    <3>3. deals[h].version \in Nat /\ hand.version \in Nat /\ deals[first].version \in Nat
      BY <3>1 DEF DealRecords, first
    <3>4. CASE first = h
      BY <1>1, <3>2, <3>3, <3>4 DEF first
    <3>5. CASE first # h
      BY <1>1, <3>1, <3>2, <3>5 DEF first
    <3> QED
      BY <3>4, <3>5
  <2> QED
    BY <2>1, <2>2 DEF DealerIsCurrent, Expects
<1> QED
  BY <1>1, <1>2, <1>3 DEF DealInv

(* A step that leaves the hands alone, whatever the dealer does with what  *)
(* it scanned.                                                             *)
LEMMA NoDealMoves ==
    ASSUME DealInv, deals' = deals, now' \in Nat, calls' = calls, FairTypeOK', DealerIsCurrent'
    PROVE  DealInv'
<1>1. DealsAreSound' /\ CallsFit'
  BY DEF DealInv, DealsAreSound, DealIsSound, Precedes, Committed, Revealed, CallsFit, CallFits
<1> QED
  BY <1>1 DEF DealInv

-----------------------------------------------------------------------------
LEMMA DealsStart == FairInit => DealInv
<1> SUFFICES ASSUME FairInit PROVE DealInv
  OBVIOUS
<1>1. NoDeal \in DealRecords /\ \A h \in FairHands : deals[h] = NoDeal
  BY DEF FairInit, NoDeal, DealRecords, Contributions, Nothing, Modes
<1>2. FairTypeOK
  BY <1>1 DEF FairInit, FairTypeOK, DealRecords, Contributions
<1>3. DealIsSound(NoDeal) /\ Precedes(NoDeal)
  BY DEF NoDeal, Nothing, DealIsSound, Precedes, Committed, Revealed, Committing, Revealing, Waiting
<1>4. CallsFit /\ DealerIsCurrent
  BY DEF FairInit, CallsFit, DealerIsCurrent
<1> QED
  BY <1>1, <1>2, <1>3, <1>4 DEF DealInv, DealsAreSound

LEMMA BeginKeeps == ASSUME DealInv, NEW h \in FairHands, NEW mode \in Modes, Begin(h, mode) PROVE DealInv'
<1> DEFINE hand == [NoDeal EXCEPT !.phase = Committing, !.mode = mode, !.version = 1, !.round = now + Lead]
<1>1. deals' = [deals EXCEPT ![h] = hand] /\ deals[h] = NoDeal /\ UNCHANGED <<now, calls, dealer>>
  BY Zenon DEF Begin
<1>0. undealable' \subseteq Fragile
  <2>1. undealable' = undealable \/ undealable' = undealable \cup ({h} \cap Fragile)
    BY DEF Begin
  <2> QED
    BY <2>1, DealKnown
<1>2. /\ NoDeal \in DealRecords /\ NoDeal.version = 0 /\ NoDeal.phase = "none" /\ NoDeal.beacon = 0
      /\ NoDeal.given = [p \in Players |-> Nothing]
  BY DEF NoDeal, DealRecords, Contributions, Nothing, Modes
<1>3. now + Lead \in Nat /\ Committing \in Fairness
  BY DealKnown, LeadAssumption DEF Fairness
<1>4. /\ hand \in DealRecords /\ hand.phase = Committing /\ hand.version = 1 /\ hand.beacon = 0
      /\ hand.given = [p \in Players |-> Nothing]
  BY <1>2, <1>3 DEF DealRecords
<1> HIDE DEF hand
<1>5. Committed(hand) = {} /\ Revealed(hand) = {} /\ Players # {} /\ Precedes(hand)
  BY <1>4 DEF Committed, Revealed, Precedes, Nothing, Players
<1>6. deals[h].version = 0 /\ deals[h].phase = "none"
  BY <1>1, <1>2
<1>7. DealIsSound(hand) /\ hand.phase # "none" /\ hand.version > deals[h].version
  BY <1>4, <1>5, <1>6 DEF DealIsSound, Committing, Revealing, Waiting
<1> QED
  BY <1>0, <1>1, <1>4, <1>5, <1>6, <1>7, OneDealUnderDealer

LEMMA SendKeeps == ASSUME DealInv, NEW h \in FairHands, NEW p \in Players, Send(h, p) PROVE DealInv'
<1> USE DealKnown
<1>1. PICK kind \in AskedFor(deals[h]) :
          calls' = calls \cup {[kind |-> kind, hand |-> h, player |-> p,
                                version |-> deals[h].version, began |-> now]}
  BY DEF Send
<1>2. UNCHANGED <<deals, now, dealer, undealable>> /\ deals[h] \in DealRecords /\ DealIsSound(deals[h])
  BY DEF Send
<1> DEFINE call == [kind |-> kind, hand |-> h, player |-> p, version |-> deals[h].version, began |-> now]
<1>3. /\ kind \in {"commit", "reveal", "contribution"} /\ deals[h].phase # "none"
      /\ kind = "contribution" <=> deals[h].mode = "client-custodied"
  BY <1>1, <1>2 DEF AskedFor, DealIsSound, DealRecords, Committing, Revealing, Modes
<1>4. call \in CallRecords /\ CallFits(call)
  BY <1>2, <1>3 DEF CallRecords, CallFits, DealRecords
<1> HIDE DEF call
<1>5. FairTypeOK'
  BY <1>1, <1>2, <1>4, DealTyped DEF DealInv, FairTypeOK, call
<1>6. CallsFit'
  BY <1>1, <1>2, <1>4 DEF CallsFit, CallFits, call
<1>7. DealsAreSound'
  BY <1>2, Zenon DEF DealInv, DealsAreSound, DealIsSound, Precedes, Committed, Revealed
<1>8. DealerIsCurrent'
  BY <1>2, Zenon DEF DealInv, DealerIsCurrent, Expects
<1> QED
  BY <1>5, <1>6, <1>7, <1>8 DEF DealInv

LEMMA QuitKeeps == ASSUME DealInv, NEW h \in FairHands, Quit(h) PROVE DealInv'
<1> DEFINE hand == Moved(deals[h], "ABORTED", 1)
<1>1. deals' = [deals EXCEPT ![h] = hand] /\ UNCHANGED <<now, calls, dealer, undealable>> /\ deals[h] \in DealRecords
  BY DealKnown DEF Quit
<1>2. /\ hand \in DealRecords /\ hand.version > deals[h].version /\ hand.phase = "ABORTED"
      /\ hand.mode = deals[h].mode /\ hand.round = deals[h].round /\ hand.given = deals[h].given
  <2>1. "ABORTED" \in Fairness \cup {"none", "BIDDING", "ABORTED"} /\ 1 \in Nat /\ 1 > 0
    OBVIOUS
  <2> QED
    BY <1>1, <2>1, EventsCount
<1> HIDE DEF hand
<1>3. DealIsSound(hand) /\ Precedes(hand)
  BY <1>2, DealKnown, SameGiven DEF DealIsSound, Committing, Revealing, Waiting
<1> QED
  BY <1>1, <1>2, <1>3, DealKnown, OneDealUnderDealer

-----------------------------------------------------------------------------
(* What a contribution adds to a hand. *)
LEMMA GivenIsAdded ==
    ASSUME NEW hand \in DealRecords, NEW p \in Players, NEW given \in Contributions
    PROVE  LET next == [hand EXCEPT !.given[p] = given]
           IN  /\ next \in DealRecords /\ next.phase = hand.phase /\ next.mode = hand.mode
               /\ next.version = hand.version /\ next.round = hand.round /\ next.beacon = hand.beacon
               /\ Committed(next) = IF given.committed THEN Committed(hand) \cup {p}
                                                       ELSE Committed(hand) \ {p}
               /\ Revealed(next) = IF given.revealed THEN Revealed(hand) \cup {p}
                                                     ELSE Revealed(hand) \ {p}
               /\ Precedes(hand) /\ (given.committed => given.at < hand.round) => Precedes(next)
<1> DEFINE next == [hand EXCEPT !.given[p] = given]
<1>1. hand.given \in [Players -> Contributions]
  BY DEF DealRecords
<1>2. /\ next \in DealRecords /\ next.phase = hand.phase /\ next.mode = hand.mode
      /\ next.version = hand.version /\ next.round = hand.round /\ next.beacon = hand.beacon
  BY <1>1 DEF DealRecords
<1>3. \A q \in Players : next.given[q] = IF q = p THEN given ELSE hand.given[q]
  BY <1>1 DEF DealRecords
<1> HIDE DEF next
<1>4. /\ Committed(next) = IF given.committed THEN Committed(hand) \cup {p} ELSE Committed(hand) \ {p}
      /\ Revealed(next) = IF given.revealed THEN Revealed(hand) \cup {p} ELSE Revealed(hand) \ {p}
  BY <1>3 DEF Committed, Revealed
<1>5. Precedes(hand) /\ (given.committed => given.at < hand.round) => Precedes(next)
  BY <1>2, <1>3 DEF Precedes
<1> QED
  BY <1>2, <1>4, <1>5 DEF next

(* A commitment, in a hand that collects commitments. *)
LEMMA CommitIsSound ==
    ASSUME NEW next, NEW hand, NEW p \in Players, DealIsSound(hand), hand.phase = Committing,
           hand.mode = "commit-reveal", next.phase = hand.phase, next.mode = hand.mode,
           next.beacon = hand.beacon, Committed(next) = Committed(hand) \cup {p},
           Revealed(next) = Revealed(hand) \ {p}
    PROVE  /\ PhaseAfter(next) = IF Committed(next) = Players THEN Revealing ELSE Committing
           /\ Revealed(next) = {} /\ next.beacon = 0
<1>1. Revealed(next) = {} /\ next.beacon = 0 /\ next.phase = Committing /\ next.mode = "commit-reveal"
  BY DEF DealIsSound
<1>2. Reveals(next) # 3
  BY <1>1, HandCounts DEF Players
<1>3. Commits(next) = 3 <=> Committed(next) = Players
  BY HandCounts
<1> QED
  BY <1>1, <1>2, <1>3 DEF PhaseAfter

LEMMA ContributedIsSound ==
    ASSUME DealInv, NEW call \in calls, Takes(deals[call.hand], call)
    PROVE  LET hand == Contributed(deals[call.hand], call)
           IN  /\ hand \in DealRecords /\ hand.version > deals[call.hand].version
               /\ hand.phase # "none" /\ hand.mode = deals[call.hand].mode
               /\ DealIsSound(hand) /\ Precedes(hand)
<1> USE DealKnown
<1> DEFINE old == deals[call.hand]
           p == call.player
           given == Given(old, call)
           next == [old EXCEPT !.given[p] = given]
           events == IF call.kind = "contribution" THEN 2 ELSE 1
           hand == Contributed(old, call)
<1>1. /\ old \in DealRecords /\ DealIsSound(old) /\ Precedes(old) /\ p \in Players
      /\ call.kind \in {"commit", "reveal", "contribution"} /\ call.began \in Nat
      /\ call.kind = "contribution" <=> old.mode = "client-custodied"
  BY DEF CallRecords, CallFits
<1>2. old.mode \in Modes /\ old.given[p] \in Contributions /\ old.round \in Nat
  BY <1>1 DEF DealRecords
<1>3. given \in Contributions /\ (given.committed => given.at < old.round)
  <2>1. CASE call.kind = "commit"
    BY <1>1, <2>1 DEF Given, Takes, Committable, Revealable, Custodiable, BeforeBeacon, Contributions
  <2>2. CASE call.kind = "reveal"
    <3>1. given = [old.given[p] EXCEPT !.revealed = TRUE]
      BY <2>2 DEF Given
    <3>2. given.committed = old.given[p].committed /\ given.at = old.given[p].at
      BY <1>2, <3>1 DEF Contributions
    <3> QED
      BY <1>1, <1>2, <3>1, <3>2 DEF Contributions, Precedes
  <2>3. CASE call.kind = "contribution"
    BY <1>1, <2>3 DEF Given, Takes, Committable, Revealable, Custodiable, BeforeBeacon, Contributions
  <2> QED
    BY <1>1, <2>1, <2>2, <2>3
<1> HIDE DEF given, old, p
<1>4. /\ next \in DealRecords /\ next.phase = old.phase /\ next.mode = old.mode
      /\ next.version = old.version /\ next.round = old.round /\ next.beacon = old.beacon
      /\ Committed(next) = IF given.committed THEN Committed(old) \cup {p} ELSE Committed(old) \ {p}
      /\ Revealed(next) = IF given.revealed THEN Revealed(old) \cup {p} ELSE Revealed(old) \ {p}
      /\ Precedes(next)
  <2>1. old \in DealRecords /\ p \in Players /\ given \in Contributions
    BY <1>1, <1>3
  <2>2. Precedes(old) /\ (given.committed => given.at < old.round)
    BY <1>1, <1>3
  <2>3. /\ next \in DealRecords /\ next.phase = old.phase /\ next.mode = old.mode
        /\ next.version = old.version /\ next.round = old.round /\ next.beacon = old.beacon
        /\ Committed(next) = IF given.committed THEN Committed(old) \cup {p} ELSE Committed(old) \ {p}
        /\ Revealed(next) = IF given.revealed THEN Revealed(old) \cup {p} ELSE Revealed(old) \ {p}
        /\ Precedes(old) /\ (given.committed => given.at < old.round) => Precedes(next)
    BY <2>1, GivenIsAdded, Zenon
  <2> QED
    BY <2>2, <2>3
<1>5. hand = Moved(next, PhaseAfter(next), events)
  BY DEF Contributed, given, old, p
<1>6. call.kind = "commit" => given.committed /\ ~given.revealed
  BY DEF Given, given
<1>7. call.kind = "contribution" => given.committed /\ given.revealed
  BY DEF Given, given
<1>8. call.kind = "reveal" => given.committed = old.given[p].committed /\ given.revealed
  BY <1>2 DEF Given, Contributions, given, p
<1>9. /\ call.kind = "commit" => old.phase = Committing
      /\ call.kind = "reveal" => old.phase = Revealing
      /\ call.kind = "contribution" => old.phase = Committing
  BY DEF Takes, Committable, Revealable, Custodiable, old
<1>10. events \in Nat /\ events > 0
  OBVIOUS
<1> HIDE DEF next, hand, events
<1> DEFINE after == PhaseAfter(next)
<1>11. /\ after \in Fairness
       /\ after = Committing => /\ Committed(next) # Players /\ next.beacon = 0
                                /\ Revealed(next) = IF next.mode = "client-custodied" THEN Committed(next) ELSE {}
       /\ after = Revealing => /\ next.mode = "commit-reveal" /\ next.beacon = 0
                               /\ Committed(next) = Players /\ Revealed(next) # Players
       /\ after = Waiting => Revealed(next) = Players /\ next.beacon = 0
       /\ after # "DEALING" /\ Revealed(next) \subseteq Committed(next)
  <2> DEFINE Goal ==
       /\ after \in Fairness
       /\ after = Committing => /\ Committed(next) # Players /\ next.beacon = 0
                                /\ Revealed(next) = IF next.mode = "client-custodied" THEN Committed(next) ELSE {}
       /\ after = Revealing => /\ next.mode = "commit-reveal" /\ next.beacon = 0
                               /\ Committed(next) = Players /\ Revealed(next) # Players
       /\ after = Waiting => Revealed(next) = Players /\ next.beacon = 0
       /\ after # "DEALING" /\ Revealed(next) \subseteq Committed(next)
  <2>1. ASSUME call.kind = "commit" PROVE Goal
    <3>1. old.mode = "commit-reveal" /\ old.phase = Committing
      BY <1>1, <1>2, <1>9, <2>1 DEF Modes
    <3>2. /\ after = IF Committed(next) = Players THEN Revealing ELSE Committing
          /\ Revealed(next) = {} /\ next.beacon = 0
      BY <1>1, <1>4, <1>6, <2>1, <3>1, CommitIsSound
    <3>3. next.mode = "commit-reveal" /\ {} # Players
      BY <1>4, <3>1 DEF Players
    <3> HIDE DEF after
    <3> QED
      BY <3>2, <3>3 DEF Fairness, Committing, Revealing, Waiting
  <2>2. ASSUME call.kind = "reveal" PROVE Goal
    <3>1. /\ old.phase = Revealing /\ old.beacon = 0 /\ old.mode = "commit-reveal"
          /\ Committed(old) = Players
      BY <1>1, <1>9, <2>2 DEF DealIsSound
    <3>2. old.given[p].committed
      BY <1>1, <3>1 DEF Committed
    <3>3. Committed(next) = Players
      BY <1>1, <1>4, <1>8, <2>2, <3>1, <3>2
    <3>4. after = IF Revealed(next) = Players THEN Waiting ELSE Revealing
      BY <1>4, <3>1, HandCounts DEF PhaseAfter, Committing, Revealing
    <3>5. Revealed(next) \subseteq Committed(next)
      BY <3>3 DEF Revealed
    <3>6. next.beacon = 0 /\ next.mode = "commit-reveal"
      BY <1>4, <3>1
    <3> HIDE DEF after
    <3> QED
      BY <3>3, <3>4, <3>5, <3>6 DEF Fairness, Committing, Revealing, Waiting
  <2>3. ASSUME call.kind = "contribution" PROVE Goal
    <3>1. /\ old.phase = Committing /\ old.beacon = 0 /\ old.mode = "client-custodied"
          /\ Revealed(old) = Committed(old)
      BY <1>1, <1>9, <2>3 DEF DealIsSound
    <3>2. Revealed(next) = Committed(next)
      BY <1>4, <1>7, <2>3, <3>1
    <3>3. after = IF Revealed(next) = Players THEN Waiting ELSE Committing
      BY <1>4, <3>1, HandCounts DEF PhaseAfter
    <3>4. next.beacon = 0 /\ next.mode = "client-custodied"
      BY <1>4, <3>1
    <3> HIDE DEF after
    <3> QED
      BY <3>2, <3>3, <3>4 DEF Fairness, Committing, Revealing, Waiting
  <2> HIDE DEF Goal, after
  <2>4. Goal
    BY <1>1, <2>1, <2>2, <2>3
  <2> QED
    BY <2>4 DEF Goal
<1>12. /\ hand \in DealRecords /\ hand.version > next.version /\ hand.phase = after
       /\ hand.mode = next.mode /\ hand.round = next.round /\ hand.beacon = next.beacon
       /\ hand.given = next.given
  BY <1>4, <1>5, <1>10, <1>11, EventsCount
<1>13. Committed(hand) = Committed(next) /\ Revealed(hand) = Revealed(next) /\ Precedes(hand)
  BY <1>4, <1>12, SameGiven
<1> HIDE DEF after
<1>14. DealIsSound(hand)
  BY <1>11, <1>12, <1>13 DEF DealIsSound, Fairness, Committing, Revealing, Waiting
<1>15. hand.phase # "none"
  BY <1>11, <1>12 DEF Fairness, Committing, Revealing, Waiting
<1> QED
  BY <1>4, <1>12, <1>13, <1>14, <1>15 DEF hand, old

LEMMA ContributeKeeps == ASSUME DealInv, NEW call \in calls, Contribute(call) PROVE DealInv'
<1> USE DealKnown
<1>1. /\ deals' = [deals EXCEPT ![call.hand] =
                      IF Takes(deals[call.hand], call) THEN Contributed(deals[call.hand], call)
                      ELSE deals[call.hand]]
      /\ calls' = calls \ {call} /\ UNCHANGED <<now, dealer, undealable>> /\ call.hand \in FairHands
  BY DEF Contribute, CallRecords
<1>2. CASE Takes(deals[call.hand], call)
  <2> DEFINE hand == Contributed(deals[call.hand], call)
  <2>1. /\ hand \in DealRecords /\ hand.version > deals[call.hand].version
        /\ hand.phase # "none" /\ hand.mode = deals[call.hand].mode
        /\ DealIsSound(hand) /\ Precedes(hand)
    BY <1>2, ContributedIsSound
  <2>2. deals' = [deals EXCEPT ![call.hand] = hand]
    BY <1>1, <1>2
  <2> HIDE DEF hand
  <2> QED
    BY <1>1, <2>1, <2>2, OneDealUnderDealer
<1>3. CASE ~Takes(deals[call.hand], call)
  <2>1. deals' = deals
    BY <1>1, <1>3
  <2>2. FairTypeOK'
    BY <1>1, <2>1 DEF DealInv, FairTypeOK
  <2>3. DealsAreSound'
    BY <2>1, Zenon DEF DealInv, DealsAreSound, DealIsSound, Precedes, Committed, Revealed
  <2>4. CallsFit'
    BY <1>1, <2>1 DEF DealInv, CallsFit, CallFits
  <2>5. DealerIsCurrent'
    BY <1>1, <2>1, Zenon DEF DealInv, DealerIsCurrent, Expects
  <2> QED
    BY <2>2, <2>3, <2>4, <2>5 DEF DealInv
<1> QED
  BY <1>2, <1>3

-----------------------------------------------------------------------------
DealerRecords == [pc : {"rest", "load", "abort", "lock", "deal"}, queue : Seq(FairHands),
                  version : Nat, failures : Nat]

(* The dealer on its own. *)
LEMMA DealerMoves ==
    ASSUME DealInv, deals' = deals, now' = now, calls' = calls, dealer' \in DealerRecords,
           undealable' \subseteq Fragile,
           dealer'.pc # "rest" => dealer'.queue # <<>>,
           dealer'.pc \in {"abort", "lock", "deal"} =>
               LET hand == deals[Head(dealer'.queue)]
               IN  dealer'.version = hand.version /\ hand.phase \in Expects(dealer'.pc)
    PROVE  DealInv'
<1> USE DealKnown
<1>1. FairTypeOK'
  BY DealTyped DEF DealerRecords
<1>2. ASSUME dealer'.pc \in {"abort", "lock", "deal"}
      PROVE  deals'[Head(dealer'.queue)].version = dealer'.version
             /\ deals'[Head(dealer'.queue)].phase \in Expects(dealer'.pc)
             /\ dealer'.version <= deals'[Head(dealer'.queue)].version
  <2>1. dealer'.version \in Nat
    BY DEF DealerRecords
  <2> QED
    BY <1>2, <2>1
<1>3. DealerIsCurrent'
  BY <1>2 DEF DealerIsCurrent, Expects
<1> QED
  BY <1>1, <1>3, NoDealMoves

(* The head of a queue leaves a queue, or a dealer that rests. *)
LEMMA QueueMovesOn ==
    ASSUME DealInv, dealer.pc # "rest"
    PROVE  /\ dealer.queue # <<>> /\ Head(dealer.queue) \in FairHands
           /\ NextInQueue \in DealerRecords /\ NextInQueue.pc \in {"rest", "load"}
           /\ NextInQueue.pc # "rest" => NextInQueue.queue # <<>>
           /\ Resting \in DealerRecords /\ Resting.pc = "rest"
<1> USE DealKnown
<1>1. dealer.queue # <<>>
  BY DEF DealInv, DealerIsCurrent
<1>2. Tail(dealer.queue) \in Seq(FairHands) /\ Head(dealer.queue) \in FairHands
  BY <1>1
<1>3. Resting \in DealerRecords /\ Resting.pc = "rest"
  <2>1. <<>> \in Seq(FairHands)
    OBVIOUS
  <2> QED
    BY <2>1 DEF Resting, DealerRecords
<1> DEFINE rest == Tail(dealer.queue)
<1> HIDE DEF rest
<1> DEFINE on == [dealer EXCEPT !.pc = "load", !.version = 0, !.queue = rest]
<1>4. NextInQueue = IF rest = <<>> THEN Resting ELSE on
  BY DEF NextInQueue, rest
<1>5. rest \in Seq(FairHands)
  BY <1>2 DEF rest
<1>6. dealer \in DealerRecords
  BY DEF DealerRecords
<1>7. on \in DealerRecords /\ on.pc = "load" /\ on.queue = rest
  BY <1>5, <1>6 DEF DealerRecords
<1> HIDE DEF on
<1> QED
  BY <1>1, <1>2, <1>3, <1>4, <1>7

LEMMA ScanKeeps == ASSUME DealInv, Scan PROVE DealInv'
<1> USE DealKnown
<1>1. PICK q \in Scans : dealer' = [dealer EXCEPT !.pc = "load", !.queue = q]
  BY DEF Scan
<1>2. Pending \subseteq FairHands /\ Pending # {} /\ IsFiniteSet(Pending)
  BY AttendedAssumption, FS_Subset DEF Scan, Pending
<1>3. Cardinality(Pending) \in Nat /\ Cardinality(Pending) # 0
  BY <1>2, FS_CardinalityType, FS_EmptySet
<1>4. q \in [1 .. Cardinality(Pending) -> FairHands]
  BY <1>1, <1>2 DEF Scans
<1>5. q \in Seq(FairHands) /\ Len(q) = Cardinality(Pending)
  BY <1>3, <1>4
<1>6. q # <<>>
  BY <1>3, <1>5
<1>7. dealer' = [pc |-> "load", queue |-> q, version |-> dealer.version, failures |-> dealer.failures]
  BY <1>1
<1>8. dealer' \in DealerRecords /\ dealer'.pc = "load" /\ dealer'.queue = q
  BY <1>5, <1>7 DEF DealerRecords
<1>9. UNCHANGED <<deals, now, calls, undealable>>
  BY DEF Scan
<1> QED
  BY <1>6, <1>8, <1>9, DealerMoves

LEMMA LoadKeeps == ASSUME DealInv, Load PROVE DealInv'
<1> USE DealKnown
<1> DEFINE hand == deals[Head(dealer.queue)]
<1>1. /\ dealer.queue # <<>> /\ Head(dealer.queue) \in FairHands
      /\ NextInQueue \in DealerRecords /\ NextInQueue.pc \in {"rest", "load"}
      /\ NextInQueue.pc # "rest" => NextInQueue.queue # <<>>
  BY QueueMovesOn DEF Load
<1>2. UNCHANGED <<deals, now, calls, undealable>> /\ hand.version \in Nat
  BY <1>1 DEF Load, DealRecords
<1>3. CASE Duty(hand) = "skip"
  <2>1. dealer' = NextInQueue
    BY <1>3 DEF Load
  <2> QED
    BY <1>1, <1>2, <2>1, DealerMoves
<1>4. CASE Duty(hand) # "skip"
  <2>1. dealer' = [pc |-> Duty(hand), queue |-> dealer.queue, version |-> hand.version,
                   failures |-> dealer.failures]
    BY <1>4 DEF Load
  <2>2. Duty(hand) \in {"abort", "lock", "deal"} /\ hand.phase \in Expects(Duty(hand))
    <3>1. CASE Duty(hand) = "lock" /\ hand.phase = Waiting
      BY <3>1 DEF Expects
    <3>2. CASE Duty(hand) = "deal" /\ hand.phase = "DEALING"
      BY <3>2 DEF Expects
    <3>3. CASE Duty(hand) = "abort" /\ hand.phase \in {Committing, Revealing}
      BY <3>3 DEF Expects
    <3> QED
      BY <1>4, <3>1, <3>2, <3>3 DEF Duty
  <2> DEFINE duty == Duty(hand)
  <2> HIDE DEF duty
  <2>3. /\ dealer' \in DealerRecords /\ dealer'.queue = dealer.queue /\ dealer'.pc = duty
        /\ dealer'.version = hand.version
    BY <1>2, <2>1, <2>2 DEF DealerRecords, duty
  <2> QED
    BY <1>1, <1>2, <2>2, <2>3, DealerMoves DEF duty
<1> QED
  BY <1>3, <1>4

(* A command of the dealer, on the version and thus the phase it loaded. *)
LEMMA CommandedIsSound ==
    ASSUME DealInv, dealer.pc \in {"abort", "lock", "deal"}, Current(Head(dealer.queue))
    PROVE  LET old  == deals[Head(dealer.queue)]
               hand == Commanded(old)
           IN  /\ hand \in DealRecords /\ hand.version > old.version
               /\ hand.phase # "none" /\ hand.mode = old.mode /\ DealIsSound(hand) /\ Precedes(hand)
<1> USE DealKnown
<1> DEFINE old == deals[Head(dealer.queue)]
           hand == Commanded(old)
<1>1. old \in DealRecords /\ DealIsSound(old) /\ Precedes(old)
  BY QueueMovesOn
<1>2. old.phase \in Expects(dealer.pc)
  BY DEF DealInv, DealerIsCurrent, Current
<1> HIDE DEF old, hand
<1>3. CASE dealer.pc = "lock"
  <2> DEFINE moved == Moved(old, "DEALING", 1)
  <2>1. hand = [moved EXCEPT !.beacon = old.round]
    BY <1>3 DEF hand, Commanded, LockHandBeacon, old
  <2>2. /\ moved \in DealRecords /\ moved.version > old.version /\ moved.phase = "DEALING"
        /\ moved.mode = old.mode /\ moved.round = old.round /\ moved.given = old.given
    BY <1>1, CommandsCount
  <2> HIDE DEF moved
  <2>3. /\ hand \in DealRecords /\ hand.version > old.version /\ hand.phase = "DEALING"
        /\ hand.mode = old.mode /\ hand.round = old.round /\ hand.given = old.given
        /\ hand.beacon = old.round
    BY <1>1, <2>1, <2>2 DEF DealRecords
  <2>4. /\ Committed(hand) = Committed(old) /\ Revealed(hand) = Revealed(old) /\ Precedes(hand)
    BY <1>1, <2>3, SameGiven
  <2>5. Revealed(old) = Players /\ Revealed(old) \subseteq Committed(old)
    BY <1>1, <1>2, <1>3 DEF DealIsSound, Expects
  <2>6. DealIsSound(hand)
    BY <2>3, <2>4, <2>5 DEF DealIsSound, Committing, Revealing, Waiting
  <2> QED
    BY <2>3, <2>4, <2>6 DEF hand, old
<1>4. CASE dealer.pc = "deal"
  <2>1. hand = Moved(old, "BIDDING", 0) /\ old.phase = "DEALING"
    BY <1>2, <1>4 DEF hand, Commanded, old, Expects
  <2>2. /\ hand \in DealRecords /\ hand.version > old.version /\ hand.phase = "BIDDING"
        /\ hand.mode = old.mode /\ hand.round = old.round /\ hand.given = old.given
        /\ hand.beacon = old.beacon
    BY <1>1, <2>1, CommandsCount
  <2>3. /\ Committed(hand) = Committed(old) /\ Revealed(hand) = Revealed(old) /\ Precedes(hand)
    BY <1>1, <2>2, SameGiven
  <2>4. DealIsSound(hand)
    BY <1>1, <2>1, <2>2, <2>3 DEF DealIsSound, Committing, Revealing, Waiting
  <2> QED
    BY <2>2, <2>3, <2>4 DEF hand, old
<1>5. CASE dealer.pc = "abort"
  <2>1. hand = Moved(old, "ABORTED", 1)
    BY <1>5 DEF hand, Commanded, old
  <2>2. /\ hand \in DealRecords /\ hand.version > old.version /\ hand.phase = "ABORTED"
        /\ hand.mode = old.mode /\ hand.round = old.round /\ hand.given = old.given
    BY <1>1, <2>1, CommandsCount
  <2>3. /\ Committed(hand) = Committed(old) /\ Revealed(hand) = Revealed(old) /\ Precedes(hand)
    BY <1>1, <2>2, SameGiven
  <2>4. DealIsSound(hand)
    BY <1>1, <2>2, <2>3 DEF DealIsSound, Committing, Revealing, Waiting
  <2> QED
    BY <2>2, <2>3, <2>4 DEF hand, old
<1> QED
  BY <1>3, <1>4, <1>5

LEMMA IssueKeeps == ASSUME DealInv, Issue PROVE DealInv'
<1> USE DealKnown
<1> DEFINE h == Head(dealer.queue)
           hand == Commanded(deals[h])
<1>1. /\ h \in FairHands /\ NextInQueue \in DealerRecords /\ NextInQueue.pc \in {"rest", "load"}
      /\ NextInQueue.pc # "rest" => NextInQueue.queue # <<>>
      /\ Resting \in DealerRecords /\ Resting.pc = "rest"
  BY QueueMovesOn DEF Issue
<1>2. UNCHANGED <<now, calls, undealable>> /\ dealer.pc \in {"abort", "lock", "deal"}
  BY DEF Issue
<1>3. CASE Current(h) /\ Dealable(h)
  <2>1. deals' = [deals EXCEPT ![h] = hand] /\ dealer' = NextInQueue
    BY <1>3 DEF Issue
  <2>2. /\ hand \in DealRecords /\ hand.version > deals[h].version /\ hand.phase # "none"
        /\ hand.mode = deals[h].mode /\ DealIsSound(hand) /\ Precedes(hand)
    BY <1>2, <1>3, CommandedIsSound
  <2> HIDE DEF hand, h
  <2>3. /\ deals' \in [FairHands -> DealRecords] /\ DealsAreSound' /\ CallsFit'
        /\ now' \in Nat /\ calls' \subseteq CallRecords
    BY <1>1, <1>2, <2>1, <2>2, OneDealMoves
  <2>4. FairTypeOK'
    <3>1. dealer' \in DealerRecords /\ undealable' \subseteq Fragile
      BY <1>1, <1>2, <2>1
    <3> QED
      BY <2>3, <3>1, DealTyped DEF DealerRecords
  <2>5. DealerIsCurrent'
    BY <1>1, <2>1 DEF DealerIsCurrent
  <2> QED
    BY <2>3, <2>4, <2>5 DEF DealInv
<1>4. CASE ~(Current(h) /\ Dealable(h))
  <2>1. deals' = deals /\ dealer' = Resting
    BY <1>4 DEF Issue
  <2> QED
    BY <1>1, <1>2, <2>1, DealerMoves
<1> QED
  BY <1>3, <1>4

LEMMA DealCrashesKeeps == ASSUME DealInv, DealCrashes PROVE DealInv'
<1>1. Resting \in DealerRecords /\ Resting.pc = "rest"
  BY QueueMovesOn DEF DealCrashes
<1>2. undealable' \subseteq Fragile
  BY DealKnown DEF DealCrashes
<1> QED
  BY <1>1, <1>2, DealerMoves DEF DealCrashes

LEMMA PassFailsKeeps == ASSUME DealInv, PassFails PROVE DealInv'
<1> USE DealKnown
<1>1. dealer' = [pc |-> "rest", queue |-> <<>>, version |-> 0, failures |-> dealer.failures + 1]
  BY DEF PassFails, Resting
<1>2. dealer' \in DealerRecords /\ dealer'.pc = "rest"
  <2>1. <<>> \in Seq(FairHands) /\ dealer.failures + 1 \in Nat
    OBVIOUS
  <2> QED
    BY <1>1, <2>1 DEF DealerRecords
<1> QED
  BY <1>2, DealKnown, DealerMoves DEF PassFails

LEMMA PassTimeKeeps == ASSUME DealInv, PassTime PROVE DealInv'
<1>1. UNCHANGED <<deals, calls, dealer, undealable>> /\ now' \in Nat
  BY DealKnown DEF PassTime
<1>2. FairTypeOK' /\ DealerIsCurrent'
  BY <1>1 DEF DealInv, FairTypeOK, DealerIsCurrent, Expects
<1> QED
  BY <1>1, <1>2, NoDealMoves

(* The invariant is inductive. *)
LEMMA DealsKept == DealInv /\ [FairNext]_fairVars => DealInv'
<1> SUFFICES ASSUME DealInv, [FairNext]_fairVars PROVE DealInv'
  OBVIOUS
<1>1. ASSUME Scan \/ Load \/ Issue \/ DealCrashes \/ PassFails \/ PassTime PROVE DealInv'
  BY <1>1, ScanKeeps, LoadKeeps, IssueKeeps, DealCrashesKeeps, PassFailsKeeps, PassTimeKeeps
<1>2. ASSUME NEW h \in FairHands,
             Quit(h) \/ (\E mode \in Modes : Begin(h, mode)) \/ (\E p \in Players : Send(h, p))
      PROVE  DealInv'
  BY <1>2, QuitKeeps, BeginKeeps, SendKeeps
<1>3. ASSUME NEW call \in calls, Contribute(call) PROVE DealInv'
  BY <1>3, ContributeKeeps
<1>4. CASE UNCHANGED fairVars
  <2>1. UNCHANGED <<deals, calls, dealer, now, undealable>>
    BY <1>4 DEF fairVars
  <2>2. FairTypeOK' /\ DealerIsCurrent' /\ now' \in Nat
    BY <2>1 DEF DealInv, FairTypeOK, DealerIsCurrent, Expects
  <2> QED
    BY <2>1, <2>2, NoDealMoves
<1> QED
  BY <1>1, <1>2, <1>3, <1>4 DEF FairNext

(* Every state of the hands, the contributions in flight and the dealer    *)
(* satisfies the invariant.                                                *)
THEOREM DealInvariant == DealSpec => []DealInv
<1>1. FairInit => DealInv
  BY DealsStart
<1>2. DealInv /\ [FairNext]_fairVars => DealInv'
  BY DealsKept
<1> QED
  BY <1>1, <1>2, PTL DEF DealSpec

(* Type correctness of the fairness columns, the calls and the dealer. *)
THEOREM FairTypeCorrect == DealSpec => []FairTypeOK
<1>1. DealInv => FairTypeOK
  BY DEF DealInv
<1> QED
  BY <1>1, DealInvariant, PTL

(* Nobody contributes to a hand knowing its beacon, however long commands  *)
(* wait for its row, whatever the dealer does meanwhile, and for any lead. *)
THEOREM ContributionsAreBlind == DealSpec => []ContributionsPrecedeBeacon
<1>1. DealInv => ContributionsPrecedeBeacon
  BY DEF DealInv, DealsAreSound, Precedes, ContributionsPrecedeBeacon
<1> QED
  BY <1>1, DealInvariant, PTL

(* Every hand that contributions, the dealer and the players leave behind  *)
(* can be restored by the next command.                                    *)
THEOREM HandsRestore == DealSpec => []HandRestores
<1>1. DealInv => HandRestores
  BY SoundRestores DEF DealInv, DealsAreSound, HandRestores
<1> QED
  BY <1>1, DealInvariant, PTL

(* No sequence of commands on rooms and hands stores a snapshot that the   *)
(* next command cannot read back.                                          *)
THEOREM SnapshotsRestore == RoomSpec /\ DealSpec => []AggregatesRestore
<1>1. RoomRestores /\ HandRestores => AggregatesRestore
  BY DEF AggregatesRestore
<1> QED
  BY <1>1, RoomsRestore, HandsRestore, PTL
==============================================================================
