-------------------------- MODULE MCCommandLedger --------------------------
(* Small instances of CommandLedger for TLC: one room, an owner and a guest. *)
EXTENDS CommandLedger, TLC

CONSTANTS owner, guest, roomID, other, theHand

Req0(actor, id, seq, expected, events) ==
    [actor |-> actor, id |-> id, aggregate |-> roomID, seq |-> seq,
     expected |-> expected, events |-> events, hand |-> NoHand]
Start(actor, id, g, seq, expected) ==
    [Req0(actor, id, seq, expected, 1) EXCEPT !.hand = theHand, !.aggregate = g]

(* The owner creates the room and starts its hand, the guest changes it: a *)
(* retry with another body, rivals for the same version, a reused and a    *)
(* skipped sequence, and a second start of the hand.                       *)
ChangeRequests ==
    {Req0(owner, 1, 1, 0, 1), Start(owner, 2, roomID, 2, 1), Start(owner, 3, roomID, 2, 2),
     Req0(guest, 1, 1, 1, 2), Req0(guest, 1, 2, 2, 1)}

(* Two starts of one hand by its room's owner, and one from another room. *)
StartRequests ==
    {Req0(owner, 1, 1, 0, 1), Start(owner, 2, roomID, 2, 1), Start(owner, 3, roomID, 3, 1),
     [Req0(owner, 4, 1, 0, 1) EXCEPT !.aggregate = other], Start(owner, 5, other, 2, 1)}

Symmetry == Permutations(Thread)
=============================================================================
