----------------------------- MODULE Aggregates -----------------------------
(***************************************************************************)
(* The two aggregates of the application service as restore.go reads them  *)
(* back: the room with its seats, and the hand with its fairness columns.  *)
(* RoomTable moves the room and the phase of its hands, FairDeal what a    *)
(* hand collects until it is dealt.                                        *)
(***************************************************************************)
EXTENDS RoomTable, FairDeal

(* What is stored of a room or a hand passes the checks with which it is   *)
(* read back (restore.go), so that no aggregate becomes unreadable.        *)
AggregatesRestore == RoomRestores /\ HandRestores
=============================================================================
