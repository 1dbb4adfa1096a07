----------------------------- MODULE MCLiveHand -----------------------------
(* Small instances of LiveHand for TLC. *)
EXTENDS LiveHandInvariants, TLC

Req(id, expected, kind) == [id |-> id, expected |-> expected, kind |-> kind]

(* A hand decided in two moves; "a" is also sent with another body, "c"    *)
(* competes with "b" for the second move.                                  *)
ShortHand == {Req("a", 1, "top"), Req("a", 1, "pass"), Req("b", 2, "last"), Req("c", 2, "play")}

(* The same race without the second body. *)
RaceHand == {Req("a", 1, "top"), Req("b", 2, "last"), Req("c", 2, "play")}

(* A hand passed out in three bids, or won on the third move. *)
LongHand == {Req("a", 1, "pass"), Req("b", 2, "pass"), Req("b", 2, "top"),
             Req("c", 3, "pass"), Req("d", 3, "last")}

Symmetry == Permutations(Thread) \cup Permutations(Proc)
=============================================================================
