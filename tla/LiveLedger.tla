----------------------------- MODULE LiveLedger -----------------------------
(***************************************************************************)
(* What the live hand promises its players, whatever instances, epochs,    *)
(* journals and receipts stand behind it: one ledger of accepted moves,    *)
(* each accepted once and at the version it was made for; an answer only   *)
(* for a move in the ledger; and no move after the hand is sealed by its   *)
(* completion or its expiry.                                               *)
(***************************************************************************)
EXTENDS Naturals, Sequences

CONSTANT Requests  \* records with fields id, expected and kind

VARIABLES
    ledger,        \* accepted requests, in order
    acknowledged,  \* requests whose answer reached a client
    sealed         \* the hand accepts no further move

ledgerVars == <<ledger, acknowledged, sealed>>

Init ==
    /\ ledger = <<>>
    /\ acknowledged = {}
    /\ sealed = FALSE

Accept(r) ==
    /\ ~sealed
    /\ r.expected = Len(ledger) + 1
    /\ \A i \in 1..Len(ledger) : ledger[i].id # r.id
    /\ ledger' = Append(ledger, r)
    /\ UNCHANGED <<acknowledged, sealed>>

Acknowledge(r) ==
    /\ \E i \in 1..Len(ledger) : ledger[i] = r
    /\ acknowledged' = acknowledged \cup {r}
    /\ UNCHANGED <<ledger, sealed>>

Seal ==
    /\ ~sealed
    /\ sealed' = TRUE
    /\ UNCHANGED <<ledger, acknowledged>>

Next == Seal \/ \E r \in Requests : Accept(r) \/ Acknowledge(r)

Spec == Init /\ [][Next]_ledgerVars

=============================================================================
