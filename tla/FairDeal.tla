------------------------------- MODULE FairDeal -------------------------------
(***************************************************************************)
(* How a hand gets from its start to its deal.                             *)
(*                                                                         *)
(* Three players contribute entropy before the drand round that the hand   *)
(* is bound to becomes public, by a commitment and a reveal or by one      *)
(* custodied contribution; the automatic dealer then locks the beacon and  *)
(* deals, or aborts the hand when the players were late.                   *)
(*                                                                         *)
(* A command is one transaction.  What is not one step is a contribution,  *)
(* whose command reads the clock before it waits for the hand's row, and a *)
(* pass of the dealer, which scans, loads a hand, asks the relay for its   *)
(* round, and then issues a command for the version it loaded.             *)
(*                                                                         *)
(* Time counts drand rounds: round r is public from time r on.             *)
(***************************************************************************)
EXTENDS Naturals, Sequences, FiniteSets

CONSTANTS
    FairHands,    \* the hands
    Attended,     \* the hands whose players are there; the others have left
    Fragile,      \* the hands that a fault may leave without a possible deal
    Lead,         \* rounds between the start of a hand and its beacon
    MaxTime,      \* bound on the time
    MaxFailures,  \* bound on the dealer's passes that end with an error
    MaxCalls      \* bound on the contributions in flight at once

ASSUME AttendedAssumption == Attended \subseteq FairHands /\ IsFiniteSet(FairHands)
ASSUME FragileAssumption == Fragile \subseteq FairHands
ASSUME LeadAssumption == Lead \in Nat \ {0} /\ MaxTime \in Nat
ASSUME FairBoundsAssumption == MaxFailures \in Nat /\ MaxCalls \in Nat

VARIABLES
    deals,   \* the fairness columns of the doudizhu_hands rows
    now,     \* the drand rounds that are public
    calls,   \* the contribution commands in flight
    dealer,  \* the pass of fairAutoDealer.ProcessOnce
    undealable  \* the hands whose deal fails every time: their seed is gone, or an
                \* earlier deal left its journal row behind

fairVars == <<deals, now, calls, dealer, undealable>>

-----------------------------------------------------------------------------
(* Values *)

Players    == 1 .. 3
Modes      == {"commit-reveal", "client-custodied"}
Committing == "FAIRNESS_COMMITTING"
Revealing  == "FAIRNESS_REVEALING"
Waiting    == "WAITING_PUBLIC_BEACON"
Fairness   == {Committing, Revealing, Waiting, "DEALING"}

Nothing  == [committed |-> FALSE, revealed |-> FALSE, at |-> 0]
NoDeal   == [phase |-> "none", mode |-> "client-custodied", version |-> 0, round |-> 0,
             beacon |-> 0, given |-> [p \in Players |-> Nothing]]
Running(h) == deals[h].phase \in Fairness

Commits(hand) == Cardinality({p \in Players : hand.given[p].committed})
Reveals(hand) == Cardinality({p \in Players : hand.given[p].revealed})

(* Every event of a change takes a version, and a change of phase is an    *)
(* event of its own.                                                       *)
Moved(hand, phase, events) ==
    [hand EXCEPT !.phase = phase,
                 !.version = @ + events + (IF phase = hand.phase THEN 0 ELSE 1)]

(* Variant: the round that is being published still counts as unknown. *)
BeforeBeaconLate(hand, at) == at <= hand.round

(* checkContributionDeadline: the beacon of the hand is still unknown. *)
BeforeBeacon(hand, at) == at < hand.round

-----------------------------------------------------------------------------
(* The players *)

(* The beacon of a new hand is a round in the future.  When the COMMIT of  *)
(* the start takes effect but reports an error, the compensation removes   *)
(* the seed of the hand.                                                   *)
Begin(h, mode) ==
    /\ deals[h] = NoDeal
    /\ now + Lead <= MaxTime
    /\ deals' = [deals EXCEPT ![h] = [NoDeal EXCEPT !.phase = Committing, !.mode = mode,
                                                    !.version = 1, !.round = now + Lead]]
    /\ undealable' \in {undealable, undealable \cup ({h} \cap Fragile)}
    /\ UNCHANGED <<now, calls, dealer>>

(* What a hand asks its players for, in the phase they see. *)
AskedFor(hand) ==
    CASE hand.phase = Committing /\ hand.mode = "commit-reveal" -> {"commit"}
      [] hand.phase = Committing /\ hand.mode = "client-custodied" -> {"contribution"}
      [] hand.phase = Revealing -> {"reveal"}
      [] OTHER -> {}

(* A contribution reaches the server, for the version its client saw. *)
Send(h, p) ==
    /\ h \in Attended
    /\ Cardinality(calls) < MaxCalls
    /\ \E kind \in AskedFor(deals[h]) :
           calls' = calls \cup {[kind |-> kind, hand |-> h, player |-> p,
                                 version |-> deals[h].version, began |-> now]}
    /\ UNCHANGED <<deals, now, dealer, undealable>>

(* SubmitCommit reads the clock under the row lock, SubmitReveal and       *)
(* SubmitCustodiedContribution before they wait for it.                    *)
Committable(hand, call) ==
    /\ call.kind = "commit"
    /\ hand.phase = Committing
    /\ ~hand.given[call.player].committed
    /\ BeforeBeacon(hand, now)

Revealable(hand, call) ==
    /\ call.kind = "reveal"
    /\ hand.phase = Revealing
    /\ ~hand.given[call.player].revealed
    /\ BeforeBeacon(hand, call.began)

Custodiable(hand, call) ==
    /\ call.kind = "contribution"
    /\ hand.phase = Committing
    /\ ~hand.given[call.player].committed
    /\ BeforeBeacon(hand, call.began)

Takes(hand, call) ==
    /\ call.version = hand.version
    /\ Committable(hand, call) \/ Revealable(hand, call) \/ Custodiable(hand, call)

(* "at" is when the content of a contribution was fixed: a reveal only     *)
(* opens what was committed.                                               *)
Given(hand, call) ==
    CASE call.kind = "commit" -> [committed |-> TRUE, revealed |-> FALSE, at |-> now]
      [] call.kind = "reveal" -> [hand.given[call.player] EXCEPT !.revealed = TRUE]
      [] OTHER -> [committed |-> TRUE, revealed |-> TRUE, at |-> call.began]

(* Variant: the phase moves on when the second player has contributed. *)
PhaseAfterTwo(hand) ==
    CASE hand.mode = "commit-reveal" /\ hand.phase = Committing /\ Commits(hand) >= 2 -> Revealing
      [] Reveals(hand) = 3 -> Waiting
      [] OTHER -> hand.phase

PhaseAfter(hand) ==
    CASE hand.mode = "commit-reveal" /\ hand.phase = Committing /\ Commits(hand) = 3 -> Revealing
      [] Reveals(hand) = 3 -> Waiting
      [] OTHER -> hand.phase

Contributed(hand, call) ==
    LET next == [hand EXCEPT !.given[call.player] = Given(hand, call)]
    IN  Moved(next, PhaseAfter(next), IF call.kind = "contribution" THEN 2 ELSE 1)

(* The transaction of a contribution; one that comes for a stale version,  *)
(* in the wrong phase or too late is answered by a stored rejection.       *)
Contribute(call) ==
    /\ calls' = calls \ {call}
    /\ deals' = [deals EXCEPT ![call.hand] =
                    IF Takes(@, call) THEN Contributed(@, call) ELSE @]
    /\ UNCHANGED <<now, dealer, undealable>>

(* CancelHand, or AbortHand of a participant: the hand ends undealt. *)
Quit(h) ==
    /\ h \in Attended
    /\ Running(h)
    /\ deals' = [deals EXCEPT ![h] = Moved(@, "ABORTED", 1)]
    /\ UNCHANGED <<now, calls, dealer, undealable>>

-----------------------------------------------------------------------------
(* The automatic dealer *)

Resting == [pc |-> "rest", queue |-> <<>>, version |-> 0, failures |-> dealer.failures]

(* PendingDeals: dealing hands first, then those that wait for a beacon,   *)
(* then the others; within a rank in the order of their last update.       *)
Rank(h) == CASE deals[h].phase = "DEALING" -> 0 [] deals[h].phase = Waiting -> 1 [] OTHER -> 2
Pending == {h \in FairHands : Running(h)}
Scans   == {q \in [1 .. Cardinality(Pending) -> Pending] :
               \A i, j \in DOMAIN q : i < j => q[i] # q[j] /\ Rank(q[i]) <= Rank(q[j])}

Scan ==
    /\ dealer.pc = "rest"
    /\ Pending # {}
    /\ \E q \in Scans : dealer' = [dealer EXCEPT !.pc = "load", !.queue = q]
    /\ UNCHANGED <<deals, now, calls, undealable>>

NextInQueue ==
    IF Tail(dealer.queue) = <<>> THEN Resting
    ELSE [dealer EXCEPT !.pc = "load", !.version = 0, !.queue = Tail(@)]

(* Variant: only hands that still collect commitments are given up. *)
DutyCommitting(hand) ==
    CASE hand.phase = Committing /\ ~BeforeBeacon(hand, now) -> "abort"
      [] hand.phase = Waiting /\ ~BeforeBeacon(hand, now) -> "lock"
      [] hand.phase = "DEALING" -> "deal"
      [] OTHER -> "skip"

(* What the loaded phase and the clock ask for.  The relay answers "not    *)
(* published" before the round is public, which skips the hand.            *)
Duty(hand) ==
    CASE hand.phase \in {Committing, Revealing} /\ ~BeforeBeacon(hand, now) -> "abort"
      [] hand.phase = Waiting /\ ~BeforeBeacon(hand, now) -> "lock"
      [] hand.phase = "DEALING" -> "deal"
      [] OTHER -> "skip"

Load ==
    /\ dealer.pc = "load"
    /\ LET hand == deals[Head(dealer.queue)]
       IN  dealer' = IF Duty(hand) = "skip" THEN NextInQueue
                     ELSE [dealer EXCEPT !.pc = Duty(hand), !.version = hand.version]
    /\ UNCHANGED <<deals, now, calls, undealable>>

(* What a command of the dealer makes of the hand it was issued for. *)
LockHandBeacon(hand) == [Moved(hand, "DEALING", 1) EXCEPT !.beacon = hand.round]

Commanded(hand) ==
    CASE dealer.pc = "lock"  -> LockHandBeacon(hand)
      [] dealer.pc = "deal"  -> Moved(hand, "BIDDING", 0)
      [] dealer.pc = "abort" -> Moved(hand, "ABORTED", 1)

(* The domain compares the version the dealer loaded. *)
Current(h) == deals[h].version = dealer.version

(* A deal needs the seed of the hand, and that its journal row is new. *)
Dealable(h) == dealer.pc = "deal" => h \notin undealable

(* A command that is refused, or fails, ends the pass. *)
Issue ==
    /\ dealer.pc \in {"abort", "lock", "deal"}
    /\ LET h == Head(dealer.queue)
       IN  IF Current(h) /\ Dealable(h)
           THEN deals' = [deals EXCEPT ![h] = Commanded(@)] /\ dealer' = NextInQueue
           ELSE UNCHANGED deals /\ dealer' = Resting
    /\ UNCHANGED <<now, calls, undealable>>

(* The process dies in a deal, after the journal's row and before the      *)
(* hand's: the dealer that is started next finds the row in its way.       *)
DealCrashes ==
    /\ dealer.pc = "deal"
    /\ Current(Head(dealer.queue))
    /\ Head(dealer.queue) \in Fragile
    /\ undealable' = undealable \cup {Head(dealer.queue)}
    /\ dealer' = Resting
    /\ UNCHANGED <<deals, now, calls>>

(* The relay or the database fails for a moment, and the error ends the    *)
(* pass.  A hand that fails in every pass is an undealable one.            *)
PassFails ==
    /\ dealer.pc # "rest"
    /\ dealer.failures < MaxFailures
    /\ dealer' = [Resting EXCEPT !.failures = @ + 1]
    /\ UNCHANGED <<deals, now, calls, undealable>>

PassTime ==
    /\ now < MaxTime
    /\ now' = now + 1
    /\ UNCHANGED <<deals, calls, dealer, undealable>>

-----------------------------------------------------------------------------
FairInit ==
    /\ deals = [h \in FairHands |-> NoDeal]
    /\ now = 0
    /\ calls = {}
    /\ dealer = [pc |-> "rest", queue |-> <<>>, version |-> 0, failures |-> 0]
    /\ undealable = {}

FairNext ==
    \/ Scan \/ Load \/ Issue \/ DealCrashes \/ PassFails \/ PassTime
    \/ \E h \in FairHands :
        \/ Quit(h)
        \/ \E mode \in Modes : Begin(h, mode)
        \/ \E p \in Players : Send(h, p)
    \/ \E call \in calls : Contribute(call)

(* Time passes and the dealer's ticker fires for as long as the server     *)
(* runs; players are free to do nothing.                                   *)
DealerFairness ==
    WF_fairVars(PassTime) /\ WF_fairVars(Scan) /\ WF_fairVars(Load) /\ WF_fairVars(Issue)

DealSpec == FairInit /\ [][FairNext]_fairVars /\ DealerFairness

-----------------------------------------------------------------------------
(* Properties *)

FairTypeOK ==
    /\ deals \in [FairHands ->
            [phase : Fairness \cup {"none", "BIDDING", "ABORTED"}, mode : Modes,
             version : Nat, round : Nat, beacon : Nat,
             given : [Players -> [committed : BOOLEAN, revealed : BOOLEAN, at : Nat]]]]
    /\ now \in Nat
    /\ calls \subseteq [kind : {"commit", "reveal", "contribution"}, hand : FairHands,
                        player : Players, version : Nat, began : Nat]
    /\ dealer \in [pc : {"rest", "load", "abort", "lock", "deal"}, queue : Seq(FairHands),
                   version : Nat, failures : Nat]
    /\ undealable \subseteq Fragile

(* validateHandSnapshotState: commits, reveals and beacon fit the phase. *)
ValidHandState(hand) ==
    /\ hand.phase = Committing =>
           /\ Commits(hand) < 3 /\ hand.beacon = 0
           /\ Reveals(hand) = IF hand.mode = "client-custodied" THEN Commits(hand) ELSE 0
    /\ hand.phase = Revealing => Commits(hand) = 3 /\ Reveals(hand) < 3 /\ hand.beacon = 0
    /\ hand.phase = Waiting => Commits(hand) = 3 /\ Reveals(hand) = 3 /\ hand.beacon = 0
    /\ hand.phase \in {"DEALING", "BIDDING"} =>
           Commits(hand) = 3 /\ Reveals(hand) = 3 /\ hand.beacon = hand.round

(* RestoreHand, which every command runs on the snapshot it loads: a       *)
(* reveal has its commitment.                                              *)
RestoreHand(hand) ==
    /\ \A p \in Players : hand.given[p].revealed => hand.given[p].committed
    /\ ValidHandState(hand)

(* No order of contributions, passes and cancels leaves a hand that the    *)
(* next command cannot restore.                                            *)
HandRestores == \A h \in FairHands : RestoreHand(deals[h])

(* Nobody contributes knowing the beacon: the content of every             *)
(* contribution was fixed before the round of its hand became public, even *)
(* when the command waited for the row until after that.                   *)
ContributionsPrecedeBeacon ==
    \A h \in FairHands, p \in Players :
        deals[h].given[p].committed => deals[h].given[p].at < deals[h].round

(* Every pass begins with a hand that cannot be dealt, and ends there. *)
Blocked == \E h \in undealable : deals[h].phase = "DEALING"

(* Players who walk away cannot hold a hand in its fairness phases: the    *)
(* dealer deals it, or aborts it once its round is public, also when       *)
(* passes fail on the way; unless a hand that cannot be dealt has reached  *)
(* its deal, which holds up all the others for as long as it is there.     *)
HandsLeaveFairnessUnlessBlocked ==
    \A h \in FairHands : Running(h) ~> ~Running(h) \/ Blocked
=============================================================================
