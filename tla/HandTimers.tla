----------------------------- MODULE HandTimers -----------------------------
(***************************************************************************)
(* The lifecycle supervisor of one server instance, over several hands:    *)
(* its timer entries, the callbacks of the dispatcher that arm them, the   *)
(* sweep that expires overdue hands, cancels and a restart.                *)
(*                                                                         *)
(* A move is committed before its callback runs, and callbacks run late    *)
(* and in any order.  A callback that changes the aggregate takes two      *)
(* steps: the durable phase first, the timer after.  The sweep takes the   *)
(* overdue hands in the order of their IDs; an error ends it, and the next *)
(* tick starts another.                                                    *)
(*                                                                         *)
(* LiveHand models one hand with all its failures.  Here the database      *)
(* answers, the auction is won, and a deadline is only "passed" or not.    *)
(***************************************************************************)
EXTENDS Naturals, FiniteSets

CONSTANTS MaxHand,     \* the hands are 1..MaxHand, in the order of their IDs
          MaxActions   \* bound: moves, cancels and restarts

ASSUME TimersAssumption == MaxHand \in Nat /\ MaxActions \in Nat

VARIABLES
    timed,      \* of each hand: its durable phase, its live phase and version,
                \* the version of its winning bid, and who ended it
    entries,    \* the supervisor's entries
    callbacks,  \* what the dispatcher still has to tell the supervisor
    sweep,      \* the candidates of the sweep that runs, and its next step
    actions     \* how many actions happened

timerVars == <<timed, entries, callbacks, sweep, actions>>

Tables == 1..MaxHand
Untracked == [phase |-> "none", version |-> 0, due |-> FALSE, pending |-> "none", kept |-> FALSE]
Entry(phase, version) ==
    [phase |-> phase, version |-> version, due |-> FALSE, pending |-> "none", kept |-> TRUE]
NoSweep == [at |-> "rest", due |-> {}, seen |-> Untracked]

Act == actions < MaxActions /\ actions' = actions + 1
Over(h) == timed[h].live = "over"
HandEnded(h) == timed[h].phase = "ended"
Call(h, kind) == [hand |-> h, kind |-> kind, version |-> timed'[h].version]
Forgotten(h) == entries' = [entries EXCEPT ![h] = Untracked]
Returned(c) == callbacks' = callbacks \ {c}
Becomes(c, kind) == callbacks' = (callbacks \ {c}) \cup {[c EXCEPT !.kind = kind]}
EndedBy(h, who) ==
    timed' = [timed EXCEPT ![h].phase = "ended", ![h].live = "over", ![h].by = who]

-----------------------------------------------------------------------------
(* Moves *)

(* A bid, the winning bid, a play or the last play is committed. *)
MoveHand(h) ==
    /\ Act /\ ~HandEnded(h)
    /\ \E m \in {<<"bidding", "bidding", "bid">>, <<"bidding", "playing", "win">>,
                 <<"playing", "playing", "play">>, <<"playing", "over", "last">>} :
           /\ timed[h].live = m[1]
           /\ timed' = [timed EXCEPT ![h].live = m[2], ![h].version = @ + 1,
                                     ![h].won = IF m[3] = "win" THEN timed[h].version + 1 ELSE @]
           /\ callbacks' = callbacks \cup {Call(h, m[3])}
    /\ UNCHANGED <<entries, sweep>>

(* TrackBidding, also of a repeated hand.dealt: the phase and the live     *)
(* version are read, the entry is made later.                              *)
Track(h) ==
    /\ Act /\ timed[h].phase = "bidding" /\ ~Over(h)
    /\ callbacks' = callbacks \cup
           {[hand |-> h, kind |-> IF timed[h].live = "bidding" THEN "track" ELSE "trackPlaying",
             version |-> timed[h].version]}
    /\ UNCHANGED <<timed, entries, sweep>>

(* Only a missing entry is made. *)
Tracked(c) ==
    /\ c.kind \in {"track", "trackPlaying"} /\ Returned(c)
    /\ entries' = IF entries[c.hand].kept THEN entries
                  ELSE [entries EXCEPT ![c.hand] =
                           Entry(IF c.kind = "track" THEN "bidding" ELSE "playing", c.version)]
    /\ UNCHANGED <<timed, sweep, actions>>

-----------------------------------------------------------------------------
(* Callbacks *)

(* Variant: a callback of the version already seen renews the deadline. *)
OutdatedBefore(e, phase, version) ==
    e.pending # "none" \/ version < e.version \/ (e.phase = "playing" /\ phase = "bidding")

(* schedule ignores callbacks older than the entry, or overtaken by it. *)
Outdated(e, phase, version) ==
    e.pending # "none" \/ version <= e.version \/ (e.phase = "playing" /\ phase = "bidding")

Schedule(c, phase) ==
    /\ Returned(c)
    /\ entries' = IF Outdated(entries[c.hand], phase, c.version) THEN entries
                  ELSE [entries EXCEPT ![c.hand] = Entry(phase, c.version)]
    /\ UNCHANGED <<timed, sweep, actions>>

AfterBid(c) == c.kind = "bid" /\ Schedule(c, "bidding")
AfterPlay(c) == c.kind = "play" /\ Schedule(c, "playing")

(* advanceLiveHand: the winning bid starts the play of a hand still in     *)
(* BIDDING, the last play ends the hand; then the timer is changed.        *)
Advance(c) ==
    /\ \/ /\ c.kind = "win" /\ Becomes(c, "play")
          /\ timed' = IF timed[c.hand].phase = "bidding"
                      THEN [timed EXCEPT ![c.hand].phase = "playing"] ELSE timed
       \/ /\ c.kind = "last" /\ Becomes(c, "forget")
          /\ IF HandEnded(c.hand) THEN UNCHANGED timed ELSE EndedBy(c.hand, "last")
    /\ UNCHANGED <<entries, sweep, actions>>

(* A retry of the winning bid: AfterHistoricalBid only fills in a missing  *)
(* phase, and never an entry that already has it.                          *)
RetryWin(h) ==
    /\ Act /\ timed[h].phase = "bidding" /\ timed[h].live # "bidding"
    /\ timed' = [timed EXCEPT ![h].phase = "playing"]
    /\ callbacks' = callbacks \cup {[hand |-> h, kind |-> "missing",
                                version |-> timed[h].won]}
    /\ UNCHANGED <<entries, sweep>>

(* scheduleIfPhaseMissing *)
ScheduleMissing(c) ==
    /\ c.kind = "missing" /\ Returned(c)
    /\ LET e == entries[c.hand]
       IN entries' = IF e.pending # "none" \/ (e.kept /\ (e.version > c.version \/ e.phase = "playing"))
                     THEN entries ELSE [entries EXCEPT ![c.hand] = Entry("playing", c.version)]
    /\ UNCHANGED <<timed, sweep, actions>>

ForgetHand(c) ==
    /\ c.kind = "forget" /\ Returned(c) /\ Forgotten(c.hand)
    /\ UNCHANGED <<timed, sweep, actions>>

-----------------------------------------------------------------------------
(* Cancels *)

Cancel(h) ==
    /\ Act /\ callbacks' = callbacks \cup {[hand |-> h, kind |-> "cancel", version |-> 0]}
    /\ UNCHANGED <<timed, entries, sweep>>

(* terminate: refused while another termination is pending, joined while   *)
(* the same is; a hand that ended is forgotten.                            *)
Terminate(c) ==
    /\ c.kind = "cancel"
    /\ LET e == entries[c.hand]
       IN \/ e.pending = "expire" /\ Returned(c) /\ UNCHANGED entries
          \/ e.pending = "abort" /\ Becomes(c, "abort") /\ UNCHANGED entries
          \/ e.pending = "none" /\ HandEnded(c.hand) /\ Returned(c) /\ Forgotten(c.hand)
          \/ /\ e.pending = "none" /\ ~HandEnded(c.hand) /\ Becomes(c, "abort")
             /\ entries' = [entries EXCEPT ![c.hand].pending = "abort", ![c.hand].kept = TRUE]
    /\ UNCHANGED <<timed, sweep, actions>>

(* AbortHand: rejected, and left pending, when something else ended it. *)
AbortPending(c) ==
    /\ c.kind = "abort" /\ Returned(c)
    /\ IF HandEnded(c.hand) THEN UNCHANGED timed ELSE EndedBy(c.hand, "abort")
    /\ IF timed'[c.hand].by = "abort" THEN Forgotten(c.hand) ELSE UNCHANGED entries
    /\ UNCHANGED <<sweep, actions>>

-----------------------------------------------------------------------------
(* The sweep *)

Elapse(h) ==
    /\ entries[h].kept /\ ~entries[h].due
    /\ entries' = [entries EXCEPT ![h].due = TRUE]
    /\ UNCHANGED <<timed, callbacks, sweep, actions>>

Overdue == {h \in Tables : entries[h].due /\ entries[h].pending = "none"}
First(S) == CHOOSE h \in S : \A g \in S : h <= g
Swept == First(sweep.due)
NextHand == IF sweep.due = {Swept} THEN NoSweep
            ELSE [NoSweep EXCEPT !.at = "refresh", !.due = sweep.due \ {Swept}]

StartSweep ==
    /\ sweep.at = "rest" /\ Overdue # {}
    /\ sweep' = [NoSweep EXCEPT !.at = "refresh", !.due = Overdue]
    /\ UNCHANGED <<timed, entries, callbacks, actions>>

(* The live game moved on: the timer starts again from what was read. *)
Refreshed(h) == [entries EXCEPT ![h] = Entry(timed[h].live, timed[h].version)]

(* refreshCommittedProgress: a game that is over cannot be read, and ends  *)
(* the sweep; otherwise the entry is brought up to date or is overdue.     *)
Refresh ==
    /\ sweep.at = "refresh"
    /\ LET h == Swept
           e == entries[h]
       IN \/ Over(h) /\ sweep' = NoSweep /\ UNCHANGED entries
          \/ /\ ~Over(h) /\ h \notin Overdue
             /\ sweep' = NextHand /\ UNCHANGED entries
          \/ /\ ~Over(h) /\ h \in Overdue /\ timed[h].version > e.version
             /\ sweep' = NextHand /\ entries' = Refreshed(h)
          \/ /\ ~Over(h) /\ h \in Overdue /\ timed[h].version = e.version
             /\ sweep' = [sweep EXCEPT !.at = "decide", !.seen = e] /\ UNCHANGED entries
    /\ UNCHANGED <<timed, callbacks, actions>>

(* terminateWhenDue: the expiry becomes pending unless the entry changed. *)
DecideExpiry ==
    /\ sweep.at = "decide"
    /\ LET h == Swept
       IN \/ entries[h] # sweep.seen /\ sweep' = NextHand /\ UNCHANGED entries
          \/ /\ entries[h] = sweep.seen /\ HandEnded(h)
             /\ sweep' = NextHand /\ Forgotten(h)
          \/ /\ entries[h] = sweep.seen /\ ~HandEnded(h)
             /\ sweep' = [sweep EXCEPT !.at = "expire"]
             /\ entries' = [entries EXCEPT ![h].pending = "expire"]
    /\ UNCHANGED <<timed, callbacks, actions>>

(* Variant: an expiry that met a newer move stays pending. *)
RetiredNever(e) == e

(* ErrLiveProgressed retires the pending expiry. *)
Retired(e) == [e EXCEPT !.pending = "none"]

(* ExpireHand: refused when a newer move is committed, and then the entry  *)
(* is refreshed; rejected, and left pending, when something else ended the *)
(* hand.                                                                   *)
ExpireOverdue ==
    /\ sweep.at = "expire"
    /\ LET h == Swept
           e == Retired(entries[h])
       IN \/ /\ HandEnded(h) /\ sweep' = NoSweep /\ UNCHANGED <<timed, entries>>
          \/ /\ ~HandEnded(h) /\ timed[h].version = sweep.seen.version
             /\ EndedBy(h, "expire") /\ Forgotten(h) /\ sweep' = NextHand
          \/ /\ ~HandEnded(h) /\ timed[h].version # sweep.seen.version /\ UNCHANGED timed
             /\ IF Over(h)
                THEN entries' = [entries EXCEPT ![h] = e] /\ sweep' = NoSweep
                ELSE entries' = (IF e.pending = "none" THEN Refreshed(h) ELSE entries)
                     /\ sweep' = NextHand
    /\ UNCHANGED <<callbacks, actions>>

(* A restart: ReconcileRecovered rebuilds the entries from the recovered   *)
(* games, starting plays and ending hands whose callbacks were lost.       *)
Restart ==
    /\ Act
    /\ timed' = [h \in Tables |->
           IF HandEnded(h) THEN timed[h]
           ELSE IF Over(h) THEN [timed[h] EXCEPT !.phase = "ended", !.by = "last"]
           ELSE [timed[h] EXCEPT !.phase = timed[h].live]]
    /\ entries' = [h \in Tables |-> IF Over(h) \/ HandEnded(h) THEN Untracked
                                    ELSE Entry(timed[h].live, 0)]
    /\ callbacks' = {} /\ sweep' = NoSweep

-----------------------------------------------------------------------------
TimersInit ==
    /\ timed = [h \in Tables |-> [phase |-> "bidding", live |-> "bidding", version |-> 1,
                                  won |-> 0, by |-> "none"]]
    /\ entries = [h \in Tables |-> Entry("bidding", 1)]
    /\ callbacks = {} /\ sweep = NoSweep /\ actions = 0

CallbackRuns(c) ==
    \/ Tracked(c) \/ AfterBid(c) \/ AfterPlay(c) \/ Advance(c) \/ ScheduleMissing(c)
    \/ ForgetHand(c) \/ Terminate(c) \/ AbortPending(c)
SweepRuns == StartSweep \/ Refresh \/ DecideExpiry \/ ExpireOverdue

TimersNext ==
    \/ SweepRuns \/ Restart
    \/ \E c \in callbacks : CallbackRuns(c)
    \/ \E h \in Tables :
        MoveHand(h) \/ Track(h) \/ RetryWin(h) \/ Cancel(h) \/ Elapse(h)

(* Callbacks return, deadlines pass, and the ticker keeps sweeping. *)
TimersSpec ==
    /\ TimersInit /\ [][TimersNext]_timerVars
    /\ WF_timerVars(\E c \in callbacks : CallbackRuns(c))
    /\ WF_timerVars(SweepRuns)
    /\ \A h \in Tables : WF_timerVars(Elapse(h))

-----------------------------------------------------------------------------
(* Properties *)

(* The state is well formed; at most the sweep's hand has a pending expiry *)
(* of a hand that can still be played.                                     *)
TimersTypeOK ==
    /\ actions \in 0..MaxActions /\ sweep.due \subseteq Tables
    /\ sweep.at \in {"rest", "refresh", "decide", "expire"}
    /\ (sweep.at = "rest") = (sweep.due = {})
    /\ \A h \in Tables :
           /\ timed[h].phase \in {"bidding", "playing", "ended"}
           /\ timed[h].live \in {"bidding", "playing", "over"}
           /\ entries[h].version <= timed[h].version
           /\ entries[h].pending = "expire" /\ ~HandEnded(h) => sweep.at = "expire" /\ h = Swept

(* However late callbacks, retries and sweeps come, the timer of a hand    *)
(* never falls back to an older version or to the bidding, and a deadline  *)
(* that passed is only lifted by a newer move (supervisor.go, schedule and *)
(* refreshCommittedProgress).                                              *)
TimersOnlyAdvance ==
    [][\A h \in Tables :
        entries[h].kept /\ entries[h].pending = "none" /\ entries'[h].kept /\ ~Restart =>
            /\ entries'[h].version >= entries[h].version
            /\ ~(entries[h].phase = "playing" /\ entries'[h].phase = "bidding")
            /\ entries[h].due /\ ~entries'[h].due => entries'[h].version > entries[h].version]_timerVars

Playable(h) == ~HandEnded(h) /\ ~Over(h)
Late(h) == Playable(h) /\ entries[h].due

(* A hand whose deadline passed ends, or a move renews its deadline        *)
(* (supervisor.go, Sweep).                                                 *)
LateHandsEnd == \A h \in Tables : Late(h) ~> ~Late(h)

(* The same, unless the entry of a game that is over stops every sweep     *)
(* before it: nothing else can keep the supervisor from a late hand.       *)
LateHandsEndUnlessBlocked ==
    \A h \in Tables :
        Late(h) ~> ~Late(h) \/ \E g \in Tables : g < h /\ Over(g) /\ g \in Overdue
=============================================================================
