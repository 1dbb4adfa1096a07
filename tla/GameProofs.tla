------------------------------ MODULE GameProofs -----------------------------
(***************************************************************************)
(* Proofs about a hand that is played: its timers, for any hands, moves,   *)
(* cancels and restarts, and its rules, for any deals of one deck.         *)
(*                                                                         *)
(* HandTimers: that timers only advance rests on the version of the        *)
(* winning bid, which separates what is known of the bidding from what is  *)
(* known of the play: a callback or an entry of the play is at least as    *)
(* new, one of the bidding is older, however late it comes.  That a sweep  *)
(* does not meddle with the timers of callbacks rests on its claim: while  *)
(* it expires a hand, the entry of that hand, and of no other, says so.    *)
(*                                                                         *)
(* GameRules: a card is played once.  The cards that are left bound the    *)
(* bombs and rockets still to come, and with them what the settlement is   *)
(* asked for; the auction remembers the highest bid with its bidder.  The  *)
(* analysis takes cards apart into the body of a pattern and a rest, whose *)
(* sizes add up, so a pattern is what the rules say, and none is missed.   *)
(***************************************************************************)
EXTENDS GameRules, HandTimers, FiniteSetTheorems, SequenceTheorems, TLAPS

CallbackKinds == {"bid", "win", "play", "last", "track", "trackPlaying", "missing", "forget", "cancel", "abort"}

TimedRecords    == [phase : {"bidding", "playing", "ended"}, live : {"bidding", "playing", "over"},
                    version : Nat, won : Nat, by : {"none", "last", "abort", "expire"}]
EntryRecords    == [phase : {"none", "bidding", "playing"}, version : Nat, due : BOOLEAN,
                    pending : {"none", "abort", "expire"}, kept : BOOLEAN]
CallbackRecords == [hand : Tables, kind : CallbackKinds, version : Nat]
SweepRecords    == [at : {"rest", "refresh", "decide", "expire"}, due : SUBSET Tables, seen : EntryRecords]

RecordsTyped ==
    /\ timed \in [Tables -> TimedRecords] /\ entries \in [Tables -> EntryRecords]
    /\ callbacks \in SUBSET CallbackRecords /\ sweep \in SweepRecords /\ actions \in 0 .. MaxActions

(* A game, what its timer says of it, and what a callback says of it. *)
TimedSound(t) ==
    /\ t.won <= t.version
    /\ t.live = "bidding" => t.won = 0
    /\ t.phase # "ended" /\ t.live # "bidding" => t.won > 0
    /\ t.phase = "ended" => t.live = "over"

EntrySound(e, t) ==
    /\ e.version <= t.version
    /\ e.phase = "playing" => t.won > 0
    /\ t.won > 0 /\ e.version >= t.won => e.phase = "playing"
    /\ ~e.kept => e.version = 0 /\ e.phase = "none" /\ ~e.due /\ e.pending = "none"

CallSound(c, t) ==
    /\ c.version <= t.version
    /\ c.kind \in {"bid", "track"} /\ t.won > 0 => c.version < t.won
    /\ c.kind \in {"win", "play", "trackPlaying", "missing"} => t.won > 0 /\ c.version >= t.won
    /\ c.kind = "forget" => t.phase = "ended"

GamesAreSound   == \A h \in Tables : TimedSound(timed[h])
EntriesAreSound == \A h \in Tables : EntrySound(entries[h], timed[h])
CallsAreSound   == \A c \in callbacks : CallSound(c, timed[c.hand])

SweepIsSound ==
    /\ sweep.at = "rest" <=> sweep.due = {}
    /\ sweep.at \in {"decide", "expire"} => Swept \in Tables
    /\ sweep.at = "decide" => sweep.seen.kept

(* The expiry of a hand that is not over is pending exactly while the      *)
(* sweep is about to expire that hand.                                     *)
SweepClaims ==
    \A h \in Tables :
        ~HandEnded(h) => (entries[h].pending = "expire" <=> sweep.at = "expire" /\ h = Swept)

TimersInv ==
    RecordsTyped /\ GamesAreSound /\ EntriesAreSound /\ CallsAreSound /\ SweepIsSound /\ SweepClaims

-----------------------------------------------------------------------------
LEMMA ValuesAreTyped ==
    /\ Untracked \in EntryRecords /\ Untracked.version = 0 /\ Untracked.phase = "none"
    /\ ~Untracked.due /\ Untracked.pending = "none" /\ ~Untracked.kept
    /\ NoSweep \in SweepRecords /\ NoSweep.at = "rest" /\ NoSweep.due = {}
  BY DEF Untracked, NoSweep, EntryRecords, SweepRecords

LEMMA EntryIsTyped ==
    ASSUME NEW stage \in {"bidding", "playing"}, NEW version \in Nat
    PROVE  /\ Entry(stage, version) \in EntryRecords /\ Entry(stage, version).phase = stage
           /\ Entry(stage, version).version = version /\ ~Entry(stage, version).due
           /\ Entry(stage, version).pending = "none" /\ Entry(stage, version).kept
  BY DEF Entry, EntryRecords

(* What a step may do to a game without making callbacks and entries wrong. *)
Grows(t, u) ==
    /\ u.version >= t.version
    /\ u.won = t.won \/ (t.won = 0 /\ u.won > t.version)
    /\ t.phase = "ended" => u.phase = "ended"

LEMMA GrowthKeeps ==
    ASSUME NEW t \in TimedRecords, NEW u \in TimedRecords, Grows(t, u)
    PROVE  /\ \A e \in EntryRecords : EntrySound(e, t) => EntrySound(e, u)
           /\ \A c \in CallbackRecords : CallSound(c, t) => CallSound(c, u)
<1>1. ASSUME NEW e \in EntryRecords, EntrySound(e, t) PROVE EntrySound(e, u)
  BY <1>1 DEF Grows, EntrySound, EntryRecords, TimedRecords
<1>2. ASSUME NEW c \in CallbackRecords, CallSound(c, t) PROVE CallSound(c, u)
  BY <1>2 DEF Grows, CallSound, CallbackRecords, TimedRecords
<1> QED
  BY <1>1, <1>2

LEMMA TimersStart == TimersInit => TimersInv
<1> SUFFICES ASSUME TimersInit PROVE TimersInv
  OBVIOUS
<1> DEFINE game == [phase |-> "bidding", live |-> "bidding", version |-> 1, won |-> 0, by |-> "none"]
<1>1. /\ game \in TimedRecords /\ game.phase = "bidding" /\ game.live = "bidding" /\ game.version = 1
      /\ game.won = 0
  BY DEF TimedRecords
<1>2. timed = [h \in Tables |-> game] /\ entries = [h \in Tables |-> Entry("bidding", 1)]
  BY DEF TimersInit
<1> HIDE DEF game
<1>3. callbacks = {} /\ sweep = NoSweep /\ actions \in 0 .. MaxActions
  BY TimersAssumption DEF TimersInit
<1>4. RecordsTyped
  BY <1>1, <1>2, <1>3, ValuesAreTyped, EntryIsTyped DEF RecordsTyped
<1>5. GamesAreSound /\ EntriesAreSound
  BY <1>1, <1>2, EntryIsTyped DEF GamesAreSound, TimedSound, EntriesAreSound, EntrySound
<1>6. CallsAreSound /\ SweepIsSound
  BY <1>3, ValuesAreTyped DEF CallsAreSound, SweepIsSound
<1>7. SweepClaims
  BY <1>2, <1>3, ValuesAreTyped, EntryIsTyped DEF SweepClaims
<1> QED
  BY <1>4, <1>5, <1>6, <1>7 DEF TimersInv

-----------------------------------------------------------------------------
(* Steps of the games and the callbacks: the sweep stands still, and no    *)
(* expiry of a hand that is not over is made or withdrawn.                 *)
SoundSteps ==
    /\ RecordsTyped'
    /\ \A h \in Tables : Grows(timed[h], timed'[h]) /\ TimedSound(timed'[h])
    /\ \A h \in Tables : entries'[h] # entries[h] => EntrySound(entries'[h], timed'[h])
    /\ \A c \in callbacks' \ callbacks : CallSound(c, timed'[c.hand])

LEMMA SoundStepsKeep ==
    ASSUME TimersInv, SoundSteps
    PROVE  GamesAreSound' /\ EntriesAreSound' /\ CallsAreSound'
<1>1. RecordsTyped /\ RecordsTyped' /\ EntriesAreSound /\ CallsAreSound
  BY DEF TimersInv, SoundSteps
<1>2. GamesAreSound'
  BY DEF SoundSteps, GamesAreSound
<1>3. ASSUME NEW h \in Tables PROVE EntrySound(entries[h], timed'[h])
  <2>1. /\ timed[h] \in TimedRecords /\ timed'[h] \in TimedRecords /\ entries[h] \in EntryRecords
        /\ Grows(timed[h], timed'[h]) /\ EntrySound(entries[h], timed[h])
    BY <1>1 DEF RecordsTyped, SoundSteps, EntriesAreSound
  <2> QED
    BY <2>1, GrowthKeeps
<1>4. EntriesAreSound'
  BY <1>3 DEF SoundSteps, EntriesAreSound
<1>5. ASSUME NEW c \in callbacks' PROVE CallSound(c, timed'[c.hand])
  <2>1. CASE c \in callbacks
    <3>1. c \in CallbackRecords /\ c.hand \in Tables
      BY <1>1 DEF RecordsTyped, CallbackRecords
    <3>2. /\ timed[c.hand] \in TimedRecords /\ timed'[c.hand] \in TimedRecords
          /\ Grows(timed[c.hand], timed'[c.hand]) /\ CallSound(c, timed[c.hand])
      BY <1>1, <2>1, <3>1 DEF RecordsTyped, SoundSteps, CallsAreSound
    <3> QED
      BY <3>1, <3>2, GrowthKeeps
  <2>2. CASE c \notin callbacks
    BY <2>2 DEF SoundSteps
  <2> QED
    BY <2>1, <2>2
<1>6. CallsAreSound'
  BY <1>5 DEF CallsAreSound
<1> QED
  BY <1>2, <1>4, <1>6

(* What TimersOnlyAdvance demands of one entry, except of a restart. *)
Follows(e, old) ==
    old.kept /\ old.pending = "none" /\ e.kept =>
        /\ e.version >= old.version
        /\ ~(old.phase = "playing" /\ e.phase = "bidding")
        /\ old.due /\ ~e.due => e.version > old.version

EntryAdvances(h) == Follows(entries'[h], entries[h])

LEMMA NothingFollows ==
    ASSUME TimersInv, NEW h \in Tables, entries'[h] = entries[h]
    PROVE  EntryAdvances(h)
  BY DEF EntryAdvances, Follows, TimersInv, RecordsTyped, EntryRecords

(* A step outside the sweep. *)
LEMMA QuietSteps ==
    ASSUME TimersInv, SoundSteps, UNCHANGED sweep,
           \A h \in Tables : ~(timed'[h].phase = "ended") =>
               (entries'[h].pending = "expire" <=> entries[h].pending = "expire")
    PROVE  TimersInv'
<1>1. GamesAreSound' /\ EntriesAreSound' /\ CallsAreSound' /\ RecordsTyped'
  BY SoundStepsKeep DEF SoundSteps
<1>2. SweepIsSound' /\ Swept' = Swept
  BY DEF TimersInv, SweepIsSound, Swept, First
<1>3. SweepClaims'
  BY <1>2 DEF TimersInv, SweepClaims, HandEnded, SoundSteps, Grows
<1> QED
  BY <1>1, <1>2, <1>3 DEF TimersInv

(* What is known of one hand. *)
LEMMA HandKnown ==
    ASSUME TimersInv, NEW h \in Tables
    PROVE  /\ timed \in [Tables -> TimedRecords] /\ timed[h] \in TimedRecords
           /\ entries \in [Tables -> EntryRecords] /\ entries[h] \in EntryRecords
           /\ TimedSound(timed[h]) /\ EntrySound(entries[h], timed[h])
  BY DEF TimersInv, RecordsTyped, GamesAreSound, EntriesAreSound

LEMMA CallKnown ==
    ASSUME TimersInv, NEW c \in callbacks
    PROVE  c \in CallbackRecords /\ c.hand \in Tables /\ c.version \in Nat /\ CallSound(c, timed[c.hand])
  BY DEF TimersInv, RecordsTyped, CallbackRecords, CallsAreSound

LEMMA UnchangedGames ==
    ASSUME TimersInv, UNCHANGED timed
    PROVE  \A h \in Tables : Grows(timed[h], timed'[h]) /\ TimedSound(timed'[h])
  BY HandKnown DEF Grows, TimedRecords

LEMMA Acts == ASSUME TimersInv, Act PROVE actions' \in 0 .. MaxActions
  BY TimersAssumption DEF TimersInv, RecordsTyped, Act

(* Callbacks that leave the timers, or set one. *)
LEMMA TimerKept ==
    ASSUME TimersInv, NEW c \in callbacks, Returned(c), UNCHANGED <<timed, entries, sweep, actions>>
    PROVE  TimersInv' /\ \A h \in Tables : EntryAdvances(h)
<1>1. SoundSteps
  BY UnchangedGames DEF SoundSteps, TimersInv, RecordsTyped, Returned
<1> QED
  BY <1>1, QuietSteps, NothingFollows

LEMMA TimerSet ==
    ASSUME TimersInv, NEW c \in callbacks, NEW e \in EntryRecords, EntrySound(e, timed[c.hand]),
           HandEnded(c.hand) \/ (e.pending = "expire" <=> entries[c.hand].pending = "expire"),
           Follows(e, entries[c.hand]), entries' = [entries EXCEPT ![c.hand] = e], Returned(c),
           UNCHANGED <<timed, sweep, actions>>
    PROVE  TimersInv' /\ \A h \in Tables : EntryAdvances(h)
<1>1. c.hand \in Tables /\ entries \in [Tables -> EntryRecords]
  BY CallKnown DEF TimersInv, RecordsTyped
<1>2. RecordsTyped'
  BY <1>1 DEF TimersInv, RecordsTyped, Returned
<1>3. \A h \in Tables : IF h = c.hand THEN entries'[h] = e ELSE entries'[h] = entries[h]
  BY <1>1
<1>4. SoundSteps
  BY <1>2, <1>3, UnchangedGames DEF SoundSteps, Returned
<1>5. TimersInv'
  BY <1>3, <1>4, QuietSteps DEF HandEnded
<1>6. \A h \in Tables : EntryAdvances(h)
  BY <1>3, NothingFollows DEF EntryAdvances
<1> QED
  BY <1>5, <1>6

-----------------------------------------------------------------------------
(* Moves, retries and cancels.  They leave the entries alone. *)
LEMMA MoveHandKeeps == ASSUME TimersInv, NEW h \in Tables, MoveHand(h) PROVE TimersInv'
<1> USE HandKnown
<1>1. PICK m \in {<<"bidding", "bidding", "bid">>, <<"bidding", "playing", "win">>,
                  <<"playing", "playing", "play">>, <<"playing", "over", "last">>} :
           /\ timed[h].live = m[1]
           /\ timed' = [timed EXCEPT ![h].live = m[2], ![h].version = @ + 1,
                                     ![h].won = IF m[3] = "win" THEN timed[h].version + 1 ELSE @]
           /\ callbacks' = callbacks \cup {Call(h, m[3])}
  BY DEF MoveHand
<1>2. /\ timed' \in [Tables -> TimedRecords] /\ \A g \in Tables : g # h => timed'[g] = timed[g]
      /\ timed'[h].live = m[2] /\ timed'[h].version = timed[h].version + 1
      /\ timed'[h].won = (IF m[3] = "win" THEN timed[h].version + 1 ELSE timed[h].won)
      /\ timed'[h].phase = timed[h].phase /\ timed[h].phase # "ended"
  BY <1>1 DEF TimedRecords, MoveHand, HandEnded
<1>3. TimedSound(timed'[h]) /\ Grows(timed[h], timed'[h])
  <2>1. /\ timed[h].version \in Nat /\ timed[h].won \in Nat /\ timed[h].won <= timed[h].version
        /\ timed[h].live = "bidding" => timed[h].won = 0
        /\ timed[h].live # "bidding" => timed[h].won > 0
    BY <1>2 DEF TimedSound, TimedRecords
  <2>2. Grows(timed[h], timed'[h])
    BY <1>1, <1>2, <2>1 DEF Grows
  <2>3. TimedSound(timed'[h])
    BY <1>1, <1>2, <2>1 DEF TimedSound
  <2> QED
    BY <2>2, <2>3
<1>4. \A g \in Tables : TimedSound(timed'[g]) /\ Grows(timed[g], timed'[g])
  BY <1>2, <1>3 DEF Grows, TimedRecords
<1> DEFINE c == [hand |-> h, kind |-> m[3], version |-> timed'[h].version]
<1>5. /\ c \in CallbackRecords /\ c.hand = h /\ c.kind = m[3] /\ c.version = timed'[h].version
      /\ callbacks' = callbacks \cup {c}
  BY <1>1, <1>2 DEF Call, CallbackRecords, CallbackKinds, TimedRecords
<1> HIDE DEF c
<1>6. CallSound(c, timed'[h])
  BY <1>1, <1>2, <1>5 DEF CallSound, TimedSound, TimedRecords
<1>7. UNCHANGED <<entries, sweep>> /\ actions' \in 0 .. MaxActions
  BY Acts DEF MoveHand
<1>8. RecordsTyped'
  BY <1>2, <1>5, <1>7 DEF TimersInv, RecordsTyped
<1>9. SoundSteps
  BY <1>4, <1>5, <1>6, <1>7, <1>8 DEF SoundSteps
<1> QED
  BY <1>7, <1>9, QuietSteps

(* A new callback about a hand whose game stands still. *)
LEMMA CallMade ==
    ASSUME TimersInv, NEW c \in CallbackRecords, CallSound(c, timed[c.hand]),
           callbacks' = callbacks \cup {c}, actions' \in 0 .. MaxActions,
           UNCHANGED <<timed, entries, sweep>>
    PROVE  TimersInv'
<1>1. RecordsTyped'
  BY DEF TimersInv, RecordsTyped
<1>2. SoundSteps
  BY <1>1, UnchangedGames DEF SoundSteps
<1> QED
  BY <1>2, QuietSteps

LEMMA TrackKeeps == ASSUME TimersInv, NEW h \in Tables, Track(h) PROVE TimersInv'
<1> DEFINE c == [hand |-> h, kind |-> IF timed[h].live = "bidding" THEN "track" ELSE "trackPlaying",
                 version |-> timed[h].version]
<1>1. /\ c \in CallbackRecords /\ c.hand = h /\ c.version = timed[h].version
      /\ c.kind = (IF timed[h].live = "bidding" THEN "track" ELSE "trackPlaying")
  BY HandKnown DEF CallbackRecords, CallbackKinds, TimedRecords
<1>2. callbacks' = callbacks \cup {c} /\ UNCHANGED <<timed, entries, sweep>> /\ actions' \in 0 .. MaxActions
  BY Acts DEF Track
<1> HIDE DEF c
<1>3. CallSound(c, timed[h])
  BY <1>1, HandKnown DEF CallSound, TimedSound, TimedRecords, Track
<1> QED
  BY <1>1, <1>2, <1>3, CallMade

LEMMA CancelKeeps == ASSUME TimersInv, NEW h \in Tables, Cancel(h) PROVE TimersInv'
<1> DEFINE c == [hand |-> h, kind |-> "cancel", version |-> 0]
<1>1. c \in CallbackRecords /\ c.hand = h /\ c.version = 0 /\ c.kind = "cancel"
  BY DEF CallbackRecords, CallbackKinds
<1>2. callbacks' = callbacks \cup {c} /\ UNCHANGED <<timed, entries, sweep>> /\ actions' \in 0 .. MaxActions
  BY Acts DEF Cancel
<1> HIDE DEF c
<1>3. CallSound(c, timed[h])
  BY <1>1, HandKnown DEF CallSound, TimedRecords
<1> QED
  BY <1>1, <1>2, <1>3, CallMade

(* The retry starts the play of a hand whose bid was won. *)
LEMMA RetryWinKeeps == ASSUME TimersInv, NEW h \in Tables, RetryWin(h) PROVE TimersInv'
<1> USE HandKnown
<1>1. /\ timed' \in [Tables -> TimedRecords] /\ \A g \in Tables : g # h => timed'[g] = timed[g]
      /\ timed'[h].live = timed[h].live /\ timed'[h].version = timed[h].version
      /\ timed'[h].won = timed[h].won /\ timed'[h].phase = "playing"
      /\ timed[h].phase = "bidding" /\ timed[h].live # "bidding"
  BY DEF RetryWin, TimedRecords
<1>2. TimedSound(timed'[h]) /\ Grows(timed[h], timed'[h]) /\ timed[h].won > 0
  BY <1>1 DEF TimedSound, Grows, TimedRecords
<1>3. \A g \in Tables : TimedSound(timed'[g]) /\ Grows(timed[g], timed'[g])
  BY <1>1, <1>2 DEF Grows, TimedRecords
<1> DEFINE c == [hand |-> h, kind |-> "missing", version |-> timed[h].won]
<1>4. /\ c \in CallbackRecords /\ c.hand = h /\ c.kind = "missing" /\ c.version = timed[h].won
      /\ callbacks' = callbacks \cup {c}
  BY DEF RetryWin, CallbackRecords, CallbackKinds, TimedRecords
<1> HIDE DEF c
<1>5. CallSound(c, timed'[h])
  BY <1>1, <1>2, <1>4 DEF CallSound, TimedSound, TimedRecords
<1>6. UNCHANGED <<entries, sweep>> /\ actions' \in 0 .. MaxActions
  BY Acts DEF RetryWin
<1>7. RecordsTyped'
  BY <1>1, <1>4, <1>6 DEF TimersInv, RecordsTyped
<1>8. SoundSteps
  BY <1>3, <1>4, <1>5, <1>6, <1>7 DEF SoundSteps
<1> QED
  BY <1>6, <1>8, QuietSteps

LEMMA ElapseKeeps ==
    ASSUME TimersInv, NEW h \in Tables, Elapse(h)
    PROVE  TimersInv' /\ \A g \in Tables : EntryAdvances(g)
<1> USE HandKnown
<1>1. /\ entries' \in [Tables -> EntryRecords] /\ \A g \in Tables : g # h => entries'[g] = entries[g]
      /\ entries'[h].phase = entries[h].phase /\ entries'[h].version = entries[h].version
      /\ entries'[h].pending = entries[h].pending /\ entries'[h].kept = entries[h].kept
      /\ entries[h].kept /\ entries'[h].due
  BY DEF Elapse, EntryRecords
<1>2. UNCHANGED <<timed, callbacks, sweep, actions>>
  BY DEF Elapse
<1>3. EntrySound(entries'[h], timed'[h])
  BY <1>1, <1>2 DEF EntrySound
<1>4. RecordsTyped'
  BY <1>1, <1>2 DEF TimersInv, RecordsTyped
<1>5. SoundSteps
  BY <1>1, <1>2, <1>3, <1>4, UnchangedGames DEF SoundSteps
<1>6. \A g \in Tables : EntryAdvances(g)
  BY <1>1, NothingFollows DEF EntryAdvances, Follows, EntryRecords
<1> QED
  BY <1>1, <1>2, <1>5, <1>6, QuietSteps

-----------------------------------------------------------------------------
(* Callbacks. *)
LEMMA TrackedKeeps ==
    ASSUME TimersInv, NEW c \in callbacks, Tracked(c)
    PROVE  TimersInv' /\ \A h \in Tables : EntryAdvances(h)
<1> USE CallKnown, HandKnown
<1>1. CASE entries[c.hand].kept
  BY <1>1, TimerKept DEF Tracked
<1>2. CASE ~entries[c.hand].kept
  <2> DEFINE stage == IF c.kind = "track" THEN "bidding" ELSE "playing"
             e     == Entry(stage, c.version)
  <2>1. stage \in {"bidding", "playing"} /\ entries' = [entries EXCEPT ![c.hand] = e] /\ Returned(c)
        /\ UNCHANGED <<timed, sweep, actions>>
    BY <1>2 DEF Tracked
  <2>2. /\ e \in EntryRecords /\ e.phase = stage /\ e.version = c.version /\ ~e.due
        /\ e.pending = "none" /\ e.kept
    BY <2>1, EntryIsTyped
  <2>3. stage = "bidding" => c.kind = "track"
    OBVIOUS
  <2>4. stage = "playing" => c.kind = "trackPlaying"
    BY DEF Tracked
  <2> HIDE DEF stage, e
  <2>5. EntrySound(e, timed[c.hand])
    BY <2>1, <2>2, <2>3, <2>4 DEF EntrySound, CallSound, TimedRecords
  <2>6. Follows(e, entries[c.hand])
    BY <1>2 DEF Follows
  <2>7. entries[c.hand].pending = "none"
    BY <1>2 DEF EntrySound
  <2> QED
    BY <2>1, <2>2, <2>5, <2>6, <2>7, TimerSet
<1> QED
  BY <1>1, <1>2

(* schedule sets the timer only for a newer version. *)
LEMMA ScheduleKeeps ==
    ASSUME TimersInv, NEW c \in callbacks, NEW stage \in {"bidding", "playing"}, Schedule(c, stage),
           stage = "bidding" => c.kind = "bid", stage = "playing" => c.kind = "play"
    PROVE  TimersInv' /\ \A h \in Tables : EntryAdvances(h)
<1> USE CallKnown, HandKnown
<1> DEFINE old == entries[c.hand]
<1>1. CASE Outdated(old, stage, c.version)
  BY <1>1, TimerKept DEF Schedule
<1>2. CASE ~Outdated(old, stage, c.version)
  <2> DEFINE e == Entry(stage, c.version)
  <2>1. entries' = [entries EXCEPT ![c.hand] = e] /\ Returned(c) /\ UNCHANGED <<timed, sweep, actions>>
    BY <1>2 DEF Schedule
  <2>2. /\ e \in EntryRecords /\ e.phase = stage /\ e.version = c.version /\ ~e.due
        /\ e.pending = "none" /\ e.kept
    BY EntryIsTyped
  <2> HIDE DEF e
  <2>3. EntrySound(e, timed[c.hand])
    BY <2>2 DEF EntrySound, CallSound, TimedRecords
  <2>4. Follows(e, old) /\ old.pending = "none"
    BY <1>2, <2>2 DEF Follows, Outdated, EntryRecords
  <2> QED
    BY <2>1, <2>2, <2>3, <2>4, TimerSet
<1> QED
  BY <1>1, <1>2

(* A retried winning bid is as old as any entry that is still bidding.     *)
LEMMA ScheduleMissingKeeps ==
    ASSUME TimersInv, NEW c \in callbacks, ScheduleMissing(c)
    PROVE  TimersInv' /\ \A h \in Tables : EntryAdvances(h)
<1> USE CallKnown, HandKnown
<1> DEFINE old     == entries[c.hand]
           settled == old.pending # "none" \/ (old.kept /\ (old.version > c.version \/ old.phase = "playing"))
<1>1. CASE settled
  BY <1>1, TimerKept DEF ScheduleMissing
<1>2. CASE ~settled
  <2> DEFINE e == Entry("playing", c.version)
  <2>1. entries' = [entries EXCEPT ![c.hand] = e] /\ Returned(c) /\ UNCHANGED <<timed, sweep, actions>>
    BY <1>2 DEF ScheduleMissing
  <2>2. /\ e \in EntryRecords /\ e.phase = "playing" /\ e.version = c.version /\ ~e.due
        /\ e.pending = "none" /\ e.kept
    BY EntryIsTyped
  <2> HIDE DEF e
  <2>3. EntrySound(e, timed[c.hand])
    BY <2>2 DEF EntrySound, CallSound, TimedRecords, ScheduleMissing
  <2>4. old.kept => old.version < c.version
    BY <1>2 DEF EntrySound, CallSound, ScheduleMissing, EntryRecords, TimedRecords
  <2>5. Follows(e, old) /\ old.pending = "none"
    BY <1>2, <2>2, <2>4 DEF Follows, EntryRecords
  <2> QED
    BY <2>1, <2>2, <2>3, <2>5, TimerSet
<1> QED
  BY <1>1, <1>2

LEMMA ForgottenIsSound ==
    ASSUME TimersInv, NEW h \in Tables, NEW t \in TimedRecords, TimedSound(t)
    PROVE  Untracked \in EntryRecords /\ EntrySound(Untracked, t) /\ Follows(Untracked, entries[h])
  BY ValuesAreTyped DEF EntrySound, TimedRecords, Follows

LEMMA ForgetHandKeeps ==
    ASSUME TimersInv, NEW c \in callbacks, ForgetHand(c)
    PROVE  TimersInv' /\ \A h \in Tables : EntryAdvances(h)
<1>1. /\ Untracked \in EntryRecords /\ EntrySound(Untracked, timed[c.hand])
      /\ Follows(Untracked, entries[c.hand])
  BY CallKnown, HandKnown, ForgottenIsSound
<1>2. HandEnded(c.hand)
  BY CallKnown DEF ForgetHand, CallSound, HandEnded
<1> QED
  BY <1>1, <1>2, TimerSet DEF ForgetHand, Forgotten

(* A hand that something ended. *)
LEMMA EndedIsSound ==
    ASSUME TimersInv, NEW h \in Tables, NEW who \in {"last", "abort", "expire"}, EndedBy(h, who)
    PROVE  /\ timed' \in [Tables -> TimedRecords] /\ timed'[h].phase = "ended" /\ timed'[h].by = who
           /\ \A g \in Tables : Grows(timed[g], timed'[g]) /\ TimedSound(timed'[g])
<1> USE HandKnown
<1>1. /\ timed' \in [Tables -> TimedRecords] /\ \A g \in Tables : g # h => timed'[g] = timed[g]
      /\ timed'[h].phase = "ended" /\ timed'[h].live = "over" /\ timed'[h].by = who
      /\ timed'[h].version = timed[h].version /\ timed'[h].won = timed[h].won
  BY DEF EndedBy, TimedRecords
<1>2. Grows(timed[h], timed'[h]) /\ TimedSound(timed'[h])
  BY <1>1 DEF Grows, TimedSound, TimedRecords
<1> QED
  BY <1>1, <1>2 DEF Grows, TimedRecords

(* A callback goes on to its next step. *)
LEMMA CallBecomes ==
    ASSUME TimersInv, NEW c \in callbacks, NEW kind \in CallbackKinds, Becomes(c, kind),
           timed' \in [Tables -> TimedRecords],
           \A h \in Tables : Grows(timed[h], timed'[h]) /\ TimedSound(timed'[h]),
           \A d \in CallbackRecords :
               d.version = c.version /\ d.kind = kind => CallSound(d, timed'[c.hand]),
           entries' \in [Tables -> EntryRecords],
           \A h \in Tables : h # c.hand => entries'[h] = entries[h],
           EntrySound(entries'[c.hand], timed'[c.hand]), EntryAdvances(c.hand),
           entries'[c.hand].pending = "expire" <=> entries[c.hand].pending = "expire",
           UNCHANGED <<sweep, actions>>
    PROVE  TimersInv' /\ \A h \in Tables : EntryAdvances(h)
<1> DEFINE d == [c EXCEPT !.kind = kind]
<1>1. d \in CallbackRecords /\ d.hand = c.hand /\ d.version = c.version /\ d.kind = kind
  BY CallKnown DEF CallbackRecords
<1>2. callbacks' = (callbacks \ {c}) \cup {d}
  BY DEF Becomes
<1> HIDE DEF d
<1>3. c.hand \in Tables /\ entries \in [Tables -> EntryRecords]
  BY CallKnown DEF TimersInv, RecordsTyped
<1>4. RecordsTyped'
  BY <1>1, <1>2, <1>3 DEF TimersInv, RecordsTyped
<1>5. SoundSteps
  BY <1>1, <1>2, <1>4 DEF SoundSteps
<1>6. TimersInv'
  BY <1>5, QuietSteps
<1>7. \A h \in Tables : EntryAdvances(h)
  BY NothingFollows
<1> QED
  BY <1>6, <1>7

(* An entry that stays as it is. *)
LEMMA EntryStays ==
    ASSUME TimersInv, NEW c \in callbacks, UNCHANGED entries, timed' \in [Tables -> TimedRecords],
           \A h \in Tables : Grows(timed[h], timed'[h]) /\ TimedSound(timed'[h])
    PROVE  /\ entries' \in [Tables -> EntryRecords] /\ EntryAdvances(c.hand)
           /\ EntrySound(entries'[c.hand], timed'[c.hand])
<1>1. /\ c.hand \in Tables /\ entries \in [Tables -> EntryRecords] /\ entries[c.hand] \in EntryRecords
      /\ timed[c.hand] \in TimedRecords /\ timed'[c.hand] \in TimedRecords
      /\ EntrySound(entries[c.hand], timed[c.hand])
  BY CallKnown, HandKnown
<1>2. EntrySound(entries[c.hand], timed'[c.hand])
  BY <1>1, GrowthKeeps
<1> QED
  BY <1>1, <1>2, NothingFollows

LEMMA AdvanceKeeps ==
    ASSUME TimersInv, NEW c \in callbacks, Advance(c)
    PROVE  TimersInv' /\ \A h \in Tables : EntryAdvances(h)
<1> USE CallKnown, HandKnown
<1> DEFINE h == c.hand
<1>0. UNCHANGED <<entries, sweep, actions>>
  BY DEF Advance
<1>1. ASSUME c.kind = "win", Becomes(c, "play"),
             timed' = IF timed[h].phase = "bidding" THEN [timed EXCEPT ![h].phase = "playing"] ELSE timed
      PROVE  TimersInv' /\ \A g \in Tables : EntryAdvances(g)
  <2>1. /\ timed' \in [Tables -> TimedRecords] /\ \A g \in Tables : g # h => timed'[g] = timed[g]
        /\ timed'[h].live = timed[h].live /\ timed'[h].version = timed[h].version
        /\ timed'[h].won = timed[h].won
        /\ timed'[h].phase = (IF timed[h].phase = "bidding" THEN "playing" ELSE timed[h].phase)
    BY <1>1 DEF TimedRecords
  <2>2. TimedSound(timed'[h]) /\ Grows(timed[h], timed'[h])
    BY <2>1 DEF TimedSound, Grows, TimedRecords
  <2>3. \A g \in Tables : Grows(timed[g], timed'[g]) /\ TimedSound(timed'[g])
    BY <2>1, <2>2 DEF Grows, TimedRecords
  <2>4. \A d \in CallbackRecords : d.version = c.version /\ d.kind = "play" => CallSound(d, timed'[h])
    BY <1>1, <2>1 DEF CallSound, TimedRecords
  <2>5. "play" \in CallbackKinds
    BY DEF CallbackKinds
  <2> HIDE DEF h
  <2> QED
    BY <1>0, <1>1, <2>1, <2>3, <2>4, <2>5, EntryStays, CallBecomes DEF h
<1>2. ASSUME c.kind = "last", Becomes(c, "forget"),
             IF HandEnded(h) THEN UNCHANGED timed ELSE EndedBy(h, "last")
      PROVE  TimersInv' /\ \A g \in Tables : EntryAdvances(g)
  <2>1. /\ timed' \in [Tables -> TimedRecords] /\ timed'[h].phase = "ended"
        /\ \A g \in Tables : Grows(timed[g], timed'[g]) /\ TimedSound(timed'[g])
    BY <1>2, EndedIsSound, UnchangedGames DEF HandEnded
  <2>2. timed'[h].version >= c.version
    BY <2>1 DEF Grows, CallSound, TimedRecords
  <2>3. \A d \in CallbackRecords : d.version = c.version /\ d.kind = "forget" => CallSound(d, timed'[h])
    BY <2>1, <2>2 DEF CallSound, TimedRecords, CallbackRecords
  <2>4. "forget" \in CallbackKinds
    BY DEF CallbackKinds
  <2> QED
    BY <1>0, <1>2, <2>1, <2>3, <2>4, EntryStays, CallBecomes
<1> QED
  BY <1>1, <1>2 DEF Advance

LEMMA TerminateKeeps ==
    ASSUME TimersInv, NEW c \in callbacks, Terminate(c)
    PROVE  TimersInv' /\ \A h \in Tables : EntryAdvances(h)
<1> USE CallKnown, HandKnown
<1> DEFINE e == entries[c.hand]
<1>0. UNCHANGED <<timed, sweep, actions>> /\ "abort" \in CallbackKinds
  BY DEF Terminate, CallbackKinds
<1>1. /\ timed' \in [Tables -> TimedRecords]
      /\ \A g \in Tables : Grows(timed[g], timed'[g]) /\ TimedSound(timed'[g])
      /\ \A d \in CallbackRecords : d.version = c.version /\ d.kind = "abort" => CallSound(d, timed'[c.hand])
  BY <1>0, UnchangedGames DEF CallSound
<1>2. CASE Returned(c) /\ UNCHANGED entries
  BY <1>0, <1>2, TimerKept
<1>3. CASE Becomes(c, "abort") /\ UNCHANGED entries
  BY <1>0, <1>1, <1>3, EntryStays, CallBecomes
<1>4. CASE HandEnded(c.hand) /\ Returned(c) /\ Forgotten(c.hand)
  BY <1>0, <1>4, ForgottenIsSound, TimerSet DEF Forgotten
<1>5. ASSUME e.pending = "none", Becomes(c, "abort"),
             entries' = [entries EXCEPT ![c.hand].pending = "abort", ![c.hand].kept = TRUE]
      PROVE  TimersInv' /\ \A h \in Tables : EntryAdvances(h)
  <2>1. /\ entries' \in [Tables -> EntryRecords] /\ \A h \in Tables : h # c.hand => entries'[h] = entries[h]
        /\ entries'[c.hand].phase = e.phase /\ entries'[c.hand].version = e.version
        /\ entries'[c.hand].due = e.due /\ entries'[c.hand].pending = "abort" /\ entries'[c.hand].kept
    BY <1>5 DEF EntryRecords
  <2>2. EntrySound(entries'[c.hand], timed'[c.hand])
    BY <1>0, <2>1 DEF EntrySound
  <2>3. EntryAdvances(c.hand)
    BY <2>1 DEF EntryAdvances, Follows, EntryRecords
  <2>4. entries'[c.hand].pending = "expire" <=> entries[c.hand].pending = "expire"
    BY <1>5, <2>1
  <2>5. /\ "abort" \in CallbackKinds /\ Becomes(c, "abort") /\ UNCHANGED <<sweep, actions>>
        /\ entries' \in [Tables -> EntryRecords] /\ \A h \in Tables : h # c.hand => entries'[h] = entries[h]
    BY <1>0, <1>5, <2>1
  <2> HIDE DEF e
  <2> HIDE CallKnown, HandKnown
  <2> QED
    BY <1>1, <2>2, <2>3, <2>4, <2>5, CallBecomes, Zenon
<1> QED
  BY <1>2, <1>3, <1>4, <1>5 DEF Terminate

LEMMA AbortPendingKeeps ==
    ASSUME TimersInv, NEW c \in callbacks, AbortPending(c)
    PROVE  TimersInv' /\ \A h \in Tables : EntryAdvances(h)
<1> USE CallKnown, HandKnown
<1>1. Returned(c) /\ UNCHANGED <<sweep, actions>>
  BY DEF AbortPending
<1>2. /\ timed' \in [Tables -> TimedRecords] /\ timed'[c.hand].phase = "ended"
      /\ \A g \in Tables : Grows(timed[g], timed'[g]) /\ TimedSound(timed'[g])
  BY EndedIsSound, UnchangedGames DEF AbortPending, HandEnded
<1>3. UNCHANGED entries \/ entries' = [entries EXCEPT ![c.hand] = Untracked]
  BY DEF AbortPending, Forgotten
<1>4. EntrySound(Untracked, timed'[c.hand]) /\ Follows(Untracked, entries[c.hand])
  BY <1>2, ForgottenIsSound
<1>5. /\ entries' \in [Tables -> EntryRecords]
      /\ \A h \in Tables : entries'[h] # entries[h] => h = c.hand /\ entries'[h] = Untracked
  BY <1>3, ValuesAreTyped
<1>6. RecordsTyped'
  BY <1>1, <1>2, <1>5 DEF TimersInv, RecordsTyped, Returned
<1>7. SoundSteps
  BY <1>1, <1>2, <1>4, <1>5, <1>6 DEF SoundSteps, Returned
<1>8. \A h \in Tables : EntryAdvances(h)
  BY <1>4, <1>5, NothingFollows DEF EntryAdvances
<1>9. TimersInv'
  BY <1>1, <1>2, <1>5, <1>7, QuietSteps
<1> QED
  BY <1>8, <1>9

-----------------------------------------------------------------------------
(* Steps of the sweep. *)
LEMMA NextHandIsSound ==
    ASSUME TimersInv, sweep.at # "rest"
    PROVE  /\ NextHand \in SweepRecords /\ NextHand.at \in {"rest", "refresh"}
           /\ NextHand.at = "rest" <=> NextHand.due = {}
<1>0. sweep.due \subseteq Tables /\ sweep.due # {}
  BY DEF TimersInv, RecordsTyped, SweepRecords, SweepIsSound
<1>1. CASE sweep.due = {Swept}
  BY <1>1, ValuesAreTyped DEF NextHand
<1>2. CASE sweep.due # {Swept}
  <2> DEFINE next == [at |-> "refresh", due |-> sweep.due \ {Swept}, seen |-> Untracked]
  <2>1. next \in SweepRecords /\ next.at = "refresh" /\ next.due = sweep.due \ {Swept}
    BY <1>0, ValuesAreTyped DEF SweepRecords
  <2>2. NextHand = next
    BY <1>2 DEF NextHand, NoSweep
  <2>3. next.due # {}
    BY <1>0, <1>2, <2>1
  <2> QED
    BY <2>1, <2>2, <2>3
<1> QED
  BY <1>1, <1>2

(* The sweep is between two decisions, and claims no hand. *)
LEMMA SweepIdles ==
    ASSUME TimersInv, SoundSteps, sweep'.at \in {"rest", "refresh"},
           sweep'.at = "rest" <=> sweep'.due = {},
           \A h \in Tables : timed'[h].phase # "ended" => entries'[h].pending # "expire"
    PROVE  TimersInv'
<1>1. GamesAreSound' /\ EntriesAreSound' /\ CallsAreSound' /\ RecordsTyped'
  BY SoundStepsKeep DEF SoundSteps
<1>2. SweepIsSound' /\ SweepClaims'
  BY DEF SweepIsSound, SweepClaims, HandEnded
<1> QED
  BY <1>1, <1>2 DEF TimersInv

(* Steps of the sweep that change no game. *)
LEMMA SweepSteps ==
    ASSUME TimersInv, sweep' \in SweepRecords, entries' \in [Tables -> EntryRecords],
           \A h \in Tables : entries'[h] # entries[h] => EntrySound(entries'[h], timed[h]),
           UNCHANGED <<timed, callbacks, actions>>
    PROVE  SoundSteps
<1>1. RecordsTyped'
  BY DEF TimersInv, RecordsTyped
<1> QED
  BY <1>1, UnchangedGames DEF SoundSteps

LEMMA StartSweepKeeps ==
    ASSUME TimersInv, StartSweep
    PROVE  TimersInv' /\ \A h \in Tables : EntryAdvances(h)
<1> USE HandKnown
<1>1. /\ sweep' \in SweepRecords /\ sweep'.at = "refresh" /\ sweep'.due # {} /\ sweep.at = "rest"
      /\ UNCHANGED <<timed, entries, callbacks, actions>>
  BY ValuesAreTyped DEF StartSweep, SweepRecords, Overdue
<1>2. SoundSteps
  BY <1>1, SweepSteps DEF TimersInv, RecordsTyped
<1>3. \A h \in Tables : timed'[h].phase # "ended" => entries'[h].pending # "expire"
  BY <1>1 DEF TimersInv, SweepClaims, HandEnded
<1> QED
  BY <1>1, <1>2, <1>3, SweepIdles, NothingFollows

(* What was read of a game that goes on. *)
LEMMA RefreshedIsSound ==
    ASSUME TimersInv, NEW h \in Tables, ~Over(h), entries' = Refreshed(h)
    PROVE  /\ entries' \in [Tables -> EntryRecords] /\ \A g \in Tables : g # h => entries'[g] = entries[g]
           /\ entries'[h].phase = timed[h].live /\ entries'[h].version = timed[h].version
           /\ entries'[h].pending = "none" /\ ~entries'[h].due /\ entries'[h].kept
<1>1. timed[h].live \in {"bidding", "playing"} /\ timed[h].version \in Nat
  BY HandKnown DEF Over, TimedRecords
<1> DEFINE e == Entry(timed[h].live, timed[h].version)
<1>2. /\ e \in EntryRecords /\ e.phase = timed[h].live /\ e.version = timed[h].version /\ ~e.due
      /\ e.pending = "none" /\ e.kept
  BY <1>1, EntryIsTyped
<1>3. entries' = [entries EXCEPT ![h] = e]
  BY DEF Refreshed
<1> HIDE DEF e
<1> QED
  BY <1>2, <1>3, HandKnown

LEMMA RefreshedTellsGame ==
    ASSUME TimersInv, NEW h \in Tables, ~Over(h), NEW e \in EntryRecords,
           e.phase = timed[h].live, e.version = timed[h].version, e.kept
    PROVE  EntrySound(e, timed[h])
<1>1. timed[h] \in TimedRecords /\ TimedSound(timed[h])
  BY HandKnown
<1> QED
  BY <1>1 DEF Over, HandEnded, TimedSound, EntrySound, TimedRecords

(* A hand whose entry is overdue gets the deadline of a newer move. *)
LEMMA RefreshedFollows ==
    ASSUME TimersInv, NEW h \in Tables, ~Over(h), entries' = Refreshed(h),
           entries[h].pending # "none" \/ timed[h].version > entries[h].version
    PROVE  EntryAdvances(h) /\ EntrySound(entries'[h], timed[h])
<1>1. /\ entries'[h].phase = timed[h].live /\ entries'[h].version = timed[h].version
      /\ entries'[h].kept /\ entries'[h] \in EntryRecords
  BY RefreshedIsSound
<1>2. EntrySound(entries'[h], timed[h])
  BY <1>1, RefreshedTellsGame
<1>3. EntryAdvances(h)
  BY <1>1, HandKnown DEF EntryAdvances, Follows, EntrySound, TimedSound, EntryRecords, TimedRecords
<1> QED
  BY <1>2, <1>3

LEMMA RefreshKeeps ==
    ASSUME TimersInv, Refresh
    PROVE  TimersInv' /\ \A h \in Tables : EntryAdvances(h)
<1> USE HandKnown
<1> DEFINE h == Swept
<1>1. UNCHANGED <<timed, callbacks, actions>> /\ sweep.at = "refresh"
  BY DEF Refresh
<1>2. \A g \in Tables : timed'[g].phase # "ended" => entries[g].pending # "expire"
  BY <1>1 DEF TimersInv, SweepClaims, HandEnded
<1>3. /\ entries \in [Tables -> EntryRecords] /\ NoSweep \in SweepRecords /\ NextHand \in SweepRecords
      /\ NoSweep.at \in {"rest", "refresh"} /\ NextHand.at \in {"rest", "refresh"}
      /\ NoSweep.at = "rest" <=> NoSweep.due = {}
      /\ NextHand.at = "rest" <=> NextHand.due = {}
  BY <1>1, ValuesAreTyped, NextHandIsSound DEF TimersInv, RecordsTyped
<1>4. ASSUME UNCHANGED entries, sweep' \in {NoSweep, NextHand}
      PROVE  TimersInv' /\ \A g \in Tables : EntryAdvances(g)
  <2>1. SoundSteps
    BY <1>1, <1>3, <1>4, SweepSteps
  <2>2. sweep'.at \in {"rest", "refresh"} /\ (sweep'.at = "rest" <=> sweep'.due = {})
    BY <1>3, <1>4, NextHandIsSound, ValuesAreTyped, <1>1
  <2> QED
    BY <1>2, <1>4, <2>1, <2>2, SweepIdles, NothingFollows
<1>5. ASSUME h \in Overdue, ~Over(h), timed[h].version > entries[h].version,
             sweep' = NextHand, entries' = Refreshed(h)
      PROVE  TimersInv' /\ \A g \in Tables : EntryAdvances(g)
  <2>0. h \in Tables
    BY <1>5 DEF Overdue
  <2> HIDE DEF h
  <2>1. /\ entries' \in [Tables -> EntryRecords] /\ \A g \in Tables : g # h => entries'[g] = entries[g]
        /\ entries'[h].pending = "none"
    BY <1>5, <2>0, RefreshedIsSound
  <2>2. EntryAdvances(h) /\ EntrySound(entries'[h], timed[h])
    BY <1>5, <2>0, RefreshedFollows
  <2>3. SoundSteps
    BY <1>1, <1>3, <1>5, <2>1, <2>2, SweepSteps
  <2>4. sweep'.at \in {"rest", "refresh"} /\ (sweep'.at = "rest" <=> sweep'.due = {})
    BY <1>1, <1>5, NextHandIsSound
  <2>5. \A g \in Tables : timed'[g].phase # "ended" => entries'[g].pending # "expire"
    BY <1>2, <2>1
  <2>6. \A g \in Tables : EntryAdvances(g)
    BY <2>1, <2>2, NothingFollows
  <2> QED
    BY <2>3, <2>4, <2>5, <2>6, SweepIdles
<1>6. ASSUME h \in Overdue, sweep' = [sweep EXCEPT !.at = "decide", !.seen = entries[h]], UNCHANGED entries
      PROVE  TimersInv' /\ \A g \in Tables : EntryAdvances(g)
  <2>1. h \in Tables /\ entries[h].kept
    BY <1>6 DEF Overdue, EntrySound
  <2>2. /\ sweep' \in SweepRecords /\ sweep'.at = "decide" /\ sweep'.due = sweep.due
        /\ sweep'.seen = entries[h]
    BY <1>6, <2>1 DEF TimersInv, RecordsTyped, SweepRecords
  <2>3. Swept' = Swept
    BY <2>2 DEF Swept, First
  <2>4. SoundSteps
    BY <1>1, <1>3, <1>6, <2>2, SweepSteps
  <2>5. SweepIsSound'
    BY <1>1, <2>1, <2>2, <2>3 DEF TimersInv, SweepIsSound
  <2>6. SweepClaims'
    BY <1>1, <1>2, <1>6, <2>2 DEF SweepClaims, HandEnded
  <2> QED
    BY <1>6, <2>4, <2>5, <2>6, SoundStepsKeep, NothingFollows DEF TimersInv, SoundSteps
<1> QED
  BY <1>4, <1>5, <1>6 DEF Refresh

LEMMA DecideExpiryKeeps ==
    ASSUME TimersInv, DecideExpiry
    PROVE  TimersInv' /\ \A h \in Tables : EntryAdvances(h)
<1> USE HandKnown
<1> DEFINE h == Swept
<1>1. UNCHANGED <<timed, callbacks, actions>> /\ sweep.at = "decide" /\ h \in Tables /\ sweep.seen.kept
  BY DEF DecideExpiry, TimersInv, SweepIsSound
<1>2. \A g \in Tables : timed'[g].phase # "ended" => entries[g].pending # "expire"
  BY <1>1 DEF TimersInv, SweepClaims, HandEnded
<1>3. /\ entries \in [Tables -> EntryRecords] /\ Untracked \in EntryRecords
      /\ Untracked.pending = "none"
  BY ValuesAreTyped DEF TimersInv, RecordsTyped
<1>4. /\ NextHand \in SweepRecords /\ NextHand.at \in {"rest", "refresh"}
      /\ NextHand.at = "rest" <=> NextHand.due = {}
  BY <1>1, NextHandIsSound
<1>5. ASSUME UNCHANGED entries, sweep' = NextHand
      PROVE  TimersInv' /\ \A g \in Tables : EntryAdvances(g)
  <2>1. SoundSteps
    BY <1>1, <1>3, <1>4, <1>5, SweepSteps
  <2> QED
    BY <1>2, <1>4, <1>5, <2>1, SweepIdles, NothingFollows
<1>6. ASSUME Forgotten(h), sweep' = NextHand
      PROVE  TimersInv' /\ \A g \in Tables : EntryAdvances(g)
  <2>1. /\ entries' \in [Tables -> EntryRecords] /\ \A g \in Tables : g # h => entries'[g] = entries[g]
        /\ entries'[h] = Untracked
    BY <1>1, <1>3, <1>6 DEF Forgotten
  <2>2. EntrySound(Untracked, timed[h]) /\ Follows(Untracked, entries[h])
    BY <1>1, ForgottenIsSound
  <2> HIDE DEF h
  <2>3. SoundSteps
    BY <1>1, <1>3, <1>4, <1>6, <2>1, <2>2, SweepSteps
  <2>4. \A g \in Tables : timed'[g].phase # "ended" => entries'[g].pending # "expire"
    BY <1>2, <1>3, <2>1
  <2>5. \A g \in Tables : EntryAdvances(g)
    BY <2>1, <2>2, NothingFollows DEF EntryAdvances
  <2> QED
    BY <1>4, <1>6, <2>3, <2>4, <2>5, SweepIdles
<1>7. ASSUME entries[h] = sweep.seen, sweep' = [sweep EXCEPT !.at = "expire"],
             entries' = [entries EXCEPT ![h].pending = "expire"]
      PROVE  TimersInv' /\ \A g \in Tables : EntryAdvances(g)
  <2>1. /\ entries' \in [Tables -> EntryRecords] /\ \A g \in Tables : g # h => entries'[g] = entries[g]
        /\ entries'[h].phase = entries[h].phase /\ entries'[h].version = entries[h].version
        /\ entries'[h].due = entries[h].due /\ entries'[h].kept = entries[h].kept
        /\ entries'[h].pending = "expire"
    BY <1>1, <1>3, <1>7 DEF EntryRecords
  <2>2. sweep' \in SweepRecords /\ sweep'.at = "expire" /\ sweep'.due = sweep.due
    BY <1>7 DEF TimersInv, RecordsTyped, SweepRecords
  <2>3. Swept' = Swept
    BY <2>2 DEF Swept, First
  <2>4. EntrySound(entries'[h], timed[h])
    BY <1>1, <1>7, <2>1 DEF EntrySound
  <2>5. \A g \in Tables : entries'[g] # entries[g] => EntrySound(entries'[g], timed[g])
    BY <2>1, <2>4
  <2>6. SoundSteps
    BY <1>1, <2>1, <2>2, <2>5, SweepSteps
  <2>7. SweepIsSound'
    BY <1>1, <2>2, <2>3 DEF TimersInv, SweepIsSound
  <2>8. SweepClaims'
    BY <1>1, <1>2, <2>1, <2>2, <2>3 DEF SweepClaims, HandEnded
  <2>9. EntryAdvances(h)
    BY <1>1, <2>1 DEF EntryAdvances, Follows, EntryRecords
  <2>10. \A g \in Tables : EntryAdvances(g)
    BY <2>1, <2>9, NothingFollows
  <2> QED
    BY <2>6, <2>7, <2>8, <2>10, SoundStepsKeep DEF TimersInv, SoundSteps
<1> QED
  BY <1>5, <1>6, <1>7 DEF DecideExpiry

LEMMA ExpireOverdueKeeps ==
    ASSUME TimersInv, ExpireOverdue
    PROVE  TimersInv' /\ \A h \in Tables : EntryAdvances(h)
<1> USE HandKnown
<1> DEFINE h == Swept
           e == Retired(entries[h])
<1>1. /\ UNCHANGED <<callbacks, actions>> /\ sweep.at = "expire" /\ h \in Tables
      /\ entries \in [Tables -> EntryRecords] /\ timed \in [Tables -> TimedRecords]
      /\ callbacks \in SUBSET CallbackRecords /\ actions \in 0 .. MaxActions
  BY DEF ExpireOverdue, TimersInv, RecordsTyped, SweepIsSound
<1>2. /\ ~HandEnded(h) => entries[h].pending = "expire"
      /\ \A g \in Tables : g # h /\ ~HandEnded(g) => entries[g].pending # "expire"
  BY <1>1 DEF TimersInv, SweepClaims
<1>3. /\ NextHand \in SweepRecords /\ NextHand.at \in {"rest", "refresh"}
      /\ NextHand.at = "rest" <=> NextHand.due = {}
      /\ NoSweep \in SweepRecords /\ NoSweep.at \in {"rest", "refresh"}
      /\ NoSweep.at = "rest" <=> NoSweep.due = {}
  BY <1>1, NextHandIsSound, ValuesAreTyped
<1>4. ASSUME HandEnded(h), sweep' = NoSweep, UNCHANGED <<timed, entries>>
      PROVE  TimersInv' /\ \A g \in Tables : EntryAdvances(g)
  <2>1. SoundSteps
    BY <1>1, <1>3, <1>4, SweepSteps
  <2>2. \A g \in Tables : timed'[g].phase # "ended" => entries'[g].pending # "expire"
    BY <1>2, <1>4 DEF HandEnded
  <2> QED
    BY <1>3, <1>4, <2>1, <2>2, SweepIdles, NothingFollows
<1>5. ASSUME EndedBy(h, "expire"), Forgotten(h), sweep' = NextHand
      PROVE  TimersInv' /\ \A g \in Tables : EntryAdvances(g)
  <2>1. /\ timed' \in [Tables -> TimedRecords] /\ timed'[h].phase = "ended"
        /\ \A g \in Tables : Grows(timed[g], timed'[g]) /\ TimedSound(timed'[g])
    BY <1>1, <1>5, EndedIsSound
  <2>2. /\ entries' \in [Tables -> EntryRecords] /\ \A g \in Tables : g # h => entries'[g] = entries[g]
        /\ entries'[h] = Untracked
    BY <1>1, <1>5, ValuesAreTyped DEF Forgotten
  <2>3. EntrySound(Untracked, timed'[h]) /\ Follows(Untracked, entries[h])
    BY <1>1, <2>1, ForgottenIsSound
  <2> HIDE DEF h
  <2>4. RecordsTyped'
    BY <1>1, <1>3, <1>5, <2>1, <2>2 DEF RecordsTyped
  <2>5. SoundSteps
    BY <1>1, <2>1, <2>2, <2>3, <2>4 DEF SoundSteps
  <2>6. \A g \in Tables : timed'[g].phase # "ended" => entries'[g].pending # "expire"
    BY <1>2, <2>1, <2>2 DEF HandEnded, Grows
  <2>7. \A g \in Tables : EntryAdvances(g)
    BY <2>2, <2>3, NothingFollows DEF EntryAdvances
  <2> QED
    BY <1>3, <1>5, <2>5, <2>6, <2>7, SweepIdles
<1>6. ASSUME ~HandEnded(h), entries' = [entries EXCEPT ![h] = e], sweep' = NoSweep, UNCHANGED timed
      PROVE  TimersInv' /\ \A g \in Tables : EntryAdvances(g)
  <2>1. /\ e \in EntryRecords /\ e.phase = entries[h].phase /\ e.version = entries[h].version
        /\ e.due = entries[h].due /\ e.kept = entries[h].kept /\ e.pending = "none"
    BY <1>1 DEF Retired, EntryRecords
  <2>2. EntrySound(e, timed[h]) /\ Follows(e, entries[h])
    BY <1>1, <1>2, <1>6, <2>1 DEF EntrySound, Follows
  <2> HIDE DEF e, h
  <2>3. /\ entries' \in [Tables -> EntryRecords] /\ \A g \in Tables : g # h => entries'[g] = entries[g]
        /\ entries'[h] = e
    BY <1>1, <1>6, <2>1
  <2>4. SoundSteps
    BY <1>1, <1>3, <1>6, <2>2, <2>3, SweepSteps
  <2>5. \A g \in Tables : timed'[g].phase # "ended" => entries'[g].pending # "expire"
    BY <1>2, <1>6, <2>1, <2>3 DEF HandEnded
  <2>6. \A g \in Tables : EntryAdvances(g)
    BY <2>2, <2>3, NothingFollows DEF EntryAdvances
  <2> QED
    BY <1>3, <1>6, <2>4, <2>5, <2>6, SweepIdles
<1>7. ASSUME ~HandEnded(h), ~Over(h), sweep' = NextHand, UNCHANGED timed, entries' = Refreshed(h)
      PROVE  TimersInv' /\ \A g \in Tables : EntryAdvances(g)
  <2> HIDE DEF h
  <2>1. /\ entries' \in [Tables -> EntryRecords] /\ \A g \in Tables : g # h => entries'[g] = entries[g]
        /\ entries'[h].pending = "none"
    BY <1>1, <1>7, RefreshedIsSound
  <2>2. EntryAdvances(h) /\ EntrySound(entries'[h], timed[h])
    BY <1>1, <1>2, <1>7, RefreshedFollows
  <2>3. SoundSteps
    BY <1>1, <1>3, <1>7, <2>1, <2>2, SweepSteps
  <2>4. \A g \in Tables : timed'[g].phase # "ended" => entries'[g].pending # "expire"
    BY <1>2, <1>7, <2>1 DEF HandEnded
  <2>5. \A g \in Tables : EntryAdvances(g)
    BY <2>1, <2>2, NothingFollows
  <2> QED
    BY <1>3, <1>7, <2>3, <2>4, <2>5, SweepIdles
<1>8. e.pending = "none"
  BY <1>1 DEF Retired, EntryRecords
<1> HIDE DEF e
<1> QED
  BY <1>4, <1>5, <1>6, <1>7, <1>8 DEF ExpireOverdue, e

-----------------------------------------------------------------------------
(* A restart builds every entry anew.  Entries of recovered games have     *)
(* version 0, which is older than any winning bid.                         *)
LEMMA RestartKeeps == ASSUME TimersInv, Restart PROVE TimersInv'
<1> USE HandKnown
<1>1. callbacks' = {} /\ sweep' = NoSweep /\ actions' \in 0 .. MaxActions
  BY Acts DEF Restart
<1>2. ASSUME NEW h \in Tables
      PROVE  /\ timed'[h] \in TimedRecords /\ Grows(timed[h], timed'[h]) /\ TimedSound(timed'[h])
             /\ entries'[h] \in EntryRecords /\ EntrySound(entries'[h], timed'[h])
             /\ entries'[h].pending = "none"
  <2>1. CASE HandEnded(h)
    <3>1. timed'[h] = timed[h] /\ entries'[h] = Untracked
      BY <2>1 DEF Restart
    <3> QED
      BY <3>1, ValuesAreTyped, ForgottenIsSound DEF Grows, TimedRecords
  <2>2. CASE ~HandEnded(h) /\ Over(h)
    <3>1. /\ timed'[h] \in TimedRecords /\ timed'[h].phase = "ended" /\ timed'[h].live = "over"
          /\ timed'[h].version = timed[h].version /\ timed'[h].won = timed[h].won
          /\ entries'[h] = Untracked
      BY <2>2 DEF Restart, TimedRecords, Over
    <3>2. TimedSound(timed'[h]) /\ Grows(timed[h], timed'[h])
      BY <3>1 DEF TimedSound, Grows, TimedRecords
    <3> QED
      BY <3>1, <3>2, ValuesAreTyped, ForgottenIsSound
  <2>3. CASE ~HandEnded(h) /\ ~Over(h)
    <3>0. timed[h].live \in {"bidding", "playing"} /\ 0 \in Nat
      BY <2>3 DEF Over, TimedRecords
    <3>1. /\ timed'[h] \in TimedRecords /\ timed'[h].phase = timed[h].live
          /\ timed'[h].live = timed[h].live
          /\ timed'[h].version = timed[h].version /\ timed'[h].won = timed[h].won
          /\ entries'[h] = Entry(timed[h].live, 0)
      BY <2>3, <3>0 DEF Restart, TimedRecords
    <3>2. TimedSound(timed'[h]) /\ Grows(timed[h], timed'[h])
      BY <2>3, <3>0, <3>1 DEF TimedSound, Grows, TimedRecords, HandEnded
    <3>3. /\ entries'[h] \in EntryRecords /\ entries'[h].phase = timed[h].live
          /\ entries'[h].version = 0 /\ entries'[h].pending = "none" /\ entries'[h].kept
      BY <3>0, <3>1, EntryIsTyped
    <3>4. EntrySound(entries'[h], timed'[h])
      BY <2>3, <3>0, <3>1, <3>3 DEF EntrySound, TimedSound, TimedRecords, HandEnded
    <3> QED
      BY <3>1, <3>2, <3>3, <3>4
  <2> QED
    BY <2>1, <2>2, <2>3
<1>3. /\ timed'   = [h \in Tables |-> timed'[h]]
      /\ entries' = [h \in Tables |-> entries'[h]]
  BY DEF Restart
<1>4. RecordsTyped'
  BY <1>1, <1>2, <1>3, ValuesAreTyped DEF RecordsTyped
<1>5. SoundSteps
  BY <1>1, <1>2, <1>4 DEF SoundSteps
<1> QED
  BY <1>1, <1>2, <1>5, ValuesAreTyped, SweepIdles

-----------------------------------------------------------------------------
LEMMA TimersKept ==
    ASSUME TimersInv, [TimersNext]_timerVars
    PROVE  TimersInv' /\ (Restart \/ \A h \in Tables : EntryAdvances(h))
<1>1. CASE SweepRuns
  BY <1>1, StartSweepKeeps, RefreshKeeps, DecideExpiryKeeps, ExpireOverdueKeeps DEF SweepRuns
<1>2. CASE Restart
  BY <1>2, RestartKeeps
<1>3. ASSUME NEW c \in callbacks, CallbackRuns(c)
      PROVE  TimersInv' /\ \A h \in Tables : EntryAdvances(h)
  <2>1. CASE Tracked(c)
    BY <2>1, TrackedKeeps
  <2>2. CASE AfterBid(c) \/ AfterPlay(c)
    BY <2>2, ScheduleKeeps DEF AfterBid, AfterPlay
  <2>3. CASE Advance(c)
    BY <2>3, AdvanceKeeps
  <2>4. CASE ScheduleMissing(c)
    BY <2>4, ScheduleMissingKeeps
  <2>5. CASE ForgetHand(c)
    BY <2>5, ForgetHandKeeps
  <2>6. CASE Terminate(c)
    BY <2>6, TerminateKeeps
  <2>7. CASE AbortPending(c)
    BY <2>7, AbortPendingKeeps
  <2> QED
    BY <1>3, <2>1, <2>2, <2>3, <2>4, <2>5, <2>6, <2>7 DEF CallbackRuns
<1>4. ASSUME NEW h \in Tables, MoveHand(h) \/ Track(h) \/ RetryWin(h) \/ Cancel(h)
      PROVE  TimersInv' /\ \A g \in Tables : EntryAdvances(g)
  <2>1. UNCHANGED entries
    BY <1>4 DEF MoveHand, Track, RetryWin, Cancel
  <2>2. TimersInv'
    BY <1>4, MoveHandKeeps, TrackKeeps, RetryWinKeeps, CancelKeeps
  <2> QED
    BY <2>1, <2>2, NothingFollows
<1>5. ASSUME NEW h \in Tables, Elapse(h) PROVE TimersInv' /\ \A g \in Tables : EntryAdvances(g)
  BY <1>5, ElapseKeeps
<1>6. CASE UNCHANGED timerVars
  <2>1. UNCHANGED <<timed, entries, callbacks, sweep, actions>>
    BY <1>6 DEF timerVars
  <2>2. TimersInv'
    BY <2>1 DEF TimersInv, RecordsTyped, GamesAreSound, EntriesAreSound, CallsAreSound, SweepIsSound,
                SweepClaims, HandEnded, Swept, First
  <2> QED
    BY <2>1, <2>2, NothingFollows
<1> QED
  BY <1>1, <1>2, <1>3, <1>4, <1>5, <1>6 DEF TimersNext

(* The supervisor's entries, its callbacks and the running sweep agree     *)
(* with the games, in every order in which callbacks run (supervisor.go).  *)
THEOREM TimersInvariant == TimersSpec => []TimersInv
<1>1. TimersInit => TimersInv
  BY TimersStart
<1>2. TimersInv /\ [TimersNext]_timerVars => TimersInv'
  BY TimersKept
<1> QED
  BY <1>1, <1>2, PTL DEF TimersSpec

LEMMA TimersWellFormed == TimersInv => TimersTypeOK
  BY HandKnown DEF TimersInv, RecordsTyped, SweepRecords, SweepIsSound, SweepClaims, TimersTypeOK,
                   TimedRecords, EntrySound

(* The state is well formed, no entry is newer than its game, and only the *)
(* hand the sweep expires has a pending expiry (supervisor.go).            *)
THEOREM TimersTypeCorrect == TimersSpec => []TimersTypeOK
  BY TimersWellFormed, TimersInvariant, PTL

(* However late callbacks, retries and sweeps come, the timer of a hand    *)
(* never falls back to an older version or to the bidding, and a deadline  *)
(* that passed is only lifted by a newer move (supervisor.go, schedule and *)
(* refreshCommittedProgress).                                              *)
THEOREM TimersAdvance == TimersSpec => TimersOnlyAdvance
<1> DEFINE Advances ==
        \A h \in Tables :
            entries[h].kept /\ entries[h].pending = "none" /\ entries'[h].kept /\ ~Restart =>
                /\ entries'[h].version >= entries[h].version
                /\ ~(entries[h].phase = "playing" /\ entries'[h].phase = "bidding")
                /\ entries[h].due /\ ~entries'[h].due => entries'[h].version > entries[h].version
<1>1. TimersInv /\ [TimersNext]_timerVars => [Advances]_timerVars
  BY TimersKept DEF EntryAdvances, Follows
<1> QED
  BY <1>1, TimersInvariant, PTL DEF TimersSpec, TimersOnlyAdvance

-----------------------------------------------------------------------------
(* The game *)

(* The cards of each rank the players still hold, or will when those of    *)
(* the landlord are given out.                                             *)
LeftIn(cards, early) ==
    [r \in Ranks |-> cards[1][r] + cards[2][r] + cards[3][r] + (IF early THEN cards[0][r] ELSE 0)]
Left      == LeftIn(held, phase \in {"NEW", "BIDDING"})
RanksLeft == {r \in 0 .. Two : Left[r] > 0}

(* Bids follow one another from the first bidder, and the highest is known *)
(* with its bidder.                                                        *)
AuctionSound ==
    LET acts == auction.actions
    IN  /\ \A i \in 1 .. Len(acts) : acts[i].position = ((auction.first + i - 2) % 3) + 1
        /\ auction.current = ((auction.first + Len(acts) - 1) % 3) + 1
        /\ \A i \in 1 .. Len(acts) : acts[i].score = 3 => i = Len(acts) /\ auction.highest = 3
        /\ auction.highest = 0 => auction.bidder = 0 /\ \A i \in 1 .. Len(acts) : acts[i].score = 0
        /\ auction.highest > 0 =>
               /\ auction.bidder \in Positions
               /\ \E i \in 1 .. Len(acts) :
                     /\ acts[i] = [position |-> auction.bidder, score |-> auction.highest]
                     /\ \A j \in 1 .. Len(acts) :
                           acts[j].score > 0 => j <= i /\ acts[j].score <= auction.highest
        /\ phase \in {"NEW", "BIDDING"} => auction.highest < 3 /\ Len(acts) < 3
        /\ phase \in {"PLAYING", "COMPLETED"} => auction.highest > 0
        /\ phase = "NO_LANDLORD" => auction.highest = 0 /\ Len(acts) = 3

(* The cards are of one deck; a bomb or a rocket that was played is out of *)
(* it; and a player without cards has ended the game.                      *)
CardsSound ==
    /\ \A r \in Ranks : Left[r] <= IF r \in Jokers THEN 1 ELSE 4
    /\ phase \in {"BIDDING", "PLAYING"} => \A p \in Positions : held[p] # NoCards
    /\ phase \in {"NEW", "BIDDING"} => tally.bombs = 0 /\ tally.rockets = 0
    /\ phase = "PLAYING" =>
           /\ tally.bombs + Cardinality(RanksLeft) <= 13
           /\ tally.rockets + (IF Left[13] > 0 THEN 1 ELSE 0) <= 1

(* The trick is a record whose turn is where the lead and the passes put it. *)
TrickSound ==
    /\ trick \in [leader : 0 .. 3, pattern : {trick.pattern}, passes : 0 .. 1, current : 0 .. 3]
    /\ phase = "PLAYING" =>
           /\ trick.current \in Positions
           /\ trick.leader = 0 => trick.passes = 0
           /\ trick.leader # 0 => trick.current = ((trick.leader + trick.passes) % 3) + 1

GameInv == GameTypeOK /\ AuctionSound /\ CardsSound /\ TrickSound /\ SettlementIsZeroSum

-----------------------------------------------------------------------------
(* Cards *)

(* What a player takes from a hand is part of it, and something. *)
LEMMA TakenIsPart ==
    ASSUME NEW b \in [Ranks -> 0 .. 4], NEW c \in SubBags(b)
    PROVE  c \in [Ranks -> 0 .. 4] /\ c # NoCards /\ \A r \in Ranks : c[r] <= b[r]
<1>1. PICK some \in Choices(b) : c = Taken(b, some)
  BY DEF SubBags
<1>2. /\ some[1] \in [RanksWith(b, 1) -> 0 .. 1] /\ some[2] \in [RanksWith(b, 2) -> 0 .. 2]
      /\ some[3] \in [RanksWith(b, 3) -> 0 .. 3] /\ some[4] \in [RanksWith(b, 4) -> 0 .. 4]
  BY DEF Choices
<1>3. ASSUME NEW r \in Ranks
      PROVE  c[r] \in 0 .. 4 /\ c[r] <= b[r]
  <2>1. c[r] = IF b[r] = 0 THEN 0 ELSE some[b[r]][r]
    BY <1>1 DEF Taken
  <2>2. r \in RanksWith(b, b[r])
    BY DEF RanksWith
  <2>3. b[r] = 0 \/ b[r] = 1 \/ b[r] = 2 \/ b[r] = 3 \/ b[r] = 4
    OBVIOUS
  <2>4. b[r] # 0 => some[b[r]][r] \in 0 .. b[r]
    BY <1>2, <2>2, <2>3
  <2> QED
    BY <2>1, <2>3, <2>4
<1>4. c \in [Ranks -> 0 .. 4]
  <2>1. c = [r \in Ranks |-> c[r]]
    BY <1>1 DEF Taken
  <2> QED
    BY <1>3, <2>1
<1>5. c # NoCards
  BY DEF SubBags
<1> QED
  BY <1>3, <1>4, <1>5

(* A bag of one rank is as large as its rank. *)
LEMMA SizeOfOne ==
    ASSUME NEW b \in [Ranks -> 0 .. 4], NEW r \in Ranks, \A q \in Ranks : q # r => b[q] = 0
    PROVE  Size(b) = b[r]
<1>1. \/ r = 0 \/ r = 1 \/ r = 2 \/ r = 3 \/ r = 4 \/ r = 5 \/ r = 6 \/ r = 7 \/ r = 8 \/ r = 9
      \/ r = 10 \/ r = 11 \/ r = 12 \/ r = 13 \/ r = 14
  BY DEF Ranks
<1> QED
  BY <1>1 DEF Size, Ranks

(* The patterns that the settlement counts. *)
LEMMA Counted ==
    ASSUME NEW b
    PROVE  /\ Analyze(b).kind = "BOMB" =>
                  Cardinality(Held(b)) = 1 /\ <<"SINGLE", "PAIR", "TRIPLE", "BOMB">>[Size(b)] = "BOMB"
           /\ Analyze(b).kind = "ROCKET" =>
                  \/ Held(b) = Jokers
                  \/ Cardinality(Held(b)) = 1 /\ <<"SINGLE", "PAIR", "TRIPLE", "BOMB">>[Size(b)] = "ROCKET"
<1> DEFINE Smalls == <<"SINGLE", "PAIR", "TRIPLE", "BOMB">>
<1>1. Smalls = <<"SINGLE", "PAIR", "TRIPLE", "BOMB">>
  OBVIOUS
<1> HIDE DEF Smalls
<1>2. Analyze(b).kind = "BOMB" => Cardinality(Held(b)) = 1 /\ Smalls[Size(b)] = "BOMB"
  BY <1>1, SMT DEF Analyze, Pattern, NoPattern
<1>3. Analyze(b).kind = "ROCKET" =>
        Held(b) = Jokers \/ (Cardinality(Held(b)) = 1 /\ Smalls[Size(b)] = "ROCKET")
  BY <1>1, SMT DEF Analyze, Pattern, NoPattern
<1> QED
  BY <1>1, <1>2, <1>3

(* Bombs and rockets are what the settlement takes them for: all cards of  *)
(* one rank, and both jokers.                                              *)
LEMMA BombsAndRockets ==
    ASSUME NEW b \in [Ranks -> 0 .. 4], \A r \in Jokers : b[r] <= 1
    PROVE  /\ Analyze(b).kind = "BOMB" => \E r \in 0 .. Two : b[r] = 4
           /\ Analyze(b).kind = "ROCKET" => b[13] > 0
<1> DEFINE Smalls == <<"SINGLE", "PAIR", "TRIPLE", "BOMB">>
<1>1. ASSUME Cardinality(Held(b)) = 1
      PROVE  \E r \in Ranks : Size(b) = b[r] /\ b[r] \in 1 .. 4
  <2>1. Held(b) \subseteq 0 .. 14 /\ 0 \in Int /\ 14 \in Int
    BY DEF Held, Ranks
  <2>2. IsFiniteSet(0 .. 14)
    BY <2>1, FS_Interval, Zenon
  <2>3. IsFiniteSet(Held(b))
    BY <2>1, <2>2, FS_Subset, Zenon
  <2>4. PICK r : Held(b) = {r}
    BY <1>1, <2>3, FS_Singleton, Zenon
  <2>5. r \in Ranks /\ b[r] > 0 /\ \A q \in Ranks : q # r => b[q] = 0
    BY <2>4 DEF Held
  <2>6. Size(b) = b[r]
    BY <2>5, SizeOfOne
  <2> QED
    BY <2>5, <2>6
<1>2. ASSUME Analyze(b).kind = "BOMB"
      PROVE  \E r \in 0 .. Two : b[r] = 4
  <2>1. Cardinality(Held(b)) = 1 /\ Smalls[Size(b)] = "BOMB"
    BY <1>2, Counted
  <2>2. PICK r \in Ranks : Size(b) = b[r] /\ b[r] \in 1 .. 4
    BY <1>1, <2>1
  <2>3. b[r] = 4
    BY <2>1, <2>2
  <2>4. r \in 0 .. Two
    BY <2>3 DEF Jokers, Ranks, Two
  <2> QED
    BY <2>3, <2>4
<1>3. ASSUME Analyze(b).kind = "ROCKET"
      PROVE  b[13] > 0
  <2>1. Held(b) = Jokers \/ (Cardinality(Held(b)) = 1 /\ Smalls[Size(b)] = "ROCKET")
    BY <1>3, Counted
  <2>2. Held(b) = Jokers
    BY <1>1, <2>1
  <2> QED
    BY <2>2 DEF Held, Jokers, Ranks
<1> QED
  BY <1>2, <1>3

LEMMA RanksCounted ==
    ASSUME NEW T \in SUBSET (0 .. Two), NEW S \in SUBSET T
    PROVE  /\ Cardinality(S) \in Nat /\ Cardinality(T) \in Nat /\ Cardinality(S) <= Cardinality(T)
           /\ Cardinality(T) <= 13 /\ (S # T => Cardinality(S) < Cardinality(T))
<1>1. 0 \in Int /\ 12 \in Int
  OBVIOUS
<1>2. IsFiniteSet(0 .. 12) /\ Cardinality(0 .. 12) = IF 0 > 12 THEN 0 ELSE 12 - 0 + 1
  BY <1>1, FS_Interval, Zenon
<1>3. T \subseteq 0 .. 12
  BY DEF Two
<1>4. IsFiniteSet(T) /\ Cardinality(T) <= Cardinality(0 .. 12)
  BY <1>2, <1>3, FS_Subset, Zenon
<1>5. IsFiniteSet(S) /\ Cardinality(S) <= Cardinality(T) /\ (Cardinality(T) = Cardinality(S) => T = S)
  BY <1>4, FS_Subset, Zenon
<1>6. Cardinality(S) \in Nat /\ Cardinality(T) \in Nat
  BY <1>4, <1>5, FS_CardinalityType, Zenon
<1> QED
  BY <1>2, <1>4, <1>5, <1>6

LEMMA LeftTyped ==
    ASSUME NEW cards \in [0 .. 3 -> [Ranks -> 0 .. 4]], NEW early
    PROVE  LeftIn(cards, early) \in [Ranks -> Nat]
<1>1. ASSUME NEW r \in Ranks
      PROVE  cards[1][r] + cards[2][r] + cards[3][r] + (IF early THEN cards[0][r] ELSE 0) \in Nat
  <2>1. cards[0][r] \in 0 .. 4 /\ cards[1][r] \in 0 .. 4 /\ cards[2][r] \in 0 .. 4 /\ cards[3][r] \in 0 .. 4
    OBVIOUS
  <2> QED
    BY <2>1
<1> QED
  BY <1>1 DEF LeftIn

-----------------------------------------------------------------------------
(* What the steps of the game keep *)

LEMMA GameKnown ==
    ASSUME GameInv
    PROVE  /\ phase \in {"NEW", "BIDDING", "PLAYING", "NO_LANDLORD", "COMPLETED", "ABORTED"}
           /\ auction \in [first : Positions, current : Positions, highest : 0 .. 3, bidder : 0 .. 3,
                            actions : Seq([position : Positions, score : 0 .. 3])]
           /\ held \in [0 .. 3 -> [Ranks -> 0 .. 4]]
           /\ trick.leader \in 0 .. 3 /\ trick.passes \in 0 .. 1 /\ trick.current \in 0 .. 3
           /\ tally \in [plays : [Positions -> Nat], bombs : Nat, rockets : Nat]
           /\ result \in [winner : 0 .. 3, stake : Nat, points : [Positions -> Int]]
           /\ Left \in [Ranks -> Nat]
<1>1. held \in [0 .. 3 -> [Ranks -> 0 .. 4]]
  BY DEF GameInv, GameTypeOK
<1>2. Left \in [Ranks -> Nat]
  BY <1>1, LeftTyped, Zenon DEF Left
<1> QED
  BY <1>2 DEF GameInv, GameTypeOK

(* A deck leaves room for every bomb and rocket that can still be played.  *)
LEMMA DeckBounds ==
    ASSUME GameInv, phase \in {"BIDDING", "PLAYING"}
    PROVE  /\ tally.bombs + Cardinality(RanksLeft) <= 13 /\ Cardinality(RanksLeft) \in Nat
           /\ tally.rockets + (IF Left[13] > 0 THEN 1 ELSE 0) <= 1
           /\ tally.bombs \in Nat /\ tally.rockets \in Nat
<1>1. RanksLeft \in SUBSET RanksLeft /\ RanksLeft \in SUBSET (0 .. Two)
  BY DEF RanksLeft
<1>2. Cardinality(RanksLeft) \in Nat /\ Cardinality(RanksLeft) <= 13
  BY <1>1, RanksCounted, Zenon
<1>3. tally.bombs \in Nat /\ tally.rockets \in Nat
  BY GameKnown
<1> QED
  BY <1>2, <1>3 DEF GameInv, CardsSound

(* Cards only leave the game, and a bomb or a rocket takes with it the     *)
(* last cards of its rank.                                                 *)
LEMMA CardsKept ==
    ASSUME GameInv, held' \in [0 .. 3 -> [Ranks -> 0 .. 4]], phase' # "NEW",
           \A r \in Ranks : Left'[r] <= Left[r],
           phase' \in {"BIDDING", "PLAYING"} => \A p \in Positions : held'[p] # NoCards,
           phase' = "BIDDING" => tally'.bombs = 0 /\ tally'.rockets = 0,
           phase' = "PLAYING" =>
               /\ phase \in {"BIDDING", "PLAYING"}
               /\ \/ tally'.bombs = tally.bombs
                  \/ /\ tally'.bombs = tally.bombs + 1
                     /\ \E r \in 0 .. Two : Left[r] > 0 /\ Left'[r] = 0
               /\ \/ tally'.rockets = tally.rockets
                  \/ tally'.rockets = tally.rockets + 1 /\ Left[13] > 0 /\ Left'[13] = 0
    PROVE  CardsSound'
<1>1. Left \in [Ranks -> Nat] /\ Left' \in [Ranks -> Nat]
  <2>1. LeftIn(held', (phase \in {"NEW", "BIDDING"})') \in [Ranks -> Nat]
    BY LeftTyped, Zenon
  <2> QED
    BY <2>1, GameKnown, Zenon DEF Left
<1>2. \A r \in Ranks : Left'[r] <= IF r \in Jokers THEN 1 ELSE 4
  BY <1>1 DEF GameInv, CardsSound
<1>3. ASSUME phase' = "PLAYING"
      PROVE  /\ tally'.bombs + Cardinality(RanksLeft') <= 13
             /\ tally'.rockets + (IF Left'[13] > 0 THEN 1 ELSE 0) <= 1
  <2>1. 0 .. Two \subseteq Ranks /\ 13 \in Ranks
    BY DEF Ranks, Two
  <2>2. RanksLeft' \in SUBSET RanksLeft /\ RanksLeft \in SUBSET (0 .. Two)
    BY <1>1, <2>1 DEF RanksLeft
  <2>3. /\ Cardinality(RanksLeft') \in Nat /\ Cardinality(RanksLeft) \in Nat
        /\ Cardinality(RanksLeft') <= Cardinality(RanksLeft)
        /\ RanksLeft' # RanksLeft => Cardinality(RanksLeft') < Cardinality(RanksLeft)
    BY <2>2, RanksCounted, Zenon
  <2>4. /\ tally.bombs + Cardinality(RanksLeft) <= 13 /\ tally.bombs \in Nat /\ tally.rockets \in Nat
        /\ tally.rockets + (IF Left[13] > 0 THEN 1 ELSE 0) <= 1
    BY <1>3, DeckBounds
  <2>5. (\E r \in 0 .. Two : Left[r] > 0 /\ Left'[r] = 0) => RanksLeft' # RanksLeft
    BY <1>1, <2>1 DEF RanksLeft
  <2>6. tally'.bombs + Cardinality(RanksLeft') <= 13
    BY <1>3, <2>3, <2>4, <2>5
  <2>7. tally'.rockets + (IF Left'[13] > 0 THEN 1 ELSE 0) <= 1
    BY <1>1, <1>3, <2>1, <2>4
  <2> QED
    BY <2>6, <2>7
<1> QED
  BY <1>2, <1>3 DEF CardsSound

(* The auction stands while the hand is played, or ends without a result.  *)
LEMMA AuctionStands ==
    ASSUME GameInv, UNCHANGED auction,
           \/ phase' = phase
           \/ phase = "PLAYING" /\ phase' = "COMPLETED"
           \/ phase' = "ABORTED"
    PROVE  AuctionSound'
  BY DEF GameInv, AuctionSound

(* A hand or two of it change nothing of the cards that are left.          *)
LEMMA CardsStand ==
    ASSUME GameInv, UNCHANGED <<held, tally>>, phase' = phase \/ phase' = "ABORTED"
    PROVE  CardsSound'
<1>1. held \in [0 .. 3 -> [Ranks -> 0 .. 4]] /\ Left \in [Ranks -> Nat] /\ Left' \in [Ranks -> Nat]
  BY GameKnown, LeftTyped, Zenon DEF Left
<1>2. CASE phase' = phase
  <2>1. Left' = Left
    BY <1>2 DEF Left
  <2> QED
    BY <1>2, <2>1 DEF GameInv, CardsSound, RanksLeft
<1>3. CASE phase' = "ABORTED"
  <2>1. ASSUME NEW r \in Ranks
        PROVE  Left'[r] <= Left[r]
    <3>1. Left'[r] = held[1][r] + held[2][r] + held[3][r] + 0
      BY <1>3 DEF Left, LeftIn
    <3>2. Left[r] = held[1][r] + held[2][r] + held[3][r]
                    + (IF phase \in {"NEW", "BIDDING"} THEN held[0][r] ELSE 0)
      BY DEF Left, LeftIn
    <3>3. held[0][r] \in 0 .. 4 /\ held[1][r] \in 0 .. 4 /\ held[2][r] \in 0 .. 4 /\ held[3][r] \in 0 .. 4
      BY <1>1
    <3> QED
      BY <3>1, <3>2, <3>3
  <2>2. \A r \in Ranks : Left'[r] <= IF r \in Jokers THEN 1 ELSE 4
    BY <1>1, <2>1 DEF GameInv, CardsSound
  <2> QED
    BY <1>3, <2>2 DEF CardsSound
<1> QED
  BY <1>2, <1>3

LEMMA HeldIsLeft ==
    ASSUME GameInv, NEW p \in Positions, NEW r \in Ranks
    PROVE  /\ held[p][r] \in 0 .. 4 /\ held[p][r] <= Left[r] /\ Left[r] \in Nat
           /\ r \in Jokers => held[p][r] <= 1
<1>1. held[0][r] \in 0 .. 4 /\ held[1][r] \in 0 .. 4 /\ held[2][r] \in 0 .. 4 /\ held[3][r] \in 0 .. 4
  BY GameKnown
<1>2. Left[r] = held[1][r] + held[2][r] + held[3][r]
                + (IF phase \in {"NEW", "BIDDING"} THEN held[0][r] ELSE 0)
  BY DEF Left, LeftIn
<1>3. p = 1 \/ p = 2 \/ p = 3
  BY DEF Positions
<1>4. held[p][r] <= Left[r] /\ held[p][r] \in 0 .. 4 /\ Left[r] \in Nat
  BY <1>1, <1>2, <1>3
<1>5. r \in Jokers => Left[r] <= 1
  BY DEF GameInv, CardsSound
<1> QED
  BY <1>4, <1>5

LEMMA GameStarts == GameInit => GameInv
<1> SUFFICES ASSUME GameInit PROVE GameInv
  OBVIOUS
<1> USE DEF GameInit
<1>1. GameTypeOK
  <2>1. NoCards \in [Ranks -> 0 .. 4] /\ 1 \in Positions
    BY DEF NoCards, Positions
  <2>2. <<>> \in Seq([position : Positions, score : 0 .. 3])
    OBVIOUS
  <2> QED
    BY <2>1, <2>2 DEF GameTypeOK, NewAuction, NewTrick, NoResult, NoPattern, Pattern, Positions
<1>2. AuctionSound
  BY DEF AuctionSound, NewAuction
<1>3. CardsSound
  <2>1. ASSUME NEW r \in Ranks
        PROVE  Left[r] = 0
    BY DEF Left, LeftIn, NoCards
  <2> QED
    BY <2>1 DEF CardsSound
<1>4. TrickSound
  BY DEF TrickSound, NewTrick
<1>5. SettlementIsZeroSum
  BY DEF SettlementIsZeroSum
<1> QED
  BY <1>1, <1>2, <1>3, <1>4, <1>5 DEF GameInv

LEMMA NewKeeps == ASSUME GameInv, NEW deal \in Deals, New(deal) PROVE GameInv'
<1>1. /\ phase = "NEW" /\ phase' = "BIDDING" /\ auction' = NewAuction(deal.first)
      /\ held' = deal.cards /\ UNCHANGED <<trick, tally, result>>
  BY DEF New
<1>2. /\ deal.first \in Positions /\ deal.cards \in [0 .. 3 -> [Ranks -> 0 .. 4]]
      /\ \A p \in Positions : deal.cards[p] # NoCards
  BY DealsAssumption
<1>3. GameTypeOK'
  <2>1. <<>> \in Seq([position : Positions, score : 0 .. 3])
    OBVIOUS
  <2> QED
    BY <1>1, <1>2, <2>1 DEF GameInv, GameTypeOK, NewAuction
<1>4. AuctionSound'
  <2>1. deal.first \in 1 .. 3 /\ deal.first = ((deal.first + 0 - 1) % 3) + 1
    BY <1>2 DEF Positions
  <2> QED
    BY <1>1, <2>1 DEF AuctionSound, NewAuction
<1>5. CardsSound'
  <2>1. ASSUME NEW r \in Ranks
        PROVE  Left'[r] <= IF r \in Jokers THEN 1 ELSE 4
    <3>1. Left'[r] = deal.cards[1][r] + deal.cards[2][r] + deal.cards[3][r] + deal.cards[0][r]
      BY <1>1 DEF Left, LeftIn
    <3>2. deal.cards[0][r] + deal.cards[1][r] + deal.cards[2][r] + deal.cards[3][r]
              <= IF r \in Jokers THEN 1 ELSE 4
      BY DealsAssumption
    <3>3. /\ deal.cards[0][r] \in 0 .. 4 /\ deal.cards[1][r] \in 0 .. 4
          /\ deal.cards[2][r] \in 0 .. 4 /\ deal.cards[3][r] \in 0 .. 4
      BY <1>2
    <3> QED
      BY <3>1, <3>2, <3>3
  <2>2. tally'.bombs = 0 /\ tally'.rockets = 0
    BY <1>1 DEF GameInv, CardsSound
  <2> QED
    BY <1>1, <1>2, <2>1, <2>2 DEF CardsSound
<1>6. TrickSound' /\ SettlementIsZeroSum'
  BY <1>1 DEF GameInv, TrickSound, SettlementIsZeroSum
<1> QED
  BY <1>3, <1>4, <1>5, <1>6 DEF GameInv

LEMMA AbortKeeps == ASSUME GameInv, Abort PROVE GameInv'
<1>1. phase' = "ABORTED" /\ UNCHANGED <<auction, held, trick, tally, result>>
  BY DEF Abort
<1>2. GameTypeOK' /\ TrickSound' /\ SettlementIsZeroSum'
  BY <1>1 DEF GameInv, GameTypeOK, TrickSound, SettlementIsZeroSum
<1>3. AuctionSound'
  BY <1>1, AuctionStands
<1>4. CardsSound'
  BY <1>1, CardsStand
<1> QED
  BY <1>2, <1>3, <1>4 DEF GameInv

LEMMA PassKeeps == ASSUME GameInv, NEW seat \in Positions, Pass(seat) PROVE GameInv'
<1>1. /\ phase = "PLAYING" /\ seat = trick.current /\ trick.leader # 0
      /\ trick' = Passed(seat) /\ UNCHANGED <<phase, auction, held, tally, result>>
  BY DEF Pass, MayPass
<1>2. /\ trick \in [leader : 0 .. 3, pattern : {trick.pattern}, passes : 0 .. 1, current : 0 .. 3]
      /\ trick.current = ((trick.leader + trick.passes) % 3) + 1
      /\ trick.leader \in Positions
  BY <1>1 DEF GameInv, TrickSound, Positions
<1>3. /\ trick' \in [leader : 0 .. 3, pattern : {trick'.pattern}, passes : 0 .. 1, current : 0 .. 3]
      /\ trick'.current \in Positions /\ (trick'.leader = 0 => trick'.passes = 0)
      /\ (trick'.leader # 0 => trick'.current = ((trick'.leader + trick'.passes) % 3) + 1)
  <2>1. CASE trick.passes = 1
    BY <1>1, <1>2, <2>1 DEF Passed, NewTrick, Positions
  <2>2. CASE trick.passes = 0
    <3>1. trick' = [trick EXCEPT !.passes = 1, !.current = Next3(seat)]
      BY <1>1, <2>2 DEF Passed
    <3>2. /\ trick'.leader = trick.leader /\ trick'.passes = 1 /\ trick'.current = Next3(seat)
          /\ trick'.pattern = trick.pattern /\ DOMAIN trick' = DOMAIN trick
          /\ trick' = [leader |-> trick.leader, pattern |-> trick.pattern, passes |-> 1, current |-> Next3(seat)]
      BY <1>2, <3>1
    <3>3. trick.leader \in 1 .. 3 /\ seat = (trick.leader % 3) + 1 /\ Next3(seat) = (seat % 3) + 1
      BY <1>1, <1>2, <2>2 DEF Next3, Positions
    <3>4. Next3(seat) = ((trick.leader + 1) % 3) + 1 /\ Next3(seat) \in Positions
      BY <3>3 DEF Positions
    <3> QED
      BY <1>2, <3>2, <3>4 DEF Positions
  <2> QED
    BY <1>2, <2>1, <2>2
<1>4. TrickSound'
  BY <1>3 DEF TrickSound
<1>5. GameTypeOK' /\ SettlementIsZeroSum'
  BY <1>1, <1>3 DEF GameInv, GameTypeOK, SettlementIsZeroSum
<1>6. AuctionSound'
  BY <1>1, AuctionStands
<1>7. CardsSound'
  BY <1>1, CardsStand
<1> QED
  BY <1>4, <1>5, <1>6, <1>7 DEF GameInv

-----------------------------------------------------------------------------
(* A bid *)

(* Turns are counted from the first bidder. *)
LEMMA TurnsCount ==
    ASSUME NEW f \in 1 .. 3, NEW n \in 0 .. 2
    PROVE  Next3(((f + n - 1) % 3) + 1) = ((f + (n + 1) - 1) % 3) + 1
<1>1. f = 1 \/ f = 2 \/ f = 3
  OBVIOUS
<1>2. n = 0 \/ n = 1 \/ n = 2
  OBVIOUS
<1> QED
  BY <1>1, <1>2 DEF Next3

LEMMA BidRecorded ==
    ASSUME GameInv, phase = "BIDDING", NEW score \in 0 .. 3, NEW position, position = auction.current,
           score > 0 => score > auction.highest, auction' = Bid(auction, position, score)
    PROVE  /\ auction' \in [first : Positions, current : Positions, highest : 0 .. 3, bidder : 0 .. 3,
                            actions : Seq([position : Positions, score : 0 .. 3])]
           /\ auction'.first = auction.first /\ auction'.current = Next3(position)
           /\ auction'.actions = Append(auction.actions, [position |-> position, score |-> score])
           /\ (score = 0 => auction'.highest = auction.highest /\ auction'.bidder = auction.bidder)
           /\ (score > 0 => auction'.highest = score /\ auction'.bidder = position)
           /\ position \in Positions /\ auction.highest \in 0 .. 2
<1>1. /\ auction \in [first : Positions, current : Positions, highest : 0 .. 3, bidder : 0 .. 3,
                       actions : Seq([position : Positions, score : 0 .. 3])]
      /\ auction.highest < 3
  BY GameKnown DEF GameInv, AuctionSound
<1>2. position \in Positions /\ auction.highest \in 0 .. 2 /\ Next3(position) \in Positions
  BY <1>1 DEF Positions, Next3
<1>3. Append(auction.actions, [position |-> position, score |-> score])
          \in Seq([position : Positions, score : 0 .. 3])
  BY <1>1, <1>2
<1>4. auction' = [first |-> auction.first, current |-> Next3(position),
           highest |-> IF score > auction.highest THEN score ELSE auction.highest,
           bidder |-> IF score > auction.highest THEN position ELSE auction.bidder,
           actions |-> Append(auction.actions, [position |-> position, score |-> score])]
  BY <1>1 DEF Bid
<1>5. position \in 0 .. 3
  BY <1>2 DEF Positions
<1> QED
  BY <1>1, <1>2, <1>3, <1>4, <1>5

LEMMA ActionsTyped ==
    ASSUME GameInv
    PROVE  /\ Len(auction.actions) \in Nat
           /\ \A i \in 1 .. Len(auction.actions) : auction.actions[i].score \in 0 .. 3
<1>1. auction.actions \in Seq([position : Positions, score : 0 .. 3])
  BY GameKnown
<1>2. Len(auction.actions) \in Nat
  BY <1>1
<1>3. ASSUME NEW i \in 1 .. Len(auction.actions)
      PROVE  auction.actions[i].score \in 0 .. 3
  <2>1. auction.actions[i] \in [position : Positions, score : 0 .. 3]
    BY <1>1, ElementOfSeq, Zenon
  <2> QED
    BY <2>1
<1> QED
  BY <1>2, <1>3

LEMMA BidIsFair ==
    ASSUME GameInv, phase = "BIDDING", NEW score \in 0 .. 3, NEW position, position = auction.current,
           score > 0 => score > auction.highest,
           auction' = Bid(auction, position, score),
           phase' = IF ~AuctionOver(auction') THEN "BIDDING"
                    ELSE IF auction'.highest = 0 THEN "NO_LANDLORD" ELSE "PLAYING"
    PROVE  AuctionSound'
<1> DEFINE acts == auction.actions
           n    == Len(acts)
<1>1. /\ auction' \in [first : Positions, current : Positions, highest : 0 .. 3, bidder : 0 .. 3,
                        actions : Seq([position : Positions, score : 0 .. 3])]
      /\ auction'.first = auction.first /\ auction'.current = Next3(position)
      /\ auction'.actions = Append(acts, [position |-> position, score |-> score])
      /\ (score = 0 => auction'.highest = auction.highest /\ auction'.bidder = auction.bidder)
      /\ (score > 0 => auction'.highest = score /\ auction'.bidder = position)
      /\ position \in Positions /\ auction.highest \in 0 .. 2
  BY BidRecorded
<1>2. acts \in Seq([position : Positions, score : 0 .. 3]) /\ n \in Nat /\ auction.first \in 1 .. 3
  BY GameKnown DEF Positions
<1>3. /\ Len(auction'.actions) = n + 1
      /\ auction'.actions[n + 1] = [position |-> position, score |-> score]
      /\ \A i \in 1 .. n : auction'.actions[i] = acts[i]
  BY <1>1, <1>2
<1> DEFINE Highest0 == auction.highest = 0 => auction.bidder = 0 /\ \A i \in 1 .. n : acts[i].score = 0
           Highest1 ==
               auction.highest > 0 =>
                   /\ auction.bidder \in Positions
                   /\ \E i \in 1 .. n :
                         /\ acts[i] = [position |-> auction.bidder, score |-> auction.highest]
                         /\ \A j \in 1 .. n :
                               acts[j].score > 0 => j <= i /\ acts[j].score <= auction.highest
<1>a. /\ \A i \in 1 .. n : acts[i].position = ((auction.first + i - 2) % 3) + 1
      /\ position = ((auction.first + n - 1) % 3) + 1 /\ n < 3 /\ auction.highest < 3
      /\ \A i \in 1 .. n : acts[i].score = 3 => i = n /\ auction.highest = 3
      /\ Highest0 /\ Highest1
  BY DEF GameInv, AuctionSound
<1> HIDE DEF Highest0, Highest1
<1>4. /\ \A i \in 1 .. n : acts[i].position = ((auction.first + i - 2) % 3) + 1
      /\ position = ((auction.first + n - 1) % 3) + 1 /\ n \in 0 .. 2
      /\ \A i \in 1 .. n : acts[i].score # 3
  <2>1. n < 3 /\ auction.highest < 3 /\ position = ((auction.first + n - 1) % 3) + 1
    BY <1>a
  <2>2. n \in 0 .. 2
    <3>1. n \in Nat
      BY ActionsTyped
    <3> HIDE DEF n
    <3> QED
      BY <2>1, <3>1
  <2>3. auction.highest # 3
    BY <1>1
  <2>4. \A i \in 1 .. n : acts[i].score # 3
    BY <1>a, <2>3
  <2>5. \A i \in 1 .. n : acts[i].position = ((auction.first + i - 2) % 3) + 1
    BY <1>a
  <2> QED
    BY <2>1, <2>2, <2>4, <2>5
<1>b. \A i \in 1 .. n : acts[i].score \in 0 .. 3
  BY ActionsTyped
<1>c. \A i \in 1 .. n + 1 : i \in 1 .. n \/ i = n + 1
  <2> HIDE DEF n
  <2> QED
    BY <1>2
<1>5. \A i \in 1 .. n + 1 : auction'.actions[i].position = ((auction'.first + i - 2) % 3) + 1
  <2> SUFFICES ASSUME NEW i \in 1 .. n + 1
               PROVE  auction'.actions[i].position = ((auction'.first + i - 2) % 3) + 1
    OBVIOUS
  <2>1. CASE i \in 1 .. n
    BY <1>1, <1>3, <1>4, <2>1
  <2>2. CASE i = n + 1
    <3>1. auction'.actions[i].position = position /\ i - 2 = n - 1
      BY <1>2, <1>3, <2>2
    <3>2. auction.first + i - 2 = auction.first + n - 1
      BY <1>2, <2>2
    <3> QED
      BY <1>1, <1>4, <3>1, <3>2
  <2> QED
    BY <1>c, <2>1, <2>2
<1>6. auction'.current = ((auction'.first + (n + 1) - 1) % 3) + 1
  <2>1. Next3(((auction.first + n - 1) % 3) + 1) = ((auction.first + (n + 1) - 1) % 3) + 1
    BY <1>2, <1>4, TurnsCount
  <2> QED
    BY <1>1, <1>4, <2>1
<1>7. \A i \in 1 .. n + 1 : auction'.actions[i].score = 3 => i = n + 1 /\ auction'.highest = 3
  <2> SUFFICES ASSUME NEW i \in 1 .. n + 1, auction'.actions[i].score = 3
               PROVE  i = n + 1 /\ auction'.highest = 3
    OBVIOUS
  <2>1. i \notin 1 .. n
    BY <1>3, <1>4
  <2>2. i = n + 1 /\ score = 3
    BY <1>c, <1>3, <2>1
  <2> QED
    BY <1>1, <2>2
<1>8. auction'.highest = 0 => auction'.bidder = 0 /\ \A i \in 1 .. n + 1 : auction'.actions[i].score = 0
  <2>1. auction'.highest = 0 => score = 0 /\ auction.highest = 0
    BY <1>1
  <2>2. auction.highest = 0 => auction.bidder = 0 /\ \A i \in 1 .. n : acts[i].score = 0
    BY <1>a DEF Highest0
  <2>3. auction'.highest = 0 => auction'.bidder = 0
    BY <1>1, <2>1, <2>2
  <2>4. ASSUME auction'.highest = 0, NEW i \in 1 .. n + 1 PROVE auction'.actions[i].score = 0
    <3>1. CASE i \in 1 .. n
      BY <1>3, <2>1, <2>2, <2>4, <3>1
    <3>2. CASE i = n + 1
      BY <1>3, <2>1, <2>4, <3>2
    <3> QED
      BY <1>c, <3>1, <3>2
  <2> QED
    BY <2>3, <2>4
<1>9. auction'.highest > 0 =>
        /\ auction'.bidder \in Positions
        /\ \E i \in 1 .. n + 1 :
              /\ auction'.actions[i] = [position |-> auction'.bidder, score |-> auction'.highest]
              /\ \A j \in 1 .. n + 1 : auction'.actions[j].score > 0 =>
                    j <= i /\ auction'.actions[j].score <= auction'.highest
  <2>1. CASE score > 0
    <3>1. \A j \in 1 .. n : acts[j].score > 0 => acts[j].score <= auction.highest
      <4>1. CASE auction.highest = 0
        BY <1>a, <4>1 DEF Highest0
      <4>2. CASE auction.highest > 0
        <5>1. Highest1
          BY <1>a
        <5> QED
          BY <4>2, <5>1 DEF Highest1
      <4> QED
        BY <1>1, <4>1, <4>2
    <3>2. \A j \in 1 .. n + 1 : auction'.actions[j].score > 0 =>
              j <= n + 1 /\ auction'.actions[j].score <= auction'.highest
      <4>1. ASSUME NEW j \in 1 .. n + 1, auction'.actions[j].score > 0
            PROVE  j <= n + 1 /\ auction'.actions[j].score <= auction'.highest
        <5>1. CASE j = n + 1
          BY <1>1, <1>3, <2>1, <5>1, <1>2
        <5>2. CASE j \in 1 .. n
          <6>1. auction'.actions[j] = acts[j]
            BY <1>3, <5>2
          <6>2. acts[j].score <= auction.highest /\ acts[j].score \in 0 .. 3
            BY <1>b, <3>1, <4>1, <5>2, <6>1
          <6> QED
            BY <1>1, <1>2, <2>1, <5>2, <6>1, <6>2
        <5> QED
          BY <1>2, <5>1, <5>2
      <4> QED
        BY <4>1
    <3>3. n + 1 \in 1 .. n + 1
      BY <1>2
    <3> QED
      BY <1>1, <1>3, <2>1, <3>2, <3>3
  <2>2. CASE score = 0 /\ auction.highest > 0
    <3>1. PICK i \in 1 .. n :
             /\ acts[i] = [position |-> auction.bidder, score |-> auction.highest]
             /\ \A j \in 1 .. n : acts[j].score > 0 => j <= i /\ acts[j].score <= auction.highest
      BY <1>a, <2>2 DEF Highest1
    <3>2. auction.bidder \in Positions
      BY <1>a, <2>2 DEF Highest1
    <3>3. i \in 1 .. n + 1 /\ auction'.actions[i] = [position |-> auction'.bidder, score |-> auction'.highest]
      BY <1>1, <1>2, <1>3, <2>2, <3>1
    <3>4. \A j \in 1 .. n + 1 : auction'.actions[j].score > 0 =>
              j <= i /\ auction'.actions[j].score <= auction'.highest
      BY <1>1, <1>2, <1>3, <2>2, <3>1
    <3> QED
      BY <1>1, <2>2, <3>2, <3>3, <3>4
  <2> QED
    BY <1>1, <2>1, <2>2
<1>10. /\ phase' = "BIDDING" => auction'.highest < 3 /\ n + 1 < 3
       /\ phase' = "PLAYING" => auction'.highest > 0
       /\ phase' = "NO_LANDLORD" => auction'.highest = 0 /\ n + 1 = 3
       /\ phase' \in {"BIDDING", "PLAYING", "NO_LANDLORD"}
  <2>1. AuctionOver(auction') <=> auction'.highest = 3 \/ n + 1 = 3
    BY <1>3 DEF AuctionOver
  <2>2. auction'.highest \in 0 .. 3
    BY <1>1
  <2> QED
    BY <1>4, <2>1, <2>2
<1> QED
  BY <1>3, <1>5, <1>6, <1>7, <1>8, <1>9, <1>10 DEF AuctionSound

(* The landlord takes cards that were left in the game.                    *)
LEMMA CardsGivenOut ==
    ASSUME GameInv, phase = "BIDDING", phase' = "PLAYING", NEW p \in Positions,
           held' = [held EXCEPT ![p] = With(@, held[0])]
    PROVE  /\ held' \in [0 .. 3 -> [Ranks -> 0 .. 4]]
           /\ \A q \in Positions : held'[q] # NoCards
           /\ \A r \in Ranks : Left'[r] <= Left[r]
<1>1. held \in [0 .. 3 -> [Ranks -> 0 .. 4]] /\ p \in 0 .. 3 /\ p # 0
  BY GameKnown DEF Positions
<1>2. ASSUME NEW r \in Ranks
      PROVE  /\ held[0][r] \in 0 .. 4 /\ held[1][r] \in 0 .. 4
             /\ held[2][r] \in 0 .. 4 /\ held[3][r] \in 0 .. 4
             /\ held[1][r] + held[2][r] + held[3][r] + held[0][r] = Left[r]
             /\ Left[r] <= 4
  <2>1. held[1][r] + held[2][r] + held[3][r] + held[0][r] = Left[r]
    BY DEF Left, LeftIn
  <2>2. Left[r] <= IF r \in Jokers THEN 1 ELSE 4
    BY DEF GameInv, CardsSound
  <2>3. Left[r] \in Nat
    BY GameKnown
  <2>4. Left[r] <= 4
    BY <2>2, <2>3
  <2> QED
    BY <1>1, <2>1, <2>4
<1>3. With(held[p], held[0]) \in [Ranks -> 0 .. 4]
  <2>1. ASSUME NEW r \in Ranks
        PROVE  held[p][r] + held[0][r] \in 0 .. 4
    <3>1. p = 1 \/ p = 2 \/ p = 3
      BY DEF Positions
    <3> QED
      BY <1>2, <3>1
  <2> QED
    BY <2>1 DEF With
<1>4. held' \in [0 .. 3 -> [Ranks -> 0 .. 4]]
  BY <1>1, <1>3
<1>5. \A q \in 0 .. 3 : held'[q] = IF q = p THEN With(held[p], held[0]) ELSE held[q]
  BY <1>1
<1>6. ASSUME NEW q \in Positions
      PROVE  held'[q] # NoCards
  <2>1. held[q] # NoCards /\ q \in 0 .. 3
    BY DEF GameInv, CardsSound, Positions
  <2>2. ASSUME q = p
        PROVE  With(held[p], held[0]) # NoCards
    <3>1. PICK r \in Ranks : held[p][r] # 0
      <4>1. held[p] \in [Ranks -> 0 .. 4] /\ held[p] # NoCards
        BY <1>1, <2>1, <2>2
      <4> QED
        BY <4>1 DEF NoCards
    <3>2. held[p][r] \in 0 .. 4 /\ held[0][r] \in 0 .. 4
      BY <1>1
    <3>3. With(held[p], held[0])[r] # 0
      BY <3>1, <3>2 DEF With
    <3> QED
      BY <3>3 DEF NoCards
  <2> QED
    BY <1>5, <2>1, <2>2
<1>7. ASSUME NEW r \in Ranks
      PROVE  Left'[r] <= Left[r]
  <2>1. Left'[r] = held'[1][r] + held'[2][r] + held'[3][r] + 0
    BY DEF Left, LeftIn
  <2>2. p = 1 \/ p = 2 \/ p = 3
    BY DEF Positions
  <2>3. With(held[p], held[0])[r] = held[p][r] + held[0][r]
    BY DEF With
  <2>4. /\ held'[1] = IF 1 = p THEN With(held[p], held[0]) ELSE held[1]
        /\ held'[2] = IF 2 = p THEN With(held[p], held[0]) ELSE held[2]
        /\ held'[3] = IF 3 = p THEN With(held[p], held[0]) ELSE held[3]
    BY <1>5
  <2> QED
    BY <1>2, <2>1, <2>2, <2>3, <2>4
<1> QED
  BY <1>4, <1>6, <1>7

LEMMA BidKeeps ==
    ASSUME GameInv, NEW position \in Positions, NEW score \in Scores, ApplyBid(position, score)
    PROVE  GameInv'
<1>1. /\ phase = "BIDDING" /\ position = auction.current /\ score \in 0 .. 3
      /\ (score > 0 => score > auction.highest)
      /\ auction' = Bid(auction, position, score)
      /\ phase' = (IF ~AuctionOver(auction') THEN "BIDDING"
                   ELSE IF auction'.highest = 0 THEN "NO_LANDLORD" ELSE "PLAYING")
      /\ trick' = (IF phase' = "PLAYING" THEN NewTrick(auction'.bidder) ELSE trick)
      /\ held' = (IF phase' = "PLAYING"
                  THEN [held EXCEPT ![auction'.bidder] = With(@, held[0])] ELSE held)
      /\ UNCHANGED <<tally, result>>
  BY ScoresAssumption DEF ApplyBid
<1>2. AuctionSound'
  BY <1>1, BidIsFair
<1>3. auction' \in [first : Positions, current : Positions, highest : 0 .. 3, bidder : 0 .. 3,
                    actions : Seq([position : Positions, score : 0 .. 3])]
  BY <1>1, BidRecorded
<1>4. phase' \in {"BIDDING", "NO_LANDLORD", "PLAYING"} /\ (phase' = "PLAYING" => auction'.bidder \in Positions)
  <2>1. phase' = "PLAYING" => auction'.highest # 0
    BY <1>1
  <2>2. auction'.highest > 0 => auction'.bidder \in Positions
    BY <1>2 DEF AuctionSound
  <2> QED
    BY <1>1, <1>3, <2>1, <2>2
<1>5. CASE phase' = "PLAYING"
  <2>1. held' = [held EXCEPT ![auction'.bidder] = With(@, held[0])] /\ trick' = NewTrick(auction'.bidder)
    BY <1>1, <1>5
  <2>2. /\ held' \in [0 .. 3 -> [Ranks -> 0 .. 4]]
        /\ \A q \in Positions : held'[q] # NoCards
        /\ \A r \in Ranks : Left'[r] <= Left[r]
    BY <1>1, <1>4, <1>5, <2>1, CardsGivenOut
  <2>3. CardsSound'
    BY <1>1, <1>5, <2>2, CardsKept
  <2>4. TrickSound'
    BY <1>4, <1>5, <2>1 DEF TrickSound, NewTrick, Positions
  <2>5. GameTypeOK'
    <3>1. trick'.leader \in 0 .. 3 /\ trick'.passes \in 0 .. 1 /\ trick'.current \in 0 .. 3
      BY <2>4 DEF TrickSound
    <3>2. tally' = tally /\ result' = result
      BY <1>1
    <3> QED
      BY <1>3, <1>5, <2>2, <3>1, <3>2 DEF GameInv, GameTypeOK
  <2>6. SettlementIsZeroSum'
    BY <1>5 DEF SettlementIsZeroSum
  <2> QED
    BY <1>2, <2>3, <2>4, <2>5, <2>6 DEF GameInv
<1>6. CASE phase' # "PLAYING"
  <2>1. UNCHANGED <<held, trick, tally, result>>
    BY <1>1, <1>6
  <2>2. \A r \in Ranks : Left'[r] <= Left[r]
    <3>1. ASSUME NEW r \in Ranks
          PROVE  Left'[r] <= Left[r]
      <4>1. Left'[r] = held[1][r] + held[2][r] + held[3][r] + (IF phase' = "BIDDING" THEN held[0][r] ELSE 0)
        BY <1>4, <2>1 DEF Left, LeftIn
      <4>2. Left[r] = held[1][r] + held[2][r] + held[3][r] + held[0][r]
        BY <1>1 DEF Left, LeftIn
      <4>3. /\ held[0][r] \in 0 .. 4 /\ held[1][r] \in 0 .. 4
            /\ held[2][r] \in 0 .. 4 /\ held[3][r] \in 0 .. 4
        BY GameKnown
      <4> QED
        BY <4>1, <4>2, <4>3
    <3> QED
      BY <3>1
  <2>3. /\ held' \in [0 .. 3 -> [Ranks -> 0 .. 4]]
        /\ \A p \in Positions : held'[p] # NoCards
        /\ tally'.bombs = 0 /\ tally'.rockets = 0
    BY <1>1, <2>1, GameKnown DEF GameInv, CardsSound
  <2>4. CardsSound'
    BY <1>4, <1>6, <2>2, <2>3, CardsKept
  <2>5. TrickSound'
    BY <1>6, <2>1 DEF GameInv, TrickSound
  <2>6. GameTypeOK'
    BY <1>3, <1>4, <2>1 DEF GameInv, GameTypeOK
  <2>7. SettlementIsZeroSum'
    BY <1>4 DEF SettlementIsZeroSum
  <2> QED
    BY <1>2, <2>4, <2>5, <2>6, <2>7 DEF GameInv
<1> QED
  BY <1>5, <1>6

-----------------------------------------------------------------------------
(* The settlement *)

(* What a stake is multiplied by. *)
Doubled(n) == 2 ^ n

LEMMA Powers == ASSUME NEW n \in 0 .. 15 PROVE Doubled(n) \in Nat /\ 0 < Doubled(n) /\ Doubled(n) <= 32768
<1>0. n = 0 => Doubled(n) = 1
  <2>1. 2 ^ 0 = 1
    OBVIOUS
  <2> QED
    BY <2>1 DEF Doubled
<1>1. n = 1 => Doubled(n) = 2
  <2>1. 2 ^ 1 = 2
    OBVIOUS
  <2> QED
    BY <2>1 DEF Doubled
<1>2. n = 2 => Doubled(n) = 4
  <2>1. 2 ^ 2 = 4
    OBVIOUS
  <2> QED
    BY <2>1 DEF Doubled
<1>3. n = 3 => Doubled(n) = 8
  <2>1. 2 ^ 3 = 8
    OBVIOUS
  <2> QED
    BY <2>1 DEF Doubled
<1>4. n = 4 => Doubled(n) = 16
  <2>1. 2 ^ 4 = 16
    OBVIOUS
  <2> QED
    BY <2>1 DEF Doubled
<1>5. n = 5 => Doubled(n) = 32
  <2>1. 2 ^ 5 = 32
    OBVIOUS
  <2> QED
    BY <2>1 DEF Doubled
<1>6. n = 6 => Doubled(n) = 64
  <2>1. 2 ^ 6 = 64
    OBVIOUS
  <2> QED
    BY <2>1 DEF Doubled
<1>7. n = 7 => Doubled(n) = 128
  <2>1. 2 ^ 7 = 128
    OBVIOUS
  <2> QED
    BY <2>1 DEF Doubled
<1>8. n = 8 => Doubled(n) = 256
  <2>1. 2 ^ 8 = 256
    OBVIOUS
  <2> QED
    BY <2>1 DEF Doubled
<1>9. n = 9 => Doubled(n) = 512
  <2>1. 2 ^ 9 = 512
    OBVIOUS
  <2> QED
    BY <2>1 DEF Doubled
<1>10. n = 10 => Doubled(n) = 1024
  <2>1. 2 ^ 10 = 1024
    OBVIOUS
  <2> QED
    BY <2>1 DEF Doubled
<1>11. n = 11 => Doubled(n) = 2048
  <2>1. 2 ^ 11 = 2048
    OBVIOUS
  <2> QED
    BY <2>1 DEF Doubled
<1>12. n = 12 => Doubled(n) = 4096
  <2>1. 2 ^ 12 = 4096
    OBVIOUS
  <2> QED
    BY <2>1 DEF Doubled
<1>13. n = 13 => Doubled(n) = 8192
  <2>1. 2 ^ 13 = 8192
    OBVIOUS
  <2> QED
    BY <2>1 DEF Doubled
<1>14. n = 14 => Doubled(n) = 16384
  <2>1. 2 ^ 14 = 16384
    OBVIOUS
  <2> QED
    BY <2>1 DEF Doubled
<1>15. n = 15 => Doubled(n) = 32768
  <2>1. 2 ^ 15 = 32768
    OBVIOUS
  <2> QED
    BY <2>1 DEF Doubled
<1>16. \/ n = 0 \/ n = 1 \/ n = 2 \/ n = 3 \/ n = 4 \/ n = 5 \/ n = 6 \/ n = 7 \/ n = 8 \/ n = 9
       \/ n = 10 \/ n = 11 \/ n = 12 \/ n = 13 \/ n = 14 \/ n = 15
  OBVIOUS
<1> QED
  BY <1>0, <1>1, <1>2, <1>3, <1>4, <1>5, <1>6, <1>7, <1>8, <1>9, <1>10, <1>11, <1>12, <1>13, <1>14, <1>15, <1>16

LEMMA StakeBounded ==
    ASSUME NEW t \in [plays : [Positions -> Nat], bombs : Nat, rockets : Nat], Settleable(t),
           NEW landlord \in Positions, NEW winner \in Positions, NEW score \in 1 .. 3
    PROVE  /\ Stake(t, landlord, winner, score) \in Nat
           /\ Stake(t, landlord, winner, score) > 0
           /\ Stake(t, landlord, winner, score) <= 3 * 2 ^ 15
<1> DEFINE e == t.bombs + t.rockets + (IF Spring(t, landlord, winner) THEN 1 ELSE 0)
<1>1. e \in 0 .. 15
  <2>1. t.bombs \in Nat /\ t.rockets \in Nat /\ t.bombs <= 13 /\ t.rockets <= 1
    BY DEF Settleable
  <2> QED
    BY <2>1
<1> DEFINE k == Doubled(e)
<1>2. Stake(t, landlord, winner, score) = score * k
  BY DEF Stake, Doubled
<1> HIDE DEF e
<1>3. k \in Nat /\ 0 < k /\ k <= 32768
  BY <1>1, Powers
<1>5. 3 * 2 ^ 15 = 3 * 32768
  <2>1. 2 ^ 15 = 32768
    OBVIOUS
  <2> QED
    BY <2>1
<1> HIDE DEF k
<1>4. score = 1 \/ score = 2 \/ score = 3
  OBVIOUS
<1>6. /\ Stake(t, landlord, winner, score) \in Nat
      /\ Stake(t, landlord, winner, score) > 0
      /\ Stake(t, landlord, winner, score) <= 3 * 32768
  BY <1>2, <1>3, <1>4
<1> QED
  BY <1>5, <1>6

LEMMA PointsBalance ==
    ASSUME NEW stake \in Nat, stake > 0, NEW landlord \in Positions, NEW winner \in Positions
    PROVE  /\ Points(stake, landlord, winner) \in [Positions -> Int]
           /\ Points(stake, landlord, winner)[1] + Points(stake, landlord, winner)[2]
                 + Points(stake, landlord, winner)[3] = 0
           /\ \A p \in Positions :
                 Points(stake, landlord, winner)[p] > 0 <=> (p = landlord <=> winner = landlord)
<1> DEFINE points == Points(stake, landlord, winner)
<1>1. ASSUME NEW p \in Positions
      PROVE  points[p] = IF p = landlord THEN (IF winner = landlord THEN 2 * stake ELSE -(2 * stake))
                         ELSE (IF winner = landlord THEN -stake ELSE stake)
  <2>1. CASE winner = landlord
    BY <2>1 DEF Points
  <2>2. CASE winner # landlord
    BY <2>2 DEF Points
  <2> QED
    BY <2>1, <2>2
<1>2. points \in [Positions -> Int]
  <2>1. points = [p \in Positions |-> points[p]]
    BY DEF Points
  <2>2. \A p \in Positions : points[p] \in Int
    BY <1>1
  <2> HIDE DEF points
  <2> QED
    BY <2>1, <2>2
<1> HIDE DEF points
<1>3. \A p \in Positions : points[p] > 0 <=> (p = landlord <=> winner = landlord)
  BY <1>1
<1>4. points[1] + points[2] + points[3] = 0
  <2>1. 1 \in Positions /\ 2 \in Positions /\ 3 \in Positions
    BY DEF Positions
  <2>2. landlord = 1 \/ landlord = 2 \/ landlord = 3
    BY DEF Positions
  <2> QED
    BY <1>1, <2>1, <2>2
<1> QED
  BY <1>2, <1>3, <1>4 DEF points

-----------------------------------------------------------------------------
(* A play *)

(* What is played leaves the hand and the game.                            *)
LEMMA CardsPlayed ==
    ASSUME GameInv, phase = "PLAYING", phase' \in {"PLAYING", "COMPLETED"},
           NEW seat \in Positions, NEW cards \in SubBags(held[seat]),
           held' = [held EXCEPT ![seat] = Without(@, cards)]
    PROVE  /\ held' \in [0 .. 3 -> [Ranks -> 0 .. 4]]
           /\ \A q \in Positions : held'[q] = NoCards <=> q = seat /\ held[seat] = cards
           /\ \A r \in Ranks : Left'[r] = Left[r] - cards[r] /\ cards[r] \in 0 .. 4
                                /\ cards[r] <= held[seat][r]
<1>1. held \in [0 .. 3 -> [Ranks -> 0 .. 4]] /\ seat \in 0 .. 3 /\ seat # 0
  BY GameKnown DEF Positions
<1>2. /\ held[seat] \in [Ranks -> 0 .. 4] /\ cards \in [Ranks -> 0 .. 4]
      /\ \A r \in Ranks : cards[r] <= held[seat][r]
  <2>1. held[seat] \in [Ranks -> 0 .. 4]
    BY <1>1
  <2> QED
    BY <2>1, TakenIsPart
<1>3. Without(held[seat], cards) \in [Ranks -> 0 .. 4]
  <2>1. ASSUME NEW r \in Ranks
        PROVE  held[seat][r] - cards[r] \in 0 .. 4
    <3>1. held[seat][r] \in 0 .. 4 /\ cards[r] \in 0 .. 4 /\ cards[r] <= held[seat][r]
      BY <1>2
    <3> QED
      BY <3>1
  <2> QED
    BY <2>1 DEF Without
<1>4. held' \in [0 .. 3 -> [Ranks -> 0 .. 4]]
  BY <1>1, <1>3
<1>5. \A q \in 0 .. 3 : held'[q] = IF q = seat THEN Without(held[seat], cards) ELSE held[q]
  BY <1>1
<1>6. Without(held[seat], cards) = NoCards <=> held[seat] = cards
  <2>1. ASSUME Without(held[seat], cards) = NoCards
        PROVE  held[seat] = cards
    <3>1. ASSUME NEW r \in Ranks
          PROVE  held[seat][r] = cards[r]
      <4>1. Without(held[seat], cards)[r] = held[seat][r] - cards[r] /\ NoCards[r] = 0
        BY DEF Without, NoCards
      <4>2. held[seat][r] \in 0 .. 4 /\ cards[r] \in 0 .. 4
        BY <1>2
      <4> QED
        BY <2>1, <4>1, <4>2
    <3> QED
      BY <1>2, <3>1
  <2>2. ASSUME held[seat] = cards
        PROVE  Without(held[seat], cards) = NoCards
    <3>1. ASSUME NEW r \in Ranks
          PROVE  held[seat][r] - cards[r] = 0
      <4>1. held[seat][r] \in 0 .. 4
        BY <1>2
      <4> QED
        BY <2>2, <4>1
    <3> QED
      BY <3>1 DEF Without, NoCards
  <2> QED
    BY <2>1, <2>2
<1>7. ASSUME NEW q \in Positions
      PROVE  held'[q] = NoCards <=> q = seat /\ held[seat] = cards
  <2>1. held[q] # NoCards /\ q \in 0 .. 3
    BY DEF GameInv, CardsSound, Positions
  <2> QED
    BY <1>5, <1>6, <2>1
<1>8. ASSUME NEW r \in Ranks
      PROVE  Left'[r] = Left[r] - cards[r] /\ cards[r] \in 0 .. 4 /\ cards[r] <= held[seat][r]
  <2>1. Left'[r] = held'[1][r] + held'[2][r] + held'[3][r] + 0
    BY DEF Left, LeftIn
  <2>2. Left[r] = held[1][r] + held[2][r] + held[3][r] + 0
    BY DEF Left, LeftIn
  <2>3. seat = 1 \/ seat = 2 \/ seat = 3
    BY DEF Positions
  <2>4. Without(held[seat], cards)[r] = held[seat][r] - cards[r]
    BY DEF Without
  <2>5. /\ held'[1] = IF 1 = seat THEN Without(held[seat], cards) ELSE held[1]
        /\ held'[2] = IF 2 = seat THEN Without(held[seat], cards) ELSE held[2]
        /\ held'[3] = IF 3 = seat THEN Without(held[seat], cards) ELSE held[3]
    BY <1>5
  <2>6. /\ held[1][r] \in 0 .. 4 /\ held[2][r] \in 0 .. 4 /\ held[3][r] \in 0 .. 4
        /\ cards[r] \in 0 .. 4 /\ cards[r] <= held[seat][r]
    BY <1>1, <1>2
  <2> QED
    BY <2>1, <2>2, <2>3, <2>4, <2>5, <2>6
<1> QED
  BY <1>4, <1>7, <1>8

(* A bomb takes the last cards of its rank, a rocket the big joker's.      *)
LEMMA BombsTake ==
    ASSUME GameInv, NEW seat \in Positions, NEW cards \in [Ranks -> 0 .. 4],
           \A r \in Ranks : cards[r] <= held[seat][r]
    PROVE  /\ Analyze(cards).kind = "BOMB" => \E r \in 0 .. Two : Left[r] > 0 /\ Left[r] - cards[r] = 0
           /\ Analyze(cards).kind = "ROCKET" => Left[13] > 0 /\ Left[13] - cards[13] = 0
<1>1. ASSUME NEW r \in Ranks
      PROVE  /\ cards[r] \in 0 .. 4 /\ cards[r] <= Left[r] /\ Left[r] \in Nat
             /\ Left[r] <= 4 /\ (r \in Jokers => Left[r] <= 1)
  <2>1. held[seat][r] \in 0 .. 4 /\ held[seat][r] <= Left[r] /\ Left[r] \in Nat
    BY HeldIsLeft
  <2>2. cards[r] \in 0 .. 4 /\ cards[r] <= held[seat][r]
    OBVIOUS
  <2>3. Left[r] <= IF r \in Jokers THEN 1 ELSE 4
    BY DEF GameInv, CardsSound
  <2> QED
    BY <2>1, <2>2, <2>3
<1>2. \A r \in Jokers : cards[r] <= 1
  <2>1. Jokers \subseteq Ranks
    BY DEF Jokers, Ranks
  <2> QED
    BY <1>1, <2>1
<1>3. /\ Analyze(cards).kind = "BOMB" => \E r \in 0 .. Two : cards[r] = 4
      /\ Analyze(cards).kind = "ROCKET" => cards[13] > 0
  BY <1>2, BombsAndRockets
<1>4. 0 .. Two \subseteq Ranks /\ 13 \in Ranks /\ 13 \in Jokers
  BY DEF Ranks, Two, Jokers
<1>5. ASSUME Analyze(cards).kind = "BOMB"
      PROVE  \E r \in 0 .. Two : Left[r] > 0 /\ Left[r] - cards[r] = 0
  <2>1. PICK r \in 0 .. Two : cards[r] = 4
    BY <1>3, <1>5
  <2>2. r \in Ranks
    BY <1>4
  <2>3. cards[r] <= Left[r] /\ Left[r] \in Nat /\ Left[r] <= 4
    BY <1>1, <2>2
  <2> QED
    BY <2>1, <2>3
<1>6. ASSUME Analyze(cards).kind = "ROCKET"
      PROVE  Left[13] > 0 /\ Left[13] - cards[13] = 0
  <2>1. cards[13] > 0
    BY <1>3, <1>6
  <2>2. cards[13] \in 0 .. 4 /\ cards[13] <= Left[13] /\ Left[13] \in Nat /\ Left[13] <= 1
    BY <1>1, <1>4
  <2> QED
    BY <2>1, <2>2
<1> QED
  BY <1>5, <1>6

LEMMA TallyCounts ==
    ASSUME NEW seat \in Positions, NEW p, tally \in [plays : [Positions -> Nat], bombs : Nat, rockets : Nat]
    PROVE  /\ Tallied(seat, p) \in [plays : [Positions -> Nat], bombs : Nat, rockets : Nat]
           /\ Tallied(seat, p).bombs = tally.bombs + (IF p.kind = "BOMB" THEN 1 ELSE 0)
           /\ Tallied(seat, p).rockets = tally.rockets + (IF p.kind = "ROCKET" THEN 1 ELSE 0)
<1>1. [tally.plays EXCEPT ![seat] = IF @ = 2 THEN 2 ELSE @ + 1] \in [Positions -> Nat]
  BY DEF Positions
<1> QED
  BY <1>1 DEF Tallied

LEMMA PlayKeeps ==
    ASSUME GameInv, NEW seat \in Positions, NEW cards \in SubBags(held[seat]), Play(seat, cards)
    PROVE  GameInv'
<1> DEFINE p == Analyze(cards)
<1>1. /\ phase = "PLAYING" /\ seat = trick.current
      /\ tally' = Tallied(seat, p)
      /\ trick' = [leader |-> seat, pattern |-> p, passes |-> 0,
                   current |-> IF Wins(seat, cards) THEN 0 ELSE Next3(seat)]
      /\ held' = [held EXCEPT ![seat] = Without(@, cards)]
      /\ auction' = auction
  BY DEF Play
<1>2. IF Wins(seat, cards)
      THEN /\ Settleable(tally') /\ phase' = "COMPLETED"
           /\ result' = Calculate(tally', auction.bidder, seat)
      ELSE phase' = phase /\ result' = result
  BY DEF Play
<1> HIDE DEF p
<1>3. /\ phase' \in {"PLAYING", "COMPLETED"} /\ (phase' = "PLAYING" <=> held[seat] # cards)
  BY <1>1, <1>2 DEF Wins
<1>4. /\ held' \in [0 .. 3 -> [Ranks -> 0 .. 4]]
      /\ \A q \in Positions : held'[q] = NoCards <=> q = seat /\ held[seat] = cards
      /\ \A r \in Ranks : Left'[r] = Left[r] - cards[r] /\ cards[r] \in 0 .. 4
                           /\ cards[r] <= held[seat][r]
  <2>1. held' = [held EXCEPT ![seat] = Without(@, cards)] /\ phase' \in {"PLAYING", "COMPLETED"}
    BY <1>1, <1>3
  <2>2. phase = "PLAYING"
    BY <1>1
  <2> QED
    BY <2>1, <2>2, CardsPlayed, Zenon
<1>5. held[seat] \in [Ranks -> 0 .. 4] /\ cards \in [Ranks -> 0 .. 4]
  <2>1. held[seat] \in [Ranks -> 0 .. 4]
    BY GameKnown DEF Positions
  <2> QED
    BY <2>1, TakenIsPart
<1>6. /\ tally' \in [plays : [Positions -> Nat], bombs : Nat, rockets : Nat]
      /\ tally'.bombs = tally.bombs + (IF p.kind = "BOMB" THEN 1 ELSE 0)
      /\ tally'.rockets = tally.rockets + (IF p.kind = "ROCKET" THEN 1 ELSE 0)
      /\ tally.bombs \in Nat /\ tally.rockets \in Nat
  BY <1>1, GameKnown, TallyCounts
<1>7. AuctionSound'
  BY <1>1, <1>3, AuctionStands
<1>8. CardsSound'
  <2>1. /\ p.kind = "BOMB" => \E r \in 0 .. Two : Left[r] > 0 /\ Left[r] - cards[r] = 0
        /\ p.kind = "ROCKET" => Left[13] > 0 /\ Left[13] - cards[13] = 0
    BY <1>4, <1>5, BombsTake DEF p
  <2>2. 0 .. Two \subseteq Ranks /\ 13 \in Ranks
    BY DEF Ranks, Two
  <2>3. /\ \/ tally'.bombs = tally.bombs
           \/ /\ tally'.bombs = tally.bombs + 1
              /\ \E r \in 0 .. Two : Left[r] > 0 /\ Left'[r] = 0
        /\ \/ tally'.rockets = tally.rockets
           \/ tally'.rockets = tally.rockets + 1 /\ Left[13] > 0 /\ Left'[13] = 0
    <3>1. CASE p.kind = "BOMB"
      <4>1. PICK r \in 0 .. Two : Left[r] > 0 /\ Left[r] - cards[r] = 0
        BY <2>1, <3>1
      <4>2. Left'[r] = 0
        BY <1>4, <2>2, <4>1
      <4>3. tally'.bombs = tally.bombs + 1 /\ tally'.rockets = tally.rockets
        BY <1>6, <3>1
      <4> QED
        BY <4>1, <4>2, <4>3
    <3>2. CASE p.kind = "ROCKET"
      <4>1. Left[13] > 0 /\ Left'[13] = 0
        BY <1>4, <2>1, <2>2, <3>2
      <4>2. tally'.bombs = tally.bombs /\ tally'.rockets = tally.rockets + 1
        BY <1>6, <3>2
      <4> QED
        BY <4>1, <4>2
    <3>3. CASE p.kind \notin {"BOMB", "ROCKET"}
      BY <1>6, <3>3
    <3> QED
      BY <3>1, <3>2, <3>3
  <2>4. \A r \in Ranks : Left'[r] <= Left[r]
    <3>1. Left \in [Ranks -> Nat]
      BY GameKnown
    <3> QED
      BY <1>4, <3>1
  <2>5. phase' = "PLAYING" => \A q \in Positions : held'[q] # NoCards
    BY <1>3, <1>4
  <2>6. phase' # "NEW" /\ phase' # "BIDDING" /\ phase \in {"BIDDING", "PLAYING"}
    BY <1>1, <1>3
  <2> QED
    BY <1>4, <2>3, <2>4, <2>5, <2>6, CardsKept
<1>9. TrickSound'
  <2>1. /\ seat \in 1 .. 3 /\ Next3(seat) \in 1 .. 3 /\ Next3(seat) = ((seat + 0) % 3) + 1
        /\ (phase' = "PLAYING" => ~Wins(seat, cards))
    BY <1>3 DEF Positions, Next3, Wins
  <2> QED
    BY <1>1, <2>1 DEF TrickSound, Positions
<1>10. phase' = "COMPLETED" =>
          /\ result'.winner = seat /\ result' \in [winner : 0 .. 3, stake : Nat, points : [Positions -> Int]]
          /\ result'.points[1] + result'.points[2] + result'.points[3] = 0
          /\ \A q \in Positions :
                result'.points[q] > 0 <=> (q = auction'.bidder) = (result'.winner = auction'.bidder)
          /\ result'.stake <= 3 * 2 ^ 15
  <2> SUFFICES ASSUME phase' = "COMPLETED"
               PROVE  /\ result'.winner = seat
                      /\ result' \in [winner : 0 .. 3, stake : Nat, points : [Positions -> Int]]
                      /\ result'.points[1] + result'.points[2] + result'.points[3] = 0
                      /\ \A q \in Positions :
                            result'.points[q] > 0 <=>
                                (q = auction'.bidder) = (result'.winner = auction'.bidder)
                      /\ result'.stake <= 3 * 2 ^ 15
    OBVIOUS
  <2>1. Settleable(tally') /\ result' = Calculate(tally', auction.bidder, seat)
    BY <1>1, <1>2
  <2>2. auction.highest \in 1 .. 3 /\ auction.bidder \in Positions
    BY <1>1, GameKnown DEF GameInv, AuctionSound
  <2> DEFINE stake == Stake(tally', auction.bidder, seat, auction.highest)
  <2>3. stake \in Nat /\ stake > 0 /\ stake <= 3 * 2 ^ 15
    BY <1>6, <2>1, <2>2, StakeBounded
  <2>4. result' = [winner |-> seat, stake |-> stake, points |-> Points(stake, auction.bidder, seat)]
    BY <2>1 DEF Calculate
  <2> HIDE DEF stake
  <2> DEFINE points == Points(stake, auction.bidder, seat)
  <2>5. /\ points \in [Positions -> Int] /\ points[1] + points[2] + points[3] = 0
        /\ \A q \in Positions : points[q] > 0 <=> (q = auction.bidder <=> seat = auction.bidder)
    <3>1. stake \in Nat /\ stake > 0 /\ auction.bidder \in Positions
      BY <2>2, <2>3
    <3>2. points \in [Positions -> Int] /\ points[1] + points[2] + points[3] = 0
      BY <3>1, PointsBalance
    <3>3. ASSUME NEW q \in Positions
          PROVE  points[q] > 0 <=> (q = auction.bidder <=> seat = auction.bidder)
      BY <3>1, PointsBalance
    <3> QED
      BY <3>2, <3>3
  <2> HIDE DEF points
  <2>6. result' = [winner |-> seat, stake |-> stake, points |-> points]
    BY <2>4 DEF points
  <2>7. seat \in 0 .. 3
    BY DEF Positions
  <2> QED
    BY <1>1, <2>3, <2>5, <2>6, <2>7
<1>11. SettlementIsZeroSum'
  <2>1. phase' = "COMPLETED" => {q \in Positions : held'[q] = NoCards} = {seat}
    BY <1>3, <1>4
  <2> QED
    BY <1>10, <2>1 DEF SettlementIsZeroSum
<1>12. GameTypeOK'
  <2>1. trick'.leader \in 0 .. 3 /\ trick'.passes \in 0 .. 1 /\ trick'.current \in 0 .. 3
    BY <1>9 DEF TrickSound
  <2>2. result' \in [winner : 0 .. 3, stake : Nat, points : [Positions -> Int]]
    <3>1. CASE phase' = "COMPLETED"
      BY <1>10, <3>1
    <3>2. CASE phase' # "COMPLETED"
      BY <1>2, <3>2, GameKnown
    <3> QED
      BY <3>1, <3>2
  <2>3. auction' \in [first : Positions, current : Positions, highest : 0 .. 3, bidder : 0 .. 3,
                      actions : Seq([position : Positions, score : 0 .. 3])]
    BY <1>1, GameKnown
  <2> QED
    BY <1>3, <1>4, <1>6, <2>1, <2>2, <2>3 DEF GameTypeOK
<1> QED
  BY <1>7, <1>8, <1>9, <1>11, <1>12 DEF GameInv

LEMMA GameStutters == ASSUME GameInv, UNCHANGED gameVars PROVE GameInv'
<1>1. UNCHANGED <<phase, auction, held, trick, tally, result>>
  BY DEF gameVars
<1>2. AuctionSound'
  BY <1>1, AuctionStands
<1>3. CardsSound'
  BY <1>1, CardsStand
<1>4. GameTypeOK' /\ TrickSound' /\ SettlementIsZeroSum'
  BY <1>1 DEF GameInv, GameTypeOK, TrickSound, SettlementIsZeroSum
<1> QED
  BY <1>2, <1>3, <1>4 DEF GameInv

LEMMA GameKept == GameInv /\ [GameNext]_gameVars => GameInv'
<1> SUFFICES ASSUME GameInv, [GameNext]_gameVars PROVE GameInv'
  OBVIOUS
<1>1. ASSUME NEW deal \in Deals, New(deal) PROVE GameInv'
  BY <1>1, NewKeeps
<1>2. ASSUME Abort PROVE GameInv'
  BY <1>2, AbortKeeps
<1>3. ASSUME NEW seat \in Positions, PlayOn(seat) PROVE GameInv'
  <2>1. CASE Pass(seat)
    BY <2>1, PassKeeps
  <2>2. ASSUME NEW cards \in SubBags(held[seat]), Play(seat, cards) PROVE GameInv'
    BY <2>2, PlayKeeps
  <2> QED
    BY <1>3, <2>1, <2>2 DEF PlayOn
<1>4. ASSUME NEW position \in Positions, NEW score \in Scores, ApplyBid(position, score) PROVE GameInv'
  BY <1>4, BidKeeps
<1>5. CASE UNCHANGED gameVars
  BY <1>5, GameStutters
<1> QED
  BY <1>1, <1>2, <1>3, <1>4, <1>5 DEF GameNext

(* In every reachable game the auction, the cards, the trick and the       *)
(* settlement are sound.                                                   *)
THEOREM GameInvariant == GameSpec => []GameInv
<1>1. GameInit => GameInv
  BY GameStarts
<1>2. GameInv /\ [GameNext]_gameVars => GameInv'
  BY GameKept
<1> QED
  BY <1>1, <1>2, PTL DEF GameSpec

LEMMA FairAuction == GameInv => AuctionIsFair
<1> SUFFICES ASSUME GameInv PROVE AuctionIsFair
  OBVIOUS
<1> DEFINE acts == auction.actions
<1>1. Len(acts) \in Nat /\ DOMAIN acts = 1 .. Len(acts)
  <2>1. acts \in Seq([position : Positions, score : 0 .. 3])
    BY GameKnown
  <2> QED
    BY <2>1
<1>2. /\ \A i \in 1 .. Len(acts) : acts[i].position = ((auction.first + i - 2) % 3) + 1
      /\ \A i \in 1 .. Len(acts) : acts[i].score = 3 => i = Len(acts) /\ auction.highest = 3
  BY DEF GameInv, AuctionSound
<1>3. phase = "BIDDING" => auction.highest # 3
  <2>1. phase = "BIDDING" => auction.highest < 3
    BY DEF GameInv, AuctionSound
  <2> QED
    BY <2>1, GameKnown
<1>4. phase \in {"PLAYING", "COMPLETED"} =>
        \E i \in 1 .. Len(acts) :
            /\ acts[i] = [position |-> auction.bidder, score |-> auction.highest]
            /\ \A j \in 1 .. Len(acts) : acts[j].score > 0 => j <= i /\ acts[j].score <= acts[i].score
  <2> SUFFICES ASSUME phase \in {"PLAYING", "COMPLETED"}
               PROVE  \E i \in 1 .. Len(acts) :
                         /\ acts[i] = [position |-> auction.bidder, score |-> auction.highest]
                         /\ \A j \in 1 .. Len(acts) :
                               acts[j].score > 0 => j <= i /\ acts[j].score <= acts[i].score
    OBVIOUS
  <2>1. PICK i \in 1 .. Len(acts) :
           /\ acts[i] = [position |-> auction.bidder, score |-> auction.highest]
           /\ \A j \in 1 .. Len(acts) : acts[j].score > 0 => j <= i /\ acts[j].score <= auction.highest
    BY DEF GameInv, AuctionSound
  <2>2. acts[i].score = auction.highest
    BY <2>1
  <2> QED
    BY <2>1, <2>2
<1>5. phase = "NO_LANDLORD" => \A i \in 1 .. Len(acts) : acts[i].score = 0 /\ Len(acts) = 3
  BY DEF GameInv, AuctionSound
<1> QED
  BY <1>1, <1>2, <1>3, <1>4, <1>5 DEF AuctionIsFair

LEMMA FairTurns == GameInv => TurnsFollowLead
<1> SUFFICES ASSUME GameInv, phase = "PLAYING"
             PROVE  /\ held[trick.current] # NoCards
                    /\ trick.leader # 0 =>
                          /\ trick.current = ((trick.leader + trick.passes) % 3) + 1
                          /\ trick.current # trick.leader
  BY DEF TurnsFollowLead
<1>1. /\ trick.current \in Positions /\ trick.leader \in 0 .. 3 /\ trick.passes \in 0 .. 1
      /\ (trick.leader # 0 => trick.current = ((trick.leader + trick.passes) % 3) + 1)
  BY GameKnown DEF GameInv, TrickSound
<1>2. held[trick.current] # NoCards
  BY <1>1 DEF GameInv, CardsSound
<1>3. trick.leader # 0 => trick.current # trick.leader
  <2>1. trick.leader = 0 \/ trick.leader = 1 \/ trick.leader = 2 \/ trick.leader = 3
    BY <1>1
  <2>2. trick.passes = 0 \/ trick.passes = 1
    BY <1>1
  <2> QED
    BY <1>1, <2>1, <2>2
<1> QED
  BY <1>1, <1>2, <1>3

LEMMA FairWins == GameInv => WinsAreSettled
<1> DEFINE seat == trick.current
           p    == Analyze(held[seat])
<1> SUFFICES ASSUME GameInv, phase = "PLAYING"
             PROVE  Settleable(Tallied(seat, p))
  BY DEF WinsAreSettled
<1>1. /\ seat \in Positions /\ held[seat] \in [Ranks -> 0 .. 4]
      /\ tally \in [plays : [Positions -> Nat], bombs : Nat, rockets : Nat]
      /\ Left \in [Ranks -> Nat]
  <2>1. seat \in Positions
    BY DEF GameInv, TrickSound
  <2>2. seat \in 0 .. 3
    BY <2>1 DEF Positions
  <2> QED
    BY <2>1, <2>2, GameKnown
<1>2. \A r \in Ranks : held[seat][r] <= held[seat][r]
  BY <1>1
<1>3. /\ p.kind = "BOMB" => \E r \in 0 .. Two : Left[r] > 0
      /\ p.kind = "ROCKET" => Left[13] > 0
  BY <1>1, <1>2, BombsTake
<1>4. /\ tally.bombs + Cardinality(RanksLeft) <= 13 /\ Cardinality(RanksLeft) \in Nat
      /\ tally.rockets + (IF Left[13] > 0 THEN 1 ELSE 0) <= 1
      /\ tally.bombs \in Nat /\ tally.rockets \in Nat
  BY DeckBounds
<1>5. ASSUME NEW r \in 0 .. Two, Left[r] > 0
      PROVE  Cardinality(RanksLeft) >= 1
  <2>1. r \in RanksLeft
    BY <1>5 DEF RanksLeft
  <2>2. {} \in SUBSET RanksLeft /\ RanksLeft \in SUBSET (0 .. Two)
    BY DEF RanksLeft
  <2>3. {} # RanksLeft => Cardinality({}) < Cardinality(RanksLeft)
    BY <2>2, RanksCounted, Zenon
  <2>4. Cardinality({}) = 0
    BY FS_EmptySet
  <2> QED
    BY <1>4, <2>1, <2>3, <2>4
<1>6. /\ Tallied(seat, p).bombs = tally.bombs + (IF p.kind = "BOMB" THEN 1 ELSE 0)
      /\ Tallied(seat, p).rockets = tally.rockets + (IF p.kind = "ROCKET" THEN 1 ELSE 0)
  BY <1>1, TallyCounts
<1> HIDE DEF p, seat
<1>7. p.kind = "BOMB" => Cardinality(RanksLeft) >= 1
  BY <1>3, <1>5
<1>8. tally.bombs + (IF p.kind = "BOMB" THEN 1 ELSE 0) <= 13
  BY <1>4, <1>7
<1>9. tally.rockets + (IF p.kind = "ROCKET" THEN 1 ELSE 0) <= 1
  BY <1>3, <1>4
<1> QED
  BY <1>6, <1>8, <1>9 DEF Settleable

(* The auction goes to the highest bid, the turn follows the lead, and     *)
(* every game that is won is settled with points that balance, for any     *)
(* deals of one deck.                                                      *)
THEOREM GameFair == GameSpec => []GameIsFair
<1>1. GameInv => GameIsFair
  BY FairAuction, FairTurns, FairWins DEF GameInv, GameIsFair
<1> QED
  BY <1>1, GameInvariant, PTL

-----------------------------------------------------------------------------
(* The analysis of cards *)

(* Cards are taken apart into the body of a pattern and a rest, whose      *)
(* sizes add up.                                                           *)
CardBags == [Ranks -> 0 .. 4]

(* The size of a bag is taken five ranks at a time. *)
Five(b, i) == b[i] + b[i + 1] + b[i + 2] + b[i + 3] + b[i + 4]
LEMMA SizeByFives ==
    ASSUME NEW b \in [Ranks -> Nat]
    PROVE  /\ Size(b) = Five(b, 0) + Five(b, 5) + Five(b, 10)
           /\ Five(b, 0) \in Nat /\ Five(b, 5) \in Nat /\ Five(b, 10) \in Nat
<1>1. Five(b, 0) \in Nat /\ Five(b, 5) \in Nat /\ Five(b, 10) \in Nat
  BY DEF Five, Ranks
<1>2. /\ Five(b, 0) = b[0] + b[1] + b[2] + b[3] + b[4]
      /\ Five(b, 5) = b[5] + b[6] + b[7] + b[8] + b[9]
      /\ Five(b, 10) = b[10] + b[11] + b[12] + b[13] + b[14]
  BY DEF Five, Ranks
<1>3. Size(b) = (b[0] + b[1] + b[2] + b[3] + b[4]) + (b[5] + b[6] + b[7] + b[8] + b[9])
                + (b[10] + b[11] + b[12] + b[13] + b[14])
  BY DEF Size, Ranks
<1> QED
  BY <1>1, <1>2, <1>3

LEMMA FiveAdds ==
    ASSUME NEW b \in [Ranks -> Nat], NEW c \in [Ranks -> Nat], NEW d \in [Ranks -> Nat],
           \A r \in Ranks : b[r] = c[r] + d[r], NEW i \in {0, 5, 10}
    PROVE  Five(b, i) = Five(c, i) + Five(d, i)
<1>1. i \in Ranks /\ i + 1 \in Ranks /\ i + 2 \in Ranks /\ i + 3 \in Ranks /\ i + 4 \in Ranks
  BY DEF Ranks
<1>2. /\ b[i] = c[i] + d[i] /\ b[i + 1] = c[i + 1] + d[i + 1] /\ b[i + 2] = c[i + 2] + d[i + 2]
      /\ b[i + 3] = c[i + 3] + d[i + 3] /\ b[i + 4] = c[i + 4] + d[i + 4]
  BY <1>1
<1> QED
  BY <1>1, <1>2 DEF Five

LEMMA SizesAdd ==
    ASSUME NEW b \in [Ranks -> Nat], NEW c \in [Ranks -> Nat], NEW d \in [Ranks -> Nat],
           \A r \in Ranks : b[r] = c[r] + d[r]
    PROVE  Size(b) = Size(c) + Size(d)
<1>1. \A i \in {0, 5, 10} : Five(b, i) = Five(c, i) + Five(d, i)
  BY FiveAdds
<1> QED
  BY <1>1, SizeByFives

LEMMA SizeTyped ==
    ASSUME NEW b \in CardBags
    PROVE  b \in [Ranks -> Nat] /\ Size(b) \in Nat /\ \A r \in Ranks : b[r] <= Size(b)
<1>0. b \in [Ranks -> Nat]
  BY DEF CardBags
<1>1. Size(b) \in Nat
  BY <1>0, SizeByFives
<1>2. ASSUME NEW r \in Ranks
      PROVE  b[r] <= Size(b)
  <2> DEFINE c == [s \in Ranks |-> IF s = r THEN b[s] ELSE 0]
             d == [s \in Ranks |-> IF s = r THEN 0 ELSE b[s]]
  <2>0. c \in [Ranks -> 0 .. 4]
    BY DEF CardBags
  <2>1. c \in [Ranks -> Nat] /\ d \in [Ranks -> Nat] /\ \A s \in Ranks : b[s] = c[s] + d[s]
    BY <1>0
  <2>2. c[r] = b[r] /\ \A s \in Ranks : s # r => c[s] = 0
    OBVIOUS
  <2> HIDE DEF c, d
  <2>3. Size(c) = b[r]
    BY <2>0, <2>2, SizeOfOne
  <2>4. Size(d) \in Nat
    BY <2>1, SizeByFives
  <2>5. Size(b) = Size(c) + Size(d)
    BY <1>0, <2>1, SizesAdd
  <2>6. b[r] \in Nat
    BY <1>0
  <2> QED
    BY <2>3, <2>4, <2>5, <2>6
<1> QED
  BY <1>0, <1>1, <1>2

(* A bag without its cards of some ranks, and those cards. *)
Besides(b, S) == [r \in Ranks |-> IF r \in S THEN 0 ELSE b[r]]
Within(b, S) == [r \in Ranks |-> IF r \in S THEN b[r] ELSE 0]

LEMMA PartsAddUp ==
    ASSUME NEW b \in CardBags, NEW S
    PROVE  /\ b \in [Ranks -> Nat] /\ Besides(b, S) \in CardBags /\ Within(b, S) \in CardBags
           /\ Size(b) = Size(Besides(b, S)) + Size(Within(b, S))
           /\ Size(b) \in Nat /\ Size(Besides(b, S)) \in Nat /\ Size(Within(b, S)) \in Nat
<1>1. \A c \in CardBags : c \in [Ranks -> Nat]
  BY DEF CardBags
<1>2. Besides(b, S) \in CardBags /\ Within(b, S) \in CardBags
  BY DEF CardBags, Besides, Within
<1>3. \A r \in Ranks : b[r] = Besides(b, S)[r] + Within(b, S)[r]
  BY DEF CardBags, Besides, Within
<1>4. Size(b) = Size(Besides(b, S)) + Size(Within(b, S))
  BY <1>1, <1>2, <1>3, SizesAdd
<1> QED
  BY <1>1, <1>2, <1>4, SizeByFives

(* The ranks of a bag up to one of them are counted one by one. *)
HeldTo(b, n) == {r \in 0 .. n : b[r] > 0}
LEMMA CountOne ==
    ASSUME NEW b, NEW n \in 0 .. 13, IsFiniteSet(HeldTo(b, n))
    PROVE  /\ IsFiniteSet(HeldTo(b, n + 1))
           /\ Cardinality(HeldTo(b, n + 1)) = Cardinality(HeldTo(b, n)) + (IF b[n + 1] > 0 THEN 1 ELSE 0)
<1>1. \A r : r \in 0 .. n + 1 <=> r \in 0 .. n \/ r = n + 1
  OBVIOUS
<1>2. CASE b[n + 1] > 0
  <2>1. HeldTo(b, n + 1) = HeldTo(b, n) \cup {n + 1} /\ n + 1 \notin HeldTo(b, n)
    BY <1>1, <1>2 DEF HeldTo
  <2>2. /\ IsFiniteSet(HeldTo(b, n) \cup {n + 1})
        /\ Cardinality(HeldTo(b, n) \cup {n + 1})
              = IF n + 1 \in HeldTo(b, n) THEN Cardinality(HeldTo(b, n)) ELSE Cardinality(HeldTo(b, n)) + 1
    BY FS_AddElement, Zenon
  <2> QED
    BY <1>2, <2>1, <2>2
<1>3. CASE ~(b[n + 1] > 0)
  <2>1. HeldTo(b, n + 1) = HeldTo(b, n)
    BY <1>1, <1>3 DEF HeldTo
  <2>2. Cardinality(HeldTo(b, n)) \in Nat
    BY FS_CardinalityType, Zenon
  <2> QED
    BY <1>3, <2>1, <2>2
<1> QED
  BY <1>2, <1>3

(* A bag with one card of each rank that another holds. *)
Ones(b) == [r \in Ranks |-> IF b[r] > 0 THEN 1 ELSE 0]
LEMMA HeldCounted ==
    ASSUME NEW b \in CardBags
    PROVE  /\ IsFiniteSet(Held(b)) /\ Cardinality(Held(b)) \in Nat
           /\ Cardinality(Held(b)) = Size(Ones(b))
<1> DEFINE C(n) == Cardinality(HeldTo(b, n))
           F(n) == IsFiniteSet(HeldTo(b, n))
           o == Ones(b)
<1>1. \A n \in 0 .. 13 : F(n) => F(n + 1) /\ C(n + 1) = C(n) + o[n + 1]
  <2> SUFFICES ASSUME NEW n \in 0 .. 13, F(n)
               PROVE  F(n + 1) /\ C(n + 1) = C(n) + o[n + 1]
    OBVIOUS
  <2>1. o[n + 1] = IF b[n + 1] > 0 THEN 1 ELSE 0
    BY DEF Ones, Ranks
  <2> QED
    BY <2>1, CountOne
<1>2. F(0) /\ C(0) = o[0]
  <2>1. \A r : r \in 0 .. 0 <=> r = 0
    OBVIOUS
  <2>2. o[0] = IF b[0] > 0 THEN 1 ELSE 0
    BY DEF Ones, Ranks
  <2>3. CASE b[0] > 0
    <3>1. HeldTo(b, 0) = {0}
      BY <2>1, <2>3 DEF HeldTo
    <3> QED
      BY <2>2, <2>3, <3>1, FS_Singleton
  <2>4. CASE ~(b[0] > 0)
    <3>1. HeldTo(b, 0) = {}
      BY <2>1, <2>4 DEF HeldTo
    <3> QED
      BY <2>2, <2>4, <3>1, FS_EmptySet
  <2> QED
    BY <2>3, <2>4
<1>3. o \in [Ranks -> Nat]
  BY DEF Ones
<1> HIDE DEF C, F, o
<1>4. F(1) /\ F(2) /\ F(3) /\ F(4) /\ F(5) /\ F(6) /\ F(7)
  BY <1>1, <1>2
<1>5. F(8) /\ F(9) /\ F(10) /\ F(11) /\ F(12) /\ F(13) /\ F(14)
  BY <1>1, <1>4
<1>6. /\ C(1) = C(0) + o[1] /\ C(2) = C(1) + o[2] /\ C(3) = C(2) + o[3] /\ C(4) = C(3) + o[4]
      /\ C(5) = C(4) + o[5] /\ C(6) = C(5) + o[6] /\ C(7) = C(6) + o[7]
  BY <1>1, <1>2, <1>4
<1>7. /\ C(8) = C(7) + o[8] /\ C(9) = C(8) + o[9] /\ C(10) = C(9) + o[10] /\ C(11) = C(10) + o[11]
      /\ C(12) = C(11) + o[12] /\ C(13) = C(12) + o[13] /\ C(14) = C(13) + o[14]
  BY <1>1, <1>4, <1>5
<1>8. C(14) = Size(o)
  BY <1>2, <1>3, <1>6, <1>7 DEF Size, Ranks
<1>9. Held(b) = HeldTo(b, 14)
  BY DEF Held, HeldTo, Ranks
<1>10. IsFiniteSet(Held(b)) /\ Cardinality(Held(b)) = Size(Ones(b))
  BY <1>5, <1>8, <1>9 DEF C, F, o
<1>11. Cardinality(Held(b)) \in Nat
  BY <1>10, FS_CardinalityType, Zenon
<1> QED
  BY <1>10, <1>11

(* Cards in equal number of each rank. *)
LEMMA EqualCopies ==
    ASSUME NEW b \in CardBags, NEW k \in 1 .. 4, \A r \in Ranks : b[r] \in {0, k}
    PROVE  Size(b) = k * Cardinality(Held(b))
<1> DEFINE o == Ones(b)
           c == [r \in Ranks |-> o[r] + o[r]]
<1>1. Cardinality(Held(b)) = Size(o)
  BY HeldCounted
<1>2. /\ b \in [Ranks -> Nat] /\ o \in [Ranks -> Nat] /\ c \in [Ranks -> Nat]
      /\ \A r \in Ranks : c[r] = o[r] + o[r] /\ (b[r] = 0 => o[r] = 0) /\ (b[r] = k => o[r] = 1)
  BY DEF Ones, CardBags
<1> HIDE DEF o, c
<1>3. Size(o) \in Nat /\ Size(c) = Size(o) + Size(o)
  BY <1>2, SizeByFives, SizesAdd
<1>4. CASE k = 1
  <2>1. b = o
    BY <1>2, <1>4
  <2> QED
    BY <1>1, <1>3, <1>4, <2>1
<1>5. CASE k = 2
  <2>1. \A r \in Ranks : b[r] = o[r] + o[r]
    BY <1>2, <1>5
  <2>2. Size(b) = Size(o) + Size(o)
    BY <1>2, <2>1, SizesAdd
  <2> QED
    BY <1>1, <1>3, <1>5, <2>2
<1>6. CASE k = 3
  <2>1. \A r \in Ranks : b[r] = c[r] + o[r]
    BY <1>2, <1>6
  <2>2. Size(b) = Size(c) + Size(o)
    BY <1>2, <2>1, SizesAdd
  <2> QED
    BY <1>1, <1>3, <1>6, <2>2
<1>7. CASE k = 4
  <2>1. \A r \in Ranks : b[r] = c[r] + c[r]
    BY <1>2, <1>7
  <2>2. Size(b) = Size(c) + Size(c)
    BY <1>2, <2>1, SizesAdd
  <2> QED
    BY <1>1, <1>3, <1>7, <2>2
<1> QED
  BY <1>4, <1>5, <1>6, <1>7

(* A bag is some consecutive ranks with as many cards of each, and a rest. *)
LEMMA BodyTaken ==
    ASSUME NEW b \in CardBags, NEW k \in 1 .. 4, NEW low \in Ranks, NEW n \in Nat, n >= 1,
           low .. low + n - 1 \subseteq Ranks, \A r \in low .. low + n - 1 : b[r] = k
    PROVE  /\ Besides(b, low .. low + n - 1) \in CardBags
           /\ Size(Besides(b, low .. low + n - 1)) \in Nat
           /\ Size(b) = k * n + Size(Besides(b, low .. low + n - 1))
           /\ n \in 1 .. Cardinality(Held(b))
<1> DEFINE S == low .. low + n - 1
           part == Within(b, S)
<1>1. low \in Int /\ low + n - 1 \in Int /\ low <= low + n - 1
  BY DEF Ranks
<1>2. IsFiniteSet(S) /\ Cardinality(S) = n
  <2> DEFINE high == low + n - 1
  <2>1. low \in Int /\ high \in Int /\ low <= high /\ high - low + 1 = n
    BY <1>1 DEF Ranks
  <2> HIDE DEF high
  <2>2. IsFiniteSet(low .. high) /\ Cardinality(low .. high) = IF low > high THEN 0 ELSE high - low + 1
    BY <2>1, FS_Interval, Zenon
  <2>3. Cardinality(low .. high) = n
    BY <2>1, <2>2
  <2> QED
    BY <2>2, <2>3 DEF high
<1>3. Cardinality(S) = n
  BY <1>2
<1>4. S \subseteq Ranks /\ \A r \in S : b[r] = k
  OBVIOUS
<1> HIDE DEF S
<1>5. part \in CardBags /\ \A r \in Ranks : part[r] \in {0, k}
  BY <1>4, PartsAddUp DEF Within
<1>6. Held(part) = S
  BY <1>4 DEF Held, Within
<1>7. Size(part) = k * n
  BY <1>3, <1>5, <1>6, EqualCopies
<1>8. S \subseteq Held(b)
  BY <1>4 DEF Held
<1>9. IsFiniteSet(Held(b)) /\ Cardinality(Held(b)) \in Nat
  BY HeldCounted
<1>10. Cardinality(S) <= Cardinality(Held(b))
  BY <1>8, <1>9, FS_Subset, Zenon
<1>11. /\ Besides(b, S) \in CardBags /\ Size(Besides(b, S)) \in Nat /\ Size(part) \in Nat
       /\ Size(b) = Size(Besides(b, S)) + Size(part)
  BY PartsAddUp
<1>12. Size(b) = k * n + Size(Besides(b, S))
  BY <1>7, <1>11
<1> QED
  BY <1>3, <1>9, <1>10, <1>11, <1>12 DEF S

(* A bag of no cards. *)
LEMMA NothingLeft ==
    ASSUME NEW b \in CardBags
    PROVE  Size(b) = 0 <=> \A r \in Ranks : b[r] = 0
<1>1. ASSUME Size(b) = 0, NEW r \in Ranks PROVE b[r] = 0
  <2>1. b[r] \in 0 .. 4
    BY DEF CardBags
  <2> QED
    BY <1>1, <2>1, SizeTyped
<1>2. ASSUME \A r \in Ranks : b[r] = 0 PROVE Size(b) = 0
  <2>1. b[0] = 0 /\ 0 \in Ranks
    BY <1>2 DEF Ranks
  <2> QED
    BY <1>2, <2>1, SizeOfOne DEF CardBags
<1> QED
  BY <1>1, <1>2

(* What a reading is made of. *)
LEMMA ReadingMade ==
    ASSUME NEW b \in CardBags, NEW k \in BodyKinds, NEW low \in Ranks, NEW n \in Nat, n >= 1,
           MadeOf(b, k, low, n)
    PROVE  /\ Copies(k) \in 1 .. 4 /\ b[low] = Copies(k)
           /\ low .. low + n - 1 \subseteq Ranks /\ \A r \in low .. low + n - 1 : b[r] = Copies(k)
           /\ Size(b) = Copies(k) * n + Size(Besides(b, low .. low + n - 1))
           /\ Besides(b, low .. low + n - 1) \in CardBags /\ Size(Besides(b, low .. low + n - 1)) \in Nat
           /\ n \in 1 .. Cardinality(Held(b))
<1>1. Copies(k) \in 1 .. 4
  BY DEF Copies, BodyKinds, ThreeKinds, FourKinds
<1>2. low .. low + n - 1 \subseteq Ranks /\ \A r \in low .. low + n - 1 : b[r] = Copies(k)
  BY DEF MadeOf, Ranks, Ace
<1>3. low \in low .. low + n - 1
  BY DEF Ranks
<1> QED
  BY <1>1, <1>2, <1>3, BodyTaken

LEMMA ReadingFound ==
    ASSUME NEW b \in CardBags, NEW k \in BodyKinds, NEW low \in Ranks, NEW n \in Nat, n >= 1,
           MadeOf(b, k, low, n)
    PROVE  IsReading(b, Pattern(k, low + n - 1, n, Size(b)))
<1>1. low \in RanksWith(b, Copies(k)) /\ n \in 1 .. Cardinality(Held(b))
  BY ReadingMade DEF RanksWith
<1> QED
  BY <1>1 DEF IsReading

(* CanBeat accepts every reading of cards of one deck. *)
LEMMA ReadingsAreValid ==
    ASSUME NEW b \in CardBags, \A r \in Jokers : b[r] <= 1, NEW p, IsReading(b, p)
    PROVE  ValidStructure(p)
<1>0. PICK k \in BodyKinds :
          \E low \in RanksWith(b, Copies(k)) : \E n \in 1 .. Cardinality(Held(b)) :
              MadeOf(b, k, low, n) /\ p = Pattern(k, low + n - 1, n, Size(b))
  BY Zenon DEF IsReading
<1>1. PICK low \in RanksWith(b, Copies(k)) : \E n \in 1 .. Cardinality(Held(b)) :
          MadeOf(b, k, low, n) /\ p = Pattern(k, low + n - 1, n, Size(b))
  BY <1>0, Zenon
<1>2. PICK n \in 1 .. Cardinality(Held(b)) :
          MadeOf(b, k, low, n) /\ p = Pattern(k, low + n - 1, n, Size(b))
  BY <1>1, Zenon
<1>a. low \in Ranks /\ n \in Nat /\ n >= 1
  BY HeldCounted DEF RanksWith
<1>3. b[low] = Copies(k) /\ Copies(k) \in 1 .. 4
  BY <1>2, <1>a, ReadingMade
<1>4. p.kind = k /\ p.rank = low + n - 1 /\ p.length = n
  BY <1>2 DEF Pattern
<1>5. k # "none" /\ k # "ROCKET"
  BY DEF BodyKinds, ThreeKinds, FourKinds
<1>6. CASE k \in SequenceKinds
  <2>1. low .. low + n - 1 \subseteq 0 .. Ace
    BY <1>2, <1>6 DEF MadeOf
  <2>2. low \in low .. low + n - 1 /\ low + n - 1 \in low .. low + n - 1
    BY <1>a DEF Ranks
  <2>3. low + n - 1 <= Ace /\ low >= 0
    BY <1>a, <2>1, <2>2 DEF Ace, Ranks
  <2>4. (low + n - 1) - n + 1 = low
    BY <1>a DEF Ranks
  <2> QED
    BY <1>4, <1>5, <1>6, <2>3, <2>4 DEF ValidStructure
<1>7. CASE k \notin SequenceKinds
  <2>1. n = 1
    BY <1>2, <1>7 DEF MadeOf
  <2>2. ASSUME k # "SINGLE" PROVE low <= Two
    <3>1. Copies(k) >= 2
      BY <1>7, <2>2 DEF Copies, BodyKinds, SequenceKinds, ThreeKinds, FourKinds
    <3>2. low \notin Jokers
      <4>1. b[low] > 1
        BY <1>3, <3>1
      <4> QED
        BY <1>3, <4>1
    <3>3. low \in 0 .. 14 /\ low # 13 /\ low # 14
      BY <1>a, <3>2 DEF Ranks, Jokers
    <3> QED
      BY <3>3 DEF Two
  <2>3. p.rank = low
    BY <1>a, <1>4, <2>1 DEF Ranks
  <2> QED
    BY <1>4, <1>5, <1>7, <2>1, <2>2, <2>3 DEF ValidStructure
<1> QED
  BY <1>6, <1>7

(* Where the triples of an airplane with wings may start. *)
SingleWinged(b) ==
    {low \in Bodies(b, Size(b) \div 4) :
        /\ Size(b) % 4 = 0 /\ Size(b) \div 4 >= 2
        /\ SingleWings(WithoutBody(b, low, Size(b) \div 4), Size(b) \div 4)}
PairWinged(b) ==
    {low \in Bodies(b, Size(b) \div 5) :
        /\ Size(b) % 5 = 0 /\ Size(b) \div 5 >= 2
        /\ PairWings(WithoutBody(b, low, Size(b) \div 5), Size(b) \div 5)}

Unanalyzed(b) ==
    /\ Held(b) # Jokers /\ Cardinality(Held(b)) # 1
    /\ ~(Size(b) = 4 /\ RanksWith(b, 3) # {})
    /\ ~(Size(b) = 5 /\ RanksWith(b, 3) # {} /\ RanksWith(b, 2) # {})
    /\ ~IsSequence(b, 1, 5) /\ ~IsSequence(b, 2, 3) /\ ~IsSequence(b, 3, 2)
    /\ ~(SingleWinged(b) # {} /\ ~IsSequence(b, 3, 2)) /\ PairWinged(b) = {}
    /\ ~(Size(b) = 6 /\ RanksWith(b, 4) # {})
    /\ ~(Size(b) = 8 /\ RanksWith(b, 4) # {} /\ Cardinality(RanksWith(b, 2)) = 2)

LEMMA Analyzed ==
    ASSUME NEW b
    PROVE  \/ /\ Held(b) = Jokers
              /\ Analyze(b) = Pattern("ROCKET", 14, 1, 2)
           \/ /\ Cardinality(Held(b)) = 1
              /\ Analyze(b) = Pattern(<<"SINGLE", "PAIR", "TRIPLE", "BOMB">>[Size(b)], Highest(b), 1, Size(b))
           \/ /\ Size(b) = 4 /\ RanksWith(b, 3) # {}
              /\ Analyze(b) = Pattern("TRIPLE_WITH_SINGLE", Lowest(RanksWith(b, 3)), 1, 4)
           \/ /\ Size(b) = 5 /\ RanksWith(b, 3) # {} /\ RanksWith(b, 2) # {}
              /\ Analyze(b) = Pattern("TRIPLE_WITH_PAIR", Lowest(RanksWith(b, 3)), 1, 5)
           \/ /\ IsSequence(b, 1, 5)
              /\ Analyze(b) = Pattern("STRAIGHT", Highest(b), Size(b), Size(b))
           \/ /\ IsSequence(b, 2, 3)
              /\ Analyze(b) = Pattern("CONSECUTIVE_PAIRS", Highest(b), Size(b) \div 2, Size(b))
           \/ /\ IsSequence(b, 3, 2)
              /\ Analyze(b) = Pattern("AIRPLANE", Highest(b), Size(b) \div 3, Size(b))
           \/ /\ SingleWinged(b) # {}
              /\ Analyze(b) = Pattern("AIRPLANE_WITH_SINGLES",
                                      Lowest(SingleWinged(b)) + (Size(b) \div 4) - 1, Size(b) \div 4, Size(b))
           \/ /\ PairWinged(b) # {}
              /\ Analyze(b) = Pattern("AIRPLANE_WITH_PAIRS",
                                      Lowest(PairWinged(b)) + (Size(b) \div 5) - 1, Size(b) \div 5, Size(b))
           \/ /\ Size(b) = 6 /\ RanksWith(b, 4) # {}
              /\ Analyze(b) = Pattern("FOUR_WITH_TWO_SINGLES", Lowest(RanksWith(b, 4)), 1, 6)
           \/ /\ Size(b) = 8 /\ RanksWith(b, 4) # {} /\ Cardinality(RanksWith(b, 2)) = 2
              /\ Analyze(b) = Pattern("FOUR_WITH_TWO_PAIRS", Lowest(RanksWith(b, 4)), 1, 8)
           \/ Unanalyzed(b) /\ Analyze(b) = NoPattern
<1> DEFINE n  == Size(b)
           g1 == Held(b) = Jokers
           g2 == Cardinality(Held(b)) = 1
           g3 == n = 4 /\ RanksWith(b, 3) # {}
           g4 == n = 5 /\ RanksWith(b, 3) # {} /\ RanksWith(b, 2) # {}
           g5 == IsSequence(b, 1, 5)
           g6 == IsSequence(b, 2, 3)
           g7 == IsSequence(b, 3, 2)
           g8 == SingleWinged(b) # {}
           g9 == PairWinged(b) # {}
           g10 == n = 6 /\ RanksWith(b, 4) # {}
           g11 == n = 8 /\ RanksWith(b, 4) # {} /\ Cardinality(RanksWith(b, 2)) = 2
           v1 == Pattern("ROCKET", 14, 1, 2)
           v2 == Pattern(<<"SINGLE", "PAIR", "TRIPLE", "BOMB">>[n], Highest(b), 1, n)
           v3 == Pattern("TRIPLE_WITH_SINGLE", Lowest(RanksWith(b, 3)), 1, 4)
           v4 == Pattern("TRIPLE_WITH_PAIR", Lowest(RanksWith(b, 3)), 1, 5)
           v5 == Pattern("STRAIGHT", Highest(b), n, n)
           v6 == Pattern("CONSECUTIVE_PAIRS", Highest(b), n \div 2, n)
           v7 == Pattern("AIRPLANE", Highest(b), n \div 3, n)
           v8 == Pattern("AIRPLANE_WITH_SINGLES", Lowest(SingleWinged(b)) + (n \div 4) - 1, n \div 4, n)
           v9 == Pattern("AIRPLANE_WITH_PAIRS", Lowest(PairWinged(b)) + (n \div 5) - 1, n \div 5, n)
           v10 == Pattern("FOUR_WITH_TWO_SINGLES", Lowest(RanksWith(b, 4)), 1, 6)
           v11 == Pattern("FOUR_WITH_TWO_PAIRS", Lowest(RanksWith(b, 4)), 1, 8)
<1>1. Analyze(b) =
          CASE g1 -> v1 [] g2 -> v2 [] g3 -> v3 [] g4 -> v4 [] g5 -> v5 [] g6 -> v6 [] g7 -> v7
            [] g8 /\ ~g7 -> v8 [] g9 -> v9 [] g10 -> v10 [] g11 -> v11 [] OTHER -> NoPattern
  BY Zenon DEF Analyze, Lowest, SingleWinged, PairWinged
<1>2. ~g1 /\ ~g2 /\ ~g3 /\ ~g4 /\ ~g5 /\ ~g6 /\ ~g7 /\ ~(g8 /\ ~g7) /\ ~g9 /\ ~g10 /\ ~g11
          => Unanalyzed(b)
  BY Zenon DEF Unanalyzed
<1> DEFINE A == Analyze(b)
           U == Unanalyzed(b)
<1>3. A = CASE g1 -> v1 [] g2 -> v2 [] g3 -> v3 [] g4 -> v4 [] g5 -> v5 [] g6 -> v6 [] g7 -> v7
            [] g8 /\ ~g7 -> v8 [] g9 -> v9 [] g10 -> v10 [] g11 -> v11 [] OTHER -> NoPattern
  BY <1>1
<1> HIDE DEF v1, v2, v3, v4, v5, v6, v7, v8, v9, v10, v11, A, U
<1>4. \/ g1 /\ A = v1
      \/ g2 /\ A = v2
      \/ g3 /\ A = v3
      \/ g4 /\ A = v4
      \/ g5 /\ A = v5
      \/ g6 /\ A = v6
      \/ g7 /\ A = v7
      \/ g8 /\ A = v8
      \/ g9 /\ A = v9
      \/ g10 /\ A = v10
      \/ g11 /\ A = v11
      \/ /\ ~g1 /\ ~g2 /\ ~g3 /\ ~g4 /\ ~g5 /\ ~g6 /\ ~g7 /\ ~(g8 /\ ~g7) /\ ~g9 /\ ~g10 /\ ~g11
         /\ A = NoPattern
  BY <1>3
<1> QED
  BY <1>2, <1>4, Zenon DEF v1, v2, v3, v4, v5, v6, v7, v8, v9, v10, v11, A, U

LEMMA LowestFound ==
    ASSUME NEW S \in SUBSET (0 .. 14), S # {}
    PROVE  Lowest(S) \in S /\ \A other \in S : Lowest(S) <= other
<1> DEFINE E(i) == \A j \in 0 .. i : j \notin S
<1>1. \E low \in S : \A other \in S : low <= other
  <2> SUFFICES ASSUME \A low \in S : \E other \in S : other < low
               PROVE  FALSE
    OBVIOUS
  <2>1. E(0)
    OBVIOUS
  <2>2. ASSUME NEW i \in 0 .. 13, E(i) PROVE E(i + 1)
    <3>1. \A other \in S : ~(other < i + 1)
      BY <2>2
    <3>2. i + 1 \notin S
      BY <3>1
    <3>3. \A j \in 0 .. i + 1 : j \in 0 .. i \/ j = i + 1
      OBVIOUS
    <3> QED
      BY <2>2, <3>2, <3>3
  <2> HIDE DEF E
  <2>3. E(1) /\ E(2) /\ E(3) /\ E(4) /\ E(5) /\ E(6) /\ E(7)
    BY <2>1, <2>2
  <2>4. E(8) /\ E(9) /\ E(10) /\ E(11) /\ E(12) /\ E(13) /\ E(14)
    BY <2>2, <2>3
  <2> QED
    BY <2>4 DEF E
<1> QED
  BY <1>1 DEF Lowest

LEMMA HighestFound ==
    ASSUME NEW b \in CardBags, Held(b) # {}
    PROVE  Highest(b) \in Held(b) /\ \A s \in Held(b) : s <= Highest(b)
<1> DEFINE S == {14 - r : r \in Held(b)}
<1>1. S \in SUBSET (0 .. 14) /\ S # {}
  BY DEF Held, Ranks
<1>2. PICK low \in S : \A other \in S : low <= other
  BY <1>1, LowestFound
<1>3. PICK r \in Held(b) : low = 14 - r
  BY <1>2
<1>4. \A s \in Held(b) : s <= r
  <2> SUFFICES ASSUME NEW s \in Held(b) PROVE s <= r
    OBVIOUS
  <2>1. 14 - s \in S
    OBVIOUS
  <2>2. low <= 14 - s /\ s \in 0 .. 14 /\ r \in 0 .. 14
    BY <1>2, <2>1 DEF Held, Ranks
  <2> HIDE DEF S
  <2> QED
    BY <1>3, <2>2
<1> QED
  BY <1>4 DEF Highest

(* A body of one rank. *)
LEMMA OneBody ==
    ASSUME NEW b \in CardBags, NEW r \in Ranks, b[r] # 0
    PROVE  /\ r .. r + 1 - 1 = {r}
           /\ Besides(b, {r}) \in CardBags /\ Size(Besides(b, {r})) \in Nat
           /\ Size(b) = b[r] + Size(Besides(b, {r}))
<1>1. r .. r + 1 - 1 = {r}
  BY DEF Ranks
<1>2. b[r] \in 1 .. 4
  BY DEF CardBags
<1>3. Size(b) = b[r] * 1 + Size(Besides(b, {r})) /\ Besides(b, {r}) \in CardBags /\ Size(Besides(b, {r})) \in Nat
  <2> DEFINE k == b[r]
  <2>1. k \in 1 .. 4 /\ \A q \in r .. r + 1 - 1 : b[q] = k
    BY <1>1, <1>2
  <2>2. r .. r + 1 - 1 \subseteq Ranks
    BY <1>1
  <2> HIDE DEF k
  <2>3. Size(b) = k * 1 + Size(Besides(b, r .. r + 1 - 1)) /\ Besides(b, r .. r + 1 - 1) \in CardBags
        /\ Size(Besides(b, r .. r + 1 - 1)) \in Nat
    BY <2>1, <2>2, BodyTaken
  <2> QED
    BY <1>1, <2>3 DEF k
<1> QED
  BY <1>1, <1>2, <1>3

LEMMA OneRankMade ==
    ASSUME NEW b \in CardBags, NEW k \in BodyKinds \ SequenceKinds, NEW r \in Ranks, b[r] = Copies(k),
           IF Wings(k, 1)[1] = "cards" THEN Size(Besides(b, {r})) = Wings(k, 1)[2]
           ELSE /\ \A s \in Ranks : Besides(b, {r})[s] \in {0, 2}
                /\ Size(Besides(b, {r})) = 2 * Wings(k, 1)[2]
    PROVE  IsReading(b, Pattern(k, r, 1, Size(b)))
<1>1. Copies(k) \in 1 .. 4
  BY DEF Copies, BodyKinds, ThreeKinds, FourKinds
<1>2. r .. r + 1 - 1 = {r}
  BY DEF Ranks
<1>3. MadeOf(b, k, r, 1)
  BY <1>2 DEF MadeOf, Besides
<1>4. IsReading(b, Pattern(k, r + 1 - 1, 1, Size(b)))
  BY <1>3, ReadingFound
<1>5. r + 1 - 1 = r
  BY DEF Ranks
<1> QED
  BY <1>4, <1>5

LEMMA OneRankRead ==
    ASSUME NEW b \in CardBags, Cardinality(Held(b)) = 1
    PROVE  IsReading(b, Pattern(<<"SINGLE", "PAIR", "TRIPLE", "BOMB">>[Size(b)], Highest(b), 1, Size(b)))
<1> DEFINE k == <<"SINGLE", "PAIR", "TRIPLE", "BOMB">>[Size(b)]
<1>1. IsFiniteSet(Held(b))
  BY HeldCounted
<1>2. PICK r : Held(b) = {r}
  BY <1>1, FS_Singleton, Zenon
<1>3. r \in Ranks /\ b[r] \in 1 .. 4 /\ \A q \in Ranks : q # r => b[q] = 0
  BY <1>2 DEF Held, CardBags
<1>4. Size(b) = b[r]
  BY <1>3, SizeOfOne DEF CardBags
<1>5. Highest(b) = r
  BY <1>2, HighestFound
<1>6. k \in {"SINGLE", "PAIR", "TRIPLE", "BOMB"} /\ Copies(k) = b[r]
  BY <1>3, <1>4 DEF Copies, ThreeKinds, FourKinds
<1>7. k \in BodyKinds \ SequenceKinds /\ Wings(k, 1) = <<"cards", 0>>
  BY <1>6 DEF BodyKinds, SequenceKinds, ThreeKinds, FourKinds, Wings
<1> HIDE DEF k
<1>8. Size(Besides(b, {r})) = 0
  BY <1>3, <1>4, OneBody
<1>9. IsReading(b, Pattern(k, r, 1, Size(b)))
  BY <1>3, <1>6, <1>7, <1>8, OneRankMade
<1> QED
  BY <1>5, <1>9 DEF k

(* A triple or a bomb with wings. *)
LEMMA WingedRead ==
    ASSUME NEW b \in CardBags
    PROVE  /\ Size(b) = 4 /\ RanksWith(b, 3) # {} =>
                 IsReading(b, Pattern("TRIPLE_WITH_SINGLE", Lowest(RanksWith(b, 3)), 1, 4))
           /\ Size(b) = 6 /\ RanksWith(b, 4) # {} =>
                 IsReading(b, Pattern("FOUR_WITH_TWO_SINGLES", Lowest(RanksWith(b, 4)), 1, 6))
<1>1. RanksWith(b, 3) \in SUBSET (0 .. 14) /\ RanksWith(b, 4) \in SUBSET (0 .. 14)
  BY DEF RanksWith, Ranks
<1>2. ASSUME Size(b) = 4, RanksWith(b, 3) # {}
      PROVE  IsReading(b, Pattern("TRIPLE_WITH_SINGLE", Lowest(RanksWith(b, 3)), 1, 4))
  <2> DEFINE r == Lowest(RanksWith(b, 3))
  <2>1. r \in Ranks /\ b[r] = 3
    BY <1>1, <1>2, LowestFound DEF RanksWith
  <2> HIDE DEF r
  <2>2. Size(Besides(b, {r})) = 1
    BY <1>2, <2>1, OneBody
  <2>3. /\ "TRIPLE_WITH_SINGLE" \in BodyKinds \ SequenceKinds /\ Copies("TRIPLE_WITH_SINGLE") = 3
        /\ Wings("TRIPLE_WITH_SINGLE", 1) = <<"cards", 1>>
    BY DEF BodyKinds, SequenceKinds, ThreeKinds, FourKinds, Copies, Wings
  <2>4. IsReading(b, Pattern("TRIPLE_WITH_SINGLE", r, 1, Size(b)))
    BY <2>1, <2>2, <2>3, OneRankMade
  <2> QED
    BY <1>2, <2>4 DEF r
<1>3. ASSUME Size(b) = 6, RanksWith(b, 4) # {}
      PROVE  IsReading(b, Pattern("FOUR_WITH_TWO_SINGLES", Lowest(RanksWith(b, 4)), 1, 6))
  <2> DEFINE r == Lowest(RanksWith(b, 4))
  <2>1. r \in Ranks /\ b[r] = 4
    BY <1>1, <1>3, LowestFound DEF RanksWith
  <2> HIDE DEF r
  <2>2. Size(Besides(b, {r})) = 2
    BY <1>3, <2>1, OneBody
  <2>3. /\ "FOUR_WITH_TWO_SINGLES" \in BodyKinds \ SequenceKinds /\ Copies("FOUR_WITH_TWO_SINGLES") = 4
        /\ Wings("FOUR_WITH_TWO_SINGLES", 1) = <<"cards", 2>>
    BY DEF BodyKinds, SequenceKinds, ThreeKinds, FourKinds, Copies, Wings
  <2>4. IsReading(b, Pattern("FOUR_WITH_TWO_SINGLES", r, 1, Size(b)))
    BY <2>1, <2>2, <2>3, OneRankMade
  <2> QED
    BY <1>3, <2>4 DEF r
<1> QED
  BY <1>2, <1>3

(* A triple or a bomb with pairs: the pairs are all of the rest. *)
LEMMA PairsLeft ==
    ASSUME NEW b \in CardBags, NEW r \in Ranks, b[r] \in {3, 4},
           Size(b) = b[r] + 2 * Cardinality(RanksWith(b, 2))
    PROVE  /\ \A s \in Ranks : Besides(b, {r})[s] \in {0, 2}
           /\ Size(Besides(b, {r})) = 2 * Cardinality(RanksWith(b, 2))
<1> DEFINE c == Besides(b, {r})
           twos == RanksWith(b, 2)
           pairs == Within(c, twos)
           other == Besides(c, twos)
<1>1. c \in CardBags /\ Size(c) \in Nat /\ Size(b) = b[r] + Size(c)
  BY OneBody
<1>2. \A s \in Ranks : c[s] = IF s = r THEN 0 ELSE b[s]
  BY DEF Besides
<1>3. twos \subseteq Ranks /\ r \notin twos /\ \A s \in twos : c[s] = 2
  BY <1>2 DEF RanksWith
<1> HIDE DEF c, twos
<1>4. /\ pairs \in CardBags /\ other \in CardBags /\ Size(c) = Size(other) + Size(pairs)
      /\ Size(other) \in Nat /\ Size(pairs) \in Nat
  BY <1>1, PartsAddUp
<1>5. (\A s \in Ranks : pairs[s] \in {0, 2}) /\ Held(pairs) = twos
  BY <1>3 DEF Within, Held
<1>6. Size(pairs) = 2 * Cardinality(twos)
  BY <1>4, <1>5, EqualCopies
<1>7. Size(other) = 0
  <2>1. b[r] \in Nat /\ Size(b) = b[r] + 2 * Cardinality(twos)
    BY DEF twos
  <2> HIDE DEF other, pairs
  <2> QED
    BY <1>1, <1>4, <1>6, <2>1
<1>8. \A s \in Ranks : other[s] = 0
  BY <1>4, <1>7, NothingLeft
<1>9. ASSUME NEW s \in Ranks PROVE c[s] \in {0, 2}
  <2>1. CASE s \in twos
    BY <1>3, <2>1
  <2>2. CASE s \notin twos
    BY <1>8, <2>2 DEF Besides
  <2> QED
    BY <2>1, <2>2
<1>10. Size(c) = 2 * Cardinality(twos)
  <2> HIDE DEF other, pairs
  <2> QED
    BY <1>1, <1>4, <1>6, <1>7
<1> QED
  BY <1>9, <1>10 DEF c, twos

LEMMA PairWingedRead ==
    ASSUME NEW b \in CardBags
    PROVE  /\ Size(b) = 5 /\ RanksWith(b, 3) # {} /\ RanksWith(b, 2) # {} =>
                 IsReading(b, Pattern("TRIPLE_WITH_PAIR", Lowest(RanksWith(b, 3)), 1, 5))
           /\ Size(b) = 8 /\ RanksWith(b, 4) # {} /\ Cardinality(RanksWith(b, 2)) = 2 =>
                 IsReading(b, Pattern("FOUR_WITH_TWO_PAIRS", Lowest(RanksWith(b, 4)), 1, 8))
<1>1. RanksWith(b, 3) \in SUBSET (0 .. 14) /\ RanksWith(b, 4) \in SUBSET (0 .. 14)
  BY DEF RanksWith, Ranks
<1>2. ASSUME Size(b) = 5, RanksWith(b, 3) # {}, RanksWith(b, 2) # {}
      PROVE  IsReading(b, Pattern("TRIPLE_WITH_PAIR", Lowest(RanksWith(b, 3)), 1, 5))
  <2> DEFINE r == Lowest(RanksWith(b, 3))
  <2>1. r \in Ranks /\ b[r] = 3
    BY <1>1, <1>2, LowestFound DEF RanksWith
  <2> HIDE DEF r
  <2>2. PICK q \in Ranks : b[q] = 2
    BY <1>2 DEF RanksWith
  <2> DEFINE c == Besides(b, {r})
  <2>3. Size(c) = 2 /\ c \in CardBags
    BY <1>2, <2>1, OneBody
  <2>4. c[q] = 2
    BY <2>1, <2>2 DEF Besides
  <2> HIDE DEF c
  <2>5. Size(c) = c[q] + Size(Besides(c, {q})) /\ Besides(c, {q}) \in CardBags
        /\ Size(Besides(c, {q})) \in Nat
    BY <2>3, <2>4, OneBody
  <2>6. Size(Besides(c, {q})) = 0
    BY <2>3, <2>4, <2>5
  <2>7. \A s \in Ranks : Besides(c, {q})[s] = 0
    BY <2>5, <2>6, NothingLeft
  <2>8. \A s \in Ranks : c[s] \in {0, 2}
    BY <2>4, <2>7 DEF Besides
  <2>9. /\ "TRIPLE_WITH_PAIR" \in BodyKinds \ SequenceKinds /\ Copies("TRIPLE_WITH_PAIR") = 3
        /\ Wings("TRIPLE_WITH_PAIR", 1) = <<"pairs", 1>>
    BY DEF BodyKinds, SequenceKinds, ThreeKinds, FourKinds, Copies, Wings
  <2>10. IsReading(b, Pattern("TRIPLE_WITH_PAIR", r, 1, Size(b)))
    BY <2>1, <2>3, <2>8, <2>9, OneRankMade DEF c
  <2> QED
    BY <1>2, <2>10 DEF r
<1>3. ASSUME Size(b) = 8, RanksWith(b, 4) # {}, Cardinality(RanksWith(b, 2)) = 2
      PROVE  IsReading(b, Pattern("FOUR_WITH_TWO_PAIRS", Lowest(RanksWith(b, 4)), 1, 8))
  <2> DEFINE r == Lowest(RanksWith(b, 4))
  <2>1. r \in Ranks /\ b[r] = 4
    BY <1>1, <1>3, LowestFound DEF RanksWith
  <2> HIDE DEF r
  <2>2. /\ \A s \in Ranks : Besides(b, {r})[s] \in {0, 2}
        /\ Size(Besides(b, {r})) = 4
    BY <1>3, <2>1, PairsLeft
  <2>3. /\ "FOUR_WITH_TWO_PAIRS" \in BodyKinds \ SequenceKinds /\ Copies("FOUR_WITH_TWO_PAIRS") = 4
        /\ Wings("FOUR_WITH_TWO_PAIRS", 1) = <<"pairs", 2>>
    BY DEF BodyKinds, SequenceKinds, ThreeKinds, FourKinds, Copies, Wings
  <2>4. IsReading(b, Pattern("FOUR_WITH_TWO_PAIRS", r, 1, Size(b)))
    BY <2>1, <2>2, <2>3, OneRankMade
  <2> QED
    BY <1>3, <2>4 DEF r
<1> QED
  BY <1>2, <1>3

(* A sequence: as many cards of each rank, without a gap. *)
LEMMA SequenceKnown ==
    ASSUME NEW b \in CardBags, NEW k \in 1 .. 4, NEW least \in Nat, least >= 1, IsSequence(b, k, least)
    PROVE  \E low \in Ranks : \E n \in Nat :
              /\ n >= least /\ Held(b) = low .. low + n - 1 /\ Held(b) \subseteq 0 .. Ace
              /\ Highest(b) = low + n - 1 /\ Size(b) = k * n /\ Size(Besides(b, Held(b))) = 0
              /\ \A r \in Held(b) : b[r] = k
<1>1. /\ Held(b) \subseteq 0 .. Ace /\ \A r \in Held(b) : b[r] = k
      /\ Cardinality(Held(b)) >= least
      /\ \A r, s \in Held(b) : \A t \in r .. s : t \in Held(b)
  BY DEF IsSequence, RanksWith
<1>2. Held(b) # {}
  <2>1. Cardinality({}) = 0
    BY FS_EmptySet
  <2>2. Cardinality(Held(b)) \in Nat
    BY HeldCounted
  <2> QED
    BY <1>1, <2>1, <2>2
<1>3. Held(b) \in SUBSET (0 .. 14)
  BY DEF Held, Ranks
<1> DEFINE low == Lowest(Held(b))
           high == Highest(b)
           n == high - low + 1
<1>4. low \in Held(b) /\ high \in Held(b) /\ \A r \in Held(b) : low <= r /\ r <= high
  BY <1>2, <1>3, LowestFound, HighestFound
<1> HIDE DEF low, high
<1>5. low \in 0 .. 14 /\ high \in 0 .. 14 /\ low <= high
  BY <1>3, <1>4
<1>6. Held(b) = low .. high
  <2>1. ASSUME NEW r \in Held(b) PROVE r \in low .. high
    <3>1. r \in 0 .. 14
      BY <1>3
    <3> QED
      BY <1>4, <1>5, <3>1
  <2>2. \A t \in low .. high : t \in Held(b)
    BY <1>1, <1>4, Zenon
  <2> QED
    BY <2>1, <2>2
<1>7. n \in Nat /\ low + n - 1 = high
  BY <1>5
<1>8. Cardinality(Held(b)) = n
  <2>1. low \in Int /\ high \in Int
    BY <1>5
  <2>2. Cardinality(low .. high) = IF low > high THEN 0 ELSE high - low + 1
    BY <2>1, FS_Interval, Zenon
  <2> QED
    BY <1>5, <1>6, <2>2
<1>9. Size(b) = k * n
  <2>1. \A r \in Ranks : b[r] \in {0, k}
    <3> SUFFICES ASSUME NEW r \in Ranks, b[r] # 0 PROVE b[r] = k
      OBVIOUS
    <3>1. b[r] > 0
      BY DEF CardBags
    <3> QED
      BY <1>1, <3>1 DEF Held
  <2> QED
    BY <1>8, <2>1, EqualCopies
<1>10. Size(Besides(b, Held(b))) = 0
  <2>1. \A r \in Ranks : Besides(b, Held(b))[r] = 0
    BY DEF Besides, Held, CardBags
  <2> QED
    BY <2>1, NothingLeft, PartsAddUp
<1>11. low \in Ranks
  BY <1>5 DEF Ranks
<1> HIDE DEF n
<1> QED
  BY <1>1, <1>6, <1>7, <1>8, <1>9, <1>10, <1>11 DEF high

LEMMA SequenceMade ==
    ASSUME NEW b \in CardBags, NEW k \in {"STRAIGHT", "CONSECUTIVE_PAIRS", "AIRPLANE"},
           IsSequence(b, Copies(k), Shortest(k))
    PROVE  \E n \in Nat : Size(b) = Copies(k) * n /\ IsReading(b, Pattern(k, Highest(b), n, Size(b)))
<1>1. /\ Copies(k) \in 1 .. 4 /\ Shortest(k) \in Nat /\ Shortest(k) >= 1
      /\ k \in BodyKinds /\ k \in SequenceKinds
  BY DEF Copies, Shortest, BodyKinds, SequenceKinds, ThreeKinds, FourKinds
<1>2. \A n \in Nat : Wings(k, n) = <<"cards", 0>>
  BY DEF Wings
<1> DEFINE c == Copies(k)
           least == Shortest(k)
<1>3. c \in 1 .. 4 /\ least \in Nat /\ least >= 1 /\ IsSequence(b, c, least)
  BY <1>1
<1> HIDE DEF c, least
<1>4. \E low \in Ranks : \E n \in Nat :
         /\ n >= least /\ Held(b) = low .. low + n - 1 /\ Held(b) \subseteq 0 .. Ace
         /\ Highest(b) = low + n - 1 /\ Size(b) = c * n /\ Size(Besides(b, Held(b))) = 0
         /\ \A r \in Held(b) : b[r] = c
  BY <1>3, SequenceKnown
<1>5. PICK low \in Ranks : \E n \in Nat :
         /\ n >= least /\ Held(b) = low .. low + n - 1 /\ Held(b) \subseteq 0 .. Ace
         /\ Highest(b) = low + n - 1 /\ Size(b) = c * n /\ Size(Besides(b, Held(b))) = 0
         /\ \A r \in Held(b) : b[r] = c
  BY <1>4, Zenon
<1>6. PICK n \in Nat :
         /\ n >= least /\ Held(b) = low .. low + n - 1 /\ Held(b) \subseteq 0 .. Ace
         /\ Highest(b) = low + n - 1 /\ Size(b) = c * n /\ Size(Besides(b, Held(b))) = 0
         /\ \A r \in Held(b) : b[r] = c
  BY <1>5, Zenon
<1>7. MadeOf(b, k, low, n)
  <2>1. n >= Shortest(k) /\ \A r \in low .. low + n - 1 : b[r] = Copies(k)
    BY <1>6 DEF c, least
  <2>2. Wings(k, n)[1] = "cards" /\ Wings(k, n)[2] = 0
    BY <1>2
  <2>3. Size(Besides(b, low .. low + n - 1)) = 0
    BY <1>6
  <2>4. low .. low + n - 1 \subseteq 0 .. Ace
    BY <1>6
  <2> QED
    BY <1>1, <2>1, <2>2, <2>3, <2>4 DEF MadeOf, Besides
<1>8. IsReading(b, Pattern(k, low + n - 1, n, Size(b)))
  BY <1>1, <1>3, <1>6, <1>7, ReadingFound
<1>9. Size(b) = Copies(k) * n /\ IsReading(b, Pattern(k, Highest(b), n, Size(b)))
  BY <1>6, <1>8 DEF c
<1> QED
  BY <1>9

LEMMA SequenceRead ==
    ASSUME NEW b \in CardBags
    PROVE  /\ IsSequence(b, 1, 5) => IsReading(b, Pattern("STRAIGHT", Highest(b), Size(b), Size(b)))
           /\ IsSequence(b, 2, 3) =>
                 IsReading(b, Pattern("CONSECUTIVE_PAIRS", Highest(b), Size(b) \div 2, Size(b)))
           /\ IsSequence(b, 3, 2) =>
                 IsReading(b, Pattern("AIRPLANE", Highest(b), Size(b) \div 3, Size(b)))
<1>1. ASSUME IsSequence(b, 1, 5)
      PROVE  IsReading(b, Pattern("STRAIGHT", Highest(b), Size(b), Size(b)))
  <2>1. Copies("STRAIGHT") = 1 /\ Shortest("STRAIGHT") = 5
    BY DEF Copies, Shortest, ThreeKinds, FourKinds
  <2>2. PICK n \in Nat : /\ Size(b) = Copies("STRAIGHT") * n
                         /\ IsReading(b, Pattern("STRAIGHT", Highest(b), n, Size(b)))
    <3> DEFINE k == "STRAIGHT"
    <3>1. k \in {"STRAIGHT", "CONSECUTIVE_PAIRS", "AIRPLANE"} /\ IsSequence(b, Copies(k), Shortest(k))
      BY <1>1, <2>1
    <3> HIDE DEF k
    <3>2. \E n \in Nat : Size(b) = Copies(k) * n /\ IsReading(b, Pattern(k, Highest(b), n, Size(b)))
      BY <3>1, SequenceMade
    <3> QED
      BY <3>2, Zenon DEF k
  <2>3. n = Size(b)
    BY <2>1, <2>2
  <2> QED
    BY <2>2, <2>3
<1>2. ASSUME IsSequence(b, 2, 3)
      PROVE  IsReading(b, Pattern("CONSECUTIVE_PAIRS", Highest(b), Size(b) \div 2, Size(b)))
  <2>1. Copies("CONSECUTIVE_PAIRS") = 2 /\ Shortest("CONSECUTIVE_PAIRS") = 3
    BY DEF Copies, Shortest, ThreeKinds, FourKinds
  <2>2. PICK n \in Nat : /\ Size(b) = Copies("CONSECUTIVE_PAIRS") * n
                         /\ IsReading(b, Pattern("CONSECUTIVE_PAIRS", Highest(b), n, Size(b)))
    <3> DEFINE k == "CONSECUTIVE_PAIRS"
    <3>1. k \in {"STRAIGHT", "CONSECUTIVE_PAIRS", "AIRPLANE"} /\ IsSequence(b, Copies(k), Shortest(k))
      BY <1>2, <2>1
    <3> HIDE DEF k
    <3>2. \E n \in Nat : Size(b) = Copies(k) * n /\ IsReading(b, Pattern(k, Highest(b), n, Size(b)))
      BY <3>1, SequenceMade
    <3> QED
      BY <3>2, Zenon DEF k
  <2>3. n = Size(b) \div 2
    BY <2>1, <2>2
  <2> QED
    BY <2>2, <2>3
<1>3. ASSUME IsSequence(b, 3, 2)
      PROVE  IsReading(b, Pattern("AIRPLANE", Highest(b), Size(b) \div 3, Size(b)))
  <2>1. Copies("AIRPLANE") = 3 /\ Shortest("AIRPLANE") = 2
    BY DEF Copies, Shortest, ThreeKinds, FourKinds
  <2>2. PICK n \in Nat : /\ Size(b) = Copies("AIRPLANE") * n
                         /\ IsReading(b, Pattern("AIRPLANE", Highest(b), n, Size(b)))
    <3> DEFINE k == "AIRPLANE"
    <3>1. k \in {"STRAIGHT", "CONSECUTIVE_PAIRS", "AIRPLANE"} /\ IsSequence(b, Copies(k), Shortest(k))
      BY <1>3, <2>1
    <3> HIDE DEF k
    <3>2. \E n \in Nat : Size(b) = Copies(k) * n /\ IsReading(b, Pattern(k, Highest(b), n, Size(b)))
      BY <3>1, SequenceMade
    <3> QED
      BY <3>2, Zenon DEF k
  <2>3. n = Size(b) \div 3
    BY <2>1, <2>2
  <2> QED
    BY <2>2, <2>3
<1> QED
  BY <1>1, <1>2, <1>3

(* An airplane with wings: the rest is a card, or a pair, for each triple. *)
LEMMA AirplaneMade ==
    ASSUME NEW b \in CardBags, NEW k \in {"AIRPLANE_WITH_SINGLES", "AIRPLANE_WITH_PAIRS"}, NEW n \in Nat, n >= 2,
           NEW low \in Bodies(b, n),
           IF k = "AIRPLANE_WITH_SINGLES" THEN SingleWings(WithoutBody(b, low, n), n)
           ELSE PairWings(WithoutBody(b, low, n), n)
    PROVE  IsReading(b, Pattern(k, low + n - 1, n, Size(b)))
<1>1. /\ k \in BodyKinds /\ k \in SequenceKinds /\ Copies(k) = 3 /\ Shortest(k) = 2
  BY DEF Copies, Shortest, BodyKinds, SequenceKinds, ThreeKinds, FourKinds
<1>2. low \in 0 .. Ace /\ low + n - 1 <= Ace /\ \A r \in low .. low + n - 1 : b[r] = 3
  BY DEF Bodies, Body
<1>3. WithoutBody(b, low, n) = Besides(b, low .. low + n - 1)
  BY DEF WithoutBody, Body, Besides
<1>4. low .. low + n - 1 \subseteq 0 .. Ace
  BY <1>2 DEF Ace
<1>5. low \in Ranks
  BY <1>2 DEF Ranks, Ace
<1> DEFINE c == Besides(b, low .. low + n - 1)
<1>6. c \in CardBags
  BY PartsAddUp
<1>7. CASE k = "AIRPLANE_WITH_SINGLES"
  <2>1. Wings(k, n)[1] = "cards" /\ Wings(k, n)[2] = n
    BY <1>7 DEF Wings
  <2>2. Size(c) = n
    BY <1>3, <1>7 DEF SingleWings
  <2>3. MadeOf(b, k, low, n)
    BY <1>1, <1>2, <1>4, <2>1, <2>2 DEF MadeOf, Besides
  <2> QED
    BY <1>1, <1>5, <2>3, ReadingFound
<1>8. CASE k = "AIRPLANE_WITH_PAIRS"
  <2>1. Wings(k, n)[1] = "pairs" /\ Wings(k, n)[2] = n
    BY <1>8 DEF Wings
  <2>2. PairWings(c, n)
    BY <1>3, <1>8
  <2> HIDE DEF c
  <2>3. \A r \in Ranks : c[r] \in {0, 2}
    BY <2>2 DEF PairWings
  <2>4. Held(c) = RanksWith(c, 2)
    BY <2>3 DEF Held, RanksWith
  <2>5. Cardinality(RanksWith(c, 2)) = n
    BY <2>2, <1>5 DEF PairWings
  <2>6. Size(c) = 2 * n
    BY <1>6, <2>3, <2>4, <2>5, EqualCopies
  <2>7. MadeOf(b, k, low, n)
    BY <1>1, <1>2, <1>4, <2>1, <2>3, <2>6 DEF MadeOf, Besides, c
  <2> QED
    BY <1>1, <1>5, <2>7, ReadingFound
<1> QED
  BY <1>7, <1>8

LEMMA AirplaneRead ==
    ASSUME NEW b \in CardBags
    PROVE  /\ SingleWinged(b) # {} =>
                 IsReading(b, Pattern("AIRPLANE_WITH_SINGLES",
                                      Lowest(SingleWinged(b)) + (Size(b) \div 4) - 1, Size(b) \div 4, Size(b)))
           /\ PairWinged(b) # {} =>
                 IsReading(b, Pattern("AIRPLANE_WITH_PAIRS",
                                      Lowest(PairWinged(b)) + (Size(b) \div 5) - 1, Size(b) \div 5, Size(b)))
<1>0. Size(b) \div 4 \in Nat /\ Size(b) \div 5 \in Nat
  BY SizeTyped
<1>1. SingleWinged(b) \in SUBSET (0 .. 14) /\ PairWinged(b) \in SUBSET (0 .. 14)
  BY DEF SingleWinged, PairWinged, Bodies, Ace
<1>2. ASSUME SingleWinged(b) # {}
      PROVE  IsReading(b, Pattern("AIRPLANE_WITH_SINGLES",
                                  Lowest(SingleWinged(b)) + (Size(b) \div 4) - 1, Size(b) \div 4, Size(b)))
  <2> DEFINE low == Lowest(SingleWinged(b))
             n == Size(b) \div 4
  <2>1. low \in SingleWinged(b)
    BY <1>1, <1>2, LowestFound
  <2>2. low \in Bodies(b, n) /\ n >= 2 /\ SingleWings(WithoutBody(b, low, n), n)
    BY <2>1 DEF SingleWinged
  <2>3. n \in Nat
    BY <1>0
  <2> HIDE DEF low, n
  <2>4. IsReading(b, Pattern("AIRPLANE_WITH_SINGLES", low + n - 1, n, Size(b)))
    BY <2>2, <2>3, AirplaneMade
  <2> QED
    BY <2>4 DEF low, n
<1>3. ASSUME PairWinged(b) # {}
      PROVE  IsReading(b, Pattern("AIRPLANE_WITH_PAIRS",
                                  Lowest(PairWinged(b)) + (Size(b) \div 5) - 1, Size(b) \div 5, Size(b)))
  <2> DEFINE low == Lowest(PairWinged(b))
             n == Size(b) \div 5
  <2>1. low \in PairWinged(b)
    BY <1>1, <1>3, LowestFound
  <2>2. low \in Bodies(b, n) /\ n >= 2 /\ PairWings(WithoutBody(b, low, n), n)
    BY <2>1 DEF PairWinged
  <2>3. n \in Nat
    BY <1>0
  <2> HIDE DEF low, n
  <2>4. IsReading(b, Pattern("AIRPLANE_WITH_PAIRS", low + n - 1, n, Size(b)))
    BY <2>2, <2>3, AirplaneMade
  <2> QED
    BY <2>4 DEF low, n
<1> QED
  BY <1>2, <1>3

(* Two jokers and nothing else. *)
LEMMA RocketRead ==
    ASSUME NEW b \in CardBags, \A r \in Jokers : b[r] <= 1, Held(b) = Jokers
    PROVE  b[13] = 1 /\ b[14] = 1 /\ Size(b) = 2
<1>1. 13 \in Ranks /\ 14 \in Ranks /\ 13 \in Jokers /\ 14 \in Jokers
  BY DEF Ranks, Jokers
<1>2. b[13] \in 0 .. 4 /\ b[14] \in 0 .. 4 /\ b[13] > 0 /\ b[14] > 0 /\ b[13] <= 1 /\ b[14] <= 1
  BY <1>1 DEF CardBags, Held
<1>3. b[13] = 1 /\ b[14] = 1
  BY <1>2
<1>4. ASSUME NEW r \in Ranks, r # 13, r # 14 PROVE b[r] = 0
  <2>1. r \notin Held(b)
    BY <1>4 DEF Jokers
  <2>2. b[r] \in 0 .. 4
    BY DEF CardBags
  <2> QED
    BY <2>1, <2>2 DEF Held
<1>5. Size(b) = b[13] + Size(Besides(b, {13})) /\ Besides(b, {13}) \in CardBags
  BY <1>1, <1>3, OneBody
<1>6. Size(Besides(b, {13})) = Besides(b, {13})[14]
  <2>1. \A q \in Ranks : q # 14 => Besides(b, {13})[q] = 0
    BY <1>4 DEF Besides
  <2> QED
    BY <1>1, <1>5, <2>1, SizeOfOne DEF CardBags
<1>7. Besides(b, {13})[14] = 1
  BY <1>1, <1>3 DEF Besides
<1> QED
  BY <1>3, <1>5, <1>6, <1>7

(* What is readable is analyzed: one lemma for each form of a pattern. *)
LEMMA BareAnalyzed ==
    ASSUME NEW b \in CardBags, NEW k \in {"SINGLE", "PAIR", "TRIPLE", "BOMB", "STRAIGHT", "CONSECUTIVE_PAIRS",
                                      "AIRPLANE"},
           NEW low \in Ranks, NEW n \in Nat, n >= 1, MadeOf(b, k, low, n)
    PROVE  IF k \in SequenceKinds THEN IsSequence(b, Copies(k), Shortest(k)) ELSE Cardinality(Held(b)) = 1
<1>1. /\ k \in BodyKinds /\ Wings(k, n)[1] = "cards" /\ Wings(k, n)[2] = 0
      /\ (k \in SequenceKinds <=> k \in {"STRAIGHT", "CONSECUTIVE_PAIRS", "AIRPLANE"})
  BY DEF BodyKinds, ThreeKinds, FourKinds, SequenceKinds, Wings
<1> DEFINE S == low .. low + n - 1
<1>2. /\ Copies(k) \in 1 .. 4 /\ S \subseteq Ranks /\ \A r \in S : b[r] = Copies(k)
      /\ Besides(b, S) \in CardBags
  BY <1>1, ReadingMade
<1>3. Size(Besides(b, S)) = 0
  BY <1>1 DEF MadeOf, Besides
<1>4. \A r \in Ranks : Besides(b, S)[r] = 0
  BY <1>2, <1>3, NothingLeft
<1>5. Held(b) = S
  <2> HIDE DEF S
  <2>1. \A r \in S : r \in Held(b)
    BY <1>2 DEF Held
  <2>2. \A r \in Held(b) : r \in S
    BY <1>4 DEF Held, Besides
  <2> QED
    BY <2>1, <2>2 DEF Held
<1>6. Cardinality(S) = n
  <2> DEFINE high == low + n - 1
  <2>1. low \in Int /\ high \in Int /\ low <= high /\ high - low + 1 = n
    BY DEF Ranks
  <2> HIDE DEF high
  <2>2. Cardinality(low .. high) = IF low > high THEN 0 ELSE high - low + 1
    BY <2>1, FS_Interval, Zenon
  <2>3. Cardinality(low .. high) = n
    BY <2>1, <2>2
  <2> QED
    BY <2>3 DEF high
<1>7. CASE k \in SequenceKinds
  <2>1. n >= Shortest(k) /\ S \subseteq 0 .. Ace
    BY <1>7 DEF MadeOf
  <2>2. \A r, s \in S : \A t \in r .. s : t \in S
    BY DEF Ranks
  <2> HIDE DEF S
  <2>3. S \subseteq RanksWith(b, Copies(k)) \cap 0 .. Ace
    BY <1>2, <2>1 DEF RanksWith
  <2> QED
    BY <1>5, <1>6, <1>7, <2>1, <2>2, <2>3 DEF IsSequence
<1>8. CASE k \notin SequenceKinds
  <2>1. n = 1
    BY <1>8 DEF MadeOf
  <2> QED
    BY <1>5, <1>6, <1>8, <2>1
<1> QED
  BY <1>7, <1>8

LEMMA WingedAnalyzed ==
    ASSUME NEW b \in CardBags,
           NEW k \in {"TRIPLE_WITH_SINGLE", "TRIPLE_WITH_PAIR", "FOUR_WITH_TWO_SINGLES", "FOUR_WITH_TWO_PAIRS"},
           NEW low \in Ranks, NEW n \in Nat, n >= 1, MadeOf(b, k, low, n)
    PROVE  ~Unanalyzed(b)
<1>1. k \in BodyKinds /\ k \notin SequenceKinds
  BY DEF BodyKinds, ThreeKinds, FourKinds, SequenceKinds
<1>2. n = 1 /\ low .. low + n - 1 = {low}
  BY <1>1 DEF MadeOf, Ranks
<1> DEFINE c == Besides(b, {low})
<1>3. /\ Copies(k) \in 1 .. 4 /\ b[low] = Copies(k)
      /\ Size(b) = Copies(k) * n + Size(c) /\ c \in CardBags /\ Size(c) \in Nat
  <2> DEFINE S == low .. low + n - 1
  <2>1. /\ Copies(k) \in 1 .. 4 /\ b[low] = Copies(k)
        /\ Size(b) = Copies(k) * n + Size(Besides(b, S)) /\ Besides(b, S) \in CardBags /\ Size(Besides(b, S)) \in Nat
    BY <1>1, ReadingMade
  <2>2. S = {low}
    BY <1>2
  <2> HIDE DEF S
  <2> QED
    BY <2>1, <2>2
<1>4. Size(b) = Copies(k) + Size(c)
  BY <1>2, <1>3
<1>5. \A r \in Ranks : c[r] = IF r = low THEN 0 ELSE b[r]
  BY DEF Besides
<1>6. IF Wings(k, n)[1] = "cards" THEN Size(c) = Wings(k, n)[2]
      ELSE (\A r \in Ranks : c[r] \in {0, 2}) /\ Size(c) = 2 * Wings(k, n)[2]
  BY <1>2 DEF MadeOf, Besides
<1> HIDE DEF c
<1>7. CASE k = "TRIPLE_WITH_SINGLE"
  <2>1. Copies(k) = 3 /\ Wings(k, n) = <<"cards", 1>>
    BY <1>2, <1>7 DEF Copies, Wings, ThreeKinds, FourKinds
  <2>2. Size(b) = 4 /\ low \in RanksWith(b, 3)
    BY <1>3, <1>4, <1>6, <2>1 DEF RanksWith
  <2> QED
    BY <2>2 DEF Unanalyzed
<1>8. CASE k = "FOUR_WITH_TWO_SINGLES"
  <2>1. Copies(k) = 4 /\ Wings(k, n) = <<"cards", 2>>
    BY <1>2, <1>8 DEF Copies, Wings, ThreeKinds, FourKinds
  <2>2. Size(b) = 6 /\ low \in RanksWith(b, 4)
    BY <1>3, <1>4, <1>6, <2>1 DEF RanksWith
  <2> QED
    BY <2>2 DEF Unanalyzed
<1>9. CASE k = "TRIPLE_WITH_PAIR"
  <2>1. Copies(k) = 3 /\ Wings(k, n) = <<"pairs", 1>>
    BY <1>2, <1>9 DEF Copies, Wings, ThreeKinds, FourKinds
  <2>2. (\A r \in Ranks : c[r] \in {0, 2}) /\ Size(c) = 2
    BY <1>6, <2>1
  <2>3. Size(b) = 5 /\ low \in RanksWith(b, 3)
    BY <1>3, <1>4, <2>1, <2>2 DEF RanksWith
  <2>4. PICK r \in Ranks : c[r] # 0
    BY <1>3, <2>2, NothingLeft
  <2>5. c[r] = 2 /\ r # low
    BY <1>5, <2>2, <2>4
  <2>6. r \in RanksWith(b, 2)
    BY <1>5, <2>5 DEF RanksWith
  <2> QED
    BY <2>3, <2>6 DEF Unanalyzed
<1>10. CASE k = "FOUR_WITH_TWO_PAIRS"
  <2>1. Copies(k) = 4 /\ Wings(k, n) = <<"pairs", 2>>
    BY <1>2, <1>10 DEF Copies, Wings, ThreeKinds, FourKinds
  <2>2. (\A r \in Ranks : c[r] \in {0, 2}) /\ Size(c) = 4
    BY <1>6, <2>1
  <2>3. Size(b) = 8 /\ low \in RanksWith(b, 4)
    BY <1>3, <1>4, <2>1, <2>2 DEF RanksWith
  <2>4. Size(c) = 2 * Cardinality(Held(c))
    BY <1>3, <2>2, EqualCopies
  <2>5. Cardinality(Held(c)) = 2
    BY <1>3, <2>2, <2>4, HeldCounted
  <2>6. Held(c) = RanksWith(b, 2)
    BY <1>3, <1>5, <2>1, <2>2 DEF Held, RanksWith
  <2> QED
    BY <2>3, <2>5, <2>6 DEF Unanalyzed
<1> QED
  BY <1>7, <1>8, <1>9, <1>10

LEMMA AirplaneAnalyzed ==
    ASSUME NEW b \in CardBags, NEW k \in {"AIRPLANE_WITH_SINGLES", "AIRPLANE_WITH_PAIRS"},
           NEW low \in Ranks, NEW n \in Nat, n >= 1, MadeOf(b, k, low, n)
    PROVE  ~Unanalyzed(b)
<1>1. /\ k \in BodyKinds /\ k \in SequenceKinds /\ Copies(k) = 3 /\ Shortest(k) = 2
  BY DEF Copies, Shortest, BodyKinds, SequenceKinds, ThreeKinds, FourKinds
<1> DEFINE S == low .. low + n - 1
           c == Besides(b, S)
<1>2. n >= 2 /\ S \subseteq 0 .. Ace
  BY <1>1 DEF MadeOf
<1>3. /\ \A r \in S : b[r] = 3
      /\ Size(b) = 3 * n + Size(c) /\ c \in CardBags /\ Size(c) \in Nat
  BY <1>1, ReadingMade
<1>4. low \in S /\ low + n - 1 \in S
  BY DEF Ranks
<1>5. low \in Bodies(b, n)
  <2>1. \A r \in Body(low, n) : b[r] = 3
    BY <1>3 DEF Body
  <2> HIDE DEF S
  <2>2. low \in 0 .. Ace /\ low + n - 1 \in 0 .. Ace
    BY <1>2, <1>4
  <2>3. low + n - 1 <= Ace
    BY <2>2 DEF Ace
  <2> QED
    BY <2>1, <2>2, <2>3 DEF Bodies
<1>6. WithoutBody(b, low, n) = c
  BY DEF WithoutBody, Body, Besides
<1>7. IF Wings(k, n)[1] = "cards" THEN Size(c) = Wings(k, n)[2]
      ELSE (\A r \in Ranks : c[r] \in {0, 2}) /\ Size(c) = 2 * Wings(k, n)[2]
  BY DEF MadeOf, Besides
<1> HIDE DEF c, S
<1>8. CASE k = "AIRPLANE_WITH_SINGLES"
  <2>1. Size(c) = n
    BY <1>7, <1>8 DEF Wings
  <2>2. Size(b) = 4 * n
    BY <1>3, <2>1
  <2>3. Size(b) \div 4 = n /\ Size(b) % 4 = 0
    BY <2>2
  <2>4. SingleWings(WithoutBody(b, low, n), n)
    BY <1>6, <2>1 DEF SingleWings
  <2>5. low \in SingleWinged(b)
    BY <1>2, <1>5, <2>3, <2>4 DEF SingleWinged
  <2> QED
    BY <2>5 DEF Unanalyzed
<1>9. CASE k = "AIRPLANE_WITH_PAIRS"
  <2>1. (\A r \in Ranks : c[r] \in {0, 2}) /\ Size(c) = 2 * n
    BY <1>7, <1>9 DEF Wings
  <2>2. Size(b) = 5 * n
    BY <1>3, <2>1
  <2>3. Size(b) \div 5 = n /\ Size(b) % 5 = 0
    BY <2>2
  <2>4. Size(c) = 2 * Cardinality(Held(c)) /\ Cardinality(Held(c)) \in Nat
    BY <1>3, <2>1, EqualCopies, HeldCounted
  <2>5. Cardinality(Held(c)) = n
    BY <2>1, <2>4
  <2>6. Held(c) = RanksWith(c, 2)
    BY <2>1 DEF Held, RanksWith
  <2>7. PairWings(c, n)
    BY <2>1, <2>5, <2>6 DEF PairWings
  <2>8. low \in PairWinged(b)
    BY <1>2, <1>5, <1>6, <2>3, <2>7 DEF PairWinged
  <2> QED
    BY <2>8 DEF Unanalyzed
<1> QED
  BY <1>8, <1>9

LEMMA ReadableAnalyzed ==
    ASSUME NEW b \in CardBags, Readable(b)
    PROVE  ~Unanalyzed(b)
<1>1. PICK k \in BodyKinds :
          \E low \in RanksWith(b, Copies(k)) : \E n \in 1 .. Cardinality(Held(b)) : MadeOf(b, k, low, n)
  BY Zenon DEF Readable
<1>2. PICK low \in RanksWith(b, Copies(k)) : \E n \in 1 .. Cardinality(Held(b)) : MadeOf(b, k, low, n)
  BY <1>1, Zenon
<1>3. PICK n \in 1 .. Cardinality(Held(b)) : MadeOf(b, k, low, n)
  BY <1>2, Zenon
<1>4. low \in Ranks /\ n \in Nat /\ n >= 1
  BY HeldCounted DEF RanksWith
<1> DEFINE bare == {"SINGLE", "PAIR", "TRIPLE", "BOMB", "STRAIGHT", "CONSECUTIVE_PAIRS", "AIRPLANE"}
<1>5. \/ k \in bare \/ k \in {"AIRPLANE_WITH_SINGLES", "AIRPLANE_WITH_PAIRS"}
      \/ k \in {"TRIPLE_WITH_SINGLE", "TRIPLE_WITH_PAIR", "FOUR_WITH_TWO_SINGLES", "FOUR_WITH_TWO_PAIRS"}
  BY DEF BodyKinds, ThreeKinds, FourKinds
<1>6. CASE k \in bare
  <2>1. IF k \in SequenceKinds THEN IsSequence(b, Copies(k), Shortest(k)) ELSE Cardinality(Held(b)) = 1
    BY <1>3, <1>4, <1>6, BareAnalyzed
  <2>2. CASE k = "STRAIGHT"
    <3>1. Copies(k) = 1 /\ Shortest(k) = 5 /\ k \in SequenceKinds
      BY <2>2 DEF Copies, Shortest, SequenceKinds, ThreeKinds, FourKinds
    <3> QED
      BY <2>1, <3>1 DEF Unanalyzed
  <2>3. CASE k = "CONSECUTIVE_PAIRS"
    <3>1. Copies(k) = 2 /\ Shortest(k) = 3 /\ k \in SequenceKinds
      BY <2>3 DEF Copies, Shortest, SequenceKinds, ThreeKinds, FourKinds
    <3> QED
      BY <2>1, <3>1 DEF Unanalyzed
  <2>4. CASE k = "AIRPLANE"
    <3>1. Copies(k) = 3 /\ Shortest(k) = 2 /\ k \in SequenceKinds
      BY <2>4 DEF Copies, Shortest, SequenceKinds, ThreeKinds, FourKinds
    <3> QED
      BY <2>1, <3>1 DEF Unanalyzed
  <2>5. CASE k \in {"SINGLE", "PAIR", "TRIPLE", "BOMB"}
    <3>1. k \notin SequenceKinds
      BY <2>5 DEF SequenceKinds
    <3> QED
      BY <2>1, <3>1 DEF Unanalyzed
  <2> QED
    BY <1>6, <2>2, <2>3, <2>4, <2>5
<1> HIDE DEF bare
<1> QED
  BY <1>3, <1>4, <1>5, <1>6, AirplaneAnalyzed, WingedAnalyzed

LEMMA RocketOrReading ==
    ASSUME NEW b \in CardBags
    PROVE  \/ Held(b) = Jokers /\ Analyze(b) = Pattern("ROCKET", 14, 1, 2)
           \/ IsReading(b, Analyze(b))
           \/ Unanalyzed(b) /\ Analyze(b) = NoPattern
<1>1. ASSUME Cardinality(Held(b)) = 1
      PROVE  IsReading(b, Pattern(<<"SINGLE", "PAIR", "TRIPLE", "BOMB">>[Size(b)], Highest(b), 1, Size(b)))
  BY <1>1, OneRankRead
<1> QED
  BY <1>1, Analyzed, WingedRead, PairWingedRead, SequenceRead, AirplaneRead

(* Every bag of cards of one deck is analyzed as the rules describe: the   *)
(* jokers together are the rocket; whatever else is a pattern is read as   *)
(* one of its readings, one that CanBeat accepts; and only what has no     *)
(* reading is refused.                                                     *)
THEOREM AnalysisMeetsRules ==
    ASSUME NEW b \in [Ranks -> 0 .. 4], \A r \in Jokers : b[r] <= 1
    PROVE  AnalyzedByRules(b)
<1>1. b \in CardBags
  BY DEF CardBags
<1> DEFINE p == Analyze(b)
<1>2. \/ Held(b) = Jokers /\ p.kind = "ROCKET"
      \/ IsReading(b, p)
      \/ Unanalyzed(b) /\ p = NoPattern
  <2>1. Pattern("ROCKET", 14, 1, 2).kind = "ROCKET"
    BY DEF Pattern
  <2> QED
    BY <1>1, <2>1, RocketOrReading
<1>3. IsReading(b, p) => p.kind \in BodyKinds
  BY DEF IsReading, Pattern
<1>4. "ROCKET" \notin BodyKinds /\ "none" \notin BodyKinds /\ NoPattern.kind = "none"
  BY DEF BodyKinds, ThreeKinds, FourKinds, NoPattern, Pattern
<1> HIDE DEF p
<1>5. CASE Held(b) = Jokers /\ p.kind = "ROCKET"
  <2>1. b[13] = 1 /\ b[14] = 1 /\ Size(b) = 2
    BY <1>1, <1>5, RocketRead
  <2> QED
    BY <1>5, <2>1 DEF AnalyzedByRules, p
<1>6. CASE IsReading(b, p)
  <2>1. ValidStructure(p)
    BY <1>1, <1>6, ReadingsAreValid
  <2>2. p.kind # "ROCKET" /\ p # NoPattern
    BY <1>3, <1>4, <1>6
  <2> QED
    BY <1>6, <2>1, <2>2 DEF AnalyzedByRules, p
<1>7. CASE Unanalyzed(b) /\ p = NoPattern
  <2>1. ~Readable(b)
    BY <1>1, <1>7, ReadableAnalyzed
  <2>2. p.kind # "ROCKET"
    BY <1>4, <1>7
  <2> QED
    BY <1>7, <2>1, <2>2 DEF AnalyzedByRules, p
<1> QED
  BY <1>2, <1>5, <1>6, <1>7

(* What may lead a trick has the structure CanBeat demands, the rocket too. *)
LEMMA AnalysisIsValid ==
    ASSUME NEW b \in [Ranks -> 0 .. 4], \A r \in Jokers : b[r] <= 1, Analyze(b) # NoPattern
    PROVE  ValidStructure(Analyze(b))
<1>1. CASE Analyze(b).kind = "ROCKET"
  <2>1. ~IsReading(b, Analyze(b))
    <3>1. "ROCKET" \notin BodyKinds
      BY DEF BodyKinds, ThreeKinds, FourKinds
    <3> QED
      BY <1>1, <3>1 DEF IsReading, Pattern
  <2>2. b \in CardBags
    BY DEF CardBags
  <2>3. Analyze(b) = Pattern("ROCKET", 14, 1, 2)
    BY <2>1, <2>2, RocketOrReading
  <2> QED
    BY <2>3 DEF ValidStructure, Pattern, SequenceKinds
<1>2. CASE Analyze(b).kind # "ROCKET"
  BY <1>2, AnalysisMeetsRules DEF AnalyzedByRules
<1> QED
  BY <1>1, <1>2

(* Every choice of cards from the samples is analyzed by the rules.        *)
THEOREM GameAnalyzes == GameSpec => []AnalyzeMeetsRules
<1>1. AnalyzeMeetsRules
  <2> SUFFICES ASSUME NEW sample \in Samples, NEW b \in SubBags(sample)
               PROVE  AnalyzedByRules(b)
    BY DEF AnalyzeMeetsRules
  <2>1. sample \in [Ranks -> 0 .. 4] /\ \A r \in Jokers : sample[r] <= 1
    BY SamplesAssumption
  <2>2. b \in [Ranks -> 0 .. 4] /\ \A r \in Ranks : b[r] <= sample[r]
    BY <2>1, TakenIsPart
  <2>3. \A r \in Jokers : b[r] <= 1
    <3>1. ASSUME NEW r \in Jokers PROVE b[r] <= 1
      <4>1. r \in Ranks
        BY DEF Jokers, Ranks
      <4>2. b[r] \in 0 .. 4 /\ sample[r] \in 0 .. 4 /\ b[r] <= sample[r] /\ sample[r] <= 1
        BY <2>1, <2>2, <4>1
      <4> QED
        BY <4>2
    <3> QED
      BY <3>1
  <2> QED
    BY <2>2, <2>3, AnalysisMeetsRules
<1> QED
  BY <1>1, PTL

(* A player takes cards of one deck from a hand. *)
LEMMA TakenOfDeck ==
    ASSUME GameInv, NEW p \in Positions, NEW b \in SubBags(held[p])
    PROVE  b \in [Ranks -> 0 .. 4] /\ \A r \in Jokers : b[r] <= 1
<1>1. held[p] \in [Ranks -> 0 .. 4]
  <2>1. p \in 0 .. 3
    BY DEF Positions
  <2> QED
    BY <2>1, GameKnown
<1>2. b \in [Ranks -> 0 .. 4] /\ \A r \in Ranks : b[r] <= held[p][r]
  BY <1>1, TakenIsPart
<1>3. ASSUME NEW r \in Jokers PROVE b[r] <= 1
  <2>1. r \in Ranks
    BY DEF Jokers, Ranks
  <2>2. held[p][r] \in 0 .. 4 /\ held[p][r] <= 1
    BY <2>1, HeldIsLeft
  <2>3. b[r] \in 0 .. 4 /\ b[r] <= held[p][r]
    BY <1>2, <2>1
  <2> QED
    BY <2>2, <2>3
<1> QED
  BY <1>2, <1>3

(* Whatever a player may take from the hand a game left it is analyzed by  *)
(* the rules.                                                              *)
HandsAreAnalyzed == \A p \in Positions : \A b \in SubBags(held[p]) : AnalyzedByRules(b)
THEOREM GameHandsAnalyzed == GameSpec => []HandsAreAnalyzed
<1>1. GameInv => HandsAreAnalyzed
  BY TakenOfDeck, AnalysisMeetsRules DEF HandsAreAnalyzed
<1> QED
  BY <1>1, GameInvariant, PTL

(* CanBeat is never asked about a pattern that validatePattern refuses:    *)
(* what leads a trick is valid, and so is what a player may play on it.    *)
PatternsAreValid ==
    /\ trick.leader # 0 => ValidStructure(trick.pattern)
    /\ \A p \in Positions : \A b \in SubBags(held[p]) :
          Analyze(b) # NoPattern => ValidStructure(Analyze(b))
THEOREM GamePatternsAreValid == GameSpec => []PatternsAreValid
<1> DEFINE Lead == trick.leader # 0 => ValidStructure(trick.pattern)
           Inv  == GameInv /\ Lead
<1>1. GameInit => Inv
  <2>1. GameInit => Lead
    BY DEF GameInit, NewTrick
  <2> QED
    BY <2>1, GameStarts
<1>2. Inv /\ [GameNext]_gameVars => Inv'
  <2> SUFFICES ASSUME GameInv, Lead, [GameNext]_gameVars PROVE Lead'
    BY GameKept
  <2>1. ASSUME NEW deal \in Deals, New(deal) PROVE Lead'
    BY <2>1 DEF New
  <2>2. ASSUME Abort PROVE Lead'
    BY <2>2 DEF Abort
  <2>3. ASSUME NEW seat \in Positions, Pass(seat) PROVE Lead'
    <3>1. trick' = Passed(seat)
      BY <2>3 DEF Pass
    <3>2. CASE trick.passes = 1
      BY <3>1, <3>2 DEF Passed, NewTrick
    <3>3. CASE trick.passes # 1
      <4>1. trick' = [trick EXCEPT !.passes = trick.passes + 1, !.current = Next3(seat)]
        BY <3>1, <3>3 DEF Passed
      <4>2. trick \in [leader : 0 .. 3, pattern : {trick.pattern}, passes : 0 .. 1, current : 0 .. 3]
        BY DEF GameInv, TrickSound
      <4>3. trick'.leader = trick.leader /\ trick'.pattern = trick.pattern
        BY <4>1, <4>2
      <4> QED
        BY <4>3
    <3> QED
      BY <3>2, <3>3
  <2>4. ASSUME NEW seat \in Positions, NEW cards \in SubBags(held[seat]), Play(seat, cards) PROVE Lead'
    <3>1. Analyze(cards) # NoPattern /\ trick'.pattern = Analyze(cards)
      BY <2>4 DEF Play
    <3>2. ValidStructure(Analyze(cards))
      BY <3>1, TakenOfDeck, AnalysisIsValid
    <3> QED
      BY <3>1, <3>2
  <2>5. ASSUME NEW position \in Positions, NEW score \in Scores, ApplyBid(position, score) PROVE Lead'
    <3>1. trick' = trick \/ \E seat : trick' = NewTrick(seat)
      BY <2>5 DEF ApplyBid
    <3> QED
      BY <3>1 DEF NewTrick
  <2>6. CASE UNCHANGED gameVars
    BY <2>6 DEF gameVars
  <2> HIDE DEF Lead
  <2> QED
    BY <2>1, <2>2, <2>3, <2>4, <2>5, <2>6 DEF GameNext, PlayOn
<1>3. Inv => PatternsAreValid
  BY TakenOfDeck, AnalysisIsValid DEF PatternsAreValid
<1> HIDE DEF Inv
<1> QED
  BY <1>1, <1>2, <1>3, PTL DEF GameSpec

(* Beating is a strict order: no play is beaten by one that it beats, even *)
(* with other plays between them, so no trick goes on for ever.            *)
THEOREM CanBeatIsAnOrder ==
    ASSUME NEW Patterns, Patterns = [kind : STRING, rank : Ranks, length : Nat, cards : Nat],
           NEW p \in Patterns, NEW q \in Patterns, NEW r \in Patterns
    PROVE  ~CanBeat(p, p) /\ (CanBeat(p, q) /\ CanBeat(q, r) => CanBeat(p, r))
<1>1. ASSUME NEW s \in Patterns, NEW t \in Patterns
      PROVE  [s EXCEPT !.rank = 0] = [t EXCEPT !.rank = 0]
                 <=> s.kind = t.kind /\ s.length = t.length /\ s.cards = t.cards
  <2>1. [s EXCEPT !.rank = 0] = [kind |-> s.kind, rank |-> 0, length |-> s.length, cards |-> s.cards]
    OBVIOUS
  <2>2. [t EXCEPT !.rank = 0] = [kind |-> t.kind, rank |-> 0, length |-> t.length, cards |-> t.cards]
    OBVIOUS
  <2> QED
    BY <2>1, <2>2
<1>2. p.rank \in Int /\ q.rank \in Int /\ r.rank \in Int
  BY DEF Ranks
<1> QED
  BY <1>1, <1>2 DEF CanBeat
=============================================================================
