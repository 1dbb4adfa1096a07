------------------------ MODULE CommandLedgerProofs ------------------------
(***************************************************************************)
(* Theorems about CommandLedger, for any actors, requests, goroutines and  *)
(* faults: every answer to a command is its one stored result, and the     *)
(* executor implements CommandOnce.                                        *)
(***************************************************************************)
EXTENDS CommandLedger, TLAPS

-----------------------------------------------------------------------------
(* What the actions do to the goroutines *)

(* A goroutine that holds a command goes on with it, or lets it go. *)
GoesOn(t) ==
    /\ threads[t] # Idle
    /\ \/ threads' = [threads EXCEPT ![t] = Idle]
       \/ \E pc \in Labels, result \in Results :
            /\ threads' = [threads EXCEPT ![t] = [pc |-> pc, req |-> Req(t), result |-> result]]
            /\ pc # "releasing" => LocksCommand(t)
    /\ UNCHANGED <<rows, answers>>

(* A goroutine commits what it decided. *)
CommitsDecided(t) ==
    /\ At(t, "decided")
    /\ Complete(Req(t), threads[t].result)
    /\ \/ Answer(Req(t), threads[t].result) /\ Rest(t)
       \/ UNCHANGED answers /\ Compensate(t)

(* A goroutine at a label carries a request and a result. *)
LEMMA Carries ==
    ASSUME TypeOK, NEW t \in Thread, threads[t] # Idle
    PROVE  /\ threads[t] \in [pc : Labels, req : Requests, result : Results]
           /\ Req(t) \in Requests
           /\ Req(t).actor \in Actor /\ Req(t).aggregate \in Aggregate
           /\ Req(t).seq \in Nat /\ Req(t).expected \in Nat /\ Req(t).events \in Nat
           /\ Req(t).hand \in Hand \cup {NoHand}
    BY RequestsAssumption DEF TypeOK, Threads, Req, Request

(* Where a small step leaves its goroutine. *)
LEMMA Moves ==
    ASSUME TypeOK, NEW t \in Thread
    PROVE  /\ Rest(t) => threads'[t] = Idle
           /\ \A result : Decide(t, result) =>
                threads'[t] = [pc |-> "decided", req |-> Req(t), result |-> result]
           /\ threads[t] # Idle => \A label : Goto(t, label) =>
                threads'[t] = [pc |-> label, req |-> Req(t), result |-> threads[t].result]
    <1>1. Rest(t) => threads'[t] = Idle
        BY DEF Rest, TypeOK
    <1>2. \A result : Decide(t, result) =>
            threads'[t] = [pc |-> "decided", req |-> Req(t), result |-> result]
        BY DEF Decide, TypeOK
    <1>3. ASSUME threads[t] # Idle
          PROVE  \A label : Goto(t, label) =>
                    threads'[t] = [pc |-> label, req |-> Req(t), result |-> threads[t].result]
        <2>1. \A label : [threads[t] EXCEPT !.pc = label] =
                         [pc |-> label, req |-> threads[t].req, result |-> threads[t].result]
            BY <1>3, Carries
        <2> QED BY <2>1 DEF Goto, Req, TypeOK
    <1> QED BY <1>1, <1>2, <1>3

(* The results a handler can come to are results. *)
LEMMA Verdicts ==
    ASSUME TypeOK, NEW r \in Requests
    PROVE  Verdict(r) \in Results /\ Accepted(r) \in Results
    <1>1. r.expected \in Nat /\ r.events \in Nat /\ r.aggregate \in Aggregate
        BY RequestsAssumption DEF Request
    <1>2. versions[r.aggregate] \in Nat
        BY <1>1 DEF TypeOK
    <1>3. r.expected + r.events \in Nat
        BY <1>1
    <1> QED BY <1>2, <1>3 DEF Verdict, Accepted, Result, Results, Codes

(* The actions of one goroutine between its claim and its end only move it *)
(* along.                                                                  *)
LEMMA Continuing ==
    ASSUME TypeOK, NEW t \in Thread,
           \/ Admit(t) \/ Mutate(t) \/ Prepare(t) \/ InsertHand(t) \/ ReleaseHand(t)
           \/ Expire(t) \/ Refuse(t) \/ Fail(t) \/ Crash(t)
    PROVE  GoesOn(t) /\ seeds' \in SUBSET Hand
    <1>1. threads[t] # Idle
        BY DEF Admit, Mutate, Prepare, InsertHand, ReleaseHand, Expire, Refuse, Fail, Crash, At,
               Idle, Labels
    <1>2. /\ threads[t] \in [pc : Labels, req : Requests, result : Results]
          /\ Req(t) \in Requests /\ Req(t).expected \in Nat
          /\ Req(t).hand \in Hand \cup {NoHand}
        BY <1>1, Carries
    <1>3. /\ Undecided \in Results
          /\ Verdict(Req(t)) \in Results /\ Accepted(Req(t)) \in Results
          /\ Result("expired", 0) \in Results /\ Result("sequence", 0) \in Results
          /\ Result("exists", 0) \in Results
          /\ Result("refused", Req(t).expected) \in Results
        BY <1>2, Verdicts DEF Undecided, Result, Results, Codes
    <1>4. /\ Rest(t) => threads' = [threads EXCEPT ![t] = Idle]
          /\ \A label \in Labels : Goto(t, label) =>
                threads' = [threads EXCEPT ![t] = [pc |-> label, req |-> Req(t),
                                                   result |-> threads[t].result]]
          /\ threads[t].result \in Results
        <2>1. \A label : [threads[t] EXCEPT !.pc = label] =
                         [pc |-> label, req |-> threads[t].req, result |-> threads[t].result]
            BY <1>2
        <2> QED BY <1>2, <2>1 DEF Rest, Goto, Req
    <1>5. CASE Admit(t)
        BY <1>1, <1>3, <1>4, <1>5 DEF Admit, Decide, GoesOn, LocksCommand, At, Labels, rows, TypeOK
    <1>6. CASE Mutate(t)
        BY <1>1, <1>3, <1>4, <1>6 DEF Mutate, Decide, GoesOn, LocksCommand, At, Labels, rows, TypeOK
    <1>7. CASE Prepare(t)
        BY <1>1, <1>2, <1>4, <1>7 DEF Prepare, GoesOn, LocksCommand, At, Labels, rows, TypeOK
    <1>8. CASE InsertHand(t)
        BY <1>1, <1>3, <1>4, <1>8 DEF InsertHand, ReleaseSeed, Decide, GoesOn, LocksCommand, At,
                                       Labels, rows, TypeOK
    <1>9. CASE ReleaseHand(t)
        BY <1>1, <1>4, <1>9 DEF ReleaseHand, ReleaseSeed, GoesOn, rows, TypeOK
    <1>10. CASE Expire(t)
        BY <1>1, <1>3, <1>4, <1>10 DEF Expire, Decide, GoesOn, LocksCommand, At, Labels, rows, TypeOK
    <1>11. CASE Refuse(t)
        BY <1>1, <1>3, <1>4, <1>11 DEF Refuse, Decide, GoesOn, LocksCommand, At, Labels, rows, TypeOK
    <1>12. CASE Fail(t)
        BY <1>1, <1>2, <1>4, <1>12 DEF Fail, Compensate, GoesOn, LocksCommand, At, Labels, rows, TypeOK
    <1>13. CASE Crash(t)
        BY <1>1, <1>4, <1>13 DEF Crash, GoesOn, rows, TypeOK
    <1> QED BY <1>5, <1>6, <1>7, <1>8, <1>9, <1>10, <1>11, <1>12, <1>13

(* Every step answers from a row, claims, commits, or moves one goroutine. *)
LEMMA Steps ==
    ASSUME TypeOK, Next
    PROVE  \/ \E r \in Requests : Replay(r)
           \/ \E t \in Thread, r \in Requests : Claim(t, r)
           \/ \E t \in Thread : CommitsDecided(t) /\ UNCHANGED seeds
           \/ \E t \in Thread : GoesOn(t) /\ seeds' \in SUBSET Hand
    BY Continuing DEF Next, Step, Commit, CommitLost, CommitsDecided

-----------------------------------------------------------------------------
(* Typing *)

(* Every step keeps the types. *)
LEMMA TypeStep ==
    ASSUME TypeOK, [Next]_vars
    PROVE  TypeOK'
    <1>1. CASE UNCHANGED vars
        BY <1>1 DEF vars, rows, TypeOK, Threads, Bound
    <1>2. ASSUME NEW r \in Requests, Replay(r)
          PROVE  TypeOK'
        <2>1. PICK c \in commands : IF c.req = r THEN Answer(r, c.result)
                                    ELSE Answer(r, Result("conflict", c.result.version))
            BY <1>2 DEF Replay
        <2>2. c.result \in Results /\ Result("conflict", c.result.version) \in Results
            BY DEF TypeOK, Bound, Result, Results, Codes
        <2>3. answers' \in SUBSET Bound
            BY <2>1, <2>2 DEF Answer, Binding, Bound, TypeOK
        <2> QED BY <1>2, <2>3 DEF Replay, rows, TypeOK, Threads, Bound
    <1>3. ASSUME NEW t \in Thread, NEW r \in Requests, Claim(t, r)
          PROVE  TypeOK'
        <2>1. [pc |-> "claimed", req |-> r, result |-> Undecided] \in Threads
            BY DEF Threads, Labels, Undecided, Result, Results, Codes
        <2>2. threads' \in [Thread -> Threads]
            BY <1>3, <2>1 DEF Claim, TypeOK
        <2> QED BY <1>3, <2>2 DEF Claim, rows, TypeOK
    <1>4. ASSUME NEW t \in Thread, CommitsDecided(t), UNCHANGED seeds
          PROVE  TypeOK'
        <2>1. threads[t] # Idle
            BY <1>4 DEF CommitsDecided, At, Idle
        <2>2. /\ threads[t] \in [pc : Labels, req : Requests, result : Results]
              /\ Req(t) \in Requests /\ Req(t).actor \in Actor /\ Req(t).aggregate \in Aggregate
              /\ Req(t).seq \in Nat /\ Req(t).expected \in Nat /\ Req(t).events \in Nat
              /\ Req(t).hand \in Hand \cup {NoHand}
            BY <2>1, Carries
        <2> DEFINE r == Req(t)
                   result == threads[t].result
        <2>3. Binding(r, result) \in Bound
            BY <2>2 DEF Binding, Bound
        <2>4. commands' \in SUBSET Bound /\ answers' \in SUBSET Bound
            BY <1>4, <2>3 DEF CommitsDecided, Complete, Answer, TypeOK
        <2>5. Stream(r) \in Actor \X Aggregate
            BY <2>2 DEF Stream
        <2>6. sequences' \in [Actor \X Aggregate -> Nat]
            <3>1. sequences' = [sequences EXCEPT ![Stream(r)] = r.seq] \/ sequences' = sequences
                BY <1>4 DEF CommitsDecided, Complete
            <3> HIDE DEF r
            <3> QED BY <2>2, <2>5, <3>1 DEF TypeOK, r
        <2>7. EventsOf(r) \in SUBSET [aggregate : Aggregate \cup Hand, version : Nat]
            BY <2>2 DEF EventsOf
        <2>8. /\ versions' \in [Aggregate -> Nat]
              /\ outbox' \in SUBSET [aggregate : Aggregate \cup Hand, version : Nat]
              /\ hands' \in SUBSET Hand
            BY <1>4, <2>2, <2>7 DEF CommitsDecided, Complete, TypeOK, Results
        <2>9. threads' \in [Thread -> Threads]
            <3>1. CASE threads' = [threads EXCEPT ![t] = Idle]
                BY <3>1 DEF TypeOK, Threads
            <3>2. CASE threads' = [threads EXCEPT ![t].pc = "releasing"]
                <4>1. [threads[t] EXCEPT !.pc = "releasing"] \in Threads
                    BY <2>2 DEF Threads, Labels
                <4> QED BY <3>2, <4>1 DEF TypeOK
            <3> QED BY <1>4, <3>1, <3>2 DEF CommitsDecided, Rest, Compensate, Goto
        <2> QED BY <1>4, <2>4, <2>6, <2>8, <2>9 DEF TypeOK
    <1>5. ASSUME NEW t \in Thread, GoesOn(t), seeds' \in SUBSET Hand
          PROVE  TypeOK'
        <2>1. Req(t) \in Requests
            BY <1>5, Carries DEF GoesOn
        <2>2. threads' \in [Thread -> Threads]
            BY <1>5, <2>1 DEF GoesOn, TypeOK, Threads
        <2> QED BY <1>5, <2>2 DEF GoesOn, rows, TypeOK
    <1> QED BY <1>1, <1>2, <1>3, <1>4, <1>5, Steps

LEMMA TypeInit == Init => TypeOK
    BY DEF Init, TypeOK, Threads

-----------------------------------------------------------------------------
(* One goroutine per command *)

(* A command in progress is locked by one goroutine and has no row; and a  *)
(* committed command has one row.                                          *)
LEMMA CommandStep ==
    ASSUME TypeOK, TypeOK', RowsUnique, CommandLock, [Next]_vars
    PROVE  RowsUnique' /\ CommandLock'
    <1>1. CASE UNCHANGED vars
        BY <1>1 DEF vars, rows, RowsUnique, CommandLock, LocksCommand, HasRow, Req
    <1>2. ASSUME NEW r \in Requests, Replay(r)
          PROVE  RowsUnique' /\ CommandLock'
        BY <1>2 DEF Replay, rows, RowsUnique, CommandLock, LocksCommand, HasRow, Req
    <1>3. ASSUME NEW t \in Thread, NEW r \in Requests, Claim(t, r)
          PROVE  RowsUnique' /\ CommandLock'
        <2>1. /\ threads'[t] = [pc |-> "claimed", req |-> r, result |-> Undecided]
              /\ \A u \in Thread \ {t} : threads'[u] = threads[u]
            BY <1>3 DEF Claim, TypeOK
        <2>2. UNCHANGED commands
            BY <1>3 DEF Claim, rows
        <2> QED BY <1>3, <2>1, <2>2 DEF Claim, CommandFree, RowsUnique, CommandLock, LocksCommand,
                                        HasRow, Req
    <1>4. ASSUME NEW t \in Thread, CommitsDecided(t)
          PROVE  RowsUnique' /\ CommandLock'
        <2>1. LocksCommand(t)
            BY <1>4 DEF CommitsDecided, At, LocksCommand, Labels
        <2>2. /\ commands' = commands \cup {Binding(Req(t), threads[t].result)}
              /\ ~HasRow(Req(t))
            BY <1>4 DEF CommitsDecided, Complete, Completable
        <2>3. /\ ~LocksCommand(t)'
              /\ \A u \in Thread \ {t} : threads'[u] = threads[u]
            <3>1. CASE threads' = [threads EXCEPT ![t] = Idle]
                BY <3>1 DEF LocksCommand, Labels, Idle, TypeOK
            <3>2. CASE threads' = [threads EXCEPT ![t].pc = "releasing"]
                <4>1. threads[t] \in [pc : Labels, req : Requests, result : Results]
                    BY <1>4, Carries DEF CommitsDecided, At, Idle
                <4>2. [threads[t] EXCEPT !.pc = "releasing"] =
                        [pc |-> "releasing", req |-> threads[t].req, result |-> threads[t].result]
                    BY <4>1
                <4> QED BY <3>2, <4>2 DEF LocksCommand, TypeOK
            <3> QED BY <1>4, <3>1, <3>2 DEF CommitsDecided, Rest, Compensate, Goto
        <2>4. RowsUnique'
            BY <2>2 DEF RowsUnique, HasRow, Binding
        <2>5. CommandLock'
            BY <2>1, <2>2, <2>3 DEF CommandLock, LocksCommand, HasRow, Binding, Req
        <2> QED BY <2>4, <2>5
    <1>5. ASSUME NEW t \in Thread, GoesOn(t)
          PROVE  RowsUnique' /\ CommandLock'
        <2>1. /\ LocksCommand(t)' => LocksCommand(t) /\ Req(t)' = Req(t)
              /\ \A u \in Thread \ {t} : threads'[u] = threads[u]
              /\ UNCHANGED commands
            BY <1>5 DEF GoesOn, LocksCommand, Labels, Idle, Req, TypeOK, rows
        <2> QED BY <2>1 DEF RowsUnique, CommandLock, LocksCommand, HasRow, Req
    <1> QED BY <1>1, <1>2, <1>3, <1>4, <1>5, Steps

(* What was answered stays the result of the command. *)
LEMMA AnswerStep ==
    ASSUME TypeOK, RowsUnique, CommandLock, AnswersAgree, [Next]_vars
    PROVE  AnswersAgree'
    <1>1. CASE UNCHANGED <<commands, answers>>
        BY <1>1 DEF AnswersAgree, HasRow
    <1>2. ASSUME NEW r \in Requests, Replay(r)
          PROVE  AnswersAgree'
        <2>1. UNCHANGED commands
            BY <1>2 DEF Replay, rows
        <2>2. PICK c \in commands :
                /\ Key(c.req) = Key(r)
                /\ IF c.req = r THEN Answer(r, c.result)
                   ELSE Answer(r, Result("conflict", c.result.version))
            BY <1>2 DEF Replay
        <2>3. \A d \in commands : Key(d.req) = Key(r) => d = c
            BY <2>2 DEF RowsUnique
        <2> QED BY <2>1, <2>2, <2>3 DEF AnswersAgree, HasRow, Answer, Binding
    <1>3. ASSUME NEW t \in Thread, CommitsDecided(t)
          PROVE  AnswersAgree'
        <2>1. /\ commands' = commands \cup {Binding(Req(t), threads[t].result)}
              /\ ~HasRow(Req(t))
              /\ answers' \in {answers, answers \cup {Binding(Req(t), threads[t].result)}}
            BY <1>3 DEF CommitsDecided, Complete, Completable, Answer
        <2> QED BY <2>1 DEF AnswersAgree, HasRow, Binding
    <1> QED BY <1>1, <1>2, <1>3, Steps DEF Claim, GoesOn, vars, rows

-----------------------------------------------------------------------------
(* The aggregate stands still under a decision *)

(* A verdict accepts at the version it read, or names it or none. *)
LEMMA VerdictTells ==
    ASSUME TypeOK, NEW r \in Requests
    PROVE  /\ Admitted(Verdict(r)) /\ Verdict(r).code # "conflict"
           /\ ~Rejected(Verdict(r)) => Verdict(r) = Accepted(r) /\ versions[r.aggregate] = r.expected
           /\ Rejected(Verdict(r)) => Verdict(r).version \in {0, versions[r.aggregate]}
    BY DEF Verdict, Accepted, Rejected, Admitted, Result

(* The steps of one goroutine that commit nothing: it decides only what    *)
(* holds of the aggregate, with its row locked.                            *)
LEMMA Settling ==
    ASSUME TypeOK, NEW t \in Thread, Fresh(t),
           \/ Admit(t) \/ Mutate(t) \/ Prepare(t) \/ InsertHand(t) \/ ReleaseHand(t)
           \/ Expire(t) \/ Refuse(t) \/ Fail(t) \/ Crash(t)
    PROVE  /\ Fresh(t)'
           /\ LocksAggregate(t)' =>
                /\ Req(t)' = Req(t)
                /\ LocksAggregate(t) \/ AggregateFree(Req(t))
    <1>1. /\ threads[t] \in [pc : Labels, req : Requests, result : Results]
          /\ Req(t) \in Requests /\ UNCHANGED versions
        BY Carries DEF Admit, Mutate, Prepare, InsertHand, ReleaseHand, Expire, Refuse, Fail, Crash,
               At, Idle, Labels, rows
    <1>2. Rest(t) => threads'[t] = Idle
        BY Moves
    <1>3. \A result : Decide(t, result) =>
            threads'[t] = [pc |-> "decided", req |-> Req(t), result |-> result]
        BY Moves
    <1>4. \A label : Goto(t, label) =>
            threads'[t] = [pc |-> label, req |-> Req(t), result |-> threads[t].result]
        BY <1>1, Moves DEF Idle
    <1>5. CASE threads'[t] = Idle
        BY <1>5 DEF Idle, Fresh, LocksAggregate, At
    <1>6. CASE Admit(t)
        <2>1. \/ threads'[t] = [pc |-> "decided", req |-> Req(t), result |-> Result("sequence", 0)]
              \/ threads'[t] = [pc |-> "admitted", req |-> Req(t), result |-> threads[t].result]
            BY <1>3, <1>4, <1>6 DEF Admit
        <2> QED BY <1>1, <2>1 DEF Fresh, LocksAggregate, At, Req, Result, Rejected, Admitted
    <1>7. CASE Mutate(t)
        <2>1. threads'[t] = [pc |-> "decided", req |-> Req(t), result |-> Verdict(Req(t))]
            BY <1>3, <1>7 DEF Mutate
        <2> QED BY <1>1, <1>7, <2>1, VerdictTells DEF Mutate, Fresh, LocksAggregate, At, Req, Accepted
    <1>8. CASE Prepare(t)
        <2>1. CASE Goto(t, "prepared")
            <3>1. versions[Req(t).aggregate] = Req(t).expected /\ AggregateFree(Req(t))
                BY <1>1, <1>8, VerdictTells DEF Prepare
            <3>2. threads'[t] = [pc |-> "prepared", req |-> Req(t), result |-> threads[t].result]
                BY <1>4, <2>1
            <3> QED BY <1>1, <3>1, <3>2 DEF Fresh, LocksAggregate, At, Req
        <2> QED BY <1>2, <1>5, <1>8, <2>1 DEF Prepare
    <1>9. CASE InsertHand(t)
        <2>1. /\ versions[Req(t).aggregate] = Req(t).expected
              /\ LocksAggregate(t)
            BY <1>9 DEF InsertHand, Fresh, LocksAggregate, At
        <2>2. \/ threads'[t] = [pc |-> "decided", req |-> Req(t), result |-> Result("exists", 0)]
              \/ threads'[t] = [pc |-> "decided", req |-> Req(t), result |-> Accepted(Req(t))]
            BY <1>3, <1>9 DEF InsertHand
        <2> QED BY <1>1, <2>1, <2>2 DEF Fresh, LocksAggregate, At, Req, Accepted, Result, Rejected, Admitted
    <1>10. CASE Expire(t)
        <2>1. threads'[t] = [pc |-> "decided", req |-> Req(t), result |-> Result("expired", 0)]
            BY <1>3, <1>10 DEF Expire
        <2> QED BY <1>1, <2>1 DEF Fresh, LocksAggregate, At, Req, Result, Rejected, Admitted
    <1>11. CASE Refuse(t)
        <2>1. /\ threads'[t] = [pc |-> "decided", req |-> Req(t),
                                result |-> Result("refused", Req(t).expected)]
              /\ versions[Req(t).aggregate] = Req(t).expected /\ AggregateFree(Req(t))
            BY <1>1, <1>3, <1>11, VerdictTells DEF Refuse
        <2> QED BY <1>1, <2>1 DEF Fresh, LocksAggregate, At, Req, Result, Rejected, Admitted
    <1>12. CASE Fail(t)
        <2>1. CASE Goto(t, "undoing") /\ At(t, "prepared")
            <3>1. threads'[t] = [pc |-> "undoing", req |-> Req(t), result |-> threads[t].result]
                BY <1>4, <2>1
            <3> QED BY <1>1, <2>1, <3>1 DEF Fresh, LocksAggregate, At, Req
        <2>2. CASE Goto(t, "releasing")
            <3>1. threads'[t] = [pc |-> "releasing", req |-> Req(t), result |-> threads[t].result]
                BY <1>4, <2>2
            <3> QED BY <1>1, <3>1 DEF Fresh, LocksAggregate, At, Req
        <2> QED BY <1>2, <1>5, <1>12, <2>1, <2>2 DEF Fail, Compensate
    <1> QED BY <1>2, <1>5, <1>6, <1>7, <1>8, <1>9, <1>10, <1>11, <1>12 DEF ReleaseHand, Crash

(* A goroutine that does not move keeps its decision while its aggregate   *)
(* stands still; without the row lock its decision names no version.       *)
LEMMA Untouched ==
    ASSUME NEW u \in Thread, Fresh(u), threads'[u] = threads[u],
           LocksAggregate(u) => versions'[Req(u).aggregate] = versions[Req(u).aggregate]
    PROVE  Fresh(u)' /\ Req(u)' = Req(u) /\ LocksAggregate(u)' = LocksAggregate(u)
    <1>1. Req(u)' = Req(u) /\ LocksAggregate(u)' = LocksAggregate(u)
        BY DEF Req, LocksAggregate, At
    <1>2. CASE LocksAggregate(u)
        BY <1>1, <1>2 DEF Fresh, Req, At, Accepted
    <1>3. CASE ~LocksAggregate(u)
        BY <1>1, <1>3 DEF Fresh, LocksAggregate, Req, At, Admitted, Rejected
    <1> QED BY <1>2, <1>3

(* One goroutine at a time decides about an aggregate, and what it decided *)
(* is still true when it commits.                                          *)
LEMMA AggregateStep ==
    ASSUME TypeOK, AggregateLock, DecisionsFresh, [Next]_vars
    PROVE  AggregateLock' /\ DecisionsFresh'
    <1>1. CASE UNCHANGED <<threads, versions>>
        <2>1. \A u \in Thread : Fresh(u)' /\ Req(u)' = Req(u) /\ LocksAggregate(u)' = LocksAggregate(u)
            BY <1>1, Untouched DEF DecisionsFresh
        <2> QED BY <2>1 DEF AggregateLock, DecisionsFresh
    <1>2. ASSUME NEW t \in Thread,
                 \A u \in Thread \ {t} : threads'[u] = threads[u],
                 \A u \in Thread \ {t} : LocksAggregate(u) =>
                    versions'[Req(u).aggregate] = versions[Req(u).aggregate],
                 Fresh(t)',
                 LocksAggregate(t)' => /\ Req(t)' = Req(t)
                                       /\ LocksAggregate(t) \/ AggregateFree(Req(t))
          PROVE  AggregateLock' /\ DecisionsFresh'
        <2>1. \A u \in Thread \ {t} :
                Fresh(u)' /\ Req(u)' = Req(u) /\ LocksAggregate(u)' = LocksAggregate(u)
            BY <1>2, Untouched DEF DecisionsFresh
        <2>2. DecisionsFresh'
            BY <1>2, <2>1 DEF DecisionsFresh
        <2>3. AggregateLock'
            BY <1>2, <2>1 DEF AggregateLock, AggregateFree
        <2> QED BY <2>2, <2>3
    <1>3. ASSUME NEW t \in Thread, NEW r \in Requests, Claim(t, r)
          PROVE  AggregateLock' /\ DecisionsFresh'
        <2>1. /\ threads'[t] = [pc |-> "claimed", req |-> r, result |-> Undecided]
              /\ \A u \in Thread \ {t} : threads'[u] = threads[u]
              /\ UNCHANGED versions
            BY <1>3 DEF Claim, TypeOK, rows
        <2>2. Fresh(t)' /\ ~LocksAggregate(t)'
            BY <2>1 DEF Fresh, LocksAggregate, At
        <2> QED BY <1>2, <2>1, <2>2
    <1>4. ASSUME NEW t \in Thread, CommitsDecided(t)
          PROVE  AggregateLock' /\ DecisionsFresh'
        <2>1. /\ threads[t] \in [pc : Labels, req : Requests, result : Results]
              /\ Req(t).aggregate \in Aggregate
            BY <1>4, Carries DEF CommitsDecided, At, Idle
        <2>2. /\ threads'[t].pc \in {"idle", "releasing"}
              /\ \A u \in Thread \ {t} : threads'[u] = threads[u]
            <3>1. CASE threads' = [threads EXCEPT ![t] = Idle]
                BY <3>1 DEF Idle, TypeOK
            <3>2. CASE threads' = [threads EXCEPT ![t].pc = "releasing"]
                <4>1. [threads[t] EXCEPT !.pc = "releasing"] =
                        [pc |-> "releasing", req |-> threads[t].req, result |-> threads[t].result]
                    BY <2>1
                <4> QED BY <3>2, <4>1 DEF TypeOK
            <3> QED BY <1>4, <3>1, <3>2 DEF CommitsDecided, Rest, Compensate, Goto
        <2>3. Fresh(t)' /\ ~LocksAggregate(t)'
            BY <2>2 DEF Fresh, LocksAggregate, At
        <2>4. ASSUME NEW u \in Thread \ {t}, LocksAggregate(u)
              PROVE  versions'[Req(u).aggregate] = versions[Req(u).aggregate]
            <3>1. CASE Rejected(threads[t].result)
                BY <1>4, <3>1 DEF CommitsDecided, Complete
            <3>2. CASE ~Rejected(threads[t].result)
                <4>1. LocksAggregate(t)
                    BY <1>4, <3>2 DEF CommitsDecided, LocksAggregate, Rejected, Admitted
                <4>2. Req(u).aggregate # Req(t).aggregate
                    BY <2>4, <4>1 DEF AggregateLock
                <4>3. versions' = [versions EXCEPT ![Req(t).aggregate] = threads[t].result.version]
                    BY <1>4, <3>2 DEF CommitsDecided, Complete
                <4>4. threads[u] # Idle
                    BY <2>4 DEF LocksAggregate, At, Idle
                <4>5. Req(u).aggregate \in Aggregate
                    BY <4>4, Carries
                <4> QED BY <4>2, <4>3, <4>5 DEF TypeOK
            <3> QED BY <3>1, <3>2
        <2> QED BY <1>2, <2>2, <2>3, <2>4
    <1>5. ASSUME NEW t \in Thread,
                 \/ Admit(t) \/ Mutate(t) \/ Prepare(t) \/ InsertHand(t) \/ ReleaseHand(t)
                 \/ Expire(t) \/ Refuse(t) \/ Fail(t) \/ Crash(t)
          PROVE  AggregateLock' /\ DecisionsFresh'
        <2>1. /\ \A u \in Thread \ {t} : threads'[u] = threads[u]
              /\ UNCHANGED versions
            BY <1>5, Continuing DEF GoesOn, TypeOK, rows
        <2>2. /\ Fresh(t)'
              /\ LocksAggregate(t)' => /\ Req(t)' = Req(t)
                                       /\ LocksAggregate(t) \/ AggregateFree(Req(t))
            BY <1>5, Settling DEF DecisionsFresh
        <2> QED BY <1>2, <2>1, <2>2
    <1>6. ASSUME NEW r \in Requests, Replay(r)
          PROVE  AggregateLock' /\ DecisionsFresh'
        BY <1>1, <1>6 DEF Replay, rows
    <1>7. CASE UNCHANGED vars
        BY <1>1, <1>7 DEF vars, rows
    <1> QED BY <1>3, <1>4, <1>5, <1>6, <1>7 DEF Next, Step, Commit, CommitLost, CommitsDecided

-----------------------------------------------------------------------------
(* The executor implements CommandOnce *)

(* A replay tells its client what was decided. *)
LEMMA ReplayTells ==
    ASSUME NEW r \in Requests, Replay(r)
    PROVE  Once!Tell(r) /\ UNCHANGED <<commands, versions>>
    <1>1. PICK c \in commands :
            /\ Key(c.req) = Key(r)
            /\ IF c.req = r THEN Answer(r, c.result)
               ELSE Answer(r, Result("conflict", c.result.version))
        BY DEF Replay
    <1>2. UNCHANGED <<commands, versions>>
        BY DEF Replay, rows
    <1>3. answers' = answers \cup {Once!Told(r, c)}
        BY <1>1 DEF Answer, Binding, Result, Once!Told
    <1>4. c \in commands' /\ Once!SameCommand(c.req, r)
        BY <1>1, <1>2 DEF Once!SameCommand, Key
    <1> QED BY <1>2, <1>3, <1>4 DEF Once!Tell

(* A commit decides its command by the version its aggregate still has,    *)
(* and tells the client or not.                                            *)
LEMMA CommitDecides ==
    ASSUME TypeOK, DecisionsFresh, NEW t \in Thread, CommitsDecided(t)
    PROVE  Once!Next
    <1> DEFINE r == Req(t)
               result == threads[t].result
    <1>1. /\ threads[t] \in [pc : Labels, req : Requests, result : Results]
          /\ r \in Requests
        BY Carries DEF CommitsDecided, At, Idle
    <1>2. /\ result \in Results
          /\ result = [code |-> result.code, version |-> result.version]
        BY <1>1 DEF Results
    <1>3. /\ ~HasRow(r)
          /\ commands' = commands \cup {Binding(r, result)}
        BY DEF CommitsDecided, Complete, Completable
    <1>4. Once!Decides(r, result.code, result.version)
        BY <1>2, <1>3 DEF Once!Decides, Once!SameCommand, HasRow, Key, Binding
    <1>5. Fresh(t) /\ At(t, "decided")
        BY DEF DecisionsFresh, CommitsDecided
    <1>6. ASSUME ~Rejected(result) PROVE Once!Accept(r)
        <2>1. versions[r.aggregate] = r.expected /\ result = Accepted(r)
            BY <1>5, <1>6 DEF Fresh
        <2>2. result.code = "none" /\ result.version = r.expected + r.events
            BY <2>1 DEF Accepted, Result
        <2>3. versions' = [versions EXCEPT ![r.aggregate] = result.version]
            BY <1>6 DEF CommitsDecided, Complete
        <2> QED BY <1>4, <2>1, <2>2, <2>3 DEF Once!Accept
    <1>7. ASSUME Rejected(result) PROVE Once!Reject(r)
        <2>1. /\ result.code \in {"expired", "sequence", "exists", "missing", "version", "refused"}
              /\ result.version \in {0, versions[r.aggregate]}
            BY <1>2, <1>5, <1>7 DEF Fresh, Results, Codes, Rejected
        <2>2. UNCHANGED versions
            BY <1>7 DEF CommitsDecided, Complete
        <2> QED BY <1>4, <2>1, <2>2 DEF Once!Reject
    <1>8. Once!Tell(r) \/ UNCHANGED answers
        <2>1. CASE Answer(r, result)
            <3>1. Binding(r, result) \in commands' /\ Once!SameCommand(Binding(r, result).req, r)
                BY <1>3 DEF Binding, Once!SameCommand
            <3>2. answers' = answers \cup {Once!Told(r, Binding(r, result))}
                BY <2>1 DEF Answer, Binding, Once!Told
            <3> QED BY <3>1, <3>2 DEF Once!Tell
        <2> QED BY <2>1 DEF CommitsDecided
    <1> QED BY <1>1, <1>6, <1>7, <1>8 DEF Once!Next

LEMMA OnceStep == IInv /\ [Next]_vars => [Once!Next]_(Once!onceVars)
    <1> SUFFICES ASSUME IInv, [Next]_vars
                 PROVE  [Once!Next]_(Once!onceVars)
        OBVIOUS
    <1>1. TypeOK /\ DecisionsFresh
        BY DEF IInv
    <1>2. ASSUME NEW r \in Requests, Replay(r)
          PROVE  Once!Next
        BY <1>2, ReplayTells DEF Once!Next
    <1>3. ASSUME NEW t \in Thread, CommitsDecided(t)
          PROVE  Once!Next
        BY <1>1, <1>3, CommitDecides
    <1>4. CASE UNCHANGED <<commands, versions, answers>>
        BY <1>4 DEF Once!onceVars
    <1> QED BY <1>1, <1>2, <1>3, <1>4, Steps DEF Claim, GoesOn, vars, rows

-----------------------------------------------------------------------------
(* The seeds of the hands *)

(* While a COMMIT that fails has not taken effect, a seed in compensation  *)
(* belongs to one goroutine and to no hand, so no hand loses its own.      *)
LEMMA SeedStep ==
    ASSUME "ambiguous" \notin Faults, TypeOK, HandsKeepSeeds, SeedOwners, [Next]_vars
    PROVE  HandsKeepSeeds' /\ SeedOwners'
    <1> USE DEF HandsKeepSeeds
    <1>1. CASE UNCHANGED <<threads, hands, seeds>>
        BY <1>1 DEF SeedOwners, OwnsSeed, At, Req
    <1>2. ASSUME NEW t \in Thread, \A u \in Thread \ {t} : threads'[u] = threads[u]
          PROVE  \A u \in Thread \ {t} : OwnsSeed(u)' = OwnsSeed(u) /\ Req(u)' = Req(u)
        BY <1>2 DEF OwnsSeed, At, Req
    \* A goroutine that takes no seed and leaves the seeds alone.
    <1>3. ASSUME NEW t \in Thread, \A u \in Thread \ {t} : threads'[u] = threads[u],
                 UNCHANGED <<hands, seeds>>,
                 OwnsSeed(t)' => OwnsSeed(t) /\ Req(t)' = Req(t)
          PROVE  HandsKeepSeeds' /\ SeedOwners'
        BY <1>2, <1>3 DEF SeedOwners
    \* The owner of a seed lets it go.
    <1>4. ASSUME NEW t \in Thread, \A u \in Thread \ {t} : threads'[u] = threads[u],
                 OwnsSeed(t), ~OwnsSeed(t)',
                 \/ UNCHANGED hands /\ seeds' \in {seeds, seeds \ {Req(t).hand}}
                 \/ UNCHANGED seeds /\ hands' = hands \cup {Req(t).hand}
          PROVE  HandsKeepSeeds' /\ SeedOwners'
        BY <1>2, <1>4 DEF SeedOwners
    <1>5. ASSUME NEW t \in Thread, NEW r \in Requests, Claim(t, r)
          PROVE  HandsKeepSeeds' /\ SeedOwners'
        <2>1. /\ threads'[t] = [pc |-> "claimed", req |-> r, result |-> Undecided]
              /\ \A u \in Thread \ {t} : threads'[u] = threads[u]
              /\ UNCHANGED <<hands, seeds>>
            BY <1>5 DEF Claim, TypeOK, rows
        <2> QED BY <1>3, <2>1 DEF OwnsSeed, At
    <1>6. ASSUME NEW t \in Thread, Commit(t)
          PROVE  HandsKeepSeeds' /\ SeedOwners'
        <2>1. /\ threads'[t] = Idle
              /\ \A u \in Thread \ {t} : threads'[u] = threads[u]
              /\ UNCHANGED seeds
            BY <1>6 DEF Commit, Rest, TypeOK
        <2>2. ~OwnsSeed(t)'
            BY <2>1 DEF OwnsSeed, At, Idle
        <2>3. CASE OwnsSeed(t)
            <3>1. hands' = hands \cup {Req(t).hand}
                BY <1>6, <2>3 DEF Commit, Complete, OwnsSeed, At
            <3> QED BY <1>4, <2>1, <2>2, <2>3, <3>1
        <2>4. CASE ~OwnsSeed(t)
            <3>1. UNCHANGED hands
                BY <1>6, <2>4 DEF Commit, Complete, OwnsSeed
            <3> QED BY <1>3, <2>1, <2>2, <3>1
        <2> QED BY <2>3, <2>4
    <1>7. ASSUME NEW t \in Thread,
                 \/ Admit(t) \/ Mutate(t) \/ Prepare(t) \/ InsertHand(t) \/ ReleaseHand(t)
                 \/ Expire(t) \/ Refuse(t) \/ Fail(t) \/ Crash(t)
          PROVE  HandsKeepSeeds' /\ SeedOwners'
        <2>1. /\ threads[t] # Idle
              /\ \A u \in Thread \ {t} : threads'[u] = threads[u]
              /\ UNCHANGED hands
            BY <1>7, Continuing DEF GoesOn, TypeOK, rows
        <2>2. /\ threads[t] \in [pc : Labels, req : Requests, result : Results]
              /\ Req(t) \in Requests
            BY <2>1, Carries
        <2>3. CASE threads'[t] = Idle /\ UNCHANGED seeds
            BY <1>3, <2>1, <2>3 DEF OwnsSeed, At, Idle
        <2>4. CASE Admit(t)
            <3>1. \/ threads'[t] = [pc |-> "admitted", req |-> Req(t), result |-> threads[t].result]
                  \/ threads'[t] = [pc |-> "decided", req |-> Req(t), result |-> Result("sequence", 0)]
                BY <2>1, <2>4, Moves DEF Admit
            <3> QED BY <1>3, <2>1, <2>4, <3>1 DEF Admit, OwnsSeed, At, Result, Rejected
        <2>5. CASE Mutate(t)
            <3>1. threads'[t] = [pc |-> "decided", req |-> Req(t), result |-> Verdict(Req(t))]
                BY <2>5, Moves DEF Mutate
            <3> QED BY <1>3, <2>1, <2>5, <3>1 DEF Mutate, OwnsSeed, At, Req
        <2>6. CASE Prepare(t)
            <3>1. CASE Goto(t, "prepared") /\ seeds' = seeds \cup {Req(t).hand} /\ Req(t).hand \notin seeds
                <4>1. threads'[t] = [pc |-> "prepared", req |-> Req(t), result |-> threads[t].result]
                    BY <2>1, <3>1, Moves
                <4>2. Req(t)' = Req(t)
                    BY <4>1 DEF Req
                <4>3. \A u \in Thread : OwnsSeed(u) => Req(u).hand # Req(t).hand
                    BY <3>1 DEF SeedOwners
                <4>4. Req(t).hand \in seeds' \ hands'
                    BY <2>1, <3>1
                <4> QED BY <1>2, <2>1, <3>1, <4>2, <4>3, <4>4 DEF SeedOwners
            <3> QED BY <2>3, <2>6, <3>1, Moves DEF Prepare
        <2>7. CASE InsertHand(t)
            <3>1. OwnsSeed(t) /\ Req(t).hand \notin hands
                BY <2>7 DEF InsertHand, OwnsSeed, At, SeedOwners
            <3>2. threads'[t] = [pc |-> "decided", req |-> Req(t), result |-> Accepted(Req(t))]
                BY <2>7, <3>1, Moves DEF InsertHand
            <3> QED BY <1>3, <2>1, <2>7, <3>1, <3>2 DEF InsertHand, Req
        <2>8. CASE ReleaseHand(t)
            <3>1. OwnsSeed(t) /\ threads'[t] = Idle
                BY <2>8, Moves DEF ReleaseHand, OwnsSeed
            <3> QED BY <1>4, <2>1, <2>8, <3>1 DEF ReleaseHand, ReleaseSeed, OwnsSeed, At, Idle
        <2>9. CASE Expire(t)
            <3>1. threads'[t] = [pc |-> "decided", req |-> Req(t), result |-> Result("expired", 0)]
                BY <2>9, Moves DEF Expire
            <3> QED BY <1>3, <2>1, <2>9, <3>1 DEF Expire, OwnsSeed, At, Result, Rejected
        <2>10. CASE Refuse(t)
            <3>1. threads'[t] = [pc |-> "decided", req |-> Req(t),
                                 result |-> Result("refused", Req(t).expected)]
                BY <2>10, Moves DEF Refuse
            <3> QED BY <1>3, <2>1, <2>10, <3>1 DEF Refuse, OwnsSeed, At, Result, Rejected
        <2>11. CASE Fail(t)
            <3>1. CASE Goto(t, "undoing") /\ At(t, "prepared")
                <4>1. threads'[t] = [pc |-> "undoing", req |-> Req(t), result |-> threads[t].result]
                    BY <2>1, <3>1, Moves
                <4>2. OwnsSeed(t) /\ Req(t)' = Req(t) /\ UNCHANGED seeds
                    BY <2>11, <3>1, <4>1 DEF Fail, OwnsSeed, At, Req
                <4> QED BY <1>3, <2>1, <4>2
            <3>2. CASE Goto(t, "releasing") /\ OwnsSeed(t)
                <4>1. threads'[t] = [pc |-> "releasing", req |-> Req(t), result |-> threads[t].result]
                    BY <2>1, <3>2, Moves
                <4>2. Req(t)' = Req(t) /\ UNCHANGED seeds
                    BY <2>11, <4>1 DEF Fail, Req
                <4> QED BY <1>3, <2>1, <3>2, <4>2
            <3> QED BY <2>3, <2>11, <3>1, <3>2, Moves DEF Fail, Compensate, OwnsSeed
        <2>12. CASE Crash(t)
            BY <2>3, <2>12, Moves DEF Crash
        <2> QED BY <1>7, <2>4, <2>5, <2>6, <2>7, <2>8, <2>9, <2>10, <2>11, <2>12
    <1>8. CASE \E r \in Requests : Replay(r)
        BY <1>1, <1>8 DEF Replay, rows
    <1>9. CASE UNCHANGED vars
        BY <1>1, <1>9 DEF vars, rows
    <1> QED BY <1>5, <1>6, <1>7, <1>8, <1>9 DEF Next, Step, CommitLost

(* While processes live, and releases and commits do what they report, a   *)
(* seed without a hand belongs to a goroutine.                             *)
SeedsOwned == \A h \in seeds \ hands : \E t \in Thread : OwnsSeed(t) /\ Req(t).hand = h

LEMMA OwnedStep ==
    ASSUME Faults \cap {"ambiguous", "release", "crash"} = {}, TypeOK, SeedsOwned, [Next]_vars
    PROVE  SeedsOwned'
    <1> USE DEF SeedsOwned
    <1>1. CASE UNCHANGED <<threads, hands, seeds>>
        BY <1>1 DEF OwnsSeed, At, Req
    \* Every seed that is left was there before and keeps its owner, or is owned now.
    <1>2. ASSUME NEW t \in Thread, \A u \in Thread \ {t} : threads'[u] = threads[u],
                 \A h \in seeds' \ hands' :
                     \/ h \in seeds \ hands /\ ~(OwnsSeed(t) /\ Req(t).hand = h)
                     \/ OwnsSeed(t)' /\ Req(t)'.hand = h
          PROVE  SeedsOwned'
        <2>1. \A u \in Thread \ {t} : OwnsSeed(u)' = OwnsSeed(u) /\ Req(u)' = Req(u)
            BY <1>2 DEF OwnsSeed, At, Req
        <2> QED BY <1>2, <2>1
    <1>3. ASSUME NEW t \in Thread, \A u \in Thread \ {t} : threads'[u] = threads[u],
                 ~OwnsSeed(t), UNCHANGED <<hands, seeds>>
          PROVE  SeedsOwned'
        BY <1>2, <1>3
    <1>4. ASSUME NEW t \in Thread, NEW r \in Requests, Claim(t, r)
          PROVE  SeedsOwned'
        <2>1. /\ threads[t].pc = "idle" /\ \A u \in Thread \ {t} : threads'[u] = threads[u]
              /\ UNCHANGED <<hands, seeds>>
            BY <1>4 DEF Claim, TypeOK, rows, Idle
        <2> QED BY <1>3, <2>1 DEF OwnsSeed, At
    <1>5. ASSUME NEW t \in Thread, Commit(t)
          PROVE  SeedsOwned'
        <2>1. (\A u \in Thread \ {t} : threads'[u] = threads[u]) /\ UNCHANGED seeds
            BY <1>5 DEF Commit, Rest, TypeOK
        <2>2. hands' = IF Rejected(threads[t].result) THEN hands ELSE hands \cup ({Req(t).hand} \ {NoHand})
            BY <1>5 DEF Commit, Complete
        <2>3. OwnsSeed(t) => Req(t).hand \in hands'
            BY <1>5, <2>2 DEF Commit, OwnsSeed, At
        <2> QED BY <1>2, <2>1, <2>2, <2>3
    <1>6. ASSUME NEW t \in Thread,
                 \/ Admit(t) \/ Mutate(t) \/ Prepare(t) \/ InsertHand(t) \/ ReleaseHand(t)
                 \/ Expire(t) \/ Refuse(t) \/ Fail(t)
          PROVE  SeedsOwned'
        <2>1. /\ threads[t] # Idle
              /\ \A u \in Thread \ {t} : threads'[u] = threads[u]
              /\ UNCHANGED hands
            BY <1>6, Continuing DEF GoesOn, TypeOK, rows
        <2>2. CASE Admit(t) \/ Mutate(t) \/ Expire(t) \/ Refuse(t)
            BY <1>3, <2>1, <2>2 DEF Admit, Mutate, Expire, Refuse, OwnsSeed, At
        <2>3. CASE Prepare(t)
            <3>1. CASE Goto(t, "prepared") /\ seeds' = seeds \cup {Req(t).hand}
                <4>1. threads'[t] = [pc |-> "prepared", req |-> Req(t), result |-> threads[t].result]
                    BY <2>1, <3>1, Moves
                <4>2. OwnsSeed(t)' /\ Req(t)'.hand = Req(t).hand /\ ~OwnsSeed(t)
                    BY <2>3, <4>1 DEF Prepare, OwnsSeed, At, Req
                <4> QED BY <1>2, <2>1, <3>1, <4>2
            <3>2. CASE UNCHANGED seeds
                BY <1>3, <2>1, <2>3, <3>2 DEF Prepare, OwnsSeed, At
            <3> QED BY <2>3, <3>1, <3>2 DEF Prepare
        <2>4. CASE InsertHand(t)
            <3>1. CASE Req(t).hand \in hands /\ seeds' = seeds \ {Req(t).hand}
                BY <1>2, <2>1, <3>1
            <3>2. CASE Req(t).hand \notin hands /\ Decide(t, Accepted(Req(t))) /\ UNCHANGED seeds
                <4>1. threads'[t] = [pc |-> "decided", req |-> Req(t), result |-> Accepted(Req(t))]
                    BY <3>2, Moves
                <4>2. Req(t)'.hand = Req(t).hand /\ (Req(t).hand # NoHand => OwnsSeed(t)')
                    BY <4>1 DEF OwnsSeed, At, Req, Accepted, Result, Rejected
                <4>3. NoHand \notin seeds'
                    BY <3>2, HandAssumption DEF TypeOK
                <4> QED BY <1>2, <2>1, <3>2, <4>2, <4>3
            <3> QED BY <2>4, <3>1, <3>2 DEF InsertHand, ReleaseSeed
        <2>5. CASE ReleaseHand(t)
            BY <1>2, <2>1, <2>5 DEF ReleaseHand, ReleaseSeed
        <2>6. CASE Fail(t)
            <3>0. UNCHANGED seeds
                BY <2>6 DEF Fail
            <3>1. ASSUME NEW label \in {"undoing", "releasing"}, Goto(t, label) PROVE SeedsOwned'
                <4>1. threads'[t] = [pc |-> label, req |-> Req(t), result |-> threads[t].result]
                    BY <2>1, <3>1, Moves
                <4>2. OwnsSeed(t)' /\ Req(t)'.hand = Req(t).hand
                    BY <4>1 DEF OwnsSeed, At, Req
                <4> QED BY <1>2, <2>1, <3>0, <4>2
            <3>2. CASE ~OwnsSeed(t)
                BY <1>3, <2>1, <3>0, <3>2
            <3> QED BY <2>6, <3>1, <3>2 DEF Fail, Compensate, OwnsSeed, At
        <2> QED BY <1>6, <2>2, <2>3, <2>4, <2>5, <2>6
    <1>7. CASE \E r \in Requests : Replay(r)
        BY <1>1, <1>7 DEF Replay, rows
    <1>8. CASE UNCHANGED vars
        BY <1>1, <1>8 DEF vars, rows
    <1> QED BY <1>4, <1>5, <1>6, <1>7, <1>8 DEF Next, Step, CommitLost, Crash

-----------------------------------------------------------------------------
(* The history of an aggregate and of its clients *)

(* Events and sequences follow the rows because no accepted row is newer   *)
(* than its aggregate.                                                     *)
RowsArePast == \A c \in AcceptedRows : c.result.version <= versions[c.req.aggregate]

(* The rows an admitted command of a stream left. *)
AdmittedRows(a, g) ==
    {c \in commands : /\ c.req.actor = a /\ c.req.aggregate = g
                      /\ c.result.code \notin {"expired", "sequence"}}

History == OutboxTellsHistory /\ SequencesOrderCommands /\ RowsArePast

(* The versions an aggregate's events have. *)
LEMMA EventVersions ==
    ASSUME NEW r \in Requests, NEW g \in Aggregate
    PROVE  {e.version : e \in {e \in EventsOf(r) : e.aggregate = g}} =
               IF g = r.aggregate THEN (r.expected + 1)..(r.expected + r.events) ELSE {}
    <1>1. r.aggregate \in Aggregate /\ r.hand \in Hand \cup {NoHand}
        BY RequestsAssumption DEF Request
    <1>2. r.hand # NoHand => r.hand # g
        BY <1>1, HandAssumption
    <1> DEFINE new == (r.expected + 1)..(r.expected + r.events)
               own == {[aggregate |-> r.aggregate, version |-> v] : v \in new}
    <1>3. \A e : e \in EventsOf(r) /\ e.aggregate = g <=> e \in own /\ g = r.aggregate
        BY <1>2 DEF EventsOf
    <1>4. CASE g = r.aggregate
        <2>1. {e \in EventsOf(r) : e.aggregate = g} = own
            BY <1>3, <1>4
        <2>2. {e.version : e \in own} = new
            <3> HIDE DEF new
            <3>1. \A e \in own : e.version \in new
                OBVIOUS
            <3>2. \A v \in new : LET e == [aggregate |-> r.aggregate, version |-> v]
                                 IN  e \in own /\ e.version = v
                OBVIOUS
            <3> HIDE DEF own
            <3> QED BY <3>1, <3>2
        <2>3. {e.version : e \in {e \in EventsOf(r) : e.aggregate = g}} = {e.version : e \in own}
            BY <2>1, Zenon
        <2> HIDE DEF own
        <2> QED BY <1>4, <2>2, <2>3
    <1>5. CASE g # r.aggregate
        <2>1. {e \in EventsOf(r) : e.aggregate = g} = {}
            BY <1>3, <1>5
        <2> QED BY <1>5, <2>1
    <1> QED BY <1>4, <1>5

(* An accepted command adds its events after all others. *)
LEMMA AcceptedHistory ==
    ASSUME IInv, OutboxTellsHistory, NEW t \in Thread, CommitsDecided(t), ~Rejected(threads[t].result)
    PROVE  OutboxTellsHistory'
    <1> DEFINE r == Req(t)
               n == Binding(r, threads[t].result)
    <1>1. /\ threads[t] \in [pc : Labels, req : Requests, result : Results] /\ r \in Requests
          /\ r.aggregate \in Aggregate /\ r.expected \in Nat /\ r.events \in Nat /\ r.hand \in Hand \cup {NoHand}
        BY Carries DEF CommitsDecided, At, Idle, IInv
    <1>2. versions[r.aggregate] = r.expected /\ threads[t].result = Accepted(r)
        BY DEF IInv, DecisionsFresh, Fresh, CommitsDecided
    <1>3. threads[t].result.version = r.expected + r.events
        BY <1>2 DEF Accepted, Result
    <1>4. /\ n.req = r /\ n.result = threads[t].result /\ ~Rejected(n.result)
          /\ commands' = commands \cup {n} /\ outbox' = outbox \cup EventsOf(r)
          /\ versions' = [versions EXCEPT ![r.aggregate] = r.expected + r.events]
          /\ EventsOf(r) \cap outbox = {}
        BY <1>3 DEF CommitsDecided, Complete, Completable, Unpublished, Binding
    <1>5. AcceptedRows' = AcceptedRows \cup {n}
        BY <1>4 DEF AcceptedRows
    <1> HIDE DEF n, r
    <1>6. outbox' = UNION {EventsOf(c.req) : c \in AcceptedRows'}
        BY <1>4, <1>5 DEF OutboxTellsHistory
    <1>7. ASSUME NEW g \in Aggregate
          PROVE  {e.version : e \in {e \in outbox' : e.aggregate = g}} = 1..versions'[g]
        <2>1. {e.version : e \in {e \in outbox' : e.aggregate = g}} =
                  {e.version : e \in {e \in outbox : e.aggregate = g}}
                  \cup {e.version : e \in {e \in EventsOf(r) : e.aggregate = g}}
            BY <1>4
        <2>2. @ = 1..versions[g] \cup
                  (IF g = r.aggregate THEN (r.expected + 1)..(r.expected + r.events) ELSE {})
            BY <1>1, EventVersions DEF OutboxTellsHistory
        <2>3. @ = 1..versions'[g]
            BY <1>1, <1>2, <1>4 DEF IInv, TypeOK
        <2> QED BY <2>1, <2>2, <2>3
    <1>8. ASSUME NEW c \in AcceptedRows PROVE EventsOf(c.req) \cap EventsOf(n.req) = {}
        <2>1. EventsOf(c.req) \subseteq outbox
            BY DEF OutboxTellsHistory
        <2> QED BY <1>4, <2>1
    <1>9. ASSUME NEW c \in AcceptedRows', NEW d \in AcceptedRows', c # d
          PROVE  EventsOf(c.req) \cap EventsOf(d.req) = {}
        <2>1. CASE c \in AcceptedRows /\ d \in AcceptedRows
            BY <1>9, <2>1 DEF OutboxTellsHistory
        <2>2. CASE c = n
            BY <1>5, <1>8, <1>9, <2>2
        <2>3. CASE d = n
            BY <1>5, <1>8, <1>9, <2>3
        <2> QED BY <1>5, <2>1, <2>2, <2>3
    <1> QED BY <1>6, <1>7, <1>9 DEF OutboxTellsHistory

(* A command is admitted after all of its stream, and accepted after all   *)
(* of its aggregate.                                                       *)
LEMMA CommittedOrder ==
    ASSUME IInv, SequencesOrderCommands, RowsArePast, NEW t \in Thread, CommitsDecided(t)
    PROVE  SequencesOrderCommands' /\ RowsArePast'
    <1> DEFINE r == Req(t)
               n == Binding(r, threads[t].result)
    <1>1. /\ threads[t] \in [pc : Labels, req : Requests, result : Results] /\ r \in Requests
          /\ r.actor \in Actor /\ r.aggregate \in Aggregate
          /\ r.seq \in Nat /\ r.expected \in Nat /\ r.events \in Nat
        BY Carries DEF CommitsDecided, At, Idle, IInv
    <1>2. /\ n.req = r /\ n.result = threads[t].result
          /\ commands' = commands \cup {n}
          /\ Admitted(n.result) => sequences[Stream(r)] < r.seq
          /\ sequences' = IF Admitted(n.result) THEN [sequences EXCEPT ![Stream(r)] = r.seq] ELSE sequences
        BY DEF CommitsDecided, Complete, Completable, Binding
    <1>3. /\ \A c \in commands : c \in Bound /\ c.req \in Requests /\ c.result \in Results
          /\ \A c \in commands : /\ c.result.version \in Nat /\ c.req.seq \in Nat
                                 /\ c.req.actor \in Actor /\ c.req.aggregate \in Aggregate
          /\ sequences \in [Actor \X Aggregate -> Nat] /\ versions \in [Aggregate -> Nat]
        BY RequestsAssumption DEF IInv, TypeOK, Bound, Results, Request
    <1>4. /\ ~Rejected(n.result) => /\ versions[r.aggregate] = r.expected
                                    /\ n.result.version = r.expected + r.events
                                    /\ versions' = [versions EXCEPT ![r.aggregate] = n.result.version]
          /\ Rejected(n.result) => UNCHANGED versions
        <2>1. ~Rejected(threads[t].result) =>
                  versions[r.aggregate] = r.expected /\ threads[t].result = Accepted(r)
            BY DEF IInv, DecisionsFresh, Fresh, CommitsDecided
        <2>2. IF Rejected(threads[t].result) THEN UNCHANGED versions
              ELSE versions' = [versions EXCEPT ![r.aggregate] = threads[t].result.version]
            BY DEF CommitsDecided, Complete
        <2>3. Accepted(r).version = r.expected + r.events
            BY DEF Accepted, Result
        <2> HIDE DEF n, r
        <2> QED BY <1>2, <2>1, <2>2, <2>3
    <1>5. AcceptedRows' = IF Rejected(n.result) THEN AcceptedRows ELSE AcceptedRows \cup {n}
        BY <1>2 DEF AcceptedRows
    <1> HIDE DEF n, r
    <1>6. RowsArePast'
        BY <1>1, <1>2, <1>3, <1>4, <1>5 DEF RowsArePast, AcceptedRows
    <1>7. ASSUME NEW c \in AcceptedRows', NEW d \in AcceptedRows',
                 c.req.actor = d.req.actor, c.req.aggregate = d.req.aggregate,
                 c.result.version < d.result.version
          PROVE  c.req.seq < d.req.seq
        <2>1. CASE c \in AcceptedRows /\ d \in AcceptedRows
            BY <1>7, <2>1 DEF SequencesOrderCommands
        <2>2. CASE c \in AcceptedRows /\ d = n /\ ~Rejected(n.result)
            <3>1. c \in commands /\ Admitted(c.result) /\ Admitted(n.result)
                BY <2>2 DEF AcceptedRows, Rejected, Admitted
            <3>2. c.req.seq <= sequences[<<c.req.actor, c.req.aggregate>>]
                BY <1>3, <3>1 DEF SequencesOrderCommands, Admitted
            <3>3. <<c.req.actor, c.req.aggregate>> = Stream(r)
                BY <1>2, <1>7, <2>2 DEF Stream
            <3> QED BY <1>1, <1>2, <1>3, <2>2, <3>1, <3>2, <3>3
        <2>3. CASE c = n /\ d \in AcceptedRows /\ ~Rejected(n.result)
            <3>1. d \in commands /\ d.result.version <= versions[d.req.aggregate]
                BY <2>3 DEF AcceptedRows, RowsArePast
            <3> QED BY <1>1, <1>2, <1>3, <1>4, <1>7, <2>3, <3>1
        <2>4. CASE c = n /\ d = n
            BY <1>1, <1>2, <1>7, <2>4 DEF Results
        <2> QED BY <1>5, <2>1, <2>2, <2>3, <2>4
    <1>8. ASSUME NEW a \in Actor, NEW g \in Aggregate
          PROVE  LET used == {c.req.seq : c \in AdmittedRows(a, g)'}
                 IN  /\ \A m \in used : m <= sequences'[<<a, g>>]
                     /\ used # {} => sequences'[<<a, g>>] \in used
        <2> DEFINE before == {c.req.seq : c \in AdmittedRows(a, g)}
                   used   == {c.req.seq : c \in AdmittedRows(a, g)'}
        <2>1. /\ \A m \in before : m \in Nat /\ m <= sequences[<<a, g>>]
              /\ before # {} => sequences[<<a, g>>] \in before
            BY <1>3 DEF SequencesOrderCommands, AdmittedRows
        <2>2. CASE Admitted(n.result) /\ a = r.actor /\ g = r.aggregate
            <3>0. AdmittedRows(a, g)' = AdmittedRows(a, g) \cup {n}
                BY <1>2, <2>2 DEF AdmittedRows, Admitted
            <3>1. used = before \cup {r.seq}
                BY <1>2, <3>0
            <3>2. /\ sequences'[<<a, g>>] = r.seq /\ sequences[<<a, g>>] < r.seq
                  /\ sequences[<<a, g>>] \in Nat
                BY <1>1, <1>2, <1>3, <2>2 DEF Stream
            <3> HIDE DEF before, used
            <3>3. (\A m \in used : m <= r.seq) /\ r.seq \in used
                BY <1>1, <2>1, <3>1, <3>2
            <3> QED BY <3>2, <3>3 DEF used
        <2>3. CASE ~(Admitted(n.result) /\ a = r.actor /\ g = r.aggregate)
            <3>1. used = before
                BY <1>2, <2>3 DEF AdmittedRows, Admitted
            <3>2. sequences'[<<a, g>>] = sequences[<<a, g>>]
                BY <1>1, <1>2, <1>3, <2>3 DEF Stream
            <3> HIDE DEF before, used
            <3> QED BY <2>1, <3>1, <3>2 DEF used
        <2> QED BY <2>2, <2>3
    <1>9. SequencesOrderCommands'
        BY <1>7, <1>8 DEF SequencesOrderCommands, AdmittedRows
    <1> QED BY <1>6, <1>9

LEMMA HistoryInit == Init => History
    <1> SUFFICES ASSUME Init PROVE History
        OBVIOUS
    <1>1. AcceptedRows = {} /\ outbox = {} /\ commands = {}
        BY DEF Init, AcceptedRows
    <1>2. \A g \in Aggregate : {e.version : e \in {e \in outbox : e.aggregate = g}} = {} /\ 1..versions[g] = {}
        BY <1>1 DEF Init
    <1> QED BY <1>1, <1>2 DEF History, OutboxTellsHistory, SequencesOrderCommands, RowsArePast

LEMMA HistoryStep == IInv /\ History /\ [Next]_vars => History'
    <1> SUFFICES ASSUME IInv, History, [Next]_vars PROVE History'
        OBVIOUS
    <1>1. ASSUME UNCHANGED <<commands, sequences, versions, outbox>> PROVE History'
        BY <1>1 DEF History, OutboxTellsHistory, SequencesOrderCommands, RowsArePast, AcceptedRows
    <1>2. ASSUME NEW t \in Thread, CommitsDecided(t) PROVE History'
        <2>1. CASE Rejected(threads[t].result)
            <3>1. UNCHANGED <<versions, outbox>> /\ commands' = commands \cup {Binding(Req(t), threads[t].result)}
                BY <1>2, <2>1 DEF CommitsDecided, Complete
            <3>2. AcceptedRows' = AcceptedRows
                BY <2>1, <3>1 DEF AcceptedRows, Binding
            <3>3. OutboxTellsHistory'
                BY <3>1, <3>2 DEF History, OutboxTellsHistory
            <3> QED BY <1>2, <3>3, CommittedOrder DEF History
        <2>2. CASE ~Rejected(threads[t].result)
            BY <1>2, <2>2, AcceptedHistory, CommittedOrder DEF History
        <2> QED BY <2>1, <2>2
    <1>3. CASE UNCHANGED vars
        BY <1>1, <1>3 DEF vars, rows
    <1>4. CASE Next
        <2>1. TypeOK
            BY DEF IInv
        <2> QED BY <1>1, <1>2, <1>4, <2>1, Steps DEF Replay, Claim, GoesOn, rows
    <1> QED BY <1>3, <1>4

-----------------------------------------------------------------------------
(* Theorems *)

LEMMA InvariantInit == Init => IInv
    <1> SUFFICES ASSUME Init PROVE IInv
        OBVIOUS
    <1>1. TypeOK
        BY TypeInit
    <1>2. \A t \in Thread : threads[t].pc = "idle"
        BY DEF Init, Idle
    <1> QED BY <1>1, <1>2 DEF Init, IInv, RowsUnique, CommandLock, AggregateLock, DecisionsFresh, Fresh,
                            AnswersAgree, LocksCommand, LocksAggregate, At, Labels

LEMMA InvariantStep == IInv /\ [Next]_vars => IInv'
    BY TypeStep, CommandStep, AnswerStep, AggregateStep DEF IInv

(* The inductive invariant holds always: a command in progress belongs to  *)
(* one goroutine, a decision is still true when it commits, and answers    *)
(* agree with the rows.                                                    *)
THEOREM Invariant == Spec => []IInv
    BY InvariantInit, InvariantStep, PTL DEF Spec

(* Type correctness of the executor. *)
THEOREM TypeCorrect == Spec => []TypeOK
    <1>1. IInv => TypeOK
        BY DEF IInv
    <1> QED BY <1>1, Invariant, PTL

(* Every client that sent a command was answered with its one stored       *)
(* result, and every client that reused its ID with a conflict.            *)
THEOREM AnswersAgreeAlways == Spec => []AnswersAgree
    <1>1. IInv => AnswersAgree
        BY DEF IInv
    <1> QED BY <1>1, Invariant, PTL

(* The executor implements the abstract ledger: whatever goroutines, row   *)
(* locks, crashes and lost acknowledgements stand behind it, each command  *)
(* is decided once, at the version it expected, and told as decided.       *)
THEOREM Implements == Spec => OnceSpec
    <1>1. Init => Once!Init
        BY DEF Init, Once!Init
    <1> QED BY <1>1, OnceStep, Invariant, PTL DEF Spec, OnceSpec, Once!Spec

(* The outbox tells the history of each aggregate without gap or repeat,   *)
(* whatever transactions failed or lost their acknowledgement.             *)
THEOREM HistoryIsTold == Spec => []OutboxTellsHistory
    <1>1. Init => History
        BY HistoryInit
    <1>2. History => OutboxTellsHistory
        BY DEF History
    <1> QED BY <1>1, <1>2, HistoryStep, Invariant, PTL DEF Spec

(* The commands of one actor on one aggregate take effect in the order of  *)
(* their client sequences, and the sequence row holds the last admitted.   *)
THEOREM CommandsInOrder == Spec => []SequencesOrderCommands
    <1>1. Init => History
        BY HistoryInit
    <1>2. History => SequencesOrderCommands
        BY DEF History
    <1> QED BY <1>1, <1>2, HistoryStep, Invariant, PTL DEF Spec

(* While no COMMIT takes effect and reports an error, crashes, rollbacks   *)
(* and failed releases never cost a created hand its server seed.          *)
THEOREM SeedsKept == "ambiguous" \notin Faults => (Spec => []HandsKeepSeeds)
    <1> SUFFICES ASSUME "ambiguous" \notin Faults PROVE Spec => []HandsKeepSeeds
        OBVIOUS
    <1>1. Init => HandsKeepSeeds /\ SeedOwners
        <2> SUFFICES ASSUME Init PROVE HandsKeepSeeds /\ SeedOwners
            OBVIOUS
        <2>1. \A t \in Thread : threads[t].pc = "idle"
            BY DEF Init, Idle
        <2> QED BY <2>1 DEF Init, HandsKeepSeeds, SeedOwners, OwnsSeed, At
    <1>2. TypeOK /\ HandsKeepSeeds /\ SeedOwners /\ [Next]_vars => HandsKeepSeeds' /\ SeedOwners'
        BY SeedStep
    <1> QED BY <1>1, <1>2, TypeCorrect, PTL DEF Spec

(* While processes live, and releases and commits do what they report, no  *)
(* seed outlives a start that did not happen.                              *)
THEOREM NoSeedIsLost ==
    Faults \cap {"ambiguous", "release", "crash"} = {} => (Spec => []NoSeedLeaks)
    <1> SUFFICES ASSUME Faults \cap {"ambiguous", "release", "crash"} = {} PROVE Spec => []NoSeedLeaks
        OBVIOUS
    <1>1. Init => SeedsOwned
        BY DEF Init, SeedsOwned
    <1>2. TypeOK /\ SeedsOwned /\ [Next]_vars => SeedsOwned'
        BY OwnedStep
    <1>3. SeedsOwned => NoSeedLeaks
        BY DEF SeedsOwned, NoSeedLeaks, OwnsSeed, At
    <1> QED BY <1>1, <1>2, <1>3, TypeCorrect, PTL DEF Spec

=============================================================================
