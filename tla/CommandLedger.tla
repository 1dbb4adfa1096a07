--------------------------- MODULE CommandLedger ---------------------------
(***************************************************************************)
(* The transactional command executor of the Doudizhu application service: *)
(* Service.execute over the MySQL store, run by any number of goroutines   *)
(* of any number of server instances.                                      *)
(*                                                                         *)
(* A transaction takes row locks as it goes: first the row of the command  *)
(* (actor, id), then the actor's sequence row for the aggregate, then the  *)
(* aggregate.  What it writes becomes visible when it commits, so until    *)
(* then it is only the decision the goroutine holds.  Starting a hand also *)
(* saves the hand's server seed on a connection of its own, which no       *)
(* rollback undoes: failures are compensated by ReleaseHand.               *)
(*                                                                         *)
(* The rules of rooms and hands are the aggregate's business: here a       *)
(* mutation is accepted at the expected version only, or refused.          *)
(***************************************************************************)
EXTENDS Naturals, FiniteSets

CONSTANTS
    Actor, Aggregate, Hand,
    Requests,  \* the requests clients may send, any number of times
    Thread,    \* goroutines
    Faults     \* which of AllFaults may happen

NoHand    == "none"
AllFaults == {"ambiguous", "error", "release", "crash", "refuse", "expire"}

(* A create expects version 0; a request that starts a hand names it. *)
Request == [actor : Actor, id : Nat, aggregate : Aggregate, seq : Nat \ {0},
            expected : Nat, events : Nat \ {0}, hand : Hand \cup {NoHand}]

ASSUME RequestsAssumption ==
    /\ Requests \subseteq Request
    /\ \A r \in Requests : r.expected = 0 => r.hand = NoHand
ASSUME HandAssumption == NoHand \notin Hand /\ Hand \cap Aggregate = {}
ASSUME FaultsAssumption == Faults \subseteq AllFaults

VARIABLES
    commands,   \* completed rows of doudizhu_command_results
    sequences,  \* last_sequence of each doudizhu_client_sequences row
    versions,   \* aggregate_version of each aggregate, 0 when it has no row
    outbox,     \* rows of doudizhu_outbox_events
    hands,      \* hand IDs with a doudizhu_hands row
    seeds,      \* hand IDs with a doudizhu_protected_server_seeds row
    threads,    \* the goroutines
    answers     \* every result a client received, with the request it sent

rows == <<commands, sequences, versions, outbox, hands>>
vars == <<rows, seeds, threads, answers>>

-----------------------------------------------------------------------------
(* Values *)

Key(r) == <<r.actor, r.id>>
Stream(r) == <<r.actor, r.aggregate>>

(* The code of a CommandResult is "none" when the command was accepted. *)
Codes == {"none", "expired", "sequence", "exists", "missing", "version", "refused", "conflict"}
Results == [code : Codes, version : Nat]
Result(code, version) == [code |-> code, version |-> version]

(* A command row and an answer both bind a request to a result. *)
Bound == [req : Requests, result : Results]
Binding(r, result) == [req |-> r, result |-> result]

Rejected(result) == result.code # "none"

(* Variant: a rejection never consumes the sequence. *)
AdmittedAccepted(result) == ~Rejected(result)

(* A rejection before admission leaves the client sequence alone. *)
Admitted(result) == result.code \notin {"expired", "sequence"}

(* Variant: events numbered from the version the command expected. *)
EventsFromExpected(r) ==
    {[aggregate |-> r.aggregate, version |-> v] : v \in r.expected..(r.expected + r.events - 1)}

(* The events of an accepted request: those of its aggregate and, when it  *)
(* starts a hand, the created event of the hand.                           *)
EventsOf(r) ==
    {[aggregate |-> r.aggregate, version |-> v] :
        v \in (r.expected + 1)..(r.expected + r.events)}
    \cup (IF r.hand = NoHand THEN {} ELSE {[aggregate |-> r.hand, version |-> 1]})

(* Inside its transaction a goroutine has "claimed" its command, been      *)
(* "admitted" by its sequence, "prepared" a seed and "decided" a result;   *)
(* "undoing" and "releasing" compensate, before and after the rollback.    *)
Labels == {"claimed", "admitted", "prepared", "decided", "undoing", "releasing"}
Idle == [pc |-> "idle"]
Undecided == Result("none", 0)

At(t, label) == threads[t].pc = label
Req(t) == threads[t].req

-----------------------------------------------------------------------------
(* Row locks *)

LocksCommand(t) == threads[t].pc \in Labels \ {"releasing"}

LocksSequence(t) ==
    \/ threads[t].pc \in {"admitted", "prepared", "undoing"}
    \/ At(t, "decided") /\ threads[t].result.code # "expired"

(* Variant: the aggregate is locked before the sequence row. *)
LocksAggregateEarly(t) ==
    \/ threads[t].pc \in {"claimed", "prepared", "undoing"}
    \/ At(t, "decided") /\ Admitted(threads[t].result)

LocksAggregate(t) ==
    \/ threads[t].pc \in {"prepared", "undoing"}
    \/ At(t, "decided") /\ Admitted(threads[t].result)

CommandFree(r) == \A u \in Thread : LocksCommand(u) => Key(Req(u)) # Key(r)

SequenceFree(r) ==
    \A u \in Thread : LocksSequence(u) => Stream(Req(u)) # Stream(r)

(* Variant: the aggregate is read without FOR UPDATE. *)
AggregateUnlocked(r) == r \in Requests

AggregateFree(r) == \A u \in Thread : LocksAggregate(u) => Req(u).aggregate # r.aggregate

-----------------------------------------------------------------------------
(* Small steps *)

Goto(t, label) == threads' = [threads EXCEPT ![t].pc = label]
Rest(t) == threads' = [threads EXCEPT ![t] = Idle]
Decide(t, result) ==
    threads' = [threads EXCEPT ![t] = [pc |-> "decided", req |-> Req(t), result |-> result]]

Answer(r, result) == answers' = answers \cup {Binding(r, result)}

HasRow(r) == \E c \in commands : Key(c.req) = Key(r)

-----------------------------------------------------------------------------
(* Claiming a command *)

(* The claim inserts the command row, or waits for whoever holds it. *)
Claim(t, r) ==
    /\ threads[t] = Idle
    /\ CommandFree(r) /\ ~HasRow(r)
    /\ threads' = [threads EXCEPT ![t] = [pc |-> "claimed", req |-> r, result |-> Undecided]]
    /\ UNCHANGED <<rows, seeds, answers>>

(* Variant: the stored result is returned to whatever request has its ID. *)
ReplayAny(r) ==
    \E c \in commands :
        /\ Key(c.req) = Key(r)
        /\ Answer(r, c.result)
        /\ UNCHANGED <<rows, seeds, threads>>

(* A completed command is answered from its row, before any other check; a *)
(* different request under its ID is a conflict.                           *)
Replay(r) ==
    /\ CommandFree(r)
    /\ \E c \in commands :
        /\ Key(c.req) = Key(r)
        /\ IF c.req = r THEN Answer(r, c.result)
           ELSE Answer(r, Result("conflict", c.result.version))
    /\ UNCHANGED <<rows, seeds, threads>>

(* Freshness is judged at the first execution only. *)
Expire(t) ==
    /\ "expire" \in Faults
    /\ At(t, "claimed")
    /\ Decide(t, Result("expired", 0))
    /\ UNCHANGED <<rows, seeds, answers>>

(* LockClientSequence: a sequence that does not increase is rejected. *)
Admit(t) ==
    /\ At(t, "claimed") /\ SequenceFree(Req(t))
    /\ IF Req(t).seq <= sequences[Stream(Req(t))]
       THEN Decide(t, Result("sequence", 0))
       ELSE Goto(t, "admitted")
    /\ UNCHANGED <<rows, seeds, answers>>

-----------------------------------------------------------------------------
(* The mutation handler *)

Accepted(r) == Result("none", r.expected + r.events)

(* What a handler that loads its aggregate for update finds there. *)
Verdict(r) ==
    LET version == versions[r.aggregate] IN
    IF r.expected = version THEN Accepted(r)
    ELSE IF r.expected = 0 THEN Result("exists", 0)
    ELSE IF version = 0 THEN Result("missing", 0)
    ELSE Result("version", version)

Mutate(t) ==
    /\ At(t, "admitted") /\ AggregateFree(Req(t))
    /\ Rejected(Verdict(Req(t))) \/ Req(t).hand = NoHand
    /\ Decide(t, Verdict(Req(t)))
    /\ UNCHANGED <<rows, seeds, answers>>

(* A rule of the aggregate refuses the command at its expected version. *)
Refuse(t) ==
    /\ "refuse" \in Faults
    /\ At(t, "admitted") /\ AggregateFree(Req(t))
    /\ Req(t).expected # 0 /\ ~Rejected(Verdict(Req(t)))
    /\ Decide(t, Result("refused", Req(t).expected))
    /\ UNCHANGED <<rows, seeds, answers>>

(* Variant: the save overwrites the seed of an earlier preparation. *)
PrepareAnew(t) ==
    /\ At(t, "admitted") /\ AggregateFree(Req(t))
    /\ ~Rejected(Verdict(Req(t))) /\ Req(t).hand # NoHand
    /\ seeds' = seeds \cup {Req(t).hand}
    /\ Goto(t, "prepared")
    /\ UNCHANGED <<rows, answers>>

(* PrepareHand saves a seed on its own connection.  A hand that has one    *)
(* already, and a save whose outcome is unknown, fail the transaction.     *)
Prepare(t) ==
    /\ At(t, "admitted") /\ AggregateFree(Req(t))
    /\ ~Rejected(Verdict(Req(t))) /\ Req(t).hand # NoHand
    /\ \/ /\ Req(t).hand \in seeds
          /\ Rest(t) /\ UNCHANGED seeds
       \/ /\ Req(t).hand \notin seeds
          /\ seeds' = seeds \cup {Req(t).hand}
          /\ \/ Goto(t, "prepared")
             \/ "ambiguous" \in Faults /\ Rest(t)
    /\ UNCHANGED <<rows, answers>>

(* Releasing a seed may itself fail and leave the row behind. *)
ReleaseSeed(h) ==
    \/ seeds' = seeds \ {h}
    \/ "release" \in Faults /\ UNCHANGED seeds

(* InsertHand: an ID that is taken releases the setup and is rejected. *)
InsertHand(t) ==
    /\ At(t, "prepared")
    /\ \/ /\ Req(t).hand \in hands
          /\ ReleaseSeed(Req(t).hand)
          /\ Decide(t, Result("exists", 0))
       \/ /\ Req(t).hand \notin hands
          /\ Decide(t, Accepted(Req(t)))
          /\ UNCHANGED seeds
    /\ UNCHANGED <<rows, answers>>

-----------------------------------------------------------------------------
(* The end of the transaction *)

(* The conditions of the final statements: CompleteCommand wants an open   *)
(* row, SaveClientSequence a smaller sequence, AppendOutbox new versions.  *)
Unpublished(r) == EventsOf(r) \cap outbox = {}

Completable(r, result) ==
    /\ ~HasRow(r)
    /\ Admitted(result) => sequences[Stream(r)] < r.seq
    /\ Rejected(result) \/ Unpublished(r)

Complete(r, result) ==
    /\ Completable(r, result)
    /\ commands' = commands \cup {Binding(r, result)}
    /\ sequences' = IF Admitted(result)
                    THEN [sequences EXCEPT ![Stream(r)] = r.seq] ELSE sequences
    /\ IF Rejected(result) THEN UNCHANGED <<versions, outbox, hands>>
       ELSE /\ versions' = [versions EXCEPT ![r.aggregate] = result.version]
            /\ outbox' = outbox \cup EventsOf(r)
            /\ hands' = hands \cup ({r.hand} \ {NoHand})

Commit(t) ==
    /\ At(t, "decided")
    /\ Complete(Req(t), threads[t].result)
    /\ Answer(Req(t), threads[t].result)
    /\ Rest(t)
    /\ UNCHANGED seeds

(* Variant: no compensation is registered. *)
CompensateNothing(t) == Rest(t)

(* An accepted start left its release as the compensation to run. *)
Compensate(t) ==
    IF ~Rejected(threads[t].result) /\ Req(t).hand # NoHand THEN Goto(t, "releasing") ELSE Rest(t)

(* COMMIT took effect but returned an error: no answer, and compensation. *)
CommitLost(t) ==
    /\ "ambiguous" \in Faults
    /\ At(t, "decided")
    /\ Complete(Req(t), threads[t].result)
    /\ Compensate(t)
    /\ UNCHANGED <<seeds, answers>>

(* An infrastructure error rolls the transaction back; the client sees no  *)
(* result.  A seed prepared so far is released by the handler itself.      *)
Fail(t) ==
    /\ "error" \in Faults
    /\ \/ threads[t].pc \in {"claimed", "admitted"} /\ Rest(t)
       \/ At(t, "prepared") /\ Goto(t, "undoing")
       \/ At(t, "decided") /\ Compensate(t)
    /\ UNCHANGED <<rows, seeds, answers>>

ReleaseHand(t) ==
    /\ threads[t].pc \in {"undoing", "releasing"}
    /\ ReleaseSeed(Req(t).hand)
    /\ Rest(t)
    /\ UNCHANGED <<rows, answers>>

(* The process dies; the database rolls its open transaction back. *)
Crash(t) ==
    /\ "crash" \in Faults
    /\ threads[t] # Idle
    /\ Rest(t)
    /\ UNCHANGED <<rows, seeds, answers>>

-----------------------------------------------------------------------------

Init ==
    /\ commands = {} /\ outbox = {} /\ hands = {} /\ seeds = {} /\ answers = {}
    /\ sequences = [s \in Actor \X Aggregate |-> 0]
    /\ versions = [g \in Aggregate |-> 0]
    /\ threads = [t \in Thread |-> Idle]

(* What a goroutine does by itself once it has claimed a command. *)
Step(t) ==
    \/ Admit(t) \/ Mutate(t) \/ Prepare(t) \/ InsertHand(t)
    \/ Commit(t) \/ ReleaseHand(t)

Next ==
    \/ \E r \in Requests : Replay(r)
    \/ \E t \in Thread :
        \/ \E r \in Requests : Claim(t, r)
        \/ Step(t)
        \/ Expire(t) \/ Refuse(t) \/ CommitLost(t) \/ Fail(t) \/ Crash(t)

Spec == Init /\ [][Next]_vars

(* The scheduler runs every goroutine, every database call returns, and     *)
(* InnoDB grants a row lock to its waiters in turn.                         *)
FairSpec == Spec /\ \A t \in Thread : SF_vars(Step(t))

-----------------------------------------------------------------------------
(* Properties *)

Threads == {Idle} \cup [pc : Labels, req : Requests, result : Results]

TypeOK ==
    /\ commands \in SUBSET Bound
    /\ sequences \in [Actor \X Aggregate -> Nat]
    /\ versions \in [Aggregate -> Nat]
    /\ outbox \in SUBSET [aggregate : Aggregate \cup Hand, version : Nat]
    /\ hands \in SUBSET Hand
    /\ seeds \in SUBSET Hand
    /\ threads \in [Thread -> Threads]
    /\ answers \in SUBSET Bound

(* Whatever copies of a command ran, on whichever goroutine, and whatever  *)
(* acknowledgements were lost: every client that sent the command got the  *)
(* one stored result, and a client that reused its ID a conflict.          *)
AnswersAgree ==
    \A a \in answers :
        /\ HasRow(a.req)
        /\ \A c \in commands : Key(c.req) = Key(a.req) =>
            IF c.req = a.req THEN a.result = c.result
            ELSE a.result = Result("conflict", c.result.version)

AcceptedRows == {c \in commands : ~Rejected(c.result)}

(* The outbox tells the history of each aggregate without gap or repeat:   *)
(* its events are exactly those of the accepted commands, numbered from 1  *)
(* to the version of its row.                                              *)
OutboxTellsHistory ==
    /\ outbox = UNION {EventsOf(c.req) : c \in AcceptedRows}
    /\ \A g \in Aggregate :
        {e.version : e \in {e \in outbox : e.aggregate = g}} = 1..versions[g]
    /\ \A c, d \in AcceptedRows : c # d => EventsOf(c.req) \cap EventsOf(d.req) = {}

(* The commands of one actor on one aggregate take effect in the order of  *)
(* their client sequences, and the sequence row holds the last one that    *)
(* was admitted, accepted or not.                                          *)
SequencesOrderCommands ==
    /\ \A c, d \in AcceptedRows :
        c.req.actor = d.req.actor /\ c.req.aggregate = d.req.aggregate =>
            (c.result.version < d.result.version => c.req.seq < d.req.seq)
    /\ \A a \in Actor, g \in Aggregate :
        LET used == {c.req.seq : c \in {c \in commands : /\ c.req.actor = a /\ c.req.aggregate = g
                                                         /\ c.result.code \notin {"expired", "sequence"}}}
        IN  /\ \A n \in used : n <= sequences[<<a, g>>]
            /\ used # {} => sequences[<<a, g>>] \in used

(* Crashes, rollbacks and failed compensations never cost a created hand   *)
(* the server seed it will be dealt from.                                  *)
HandsKeepSeeds == hands \subseteq seeds

(* While processes live and releases succeed, no seed outlives a start     *)
(* that did not happen; a leaked seed blocks every retry of that start.    *)
NoSeedLeaks ==
    \A h \in seeds \ hands : \E t \in Thread :
        threads[t].pc \in {"prepared", "decided", "undoing", "releasing"} /\ Req(t).hand = h

(* "If room or Hand creation fails after setup preparation, application    *)
(* compensation calls ReleaseHand so the unused seed is removed."  Only an *)
(* unused seed: a created hand keeps its own.                              *)
OnlyUnusedSeedsReleased ==
    [][\A h \in Hand : h \in hands /\ h \in seeds => h \in seeds']_vars

(* Nobody waits for ever: the row locks are taken in one order.            *)
TransactionsEnd == \A t \in Thread : (threads[t] # Idle) ~> (threads[t] = Idle)

-----------------------------------------------------------------------------
(* The inductive invariant *)

(* A command has one row. *)
RowsUnique == \A c, d \in commands : Key(c.req) = Key(d.req) => c = d

(* Whoever holds a command's lock is the only one, and finds it open. *)
CommandLock ==
    \A t \in Thread : LocksCommand(t) =>
        /\ ~HasRow(Req(t))
        /\ \A u \in Thread : LocksCommand(u) /\ Key(Req(u)) = Key(Req(t)) => u = t

AggregateLock ==
    \A t, u \in Thread :
        LocksAggregate(t) /\ LocksAggregate(u) /\ Req(t).aggregate = Req(u).aggregate => t = u

(* What a transaction decided about its aggregate is still true of it. *)
Fresh(t) ==
    /\ At(t, "prepared") => versions[Req(t).aggregate] = Req(t).expected
    /\ At(t, "decided") /\ ~Rejected(threads[t].result) =>
        /\ versions[Req(t).aggregate] = Req(t).expected
        /\ threads[t].result = Accepted(Req(t))
    /\ At(t, "decided") /\ Rejected(threads[t].result) =>
        /\ threads[t].result.code # "conflict"
        /\ ~Admitted(threads[t].result) => threads[t].result.version = 0
        /\ threads[t].result.version \in {0, versions[Req(t).aggregate]}

DecisionsFresh == \A t \in Thread : Fresh(t)

(* A goroutine that prepared a seed owns it until it commits or gives up:  *)
(* nobody else's compensation can remove it, and no hand has it yet.       *)
OwnsSeed(t) ==
    \/ threads[t].pc \in {"prepared", "undoing", "releasing"}
    \/ At(t, "decided") /\ ~Rejected(threads[t].result) /\ Req(t).hand # NoHand

SeedOwners ==
    \A t \in Thread : OwnsSeed(t) =>
        /\ Req(t).hand \in seeds \ hands
        /\ \A u \in Thread : OwnsSeed(u) /\ Req(u).hand = Req(t).hand => u = t

(* Agreement needs every step between a claim and its commit to be taken   *)
(* by the one goroutine that holds the command, and the aggregate to stand *)
(* still between the verdict on it and the commit.                         *)
IInv ==
    /\ TypeOK
    /\ RowsUnique /\ CommandLock /\ AggregateLock /\ DecisionsFresh
    /\ AnswersAgree

(* The executor implements the abstract command ledger. *)
Once == INSTANCE CommandOnce WITH decided <- commands, told <- answers
OnceSpec == Once!Spec
=============================================================================
