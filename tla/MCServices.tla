----------------------------- MODULE MCServices -----------------------------
(***************************************************************************)
(* Small instances of the services around the live hand, in one run.  Each *)
(* behaviour chooses one part and runs that module alone; the variables of *)
(* the others keep their initial values.  So the run checks each module as *)
(* a run of its own would, with the fairness its specification states.     *)
(***************************************************************************)
EXTENDS MCCommandLedger, Aggregates, GameRules, AccountSessions,
        PolicyCluster, RealtimeHub, HandNews, HandTimers, CatalogCache

CONSTANT Parts

VARIABLE part

AllParts == {"commands", "rooms", "deals", "games", "accounts", "policy", "hub", "news", "timers",
             "catalog"}

ASSUME PartsAssumption == Parts \subseteq AllParts

servicesVars == <<part, vars, roomVars, fairVars, gameVars, accountVars, policyVars, hubVars,
                  newsVars, timerVars, catalogVars>>

ServicesInit ==
    /\ part \in Parts
    /\ Init /\ RoomInit /\ FairInit /\ GameInit /\ AccountInit /\ PolicyInit
    /\ HubInit /\ NewsInit /\ TimersInit /\ CatalogInit

ServicesNext ==
    \/ /\ part = "commands" /\ Next
       /\ UNCHANGED <<part, roomVars, fairVars, gameVars, accountVars, policyVars,
                       hubVars, newsVars, timerVars, catalogVars>>
    \/ /\ part = "rooms" /\ RoomNext
       /\ UNCHANGED <<part, vars, fairVars, gameVars, accountVars, policyVars, hubVars,
                       newsVars, timerVars, catalogVars>>
    \/ /\ part = "deals" /\ FairNext
       /\ UNCHANGED <<part, vars, roomVars, gameVars, accountVars, policyVars, hubVars,
                       newsVars, timerVars, catalogVars>>
    \/ /\ part = "games" /\ GameNext
       /\ UNCHANGED <<part, vars, roomVars, fairVars, accountVars, policyVars, hubVars,
                       newsVars, timerVars, catalogVars>>
    \/ /\ part = "accounts" /\ AccountNext
       /\ UNCHANGED <<part, vars, roomVars, fairVars, gameVars, policyVars, hubVars,
                       newsVars, timerVars, catalogVars>>
    \/ /\ part = "policy" /\ PolicyNext
       /\ UNCHANGED <<part, vars, roomVars, fairVars, gameVars, accountVars, hubVars,
                       newsVars, timerVars, catalogVars>>
    \/ /\ part = "hub" /\ HubNext
       /\ UNCHANGED <<part, vars, roomVars, fairVars, gameVars, accountVars, policyVars,
                       newsVars, timerVars, catalogVars>>
    \/ /\ part = "news" /\ NewsNext
       /\ UNCHANGED <<part, vars, roomVars, fairVars, gameVars, accountVars, policyVars,
                       hubVars, timerVars, catalogVars>>
    \/ /\ part = "timers" /\ TimersNext
       /\ UNCHANGED <<part, vars, roomVars, fairVars, gameVars, accountVars, policyVars,
                       hubVars, newsVars, catalogVars>>
    \/ /\ part = "catalog" /\ CatalogNext
       /\ UNCHANGED <<part, vars, roomVars, fairVars, gameVars, accountVars, policyVars,
                       hubVars, newsVars, timerVars>>

ServicesSpec == ServicesInit /\ [][ServicesNext]_servicesVars

(* The fairness of each module holds in the behaviours that run it. *)
FairServicesSpec ==
    /\ ServicesSpec
    /\ \A t \in Thread : SF_vars(part = "commands" /\ Step(t))
    /\ WF_fairVars(part = "deals" /\ PassTime) /\ WF_fairVars(part = "deals" /\ Scan)
    /\ WF_fairVars(part = "deals" /\ Load) /\ WF_fairVars(part = "deals" /\ Issue)
    /\ \A i \in Instances :
          /\ WF_policyVars(part = "policy" /\ SyncRead(i))
          /\ WF_policyVars(part = "policy" /\ SyncLoad(i))
          /\ WF_policyVars(part = "policy" /\ SyncClaim(i))
          /\ WF_policyVars(part = "policy" /\ Reload(i))
    /\ \A c \in Sockets :
          /\ WF_hubVars(part = "hub" /\ StartPumps(c)) /\ WF_hubVars(part = "hub" /\ StopWriting(c))
          /\ WF_hubVars(part = "hub" /\ CloseStops(c)) /\ WF_hubVars(part = "hub" /\ Unregister(c))
    /\ WF_timerVars(part = "timers" /\ \E c \in callbacks : CallbackRuns(c))
    /\ WF_timerVars(part = "timers" /\ SweepRuns)
    /\ \A t \in Tables : WF_timerVars(part = "timers" /\ Elapse(t))

-----------------------------------------------------------------------------
(* Values *)

(* Cards of each player by rank, 0 the three and 12 the two; deals whose   *)
(* hands hold bombs, runs and wings, and the rocket.                       *)
Bag(s) == [r \in Ranks |-> Cardinality({i \in DOMAIN s : s[i] = r})]
Deal(bottom, a, b, c) ==
    [first |-> 1, cards |-> [i \in 0 .. 3 |-> Bag(<<bottom, a, b, c>>[i + 1])]]
SmallDeals == {Deal(<<13>>, <<0, 0, 0, 5, 5>>, <<7, 7, 7, 7>>, <<14>>),
               Deal(<<>>, <<9, 9, 9, 9, 2>>, <<3, 4, 5, 6, 7>>, <<6>>)}

(* Cards whose every subset is analysed. *)
WideSamples == {Bag(<<0, 0, 0, 1, 1, 1, 2, 2, 2, 3, 5, 5, 7, 7>>),
                Bag(<<4, 5, 6, 7, 8, 10, 10, 10, 10, 13, 14>>),
                Bag(<<10, 10, 10, 11, 11, 11, 12, 12, 12, 0, 0, 1, 1>>),
                Bag(<<4, 4, 4, 4, 5, 5, 6, 6, 7, 7>>)}

(* Every module's state is well formed. *)
ServicesTypeOK ==
    /\ TypeOK /\ RoomTypeOK /\ FairTypeOK /\ GameTypeOK /\ AccountTypeOK /\ PolicyTypeOK
    /\ HubTypeOK /\ NewsTypeOK /\ TimersTypeOK /\ CatalogTypeOK
=============================================================================
