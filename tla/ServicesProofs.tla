--------------------------- MODULE ServicesProofs ---------------------------
(***************************************************************************)
(* Proofs about MCServices, where each behaviour runs one module and the   *)
(* others rest: every module then runs by its own specification, so that   *)
(* what is proved of the modules holds of the composition.                 *)
(***************************************************************************)
EXTENDS MCServices, CommandLedgerProofs, AggregateProofs, GameProofs, PlatformProofs

(* A step of the composition is a step, or none, of every module. *)
PartsStep ==
    /\ [Next]_vars /\ [RoomNext]_roomVars /\ [FairNext]_fairVars /\ [GameNext]_gameVars
    /\ [AccountNext]_accountVars /\ [PolicyNext]_policyVars /\ [HubNext]_hubVars
    /\ [NewsNext]_newsVars /\ [TimersNext]_timerVars /\ [CatalogNext]_catalogVars

LEMMA EveryPartSteps == [ServicesNext]_servicesVars => PartsStep
  BY Zenon DEF ServicesNext, servicesVars, PartsStep

(* The invariants of the modules. *)
ServicesInv ==
    /\ IInv /\ RoomInv /\ DealInv /\ GameInv /\ AccountInv /\ PolicyInv /\ HubInv /\ NewsInv
    /\ TimersInv /\ CatalogInv

LEMMA ServicesStart == ServicesInit => ServicesInv
  BY InvariantInit, RoomStarts, DealsStart, GameStarts, AccountStarts, PolicyStarts, HubStarts,
     NewsStarts, TimersStart, CatalogStarts, Zenon DEF ServicesInit, ServicesInv

LEMMA ServicesKept == ServicesInv /\ [ServicesNext]_servicesVars => ServicesInv'
<1> SUFFICES ASSUME ServicesInv, PartsStep
             PROVE  ServicesInv'
  BY EveryPartSteps, Zenon
<1>1. IInv' /\ RoomInv' /\ DealInv' /\ GameInv'
  BY InvariantStep, RoomKept, DealsKept, GameKept, Zenon DEF ServicesInv, PartsStep
<1>2. AccountInv' /\ PolicyInv' /\ HubInv'
  BY AccountKept, PolicyKept, HubKept, Zenon DEF ServicesInv, PartsStep
<1>3. NewsInv' /\ TimersInv' /\ CatalogInv'
  BY NewsKept, TimersKept, CatalogKept, Zenon DEF ServicesInv, PartsStep
<1> QED
  BY <1>1, <1>2, <1>3, Zenon DEF ServicesInv

(* In the composition every module runs by its own specification, up to    *)
(* the fairness that FairServicesSpec adds.                                *)
THEOREM PartsRunAlone ==
    ServicesSpec =>
        /\ Spec /\ RoomSpec /\ GameSpec /\ AccountSpec /\ NewsSpec /\ CatalogSpec
        /\ FairInit /\ [][FairNext]_fairVars
        /\ PolicyInit /\ [][PolicyNext]_policyVars
        /\ HubInit /\ [][HubNext]_hubVars
        /\ TimersInit /\ [][TimersNext]_timerVars
<1>1. ServicesInit => /\ Init /\ RoomInit /\ FairInit /\ GameInit /\ AccountInit /\ PolicyInit
                      /\ HubInit /\ NewsInit /\ TimersInit /\ CatalogInit
  BY Zenon DEF ServicesInit
<1>2. [ServicesNext]_servicesVars =>
          /\ [Next]_vars /\ [RoomNext]_roomVars /\ [FairNext]_fairVars /\ [GameNext]_gameVars
          /\ [AccountNext]_accountVars /\ [PolicyNext]_policyVars /\ [HubNext]_hubVars
          /\ [NewsNext]_newsVars /\ [TimersNext]_timerVars /\ [CatalogNext]_catalogVars
  BY EveryPartSteps, Zenon DEF PartsStep
<1> QED
  BY <1>1, <1>2, PTL
     DEF ServicesSpec, Spec, RoomSpec, GameSpec, AccountSpec, NewsSpec, CatalogSpec

(* The modules keep their invariants together, whichever of them runs. *)
THEOREM ServicesInvariant == ServicesSpec => []ServicesInv
  BY ServicesStart, ServicesKept, PTL DEF ServicesSpec

(* The state of every module is well formed, for any instance of it. *)
THEOREM ServicesTypeCorrect == ServicesSpec => []ServicesTypeOK
<1>1. ServicesInv => ServicesTypeOK
  <2>1. IInv /\ RoomInv /\ DealInv => TypeOK /\ RoomTypeOK /\ FairTypeOK
    BY Zenon DEF IInv, RoomInv, DealInv
  <2>2. GameInv /\ AccountInv /\ PolicyInv => GameTypeOK /\ AccountTypeOK /\ PolicyTypeOK
    BY Zenon DEF GameInv, AccountInv, PolicyInv
  <2>3. CatalogInv => CatalogTypeOK
    BY Zenon DEF CatalogInv
  <2> QED
    BY <2>1, <2>2, <2>3, HubWellFormed, NewsWellFormed, TimersWellFormed, Zenon
       DEF ServicesInv, ServicesTypeOK
<1> QED
  BY <1>1, ServicesInvariant, PTL
=============================================================================
