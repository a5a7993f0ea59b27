------------------------- MODULE CompositionProofs -------------------------
(***************************************************************************)
(* Proofs about MCServices.  A behaviour of the services together is, for  *)
(* each of them, a behaviour of it alone, which rests while another one    *)
(* moves; so that what was proved of each alone holds of them together.    *)
(***************************************************************************)
EXTENDS MCServices, CacheProofs, PodProofs, ServiceProofs

-----------------------------------------------------------------------------
(* Each service alone.                                                      *)

\* A step of the services is a step of each of them, or leaves it as it is.
LEMMA StepOfEach ==
    [ServicesNext]_servicesVars =>
        /\ [AINext]_aiVars /\ [MRNext]_mrVars /\ [PANext]_paVars /\ [TSNext]_tsVars
        /\ [RLNext]_lockVars /\ [AANext]_accountVars /\ [LSNext]_loginVars
        /\ [RCNext]_cacheVars /\ [CONext]_overviewVars /\ [CLNext]_clVars
        /\ [MFNext]_mfVars
        /\ focus' = focus
<1> SUFFICES ASSUME [ServicesNext]_servicesVars
             PROVE  /\ [AINext]_aiVars /\ [MRNext]_mrVars /\ [PANext]_paVars /\ [TSNext]_tsVars
                    /\ [RLNext]_lockVars /\ [AANext]_accountVars /\ [LSNext]_loginVars
                    /\ [RCNext]_cacheVars /\ [CONext]_overviewVars /\ [CLNext]_clVars
                    /\ [MFNext]_mfVars
                    /\ focus' = focus
  OBVIOUS
<1> USE DEF userVars, readVars, metricsVars
<1>1. CASE TurnsMove
  BY <1>1 DEF TurnsMove
<1>2. CASE MutationsMove
  BY <1>2 DEF MutationsMove
<1>3. CASE AccessMoves
  BY <1>3 DEF AccessMoves
<1>4. CASE TerminalMoves
  BY <1>4 DEF TerminalMoves
<1>5. CASE LocksMove
  BY <1>5 DEF LocksMove
<1>6. CASE AccountsMove
  BY <1>6 DEF AccountsMove
<1>7. CASE LoginsMove
  BY <1>7 DEF LoginsMove
<1>8. CASE CacheMoves
  BY <1>8 DEF CacheMoves
<1>9. CASE OverviewMoves
  BY <1>9 DEF OverviewMoves
<1>10. CASE LimiterMoves
  BY <1>10 DEF LimiterMoves
<1>11. CASE ForwardingMoves
  BY <1>11 DEF ForwardingMoves
<1>12. CASE UNCHANGED servicesVars
  BY <1>12 DEF servicesVars
<1> QED
  BY <1>1, <1>2, <1>3, <1>4, <1>5, <1>6, <1>7, <1>8, <1>9, <1>10, <1>11, <1>12
     DEF ServicesNext

LEMMA StartOfEach ==
    ServicesInit =>
        /\ AIInit /\ MRInit /\ PAInit /\ TSInit /\ RLInit /\ AAInit /\ LSInit /\ RCInit
        /\ COInit /\ CLInit /\ MFInit
        /\ focus \in Services
BY DEF ServicesInit

-----------------------------------------------------------------------------
(* The services together.                                                   *)

\* What the run of MCServices checks on a small instance, besides the types: what the
\* package of each service promises holds whichever of them moves, for all constants.
THEOREM ServicesCorrect ==
    ServicesSpec =>
        [](/\ WorkBelongsToRunningTurn /\ QuotaHolds /\ PerformedAsDecided
           /\ PerformedOnce /\ AnswersAreDue /\ OnlyLatestAccess
           /\ OnlyLateCompletionDeadlocks /\ SomeAdministratorRemains /\ SessionsAreCurrent
           /\ TotalsMatchItems /\ WalkIsComplete /\ OverviewGoesForward
           /\ RefusalsAreJustified /\ OnlyUnsentAreOrphaned)
<1>1. ServicesSpec => []
         (/\ WorkBelongsToRunningTurn /\ QuotaHolds /\ PerformedAsDecided)
  BY StartOfEach, StepOfEach, TurnsSafe, PTL DEF ServicesSpec
<1>2. ServicesSpec => [](PerformedOnce /\ AnswersAreDue)
  BY StartOfEach, StepOfEach, ReplayPerformsOnce, ReplayAnswersAreDue, PTL
     DEF ServicesSpec, MRSpec
<1>3. ServicesSpec => []OnlyLatestAccess
  BY StartOfEach, StepOfEach, AccessSafe, PTL DEF ServicesSpec
<1>4. ServicesSpec => []OnlyLateCompletionDeadlocks
  BY StartOfEach, StepOfEach, LockOrderIsKept, PTL DEF ServicesSpec, RLSpec
<1>5. ServicesSpec => [](SomeAdministratorRemains /\ SessionsAreCurrent)
  BY StartOfEach, StepOfEach, AdministratorRemains, SessionsStayCurrent, PTL
     DEF ServicesSpec, AASpec, LSSpec
<1>6. ServicesSpec => [](TotalsMatchItems /\ WalkIsComplete /\ OverviewGoesForward)
  BY StartOfEach, StepOfEach, TotalsAddUp, WalksComplete, OverviewCorrect, PTL
     DEF ServicesSpec, RCSpec, COSpec
<1>7. ServicesSpec => [](RefusalsAreJustified /\ OnlyUnsentAreOrphaned)
  BY StartOfEach, StepOfEach, RefusedWithReason, ForwardSafe, PTL
     DEF ServicesSpec, CLSpec
<1> QED
  BY <1>1, <1>2, <1>3, <1>4, <1>5, <1>6, <1>7, PTL

\* Every variable of every service stays in its range, and its tables within their
\* limits.
THEOREM ServicesTypeCorrect == ServicesSpec => []ServicesTypeOK
<1>1. ServicesSpec => [](AITypeOK /\ MFTypeOK)
  BY StartOfEach, StepOfEach, TurnsSafe, ForwardSafe, PTL DEF ServicesSpec
<1>2. ServicesSpec => [](PATypeOK /\ TSTypeOK)
  BY StartOfEach, StepOfEach, AccessSafe, TerminalSafe, PTL DEF ServicesSpec
<1>3. ServicesSpec => [](MRTypeOK /\ RCTypeOK /\ COTypeOK)
  BY StartOfEach, StepOfEach, ReplayTypeCorrect, SectionTypeCorrect, OverviewTypeCorrect,
     PTL DEF ServicesSpec, MRSpec, RCSpec, COSpec
<1>4. ServicesSpec => [](RLTypeOK /\ AATypeOK)
  <2>1. RLInv => RLTypeOK
    BY DEF RLInv
  <2> QED
    BY <2>1, StartOfEach, StepOfEach, RowLocksCorrect, AccountTypeCorrect, PTL
       DEF ServicesSpec, RLSpec, AASpec
<1>5. ServicesSpec => [](LSTypeOK /\ CLTypeOK)
  <2>1. LSTypeInv => LSTypeOK
    BY DEF LSTypeInv
  <2> QED
    BY <2>1, StartOfEach, StepOfEach, LoginTypeCorrect, LimiterTypeCorrect, PTL
       DEF ServicesSpec, LSSpec, CLSpec
<1>6. ServicesSpec => [](focus \in Services)
  <2>1. focus \in Services /\ focus' = focus => (focus \in Services)'
    OBVIOUS
  <2> QED BY <2>1, StartOfEach, StepOfEach, PTL DEF ServicesSpec
<1>7. /\ focus \in Services
      /\ AITypeOK /\ MFTypeOK /\ PATypeOK /\ TSTypeOK /\ MRTypeOK /\ RCTypeOK /\ COTypeOK
      /\ RLTypeOK /\ AATypeOK /\ LSTypeOK /\ CLTypeOK
      => ServicesTypeOK
  BY DEF ServicesTypeOK, Services
<1> QED
  BY <1>1, <1>2, <1>3, <1>4, <1>5, <1>6, <1>7, PTL
=============================================================================
