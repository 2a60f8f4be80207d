--------------------- MODULE OptimizationTrigger_proofs ---------------------
(***************************************************************************)
(* Theorems about OptimizationTrigger, for all periods, numbers of retries *)
(* and packet rates, and every choice of trigger.                          *)
(***************************************************************************)
EXTENDS OptimizationTrigger, TLAPS

Lengths == {Period, ShortPeriod, RetryPeriod}

\* What the trigger thread will wait for, and how many optimizations failed.
WaitInv ==
  /\ arg \in Lengths
  /\ tpc = "wait" /\ asked = "no" /\ kind \in Periodic => period = arg
  /\ phases < MaxSignals => wasSignalled <= phases

RetryInv ==
  kind \in Periodic =>
    failures + retries <= IF tpc \in {"delay", "head", "reset"}
                          THEN MaxRetries + 1 ELSE MaxRetries

TriggerInv == TypeOK /\ NoLostWakeup /\ WaitInv /\ RetryInv

USE TriggerAssumption DEF TriggerAssumption, AllKinds, Periodic, NaN, Zero, YesNo

LEMMA TriggerInit == Init => TriggerInv
<1> SUFFICES ASSUME Init PROVE TriggerInv
  OBVIOUS
<1> USE DEF Init, MonitorInit
<1>1. TypeOK
  BY DEF TypeOK
<1>2. NoLostWakeup
  BY DEF NoLostWakeup
<1>3. WaitInv
  BY DEF WaitInv, Lengths
<1>4. RetryInv
  BY DEF RetryInv
<1>5. QED
  BY <1>1, <1>2, <1>3, <1>4 DEF TriggerInv

LEMMA TriggerStep == TriggerInv /\ [Next]_vars => TriggerInv'
<1> SUFFICES ASSUME TriggerInv, [Next]_vars PROVE TriggerInv'
  OBVIOUS
<1> USE DEF TriggerInv, TypeOK, NoLostWakeup, WaitInv, RetryInv, Lengths,
            monitor, thread, reader, network
<1>1. CASE DelayOver
  BY <1>1 DEF DelayOver
<1>2. CASE LoopHead
  <2>1. CASE Retry
    BY <1>2, <2>1 DEF LoopHead, Retry
  <2>2. CASE FullPeriod
    BY <1>2, <2>2 DEF LoopHead, FullPeriod
  <2>3. CASE NextPhase
    BY <1>2, <2>3 DEF LoopHead, NextPhase
  <2>4. QED
    BY <1>2, <2>1, <2>2, <2>3 DEF LoopHead
<1>3. CASE TriggerSetsPeriod("set", "wait") \/ TriggerSetsPeriod("reset", "head")
  BY <1>3 DEF TriggerSetsPeriod, SetPeriod
<1>4. CASE EnterWait \/ WakeSpuriously
  BY <1>4 DEF EnterWait, WakeSpuriously, Sleep, SpuriousWakeup
<1>5. CASE LeaveWait
  BY <1>5 DEF LeaveWait, Leave
<1>6. CASE Prepare \/ CallEclipse
  BY <1>6 DEF Prepare, CallEclipse
<1>7. CASE EclipseAnswers
  <2>1. CASE Failed
    BY <1>7, <2>1 DEF EclipseAnswers, Failed
  <2>2. CASE Injected
    BY <1>7, <2>2 DEF EclipseAnswers, Injected
  <2>3. CASE InjectedForReliability
    BY <1>7, <2>3 DEF EclipseAnswers, InjectedForReliability
  <2>4. CASE InjectedForGood \/ Estimated
    BY <1>7, <2>4 DEF EclipseAnswers, InjectedForGood, Estimated
  <2>5. QED
    BY <1>7, <2>1, <2>2, <2>3, <2>4 DEF EclipseAnswers
<1>8. CASE CollectionFinished
  BY <1>8 DEF CollectionFinished, PurgeBranch, PeakBranch, SwitchBranch, Ask,
              Content, Need
<1>9. CASE ReaderCallsEclipse
  BY <1>9 DEF ReaderCallsEclipse
<1>10. CASE EclipseEstimates
  BY <1>10 DEF EclipseEstimates, Ask, Content, Need
<1>11. CASE ReaderSetsPeriod("request", "record") \/ ReaderSetsPeriod("violated", "notify")
  BY <1>11 DEF ReaderSetsPeriod, SetPeriod
<1>12. CASE Record
  BY <1>12 DEF Record
<1>13. CASE Notify
  BY <1>13 DEF Notify, DoNotify
<1>14. CASE Report
  BY <1>14 DEF Report
<1>15. CASE Purge
  BY <1>15 DEF Purge
<1>16. CASE UNCHANGED vars
  BY <1>16 DEF vars
<1>17. QED
  BY <1>1, <1>2, <1>3, <1>4, <1>5, <1>6, <1>7, <1>8, <1>9, <1>10, <1>11,
     <1>12, <1>13, <1>14, <1>15, <1>16 DEF Next, TriggerThread, Reader

LEMMA TriggerInvariant == Spec => []TriggerInv
BY TriggerInit, TriggerStep, PTL DEF Spec

\* The variables of both threads and of the monitor keep their types, whichever
\* of the six triggers runs; a period is never 0, so doWait() always waits.
THEOREM TypeCorrect == Spec => []TypeOK
<1>1. TriggerInv => TypeOK
  BY DEF TriggerInv
<1>2. QED
  BY <1>1, TriggerInvariant, PTL

\* Whoever sets the period, and whenever, a thread in the monitor still has a
\* notification to wait for.
THEOREM NoWakeupIsLost == Spec => []NoLostWakeup
<1>1. TriggerInv => NoLostWakeup
  BY DEF TriggerInv
<1>2. QED
  BY <1>1, TriggerInvariant, PTL

\* No trigger retries more often than MAX_RETRIES says.
THEOREM RetriesAreBounded == Spec => []RetryBudget
<1>1. TriggerInv => RetryBudget
  BY DEF TriggerInv, TypeOK, RetryInv, RetryBudget
<1>2. QED
  BY <1>1, TriggerInvariant, PTL

\* Pace is the shortest of the three periods.
LEMMA PaceIsLeast == Pace \in Lengths /\ \A p \in Lengths : Pace <= p
<1>1. \E p \in Lengths : \A q \in Lengths : p <= q
  BY DEF Lengths
<1>2. QED
  BY <1>1 DEF Pace, Lengths

\* The optimizer is called at the pace the periods set.
THEOREM OptimizationsArePaced == Spec => Paced
<1> DEFINE Step == tpc = "wait" /\ tpc' = "prepare"
                     => phases >= IF asked = "no" /\ kind \in Periodic THEN Pace ELSE 1
<1>1. TriggerInv /\ [Next]_vars => [Step]_vars
  <2> SUFFICES ASSUME TriggerInv, Next, tpc = "wait", tpc' = "prepare"
               PROVE  Step
    OBVIOUS
  <2>1. LeaveWait
    BY DEF Next, TriggerThread, Reader, DelayOver, LoopHead, Retry, FullPeriod, NextPhase,
       TriggerSetsPeriod, EnterWait, WakeSpuriously, Prepare, CallEclipse,
       EclipseAnswers, Failed, Injected, InjectedForReliability, InjectedForGood,
       Estimated, CollectionFinished, ReaderCallsEclipse, EclipseEstimates,
       ReaderSetsPeriod, Record, Notify, Report, Purge, thread
  <2>2. wasSignalled >= period
    BY <2>1 DEF LeaveWait, Leave
  <2>3. Pace \in Lengths /\ Pace <= MaxSignals /\ 1 <= MaxSignals
    BY PaceIsLeast DEF Lengths
  <2>4. CASE asked = "no" /\ kind \in Periodic
    <3>1. Pace <= period
      BY <2>4, PaceIsLeast DEF TriggerInv, WaitInv
    <3>2. QED
      BY <2>2, <2>3, <2>4, <3>1 DEF TriggerInv, TypeOK, WaitInv, Lengths
  <2>5. CASE ~(asked = "no" /\ kind \in Periodic)
    BY <2>2, <2>3, <2>5 DEF TriggerInv, TypeOK, WaitInv, Lengths
  <2>6. QED
    BY <2>4, <2>5
<1>2. QED
  BY <1>1, TriggerInvariant, PTL DEF Spec, Paced
=============================================================================
