------------------------ MODULE OptimizationTrigger -------------------------
(***************************************************************************)
(* When the controller optimizes (controller/.../triggers).  Three threads *)
(* meet here: the trigger's own thread, which waits, asks ECLiPSe for new  *)
(* parameters and injects them; the thread that reads the serial port,     *)
(* which calls collectionFinished() after every Glossy phase; and the      *)
(* thread that purges silent nodes.  `kind` is the trigger the controller  *)
(* was started with: all of them are one loop with different branches.     *)
(***************************************************************************)
EXTENDS WaitNotify

CONSTANTS
  Kinds,         \* the triggers to consider
  Period,        \* OptimizationPeriod; LONG_PERIOD of the adaptive trigger
  ShortPeriod,   \* SHORT_PERIOD of the adaptive trigger
  RetryPeriod,   \* OptimizationRetryPeriod
  MaxRetries,    \* MAX_RETRIES
  Rate, High,    \* packet rates of nodes, and those above CHECK_DATA_RATE
  MaxSignals     \* bound: Glossy phases that pass while the trigger is busy

Periodic == {"timed", "adaptive", "performance", "unified"}
AllKinds == Periodic \cup {"initial", "estimation"}

ASSUME TriggerAssumption ==
  /\ Kinds \subseteq AllKinds
  /\ Period \in Nat \ {0} /\ ShortPeriod \in Nat \ {0} /\ RetryPeriod \in Nat \ {0}
  /\ MaxRetries \in Nat \ {0}
  /\ High \subseteq Rate
  /\ MaxSignals \in Nat
  /\ \A p \in {Period, ShortPeriod, RetryPeriod, 2} : p <= MaxSignals

NaN  == "NaN"    \* dataRate of the unified trigger before it saw a node
Zero == "0.0"    \* and its initial newDataRate

VARIABLES
  kind,
  tpc,                  \* where the trigger thread is
  retries, arg,         \* its locals; arg is the value it passes to setPeriod
  failures,             \* history: optimizations failed since it last waited a full period
  rpc, ask,             \* where the reader is, and the period it asks for
  basePeriod,           \* field `period`, which the adaptive trigger changes
  nodesHaveBeenPurged,
  driver,               \* who is in the synchronized EclipseDriver
  dataRate,             \* field of the unified trigger
  rates,                \* rates of the nodes; {} while only the sink is known
  phases,               \* history: collections finished since doWait() last returned
  asked,                \* history: the reader has set the period since the trigger did
  stale                 \* history: there is a need to optimize that no optimization has met

thread  == <<tpc, retries, arg, failures>>
reader  == <<rpc, ask>>
network == <<dataRate, rates>>
vars == <<kind, monitor, thread, reader, basePeriod, nodesHaveBeenPurged, driver,
          network, phases, asked, stale>>

Init ==
  /\ kind \in Kinds
  /\ MonitorInit(IF kind \in Periodic THEN Period ELSE 1)
  /\ tpc = "delay" /\ retries = 0 /\ arg = Period /\ failures = 0
  /\ rpc = "idle" /\ ask = 1
  /\ basePeriod = Period
  /\ nodesHaveBeenPurged = "no"
  /\ driver = "free"
  /\ dataRate = NaN /\ rates \in SUBSET Rate
  /\ phases = 0 /\ asked = "no" /\ stale = "no"

-----------------------------------------------------------------------------
(***************************************************************************)
(* The trigger thread.                                                     *)
(***************************************************************************)
DelayOver ==
  /\ tpc = "delay"
  /\ tpc' = "head"
  /\ UNCHANGED <<kind, monitor, retries, arg, failures, reader, basePeriod,
                 nodesHaveBeenPurged, driver, network, phases, asked, stale>>

\* Fault: a failed optimization does not use up a retry.
Retry_Unlimited ==
  /\ kind \in Periodic /\ retries > 0
  /\ arg' = RetryPeriod
  /\ tpc' = "set"
  /\ UNCHANGED <<retries, failures>>

Retry ==
  /\ kind \in Periodic /\ retries > 0
  /\ retries' = retries - 1
  /\ arg' = RetryPeriod
  /\ tpc' = "set"
  /\ UNCHANGED failures

FullPeriod ==
  /\ kind \in Periodic /\ retries = 0
  /\ retries' = MaxRetries
  /\ arg' = basePeriod
  /\ failures' = 0
  /\ tpc' = "set"

\* The two triggers that never set the period.
NextPhase ==
  /\ kind \notin Periodic
  /\ tpc' = IF kind = "initial" /\ retries > MaxRetries THEN "finished" ELSE "wait"
  /\ UNCHANGED <<retries, arg, failures>>

LoopHead ==
  /\ tpc = "head"
  /\ Retry \/ FullPeriod \/ NextPhase
  /\ UNCHANGED <<kind, monitor, reader, basePeriod, nodesHaveBeenPurged, driver,
                 network, phases, asked, stale>>

\* setPeriod() before doWait(), and after an optimization that succeeded.
TriggerSetsPeriod(from, to) ==
  /\ tpc = from
  /\ SetPeriod(arg)
  /\ asked' = "no"
  /\ tpc' = to
  /\ UNCHANGED <<kind, retries, arg, failures, reader, basePeriod,
                 nodesHaveBeenPurged, driver, network, phases, stale>>

EnterWait ==
  /\ tpc = "wait" /\ Sleep
  /\ UNCHANGED <<kind, thread, reader, basePeriod, nodesHaveBeenPurged, driver,
                 network, phases, asked, stale>>

WakeSpuriously ==
  /\ SpuriousWakeup
  /\ UNCHANGED <<kind, thread, reader, basePeriod, nodesHaveBeenPurged, driver,
                 network, phases, asked, stale>>

LeaveWait ==
  /\ tpc = "wait" /\ Leave
  /\ tpc' = "prepare"
  /\ phases' = 0
  /\ UNCHANGED <<kind, retries, arg, failures, reader, basePeriod,
                 nodesHaveBeenPurged, driver, network, asked, stale>>

\* prepareTopologies(): what ECLiPSe will see is fixed here.
Prepare ==
  /\ tpc = "prepare"
  /\ tpc' = "call"
  /\ stale' = "no"
  /\ UNCHANGED <<kind, monitor, retries, arg, failures, reader, basePeriod,
                 nodesHaveBeenPurged, driver, network, phases, asked>>

CallEclipse ==
  /\ tpc = "call" /\ driver = "free"
  /\ driver' = "trigger"
  /\ tpc' = "eclipse"
  /\ UNCHANGED <<kind, monitor, retries, arg, failures, reader, basePeriod,
                 nodesHaveBeenPurged, network, phases, asked, stale>>

\* optimize() returned null.
Failed ==
  /\ kind # "estimation"
  /\ failures' = failures + 1
  /\ retries' = IF kind = "initial" THEN retries + 1 ELSE retries
  /\ tpc' = "head"
  /\ UNCHANGED arg

\* New parameters, written to the serial line.
Injected ==
  /\ kind \in Periodic
  /\ retries' = 0 /\ failures' = 0
  /\ arg' = basePeriod
  /\ tpc' = "reset"

\* Parameters optimized for reliability: the performance trigger makes its loop
\* believe in a retry, the initial one tries again.
InjectedForReliability ==
  /\ kind \in {"performance", "initial"}
  /\ retries' = IF kind = "performance" THEN 1 ELSE retries
  /\ failures' = IF kind = "performance" THEN 0 ELSE failures
  /\ tpc' = "head"
  /\ UNCHANGED arg

InjectedForGood ==
  /\ kind = "initial"
  /\ tpc' = "finished"
  /\ UNCHANGED <<retries, arg, failures>>

Estimated ==
  /\ kind = "estimation"
  /\ tpc' = "head"
  /\ UNCHANGED <<retries, arg, failures>>

EclipseAnswers ==
  /\ tpc = "eclipse"
  /\ Failed \/ Injected \/ InjectedForReliability \/ InjectedForGood \/ Estimated
  /\ driver' = "free"
  /\ UNCHANGED <<kind, monitor, reader, basePeriod, nodesHaveBeenPurged, network,
                 phases, asked, stale>>

-----------------------------------------------------------------------------
(***************************************************************************)
(* The reader calls collectionFinished().  (With an empty topology history *)
(* it returns at once.)                                                    *)
(***************************************************************************)

\* A need to optimize arises; before the initial delay is over it does not count.
Need == stale' = IF tpc = "delay" THEN stale ELSE "yes"

\* The reader has just noticed it and will set the period to p.
Ask(to, p) == rpc' = to /\ ask' = p /\ Need

Content == rpc' = "notify" /\ UNCHANGED <<ask, stale>>

PurgeBranch ==
  IF nodesHaveBeenPurged = "yes" THEN rpc' = "request" /\ ask' = 1 /\ UNCHANGED stale
  ELSE rpc' = "call" /\ UNCHANGED <<ask, stale>>

PeakBranch ==
  IF rates \cap High # {} /\ basePeriod = Period THEN Ask("request", 2)
  ELSE IF rates \cap High = {} /\ basePeriod = ShortPeriod THEN Ask("request", 1)
  ELSE Content

\* The first node seen only initializes dataRate, but the loop is left with
\* allNodesSwitchedDataRate still true and newDataRate still 0.0.  So it is when
\* there is no node but the sink.
SwitchBranch ==
  \/ (dataRate = NaN \/ rates = {}) /\ dataRate' = Zero /\ Ask("request", 1)
  \/ dataRate \in rates /\ Content /\ UNCHANGED dataRate
  \/ dataRate \notin rates \cup {NaN} /\ dataRate' \in rates /\ Ask("request", 1)

CollectionFinished ==
  /\ rpc = "idle" /\ wasSignalled < MaxSignals
  /\ CASE kind = "performance" -> PurgeBranch /\ UNCHANGED dataRate
       [] kind = "adaptive"    -> PeakBranch /\ UNCHANGED dataRate
       [] kind = "unified"     -> SwitchBranch
       [] OTHER                -> Content /\ UNCHANGED dataRate
  /\ UNCHANGED <<kind, monitor, thread, basePeriod, nodesHaveBeenPurged, driver,
                 rates, phases, asked>>

\* driver.performance(), for the performance trigger.
ReaderCallsEclipse ==
  /\ rpc = "call" /\ driver = "free"
  /\ driver' = "reader"
  /\ rpc' = "eclipse"
  /\ UNCHANGED <<kind, monitor, thread, ask, basePeriod, nodesHaveBeenPurged,
                 network, phases, asked, stale>>

\* No estimate or a good one; or the reliability constraint is violated.
EclipseEstimates ==
  /\ rpc = "eclipse"
  /\ driver' = "free"
  /\ Content \/ Ask("violated", 1)
  /\ UNCHANGED <<kind, monitor, thread, basePeriod, nodesHaveBeenPurged, network,
                 phases, asked>>

ReaderSetsPeriod(from, to) ==
  /\ rpc = from
  /\ SetPeriod(ask)
  /\ asked' = "yes"
  /\ rpc' = to
  /\ UNCHANGED <<kind, thread, ask, basePeriod, nodesHaveBeenPurged, driver,
                 network, phases, stale>>

\* Fault: the period asked for becomes the period of all later optimizations.
Record_KeepsAsk ==
  /\ rpc = "record"
  /\ basePeriod' = IF kind # "adaptive" THEN basePeriod ELSE ask
  /\ nodesHaveBeenPurged' = "no"
  /\ rpc' = "notify"
  /\ UNCHANGED <<kind, monitor, thread, ask, driver, network, phases, asked, stale>>

\* The field assigned after setPeriod().  (dataRate, the reader's own, was
\* assigned above.)
Record ==
  /\ rpc = "record"
  /\ basePeriod' = IF kind # "adaptive" THEN basePeriod
                   ELSE IF ask = 2 THEN ShortPeriod ELSE Period
  /\ nodesHaveBeenPurged' = "no"
  /\ rpc' = "notify"
  /\ UNCHANGED <<kind, monitor, thread, ask, driver, network, phases, asked, stale>>

Notify ==
  /\ rpc = "notify"
  /\ DoNotify
  /\ phases' = IF phases < MaxSignals THEN phases + 1 ELSE phases
  /\ rpc' = "idle"
  /\ UNCHANGED <<kind, thread, ask, basePeriod, nodesHaveBeenPurged, driver,
                 network, asked, stale>>

\* The reader updates the topology with the rates that nodes report.
Report ==
  /\ rpc = "idle"
  /\ rates' \in SUBSET Rate
  /\ UNCHANGED <<kind, monitor, thread, reader, basePeriod, nodesHaveBeenPurged,
                 driver, dataRate, phases, asked, stale>>

\* The purging thread calls nodesHaveBeenPurged().
Purge ==
  /\ kind = "performance" /\ tpc # "delay"
  /\ nodesHaveBeenPurged' = "yes"
  /\ stale' = "yes"
  /\ UNCHANGED <<kind, monitor, thread, reader, basePeriod, driver, network,
                 phases, asked>>
-----------------------------------------------------------------------------
TriggerThread ==
  \/ DelayOver \/ LoopHead
  \/ TriggerSetsPeriod("set", "wait") \/ TriggerSetsPeriod("reset", "head")
  \/ EnterWait \/ LeaveWait \/ Prepare \/ CallEclipse \/ EclipseAnswers

Reader ==
  \/ CollectionFinished \/ ReaderCallsEclipse \/ EclipseEstimates
  \/ ReaderSetsPeriod("request", "record") \/ ReaderSetsPeriod("violated", "notify")
  \/ Record \/ Notify

Next == TriggerThread \/ Reader \/ WakeSpuriously \/ Report \/ Purge

Spec == Init /\ [][Next]_vars

\* Both threads run, both get EclipseDriver's lock if it becomes free again and
\* again, ECLiPSe answers, and the sink reports the end of every Glossy phase.
\* Phases are a minute apart, so a thread that was woken up returns from doWait()
\* before the reader sets another period, if not every time then in the end.
FairSpec == Spec /\ SF_vars(TriggerThread) /\ SF_vars(LeaveWait) /\ SF_vars(Reader)

-----------------------------------------------------------------------------
YesNo == {"yes", "no"}

\* Types of the variables.
TypeOK ==
  /\ kind \in Kinds
  /\ period \in Nat \ {0} /\ wasSignalled \in Nat /\ waiter \in {"running", "waiting"}
  /\ tpc \in {"delay", "head", "set", "wait", "prepare", "call", "eclipse",
              "reset", "finished"}
  /\ retries \in Nat /\ arg \in Nat \ {0} /\ failures \in Nat
  /\ rpc \in {"idle", "call", "eclipse", "request", "violated", "record", "notify"}
  /\ ask \in {1, 2}
  /\ basePeriod \in {Period, ShortPeriod}
  /\ nodesHaveBeenPurged \in YesNo
  /\ driver \in {"free", "trigger", "reader"}
  /\ dataRate \in Rate \cup {NaN, Zero} /\ rates \subseteq Rate
  /\ phases \in Nat /\ asked \in YesNo /\ stale \in YesNo

\* The trigger thread never sleeps through its wake-up: whenever it is in the
\* monitor, fewer collections were signalled than it waits for, although both
\* threads change the period and the count, and setPeriod() wakes nobody.
NoLostWakeup == waiter = "waiting" => wasSignalled < period

\* After an optimization that returned nothing at most MAX_RETRIES more follow at
\* RetryPeriod; then the trigger waits for a full period.  The initial trigger is left
\* out: its "up to ten times" (InitialOptimizationTrigger.java:46) is to count answers
\* geared toward reliability too, but the code does not (InjectedForReliability).
RetryBudget == kind \in Periodic => failures <= MaxRetries + 1

\* ECLiPSe is not asked more often than the periods say: unless the reader has
\* asked for it, a full or retry period of collections lies between two times
\* doWait() returns, however long ECLiPSe takes and whatever is set meanwhile.
Pace == CHOOSE p \in {Period, ShortPeriod, RetryPeriod} :
          \A q \in {Period, ShortPeriod, RetryPeriod} : p <= q
Paced ==
  [][tpc = "wait" /\ tpc' = "prepare"
       => phases >= IF asked = "no" /\ kind \in Periodic THEN Pace ELSE 1]_vars

\* The loop goes on for ever, whoever holds EclipseDriver.  (Only the initial
\* trigger comes to an end.)
KeepsOptimizing == []<>(tpc = "eclipse") \/ <>(tpc = "finished")

\* "optimizes immediately (1) if the estimated performance is more than 5% lower
\* than the end-to-end reliability constraints, or if (2) nodes have been purged":
\* the trigger thread does not sleep on a need the reader has dealt with.
OptimizesImmediately ==
  waiter = "waiting" /\ rpc = "idle" /\ nodesHaveBeenPurged = "no" => stale = "no"
=============================================================================
