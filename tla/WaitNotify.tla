----------------------------- MODULE WaitNotify -----------------------------
(***************************************************************************)
(* The monitor through which the thread that reads the serial port lets a  *)
(* trigger thread sleep for a number of Glossy phases                      *)
(* (controller/.../triggers/WaitNotify.java).  One thread waits on it.     *)
(***************************************************************************)
EXTENDS Naturals

VARIABLES
  period,        \* notifications the waiting thread sleeps for
  wasSignalled,  \* notifications so far
  waiter         \* the thread that waits: "running", or "waiting" in the monitor

monitor == <<period, wasSignalled, waiter>>

MonitorInit(p) == period = p /\ wasSignalled = 0 /\ waiter = "running"

\* doWait(): while (wasSignalled < period) monitor.wait();
Sleep ==
  /\ waiter = "running" /\ wasSignalled < period
  /\ waiter' = "waiting"
  /\ UNCHANGED <<period, wasSignalled>>

\* Fault: the condition is not tested again after a wake-up.
Leave_IfForWhile ==
  /\ waiter = "running"
  /\ wasSignalled' = 0
  /\ UNCHANGED <<period, waiter>>

\* doWait() returns.
Leave ==
  /\ waiter = "running" /\ wasSignalled >= period
  /\ wasSignalled' = 0
  /\ UNCHANGED <<period, waiter>>

\* Fault: the count is raised and nobody is woken up.
DoNotify_Silent ==
  /\ wasSignalled' = wasSignalled + 1
  /\ UNCHANGED <<period, waiter>>

DoNotify ==
  /\ wasSignalled' = wasSignalled + 1
  /\ waiter' = "running"
  /\ UNCHANGED period

\* Fault: the count survives the new period.
SetPeriod_KeepsCount(p) ==
  /\ period' = p
  /\ UNCHANGED <<wasSignalled, waiter>>

SetPeriod(p) ==
  /\ period' = p
  /\ wasSignalled' = 0
  /\ UNCHANGED waiter

\* Object.wait() may return without a notification.
SpuriousWakeup ==
  /\ waiter = "waiting"
  /\ waiter' = "running"
  /\ UNCHANGED <<period, wasSignalled>>
=============================================================================
