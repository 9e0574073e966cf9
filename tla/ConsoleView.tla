----------------------------- MODULE ConsoleView -----------------------------
(***************************************************************************)
(* The driver of Freshness as a console sees it: with a clock hook, on a   *)
(* clock that counts conversion budgets, and polled with a budget of at    *)
(* least one transfer.  Readiness, ownership, the baseline and the flag,   *)
(* the gates and the read jobs are then what CliDriver makes of them.      *)
(*                                                                         *)
(* The device completes fewer conversions between two deliveries than its  *)
(* counter tells apart: CliDriver knows no counter that comes round.       *)
(***************************************************************************)
EXTENDS Freshness

VARIABLE last  \* how the last job ended: _lastPollStatus

viewVars == <<vars, last>>

\* One conversion is one unit of time, and so are the budget and the retry distance.
ConsoleScale ==
  /\ ClockHook /\ ~FifoFull /\ ~OnTime
  /\ ConversionTime = 1 /\ OneShotBudget = 1 /\ RetryInterval = 1

ViewInit == Init /\ last = "OK"

\* A poll that may transfer waits only where there is nothing to transfer yet.
PollMayTransfer == PollWaits => job'.step = "WAIT_READY"
CounterTells == driver'.baseline => unseen' < CounterModulo

\* _finishPollJob
Remembers ==
  last' = CASE job.kind = "NONE" \/ job'.kind # "NONE" -> last
            [] job.kind # "NONE" /\ job'.kind = "NONE" ->
                 IF result' \in {"SAMPLE", "FRAME"} THEN "OK" ELSE "FAILED"

ViewNext == Next /\ PollMayTransfer /\ CounterTells /\ Remembers

ViewSpec == ViewInit /\ [][ViewNext]_viewVars

-----------------------------------------------------------------------------
(* The console's driver and device. *)

\* "left" is 0 until the first poll has set the deadline.
SeenJob(j) ==
  [kind |-> IF j.kind = "NONE" THEN "NONE" ELSE "READ",
   left |-> IF j.kind # "NONE" /\ j.armed THEN j.age + 1 ELSE 0,
   to |-> "POWER_DOWN"]

SeenDriver(d, j, st) ==
  [phase |-> "READY", mode |-> d.mode,
   started |-> d.started /\ d.mode # "CONTINUOUS",
   evidence |-> d.evidence, retry |-> d.retryAge < RetryInterval,
   age |-> IF d.started \/ d.mode = "CONTINUOUS" THEN d.convAge ELSE 0,
   job |-> SeenJob(j), last |-> IF j.kind = "NONE" THEN st ELSE "IN_PROGRESS"]

\* A flag that was read and latched still stands for its conversion.
SeenDevice(d, v, n) ==
  [running |-> v.running,
   unread |-> IF d.baseline THEN n % CounterModulo # 0 ELSE v.flag \/ d.evidence]

Cli == INSTANCE CliClient
         WITH drv <- SeenDriver(driver, job, last),
              dev <- SeenDevice(driver, device, unseen), Writes <- 1

\* Whatever the detailed driver does about readiness, samples and read jobs is a
\* reply that the console's driver may give: what Console shows of the sessions
\* counts for the real driver.
SeenAsCliDriver == Cli!Spec
=============================================================================
