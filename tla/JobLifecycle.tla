---------------------------- MODULE JobLifecycle ----------------------------
(***************************************************************************)
(* What the workout-video job service promises about one job, whatever the *)
(* number of workers and reapers: the life of a job as a client of         *)
(* workout-video-project would draw it.  A job is submitted once, is       *)
(* attempted at most MaxRetries + 1 times, one attempt at a time, an       *)
(* attempt number is never used twice, and a job that has completed or has *)
(* been declared a poison pill stays so.                                   *)
(***************************************************************************)
EXTENDS Integers

CONSTANTS Jobs,        \* the job ids
          MaxRetries   \* how often the service may start a job over

VARIABLE job           \* job[j]: the phase job j is in and its attempt number

Phases == {"absent", "waiting", "running", "failed", "completed", "poisoned"}

LTypeOK == job \in [Jobs -> [phase : Phases, attempt : 0..MaxRetries]]

LInit == job = [j \in Jobs |-> [phase |-> "absent", attempt |-> 0]]

\* Job j moves from one of the phases in from to the phase to.
Move(j, from, to) ==
    /\ job[j].phase \in from
    /\ job' = [job EXCEPT ![j] = [phase |-> to, attempt |-> @.attempt]]

Submit(j)   == Move(j, {"absent"}, "waiting")
Start(j)    == Move(j, {"waiting"}, "running")
Complete(j) == Move(j, {"running"}, "completed")
Fail(j)     == Move(j, {"running"}, "failed")
Poison(j)   == Move(j, {"running", "failed"}, "poisoned")

\* The only step that gives a job another attempt.
Retry(j) ==
    /\ job[j].phase \in {"running", "failed"}
    /\ job[j].attempt < MaxRetries
    /\ job' = [job EXCEPT ![j] = [phase |-> "waiting", attempt |-> @.attempt + 1]]

LNext ==
    \E j \in Jobs :
        \/ Submit(j) \/ Start(j) \/ Complete(j) \/ Fail(j) \/ Poison(j)
        \/ Retry(j)

LSpec == LInit /\ [][LNext]_job

=============================================================================
