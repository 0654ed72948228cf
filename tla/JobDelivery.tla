----------------------------- MODULE JobDelivery -----------------------------
(***************************************************************************)
(* What the pipeline promises of each job, whatever table or process keeps  *)
(* it: a job is enqueued once, held by somebody or waiting until it settles *)
(* for good; every delivery runs it at most once and only so many           *)
(* deliveries run it; it is completed only after its result is committed,   *)
(* and given up only after that many deliveries came back.                  *)
(***************************************************************************)
EXTENDS Naturals

CONSTANTS Jobs,
          MaxRuns

VARIABLES phase,    \* absent, waiting, held, done or dead, per job
          returns,  \* deliveries that came back, per job
          runs,     \* runs started, per job
          results   \* jobs with a committed result

vars == <<phase, returns, runs, results>>

Init == /\ phase = [j \in Jobs |-> "absent"]
        /\ returns = [j \in Jobs |-> 0]
        /\ runs = [j \in Jobs |-> 0]
        /\ results = {}

Move(j, from, to) == phase[j] = from /\ phase' = [phase EXCEPT ![j] = to]

GiveBack(j) == returns' = [returns EXCEPT ![j] = @ + 1]

Enqueue(j) == Move(j, "absent", "waiting") /\ UNCHANGED <<returns, runs, results>>

Take(j) == Move(j, "waiting", "held") /\ UNCHANGED <<returns, runs, results>>

\* One run per delivery, and none once MaxRuns deliveries came back.
Start(j) == /\ phase[j] = "held"
            /\ runs[j] <= returns[j]
            /\ returns[j] < MaxRuns
            /\ runs' = [runs EXCEPT ![j] = @ + 1]
            /\ UNCHANGED <<phase, returns, results>>

\* Only a run produces a result.
Commit(j) == /\ phase[j] = "held"
             /\ runs[j] > 0
             /\ results' = results \cup {j}
             /\ UNCHANGED <<phase, returns, runs>>

Return(j) == Move(j, "held", "waiting") /\ GiveBack(j) /\ UNCHANGED <<runs, results>>

Complete(j) == /\ j \in results
               /\ Move(j, "held", "done")
               /\ UNCHANGED <<returns, runs, results>>

GiveUp(j) == /\ returns[j] >= MaxRuns
             /\ Move(j, "held", "dead")
             /\ GiveBack(j)
             /\ UNCHANGED <<runs, results>>

Next == \E j \in Jobs : \/ Enqueue(j) \/ Take(j) \/ Start(j) \/ Commit(j)
                        \/ Return(j) \/ Complete(j) \/ GiveUp(j)

Spec == Init /\ [][Next]_vars

\* Every job that waits settles in the end.
Settles == \A j \in Jobs : phase[j] = "waiting" ~> phase[j] \in {"done", "dead"}
=============================================================================
