----------------------------- MODULE SpendGuard ------------------------------
(***************************************************************************)
(* The active-job limit of one user (apps/api/middleware/spend_guard.py).   *)
(* POST /process reserves a slot for the job id it has drawn by an          *)
(* optimistic WATCH / MULTI / EXEC on the user's sorted set in Redis, and   *)
(* commits the job to Postgres after that.  When the set is full it asks    *)
(* Postgres which of the jobs have finished and evicts those.  The requests *)
(* are for different dossiers: those for one wait for its row lock.         *)
(***************************************************************************)
EXTENDS Naturals, FiniteSets, JobIds

CONSTANTS MaxActive,    \* MAX_ACTIVE_JOBS_PER_USER
          MaxRetries,   \* max_retries of reserve_active_job_slot
          GuardFaults   \* what may go wrong, see GuardFaultKinds

GuardFaultKinds ==
  {"redis",     \* a command of Redis raises; whether it was applied is open
   "resolver",  \* the query for finished jobs raises
   "commit",    \* the commit that creates the job raises; whether it was applied is open
   "crash",     \* the API process dies with the slot reserved
   "ttl"}       \* a reservation expires while its job is still active

ASSUME GuardAssumption == /\ MaxActive \in Nat \ {0}
                          /\ MaxRetries \in Nat \ {0}
                          /\ GuardFaults \subseteq GuardFaultKinds

VARIABLES slots,    \* unexpired members of spend_guard:active:{user}
          index,    \* job ids with a spend_guard:job_user:{job} key
          job,      \* jobs.status: "NONE" no row, "ACTIVE" or "FINISHED"
          step,     \* where the request for the job stands
          seen,     \* its active_jobs
          gone,     \* its finished: what it is about to evict
          clean,    \* the set was not touched since its WATCH
          tries,    \* its attempts
          over,     \* history: jobs that were over when the request began
          evicted,  \* history: some request has taken the eviction path
          unheard   \* history: reserved by an EXEC whose reply was lost, not released

redisVars == <<slots, index>>
localVars == <<seen, gone, clean, tries, over>>
historyVars == <<evicted, unheard>>
vars == <<redisVars, job, step, localVars, historyVars>>

\* Answered 429: "refused" by a full set, "blind" when the resolver raised,
\* "exhausted" by conflicts.  "leaked": 503 or 500, the slot not released.
Step == {"none", "watch", "read", "resolve", "evict", "rewatch", "exec", "reserved",
         "release", "created", "refused", "blind", "exhausted", "failed", "leaked",
         "killed", "cancelling", "cancelled"}

Init == /\ slots = {} /\ index = {}
        /\ job = [j \in Jobs |-> "NONE"]
        /\ step = [j \in Jobs |-> "none"]
        /\ seen = [j \in Jobs |-> {}]
        /\ gone = [j \in Jobs |-> {}]
        /\ clean = [j \in Jobs |-> FALSE]
        /\ tries = [j \in Jobs |-> 0]
        /\ over = [j \in Jobs |-> {}]
        /\ evicted = FALSE
        /\ unheard = {}

Full(s) == Cardinality(s) >= MaxActive

Go(j, from, to) == step[j] = from /\ step' = [step EXCEPT ![j] = to]

\* An attempt is over, and with it what it knew; if it was the last, so is the rest.
Forget(j) == /\ seen' = [seen EXCEPT ![j] = {}]
             /\ tries' = [tries EXCEPT ![j] = IF step'[j] = "watch" THEN @ ELSE 0]
             /\ over' = [over EXCEPT ![j] = IF step'[j] = "watch" THEN @ ELSE {}]

\* The pipeline is reset: nothing is watched any more.
Unwatch(j) == clean' = [clean EXCEPT ![j] = FALSE]

\* A change of the set spoils every WATCH on it; a ZREM of nothing is no change.
Touched(w) == clean' = IF slots' = slots THEN w ELSE [k \in Jobs |-> FALSE]

\* How a request ends that has created no job.
EndedWithout == {"refused", "blind", "exhausted", "failed", "leaked", "killed"}

\* Jobs that can no longer become active: finished, or never to be committed.
IsOver(k) == job[k] = "FINISHED" \/ (job[k] = "NONE" /\ step[k] \in EndedWithout)
Over == {k \in Jobs : IsOver(k)}

-----------------------------------------------------------------------------
(* reserve_active_job_slot                                                  *)

Request(j) == /\ Go(j, "none", "watch")
              /\ over' = [over EXCEPT ![j] = Over]
              /\ UNCHANGED <<redisVars, job, seen, gone, clean, tries, historyVars>>

Watch(j) == /\ Go(j, "watch", "read")
            /\ clean' = [clean EXCEPT ![j] = TRUE]
            /\ tries' = [tries EXCEPT ![j] = @ + 1]
            /\ UNCHANGED <<redisVars, job, seen, gone, over, historyVars>>

Read(j) == /\ Go(j, "read", IF Full(slots) THEN "resolve" ELSE "exec")
           /\ seen' = [seen EXCEPT ![j] = slots]
           /\ UNCHANGED <<redisVars, job, gone, clean, tries, over, historyVars>>

\* Mutant of Finished: a job the database has never seen is not over.
FinishedRows(s) == {k \in s : job[k] = "FINISHED"}

\* resolve_finished_job_ids: an id without a row of jobs counts as finished
Finished(s) == {k \in s : job[k] # "ACTIVE"}

Resolve(j) ==
  /\ \/ /\ Finished(seen[j]) # {}
        /\ Go(j, "resolve", "evict")
        /\ gone' = [gone EXCEPT ![j] = Finished(seen[j])]
        /\ evicted' = TRUE
        /\ UNCHANGED <<seen, tries, over>>
     \/ /\ Finished(seen[j]) = {}
        /\ Go(j, "resolve", "refused")
        /\ UNCHANGED <<seen, gone, tries, over, evicted>>
     \/ /\ "resolver" \in GuardFaults
        /\ Go(j, "resolve", "blind") /\ Forget(j)
        /\ UNCHANGED <<gone, evicted>>
  /\ Unwatch(j)
  /\ UNCHANGED <<redisVars, job, unheard>>

\* _evict_finished in a transaction of its own, best effort.  What the request
\* has seen is filtered, not read again.
Evict(j) ==
  /\ Go(j, "evict", "rewatch")
  /\ \/ slots' = slots \ gone[j] /\ index' = index \ gone[j]
     \/ "redis" \in GuardFaults /\ UNCHANGED redisVars
  /\ Touched(clean)
  /\ seen' = [seen EXCEPT ![j] = @ \ gone[j]]
  /\ gone' = [gone EXCEPT ![j] = {}]
  /\ UNCHANGED <<job, tries, over, historyVars>>

\* Watched again only now: what changed since the read goes unnoticed.
Rewatch(j) == /\ \/ Full(seen[j]) /\ Go(j, "rewatch", "refused") /\ Unwatch(j)
                 \/ /\ ~Full(seen[j]) /\ Go(j, "rewatch", "exec")
                    /\ clean' = [clean EXCEPT ![j] = TRUE]
              /\ UNCHANGED <<redisVars, job, seen, gone, tries, over, historyVars>>

\* ZADD, EXPIRE and SET of the transaction.  They spoil every WATCH on the set,
\* whether or not the job is a member of it from an earlier try.
Reserve(j) == /\ slots' = slots \cup {j} /\ index' = index \cup {j}
              /\ clean' = [k \in Jobs |-> FALSE]

\* Where a WatchError leads: the next attempt, if there is one.
Again(j) == IF tries[j] < MaxRetries THEN "watch" ELSE "exhausted"

\* Mutants of Exec: MULTI without WATCH, one retry too many.
ExecUnwatched(j) ==
  /\ Go(j, "exec", "reserved") /\ Reserve(j)
  /\ Forget(j) /\ UNCHANGED <<job, gone, historyVars>>

ExecOnceMore(j) ==
  /\ \/ clean[j] /\ Go(j, "exec", "reserved") /\ Reserve(j)
     \/ /\ ~clean[j] /\ Go(j, "exec", IF tries[j] <= MaxRetries THEN "watch" ELSE "exhausted")
        /\ UNCHANGED redisVars /\ Unwatch(j)
  /\ Forget(j) /\ UNCHANGED <<job, gone, historyVars>>

\* EXEC: the reservation, or a WatchError and another attempt
Exec(j) ==
  /\ \/ clean[j] /\ Go(j, "exec", "reserved") /\ Reserve(j)
     \/ ~clean[j] /\ Go(j, "exec", Again(j)) /\ UNCHANGED redisVars /\ Unwatch(j)
  /\ Forget(j) /\ UNCHANGED <<job, gone, historyVars>>

\* EXEC raises: a lost connection is reported by redis-py as a WatchError, since the
\* pipeline was watching, and any other error is a 503.  Redis has not applied the
\* transaction, or has applied it and the reply was lost: nothing is released.
ExecRaises(j) ==
  /\ "redis" \in GuardFaults
  /\ Go(j, "exec", "failed") \/ Go(j, "exec", Again(j))
  /\ \/ UNCHANGED <<redisVars, unheard>> /\ Unwatch(j)
     \/ clean[j] /\ Reserve(j) /\ unheard' = unheard \cup {j}
  /\ Forget(j) /\ UNCHANGED <<job, gone, evicted>>

\* Any other command of Redis raises: 503, and none of them reserves anything
Unavailable(j) ==
  /\ "redis" \in GuardFaults
  /\ \E from \in {"watch", "read", "rewatch"} : Go(j, from, "failed")
  /\ Forget(j) /\ Unwatch(j) /\ UNCHANGED <<redisVars, job, gone, historyVars>>

-----------------------------------------------------------------------------
(* The rest of the request, the cancellation and the worker                 *)

Commit(j) ==
  /\ \/ Go(j, "reserved", "created") /\ job' = [job EXCEPT ![j] = "ACTIVE"]
     \/ /\ "commit" \in GuardFaults /\ Go(j, "reserved", "release")
        /\ UNCHANGED job \/ job' = [job EXCEPT ![j] = "ACTIVE"]
     \/ "crash" \in GuardFaults /\ Go(j, "reserved", "killed") /\ UNCHANGED job
  /\ UNCHANGED <<redisVars, localVars, historyVars>>

\* Mutant of Release: only the reverse lookup is dropped.
ReleaseIndexOnly(j, from, to) ==
  /\ Go(j, from, to) /\ index' = index \ {j} /\ slots' = slots
  /\ Touched(clean) /\ unheard' = unheard \ {j}
  /\ UNCHANGED <<job, seen, gone, tries, over, evicted>>

\* release_active_job_slot, best effort
Release(j, from, to) ==
  /\ \/ /\ Go(j, from, to) \/ ("redis" \in GuardFaults /\ Go(j, from, "leaked"))
        /\ slots' = slots \ {j} /\ index' = index \ {j} /\ unheard' = unheard \ {j}
     \/ /\ "redis" \in GuardFaults /\ Go(j, from, "leaked")
        /\ UNCHANGED <<redisVars, unheard>>
  /\ Touched(clean)
  /\ UNCHANGED <<job, seen, gone, tries, over, evicted>>

\* cancel_job: the transaction, and after it release_active_job_by_id, which
\* finds the user of the job by the reverse lookup key.  The request for the job
\* has ended, be it with the error of a commit that took effect.
CancelCommit(j) == /\ job[j] = "ACTIVE"
                   /\ \E from \in {"created", "failed", "leaked"} : Go(j, from, "cancelling")
                   /\ job' = [job EXCEPT ![j] = "FINISHED"]
                   /\ UNCHANGED <<redisVars, localVars, historyVars>>

ReleaseById(j) ==
  \/ j \in index /\ Release(j, "cancelling", "cancelled")
  \/ /\ j \notin index /\ Go(j, "cancelling", "cancelled")
     /\ UNCHANGED <<redisVars, job, localVars, historyVars>>

\* The worker's write-back of a result or a terminal failure
Finish(j) == /\ job[j] = "ACTIVE"
             /\ job' = [job EXCEPT ![j] = "FINISHED"]
             /\ UNCHANGED <<redisVars, step, localVars, historyVars>>

\* The score passes; no command is sent, so no WATCH notices.
ExpireSlot(j) == /\ "ttl" \in GuardFaults /\ j \in slots
                 /\ slots' = slots \ {j}
                 /\ UNCHANGED <<index, job, step, localVars, historyVars>>

\* The reverse lookup key lives a minute longer than the reservation.
ExpireIndex(j) == /\ j \in index \ slots
                  /\ index' = index \ {j}
                  /\ UNCHANGED <<slots, job, step, localVars, historyVars>>

Next == \E j \in Jobs :
          \/ Request(j) \/ Watch(j) \/ Read(j) \/ Resolve(j) \/ Evict(j) \/ Rewatch(j)
          \/ Exec(j) \/ ExecRaises(j) \/ Unavailable(j) \/ Commit(j) \/ Release(j, "release", "failed")
          \/ CancelCommit(j) \/ ReleaseById(j) \/ Finish(j)
          \/ ExpireSlot(j) \/ ExpireIndex(j)

Spec == Init /\ [][Next]_vars

-----------------------------------------------------------------------------
\* Every variable has its type, and no request retries more than it may.
GuardTypeOK ==
  /\ slots \subseteq Jobs /\ index \subseteq Jobs
  /\ job \in [Jobs -> {"NONE", "ACTIVE", "FINISHED"}]
  /\ step \in [Jobs -> Step]
  /\ seen \in [Jobs -> SUBSET Jobs] /\ gone \in [Jobs -> SUBSET Jobs]
  /\ clean \in [Jobs -> BOOLEAN]
  /\ tries \in [Jobs -> 0 .. MaxRetries]
  /\ over \in [Jobs -> SUBSET Jobs]
  /\ evicted \in BOOLEAN /\ unheard \subseteq Jobs

\* WATCH / MULTI / EXEC makes the check and the reservation one: as long as no
\* request has evicted anything the set never exceeds the limit, and while no
\* reservation expires every active job whose request was answered with it holds one.
LimitUntilEviction ==
  evicted \/ /\ Cardinality(slots) <= MaxActive
             /\ \/ "ttl" \in GuardFaults
                \/ \A j \in Jobs : job[j] = "ACTIVE" /\ step[j] = "created" => j \in slots

\* Nobody is locked out by the dead: what was over before the request began, a
\* finished job or a reservation that an ended request has left behind without
\* one, is never among the jobs it is refused for.
RefusedForTheLiving ==
  \A j \in Jobs : step[j] = "refused" => Full(seen[j]) /\ seen[j] \cap over[j] = {}

\* A request that ends without a job, or whose job is cancelled, leaves a reservation
\* behind only where Redis failed it: at the release ("leaked" is not in the list),
\* or at an EXEC that was applied and whose reply was lost.  No other conflict,
\* eviction, retry or failed commit leaves one.
NothingLeftBehind ==
  \A j \in Jobs :
    step[j] \in {"refused", "blind", "exhausted", "failed", "cancelled"} =>
      j \notin slots \/ j \in unheard
=============================================================================
