--------------------------- MODULE SpendGuardProofs ---------------------------
(***************************************************************************)
(* The spend guard for every set of jobs, limit, number of tries and faults: *)
(* what the optimistic transaction keeps of the limit, that nobody is        *)
(* refused for jobs that were over, and that no reservation is left behind.  *)
(***************************************************************************)
EXTENDS SpendGuard, FiniteSetTheorems, TLAPS

\* A request watches again only with an attempt left.
TriesLeft == \A j \in Jobs : /\ step[j] = "none" => tries[j] = 0
                             /\ step[j] = "watch" => tries[j] < MaxRetries

\* Where the request and the job of a reservation may stand, and that the reverse
\* lookup, by which cancel_job finds it, is there as long as it is.
SlotHasHolder ==
  /\ slots \subseteq index
  /\ \A j \in slots : \/ step[j] \in {"reserved", "created", "release", "cancelling",
                                       "leaked", "killed"}
                       \/ j \in unheard

\* The job of a request before its commit, and after its cancellation.
RowFollowsStep ==
  \A j \in Jobs :
    /\ job[j] # "NONE" => step[j] \in {"created", "release", "failed", "leaked",
                                       "cancelling", "cancelled"}
    /\ job[j] = "ACTIVE" => step[j] \in {"created", "release", "failed", "leaked"}
    /\ step[j] = "cancelling" => job[j] = "FINISHED"

\* What was over stays over.
OverStays ==
  \A j \in Jobs : \A k \in over[j] : IsOver(k)

\* What a request holds against itself on its way to being refused.
RefusalInv ==
  \A j \in Jobs :
    /\ step[j] = "resolve" => Full(seen[j])
    /\ step[j] = "evict" => seen[j] \cap over[j] \subseteq gone[j]
    /\ step[j] = "rewatch" => seen[j] \cap over[j] = {}

\* A request that has its reservation still to use, or has been answered with its job.
Holds(j) == step[j] = "reserved" \/ (job[j] = "ACTIVE" /\ step[j] = "created")

\* The count of a request stands as long as its WATCH, and a reservation as long
\* as the job it was made for, until somebody evicts.
CountStands ==
  \/ evicted
  \/ /\ \A j \in Jobs : /\ step[j] \notin {"evict", "rewatch"}
                        /\ step[j] = "exec" /\ clean[j] => Cardinality(slots) < MaxActive
     /\ "ttl" \in GuardFaults
          \/ \A j \in Jobs : Holds(j) => j \in slots

GuardInv == /\ GuardTypeOK /\ IsFiniteSet(slots) /\ TriesLeft
            /\ SlotHasHolder /\ RowFollowsStep /\ OverStays
            /\ RefusalInv /\ RefusedForTheLiving
            /\ CountStands /\ LimitUntilEviction

-----------------------------------------------------------------------------
\* The invariant holds of an empty set.
LEMMA GuardInit == Init => GuardInv
<1> SUFFICES ASSUME Init PROVE GuardInv
  OBVIOUS
<1> USE GuardAssumption DEF Init
<1>0. 0 \in 0 .. MaxRetries /\ 0 < MaxRetries
  OBVIOUS
<1>1. GuardTypeOK /\ TriesLeft
  <2>1. tries \in [Jobs -> 0 .. MaxRetries] /\ TriesLeft
    BY <1>0 DEF TriesLeft
  <2>2. step \in [Jobs -> Step]
    BY DEF Step
  <2> QED
    BY <2>1, <2>2 DEF GuardTypeOK
<1>2. IsFiniteSet(slots) /\ Cardinality(slots) = 0
  BY FS_EmptySet
<1>3. SlotHasHolder /\ RowFollowsStep /\ OverStays /\ RefusalInv /\ RefusedForTheLiving
  BY DEF SlotHasHolder, RowFollowsStep, OverStays, RefusalInv, RefusedForTheLiving
<1>4. CountStands /\ LimitUntilEviction
  BY <1>2 DEF CountStands, LimitUntilEviction, Holds
<1> QED
  BY <1>1, <1>2, <1>3, <1>4 DEF GuardInv

\* The variables that an attempt takes with it.
OfAttempt == /\ seen \in [Jobs -> SUBSET Jobs] /\ over \in [Jobs -> SUBSET Jobs]
             /\ tries \in [Jobs -> 0 .. MaxRetries] /\ TriesLeft

\* Forgetting an attempt leaves them in their types, and the count of the next one right.
LEMMA AttemptTypes ==
  ASSUME OfAttempt, NEW j \in Jobs, Forget(j), step' \in [Jobs -> Step],
         \A i \in Jobs : i # j => step'[i] = step[i],
         step'[j] # "none" /\ (step'[j] = "watch" => tries[j] < MaxRetries)
  PROVE  OfAttempt'
<1> USE GuardAssumption DEF OfAttempt, Forget
<1>1. seen' \in [Jobs -> SUBSET Jobs] /\ over' \in [Jobs -> SUBSET Jobs]
  OBVIOUS
<1>2. tries' \in [Jobs -> 0 .. MaxRetries]
  OBVIOUS
<1>3. TriesLeft'
  BY DEF TriesLeft
<1> QED
  BY <1>1, <1>2, <1>3

\* An EXEC that raises was applied, or it was not.
LEMMA RaisedEither ==
  ASSUME NEW j \in Jobs, ExecRaises(j)
  PROVE  \/ slots' = slots /\ index' = index /\ unheard' = unheard
         \/ /\ slots' = slots \cup {j} /\ index' = index \cup {j}
            /\ unheard' = unheard \cup {j} /\ clean' = [k \in Jobs |-> FALSE]
<1>1. (UNCHANGED <<redisVars, unheard>>) \/ (Reserve(j) /\ unheard' = unheard \cup {j})
  BY DEF ExecRaises
<1> QED
  BY <1>1 DEF Reserve, redisVars

\* However an attempt ends, its WATCH is gone.
LEMMA AttemptUnwatched ==
  ASSUME NEW j \in Jobs, Exec(j) \/ ExecRaises(j) \/ Unavailable(j)
  PROVE  Unwatch(j) \/ clean' = [k \in Jobs |-> FALSE]
  BY DEF Exec, ExecRaises, Unavailable, Reserve

\* Types and attempts.
LEMMA TypesKept ==
  ASSUME GuardTypeOK, TriesLeft, [Next]_vars PROVE GuardTypeOK' /\ TriesLeft'
<1> USE GuardAssumption DEF GuardTypeOK, TriesLeft, Step, Go, Touched, Unwatch, Forget, Again, Reserve,
                            redisVars, localVars, historyVars
<1>1. CASE UNCHANGED vars
  BY <1>1 DEF vars
<1>2. ASSUME NEW j \in Jobs, Request(j) PROVE GuardTypeOK' /\ TriesLeft'
  BY <1>2 DEF Request, Over
<1>3. ASSUME NEW j \in Jobs, Watch(j) PROVE GuardTypeOK' /\ TriesLeft'
  BY <1>3 DEF Watch
<1>4. ASSUME NEW j \in Jobs, Read(j) PROVE GuardTypeOK' /\ TriesLeft'
  BY <1>4 DEF Read
<1>5. ASSUME NEW j \in Jobs, Resolve(j) PROVE GuardTypeOK' /\ TriesLeft'
  <2>1. /\ gone' \in [Jobs -> SUBSET Jobs] /\ clean' \in [Jobs -> BOOLEAN]
        /\ slots' = slots /\ index' = index /\ job' = job /\ unheard' = unheard
        /\ evicted' = TRUE \/ evicted' = evicted
    <3>1. Finished(seen[j]) \in SUBSET Jobs
      BY DEF Finished
    <3> QED
      BY <1>5, <3>1 DEF Resolve
  <2>2. PICK to \in {"evict", "refused", "blind"} : Go(j, "resolve", to)
    BY <1>5 DEF Resolve
  <2>3. step' \in [Jobs -> Step] /\ \A i \in Jobs : i # j => step'[i] = step[i]
    BY <2>2
  <2>4. Forget(j) \/ UNCHANGED <<seen, tries, over>>
    BY <1>5 DEF Resolve
  <2>5. OfAttempt'
    BY <2>2, <2>3, <2>4, AttemptTypes DEF OfAttempt
  <2>6. evicted' \in BOOLEAN
    BY <2>1, Zenon
  <2> QED
    BY <2>1, <2>3, <2>5, <2>6 DEF OfAttempt
<1>6. ASSUME NEW j \in Jobs, Evict(j) PROVE GuardTypeOK' /\ TriesLeft'
  BY <1>6 DEF Evict
<1>7. ASSUME NEW j \in Jobs, Rewatch(j) PROVE GuardTypeOK' /\ TriesLeft'
  <2>1. PICK to \in {"refused", "exec"} : Go(j, "rewatch", to)
    BY <1>7 DEF Rewatch
  <2>2. clean' \in [Jobs -> BOOLEAN]
    BY <1>7 DEF Rewatch
  <2>3. UNCHANGED <<slots, index, job, seen, gone, tries, over, evicted, unheard>>
    BY <1>7 DEF Rewatch
  <2> QED
    BY <2>1, <2>2, <2>3
<1>8. ASSUME NEW j \in Jobs, Exec(j) \/ ExecRaises(j) \/ Unavailable(j)
      PROVE  GuardTypeOK' /\ TriesLeft'
  <2>1. /\ step[j] \in {"watch", "read", "rewatch", "exec"}
        /\ \/ step' = [step EXCEPT ![j] = "reserved"]
           \/ step' = [step EXCEPT ![j] = "failed"]
           \/ step' = [step EXCEPT ![j] = IF tries[j] < MaxRetries THEN "watch" ELSE "exhausted"]
    BY <1>8 DEF Exec, ExecRaises, Unavailable
  <2>2. /\ step' \in [Jobs -> Step]
        /\ \A i \in Jobs : i # j => step'[i] = step[i]
        /\ step'[j] # "none" /\ (step'[j] = "watch" => tries[j] < MaxRetries)
    BY <2>1
  <2>3. Forget(j) /\ UNCHANGED <<job, gone, evicted>>
    BY <1>8 DEF Exec, ExecRaises, Unavailable
  <2>4. /\ UNCHANGED redisVars \/ Reserve(j)
        /\ unheard' = unheard \/ unheard' = unheard \cup {j}
    <3>1. CASE Exec(j)
      BY <3>1 DEF Exec
    <3>2. CASE ExecRaises(j)
      BY <3>2, RaisedEither
    <3>3. CASE Unavailable(j)
      BY <3>3 DEF Unavailable
    <3> QED
      BY <1>8, <3>1, <3>2, <3>3
  <2>5. clean' \in [Jobs -> BOOLEAN]
    <3>1. clean' = [clean EXCEPT ![j] = FALSE] \/ clean' = [k \in Jobs |-> FALSE]
      BY <1>8, AttemptUnwatched DEF Unwatch
    <3> QED
      BY <3>1
  <2>6. OfAttempt'
    BY <2>2, <2>3, AttemptTypes DEF OfAttempt
  <2>7. slots' \subseteq Jobs /\ index' \subseteq Jobs /\ unheard' \subseteq Jobs
    BY <2>4
  <2> QED
    BY <2>2, <2>3, <2>5, <2>6, <2>7 DEF OfAttempt
<1>10. ASSUME NEW j \in Jobs, Commit(j) PROVE GuardTypeOK' /\ TriesLeft'
  BY <1>10 DEF Commit
<1>11. ASSUME NEW j \in Jobs, Release(j, "release", "failed") PROVE GuardTypeOK' /\ TriesLeft'
  BY <1>11 DEF Release
<1>12. ASSUME NEW j \in Jobs, CancelCommit(j) \/ ReleaseById(j) PROVE GuardTypeOK' /\ TriesLeft'
  <2>1. CASE CancelCommit(j)
    BY <2>1 DEF CancelCommit
  <2>2. CASE Release(j, "cancelling", "cancelled")
    BY <2>2 DEF Release
  <2>3. CASE Go(j, "cancelling", "cancelled") /\ UNCHANGED <<redisVars, job, localVars, historyVars>>
    BY <2>3
  <2> QED
    BY <1>12, <2>1, <2>2, <2>3 DEF ReleaseById
<1>13. ASSUME NEW j \in Jobs, Finish(j) \/ ExpireSlot(j) \/ ExpireIndex(j)
       PROVE  GuardTypeOK' /\ TriesLeft'
  BY <1>13 DEF Finish, ExpireSlot, ExpireIndex
<1> QED
  BY <1>1, <1>2, <1>3, <1>4, <1>5, <1>6, <1>7, <1>8, <1>10, <1>11, <1>12, <1>13 DEF Next

-----------------------------------------------------------------------------
\* Whom a step may let in: only the request that executes, if its WATCH stands.
LEMMA OnlyExecAdds ==
  ASSUME [Next]_vars
  PROVE  \/ slots' \subseteq slots
         \/ \E j \in Jobs : clean[j] /\ step[j] = "exec" /\ slots' = slots \cup {j}
<1> USE DEF redisVars, localVars, historyVars
<1>1. CASE UNCHANGED vars
  BY <1>1 DEF vars
<1>2. ASSUME NEW j \in Jobs,
             \/ Request(j) \/ Watch(j) \/ Read(j) \/ Resolve(j) \/ Evict(j) \/ Rewatch(j)
             \/ Unavailable(j) \/ Commit(j) \/ Release(j, "release", "failed")
             \/ CancelCommit(j) \/ ReleaseById(j) \/ Finish(j) \/ ExpireSlot(j) \/ ExpireIndex(j)
      PROVE  slots' \subseteq slots
  BY <1>2 DEF Request, Watch, Read, Resolve, Evict, Rewatch, Unavailable, Commit, Release,
              CancelCommit, ReleaseById, Finish, ExpireSlot, ExpireIndex
<1>3. ASSUME NEW j \in Jobs, Exec(j) \/ ExecRaises(j)
      PROVE  slots' \subseteq slots \/ (clean[j] /\ step[j] = "exec" /\ slots' = slots \cup {j})
  <2>1. CASE clean[j] /\ Reserve(j)
    BY <1>3, <2>1 DEF Exec, ExecRaises, Go, Reserve
  <2>2. CASE UNCHANGED slots
    BY <2>2
  <2> QED
    BY <1>3, <2>1, <2>2 DEF Exec, ExecRaises
<1> QED
  BY <1>1, <1>2, <1>3 DEF Next

\* The set stays finite.
LEMMA SlotsFinite == ASSUME IsFiniteSet(slots), [Next]_vars PROVE IsFiniteSet(slots')
  BY OnlyExecAdds, FS_Subset, FS_AddElement

-----------------------------------------------------------------------------
\* The holder of a reservation, and the row of its job.
HolderInv == SlotHasHolder /\ RowFollowsStep

\* A reservation comes with its holder and goes before he is over.
LEMMA HolderKept ==
  ASSUME GuardTypeOK, HolderInv, [Next]_vars PROVE HolderInv'
<1> USE DEF HolderInv, SlotHasHolder, RowFollowsStep, GuardTypeOK, Go, redisVars, localVars, historyVars, Reserve, Forget, Unwatch
<1>1. CASE UNCHANGED vars
  BY <1>1 DEF vars
<1>2. ASSUME NEW j \in Jobs, Request(j) \/ Watch(j) PROVE HolderInv'
  BY <1>2 DEF Request, Watch
<1>3. ASSUME NEW j \in Jobs, Read(j) \/ Rewatch(j) PROVE HolderInv'
  BY <1>3 DEF Read, Rewatch
<1>4. ASSUME NEW j \in Jobs, Resolve(j) PROVE HolderInv'
  BY <1>4 DEF Resolve
<1>5. ASSUME NEW j \in Jobs, Evict(j) PROVE HolderInv'
  BY <1>5 DEF Evict
<1>6. ASSUME NEW j \in Jobs, Exec(j) PROVE HolderInv'
  <2>1. step[j] = "exec" /\ UNCHANGED <<job, unheard>>
    BY <1>6 DEF Exec
  <2>2. CASE Reserve(j) /\ step' = [step EXCEPT ![j] = "reserved"]
    BY <2>1, <2>2
  <2>3. CASE UNCHANGED redisVars /\ step' = [step EXCEPT ![j] = Again(j)]
    BY <2>1, <2>3 DEF Again
  <2> QED
    BY <1>6, <2>2, <2>3 DEF Exec
<1>7. ASSUME NEW j \in Jobs, ExecRaises(j) \/ Unavailable(j) PROVE HolderInv'
  <2>1. /\ step[j] \in {"watch", "read", "rewatch", "exec"} /\ UNCHANGED job
        /\ \E to \in {"failed", "watch", "exhausted"} : step' = [step EXCEPT ![j] = to]
    BY <1>7 DEF ExecRaises, Unavailable, Again
  <2>2. RowFollowsStep'
    BY <2>1
  <2>3. CASE Reserve(j) /\ unheard' = unheard \cup {j}
    BY <2>1, <2>2, <2>3
  <2>4. CASE UNCHANGED <<redisVars, unheard>>
    BY <2>1, <2>2, <2>4
  <2> QED
    BY <1>7, <2>3, <2>4 DEF ExecRaises, Unavailable
<1>8. ASSUME NEW j \in Jobs, Commit(j) PROVE HolderInv'
  <2>1. UNCHANGED <<redisVars, unheard>> /\ step[j] = "reserved"
    BY <1>8 DEF Commit
  <2>2. CASE step' = [step EXCEPT ![j] = "created"] /\ job' = [job EXCEPT ![j] = "ACTIVE"]
    BY <2>1, <2>2
  <2>3. CASE /\ step' = [step EXCEPT ![j] = "release"]
             /\ job' = job \/ job' = [job EXCEPT ![j] = "ACTIVE"]
    BY <2>1, <2>3
  <2>4. CASE step' = [step EXCEPT ![j] = "killed"] /\ job' = job
    BY <2>1, <2>4
  <2> QED
    BY <1>8, <2>2, <2>3, <2>4 DEF Commit
<1>9. ASSUME NEW j \in Jobs, Release(j, "release", "failed") PROVE HolderInv'
  BY <1>9 DEF Release
<1>10. ASSUME NEW j \in Jobs, CancelCommit(j) PROVE HolderInv'
  BY <1>10 DEF CancelCommit
<1>11. ASSUME NEW j \in Jobs, ReleaseById(j) PROVE HolderInv'
  <2>1. CASE Release(j, "cancelling", "cancelled")
    BY <2>1 DEF Release
  <2>2. CASE /\ j \notin index /\ Go(j, "cancelling", "cancelled")
             /\ UNCHANGED <<redisVars, job, localVars, historyVars>>
    BY <2>2
  <2> QED
    BY <1>11, <2>1, <2>2 DEF ReleaseById
<1>12. ASSUME NEW j \in Jobs, Finish(j) \/ ExpireSlot(j) \/ ExpireIndex(j) PROVE HolderInv'
  BY <1>12 DEF Finish, ExpireSlot, ExpireIndex
<1> QED
  BY <1>1, <1>2, <1>3, <1>4, <1>5, <1>6, <1>7, <1>8, <1>9, <1>10, <1>11, <1>12 DEF Next

\* What a step may do to a job that is over.
LEMMA OverForGood ==
  ASSUME GuardTypeOK, RowFollowsStep, [Next]_vars, NEW k \in Jobs,
         job[k] = "FINISHED" \/ (job[k] = "NONE" /\ step[k] \in EndedWithout)
  PROVE  job'[k] = "FINISHED" \/ (job'[k] = "NONE" /\ step'[k] \in EndedWithout)
<1> DEFINE Apart(j) == /\ job' = job /\ (k = j => step[k] \notin EndedWithout)
                       /\ (k # j => step'[k] = step[k])
<1> USE DEF GuardTypeOK, Go, redisVars, localVars, EndedWithout
<1>1. CASE UNCHANGED vars
  BY <1>1 DEF vars
<1>2. ASSUME NEW j \in Jobs, Request(j) \/ Watch(j) \/ Read(j) \/ Rewatch(j) \/ Evict(j)
      PROVE  Apart(j)
  BY <1>2 DEF Request, Watch, Read, Rewatch, Evict
<1>3. ASSUME NEW j \in Jobs, Resolve(j) \/ Exec(j) \/ ExecRaises(j) \/ Unavailable(j)
      PROVE  Apart(j)
  BY <1>3 DEF Resolve, Exec, ExecRaises, Unavailable
<1>4. ASSUME NEW j \in Jobs, Release(j, "release", "failed") \/ ReleaseById(j)
      PROVE  Apart(j)
  BY <1>4 DEF Release, ReleaseById
<1>5. ASSUME NEW j \in Jobs, Commit(j)
      PROVE  job'[k] = "FINISHED" \/ (job'[k] = "NONE" /\ step'[k] \in EndedWithout)
  BY <1>5 DEF Commit, RowFollowsStep
<1>6. ASSUME NEW j \in Jobs, CancelCommit(j) \/ Finish(j) \/ ExpireSlot(j) \/ ExpireIndex(j)
      PROVE  /\ job'[k] = job[k] \/ (k = j /\ job[k] = "ACTIVE")
             /\ step'[k] = step[k] \/ (k = j /\ job[k] = "ACTIVE")
  BY <1>6 DEF CancelCommit, Finish, ExpireSlot, ExpireIndex
<1> QED
  BY <1>1, <1>2, <1>3, <1>4, <1>5, <1>6 DEF Next

\* What was over when a request began is over.
LEMMA OverKept ==
  ASSUME GuardTypeOK, RowFollowsStep, OverStays, [Next]_vars PROVE OverStays'
<1> SUFFICES ASSUME NEW j \in Jobs, NEW k \in over'[j]
             PROVE  job'[k] = "FINISHED" \/ (job'[k] = "NONE" /\ step'[k] \in EndedWithout)
  BY DEF OverStays, IsOver
<1>1. over' = over \/ \E i \in Jobs : \E o \in {Over, over[i], {}} : over' = [over EXCEPT ![i] = o]
  BY DEF Next, vars, Request, Watch, Read, Resolve, Evict, Rewatch, Exec, ExecRaises, Unavailable, Commit, Release,
         CancelCommit, ReleaseById, Finish, ExpireSlot, ExpireIndex, Forget, redisVars, localVars, historyVars
<1>2. k \in over[j] \/ k \in Over
  BY <1>1 DEF GuardTypeOK
<1>3. k \in Jobs /\ (job[k] = "FINISHED" \/ (job[k] = "NONE" /\ step[k] \in EndedWithout))
  BY <1>2 DEF OverStays, Over, IsOver, GuardTypeOK
<1> QED
  BY <1>3, OverForGood DEF IsOver

\* A refusal is for the living, on either way to it.
LEMMA RefusalKept ==
  ASSUME GuardTypeOK, OverStays, RefusalInv, RefusedForTheLiving, [Next]_vars
  PROVE  RefusalInv' /\ RefusedForTheLiving'
<1> DEFINE P(j) == /\ step[j] = "resolve" => Full(seen[j])
                   /\ step[j] = "evict" => seen[j] \cap over[j] \subseteq gone[j]
                   /\ step[j] = "rewatch" => seen[j] \cap over[j] = {}
                   /\ step[j] = "refused" => Full(seen[j]) /\ seen[j] \cap over[j] = {}
<1>1. \A j \in Jobs : P(j)
  BY DEF RefusalInv, RefusedForTheLiving
<1>2. SUFFICES \A j \in Jobs : P(j)'
  BY DEF RefusalInv, RefusedForTheLiving
<1> USE DEF GuardTypeOK, Go, redisVars, localVars, historyVars, Reserve, Forget, Unwatch
<1>3. CASE UNCHANGED vars
  BY <1>1, <1>3 DEF vars, Full
<1>4. ASSUME NEW j \in Jobs, Request(j) \/ Watch(j) PROVE \A i \in Jobs : P(i)'
  BY <1>1, <1>4 DEF Request, Watch, Full
<1>5. ASSUME NEW j \in Jobs, Read(j) PROVE \A i \in Jobs : P(i)'
  BY <1>1, <1>5 DEF Read, Full
<1>6. ASSUME NEW j \in Jobs, Resolve(j) PROVE \A i \in Jobs : P(i)'
  <2>1. seen[j] \cap over[j] \subseteq Finished(seen[j])
    BY DEF Finished, OverStays, IsOver
  <2> QED
    BY <1>1, <1>6, <2>1 DEF Resolve, Full
<1>7. ASSUME NEW j \in Jobs, Evict(j) PROVE \A i \in Jobs : P(i)'
  BY <1>1, <1>7 DEF Evict, Full
<1>8. ASSUME NEW j \in Jobs, Rewatch(j) PROVE \A i \in Jobs : P(i)'
  BY <1>1, <1>8 DEF Rewatch, Full
<1>9. ASSUME NEW j \in Jobs, Exec(j) \/ ExecRaises(j) \/ Unavailable(j)
      PROVE  \A i \in Jobs : P(i)'
  BY <1>1, <1>9 DEF Exec, ExecRaises, Again, Unavailable, Full
<1>10. ASSUME NEW j \in Jobs, Commit(j) \/ CancelCommit(j) PROVE \A i \in Jobs : P(i)'
  BY <1>1, <1>10 DEF Commit, CancelCommit, Full
<1>11. ASSUME NEW j \in Jobs, Release(j, "release", "failed") \/ ReleaseById(j)
       PROVE  \A i \in Jobs : P(i)'
  BY <1>1, <1>11 DEF Release, ReleaseById, Full
<1>12. ASSUME NEW j \in Jobs, Finish(j) \/ ExpireSlot(j) \/ ExpireIndex(j)
       PROVE  \A i \in Jobs : P(i)'
  BY <1>1, <1>12 DEF Finish, ExpireSlot, ExpireIndex, Full
<1> QED
  BY <1>3, <1>4, <1>5, <1>6, <1>7, <1>8, <1>9, <1>10, <1>11, <1>12 DEF Next

-----------------------------------------------------------------------------
\* The parts of CountStands while nobody has evicted anything.
Counts == \A j \in Jobs : /\ step[j] \notin {"evict", "rewatch"}
                          /\ step[j] = "exec" /\ clean[j] => Cardinality(slots) < MaxActive

Held == \/ "ttl" \in GuardFaults
        \/ \A j \in Jobs : Holds(j) => j \in slots

\* The reservation a job was made for stays.
LEMMA HeldKept ==
  ASSUME GuardTypeOK, HolderInv, Counts, Held, [Next]_vars PROVE Held'
<1> SUFFICES ASSUME "ttl" \notin GuardFaults,
                    \A j \in Jobs : Holds(j) => j \in slots
             PROVE  \A j \in Jobs : Holds(j)' => j \in slots'
  BY DEF Held
<1> USE DEF Holds, GuardTypeOK, HolderInv, RowFollowsStep, Go, redisVars, localVars, historyVars, Reserve, Forget, Unwatch
<1> DEFINE Goal == \A j \in Jobs : Holds(j)' => j \in slots'
<1>1. CASE UNCHANGED vars
  BY <1>1 DEF vars
<1>2. ASSUME NEW j \in Jobs, Request(j) \/ Watch(j) \/ Read(j) \/ Unavailable(j) PROVE Goal
  BY <1>2 DEF Request, Watch, Read, Unavailable
<1>3. ASSUME NEW j \in Jobs, Resolve(j) PROVE Goal
  BY <1>3 DEF Resolve
<1>4. ASSUME NEW j \in Jobs, Evict(j) \/ Rewatch(j) PROVE FALSE
  BY <1>4 DEF Evict, Rewatch, Counts
<1>5. ASSUME NEW j \in Jobs, Exec(j) \/ ExecRaises(j) PROVE Goal
  BY <1>5 DEF Exec, ExecRaises, Again
<1>6. ASSUME NEW j \in Jobs, Commit(j) \/ CancelCommit(j) PROVE Goal
  BY <1>6 DEF Commit, CancelCommit
<1>7. ASSUME NEW j \in Jobs, Release(j, "release", "failed") \/ ReleaseById(j) PROVE Goal
  BY <1>7 DEF Release, ReleaseById
<1>8. ASSUME NEW j \in Jobs, Finish(j) \/ ExpireSlot(j) \/ ExpireIndex(j) PROVE Goal
  BY <1>8 DEF Finish, ExpireSlot, ExpireIndex
<1> QED
  BY <1>1, <1>2, <1>3, <1>4, <1>5, <1>6, <1>7, <1>8 DEF Next

\* One member more counts at most one more.
LEMMA AddOne ==
  ASSUME NEW S, IsFiniteSet(S), NEW x
  PROVE  Cardinality(S \cup {x}) \in Nat /\ Cardinality(S \cup {x}) <= Cardinality(S) + 1
<1>1. Cardinality(S) \in Nat /\ Cardinality(S \cup {x}) \in Nat
  BY FS_AddElement, FS_CardinalityType
<1>2. Cardinality(S \cup {x}) = IF x \in S THEN Cardinality(S) ELSE Cardinality(S) + 1
  BY FS_AddElement
<1> QED
  BY <1>1, <1>2

\* A count that a request may still rely on stays below the limit.
LEMMA CountsKept ==
  ASSUME GuardTypeOK, IsFiniteSet(slots), HolderInv, Counts, Cardinality(slots) <= MaxActive,
         ~evicted', [Next]_vars
  PROVE  Counts' /\ Cardinality(slots') <= MaxActive
<1> USE GuardAssumption DEF GuardTypeOK
<1>1. Cardinality(slots) \in Nat
  BY FS_CardinalityType
<1>2. ASSUME slots' \subseteq slots
      PROVE  Cardinality(slots') \in Nat /\ Cardinality(slots') <= Cardinality(slots)
  BY <1>2, FS_Subset, FS_CardinalityType
<1>3. ASSUME slots' \subseteq slots,
             \A i \in Jobs : /\ step'[i] \notin {"evict", "rewatch"}
                             /\ step'[i] = "exec" /\ clean'[i] =>
                                  (step[i] = "exec" /\ clean[i]) \/ Cardinality(slots) < MaxActive
      PROVE  Counts' /\ Cardinality(slots') <= MaxActive
  BY <1>1, <1>2, <1>3 DEF Counts
<1> USE DEF Counts, Go, Touched, redisVars, localVars, historyVars, Reserve, Forget, Unwatch
<1>4. CASE UNCHANGED vars
  BY <1>3, <1>4 DEF vars
<1>5. ASSUME NEW j \in Jobs, Request(j) \/ Watch(j) PROVE Counts' /\ Cardinality(slots') <= MaxActive
  BY <1>3, <1>5 DEF Request, Watch
<1>6. ASSUME NEW j \in Jobs, Read(j) PROVE Counts' /\ Cardinality(slots') <= MaxActive
  BY <1>1, <1>3, <1>6 DEF Read, Full
<1>7. ASSUME NEW j \in Jobs, Resolve(j) PROVE Counts' /\ Cardinality(slots') <= MaxActive
  BY <1>3, <1>7 DEF Resolve
<1>8. ASSUME NEW j \in Jobs, Evict(j) \/ Rewatch(j) PROVE FALSE
  BY <1>8 DEF Evict, Rewatch
<1>9. ASSUME NEW j \in Jobs, Exec(j) \/ ExecRaises(j)
      PROVE  Counts' /\ Cardinality(slots') <= MaxActive
  <2>1. step[j] = "exec" /\ \E to \in {"reserved", "failed", "watch", "exhausted"} :
                              step' = [step EXCEPT ![j] = to]
    BY <1>9 DEF Exec, ExecRaises, Again
  <2>2. CASE slots' = slots /\ Unwatch(j)
    BY <1>3, <2>1, <2>2
  <2>3. CASE clean[j] /\ Reserve(j)
    <3>1. Cardinality(slots) < MaxActive
      BY <2>1, <2>3
    <3>2. /\ Cardinality(slots \cup {j}) \in Nat
          /\ Cardinality(slots \cup {j}) <= Cardinality(slots) + 1
      BY AddOne
    <3>4. slots' = slots \cup {j} /\ clean' = [k \in Jobs |-> FALSE]
      BY <2>3
    <3>5. Cardinality(slots') <= MaxActive
      BY <1>1, <3>1, <3>2, <3>4
    <3>6. Counts'
      BY <2>1, <3>4
    <3> QED
      BY <3>5, <3>6
  <2> QED
    BY <1>9, <2>2, <2>3 DEF Exec, ExecRaises
<1>10. ASSUME NEW j \in Jobs, Unavailable(j) \/ Commit(j) \/ CancelCommit(j)
       PROVE  Counts' /\ Cardinality(slots') <= MaxActive
  BY <1>3, <1>10 DEF Unavailable, Commit, CancelCommit
<1>11. ASSUME NEW j \in Jobs, Release(j, "release", "failed") \/ ReleaseById(j)
       PROVE  Counts' /\ Cardinality(slots') <= MaxActive
  BY <1>3, <1>11 DEF Release, ReleaseById
<1>12. ASSUME NEW j \in Jobs, Finish(j) \/ ExpireSlot(j) \/ ExpireIndex(j)
       PROVE  Counts' /\ Cardinality(slots') <= MaxActive
  BY <1>3, <1>12 DEF Finish, ExpireSlot, ExpireIndex
<1> QED
  BY <1>4, <1>5, <1>6, <1>7, <1>8, <1>9, <1>10, <1>11, <1>12 DEF Next

\* Whoever has evicted something has done so for good.
LEMMA EvictedForGood == ASSUME evicted, [Next]_vars PROVE evicted'
  BY DEF Next, vars, Request, Watch, Read, Resolve, Evict, Rewatch, Exec, ExecRaises, Unavailable, Commit,
         Release, CancelCommit, ReleaseById, Finish, ExpireSlot, ExpireIndex, Forget, redisVars, localVars, historyVars

\* The limit, from the counts and what holds them.
LEMMA LimitKept ==
  ASSUME GuardTypeOK, IsFiniteSet(slots), HolderInv, CountStands, LimitUntilEviction, [Next]_vars
  PROVE  CountStands' /\ LimitUntilEviction'
<1> SUFFICES ASSUME ~evicted' PROVE CountStands' /\ LimitUntilEviction'
  BY DEF CountStands, LimitUntilEviction
<1>1. ~evicted
  BY EvictedForGood
<1>2. Counts /\ Held /\ Cardinality(slots) <= MaxActive
  BY <1>1 DEF CountStands, LimitUntilEviction, Counts, Held
<1>3. Counts' /\ Held' /\ Cardinality(slots') <= MaxActive
  BY <1>2, CountsKept, HeldKept
<1> QED
  BY <1>3 DEF CountStands, LimitUntilEviction, Counts, Held, Holds

-----------------------------------------------------------------------------
\* Every step keeps the invariant.
LEMMA GuardStep == ASSUME GuardInv, [Next]_vars PROVE GuardInv'
<1> USE DEF GuardInv
<1>1. GuardTypeOK' /\ TriesLeft'
  BY TypesKept
<1>2. IsFiniteSet(slots')
  BY SlotsFinite
<1>3. SlotHasHolder' /\ RowFollowsStep'
  BY HolderKept DEF HolderInv
<1>4. OverStays' /\ RefusalInv' /\ RefusedForTheLiving'
  BY OverKept, RefusalKept
<1>5. CountStands' /\ LimitUntilEviction'
  BY LimitKept DEF HolderInv
<1> QED
  BY <1>1, <1>2, <1>3, <1>4, <1>5

\* The invariant holds of every state.
LEMMA GuardIsInvariant == Spec => []GuardInv
  BY GuardInit, GuardStep, PTL DEF Spec

\* Every variable of the guard has its type, and no request tries more often than
\* max_retries says (spend_guard.py).
THEOREM GuardTypesCorrect == Spec => []GuardTypeOK
<1>1. GuardInv => GuardTypeOK
  BY DEF GuardInv
<1> QED
  BY <1>1, GuardIsInvariant, PTL

\* WATCH / MULTI / EXEC keeps the set within MAX_ACTIVE_JOBS_PER_USER as long as no
\* request has taken the eviction path, whatever fails.
THEOREM LimitHolds == Spec => []LimitUntilEviction
<1>1. GuardInv => LimitUntilEviction
  BY DEF GuardInv
<1> QED
  BY <1>1, GuardIsInvariant, PTL

\* resolve_finished_job_ids and _evict_finished let nobody be refused for a job that was over.
THEOREM NobodyLockedOut == Spec => []RefusedForTheLiving
<1>1. GuardInv => RefusedForTheLiving
  BY DEF GuardInv
<1> QED
  BY <1>1, GuardIsInvariant, PTL

\* Conflicts, evictions, retries, refusals and failed commits leave no reservation of a
\* request that ended without a job: only a failed release does, or an EXEC of
\* reserve_active_job_slot that was applied and whose reply was lost.
THEOREM ReservationsReleased == Spec => []NothingLeftBehind
<1>1. GuardInv => NothingLeftBehind
  BY DEF GuardInv, SlotHasHolder, NothingLeftBehind
<1> QED
  BY <1>1, GuardIsInvariant, PTL
=============================================================================
