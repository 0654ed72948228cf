----------------------------- MODULE RateWindow ------------------------------
(***************************************************************************)
(* The sliding window that limits the uploads, or the polls, of one user    *)
(* (apps/api/middleware/rate_limit.py): a sorted set in Redis with a member *)
(* for each request that was let through, scored with the time at which it  *)
(* asked.  Requests are checked concurrently, by several API processes      *)
(* whose clocks agree; time is whole seconds.                               *)
(***************************************************************************)
EXTENDS Naturals, FiniteSets

CONSTANTS Requests,    \* requests of the user, which may come at any time
          Limit,       \* MAX_SUBMISSIONS_PER_MIN or MAX_STATUS_POLLS_PER_MIN
          Window,      \* window_seconds
          Slack,       \* seconds the key outlives its window
          MaxRetries,  \* max_retries
          RedisFails,  \* whether commands of Redis may fail
          MaxTime      \* bound on the clock

ASSUME RateAssumption == /\ IsFiniteSet(Requests)
                         /\ Limit \in Nat \ {0}
                         /\ Window \in Nat \ {0}
                         /\ Slack \in Nat \ {0}
                         /\ MaxRetries \in Nat \ {0}
                         /\ RedisFails \in BOOLEAN
                         /\ MaxTime \in Nat

VARIABLES now,       \* the clock
          entries,   \* requests that have a member in the sorted set
          lapse,     \* when the key expires
          step,      \* where each request stands
          stamp,     \* its now: the score of its member
          clean,     \* the key was not touched since its WATCH
          tries,     \* its attempts
          hint,      \* its Retry-After
          at,        \* history: when it was refused
          quiet      \* history: nothing was added since it counted

redisVars == <<entries, lapse>>
answerVars == <<hint, at>>
vars == <<now, redisVars, step, stamp, clean, tries, answerVars, quiet>>

\* "refused" by a full window and "exhausted" by conflicts are 429, "failed" is 503.
Step == {"watch", "read", "exec", "accepted", "refused", "exhausted", "failed"}

Init == /\ now = 0
        /\ entries = {} /\ lapse = 0
        /\ step = [r \in Requests |-> "watch"]
        /\ stamp = [r \in Requests |-> 0]
        /\ clean = [r \in Requests |-> FALSE]
        /\ tries = [r \in Requests |-> 0]
        /\ hint = [r \in Requests |-> 0]
        /\ at = [r \in Requests |-> 0]
        /\ quiet = [r \in Requests |-> FALSE]

Go(r, from, to) == step[r] = from /\ step' = [step EXCEPT ![r] = to]

\* zrangebyscore(key, cutoff, +inf): an entry exactly at the cutoff is counted.
Counted(time) == {e \in entries : stamp[e] + Window >= time}

\* zremrangebyscore(key, -inf, cutoff): it is removed.
Kept(time) == {e \in entries : stamp[e] + Window > time}

\* Mutant of RetryAfter: to the second at which the oldest entry is at the cutoff.
RetryAfterExact(oldest, time) ==
  IF oldest + Window > time THEN oldest + Window - time ELSE 1

RetryAfter(oldest, time) ==
  IF oldest + Window >= time THEN oldest + Window - time + 1 ELSE 1

-----------------------------------------------------------------------------
(* check_sliding_window_rate_limit                                          *)

\* The clock is read when the WATCH has been answered.
Watch(r) == /\ Go(r, "watch", "read")
            /\ clean' = [clean EXCEPT ![r] = TRUE]
            /\ stamp' = [stamp EXCEPT ![r] = now]
            /\ tries' = [tries EXCEPT ![r] = @ + 1]
            /\ UNCHANGED <<now, redisVars, answerVars, quiet>>

Full(r) == Cardinality(Counted(stamp[r])) >= Limit

\* zrangebyscore answers in the order of the scores: the first one is an oldest one.
Oldest(time) == {o \in Counted(time) : \A e \in Counted(time) : stamp[o] <= stamp[e]}

Read(r) ==
  /\ ~Full(r)
  /\ Go(r, "read", "exec")
  /\ UNCHANGED <<now, redisVars, stamp, clean, tries, answerVars, quiet>>

Refuse(r) ==
  /\ Full(r)
  /\ Go(r, "read", "refused")
  /\ \E o \in Oldest(stamp[r]) : hint' = [hint EXCEPT ![r] = RetryAfter(stamp[o], stamp[r])]
  /\ at' = [at EXCEPT ![r] = now]
  /\ quiet' = [quiet EXCEPT ![r] = TRUE]
  /\ UNCHANGED <<now, redisVars, stamp, clean, tries>>

\* MULTI: the old members go, the new one comes, the key lives on.
Add(r) ==
  /\ entries' = Kept(stamp[r]) \cup {r}
  /\ lapse' = now + Window + Slack
  /\ clean' = [s \in Requests |-> FALSE]
  /\ quiet' = [s \in Requests |-> FALSE]

\* Mutant of Exec: without the WATCH.
ExecUnwatched(r) ==
  /\ Add(r)
  /\ Go(r, "exec", "accepted")
  /\ UNCHANGED <<now, stamp, tries, answerVars>>

Exec(r) ==
  /\ clean[r]
  /\ Add(r)
  /\ Go(r, "exec", "accepted")
  /\ UNCHANGED <<now, stamp, tries, answerVars>>

\* WatchError: again, until the attempts are used up.
Conflict(r) ==
  /\ ~clean[r]
  /\ \/ /\ tries[r] < MaxRetries
        /\ Go(r, "exec", "watch")
        /\ UNCHANGED answerVars
     \/ /\ tries[r] = MaxRetries
        /\ Go(r, "exec", "exhausted")
        /\ hint' = [hint EXCEPT ![r] = Window]
        /\ at' = [at EXCEPT ![r] = now]
  /\ UNCHANGED <<now, redisVars, stamp, clean, tries, quiet>>

\* rate_limit_upload and rate_limit_polling fail closed.
Unavailable(r) ==
  /\ RedisFails
  /\ step[r] \in {"watch", "read", "exec"}
  /\ Go(r, step[r], "failed")
  /\ UNCHANGED <<now, redisVars, stamp, clean, tries, answerVars, quiet>>

\* EXEC is done and its answer lost: 503, and the member stays.
ReplyLost(r) ==
  /\ RedisFails
  /\ clean[r]
  /\ Add(r)
  /\ Go(r, "exec", "failed")
  /\ UNCHANGED <<now, stamp, tries, answerVars>>

\* A key that expires spoils the WATCHes on it (Redis 6.0.9 and later).
Tick ==
  /\ now < MaxTime
  /\ now' = now + 1
  /\ \/ /\ now' < lapse \/ entries = {}
        /\ UNCHANGED <<entries, clean>>
     \/ /\ now' >= lapse /\ entries # {}
        /\ entries' = {}
        /\ clean' = [s \in Requests |-> FALSE]
  /\ UNCHANGED <<lapse, step, stamp, tries, answerVars, quiet>>

Next == \/ \E r \in Requests : \/ Watch(r) \/ Read(r) \/ Refuse(r)
                               \/ Exec(r) \/ Conflict(r) \/ Unavailable(r) \/ ReplyLost(r)
        \/ Tick

Spec == Init /\ [][Next]_vars

-----------------------------------------------------------------------------
(* Properties.                                                              *)

RateTypeOK ==
  /\ now \in 0 .. MaxTime
  /\ entries \subseteq Requests
  /\ lapse \in Nat
  /\ step \in [Requests -> Step]
  /\ stamp \in [Requests -> 0 .. MaxTime]
  /\ clean \in [Requests -> BOOLEAN]
  /\ tries \in [Requests -> 0 .. MaxRetries]
  /\ hint \in [Requests -> Nat]
  /\ at \in [Requests -> 0 .. MaxTime]
  /\ quiet \in [Requests -> BOOLEAN]

Let(t) == {r \in Requests : step[r] = "accepted" /\ stamp[r] <= t /\ t < stamp[r] + Window}

\* However the checks of concurrent requests interleave, and whatever fails, no window
\* of the given length has more requests let through than the limit.  (A window is
\* without its first instant: see Counted and Kept.)
WindowBound == \A t \in 0 .. MaxTime : Cardinality(Let(t)) <= Limit

\* A request that was refused, and comes back after the Retry-After it was given, finds
\* room, unless another one was let through in the meantime.
RetryAfterHelps ==
  \A r \in Requests :
    (step[r] = "refused" /\ quiet[r] /\ now >= at[r] + hint[r])
      => Cardinality(Counted(now)) < Limit
=============================================================================
