--------------------------- MODULE RateWindowProofs ---------------------------
(***************************************************************************)
(* That the sliding window bounds what is let through, for every number of  *)
(* requests, limit and window.  WindowBound speaks of the requests let       *)
(* through and the code of the members of the set: the invariant below says  *)
(* that a request without a member has left every window that can still      *)
(* grow, and that a count which an EXEC relies on is still true at the EXEC.  *)
(***************************************************************************)
EXTENDS RateWindow, FiniteSetTheorems, TLAPS

\* The types of what the bound rests on.
WindowTypes == /\ now \in 0 .. MaxTime
               /\ entries \subseteq Requests
               /\ lapse \in Nat
               /\ step \in [Requests -> Step]
               /\ stamp \in [Requests -> 0 .. MaxTime]
               /\ clean \in [Requests -> BOOLEAN]

\* Stamps are taken from the clock, and a key outlives the windows of its members.
StampsPast == /\ \A r \in Requests : stamp[r] <= now
              /\ \A r \in entries : stamp[r] + Window <= lapse

\* A member belongs to a request that is over.
MembersAreDone == \A r \in entries : step[r] \in {"accepted", "failed"}

Trying(r) == clean[r] /\ step[r] \in {"read", "exec"}

\* What was let through and has no member any more is out of every window to come.
GoneIsOld ==
  \A r \in Requests : (step[r] = "accepted" /\ r \notin entries) =>
    /\ stamp[r] + Window <= now
    /\ \A s \in Requests : Trying(s) => stamp[r] + Window <= stamp[s]

\* The count a request has made stands as long as its WATCH.
CountStands ==
  \A r \in Requests : (clean[r] /\ step[r] = "exec") => Cardinality(Counted(stamp[r])) < Limit

WindowInv == /\ WindowTypes /\ StampsPast /\ MembersAreDone
             /\ GoneIsOld /\ CountStands /\ WindowBound

-----------------------------------------------------------------------------
\* The invariant holds before any request.
LEMMA WindowInit == Init => WindowInv
<1> SUFFICES ASSUME Init PROVE WindowInv
  OBVIOUS
<1> USE RateAssumption DEF Init
<1>1. WindowTypes /\ StampsPast /\ MembersAreDone
  BY DEF WindowTypes, StampsPast, MembersAreDone, Step
<1>2. GoneIsOld /\ CountStands
  BY DEF GoneIsOld, CountStands
<1>3. ASSUME NEW t \in 0 .. MaxTime PROVE Cardinality(Let(t)) <= Limit
  <2>1. Let(t) = {}
    BY DEF Let
  <2> QED
    BY <2>1, FS_EmptySet
<1> QED
  BY <1>1, <1>2, <1>3 DEF WindowInv, WindowBound

\* What the windows see of a step that lets nobody through.
LEMMA NobodyLetThrough ==
  ASSUME WindowBound, \A t \in 0 .. MaxTime : Let(t)' = Let(t) PROVE WindowBound'
<1> SUFFICES ASSUME NEW t \in 0 .. MaxTime PROVE Cardinality(Let(t)') <= Limit
  BY DEF WindowBound
<1> QED
  BY DEF WindowBound

\* Before a request is let through, every window it falls into is covered by its count.
LEMMA CountCoversWindow ==
  ASSUME WindowInv, NEW r \in Requests, clean[r], step[r] = "exec",
         NEW t \in 0 .. MaxTime, stamp[r] <= t
  PROVE  Let(t) \subseteq Counted(stamp[r])
<1> SUFFICES ASSUME NEW x \in Let(t) PROVE x \in Counted(stamp[r])
  OBVIOUS
<1>1. x \in Requests /\ step[x] = "accepted" /\ t < stamp[x] + Window
  BY DEF Let
<1>2. stamp[x] \in Nat /\ stamp[r] \in Nat /\ Window \in Nat
  BY <1>1, RateAssumption DEF WindowInv, WindowTypes
<1>3. x \in entries
  <2>1. Trying(r)
    BY DEF Trying
  <2>2. x \notin entries => stamp[x] + Window <= stamp[r]
    BY <1>1, <2>1 DEF WindowInv, GoneIsOld
  <2> QED
    BY <1>1, <1>2, <2>2
<1> QED
  BY <1>1, <1>2, <1>3 DEF Counted

\* A member is added: the invariant but for what the bound says.
LEMMA AddKeepsMembers ==
  ASSUME WindowInv, NEW r \in Requests, Add(r), step[r] = "exec",
         NEW done \in {"accepted", "failed"}, step' = [step EXCEPT ![r] = done],
         UNCHANGED <<now, stamp>>
  PROVE  (WindowTypes /\ StampsPast /\ MembersAreDone /\ GoneIsOld /\ CountStands)'
<1> USE RateAssumption
<1>0. WindowTypes /\ StampsPast /\ MembersAreDone /\ GoneIsOld
  BY DEF WindowInv
<1>1. entries' = Kept(stamp[r]) \cup {r} /\ Kept(stamp[r]) \subseteq entries
  BY DEF Add, Kept
<1>2. WindowTypes'
  BY <1>0, <1>1 DEF WindowTypes, Step, Add
<1>3. StampsPast'
  BY <1>0, <1>1 DEF WindowTypes, StampsPast, Add
<1>4. MembersAreDone'
  BY <1>0, <1>1 DEF WindowTypes, MembersAreDone
<1>5. clean' = [s \in Requests |-> FALSE]
  BY DEF Add
<1>6. GoneIsOld'
  <2> SUFFICES ASSUME NEW x \in Requests, step'[x] = "accepted", x \notin entries'
               PROVE  stamp[x] + Window <= now
    BY <1>5 DEF GoneIsOld, Trying
  <2>1. x # r /\ step[x] = "accepted" /\ x \notin Kept(stamp[r])
    BY <1>0, <1>1 DEF WindowTypes
  <2>2. stamp[x] \in Nat /\ stamp[r] \in Nat /\ now \in Nat /\ Window \in Nat
    BY <1>0 DEF WindowTypes
  <2>3. CASE x \in entries
    <3>1. ~(stamp[x] + Window > stamp[r])
      BY <2>1, <2>3 DEF Kept
    <3> QED
      BY <1>0, <2>2, <3>1 DEF StampsPast
  <2>4. CASE x \notin entries
    BY <1>0, <2>1, <2>4 DEF GoneIsOld
  <2> QED
    BY <2>3, <2>4
<1>7. CountStands'
  BY <1>5 DEF CountStands
<1> QED
  BY <1>2, <1>3, <1>4, <1>6, <1>7

\* No step breaks the invariant.
LEMMA WindowStep == WindowInv /\ [Next]_vars => WindowInv'
<1> SUFFICES ASSUME WindowInv, [Next]_vars PROVE WindowInv'
  OBVIOUS
<1> USE RateAssumption
<1>0. /\ WindowTypes /\ StampsPast /\ MembersAreDone
      /\ GoneIsOld /\ CountStands /\ WindowBound
  BY DEF WindowInv
<1>1. ASSUME NEW r \in Requests, Watch(r) PROVE WindowInv'
  <2>1. /\ step[r] = "watch" /\ step' = [step EXCEPT ![r] = "read"]
        /\ stamp' = [stamp EXCEPT ![r] = now] /\ clean' = [clean EXCEPT ![r] = TRUE]
        /\ UNCHANGED <<now, entries, lapse>>
    BY <1>1 DEF Watch, Go, redisVars
  <2>2. r \notin entries
    BY <1>0, <2>1 DEF MembersAreDone
  <2>3. WindowTypes'
    BY <1>0, <2>1 DEF WindowTypes, Step
  <2>4. StampsPast'
    BY <1>0, <2>1, <2>2 DEF StampsPast, WindowTypes
  <2>5. MembersAreDone'
    BY <1>0, <2>1, <2>2 DEF MembersAreDone, WindowTypes
  <2>6. GoneIsOld'
    BY <1>0, <2>1, <2>2 DEF GoneIsOld, Trying, WindowTypes
  <2>7. CountStands'
    <3> SUFFICES ASSUME NEW x \in Requests, clean'[x], step'[x] = "exec"
                 PROVE  Cardinality(Counted(stamp[x])') < Limit
      BY <1>0, <2>1 DEF CountStands, Counted, WindowTypes
    <3>1. x # r /\ clean[x] /\ step[x] = "exec"
      BY <1>0, <2>1 DEF WindowTypes
    <3>2. Counted(stamp[x])' = Counted(stamp[x])
      BY <1>0, <2>1, <2>2, <3>1 DEF Counted, WindowTypes
    <3> QED
      BY <1>0, <3>1, <3>2 DEF CountStands
  <2>8. \A t \in 0 .. MaxTime : Let(t)' = Let(t)
    BY <1>0, <2>1 DEF Let, WindowTypes
  <2>9. WindowBound'
    BY <1>0, <2>8, NobodyLetThrough
  <2> QED
    BY <2>3, <2>4, <2>5, <2>6, <2>7, <2>9 DEF WindowInv
<1>2. ASSUME NEW r \in Requests, Read(r) PROVE WindowInv'
  <2>1. /\ ~Full(r) /\ step[r] = "read" /\ step' = [step EXCEPT ![r] = "exec"]
        /\ UNCHANGED <<now, entries, lapse, stamp, clean>>
    BY <1>2 DEF Read, Go, redisVars
  <2>2. WindowTypes' /\ StampsPast'
    BY <1>0, <2>1 DEF WindowTypes, StampsPast, Step
  <2>3. MembersAreDone' /\ GoneIsOld'
    BY <1>0, <2>1 DEF MembersAreDone, GoneIsOld, Trying, WindowTypes
  <2>4. CountStands'
    <3>1. \A time : Counted(time)' = Counted(time)
      BY <2>1 DEF Counted
    <3>2. entries \subseteq Requests /\ IsFiniteSet(entries)
      BY <1>0, FS_Subset DEF WindowTypes
    <3>3. Counted(stamp[r]) \subseteq entries
      BY DEF Counted
    <3>4. Cardinality(Counted(stamp[r])) \in Nat
      BY <3>2, <3>3, FS_Subset, FS_CardinalityType
    <3>5. Cardinality(Counted(stamp[r])) < Limit
      BY <2>1, <3>4 DEF Full
    <3> SUFFICES ASSUME NEW x \in Requests, clean[x], step'[x] = "exec"
                 PROVE  Cardinality(Counted(stamp[x])) < Limit
      BY <2>1, <3>1 DEF CountStands, Counted
    <3> QED
      BY <1>0, <2>1, <3>5 DEF CountStands, WindowTypes
  <2>5. \A t \in 0 .. MaxTime : Let(t)' = Let(t)
    BY <1>0, <2>1 DEF Let, WindowTypes
  <2> QED
    BY <1>0, <2>2, <2>3, <2>4, <2>5, NobodyLetThrough DEF WindowInv
<1>3. ASSUME NEW r \in Requests, NEW to \in {"watch", "refused", "exhausted", "failed"},
             step[r] \in {"watch", "read", "exec"},
             step' = [step EXCEPT ![r] = to],
             UNCHANGED <<now, entries, lapse, stamp, clean>>
      PROVE  WindowInv'
  <2>1. WindowTypes' /\ StampsPast'
    BY <1>0, <1>3 DEF WindowTypes, StampsPast, Step
  <2>2. MembersAreDone'
    BY <1>0, <1>3 DEF MembersAreDone, WindowTypes
  <2>3. GoneIsOld'
    BY <1>0, <1>3 DEF GoneIsOld, Trying, WindowTypes
  <2>4. CountStands'
    BY <1>0, <1>3 DEF CountStands, Counted, WindowTypes
  <2>5. \A t \in 0 .. MaxTime : Let(t)' = Let(t)
    BY <1>0, <1>3 DEF Let, WindowTypes
  <2> QED
    BY <1>0, <2>1, <2>2, <2>3, <2>4, <2>5, NobodyLetThrough DEF WindowInv
<1>4. ASSUME NEW r \in Requests, Refuse(r) PROVE WindowInv'
  BY <1>3, <1>4 DEF Refuse, Go, redisVars
<1>5. ASSUME NEW r \in Requests, Conflict(r) PROVE WindowInv'
  BY <1>3, <1>5 DEF Conflict, Go, redisVars
<1>6. ASSUME NEW r \in Requests, Unavailable(r) PROVE WindowInv'
  BY <1>3, <1>6 DEF Unavailable, Go, redisVars
<1>7. ASSUME NEW r \in Requests, Exec(r) PROVE WindowInv'
  <2>1. /\ clean[r] /\ Add(r) /\ step[r] = "exec"
        /\ step' = [step EXCEPT ![r] = "accepted"] /\ UNCHANGED <<now, stamp>>
    BY <1>7 DEF Exec, Go
  <2>2. (WindowTypes /\ StampsPast /\ MembersAreDone /\ GoneIsOld /\ CountStands)'
    BY <2>1, AddKeepsMembers
  <2>3. ASSUME NEW t \in 0 .. MaxTime PROVE Cardinality(Let(t)') <= Limit
    <3>1. Let(t)' \subseteq Let(t) \cup {r}
      BY <1>0, <2>1 DEF Let, WindowTypes
    <3>2. IsFiniteSet(Let(t)) /\ IsFiniteSet(Counted(stamp[r]))
      <4>1. Let(t) \subseteq Requests /\ Counted(stamp[r]) \subseteq Requests
        BY <1>0 DEF Let, Counted, WindowTypes
      <4> QED
        BY <4>1, FS_Subset
    <3>3. CASE stamp[r] <= t
      <4>1. Let(t) \subseteq Counted(stamp[r])
        BY <2>1, <3>3, CountCoversWindow
      <4>2. Cardinality(Let(t)) <= Cardinality(Counted(stamp[r]))
        BY <3>2, <4>1, FS_Subset
      <4>3. Cardinality(Counted(stamp[r])) < Limit
        BY <1>0, <2>1 DEF CountStands
      <4>4. r \notin Let(t)
        BY <2>1 DEF Let
      <4>5. /\ IsFiniteSet(Let(t) \cup {r})
            /\ Cardinality(Let(t) \cup {r}) = Cardinality(Let(t)) + 1
        BY <3>2, <4>4, FS_AddElement
      <4>6. Cardinality(Let(t)') <= Cardinality(Let(t) \cup {r}) /\ IsFiniteSet(Let(t)')
        BY <3>1, <4>5, FS_Subset
      <4>7. /\ Cardinality(Let(t)) \in Nat /\ Cardinality(Counted(stamp[r])) \in Nat
            /\ Cardinality(Let(t)') \in Nat
        BY <3>2, <4>6, FS_CardinalityType
      <4> QED
        BY <4>2, <4>3, <4>5, <4>6, <4>7
    <3>4. CASE ~(stamp[r] <= t)
      <4>1. Let(t)' = Let(t)
        BY <1>0, <2>1, <3>4 DEF Let, WindowTypes
      <4> QED
        BY <1>0, <4>1 DEF WindowBound
    <3> QED
      BY <3>3, <3>4
  <2> QED
    BY <2>2, <2>3 DEF WindowInv, WindowBound
<1>8. ASSUME NEW r \in Requests, ReplyLost(r) PROVE WindowInv'
  <2>1. /\ Add(r) /\ step[r] = "exec"
        /\ step' = [step EXCEPT ![r] = "failed"] /\ UNCHANGED <<now, stamp>>
    BY <1>8 DEF ReplyLost, Go
  <2>2. (WindowTypes /\ StampsPast /\ MembersAreDone /\ GoneIsOld /\ CountStands)'
    BY <2>1, AddKeepsMembers
  <2>3. \A t \in 0 .. MaxTime : Let(t)' = Let(t)
    BY <1>0, <2>1 DEF Let, WindowTypes
  <2> QED
    BY <1>0, <2>2, <2>3, NobodyLetThrough DEF WindowInv
<1>9. ASSUME Tick PROVE WindowInv'
  <2>1. /\ now < MaxTime /\ now' = now + 1 /\ UNCHANGED <<lapse, step, stamp>>
        /\ \/ UNCHANGED <<entries, clean>>
           \/ now' >= lapse /\ entries' = {} /\ clean' = [s \in Requests |-> FALSE]
    BY <1>9 DEF Tick
  <2>2. WindowTypes' /\ StampsPast'
    <3>1. now' \in 0 .. MaxTime /\ \A r \in Requests : stamp[r] <= now'
      BY <1>0, <2>1 DEF WindowTypes, StampsPast
    <3>2. CASE UNCHANGED <<entries, clean>>
      BY <1>0, <2>1, <3>1, <3>2 DEF WindowTypes, StampsPast
    <3>3. CASE entries' = {} /\ clean' = [s \in Requests |-> FALSE]
      BY <1>0, <2>1, <3>1, <3>3 DEF WindowTypes, StampsPast
    <3> QED
      BY <2>1, <3>2, <3>3
  <2>3. MembersAreDone'
    BY <1>0, <2>1 DEF MembersAreDone
  <2>4. GoneIsOld'
    <3>1. CASE UNCHANGED <<entries, clean>>
      BY <1>0, <2>1, <3>1 DEF GoneIsOld, Trying, WindowTypes
    <3>2. CASE /\ now' >= lapse /\ entries' = {}
               /\ clean' = [s \in Requests |-> FALSE]
      BY <1>0, <2>1, <3>2 DEF GoneIsOld, Trying, WindowTypes, StampsPast
    <3> QED
      BY <2>1, <3>1, <3>2
  <2>5. CountStands'
    <3>1. CASE UNCHANGED <<entries, clean>>
      BY <1>0, <2>1, <3>1 DEF CountStands, Counted
    <3>2. CASE clean' = [s \in Requests |-> FALSE]
      BY <3>2 DEF CountStands
    <3> QED
      BY <2>1, <3>1, <3>2
  <2>6. \A t \in 0 .. MaxTime : Let(t)' = Let(t)
    BY <2>1 DEF Let
  <2> QED
    BY <1>0, <2>2, <2>3, <2>4, <2>5, <2>6, NobodyLetThrough DEF WindowInv
<1>10. CASE UNCHANGED vars
  <2>1. UNCHANGED <<now, entries, lapse, step, stamp, clean>>
    BY <1>10 DEF vars, redisVars
  <2> QED
    BY <1>0, <2>1
       DEF WindowInv, WindowTypes, StampsPast, MembersAreDone, GoneIsOld, CountStands,
           WindowBound, Let, Counted, Trying
<1> QED
  BY <1>1, <1>2, <1>4, <1>5, <1>6, <1>7, <1>8, <1>9, <1>10 DEF Next

\* However concurrent checks interleave and whatever fails, no window has more requests
\* let through than the limit (check_sliding_window_rate_limit), for any limit, window
\* and number of requests.
THEOREM WindowHolds == Spec => []WindowBound
<1>1. WindowInv => WindowBound
  BY DEF WindowInv
<1> QED
  BY <1>1, WindowInit, WindowStep, PTL DEF Spec

-----------------------------------------------------------------------------
(* What a Retry-After promises.                                             *)

\* The set never has more members than the limit.
SetBound == Cardinality(entries) <= Limit

\* Those of the members that will still be counted when a refused request may come back.
Waiting(r) == {e \in entries : stamp[e] + Window >= at[r] + hint[r]}

\* While nothing is added they are too few to refuse it again.
RoomToCome ==
  \A r \in Requests : (step[r] = "refused" /\ quiet[r]) => Cardinality(Waiting(r)) < Limit

\* Who tries again has an attempt left.
TriesLeft == \A r \in Requests : step[r] = "watch" => tries[r] < MaxRetries

RetryInv == RateTypeOK /\ WindowInv /\ SetBound /\ RoomToCome /\ TriesLeft

\* After an EXEC the set is within the limit, because it kept only what was counted.
LEMMA AddKeepsSetBound ==
  ASSUME WindowInv, NEW r \in Requests, Add(r), clean[r], step[r] = "exec"
  PROVE  SetBound'
<1> USE RateAssumption
<1>1. WindowTypes
  BY DEF WindowInv
<1>2. Kept(stamp[r]) \subseteq Counted(stamp[r]) /\ Counted(stamp[r]) \subseteq Requests
  BY <1>1 DEF Kept, Counted, WindowTypes
<1>3. /\ IsFiniteSet(Counted(stamp[r])) /\ IsFiniteSet(Kept(stamp[r]))
      /\ Cardinality(Kept(stamp[r])) <= Cardinality(Counted(stamp[r]))
  BY <1>2, FS_Subset
<1>4. Cardinality(Counted(stamp[r])) < Limit
  BY DEF WindowInv, CountStands
<1>5. \/ Cardinality(Kept(stamp[r]) \cup {r}) = Cardinality(Kept(stamp[r]))
      \/ Cardinality(Kept(stamp[r]) \cup {r}) = Cardinality(Kept(stamp[r])) + 1
  BY <1>3, FS_AddElement
<1>6. Cardinality(Kept(stamp[r])) \in Nat /\ Cardinality(Counted(stamp[r])) \in Nat
  BY <1>3, FS_CardinalityType
<1> QED
  BY <1>3, <1>4, <1>5, <1>6 DEF Add, SetBound

\* A set of members that loses some, or none, is no larger.
LEMMA FewerWait ==
  ASSUME RetryInv, RoomToCome, entries' \subseteq entries,
         NEW x \in Requests, step[x] = "refused", quiet[x],
         \A e \in entries : stamp'[e] = stamp[e],
         at'[x] = at[x], hint'[x] = hint[x]
  PROVE  Cardinality(Waiting(x)') < Limit
<1> USE RateAssumption
<1>1. Waiting(x)' \subseteq Waiting(x) /\ Waiting(x) \subseteq Requests
  BY DEF Waiting, RetryInv, RateTypeOK
<1>2. IsFiniteSet(Waiting(x)) /\ Cardinality(Waiting(x)') <= Cardinality(Waiting(x))
  BY <1>1, FS_Subset
<1>3. Cardinality(Waiting(x)) \in Nat /\ Cardinality(Waiting(x)') \in Nat
  BY <1>1, FS_Subset, FS_CardinalityType
<1> QED
  BY <1>2, <1>3 DEF RoomToCome

\* The invariant of the hint holds before any request.
LEMMA RetryInit == Init => RetryInv
<1> USE RateAssumption DEF Init
<1>1. Init => RateTypeOK
  BY DEF RateTypeOK, Step
<1>2. Init => SetBound /\ RoomToCome /\ TriesLeft
  BY FS_EmptySet DEF SetBound, RoomToCome, TriesLeft
<1> QED
  BY <1>1, <1>2, WindowInit DEF RetryInv

\* Each variable keeps its type, the hint included.
LEMMA RateTypesStep == RetryInv /\ [Next]_vars => RateTypeOK'
<1> SUFFICES ASSUME RetryInv, [Next]_vars PROVE RateTypeOK'
  OBVIOUS
<1> USE RateAssumption
<1>0. RateTypeOK /\ WindowInv
  BY DEF RetryInv
<1>1. ASSUME NEW r \in Requests, Watch(r) PROVE RateTypeOK'
  <2>1. tries[r] + 1 \in 0 .. MaxRetries
    BY <1>0, <1>1 DEF RateTypeOK, RetryInv, TriesLeft, Watch, Go
  <2> QED
    BY <1>0, <1>1, <2>1 DEF RateTypeOK, Watch, Go, Step, redisVars, answerVars
<1>2. ASSUME NEW r \in Requests, Read(r) PROVE RateTypeOK'
  BY <1>0, <1>2 DEF RateTypeOK, Read, Go, Step, redisVars, answerVars
<1>3. ASSUME NEW r \in Requests, Refuse(r) PROVE RateTypeOK'
  <2>1. PICK o \in Oldest(stamp[r]) : hint' = [hint EXCEPT ![r] = RetryAfter(stamp[o], stamp[r])]
    BY <1>3 DEF Refuse
  <2>2. stamp[o] \in Nat /\ stamp[r] \in Nat
    BY <1>0 DEF RateTypeOK, Oldest, Counted
  <2>3. RetryAfter(stamp[o], stamp[r]) \in Nat
    BY <2>2 DEF RetryAfter
  <2> QED
    BY <1>0, <1>3, <2>1, <2>3 DEF RateTypeOK, Refuse, Go, Step, redisVars
<1>4. ASSUME NEW r \in Requests, Exec(r) \/ ReplyLost(r) PROVE RateTypeOK'
  <2>1. now + Window + Slack \in Nat
    BY <1>0 DEF RateTypeOK
  <2>2. entries' \subseteq Requests /\ lapse' \in Nat
    BY <1>0, <1>4, <2>1 DEF RateTypeOK, Exec, ReplyLost, Add, Kept
  <2> QED
    BY <1>0, <1>4, <2>2 DEF RateTypeOK, Exec, ReplyLost, Add, Go, Step, answerVars
<1>5. ASSUME NEW r \in Requests, Conflict(r) PROVE RateTypeOK'
  BY <1>0, <1>5 DEF RateTypeOK, Conflict, Go, Step, redisVars, answerVars
<1>6. ASSUME NEW r \in Requests, Unavailable(r) PROVE RateTypeOK'
  BY <1>0, <1>6 DEF RateTypeOK, Unavailable, Go, Step, redisVars, answerVars
<1>7. ASSUME Tick PROVE RateTypeOK'
  <2>1. now' \in 0 .. MaxTime /\ entries' \subseteq Requests /\ clean' \in [Requests -> BOOLEAN]
    <3>1. now' \in 0 .. MaxTime
      BY <1>0, <1>7 DEF RateTypeOK, Tick
    <3>2. entries' \subseteq Requests
      BY <1>0, <1>7 DEF RateTypeOK, Tick
    <3>3. clean' \in [Requests -> BOOLEAN]
      BY <1>0, <1>7 DEF RateTypeOK, Tick
    <3> QED
      BY <3>1, <3>2, <3>3
  <2> QED
    BY <1>0, <1>7, <2>1 DEF RateTypeOK, Tick, answerVars
<1>8. CASE UNCHANGED vars
  BY <1>0, <1>8 DEF RateTypeOK, vars, redisVars, answerVars
<1> QED
  BY <1>1, <1>2, <1>3, <1>4, <1>5, <1>6, <1>7, <1>8 DEF Next

\* No step breaks what the hint rests on.
LEMMA RoomStep == RetryInv /\ [Next]_vars => SetBound' /\ RoomToCome'
<1> SUFFICES ASSUME RetryInv, [Next]_vars PROVE SetBound' /\ RoomToCome'
  OBVIOUS
<1> USE RateAssumption
<1>0. RateTypeOK /\ WindowInv /\ WindowTypes /\ MembersAreDone /\ SetBound /\ RoomToCome
  BY DEF RetryInv, WindowInv
<1>1. ASSUME NEW r \in Requests, Exec(r) \/ ReplyLost(r) PROVE SetBound' /\ RoomToCome'
  <2>1. Add(r) /\ clean[r] /\ step[r] = "exec"
    BY <1>1 DEF Exec, ReplyLost, Go
  <2>2. RoomToCome'
    BY <2>1 DEF RoomToCome, Add
  <2> QED
    BY <1>0, <2>1, <2>2, AddKeepsSetBound
<1>2. ASSUME NEW r \in Requests, Refuse(r) PROVE SetBound' /\ RoomToCome'
  <2>1. /\ Full(r) /\ step[r] = "read" /\ step' = [step EXCEPT ![r] = "refused"]
        /\ \E o \in Oldest(stamp[r]) : hint' = [hint EXCEPT ![r] = RetryAfter(stamp[o], stamp[r])]
        /\ at' = [at EXCEPT ![r] = now]
        /\ quiet' = [quiet EXCEPT ![r] = TRUE]
        /\ UNCHANGED <<now, entries, stamp>>
    BY <1>2 DEF Refuse, Go, redisVars
  <2>2. Cardinality(Waiting(r)') < Limit
    <3>2. PICK o \in Oldest(stamp[r]) : hint' = [hint EXCEPT ![r] = RetryAfter(stamp[o], stamp[r])]
      BY <2>1
    <3>3. o \in entries /\ stamp[o] + Window >= stamp[r]
      BY DEF Counted, Oldest
    <3>4. /\ stamp[o] \in Nat /\ stamp[r] \in Nat /\ now \in Nat /\ stamp[r] <= now
      BY <1>0, <3>3 DEF WindowTypes, WindowInv, StampsPast
    <3>5. hint'[r] = stamp[o] + Window - stamp[r] + 1 /\ at'[r] = now
      BY <1>0, <2>1, <3>2, <3>3, <3>4 DEF RetryAfter, RateTypeOK
    <3>6. ~(stamp[o] + Window >= at'[r] + hint'[r])
      BY <3>4, <3>5
    <3>7. Waiting(r)' \subseteq entries \ {o} /\ entries \subseteq Requests
      BY <1>0, <2>1, <3>6 DEF Waiting, WindowTypes
    <3>8. IsFiniteSet(entries) /\ IsFiniteSet(entries \ {o})
      BY <3>7, FS_Subset
    <3>9. Cardinality(entries \ {o}) = Cardinality(entries) - 1
      BY <3>3, <3>8, FS_RemoveElement
    <3>10. Cardinality(Waiting(r)') <= Cardinality(entries \ {o}) /\ IsFiniteSet(Waiting(r)')
      BY <3>7, <3>8, FS_Subset
    <3>11. Cardinality(Waiting(r)') \in Nat /\ Cardinality(entries) \in Nat
      BY <3>8, <3>10, FS_CardinalityType
    <3> QED
      BY <1>0, <3>9, <3>10, <3>11 DEF SetBound
  <2>3. RoomToCome'
    <3> SUFFICES ASSUME NEW x \in Requests, step'[x] = "refused", quiet'[x]
                 PROVE  Cardinality(Waiting(x)') < Limit
      BY DEF RoomToCome
    <3>1. CASE x # r
      BY <1>0, <2>1, <3>1, FewerWait DEF RateTypeOK
    <3> QED
      BY <2>2, <3>1
  <2> QED
    BY <1>0, <2>1, <2>3 DEF SetBound
<1>3. ASSUME /\ entries' \subseteq entries
             /\ \A e \in entries : stamp'[e] = stamp[e]
             /\ \A x \in Requests : (step'[x] = "refused" /\ quiet'[x]) =>
                  /\ step[x] = "refused" /\ quiet[x]
                  /\ at'[x] = at[x] /\ hint'[x] = hint[x]
      PROVE  SetBound' /\ RoomToCome'
  <2>1. RoomToCome'
    BY <1>0, <1>3, FewerWait DEF RoomToCome
  <2>2. IsFiniteSet(entries) /\ IsFiniteSet(entries')
        /\ Cardinality(entries') <= Cardinality(entries)
    BY <1>0, <1>3, FS_Subset DEF WindowTypes
  <2>3. Cardinality(entries') \in Nat /\ Cardinality(entries) \in Nat
    BY <2>2, FS_CardinalityType
  <2> QED
    BY <1>0, <2>1, <2>2, <2>3 DEF SetBound
<1>4. ASSUME NEW r \in Requests, Watch(r) PROVE SetBound' /\ RoomToCome'
  <2>1. r \notin entries /\ entries \subseteq Requests
    BY <1>0, <1>4 DEF Watch, Go, MembersAreDone, WindowTypes
  <2> QED
    BY <1>0, <1>3, <1>4, <2>1 DEF Watch, Go, RateTypeOK, redisVars, answerVars
<1>5. ASSUME NEW r \in Requests, Read(r) PROVE SetBound' /\ RoomToCome'
  BY <1>0, <1>3, <1>5 DEF Read, Go, RateTypeOK, redisVars, answerVars
<1>6. ASSUME NEW r \in Requests, Conflict(r) PROVE SetBound' /\ RoomToCome'
  BY <1>0, <1>3, <1>6 DEF Conflict, Go, RateTypeOK, redisVars, answerVars
<1>7. ASSUME NEW r \in Requests, Unavailable(r) PROVE SetBound' /\ RoomToCome'
  BY <1>0, <1>3, <1>7 DEF Unavailable, Go, RateTypeOK, redisVars, answerVars
<1>8. ASSUME Tick PROVE SetBound' /\ RoomToCome'
  <2>1. entries' \subseteq entries /\ UNCHANGED <<step, stamp, hint, at, quiet>>
    BY <1>8 DEF Tick, answerVars
  <2> QED
    BY <1>3, <2>1
<1>9. CASE UNCHANGED vars
  BY <1>3, <1>9 DEF vars, redisVars, answerVars
<1> QED
  BY <1>1, <1>2, <1>4, <1>5, <1>6, <1>7, <1>8, <1>9 DEF Next

\* A request goes back to its WATCH only with an attempt left.
LEMMA TriesStep == RetryInv /\ [Next]_vars => TriesLeft'
<1> SUFFICES ASSUME RetryInv, [Next]_vars PROVE TriesLeft'
  OBVIOUS
<1> USE DEF RetryInv, RateTypeOK, TriesLeft
<1>1. ASSUME NEW r \in Requests, Watch(r) PROVE TriesLeft'
  BY <1>1 DEF Watch, Go
<1>2. ASSUME NEW r \in Requests, Conflict(r) PROVE TriesLeft'
  BY <1>2 DEF Conflict, Go
<1>3. ASSUME NEW r \in Requests, Read(r) \/ Refuse(r) \/ Exec(r) \/ ReplyLost(r)
      PROVE  TriesLeft'
  BY <1>3 DEF Read, Refuse, Exec, ReplyLost, Go
<1>4. ASSUME NEW r \in Requests, Unavailable(r) PROVE TriesLeft'
  BY <1>4 DEF Unavailable, Go
<1>5. CASE Tick \/ UNCHANGED vars
  BY <1>5 DEF Tick, vars
<1> QED
  BY <1>1, <1>2, <1>3, <1>4, <1>5 DEF Next

\* The invariant that both theorems below come from.
LEMMA RetryInvariant == Spec => []RetryInv
<1>1. RetryInv /\ [Next]_vars => RetryInv'
  BY RateTypesStep, RoomStep, TriesStep, WindowStep DEF RetryInv
<1> QED
  BY <1>1, RetryInit, PTL DEF Spec

\* Under every interleaving and fault each variable keeps its type, so every answer with
\* a Retry-After has a number of seconds.
THEOREM RateTypesCorrect == Spec => []RateTypeOK
<1>1. RetryInv => RateTypeOK
  BY DEF RetryInv
<1> QED
  BY <1>1, RetryInvariant, PTL

\* Whoever was refused and waits as told finds room, unless another request was let
\* through in between, for any limit, window and number of requests.
THEOREM RetryHelps == Spec => []RetryAfterHelps
<1>1. RetryInv => RetryAfterHelps
  <2> SUFFICES ASSUME RetryInv, NEW r \in Requests, step[r] = "refused", quiet[r],
                      now >= at[r] + hint[r]
               PROVE  Cardinality(Counted(now)) < Limit
    BY DEF RetryAfterHelps
  <2> USE RateAssumption
  <2>1. RateTypeOK
    BY DEF RetryInv
  <2>2. Counted(now) \subseteq Waiting(r) /\ Waiting(r) \subseteq Requests
    BY <2>1 DEF Counted, Waiting, RateTypeOK
  <2>3. /\ IsFiniteSet(Waiting(r)) /\ IsFiniteSet(Counted(now))
        /\ Cardinality(Counted(now)) <= Cardinality(Waiting(r))
    BY <2>2, FS_Subset
  <2>4. Cardinality(Waiting(r)) \in Nat /\ Cardinality(Counted(now)) \in Nat
    BY <2>3, FS_CardinalityType
  <2> QED
    BY <2>3, <2>4 DEF RetryInv, RoomToCome
<1> QED
  BY <1>1, RetryInvariant, PTL
=============================================================================
