--------------------------- MODULE ResilienceProofs ---------------------------
(***************************************************************************)
(* Proofs about the two guards of the application: RateLimiter, for any    *)
(* limit, window and number of calls, and CircuitBreaker, for any number   *)
(* of callers, threshold, recovery time and retries.  They share nothing,  *)
(* neither constants nor variables.                                        *)
(*                                                                         *)
(* WithinLimit is not inductive alone: a call is admitted because of what  *)
(* the sorted set holds, so the set must be shown to hold every admitted   *)
(* request that can share a window with it.  MembersKept says so: what is  *)
(* missing was trimmed at the cutoff or is unaccounted.  The TTL is safe   *)
(* because no member outlasts it (KeyOutlivesMembers).                     *)
(*                                                                         *)
(* The breaker's two history variables carry its argument: while nobody    *)
(* has succeeded since the last trip the circuit is open with the whole    *)
(* rest of its recovery time to go, and whatever is in flight while it is  *)
(* open was admitted before.                                               *)
(***************************************************************************)
EXTENDS RateLimiter, CircuitBreaker, FiniteSetTheorems, TLAPS

MembersKept ==
  \A r \in Requests \ unaccounted : pc[r] = "allowed" /\ cutoff < score[r] + Window => r \in log

KeyOutlivesMembers == \A r \in log : score[r] + Window <= expiry

CutoffCoversAnswers == \A r \in Requests : pc[r] = "allowed" => score[r] <= cutoff

IndInv == TypeOK /\ MembersKept /\ KeyOutlivesMembers /\ CutoffCoversAnswers /\ WithinLimit

LEMMA InitInv == Init => IndInv
<1> SUFFICES ASSUME Init PROVE IndInv
  OBVIOUS
<1>1. TypeOK /\ MembersKept /\ KeyOutlivesMembers /\ CutoffCoversAnswers
  BY RateAssumption DEF Init, TypeOK, MembersKept, KeyOutlivesMembers, CutoffCoversAnswers
<1>2. \A t \in 0..MaxTime : Admitted(t) \ unaccounted = {}
  BY DEF Init, Admitted
<1>3. WithinLimit
  BY <1>2, FS_EmptySet, RateAssumption DEF WithinLimit
<1> QED
  BY <1>1, <1>3 DEF IndInv

(* A step that admits no one only shrinks what a window holds. *)
LEMMA NobodyAdmitted ==
  ASSUME IndInv, TypeOK', unaccounted \subseteq unaccounted',
         \A r \in Requests : pc'[r] = "allowed" => pc[r] = "allowed" /\ score'[r] = score[r]
  PROVE  WithinLimit'
<1> SUFFICES ASSUME NEW t \in 0..MaxTime PROVE Cardinality((Admitted(t) \ unaccounted)') <= Limit
  BY DEF WithinLimit
<1> DEFINE sofar == Admitted(t) \ unaccounted
           after == (Admitted(t) \ unaccounted)'
<1>1. after \subseteq sofar
  BY DEF Admitted, InWindow
<1>2. IsFiniteSet(sofar)
  BY FS_Subset, RateAssumption DEF Admitted
<1>3. Cardinality(after) <= Cardinality(sofar) /\ Cardinality(after) \in Nat /\ Cardinality(sofar) \in Nat
  BY <1>1, <1>2, FS_Subset, FS_CardinalityType
<1>4. Cardinality(sofar) <= Limit
  BY DEF IndInv, WithinLimit
<1> QED
  BY <1>3, <1>4, RateAssumption
-----------------------------------------------------------------------------
LEMMA StampPreserves ==
  ASSUME IndInv, NEW r \in Requests, Stamp(r)
  PROVE  IndInv'
<1>1. TypeOK'
  BY RateAssumption DEF IndInv, TypeOK, Stamp, history
<1>2. \A q \in Requests : pc'[q] = "allowed" => pc[q] = "allowed" /\ score'[q] = score[q]
  BY DEF IndInv, TypeOK, Stamp
<1>3. r \notin log
  BY DEF IndInv, TypeOK, Stamp
<1>4. MembersKept' /\ CutoffCoversAnswers'
  BY <1>2 DEF IndInv, MembersKept, CutoffCoversAnswers, Stamp, history
<1>5. KeyOutlivesMembers'
  BY <1>3 DEF IndInv, TypeOK, KeyOutlivesMembers, Stamp
<1>6. WithinLimit'
  BY <1>1, <1>2, NobodyAdmitted DEF Stamp, history
<1> QED
  BY <1>1, <1>4, <1>5, <1>6 DEF IndInv

(* What remains of the set after the trim, with the new member. *)
LEMMA CheckKeepsMembers ==
  ASSUME IndInv, NEW r \in Requests, NEW answered \in BOOLEAN, Check(r, answered)
  PROVE  TypeOK' /\ MembersKept' /\ KeyOutlivesMembers' /\ CutoffCoversAnswers'
<1> USE RateAssumption
<1>1. /\ log' = Trimmed(score[r]) \cup {r}
      /\ expiry' = now + Window
      /\ \E a \in {"open", "over", "allowed"} : pc' = [pc EXCEPT ![r] = a]
      /\ cutoff' = Later(cutoff, score[r])
      /\ unaccounted' = IF score[r] < cutoff THEN unaccounted \cup {r} ELSE unaccounted
      /\ UNCHANGED <<now, score, redisUp>>
  BY DEF Check
<1>2. PICK a \in {"open", "over", "allowed"} : pc' = [pc EXCEPT ![r] = a]
  BY <1>1
<1>3. /\ score \in [Requests -> Nat] /\ pc \in [Requests -> {"new", "stamped", "over", "allowed", "refused", "open"}]
      /\ cutoff \in Nat /\ now \in Nat
      /\ cutoff <= now /\ score[r] <= now
  BY DEF IndInv, TypeOK
<1>4. cutoff' \in Nat /\ cutoff <= cutoff' /\ score[r] <= cutoff' /\ cutoff' <= now
  BY <1>1, <1>3 DEF Later
<1>5. faults' \in 0..MaxFaults
  BY DEF Check, IndInv, TypeOK
<1>6. TypeOK'
  BY <1>1, <1>2, <1>3, <1>4, <1>5 DEF IndInv, TypeOK, Trimmed
<1>7. MembersKept'
  <2> SUFFICES ASSUME NEW q \in Requests \ unaccounted', pc'[q] = "allowed", cutoff' < score[q] + Window
               PROVE  q \in log'
    BY <1>1 DEF MembersKept
  <2>1. CASE q = r
    BY <2>1, <1>1
  <2>2. CASE q # r
    <3>1. q \notin unaccounted /\ pc[q] = "allowed" /\ cutoff < score[q] + Window /\ score[r] < score[q] + Window
      BY <2>2, <1>1, <1>2, <1>3, <1>4
    <3>2. q \in log
      BY <3>1 DEF IndInv, MembersKept
    <3> QED
      BY <3>1, <3>2, <1>1 DEF Trimmed
  <2> QED
    BY <2>1, <2>2
<1>8. KeyOutlivesMembers'
  <2> SUFFICES ASSUME NEW q \in log' PROVE score[q] + Window <= now + Window
    BY <1>1 DEF KeyOutlivesMembers
  <2>1. q \in Requests /\ score[q] <= now
    BY <1>1 DEF Trimmed, IndInv, TypeOK
  <2> QED
    BY <2>1, <1>3
<1>9. CutoffCoversAnswers'
  BY <1>1, <1>2, <1>3, <1>4 DEF IndInv, CutoffCoversAnswers
<1> QED
  BY <1>6, <1>7, <1>8, <1>9

(* The heart of it: whoever shares a window with an admitted request was counted with it. *)
LEMMA CheckStaysWithinLimit ==
  ASSUME IndInv, NEW r \in Requests, NEW answered \in BOOLEAN, Check(r, answered)
  PROVE  WithinLimit'
<1> USE RateAssumption
<1>1. /\ log' = Trimmed(score[r]) \cup {r}
      /\ pc' = [pc EXCEPT ![r] = IF ~answered THEN "open"
                                 ELSE IF Exceeds(Cardinality(log')) THEN "over" ELSE "allowed"]
      /\ unaccounted' = IF score[r] < cutoff THEN unaccounted \cup {r} ELSE unaccounted
      /\ UNCHANGED <<now, score>>
  BY DEF Check
<1>2. TypeOK'
  BY CheckKeepsMembers
<1>3. /\ score \in [Requests -> Nat] /\ pc \in [Requests -> {"new", "stamped", "over", "allowed", "refused", "open"}]
      /\ cutoff \in Nat
  BY DEF IndInv, TypeOK
<1>4. \A q \in Requests \ {r} : pc'[q] = pc[q]
  BY <1>1, <1>3
<1>5. CASE pc'[r] # "allowed"
  BY <1>1, <1>2, <1>4, <1>5, NobodyAdmitted
<1>6. CASE pc'[r] = "allowed" /\ score[r] < cutoff
  <2> SUFFICES ASSUME NEW t \in 0..MaxTime PROVE Cardinality((Admitted(t) \ unaccounted)') <= Limit
    BY DEF WithinLimit
  <2>1. (Admitted(t) \ unaccounted)' = (Admitted(t) \ unaccounted) \ {r}
    BY <1>1, <1>4, <1>6 DEF Admitted, InWindow
  <2>2. pc[r] = "stamped"
    BY DEF Check
  <2>3. (Admitted(t) \ unaccounted)' = Admitted(t) \ unaccounted
    BY <2>1, <2>2 DEF Admitted
  <2> QED
    BY <2>3 DEF IndInv, WithinLimit
<1>7. CASE pc'[r] = "allowed" /\ ~(score[r] < cutoff)
  <2> SUFFICES ASSUME NEW t \in 0..MaxTime PROVE Cardinality((Admitted(t) \ unaccounted)') <= Limit
    BY DEF WithinLimit
  <2> DEFINE sofar == Admitted(t) \ unaccounted
             after == (Admitted(t) \ unaccounted)'
  <2>1. pc[r] = "stamped"
    BY DEF Check
  <2>2. CASE ~InWindow(r, t)
    <3>1. after = sofar
      BY <1>1, <1>4, <1>7, <2>1, <2>2 DEF Admitted, InWindow
    <3> QED
      BY <3>1 DEF IndInv, WithinLimit
  <2>3. CASE InWindow(r, t)
    <3>1. after \subseteq log'
      <4> SUFFICES ASSUME NEW q \in after, q # r PROVE q \in Trimmed(score[r])
        BY <1>1
      <4>1. q \in Requests \ unaccounted /\ pc[q] = "allowed" /\ InWindow(q, t)
        BY <1>1, <1>4, <1>7 DEF Admitted, InWindow
      <4>2. score[r] <= t /\ t < score[q] + Window
        BY <2>3, <4>1 DEF InWindow
      <4>3. score[r] < score[q] + Window /\ cutoff < score[q] + Window
        BY <4>1, <4>2, <1>3, <1>7
      <4>4. q \in log
        BY <4>1, <4>3 DEF IndInv, MembersKept
      <4> QED
        BY <4>3, <4>4 DEF Trimmed
    <3>2. IsFiniteSet(log')
      BY <1>2, FS_Subset DEF TypeOK
    <3>3. Cardinality(log') \in Nat /\ Cardinality(after) \in Nat /\ Cardinality(after) <= Cardinality(log')
      BY <3>1, <3>2, FS_Subset, FS_CardinalityType
    <3>4. ~Exceeds(Cardinality(log'))
      BY <1>1, <1>3, <1>7
    <3> QED
      BY <3>3, <3>4 DEF Exceeds
  <2> QED
    BY <2>2, <2>3
<1> QED
  BY <1>5, <1>6, <1>7

LEMMA UndoPreserves ==
  ASSUME IndInv, NEW r \in Requests, Undo(r)
  PROVE  IndInv'
<1>1. TypeOK'
  BY DEF IndInv, TypeOK, Undo, Undone, history
<1>2. \A q \in Requests : pc'[q] = "allowed" => pc[q] = "allowed" /\ q # r
  BY DEF IndInv, TypeOK, Undo
<1>3. MembersKept' /\ KeyOutlivesMembers' /\ CutoffCoversAnswers'
  BY <1>2 DEF IndInv, MembersKept, KeyOutlivesMembers, CutoffCoversAnswers, Undo, Undone, history
<1>4. WithinLimit'
  BY <1>1, <1>2, NobodyAdmitted DEF Undo, history
<1> QED
  BY <1>1, <1>3, <1>4 DEF IndInv

LEMMA FailOpenPreserves ==
  ASSUME IndInv, NEW r \in Requests, FailOpen(r)
  PROVE  IndInv'
<1>1. TypeOK'
  BY DEF IndInv, TypeOK, FailOpen, history
<1>2. \A q \in Requests : pc'[q] = "allowed" => pc[q] = "allowed"
  BY DEF IndInv, TypeOK, FailOpen
<1>3. MembersKept' /\ KeyOutlivesMembers' /\ CutoffCoversAnswers'
  BY <1>2 DEF IndInv, MembersKept, KeyOutlivesMembers, CutoffCoversAnswers, FailOpen, history
<1>4. WithinLimit'
  BY <1>1, <1>2, NobodyAdmitted DEF FailOpen, history
<1> QED
  BY <1>1, <1>3, <1>4 DEF IndInv

LEMMA GetRemainingPreserves ==
  ASSUME IndInv, GetRemaining
  PROVE  IndInv'
<1> USE RateAssumption
<1>1. TypeOK'
  BY DEF IndInv, TypeOK, GetRemaining, Trimmed
<1>2. MembersKept' /\ KeyOutlivesMembers' /\ CutoffCoversAnswers'
  BY DEF IndInv, TypeOK, MembersKept, KeyOutlivesMembers, CutoffCoversAnswers, GetRemaining, Trimmed
<1>3. WithinLimit'
  BY <1>1, NobodyAdmitted DEF GetRemaining
<1> QED
  BY <1>1, <1>2, <1>3 DEF IndInv

(* When the TTL drops the key, every member has left the window. *)
LEMMA TickPreserves ==
  ASSUME IndInv, Tick
  PROVE  IndInv'
<1> USE RateAssumption
<1>1. TypeOK'
  BY DEF IndInv, TypeOK, Tick
<1>2. CutoffCoversAnswers' /\ KeyOutlivesMembers'
  BY DEF IndInv, TypeOK, CutoffCoversAnswers, KeyOutlivesMembers, Tick
<1>3. MembersKept'
  <2>1. CASE UNCHANGED <<log, cutoff>>
    BY <2>1 DEF Tick, IndInv, MembersKept
  <2>2. CASE log' = {} /\ cutoff' = now + 1 /\ expiry <= now + 1
    <3> SUFFICES ASSUME NEW q \in Requests \ unaccounted, pc[q] = "allowed", now + 1 < score[q] + Window
                 PROVE  FALSE
      BY <2>2 DEF Tick, MembersKept
    <3>1. score[q] \in Nat /\ now \in Nat /\ cutoff \in Nat /\ cutoff <= now /\ expiry \in Nat
      BY DEF IndInv, TypeOK
    <3>2. q \in log
      BY <3>1 DEF IndInv, MembersKept
    <3>3. score[q] + Window <= expiry
      BY <3>2 DEF IndInv, KeyOutlivesMembers
    <3> QED
      BY <2>2, <3>1, <3>3
  <2> QED
    BY <2>1, <2>2 DEF Tick
<1>4. WithinLimit'
  BY <1>1, NobodyAdmitted DEF Tick
<1> QED
  BY <1>1, <1>2, <1>3, <1>4 DEF IndInv

LEMMA RedisPreserves ==
  ASSUME IndInv, RedisUp \/ \E keysSurvive \in Survival : RedisDown(keysSurvive)
  PROVE  IndInv'
<1> USE RateAssumption
<1>1. /\ UNCHANGED <<now, pc, score, expiry, cutoff>>
      /\ \/ UNCHANGED <<log, unaccounted>>
         \/ log' = {} /\ unaccounted' = unaccounted \cup log
  BY DEF RedisUp, RedisDown, history
<1>2. TypeOK'
  <2>1. redisUp' \in BOOLEAN /\ faults' \in 0..MaxFaults
    <3>1. CASE RedisUp
      BY <3>1 DEF RedisUp, IndInv, TypeOK
    <3>2. CASE \E keysSurvive \in Survival : RedisDown(keysSurvive)
      <4>1. redisUp' = FALSE /\ faults < MaxFaults /\ faults' = faults + 1
        BY <3>2 DEF RedisDown
      <4>2. faults \in 0..MaxFaults
        BY DEF IndInv, TypeOK
      <4>3. faults' \in 0..MaxFaults
        BY <4>1, <4>2
      <4> QED
        BY <4>1, <4>3
    <3> QED
      BY <3>1, <3>2
  <2> QED
    BY <1>1, <2>1 DEF IndInv, TypeOK
<1>3. MembersKept' /\ KeyOutlivesMembers' /\ CutoffCoversAnswers'
  BY <1>1 DEF IndInv, MembersKept, KeyOutlivesMembers, CutoffCoversAnswers
<1>4. WithinLimit'
  BY <1>1, <1>2, NobodyAdmitted
<1> QED
  BY <1>2, <1>3, <1>4 DEF IndInv

LEMMA StutterPreserves ==
  ASSUME IndInv, UNCHANGED vars
  PROVE  IndInv'
BY DEF vars, history, IndInv, TypeOK, MembersKept, KeyOutlivesMembers, CutoffCoversAnswers, WithinLimit,
       Admitted, InWindow
-----------------------------------------------------------------------------
(* The inductive invariant. *)
THEOREM Invariance == Spec => []IndInv
<1>1. IndInv /\ [Next]_vars => IndInv'
  <2> SUFFICES ASSUME IndInv, [Next]_vars PROVE IndInv'
    OBVIOUS
  <2>1. ASSUME NEW r \in Requests, NEW answered \in BOOLEAN, Check(r, answered) PROVE IndInv'
    BY <2>1, CheckKeepsMembers, CheckStaysWithinLimit DEF IndInv
  <2>2. CASE \E r \in Requests : IsAllowed(r)
    BY <2>2, <2>1, StampPreserves, UndoPreserves, FailOpenPreserves DEF IsAllowed
  <2>3. CASE GetRemaining \/ Tick
    BY <2>3, GetRemainingPreserves, TickPreserves
  <2>4. CASE RedisUp \/ \E keysSurvive \in Survival : RedisDown(keysSurvive)
    BY <2>4, RedisPreserves
  <2>5. CASE UNCHANGED vars
    BY <2>5, StutterPreserves
  <2> QED
    BY <2>2, <2>3, <2>4, <2>5 DEF Next
<1> QED
  BY InitInv, <1>1, PTL DEF Spec

(* Shapes, and that the ZREM of is_allowed leaves no member of a refused request. *)
THEOREM LimiterTypeCorrect == Spec => []TypeOK
<1>1. IndInv => TypeOK
  BY DEF IndInv
<1> QED
  BY Invariance, <1>1, PTL

(* is_allowed keeps every trailing window within the limit, among the requests that did not
   run behind a later trim and whose entries Redis kept: for every limit and window. *)
THEOREM LimitHolds == Spec => []WithinLimit
<1>1. IndInv => WithinLimit
  BY DEF IndInv
<1> QED
  BY Invariance, <1>1, PTL
-----------------------------------------------------------------------------
(* What earned a refusal of request r: the others that were counted within its window. *)
Seen == {"over", "allowed", "refused", "open"}
Others(r) == {q \in Requests \ {r} : pc[q] \in Seen /\ score[r] < score[q] + Window}

(* Seen requests stay counted, at the time they were counted with. *)
LEMMA OthersStay ==
  ASSUME NEW r \in Requests, Cardinality(Others(r)) >= Limit, score'[r] = score[r],
         \A q \in Requests : pc[q] \in Seen => pc'[q] \in Seen /\ score'[q] = score[q]
  PROVE  Cardinality(Others(r)') >= Limit
<1>1. Others(r) \subseteq Others(r)'
  BY DEF Others
<1>2. IsFiniteSet(Others(r)')
  BY FS_Subset, RateAssumption DEF Others, RateAssumption
<1>3. /\ Cardinality(Others(r)) <= Cardinality(Others(r)')
      /\ Cardinality(Others(r)) \in Nat /\ Cardinality(Others(r)') \in Nat
  BY <1>1, <1>2, FS_Subset, FS_CardinalityType
<1> QED
  BY <1>3, RateAssumption DEF RateAssumption

(* A request is found over the limit because the set held Limit others: each of them had
   been counted, and the trim left only those whose window reaches its timestamp. *)
LEMMA CheckEarns ==
  ASSUME TypeOK, NEW r \in Requests, NEW answered \in BOOLEAN, Check(r, answered), pc'[r] = "over"
  PROVE  Cardinality(Others(r)') >= Limit
<1> USE RateAssumption DEF RateAssumption
<1>1. /\ log' = Trimmed(score[r]) \cup {r} /\ UNCHANGED score
      /\ \A q \in Requests \ {r} : pc'[q] = pc[q]
      /\ Exceeds(Cardinality(log'))
  BY DEF Check, TypeOK
<1>2. log' \ {r} \subseteq Others(r)'
  BY <1>1 DEF Others, Seen, Trimmed, TypeOK
<1>3. IsFiniteSet(log') /\ r \in log'
  BY <1>1, FS_Subset DEF Trimmed, TypeOK
<1>4. Cardinality(log' \ {r}) = Cardinality(log') - 1 /\ Cardinality(log') \in Nat
  BY <1>3, FS_RemoveElement, FS_CardinalityType
<1>5. IsFiniteSet(Others(r)')
  BY FS_Subset DEF Others
<1>6. Cardinality(log' \ {r}) <= Cardinality(Others(r)') /\ Cardinality(Others(r)') \in Nat
  BY <1>2, <1>5, FS_Subset, FS_CardinalityType
<1> QED
  BY <1>1, <1>4, <1>6 DEF Exceeds

LEMMA EarnedNext ==
  ASSUME TypeOK, RefusalsAreEarned, [Next]_vars
  PROVE  RefusalsAreEarned'
<1>1. \A q \in Requests : pc[q] \in Seen => pc'[q] \in Seen /\ score'[q] = score[q]
  BY DEF Next, IsAllowed, Stamp, Check, Undo, FailOpen, GetRemaining, Tick, RedisUp, RedisDown,
         vars, history, TypeOK, Seen
<1>2. SUFFICES ASSUME NEW r \in Requests, pc'[r] \in {"over", "refused"}
               PROVE  Cardinality(Others(r)') >= Limit
  BY DEF RefusalsAreEarned, Others, Seen
<1>3. CASE pc[r] \in {"over", "refused"}
  <2>1. Cardinality(Others(r)) >= Limit
    BY <1>3 DEF RefusalsAreEarned, Others, Seen
  <2>2. score'[r] = score[r]
    BY <1>1, <1>3 DEF Seen
  <2> QED
    BY <1>1, <2>1, <2>2, OthersStay
<1>4. CASE pc[r] \notin {"over", "refused"}
  <2>1. \E answered \in BOOLEAN : Check(r, answered)
    BY <1>2, <1>4 DEF Next, IsAllowed, Stamp, Check, Undo, FailOpen, GetRemaining, Tick, RedisUp,
       RedisDown, vars, history, TypeOK
  <2>2. pc'[r] = "over"
    BY <1>2, <2>1 DEF Check, TypeOK
  <2> QED
    BY <2>1, <2>2, CheckEarns
<1> QED
  BY <1>3, <1>4

(* is_allowed refuses nobody needlessly: whoever is refused had Limit others counted within
   its window, for every limit and window.  With LimitHolds, the trim's boundary is exact. *)
THEOREM RefusalsEarned == Spec => []RefusalsAreEarned
<1>1. Init => RefusalsAreEarned
  BY DEF Init, RefusalsAreEarned
<1>2. TypeOK /\ RefusalsAreEarned /\ [Next]_vars => RefusalsAreEarned'
  BY EarnedNext
<1> QED
  BY <1>1, <1>2, LimiterTypeCorrect, PTL DEF Spec
-----------------------------------------------------------------------------
(* The circuit breaker. *)
(* The recovery time runs with the clock until somebody succeeds. *)
RecoveryRuns == ~heard /\ rest > 0 => state = "open" /\ cooldown = rest

(* An open circuit admits nobody, so who is in flight was admitted before it opened. *)
OpenAdmitsNobody == state = "open" => Calling \subseteq before

BreakerInv == BreakerTypeOK /\ ClosedBelowThreshold /\ RecoveryRuns /\ OpenAdmitsNobody

-----------------------------------------------------------------------------
(* The failure count stays in its range and grows by at most one. *)
LEMMA CountedType ==
  ASSUME BreakerTypeOK
  PROVE  /\ Counted \in 0..Threshold
         /\ Counted < Threshold => Counted = failures + 1
BY BreakerAssumption DEF BreakerTypeOK, Counted, BreakerAssumption

(* The clock stops at zero and keeps the order of what it counts down. *)
LEMMA LessType ==
  ASSUME NEW m \in Nat, NEW n \in 0..m
  PROVE  Less(n) \in 0..m
BY DEF Less

LEMMA BreakerInvInit == BreakerInit => BreakerInv
BY BreakerAssumption DEF BreakerInit, BreakerInv, BreakerTypeOK, ClosedBelowThreshold, RecoveryRuns,
   OpenAdmitsNobody, Calling, BreakerAssumption

(* What _record_failure does to the breaker keeps its part of the invariant, however the
   caller goes on. *)
LEMMA RecordFailureKeeps ==
  ASSUME BreakerInv, NEW c \in Callers, phase[c] = "calling",
         RecordFailure(c)
  PROVE  /\ state' \in {"closed", "open", "half_open"}
         /\ failures' \in 0..Threshold /\ cooldown' \in 0..Recovery
         /\ rest' \in 0..Recovery /\ heard' \in BOOLEAN
         /\ before' \subseteq Calling \ {c}
         /\ ClosedBelowThreshold' /\ RecoveryRuns'
         /\ state' = "open" => Calling \ {c} \subseteq before'
<1> USE BreakerAssumption
<1>1. failures' \in 0..Threshold
  BY CountedType DEF RecordFailure, BreakerInv
<1>2. CASE Trips /\ state' = "open" /\ cooldown' = OpenFor
           /\ before' = Calling \ {c} /\ rest' = Recovery /\ heard' = FALSE
  <2>1. cooldown' = Recovery /\ Recovery \in 0..Recovery
    BY <1>2 DEF BreakerAssumption, OpenFor
  <2>2. ClosedBelowThreshold' /\ RecoveryRuns'
    BY <1>2, <2>1 DEF ClosedBelowThreshold, RecoveryRuns
  <2> QED BY <1>1, <1>2, <2>1, <2>2
<1>3. CASE ~Trips /\ before' = before \ {c} /\ UNCHANGED <<state, cooldown, rest, heard>>
  <2>1. before' \subseteq Calling \ {c}
    BY <1>3 DEF BreakerInv, BreakerTypeOK
  <2>2. ClosedBelowThreshold'
    BY <1>3, CountedType DEF ClosedBelowThreshold, Trips, RecordFailure,
       BreakerInv, BreakerAssumption
  <2>3. RecoveryRuns'
    BY <1>3 DEF RecoveryRuns, BreakerInv
  <2>4. state' = "open" => Calling \ {c} \subseteq before'
    BY <1>3 DEF OpenAdmitsNobody, BreakerInv
  <2> QED BY <1>1, <1>3, <2>1, <2>2, <2>3, <2>4 DEF BreakerInv, BreakerTypeOK
<1> QED BY <1>2, <1>3 DEF RecordFailure

LEMMA BreakerInvNext == BreakerInv /\ [BreakerNext]_breakerVars => BreakerInv'
<1> SUFFICES ASSUME BreakerInv, [BreakerNext]_breakerVars PROVE BreakerInv'
  OBVIOUS
<1> USE BreakerAssumption DEF BreakerInv
<1>1. ASSUME NEW c \in Callers, Start(c) PROVE BreakerInv'
  <2>1. BreakerTypeOK' /\ Calling' = Calling
    BY <1>1 DEF Start, Goto, BreakerTypeOK, Calling, breaker, trip
  <2> QED BY <1>1, <2>1 DEF Start, breaker, trip,
     ClosedBelowThreshold, RecoveryRuns, OpenAdmitsNobody
<1>2. ASSUME NEW c \in Callers, Admit(c) PROVE BreakerInv'
  <2>1. BreakerTypeOK'
    BY <1>2 DEF Admit, OnAdmission, Goto, BreakerTypeOK, Calling, trip
  <2>2. ClosedBelowThreshold'
    BY <1>2 DEF Admit, OnAdmission, ClosedBelowThreshold
  <2>3. RecoveryRuns'
    BY <1>2 DEF Admit, OnAdmission, RecoveryRuns, trip, BreakerTypeOK
  <2>4. OpenAdmitsNobody'
    BY <1>2 DEF Admit, OnAdmission, OpenAdmitsNobody
  <2> QED BY <2>1, <2>2, <2>3, <2>4
<1>3. ASSUME NEW c \in Callers, Reject(c) PROVE BreakerInv'
  <2>1. BreakerTypeOK' /\ Calling' = Calling
    BY <1>3 DEF Reject, CooldownAfterReject, Return, Goto,
       BreakerTypeOK, Calling, trip, BreakerAssumption
  <2> QED BY <1>3, <2>1 DEF Reject, CooldownAfterReject, trip,
     ClosedBelowThreshold, RecoveryRuns, OpenAdmitsNobody
<1>4. ASSUME NEW c \in Callers, Succeed(c) PROVE BreakerInv'
  <2>1. BreakerTypeOK'
    BY <1>4 DEF Succeed, FailuresAfterSuccess, Return, Goto,
       BreakerTypeOK, Calling, BreakerAssumption
  <2> QED BY <1>4, <2>1 DEF Succeed, FailuresAfterSuccess,
     ClosedBelowThreshold, RecoveryRuns, OpenAdmitsNobody, BreakerAssumption
<1>5. ASSUME NEW c \in Callers, FailForGood(c) PROVE BreakerInv'
  <2>1. Calling' = Calling \ {c}
    BY <1>5 DEF FailForGood, Return, Goto, Calling, BreakerTypeOK
  <2>2. BreakerTypeOK'
    BY <1>5, <2>1, RecordFailureKeeps DEF FailForGood, Return, Goto,
       BreakerTypeOK, BreakerAssumption
  <2> QED BY <1>5, <2>1, <2>2, RecordFailureKeeps DEF FailForGood, OpenAdmitsNobody
<1>6. ASSUME NEW c \in Callers, FailAndSleep(c) PROVE BreakerInv'
  <2>1. Calling' = Calling \ {c}
    BY <1>6 DEF FailAndSleep, Goto, Calling, BreakerTypeOK
  <2>2. delay' \in [Callers -> 0..MaxDelay]
    BY <1>6 DEF FailAndSleep, Delays, BreakerTypeOK
  <2>3. BreakerTypeOK'
    BY <1>6, <2>1, <2>2, RecordFailureKeeps DEF FailAndSleep, Goto, BreakerTypeOK
  <2> QED BY <1>6, <2>1, <2>3, RecordFailureKeeps DEF FailAndSleep, OpenAdmitsNobody
<1>7. ASSUME NEW c \in Callers, Wake(c) PROVE BreakerInv'
  <2>1. attempt' \in [Callers -> 0..MaxRetries]
    BY <1>7 DEF Wake, NextAttempt, BreakerTypeOK, BreakerAssumption
  <2>2. \A d \in Callers : phase'[d] = "sleeping" => attempt'[d] < MaxRetries
    BY <1>7 DEF Wake, Goto, BreakerTypeOK
  <2>3. BreakerTypeOK' /\ Calling' = Calling
    BY <1>7, <2>1, <2>2 DEF Wake, Goto, BreakerTypeOK, Calling, breaker, trip
  <2> QED BY <1>7, <2>3 DEF Wake, breaker, trip,
     ClosedBelowThreshold, RecoveryRuns, OpenAdmitsNobody
<1>8. ASSUME NEW c \in Callers, Cancel(c) PROVE BreakerInv'
  <2>1. Calling' = Calling \ {c}
    BY <1>8 DEF Cancel, Goto, Calling, BreakerTypeOK
  <2>2. BreakerTypeOK'
    BY <1>8, <2>1 DEF Cancel, Goto, BreakerTypeOK, breaker, BreakerAssumption
  <2> QED BY <1>8, <2>1, <2>2 DEF Cancel, breaker, ClosedBelowThreshold,
     RecoveryRuns, OpenAdmitsNobody
<1>9. ASSUME Elapse PROVE BreakerInv'
  <2>1. cooldown' \in 0..Recovery /\ rest' \in 0..Recovery
    BY <1>9, LessType DEF Elapse, BreakerTypeOK, BreakerAssumption
  <2>2. delay' \in [Callers -> 0..MaxDelay]
    BY <1>9, LessType DEF Elapse, BreakerTypeOK, BreakerAssumption
  <2>3. BreakerTypeOK' /\ Calling' = Calling
    BY <1>9, <2>1, <2>2 DEF Elapse, BreakerTypeOK, Calling
  <2>4. RecoveryRuns'
    BY <1>9 DEF Elapse, Less, RecoveryRuns, BreakerTypeOK
  <2> QED BY <1>9, <2>3, <2>4 DEF Elapse, ClosedBelowThreshold, OpenAdmitsNobody
<1>10. CASE UNCHANGED breakerVars
  BY <1>10 DEF breakerVars, breaker, caller, trip, BreakerTypeOK,
     ClosedBelowThreshold, RecoveryRuns, OpenAdmitsNobody, Calling
<1> QED
  BY <1>1, <1>2, <1>3, <1>4, <1>5, <1>6, <1>7, <1>8, <1>9, <1>10 DEF BreakerNext, Proceed

LEMMA BreakerAlways == BreakerSpec => []BreakerInv
BY BreakerInvInit, BreakerInvNext, PTL DEF BreakerSpec
-----------------------------------------------------------------------------
(* Breaker and callers keep their shapes, and no sleep is longer than max_delay. *)
THEOREM BreakerTypeCorrect == BreakerSpec => []BreakerTypeOK
<1>1. BreakerInv => BreakerTypeOK
  BY DEF BreakerInv
<1> QED BY <1>1, BreakerAlways, PTL

(* A closed circuit is below its threshold (_record_success, _record_failure). *)
THEOREM ClosedIsBelow == BreakerSpec => []ClosedBelowThreshold
<1>1. BreakerInv => ClosedBelowThreshold
  BY DEF BreakerInv
<1> QED BY <1>1, BreakerAlways, PTL

(* After a trip the service is not called until the recovery time is over or some call
   has succeeded (call, _record_failure). *)
THEOREM TrippedServiceRests == BreakerSpec => ServiceRests
<1> DEFINE Rests == \A c \in Callers : phase[c] # "calling" /\ phase'[c] = "calling" =>
   rest = 0 \/ heard
<1>1. BreakerInv /\ [BreakerNext]_breakerVars => [Rests]_breakerVars
  <2> SUFFICES ASSUME BreakerInv, BreakerNext, NEW c \in Callers, phase[c] # "calling",
     phase'[c] = "calling"
               PROVE  rest = 0 \/ heard
    OBVIOUS
  <2>1. Admit(c)
    <3>1. ~Elapse
      BY DEF Elapse
    <3>2. PICK d \in Callers : Start(d) \/ Proceed(d) \/ Cancel(d)
      BY <3>1 DEF BreakerNext
    <3>3. ~Start(d) /\ ~Cancel(d)
      BY DEF Start, Cancel, Goto, BreakerInv, BreakerTypeOK
    <3>4. ~Reject(d) /\ ~Wake(d) /\ ~Succeed(d) /\
       ~FailForGood(d) /\ ~FailAndSleep(d)
      BY DEF Reject, Wake, Succeed, FailForGood,
         FailAndSleep, Return, Goto, BreakerInv, BreakerTypeOK
    <3>5. Admit(d)
      BY <3>2, <3>3, <3>4 DEF Proceed
    <3> QED BY <3>5 DEF Admit, Goto, BreakerInv, BreakerTypeOK
  <2>2. state = "open" => cooldown = 0
    BY <2>1 DEF Admit
  <2> QED BY <2>2 DEF BreakerInv, RecoveryRuns, BreakerTypeOK
<1> QED BY <1>1, BreakerAlways, PTL DEF BreakerSpec, ServiceRests

(* Only a call in flight at the trip closes an open circuit (_record_success). *)
THEOREM EarlyClosingIsLate == BreakerSpec => OnlyLateAnswersCloseEarly
<1> DEFINE Late == state = "open" /\ state' = "closed" => \E c \in before : phase'[c] # "calling"
<1>1. BreakerInv /\ [BreakerNext]_breakerVars => [Late]_breakerVars
  <2> SUFFICES ASSUME BreakerInv, BreakerNext, state = "open", state' = "closed"
               PROVE  \E c \in before : phase'[c] # "calling"
    OBVIOUS
  <2>1. PICK c \in Callers : Succeed(c)
    BY DEF BreakerNext, Proceed, Start, Admit, OnAdmission,
       Reject, FailForGood, FailAndSleep, RecordFailure,
       Wake, Cancel, Elapse, breaker
  <2>2. c \in before
    BY <2>1 DEF BreakerInv, OpenAdmitsNobody, Calling, Succeed
  <2>3. phase'[c] # "calling"
    BY <2>1 DEF Succeed, Return, Goto, BreakerInv, BreakerTypeOK
  <2> QED BY <2>2, <2>3
<1> QED BY <1>1, BreakerAlways, PTL DEF BreakerSpec, OnlyLateAnswersCloseEarly
=============================================================================
