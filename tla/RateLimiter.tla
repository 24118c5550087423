---------------------------- MODULE RateLimiter ----------------------------
(***************************************************************************)
(* RedisSlidingWindowLimiter (app/core/ratelimit/sliding_window.py) for    *)
(* one key: a Redis sorted set with one member per request, scored by the  *)
(* time the worker read before it sent the pipeline.                       *)
(*                                                                         *)
(* The MULTI/EXEC pipeline is one step, but it does not run when its       *)
(* timestamp was taken, and the ZREM of a refused request is a second      *)
(* round trip.  Keys do not interact: each has a set of its own.           *)
(***************************************************************************)
EXTENDS Naturals, FiniteSets

CONSTANTS
  Requests,    \* calls of is_allowed with this key
  Limit,       \* self.requests
  Window,      \* self.window, in ticks
  Survival,    \* does the set outlive an outage of Redis
  MaxTime,     \* bound: the clock
  MaxFaults    \* bound: outages and lost replies

ASSUME RateAssumption ==
  /\ IsFiniteSet(Requests)
  /\ Limit \in Nat
  /\ Window \in Nat \ {0}
  /\ Survival \in SUBSET BOOLEAN
  /\ MaxTime \in Nat
  /\ MaxFaults \in Nat

VARIABLES
  now,          \* time
  pc,           \* new, stamped, over, then the answer: allowed, refused, open (failed open)
  score,        \* time.time() as the request read it
  log,          \* the sorted set: requests whose member is there
  expiry,       \* when Redis drops the key
  redisUp,
  faults,
  cutoff,       \* history: the latest time from which the set has been trimmed
  unaccounted   \* history: requests that ran behind the cutoff or whose entry Redis lost

history == <<cutoff, unaccounted>>
vars == <<now, pc, score, log, expiry, redisUp, faults, history>>

Init ==
  /\ now = 0
  /\ pc = [r \in Requests |-> "new"]
  /\ score = [r \in Requests |-> 0]
  /\ log = {}
  /\ expiry = 0
  /\ redisUp = TRUE
  /\ faults = 0
  /\ cutoff = 0
  /\ unaccounted = {}

Later(s, t) == IF s < t THEN t ELSE s
-----------------------------------------------------------------------------
(* now = time.time() *)
Stamp(r) ==
  /\ pc[r] = "new"
  /\ pc' = [pc EXCEPT ![r] = "stamped"]
  /\ score' = [score EXCEPT ![r] = now]
  /\ UNCHANGED <<now, log, expiry, redisUp, faults, history>>

(* Wrong variant: an entry is dropped one tick before it leaves the window. *)
TrimmedEarly(t) == {q \in log : score[q] + Window > t + 1}

(* ZREMRANGEBYSCORE key 0 t - window, both ends included *)
Trimmed(t) == {q \in log : score[q] + Window > t}

(* Wrong variant: the window is taken to be full one request too early. *)
ExceedsOrMeets(count) == count >= Limit

Exceeds(count) == count > Limit

(* The pipeline: trim, add, count, expire.  A lost reply fails open all the same. *)
Check(r, answered) ==
  /\ pc[r] = "stamped" /\ redisUp
  /\ log' = Trimmed(score[r]) \cup {r}
  /\ expiry' = now + Window
  /\ pc' = [pc EXCEPT ![r] = IF ~answered THEN "open"
                             ELSE IF Exceeds(Cardinality(log')) THEN "over" ELSE "allowed"]
  /\ ~answered => faults < MaxFaults
  /\ faults' = IF answered THEN faults ELSE faults + 1
  /\ cutoff' = Later(cutoff, score[r])
  /\ unaccounted' = IF score[r] < cutoff THEN unaccounted \cup {r} ELSE unaccounted
  /\ UNCHANGED <<now, score, redisUp>>

(* Wrong variant: the member of a refused request stays. *)
UndoneForgotten(r) == log

Undone(r) == log \ {r}

(* ZREM of the request's own member, then False. *)
Undo(r) ==
  /\ pc[r] = "over" /\ redisUp
  /\ log' = Undone(r)
  /\ pc' = [pc EXCEPT ![r] = "refused"]
  /\ UNCHANGED <<now, score, expiry, redisUp, faults, history>>

(* Any exception, the one of the ZREM included, returns True. *)
FailOpen(r) ==
  /\ pc[r] \in {"stamped", "over"} /\ ~redisUp
  /\ pc' = [pc EXCEPT ![r] = "open"]
  /\ UNCHANGED <<now, score, log, expiry, redisUp, faults, history>>

(* get_remaining, after the response: it trims from its own time. *)
GetRemaining ==
  /\ redisUp
  /\ log' = Trimmed(now)
  /\ cutoff' = now
  /\ UNCHANGED <<now, pc, score, expiry, redisUp, faults, unaccounted>>

(* Time passes; Redis drops the key when its TTL is over. *)
Tick ==
  /\ now < MaxTime
  /\ now' = now + 1
  /\ IF log # {} /\ expiry <= now + 1
     THEN log' = {} /\ cutoff' = now + 1
     ELSE UNCHANGED <<log, cutoff>>
  /\ UNCHANGED <<pc, score, expiry, redisUp, faults, unaccounted>>

RedisDown(keysSurvive) ==
  /\ redisUp /\ faults < MaxFaults
  /\ redisUp' = FALSE
  /\ faults' = faults + 1
  /\ log' = IF keysSurvive THEN log ELSE {}
  /\ unaccounted' = IF keysSurvive THEN unaccounted ELSE unaccounted \cup log
  /\ UNCHANGED <<now, pc, score, expiry, cutoff>>

RedisUp ==
  /\ ~redisUp
  /\ redisUp' = TRUE
  /\ UNCHANGED <<now, pc, score, log, expiry, faults, history>>

IsAllowed(r) ==
  \/ Stamp(r) \/ Undo(r) \/ FailOpen(r)
  \/ \E answered \in BOOLEAN : Check(r, answered)

Next ==
  \/ \E r \in Requests : IsAllowed(r)
  \/ GetRemaining \/ Tick \/ RedisUp
  \/ \E keysSurvive \in Survival : RedisDown(keysSurvive)

Spec == Init /\ [][Next]_vars
-----------------------------------------------------------------------------
(* Shapes; no member of a refused request stays in the set, and nothing is scored or
   trimmed from the future. *)
TypeOK ==
  /\ now \in 0..MaxTime
  /\ pc \in [Requests -> {"new", "stamped", "over", "allowed", "refused", "open"}]
  /\ score \in [Requests -> Nat]
  /\ \A r \in Requests : score[r] <= now
  /\ log \in SUBSET Requests
  /\ \A r \in log : pc[r] \in {"over", "allowed", "open"}
  /\ expiry \in Nat
  /\ redisUp \in BOOLEAN
  /\ faults \in 0..MaxFaults
  /\ cutoff \in Nat /\ cutoff <= now
  /\ unaccounted \in SUBSET Requests

(* The requests that is_allowed admitted and whose timestamps lie in the window ending at t. *)
InWindow(r, t) == score[r] <= t /\ t < score[r] + Window
Admitted(t) == {r \in Requests : pc[r] = "allowed" /\ InWindow(r, t)}

(* No trailing window holds more than Limit admitted requests, whatever expires, is
   trimmed, refused or undone in between, leaving aside the requests whose pipeline ran
   behind a later one's trim (or the key's TTL) and those whose entries Redis lost. *)
WithinLimit == \A t \in 0..MaxTime : Cardinality(Admitted(t) \ unaccounted) <= Limit

(* Nobody is refused needlessly: Limit other requests had been counted no longer than a
   window before.  With the bound above, this pins the trim's boundary from both sides. *)
RefusalsAreEarned ==
  \A r \in Requests : pc[r] \in {"over", "refused"} =>
    Cardinality({q \in Requests \ {r} : /\ pc[q] \in {"over", "allowed", "refused", "open"}
                                        /\ score[r] < score[q] + Window}) >= Limit
=============================================================================
