----------------------------- MODULE AuthzCache -----------------------------
(***************************************************************************)
(* Propagation of authorization changes: app/core/authz_cache (publisher   *)
(* and per-worker cache) and the repository methods that feed it           *)
(* (RoleRepository, UserRepository, TenantRepository).                     *)
(*                                                                         *)
(* A mutation request commits to Postgres and then sends one               *)
(* non-transactional Redis pipeline: for each event a PUBLISH and a write  *)
(* to the Redis mirror.  Every worker runs two asyncio tasks: one applies  *)
(* published events, one periodically replaces the whole in-process cache  *)
(* by what it reads, key after key, from the mirror.                       *)
(*                                                                         *)
(* Postgres, the mirror, a cache and a half-read snapshot are all views: a *)
(* value for every Subject.  0 means "absent from the Redis key": no field *)
(* in the perm_versions hash, or not a member of an inactive_* set.        *)
(***************************************************************************)
EXTENDS Naturals, Sequences, FiniteSets

CONSTANTS
  Users,         \* user rows
  Tenants,       \* tenant rows
  Workers,       \* uvicorn worker processes, one AuthzCache each
  Requests,      \* mutation requests that can be in flight together
  Survival,      \* do the Redis keys outlive an outage: {TRUE} with a volume, else BOOLEAN
  MaxMutations,  \* bound: requests started
  MaxFaults      \* bound: Redis outages plus worker restarts

ASSUME AuthzAssumption ==
  /\ IsFiniteSet(Users)
  /\ Users \cap Tenants = {}
  /\ Survival \in SUBSET BOOLEAN
  /\ MaxMutations \in Nat
  /\ MaxFaults \in Nat

VARIABLES
  db,         \* committed Postgres values: perm_version, or 1 for is_active = false
  committed,  \* history: every value each row has ever been committed with
  pc,         \* of each request: idle, loaded, open, publishing
  events,     \* the row a request has loaded, later the events it publishes
  sent,       \* pipeline commands of the request that Redis has executed
  suspect,    \* history: subjects whose mirror write was lost, overtaken or contradicted
  redisUp,    \* is Redis reachable
  mirror,     \* the three Redis keys
  sub,        \* of each worker's Pub/Sub connection: connecting, live, broken
  channel,    \* messages on that connection not yet applied
  cache,      \* AuthzCache.perm_version, inactive_user_ids, inactive_tenant_ids
  stage,      \* Redis keys the current resync of the worker has read
  snap,       \* what they held
  mutations, faults   \* counters behind the two bounds

requestVars == <<pc, events, sent>>
workerVars == <<sub, channel, cache, stage, snap>>
vars == <<db, committed, requestVars, suspect, redisUp, mirror, workerVars, mutations, faults>>
-----------------------------------------------------------------------------
(* PERM_VERSIONS_KEY, INACTIVE_USERS_KEY, INACTIVE_TENANTS_KEY, in the order
   in which _resync_once reads them. *)
RedisKeys == <<"perm_versions", "inactive_users", "inactive_tenants">>

VersionOf(u) == [key |-> "perm_versions", id |-> u]
UserStatus(u) == [key |-> "inactive_users", id |-> u]
TenantStatus(t) == [key |-> "inactive_tenants", id |-> t]

Versions == [key: {"perm_versions"}, id: Users]
Statuses == [key: {"inactive_users"}, id: Users] \cup [key: {"inactive_tenants"}, id: Tenants]
Subject == Versions \cup Statuses

(* perm_version, user_status and tenant_status events: the subject and its new value. *)
Event == [subject: Subject, value: Nat]

View == [Subject -> Nat]
Empty == [s \in Subject |-> 0]

(* A new user has perm_version 1 and nothing starts inactive. *)
InitialRow(s) == IF s \in Versions THEN 1 ELSE 0

Put(view, e) == [view EXCEPT ![e.subject] = e.value]

(* AuthzCache.__init__: nothing known revoked, no task has run. *)
Init ==
  /\ db = [s \in Subject |-> InitialRow(s)]
  /\ committed = [s \in Subject |-> {InitialRow(s)}]
  /\ pc = [r \in Requests |-> "idle"]
  /\ events = [r \in Requests |-> <<>>]
  /\ sent = [r \in Requests |-> 0]
  /\ suspect = {}
  /\ redisUp = TRUE
  /\ mirror = Empty
  /\ sub = [w \in Workers |-> "connecting"]
  /\ channel = [w \in Workers |-> <<>>]
  /\ cache = [w \in Workers |-> Empty]
  /\ stage = [w \in Workers |-> 0]
  /\ snap = [w \in Workers |-> Empty]
  /\ mutations = 0
  /\ faults = 0
-----------------------------------------------------------------------------
(* Mutations: one request is one database session. *)

(* The rows an uncommitted UPDATE has locked. *)
RowsLockedBy(q) == IF pc[q] = "open" THEN {events[q][i].subject.id : i \in DOMAIN events[q]} ELSE {}
RowFree(r, id) == \A q \in Requests \ {r} : id \notin RowsLockedBy(q)

(* r still has a mirror write for s in its pipeline; command 2i writes event i. *)
WritePending(r, s) ==
  /\ pc[r] = "publishing"
  /\ \E i \in DOMAIN events[r] : 2 * i > sent[r] /\ events[r][i].subject = s

(* The service loads an ORM row (get_by_id_with_grants, get_by_id) and keeps
   using the values it read. *)
LoadRow(r, s) ==
  /\ pc[r] = "idle"
  /\ mutations < MaxMutations
  /\ pc' = [pc EXCEPT ![r] = "loaded"]
  /\ events' = [events EXCEPT ![r] = <<[subject |-> s, value |-> db[s]]>>]
  /\ mutations' = mutations + 1
  /\ UNCHANGED <<db, committed, sent, suspect, redisUp, mirror, workerVars, faults>>

(* _bump_perm_version(_for_role_holders): UPDATE perm_version + 1 RETURNING, in the
   transaction of assign_to_user, remove_from_user, add_permission or
   remove_permission; rows come back in any order. *)
BumpPermVersion(r, us) ==
  /\ pc[r] = "idle"
  /\ mutations < MaxMutations
  /\ \A u \in us : RowFree(r, u)
  /\ pc' = [pc EXCEPT ![r] = "open"]
  /\ \E rows \in {q \in [1..Cardinality(us) -> us] : \A i, j \in DOMAIN q : q[i] = q[j] => i = j} :
       events' = [events EXCEPT ![r] =
         [i \in DOMAIN rows |-> [subject |-> VersionOf(rows[i]), value |-> db[VersionOf(rows[i])] + 1]]]
  /\ mutations' = mutations + 1
  /\ UNCHANGED <<db, committed, sent, suspect, redisUp, mirror, workerVars, faults>>

(* Commit the row values in newDb and go on to publish evs. *)
CommitThenPublish(r, newDb, evs) ==
  LET announced == {evs[i].subject : i \in DOMAIN evs}
      contested == {s \in announced : \E q \in Requests \ {r} : WritePending(q, s)}
      contradicted == {evs[i].subject : i \in {j \in DOMAIN evs : newDb[evs[j].subject] # evs[j].value}}
  IN /\ db' = newDb
     /\ committed' = [s \in Subject |-> committed[s] \cup {newDb[s]}]
     /\ pc' = [pc EXCEPT ![r] = IF evs = <<>> THEN "idle" ELSE "publishing"]
     /\ events' = [events EXCEPT ![r] = evs]
     /\ sent' = [sent EXCEPT ![r] = 0]
     /\ suspect' = (suspect \ announced) \cup contested \cup contradicted
     /\ UNCHANGED <<redisUp, mirror, workerVars, mutations, faults>>

(* The commit of a role mutation. *)
CommitBump(r) ==
  /\ pc[r] = "open"
  /\ CommitThenPublish(r,
       [s \in Subject |-> IF \E i \in DOMAIN events[r] : events[r][i].subject = s
                          THEN db[s] + 1 ELSE db[s]],
       events[r])

(* The ORM flush writes an attribute only when it differs from what was loaded. *)
Flush(loaded, value) == IF loaded.value = value THEN db ELSE [db EXCEPT ![loaded.subject] = value]

CommitRow(r, value) ==
  LET loaded == events[r][1]
  IN /\ RowFree(r, loaded.subject.id)
     /\ CommitThenPublish(r, Flush(loaded, value), <<[subject |-> loaded.subject, value |-> value]>>)

(* UserRepository.grant_permission, revoke_permission *)
GrantPermission(r) ==
  /\ pc[r] = "loaded"
  /\ events[r][1].subject \in Versions
  /\ CommitRow(r, events[r][1].value + 1)

(* UserRepository.set_active, TenantRepository.set_active *)
SetActive(r, isActive) ==
  /\ pc[r] = "loaded"
  /\ events[r][1].subject \in Statuses
  /\ CommitRow(r, IF isActive THEN 0 ELSE 1)

(* Wrong variant: the events are published although the transaction was rolled back. *)
RollbackPublishes(r) ==
  /\ pc[r] \in {"loaded", "open"}
  /\ pc' = [pc EXCEPT ![r] = "publishing"]
  /\ UNCHANGED <<db, committed, events, sent, suspect, redisUp, mirror, workerVars, mutations, faults>>

(* The requests in rs end where they are: what they had not committed is rolled back and
   what they had still to write to the mirror is never written. *)
Abandon(rs) ==
  /\ pc' = [r \in Requests |-> IF r \in rs THEN "idle" ELSE pc[r]]
  /\ events' = [r \in Requests |-> IF r \in rs THEN <<>> ELSE events[r]]
  /\ sent' = [r \in Requests |-> IF r \in rs THEN 0 ELSE sent[r]]
  /\ suspect' = suspect \cup {s \in Subject : \E r \in rs : WritePending(r, s)}

(* An exception or a cancellation before the commit: the session rolls back and nothing
   is published. *)
Rollback(r) ==
  /\ pc[r] \in {"loaded", "open"}
  /\ Abandon({r})
  /\ UNCHANGED <<db, committed, redisUp, mirror, workerVars, mutations, faults>>

(* The request has executed k commands; with the last one it is over. *)
Advance(r, k) ==
  LET done == k = 2 * Len(events[r])
  IN /\ pc' = [pc EXCEPT ![r] = IF done THEN "idle" ELSE "publishing"]
     /\ events' = [events EXCEPT ![r] = IF done THEN <<>> ELSE events[r]]
     /\ sent' = [sent EXCEPT ![r] = IF done THEN 0 ELSE k]

(* publish_events: PUBLISH reaches the connections that are subscribed now. *)
PipelinePublish(r) ==
  /\ pc[r] = "publishing" /\ sent[r] % 2 = 0 /\ redisUp
  /\ channel' = [w \in Workers |-> IF sub[w] = "live"
                                   THEN Append(channel[w], events[r][1 + sent[r] \div 2])
                                   ELSE channel[w]]
  /\ Advance(r, sent[r] + 1)
  /\ UNCHANGED <<db, committed, suspect, redisUp, mirror, sub, cache, stage, snap, mutations, faults>>

(* Wrong variant: activation forgets its SREM. *)
MirrorWriteAddsOnly(view, e) == IF e.value = 0 THEN view ELSE Put(view, e)

(* publish_events: HSET a version, SADD an inactive id or SREM an active one. *)
MirrorWrite(view, e) == Put(view, e)

PipelineWrite(r) ==
  /\ pc[r] = "publishing" /\ sent[r] % 2 = 1 /\ redisUp
  /\ mirror' = MirrorWrite(mirror, events[r][1 + sent[r] \div 2])
  /\ Advance(r, sent[r] + 1)
  /\ UNCHANGED <<db, committed, suspect, redisUp, workerVars, mutations, faults>>

(* After the commit nothing makes the publish happen, whether or not Redis is up: the
   refresh of the row before publish_events may raise, the handler may be cancelled, and
   publish_events logs any exception of the pipeline, such as the one second timeout of its
   socket, and returns.  What Redis has not executed by then is lost.  A pipeline Redis
   still executes after its handler gave up is a request that goes on publishing. *)
PublishFails(r) ==
  /\ pc[r] = "publishing"
  /\ Abandon({r})
  /\ UNCHANGED <<db, committed, redisUp, mirror, workerVars, mutations, faults>>

RequestStep(r) ==
  \/ CommitBump(r) \/ GrantPermission(r) \/ \E isActive \in BOOLEAN : SetActive(r, isActive)
  \/ PipelinePublish(r) \/ PipelineWrite(r) \/ PublishFails(r)
-----------------------------------------------------------------------------
(* Redis.  docker-compose.yml gives it no volume: an outage may lose the keys. *)

RedisDown(keysSurvive) ==
  /\ redisUp /\ faults < MaxFaults
  /\ redisUp' = FALSE
  /\ faults' = faults + 1
  /\ mirror' = IF keysSurvive THEN mirror ELSE Empty
  /\ suspect' = IF keysSurvive THEN suspect ELSE suspect \cup {s \in Subject : mirror[s] # 0}
  /\ sub' = [w \in Workers |-> IF sub[w] = "live" THEN "broken" ELSE sub[w]]
  /\ UNCHANGED <<db, committed, requestVars, channel, cache, stage, snap, mutations>>

RedisUp ==
  /\ ~redisUp
  /\ redisUp' = TRUE
  /\ UNCHANGED <<db, committed, requestVars, suspect, mirror, workerVars, mutations, faults>>
-----------------------------------------------------------------------------
(* AuthzCache: the two background tasks of a worker. *)

Subscribe(w) ==
  /\ sub[w] = "connecting" /\ redisUp
  /\ sub' = [sub EXCEPT ![w] = "live"]
  /\ UNCHANGED <<db, committed, requestVars, suspect, redisUp, mirror, channel, cache, stage, snap, mutations, faults>>

(* _apply_event: a blind overwrite, whatever the cache holds. *)
ApplyEvent(w) ==
  /\ channel[w] # <<>>
  /\ cache' = [cache EXCEPT ![w] = Put(cache[w], Head(channel[w]))]
  /\ channel' = [channel EXCEPT ![w] = Tail(channel[w])]
  /\ UNCHANGED <<db, committed, requestVars, suspect, redisUp, mirror, sub, stage, snap, mutations, faults>>

(* listen() raises: what the connection still held is gone, the loop reconnects. *)
ListenFails(w) ==
  /\ sub[w] = "broken"
  /\ sub' = [sub EXCEPT ![w] = "connecting"]
  /\ channel' = [channel EXCEPT ![w] = <<>>]
  /\ UNCHANGED <<db, committed, requestVars, suspect, redisUp, mirror, cache, stage, snap, mutations, faults>>

SubscribeLoop(w) == Subscribe(w) \/ ApplyEvent(w) \/ ListenFails(w)

(* Wrong variant: the cursor over the keys is not reset when all are read. *)
NextStageForgetsReset(k) == k + 1

(* Position in RedisKeys after the k + 1st key is read; 0 = waiting for the timer. *)
NextStage(k) == (k + 1) % Len(RedisKeys)

(* Wrong variant: what was read is merged into the cache instead of replacing it. *)
ResyncResultMerged(view, read) == [s \in Subject |-> IF read[s] = 0 THEN view[s] ELSE read[s]]

(* The three assignments of _resync_once replace what the cache held. *)
ResyncResult(view, read) == read

(* _resync_once: one await per key; the last read is followed, with no await in
   between, by the assignments that replace all three structures. *)
ResyncRead(w) ==
  LET read == [s \in Subject |-> IF s.key = RedisKeys[stage[w] + 1] THEN mirror[s] ELSE snap[w][s]]
      last == stage[w] + 1 = Len(RedisKeys)
  IN /\ redisUp
     /\ stage' = [stage EXCEPT ![w] = NextStage(stage[w])]
     /\ snap' = [snap EXCEPT ![w] = IF last THEN Empty ELSE read]
     /\ cache' = [cache EXCEPT ![w] = IF last THEN ResyncResult(cache[w], read) ELSE cache[w]]
     /\ UNCHANGED <<db, committed, requestVars, suspect, redisUp, mirror, sub, channel, mutations, faults>>

(* _resync_once: any exception keeps the last-known state. *)
ResyncFails(w) ==
  /\ ~redisUp /\ stage[w] # 0
  /\ stage' = [stage EXCEPT ![w] = 0]
  /\ snap' = [snap EXCEPT ![w] = Empty]
  /\ UNCHANGED <<db, committed, requestVars, suspect, redisUp, mirror, sub, channel, cache, mutations, faults>>

ResyncLoop(w) == ResyncRead(w) \/ ResyncFails(w)

(* The process stops and a new one starts cold (lifespan: stop, start).  The requests it
   was serving die with it; which ones those are is not modelled, so they may be any. *)
RestartWorker(w, served) ==
  /\ faults < MaxFaults
  /\ faults' = faults + 1
  /\ Abandon(served)
  /\ sub' = [sub EXCEPT ![w] = "connecting"]
  /\ channel' = [channel EXCEPT ![w] = <<>>]
  /\ cache' = [cache EXCEPT ![w] = Empty]
  /\ stage' = [stage EXCEPT ![w] = 0]
  /\ snap' = [snap EXCEPT ![w] = Empty]
  /\ UNCHANGED <<db, committed, redisUp, mirror, mutations>>
-----------------------------------------------------------------------------
Next ==
  \/ \E r \in Requests :
       \/ \E s \in Subject : LoadRow(r, s)
       \/ \E us \in SUBSET Users : BumpPermVersion(r, us)
       \/ Rollback(r)
       \/ RequestStep(r)
  \/ \E keysSurvive \in Survival : RedisDown(keysSurvive)
  \/ RedisUp
  \/ \E w \in Workers :
       \/ SubscribeLoop(w)
       \/ ResyncLoop(w)
       \/ \E served \in SUBSET {r \in Requests : pc[r] # "idle"} : RestartWorker(w, served)

(* Handlers run to completion and both tasks of a worker keep being scheduled. *)
Fairness ==
  /\ \A r \in Requests : WF_vars(RequestStep(r))
  /\ \A w \in Workers : WF_vars(SubscribeLoop(w)) /\ WF_vars(ResyncLoop(w))

Spec == Init /\ [][Next]_vars
FairSpec == Spec /\ Fairness
-----------------------------------------------------------------------------
(* What the request path concludes from a cache: _authenticate over
   is_user_inactive, is_tenant_inactive and is_stale. *)
IsUserInactive(view, u) == view[UserStatus(u)] = 1
IsTenantInactive(view, t) == view[TenantStatus(t)] = 1
IsStale(view, u, version) == view[VersionOf(u)] # 0 /\ version < view[VersionOf(u)]
Authenticate(view, u, t, version) ==
  ~IsUserInactive(view, u) /\ ~IsTenantInactive(view, t) /\ ~IsStale(view, u, version)
-----------------------------------------------------------------------------
TypeOK ==
  /\ db \in View
  /\ committed \in [Subject -> SUBSET Nat]
  /\ pc \in [Requests -> {"idle", "loaded", "open", "publishing"}]
  /\ events \in [Requests -> Seq(Event)]
  /\ sent \in [Requests -> Nat]
  /\ suspect \in SUBSET Subject
  /\ redisUp \in BOOLEAN
  /\ mirror \in View
  /\ sub \in [Workers -> {"connecting", "live", "broken"}]
  /\ channel \in [Workers -> Seq(Event)]
  /\ cache \in [Workers -> View]
  /\ stage \in [Workers -> 0..2]
  /\ snap \in [Workers -> View]
  /\ mutations \in 0..MaxMutations
  /\ faults \in 0..MaxFaults

(* Nothing is announced that could still roll back: every value a subscriber can
   receive, the mirror holds, a resync has read or a worker decides by was
   committed to Postgres at some time (the comment above
   RoleRepository._bump_perm_version). *)
CommittedOrAbsent(view) == \A s \in Subject : view[s] \in committed[s] \cup {0}

NeverAnnounceUncommitted ==
  /\ CommittedOrAbsent(mirror)
  /\ \A w \in Workers :
       /\ CommittedOrAbsent(cache[w])
       /\ CommittedOrAbsent(snap[w])
       /\ \A i \in DOMAIN channel[w] : channel[w][i].value \in committed[channel[w][i].subject]
  /\ \A r \in Requests : pc[r] = "publishing" =>
       \A i \in DOMAIN events[r] : events[r][i].value \in committed[events[r][i].subject]

(* A view that decides like the database does: absent stands for a row never changed. *)
Agrees(view, s) == view[s] = db[s] \/ (view[s] = 0 /\ db[s] = InitialRow(s))

(* The mirror that every resync trusts equals the database for a subject that no
   request is publishing, unless, since the subject's last undisturbed mutation, a request
   ended between its commit and its mirror write (for whatever reason, Redis up or down),
   Redis lost its keys, two requests published the subject at once, or a set_active
   announced a value its flush did not write.  The mutating methods of the repositories
   and publish_events can leave the mirror wrong in no other way, and the next undisturbed
   mutation of the subject repairs it. *)
MirrorFollowsDatabase ==
  \A s \in Subject \ suspect :
    (\A r \in Requests : ~WritePending(r, s)) => Agrees(mirror, s)

(* Once Redis stays reachable, every worker ends up, for good, with exactly what the
   mirror holds: late messages, snapshots read across awaits, lost subscriptions and
   cold starts are all repaired by the resync. *)
CachesConvergeToMirror == <>[]redisUp => <>[](\A w \in Workers : cache[w] = mirror)

(* Claimed by the log line of publish_events' exception handler ("Authz cache publish
   failed, relying on 15s anti-entropy resync"): once Redis stays reachable a worker ends
   up admitting exactly the tokens the database would admit, even when publishes failed. *)
ResyncRecoversLostPublish ==
  <>[]redisUp =>
    <>[](\A w \in Workers, u \in Users, t \in Tenants : \A version \in committed[VersionOf(u)] :
           Authenticate(cache[w], u, t, version) = Authenticate(db, u, t, version))
=============================================================================
