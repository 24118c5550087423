-------------------------- MODULE AuthzCacheProofs --------------------------
(***************************************************************************)
(* Proofs about AuthzCache, for any users, tenants, workers, requests and  *)
(* bounds: type correctness, NeverAnnounceUncommitted and                  *)
(* MirrorFollowsDatabase.  The inductive invariant adds to these what the  *)
(* requests in flight guarantee: the shape of their pipelines, the row     *)
(* locks of their open transactions, and that an unsuspected subject has   *)
(* at most one pending mirror write, of the database's value.              *)
(***************************************************************************)
EXTENDS AuthzCache, FiniteSetTheorems, SequenceTheorems, TLAPS

(* Pipelines: progress within bounds, one event per subject, one loaded row. *)
PipelineShape ==
  \A r \in Requests :
    /\ pc[r] # "publishing" => sent[r] = 0
    /\ pc[r] = "loaded" => Len(events[r]) = 1
    /\ pc[r] = "publishing" => sent[r] < 2 * Len(events[r])
    /\ \A i, j \in DOMAIN events[r] : events[r][i].subject = events[r][j].subject => i = j

(* Open transactions hold disjoint row locks, so what RETURNING reported stays true. *)
RowLocks ==
  /\ \A r \in Requests : pc[r] = "open" =>
       \A i \in DOMAIN events[r] : events[r][i].value = db[events[r][i].subject] + 1
  /\ \A r, q \in Requests : r # q /\ pc[r] = "open" /\ pc[q] = "open" =>
       \A i \in DOMAIN events[r], j \in DOMAIN events[q] :
         events[r][i].subject.id # events[q][j].subject.id

(* The database holds committed values, and so does every loaded row. *)
ReadsAreCommitted ==
  /\ \A s \in Subject : db[s] \in committed[s]
  /\ \A r \in Requests : pc[r] = "loaded" =>
       events[r][1].value \in committed[events[r][1].subject]

(* An unsuspected subject has at most one pending mirror write, of the database's value. *)
PendingIsCurrent ==
  \A s \in Subject \ suspect :
    /\ \A r \in Requests : WritePending(r, s) =>
         \A i \in DOMAIN events[r] : events[r][i].subject = s => events[r][i].value = db[s]
    /\ \A r, q \in Requests : WritePending(r, s) /\ WritePending(q, s) => r = q

IndInv ==
  /\ TypeOK
  /\ PipelineShape
  /\ RowLocks
  /\ ReadsAreCommitted
  /\ NeverAnnounceUncommitted
  /\ PendingIsCurrent
  /\ MirrorFollowsDatabase
-----------------------------------------------------------------------------
(* Subjects are not shared between the three Redis keys, and every key's subject has an id. *)
LEMMA SubjectFacts ==
  /\ \A u \in Users : VersionOf(u) \in Versions /\ VersionOf(u).id = u
  /\ \A s \in Versions : s \in Subject /\ s.id \in Users /\ s = VersionOf(s.id)
  /\ \A u, v \in Users : VersionOf(u) = VersionOf(v) => u = v
  /\ \A s \in Subject : InitialRow(s) \in Nat
BY DEF VersionOf, Versions, Subject, InitialRow

(* A function on 1..n is a sequence. *)
LEMMA FunctionIsSeq ==
  ASSUME NEW S, NEW n \in Nat, NEW f \in [1..n -> S]
  PROVE  f \in Seq(S)
<1>1. Seq(S) = UNION {[1..m -> S] : m \in Nat}
  BY SeqDef
<1>2. [1..n -> S] \in {[1..m -> S] : m \in Nat}
  OBVIOUS
<1> QED
  BY <1>1, <1>2

(* Elements of well-typed pipelines and channels are events about subjects. *)
LEMMA EventTyping ==
  ASSUME NEW evs \in Seq(Event), NEW i \in DOMAIN evs
  PROVE  i \in Nat \ {0} /\ i <= Len(evs) /\ evs[i] \in Event /\ evs[i].subject \in Subject /\ evs[i].value \in Nat
<1>1. i \in Nat \ {0} /\ i <= Len(evs) /\ evs[i] \in Event
  OBVIOUS
<1> QED
  BY <1>1 DEF Event

(* Initially nothing is in flight and every view is empty. *)
LEMMA InitEstablishes == Init => IndInv
<1> SUFFICES ASSUME Init PROVE IndInv
  OBVIOUS
<1>1. TypeOK
  BY SubjectFacts, AuthzAssumption DEF Init, TypeOK, View, Empty
<1>2. PipelineShape /\ RowLocks
  BY DEF Init, PipelineShape, RowLocks
<1>3. ReadsAreCommitted
  BY DEF Init, ReadsAreCommitted
<1>4. NeverAnnounceUncommitted
  BY DEF Init, NeverAnnounceUncommitted, CommittedOrAbsent, Empty
<1>5. PendingIsCurrent
  BY DEF Init, PendingIsCurrent, WritePending
<1>6. MirrorFollowsDatabase
  BY DEF Init, MirrorFollowsDatabase, Agrees, Empty
<1> QED
  BY <1>1, <1>2, <1>3, <1>4, <1>5, <1>6 DEF IndInv
-----------------------------------------------------------------------------
(* Steps of a worker and RedisUp leave the database, the requests and the mirror alone,
   so everything about pipelines, locks and pending writes carries over. *)
LEMMA RequestsUntouched ==
  ASSUME IndInv, UNCHANGED <<db, committed, requestVars, suspect, mirror>>
  PROVE  PipelineShape' /\ RowLocks' /\ ReadsAreCommitted' /\ PendingIsCurrent' /\ MirrorFollowsDatabase'
<1>1. UNCHANGED <<pc, events, sent>>
  BY DEF requestVars
<1>2. PipelineShape' /\ RowLocks' /\ ReadsAreCommitted'
  BY <1>1 DEF IndInv, PipelineShape, RowLocks, ReadsAreCommitted
<1>3. PendingIsCurrent' /\ MirrorFollowsDatabase'
  BY <1>1 DEF IndInv, PendingIsCurrent, MirrorFollowsDatabase, WritePending, Agrees
<1> QED
  BY <1>2, <1>3

(* _subscribe_loop and _resync_loop only move committed values into a cache. *)
LEMMA WorkerStepPreserves ==
  ASSUME IndInv, NEW w \in Workers, SubscribeLoop(w) \/ ResyncLoop(w)
  PROVE  IndInv'
<1> USE DEF IndInv, TypeOK, View, NeverAnnounceUncommitted, CommittedOrAbsent
<1>0. UNCHANGED <<db, committed, requestVars, suspect, redisUp, mirror, mutations>>
  BY DEF SubscribeLoop, ResyncLoop, Subscribe, ApplyEvent, ListenFails, ResyncRead, ResyncFails
<1>1. UNCHANGED <<pc, events, sent>>
  BY <1>0 DEF requestVars
<1>2. Empty \in View /\ CommittedOrAbsent(Empty)
  BY DEF Empty
<1>3. TypeOK' /\ NeverAnnounceUncommitted'
  <2>1. CASE Subscribe(w)
    BY <1>0, <1>1, <2>1 DEF Subscribe
  <2>2. CASE ApplyEvent(w)
    <3> DEFINE e == Head(channel[w])
    <3>1. /\ channel[w] \in Seq(Event) /\ channel[w] # <<>>
          /\ channel' = [channel EXCEPT ![w] = Tail(channel[w])]
          /\ cache' = [cache EXCEPT ![w] = Put(cache[w], e)]
          /\ UNCHANGED <<sub, stage, snap, faults>>
      BY <2>2 DEF ApplyEvent
    <3>2. e \in Event /\ e.value \in committed[e.subject]
      BY <3>1
    <3>3. /\ Tail(channel[w]) \in Seq(Event)
          /\ \A i \in DOMAIN Tail(channel[w]) :
               Tail(channel[w])[i].value \in committed[Tail(channel[w])[i].subject]
      BY <3>1
    <3>4. Put(cache[w], e) \in View /\ CommittedOrAbsent(Put(cache[w], e))
      BY <3>2 DEF Put, Event
    <3> HIDE DEF e
    <3>5. TypeOK'
      BY <1>0, <1>1, <3>1, <3>3, <3>4
    <3>6. NeverAnnounceUncommitted'
      <4>1. \A v \in Workers : CommittedOrAbsent(cache'[v])
        BY <3>1, <3>4
      <4>2. \A v \in Workers : \A i \in DOMAIN channel'[v] :
              channel'[v][i].value \in committed[channel'[v][i].subject]
        BY <3>1, <3>3
      <4> QED
        BY <1>0, <1>1, <3>1, <4>1, <4>2
    <3> QED
      BY <3>5, <3>6
  <2>3. CASE ListenFails(w)
    BY <1>0, <1>1, <2>3 DEF ListenFails
  <2>4. CASE ResyncRead(w)
    <3> DEFINE read == [s \in Subject |->
                          IF s.key = RedisKeys[stage[w] + 1] THEN mirror[s] ELSE snap[w][s]]
    <3>1. read \in View /\ CommittedOrAbsent(read)
      OBVIOUS
    <3>2. /\ cache' = [cache EXCEPT ![w] = read] \/ cache' = cache
          /\ snap' = [snap EXCEPT ![w] = read] \/ snap' = [snap EXCEPT ![w] = Empty]
          /\ stage' = [stage EXCEPT ![w] = (stage[w] + 1) % 3]
          /\ UNCHANGED <<sub, channel, faults>>
      BY <2>4 DEF ResyncRead, NextStage, RedisKeys, ResyncResult
    <3> HIDE DEF read
    <3>3. stage' \in [Workers -> 0..2]
      <4>1. stage[w] \in 0..2
        OBVIOUS
      <4>2. (stage[w] + 1) % 3 \in 0..2
        <5>1. \A i \in 0..2 : (i + 1) % 3 \in 0..2
          OBVIOUS
        <5> QED
          BY <4>1, <5>1
      <4> QED
        BY <3>2, <4>2
    <3>4. cache' \in [Workers -> View] /\ snap' \in [Workers -> View]
      <4>1. cache' \in [Workers -> View]
        BY <3>1, <3>2
      <4>2. snap' \in [Workers -> View]
        BY <1>2, <3>1, <3>2
      <4> QED
        BY <4>1, <4>2
    <3>5. \A v \in Workers : CommittedOrAbsent(cache'[v]) /\ CommittedOrAbsent(snap'[v])
      BY <1>2, <3>1, <3>2
    <3> QED
      BY <1>0, <1>1, <3>2, <3>3, <3>4, <3>5
  <2>5. CASE ResyncFails(w)
    BY <1>0, <1>1, <1>2, <2>5 DEF ResyncFails
  <2> QED
    BY <2>1, <2>2, <2>3, <2>4, <2>5 DEF SubscribeLoop, ResyncLoop
<1> QED
  BY <1>0, <1>3, RequestsUntouched

(* An outage, whether or not the keys survive it, and the recovery. *)
LEMMA RedisStepPreserves ==
  ASSUME IndInv, (\E keysSurvive \in Survival : RedisDown(keysSurvive)) \/ RedisUp
  PROVE  IndInv'
<1> USE DEF IndInv, TypeOK, View, NeverAnnounceUncommitted, CommittedOrAbsent
<1>1. CASE RedisUp
  <2>1. UNCHANGED <<db, committed, requestVars, suspect, mirror, workerVars, mutations, faults>> /\ redisUp' = TRUE
    BY <1>1 DEF RedisUp
  <2>2. TypeOK' /\ NeverAnnounceUncommitted'
    BY <2>1 DEF requestVars, workerVars
  <2> QED
    BY <2>1, <2>2, RequestsUntouched
<1>2. ASSUME NEW keysSurvive \in Survival, RedisDown(keysSurvive)
      PROVE  IndInv'
  <2>1. /\ redisUp' = FALSE /\ faults < MaxFaults /\ faults' = faults + 1
        /\ mirror' = IF keysSurvive THEN mirror ELSE Empty
        /\ suspect' = IF keysSurvive THEN suspect ELSE suspect \cup {s \in Subject : mirror[s] # 0}
        /\ sub' = [v \in Workers |-> IF sub[v] = "live" THEN "broken" ELSE sub[v]]
        /\ UNCHANGED <<db, committed, pc, events, sent, channel, cache, stage, snap, mutations>>
    BY <1>2 DEF RedisDown, requestVars
  <2>2. mirror' \in View /\ CommittedOrAbsent(mirror')
    BY <2>1 DEF Empty
  <2>3. TypeOK'
    <3>1. sub' \in [Workers -> {"connecting", "live", "broken"}]
      BY <2>1
    <3>2. faults' \in 0..MaxFaults
      BY <2>1, AuthzAssumption
    <3>3. suspect' \in SUBSET Subject
      BY <2>1
    <3> QED
      BY <2>1, <2>2, <3>1, <3>2, <3>3
  <2>4. NeverAnnounceUncommitted'
    BY <2>1, <2>2
  <2>5. PipelineShape' /\ RowLocks' /\ ReadsAreCommitted'
    BY <2>1 DEF PipelineShape, RowLocks, ReadsAreCommitted
  <2>6. \A s \in Subject \ suspect' : s \notin suspect /\ mirror'[s] = mirror[s]
    <3>1. CASE keysSurvive
      BY <2>1, <3>1
    <3>2. CASE ~keysSurvive
      BY <2>1, <3>2 DEF Empty
    <3> QED
      BY <3>1, <3>2
  <2>7. \A r \in Requests, s \in Subject : WritePending(r, s)' = WritePending(r, s)
    BY <2>1 DEF WritePending
  <2>8. PendingIsCurrent'
    BY <2>1, <2>6, <2>7 DEF PendingIsCurrent
  <2>9. MirrorFollowsDatabase'
    BY <2>1, <2>6, <2>7 DEF MirrorFollowsDatabase, Agrees
  <2> QED
    BY <2>3, <2>4, <2>5, <2>8, <2>9
<1> QED
  BY <1>1, <1>2
-----------------------------------------------------------------------------
(* A step that starts or abandons request r without committing: no view, no committed
   value and no pending write changes. *)
LEMMA UncommittedStep ==
  ASSUME IndInv, NEW r \in Requests, pc[r] # "publishing",
         NEW k \in {"idle", "loaded", "open"}, NEW evs \in Seq(Event),
         pc' = [pc EXCEPT ![r] = k], events' = [events EXCEPT ![r] = evs],
         mutations' \in 0..MaxMutations,
         UNCHANGED <<db, committed, sent, suspect, redisUp, mirror, workerVars, faults>>
  PROVE  TypeOK' /\ NeverAnnounceUncommitted' /\ PendingIsCurrent' /\ MirrorFollowsDatabase'
<1> USE DEF IndInv, TypeOK
<1>1. TypeOK'
  BY DEF workerVars
<1>2. \A q \in Requests : q # r => pc'[q] = pc[q] /\ events'[q] = events[q]
  OBVIOUS
<1>3. pc'[r] = k
  OBVIOUS
<1>4. NeverAnnounceUncommitted'
  BY <1>2, <1>3 DEF NeverAnnounceUncommitted, CommittedOrAbsent, workerVars
<1>5. \A q \in Requests, s \in Subject : WritePending(q, s)' = WritePending(q, s)
  BY <1>2, <1>3 DEF WritePending
<1>6. PendingIsCurrent'
  <2>1. \A q \in Requests, s \in Subject : WritePending(q, s) => q # r
    BY DEF WritePending
  <2> QED
    BY <1>2, <1>5, <2>1 DEF PendingIsCurrent
<1>7. MirrorFollowsDatabase'
  BY <1>5 DEF MirrorFollowsDatabase, Agrees
<1> QED
  BY <1>1, <1>4, <1>6, <1>7

(* Loading a row for a later commit. *)
LEMMA LoadRowPreserves ==
  ASSUME IndInv, NEW r \in Requests, NEW s \in Subject, LoadRow(r, s)
  PROVE  IndInv'
<1> DEFINE evs == <<[subject |-> s, value |-> db[s]]>>
<1> USE DEF IndInv, TypeOK
<1>1. /\ pc[r] = "idle" /\ pc' = [pc EXCEPT ![r] = "loaded"]
      /\ events' = [events EXCEPT ![r] = evs]
      /\ mutations' \in 0..MaxMutations
      /\ UNCHANGED <<db, committed, sent, suspect, redisUp, mirror, workerVars, faults>>
  BY AuthzAssumption DEF LoadRow
<1>2. evs \in Seq(Event) /\ Len(evs) = 1 /\ DOMAIN evs = {1}
  BY DEF Event, View
<1>3. TypeOK' /\ NeverAnnounceUncommitted' /\ PendingIsCurrent' /\ MirrorFollowsDatabase'
  BY <1>1, <1>2, UncommittedStep
<1>4. \A q \in Requests : q # r => pc'[q] = pc[q] /\ events'[q] = events[q]
  BY <1>1
<1>5. pc'[r] = "loaded" /\ events'[r] = evs
  BY <1>1
<1>6. evs[1].subject = s /\ evs[1].value = db[s]
  OBVIOUS
<1> HIDE DEF evs
<1>7. PipelineShape'
  BY <1>1, <1>2, <1>4, <1>5 DEF PipelineShape
<1>8. RowLocks'
  BY <1>1, <1>4, <1>5 DEF RowLocks
<1>9. ReadsAreCommitted'
  BY <1>1, <1>4, <1>5, <1>6 DEF ReadsAreCommitted
<1> QED
  BY <1>3, <1>7, <1>8, <1>9

(* UPDATE ... RETURNING locks its rows; nothing is visible to others yet. *)
LEMMA BumpPreserves ==
  ASSUME IndInv, NEW r \in Requests, NEW us \in SUBSET Users, BumpPermVersion(r, us)
  PROVE  IndInv'
<1> USE DEF IndInv, TypeOK
<1>1. PICK rows \in {q \in [1..Cardinality(us) -> us] : \A i, j \in DOMAIN q : q[i] = q[j] => i = j} :
        events' = [events EXCEPT ![r] =
          [i \in DOMAIN rows |-> [subject |-> VersionOf(rows[i]), value |-> db[VersionOf(rows[i])] + 1]]]
  BY DEF BumpPermVersion
<1> DEFINE evs == [i \in DOMAIN rows |-> [subject |-> VersionOf(rows[i]), value |-> db[VersionOf(rows[i])] + 1]]
<1>2. /\ pc[r] = "idle" /\ pc' = [pc EXCEPT ![r] = "open"]
      /\ events' = [events EXCEPT ![r] = evs]
      /\ \A u \in us : RowFree(r, u)
      /\ mutations' \in 0..MaxMutations
      /\ UNCHANGED <<db, committed, sent, suspect, redisUp, mirror, workerVars, faults>>
  <2>1. pc[r] = "idle" /\ pc' = [pc EXCEPT ![r] = "open"] /\ \A u \in us : RowFree(r, u)
    BY DEF BumpPermVersion
  <2>2. mutations' = mutations + 1 /\ mutations < MaxMutations
    BY DEF BumpPermVersion
  <2>3. UNCHANGED <<db, committed, sent, suspect, redisUp, mirror, workerVars, faults>>
    BY DEF BumpPermVersion
  <2>4. mutations' \in 0..MaxMutations
    BY <2>2, AuthzAssumption
  <2> QED
    BY <1>1, <2>1, <2>3, <2>4
<1>3. Cardinality(us) \in Nat
  BY AuthzAssumption, FS_Subset, FS_CardinalityType
<1>4. \A i \in DOMAIN rows : rows[i] \in us /\ VersionOf(rows[i]) \in Subject
  BY SubjectFacts
<1>5. evs \in Seq(Event) /\ DOMAIN evs = DOMAIN rows
  <2>1. \A i \in DOMAIN rows :
          [subject |-> VersionOf(rows[i]), value |-> db[VersionOf(rows[i])] + 1] \in Event
    BY <1>4 DEF Event, View
  <2>2. DOMAIN rows = 1..Cardinality(us)
    OBVIOUS
  <2>3. evs \in [1..Cardinality(us) -> Event]
    BY <2>1, <2>2
  <2>4. DOMAIN evs = DOMAIN rows
    OBVIOUS
  <2> HIDE DEF evs
  <2>5. evs \in Seq(Event)
    BY <1>3, <2>3, FunctionIsSeq
  <2> QED
    BY <2>4, <2>5
<1>6. \A i \in DOMAIN evs : /\ evs[i].subject = VersionOf(rows[i])
                            /\ evs[i].value = db[evs[i].subject] + 1
                            /\ evs[i].subject.id \in us
  BY <1>4, <1>5, SubjectFacts
<1>7. \A i, j \in DOMAIN evs : evs[i].subject = evs[j].subject => i = j
  BY <1>4, <1>5, <1>6, SubjectFacts
<1> HIDE DEF evs
<1>8. TypeOK' /\ NeverAnnounceUncommitted' /\ PendingIsCurrent' /\ MirrorFollowsDatabase'
  BY <1>2, <1>5, UncommittedStep
<1>9. \A q \in Requests : q # r => pc'[q] = pc[q] /\ events'[q] = events[q]
  BY <1>2
<1>10. pc'[r] = "open" /\ events'[r] = evs
  BY <1>2
<1>11. PipelineShape'
  BY <1>2, <1>7, <1>9, <1>10 DEF PipelineShape
<1>12. \A q \in Requests : q # r /\ pc[q] = "open" =>
         \A i \in DOMAIN evs, j \in DOMAIN events[q] : evs[i].subject.id # events[q][j].subject.id
  BY <1>2, <1>6 DEF RowFree, RowsLockedBy
<1>13. RowLocks'
  BY <1>2, <1>6, <1>9, <1>10, <1>12 DEF RowLocks
<1>14. ReadsAreCommitted'
  BY <1>2, <1>9, <1>10 DEF ReadsAreCommitted
<1> QED
  BY <1>8, <1>11, <1>13, <1>14

-----------------------------------------------------------------------------
(* The commit: what it announces is committed with it or was before, it changes only rows
   it announces, and it changes no row another transaction has locked. *)
LEMMA CommitPreserves ==
  ASSUME IndInv, NEW r \in Requests, pc[r] \in {"loaded", "open"},
         NEW newDb \in View, NEW evs \in Seq(Event),
         \A i, j \in DOMAIN evs : evs[i].subject = evs[j].subject => i = j,
         \A s \in Subject : newDb[s] = db[s] \/ \E i \in DOMAIN evs : evs[i].subject = s,
         \A i \in DOMAIN evs : evs[i].value \in committed[evs[i].subject] \cup {newDb[evs[i].subject]},
         \A q \in Requests \ {r} : pc[q] = "open" =>
           \A j \in DOMAIN events[q] : newDb[events[q][j].subject] = db[events[q][j].subject],
         CommitThenPublish(r, newDb, evs)
  PROVE  IndInv'
<1> DEFINE announced == {evs[i].subject : i \in DOMAIN evs}
           contested == {s \in announced : \E q \in Requests \ {r} : WritePending(q, s)}
           contradicted == {evs[i].subject : i \in {j \in DOMAIN evs : newDb[evs[j].subject] # evs[j].value}}
<1>0. /\ TypeOK /\ PipelineShape /\ RowLocks /\ ReadsAreCommitted
      /\ NeverAnnounceUncommitted /\ PendingIsCurrent /\ MirrorFollowsDatabase
  BY DEF IndInv
<1>1. /\ db' = newDb
      /\ committed' = [s \in Subject |-> committed[s] \cup {newDb[s]}]
      /\ pc' = [pc EXCEPT ![r] = IF evs = <<>> THEN "idle" ELSE "publishing"]
      /\ events' = [events EXCEPT ![r] = evs]
      /\ sent' = [sent EXCEPT ![r] = 0]
      /\ suspect' = (suspect \ announced) \cup contested \cup contradicted
      /\ UNCHANGED <<redisUp, mirror, sub, channel, cache, stage, snap, mutations, faults>>
  BY DEF CommitThenPublish, workerVars
<1>2. \A i \in DOMAIN evs : evs[i] \in Event /\ evs[i].subject \in Subject
  BY EventTyping
<1>3. /\ \A q \in Requests : q # r => pc'[q] = pc[q] /\ events'[q] = events[q] /\ sent'[q] = sent[q]
      /\ pc'[r] \in {"idle", "publishing"} /\ events'[r] = evs /\ sent'[r] = 0
      /\ pc'[r] = "publishing" => Len(evs) > 0
      /\ evs # <<>> => pc'[r] = "publishing"
  BY <1>0, <1>1 DEF TypeOK
<1>4. \A s \in Subject : committed[s] \subseteq committed'[s] /\ db'[s] \in committed'[s]
  BY <1>1
<1>4a. \A q \in Requests : \A i \in DOMAIN events[q] : events[q][i].subject \in Subject
  <2>1. \A q \in Requests : events[q] \in Seq(Event)
    BY <1>0 DEF TypeOK
  <2> QED
    BY <2>1, EventTyping
<1>5. TypeOK'
  <2>1. committed' \in [Subject -> SUBSET Nat]
    BY <1>0, <1>1 DEF TypeOK, View
  <2>2. suspect' \in SUBSET Subject
    BY <1>0, <1>1, <1>2 DEF TypeOK
  <2>3. /\ pc' \in [Requests -> {"idle", "loaded", "open", "publishing"}]
        /\ events' \in [Requests -> Seq(Event)]
        /\ sent' \in [Requests -> Nat]
    BY <1>0, <1>1 DEF TypeOK
  <2> HIDE DEF announced, contested, contradicted
  <2> QED
    BY <1>0, <1>1, <2>1, <2>2, <2>3 DEF TypeOK
<1>6. PipelineShape'
  BY <1>0, <1>3 DEF PipelineShape
<1>7. RowLocks'
  <2>1. \A q \in Requests : pc'[q] = "open" => q # r /\ pc[q] = "open" /\ events'[q] = events[q]
    BY <1>3
  <2>2. \A q \in Requests : pc'[q] = "open" =>
          \A j \in DOMAIN events'[q] : db'[events'[q][j].subject] = db[events'[q][j].subject]
    BY <1>1, <2>1
  <2> QED
    BY <1>0, <2>1, <2>2 DEF RowLocks
<1>8. ReadsAreCommitted'
  <2>1. \A q \in Requests : pc'[q] = "loaded" => q # r /\ pc[q] = "loaded" /\ events'[q] = events[q]
    BY <1>3
  <2>2. \A q \in Requests : pc[q] = "loaded" => events[q][1].subject \in Subject
    <3>1. \A q \in Requests : pc[q] = "loaded" => events[q] \in Seq(Event) /\ Len(events[q]) = 1
      BY <1>0 DEF PipelineShape, TypeOK
    <3>2. \A q \in Requests : pc[q] = "loaded" => 1 \in DOMAIN events[q]
      BY <3>1
    <3> QED
      BY <1>4a, <3>2
  <2> QED
    BY <1>0, <1>4, <2>1, <2>2 DEF ReadsAreCommitted
<1>9. NeverAnnounceUncommitted'
  <2>2. CommittedOrAbsent(mirror)' /\ \A w \in Workers : CommittedOrAbsent(cache[w])' /\ CommittedOrAbsent(snap[w])'
    BY <1>0, <1>1, <1>4 DEF CommittedOrAbsent, NeverAnnounceUncommitted
  <2>3. \A w \in Workers : \A i \in DOMAIN channel'[w] :
          channel'[w][i].value \in committed'[channel'[w][i].subject]
    <3>1. \A w \in Workers : channel[w] \in Seq(Event)
      BY <1>0 DEF TypeOK
    <3>2. \A w \in Workers : \A i \in DOMAIN channel[w] : channel[w][i].subject \in Subject
      BY <3>1, EventTyping
    <3> QED
      BY <1>0, <1>1, <1>4, <3>2 DEF NeverAnnounceUncommitted
  <2>4. \A q \in Requests : pc'[q] = "publishing" =>
          \A i \in DOMAIN events'[q] : events'[q][i].value \in committed'[events'[q][i].subject]
    <3>1. \A i \in DOMAIN evs : evs[i].value \in committed'[evs[i].subject]
      BY <1>1, <1>2
    <3> QED
      BY <1>0, <1>3, <1>4, <1>4a, <3>1 DEF NeverAnnounceUncommitted
  <2> QED
    BY <2>2, <2>3, <2>4 DEF NeverAnnounceUncommitted
<1>10. \A s \in Subject, q \in Requests : q # r => WritePending(q, s)' = WritePending(q, s)
  BY <1>3 DEF WritePending
<1>11. \A s \in Subject : WritePending(r, s)' <=> s \in announced
  <2>1. \A i \in DOMAIN evs : 2 * i > 0
    BY EventTyping
  <2>2. DOMAIN evs # {} => evs # <<>>
    OBVIOUS
  <2> QED
    BY <1>3, <2>1, <2>2 DEF WritePending
<1>12. \A s \in Subject : ~WritePending(r, s)
  BY DEF WritePending
<1>13. ASSUME NEW s \in Subject \ suspect', s \in announced
       PROVE  /\ \A i \in DOMAIN evs : evs[i].subject = s => evs[i].value = db'[s]
              /\ \A q \in Requests : q # r => ~WritePending(q, s)'
  BY <1>1, <1>10, <1>13
<1>14. ASSUME NEW s \in Subject \ suspect', s \notin announced
       PROVE  s \notin suspect /\ db'[s] = db[s]
  BY <1>1, <1>14
<1> HIDE DEF announced, contested, contradicted
<1>15. PendingIsCurrent'
  <2> SUFFICES ASSUME NEW s \in Subject \ suspect'
               PROVE  /\ \A q \in Requests : WritePending(q, s)' =>
                           \A i \in DOMAIN events'[q] : events'[q][i].subject = s => events'[q][i].value = db'[s]
                      /\ \A q, p \in Requests : WritePending(q, s)' /\ WritePending(p, s)' => q = p
    BY DEF PendingIsCurrent
  <2>1. CASE s \in announced
    BY <1>3, <1>13, <2>1
  <2>2. CASE s \notin announced
    BY <1>0, <1>3, <1>10, <1>11, <1>14, <2>2 DEF PendingIsCurrent
  <2> QED
    BY <2>1, <2>2
<1>16. MirrorFollowsDatabase'
  <2> SUFFICES ASSUME NEW s \in Subject \ suspect', \A q \in Requests : ~WritePending(q, s)'
               PROVE  Agrees(mirror, s)'
    BY DEF MirrorFollowsDatabase
  <2>1. s \notin announced
    BY <1>11
  <2>2. \A q \in Requests : ~WritePending(q, s)
    BY <1>10, <1>12
  <2> QED
    BY <1>0, <1>1, <1>14, <2>1, <2>2 DEF MirrorFollowsDatabase, Agrees
<1> QED
  BY <1>5, <1>6, <1>7, <1>8, <1>9, <1>15, <1>16 DEF IndInv

(* The commit of a role mutation writes what RETURNING announced, thanks to the row locks. *)
LEMMA CommitBumpPreserves ==
  ASSUME IndInv, NEW r \in Requests, CommitBump(r)
  PROVE  IndInv'
<1> DEFINE evs == events[r]
           newDb == [s \in Subject |-> IF \E i \in DOMAIN evs : evs[i].subject = s THEN db[s] + 1 ELSE db[s]]
<1>0. TypeOK /\ PipelineShape /\ RowLocks
  BY DEF IndInv
<1>1. pc[r] = "open" /\ CommitThenPublish(r, newDb, evs)
  BY DEF CommitBump
<1>2. newDb \in View /\ evs \in Seq(Event)
  BY <1>0 DEF TypeOK, View
<1>3. \A i, j \in DOMAIN evs : evs[i].subject = evs[j].subject => i = j
  BY <1>0 DEF PipelineShape
<1>4. \A s \in Subject : newDb[s] = db[s] \/ \E i \in DOMAIN evs : evs[i].subject = s
  OBVIOUS
<1>5. \A i \in DOMAIN evs : evs[i].subject \in Subject
  BY <1>2, EventTyping
<1>6. \A i \in DOMAIN evs : evs[i].value = newDb[evs[i].subject]
  BY <1>0, <1>1, <1>5 DEF RowLocks
<1>7. \A q \in Requests \ {r} : pc[q] = "open" =>
        \A j \in DOMAIN events[q] : newDb[events[q][j].subject] = db[events[q][j].subject]
  <2> SUFFICES ASSUME NEW q \in Requests \ {r}, pc[q] = "open", NEW j \in DOMAIN events[q]
               PROVE  newDb[events[q][j].subject] = db[events[q][j].subject]
    OBVIOUS
  <2>1. events[q][j].subject \in Subject
    <3>1. events[q] \in Seq(Event)
      BY <1>0 DEF TypeOK
    <3> QED
      BY <3>1, EventTyping
  <2>2. \A i \in DOMAIN evs : evs[i].subject.id # events[q][j].subject.id
    BY <1>0, <1>1 DEF RowLocks
  <2> QED
    BY <2>1, <2>2
<1> HIDE DEF newDb, evs
<1>8. \A i \in DOMAIN evs : evs[i].value \in committed[evs[i].subject] \cup {newDb[evs[i].subject]}
  BY <1>6
<1>9. pc[r] \in {"loaded", "open"}
  BY <1>1
<1> QED
  BY <1>1, <1>2, <1>3, <1>4, <1>7, <1>8, <1>9, CommitPreserves

(* The commit of an ORM row: one event, whose value is written or was loaded. *)
LEMMA CommitRowPreserves ==
  ASSUME IndInv, NEW r \in Requests, pc[r] = "loaded", NEW value \in Nat, CommitRow(r, value)
  PROVE  IndInv'
<1> DEFINE loaded == events[r][1]
           evs == <<[subject |-> loaded.subject, value |-> value]>>
           newDb == Flush(loaded, value)
<1>0. TypeOK /\ PipelineShape /\ RowLocks /\ ReadsAreCommitted
  BY DEF IndInv
<1>1. RowFree(r, loaded.subject.id) /\ CommitThenPublish(r, newDb, evs)
  BY DEF CommitRow
<1>2. loaded.subject \in Subject /\ loaded.value \in committed[loaded.subject]
  <2>1. events[r] \in Seq(Event) /\ Len(events[r]) = 1
    BY <1>0 DEF TypeOK, PipelineShape
  <2>2. 1 \in DOMAIN events[r]
    BY <2>1
  <2> QED
    BY <1>0, <2>1, <2>2, EventTyping DEF ReadsAreCommitted
<1> HIDE DEF loaded
<1>3. newDb \in View /\ evs \in Seq(Event)
  BY <1>0, <1>2 DEF TypeOK, View, Flush, Event
<1>4. DOMAIN evs = {1} /\ evs[1].subject = loaded.subject /\ evs[1].value = value
  OBVIOUS
<1>5. \A s \in Subject : newDb[s] = db[s] \/ s = loaded.subject
  BY <1>0, <1>2 DEF TypeOK, View, Flush
<1>6. value \in committed[loaded.subject] \cup {newDb[loaded.subject]}
  BY <1>0, <1>2 DEF TypeOK, View, Flush
<1>7. \A q \in Requests \ {r} : pc[q] = "open" =>
        \A j \in DOMAIN events[q] : newDb[events[q][j].subject] = db[events[q][j].subject]
  <2> SUFFICES ASSUME NEW q \in Requests \ {r}, pc[q] = "open", NEW j \in DOMAIN events[q]
               PROVE  newDb[events[q][j].subject] = db[events[q][j].subject]
    OBVIOUS
  <2>1. events[q][j].subject \in Subject
    <3>1. events[q] \in Seq(Event)
      BY <1>0 DEF TypeOK
    <3> QED
      BY <3>1, EventTyping
  <2>2. events[q][j].subject.id # loaded.subject.id
    BY <1>1 DEF RowFree, RowsLockedBy
  <2> QED
    BY <1>5, <2>1, <2>2
<1> HIDE DEF newDb, evs
<1>8. \A i, j \in DOMAIN evs : evs[i].subject = evs[j].subject => i = j
  BY <1>4
<1>9. \A s \in Subject : newDb[s] = db[s] \/ \E i \in DOMAIN evs : evs[i].subject = s
  BY <1>4, <1>5
<1>10. \A i \in DOMAIN evs : evs[i].value \in committed[evs[i].subject] \cup {newDb[evs[i].subject]}
  BY <1>4, <1>6
<1>11. pc[r] \in {"loaded", "open"}
  OBVIOUS
<1> QED
  BY <1>1, <1>3, <1>7, <1>8, <1>9, <1>10, <1>11, CommitPreserves

(* UserRepository.grant_permission and revoke_permission, set_active of users and tenants. *)
LEMMA RowMutationPreserves ==
  ASSUME IndInv, NEW r \in Requests,
         GrantPermission(r) \/ \E isActive \in BOOLEAN : SetActive(r, isActive)
  PROVE  IndInv'
<1>1. CASE GrantPermission(r)
  <2>1. pc[r] = "loaded" /\ CommitRow(r, events[r][1].value + 1)
    BY <1>1 DEF GrantPermission
  <2>2. events[r] \in Seq(Event) /\ Len(events[r]) = 1
    BY <2>1 DEF IndInv, TypeOK, PipelineShape
  <2>3. 1 \in DOMAIN events[r]
    BY <2>2
  <2>4. events[r][1].value \in Nat
    BY <2>2, <2>3, EventTyping
  <2>5. events[r][1].value + 1 \in Nat
    BY <2>4
  <2> QED
    BY <2>1, <2>5, CommitRowPreserves
<1>2. ASSUME NEW isActive \in BOOLEAN, SetActive(r, isActive)
      PROVE  IndInv'
  <2>1. pc[r] = "loaded" /\ CommitRow(r, IF isActive THEN 0 ELSE 1)
    BY <1>2 DEF SetActive
  <2>2. (IF isActive THEN 0 ELSE 1) \in Nat
    OBVIOUS
  <2> QED
    BY <2>1, <2>2, CommitRowPreserves
<1> QED
  BY <1>1, <1>2
-----------------------------------------------------------------------------
(* Command n + 1 of a pipeline belongs to event 1 + n \div 2: its PUBLISH when n is even,
   its mirror write when n is odd. *)
LEMMA Cursor ==
  ASSUME NEW n \in Nat
  PROVE  /\ 1 + n \div 2 \in Nat \ {0}
         /\ \A m \in Nat : n < 2 * m => 1 + n \div 2 <= m
         /\ n % 2 = 0 => \A i \in Nat : 2 * i > n <=> 2 * i > n + 1
         /\ n % 2 = 0 => \A m \in Nat : n + 1 # 2 * m
         /\ n % 2 = 1 => 2 * (1 + n \div 2) = n + 1
         /\ n % 2 = 1 => \A i \in Nat : 2 * i > n <=> (i = 1 + n \div 2 \/ 2 * i > n + 1)
OBVIOUS

(* One more command executed: other requests are untouched and r's events stay until done. *)
LEMMA AdvanceFacts ==
  ASSUME IndInv, NEW r \in Requests, pc[r] = "publishing", Advance(r, sent[r] + 1),
         UNCHANGED <<db, committed>>
  PROVE  /\ pc' \in [Requests -> {"idle", "loaded", "open", "publishing"}]
         /\ events' \in [Requests -> Seq(Event)]
         /\ sent' \in [Requests -> Nat]
         /\ \A q \in Requests : q # r => pc'[q] = pc[q] /\ events'[q] = events[q] /\ sent'[q] = sent[q]
         /\ \/ /\ sent[r] + 1 = 2 * Len(events[r]) /\ pc'[r] = "idle"
               /\ events'[r] = <<>> /\ sent'[r] = 0
            \/ /\ sent[r] + 1 < 2 * Len(events[r]) /\ pc'[r] = "publishing"
               /\ events'[r] = events[r] /\ sent'[r] = sent[r] + 1
         /\ PipelineShape' /\ RowLocks' /\ ReadsAreCommitted'
<1> DEFINE done == sent[r] + 1 = 2 * Len(events[r])
<1>0. TypeOK /\ PipelineShape /\ RowLocks /\ ReadsAreCommitted
  BY DEF IndInv
<1>1. sent[r] \in Nat /\ Len(events[r]) \in Nat /\ sent[r] < 2 * Len(events[r])
  BY <1>0 DEF TypeOK, PipelineShape
<1>2. /\ pc' = [pc EXCEPT ![r] = IF done THEN "idle" ELSE "publishing"]
      /\ events' = [events EXCEPT ![r] = IF done THEN <<>> ELSE events[r]]
      /\ sent' = [sent EXCEPT ![r] = IF done THEN 0 ELSE sent[r] + 1]
  BY DEF Advance
<1>3. /\ pc' \in [Requests -> {"idle", "loaded", "open", "publishing"}]
      /\ events' \in [Requests -> Seq(Event)]
      /\ sent' \in [Requests -> Nat]
  BY <1>0, <1>1, <1>2 DEF TypeOK
<1>4. \A q \in Requests : q # r => pc'[q] = pc[q] /\ events'[q] = events[q] /\ sent'[q] = sent[q]
  BY <1>0, <1>2 DEF TypeOK
<1>5. \/ /\ sent[r] + 1 = 2 * Len(events[r]) /\ pc'[r] = "idle"
         /\ events'[r] = <<>> /\ sent'[r] = 0
      \/ /\ sent[r] + 1 < 2 * Len(events[r]) /\ pc'[r] = "publishing"
         /\ events'[r] = events[r] /\ sent'[r] = sent[r] + 1
  <2>1. done \/ sent[r] + 1 < 2 * Len(events[r])
    BY <1>1
  <2>2. /\ pc'[r] = IF done THEN "idle" ELSE "publishing"
        /\ events'[r] = IF done THEN <<>> ELSE events[r]
        /\ sent'[r] = IF done THEN 0 ELSE sent[r] + 1
    BY <1>0, <1>2 DEF TypeOK
  <2>3. CASE done
    BY <2>2, <2>3
  <2>4. CASE ~done
    BY <2>1, <2>2, <2>4
  <2> QED
    BY <2>3, <2>4
<1>6. PipelineShape'
  BY <1>0, <1>4, <1>5 DEF PipelineShape
<1>7. RowLocks' /\ ReadsAreCommitted'
  BY <1>0, <1>4, <1>5 DEF RowLocks, ReadsAreCommitted
<1> QED
  BY <1>3, <1>4, <1>5, <1>6, <1>7

(* A PUBLISH puts a committed value on the channels and completes no mirror write. *)
LEMMA PublishPreserves ==
  ASSUME IndInv, NEW r \in Requests, PipelinePublish(r)
  PROVE  IndInv'
<1> DEFINE k == 1 + sent[r] \div 2
           e == events[r][k]
<1>0. /\ TypeOK /\ PipelineShape /\ RowLocks /\ ReadsAreCommitted
      /\ NeverAnnounceUncommitted /\ PendingIsCurrent /\ MirrorFollowsDatabase
  BY DEF IndInv
<1>1. /\ pc[r] = "publishing" /\ sent[r] % 2 = 0
      /\ channel' = [w \in Workers |-> IF sub[w] = "live" THEN Append(channel[w], e) ELSE channel[w]]
      /\ Advance(r, sent[r] + 1)
      /\ UNCHANGED <<db, committed, suspect, redisUp, mirror, sub, cache, stage, snap, mutations, faults>>
  BY DEF PipelinePublish
<1>2. sent[r] \in Nat /\ events[r] \in Seq(Event) /\ sent[r] < 2 * Len(events[r])
  BY <1>0, <1>1 DEF TypeOK, PipelineShape
<1>3. k \in DOMAIN events[r]
  BY <1>2, Cursor
<1>4. e \in Event /\ e.value \in committed[e.subject]
  BY <1>0, <1>1, <1>2, <1>3, EventTyping DEF NeverAnnounceUncommitted
<1> HIDE DEF e
<1>5. /\ pc' \in [Requests -> {"idle", "loaded", "open", "publishing"}]
      /\ events' \in [Requests -> Seq(Event)] /\ sent' \in [Requests -> Nat]
      /\ \A q \in Requests : q # r => pc'[q] = pc[q] /\ events'[q] = events[q] /\ sent'[q] = sent[q]
      /\ pc'[r] = "publishing" /\ events'[r] = events[r] /\ sent'[r] = sent[r] + 1
      /\ PipelineShape' /\ RowLocks' /\ ReadsAreCommitted'
  <2>1. Len(events[r]) \in Nat /\ sent[r] + 1 # 2 * Len(events[r])
    <3>1. Len(events[r]) \in Nat
      BY <1>2
    <3>2. \A m \in Nat : sent[r] + 1 # 2 * m
      BY <1>1, <1>2, Cursor
    <3> QED
      BY <3>1, <3>2
  <2> QED
    BY <1>1, <2>1, AdvanceFacts
<1>6. \A w \in Workers : channel[w] \in Seq(Event)
  BY <1>0 DEF TypeOK
<1>7. TypeOK'
  <2>1. channel' \in [Workers -> Seq(Event)]
    BY <1>1, <1>4, <1>6
  <2> QED
    BY <1>0, <1>1, <1>5, <2>1 DEF TypeOK
<1>8. NeverAnnounceUncommitted'
  <2>1. \A w \in Workers : \A i \in DOMAIN channel'[w] :
          channel'[w][i].value \in committed[channel'[w][i].subject]
    <3> SUFFICES ASSUME NEW w \in Workers, NEW i \in DOMAIN channel'[w]
                 PROVE  channel'[w][i].value \in committed[channel'[w][i].subject]
      OBVIOUS
    <3>1. CASE channel'[w] = channel[w]
      BY <1>0, <3>1 DEF NeverAnnounceUncommitted
    <3>2. CASE channel'[w] = Append(channel[w], e)
      <4>1. channel'[w][i] = e \/ (i \in DOMAIN channel[w] /\ channel'[w][i] = channel[w][i])
        BY <1>4, <1>6, <3>2
      <4> QED
        BY <1>0, <1>4, <4>1 DEF NeverAnnounceUncommitted
    <3> QED
      BY <1>1, <3>1, <3>2
  <2>2. \A q \in Requests : pc'[q] = "publishing" => pc[q] = "publishing" /\ events'[q] = events[q]
    BY <1>1, <1>5
  <2> QED
    BY <1>0, <1>1, <2>1, <2>2 DEF NeverAnnounceUncommitted, CommittedOrAbsent
<1>9. \A q \in Requests, s \in Subject : WritePending(q, s)' = WritePending(q, s)
  <2>1. \A s \in Subject : WritePending(r, s)' = WritePending(r, s)
    <3>1. \A i \in DOMAIN events[r] : i \in Nat
      BY <1>2, EventTyping
    <3>2. \A i \in DOMAIN events[r] : 2 * i > sent[r] <=> 2 * i > sent[r] + 1
      BY <1>1, <1>2, <3>1, Cursor
    <3> QED
      BY <1>1, <1>5, <3>2 DEF WritePending
  <2>2. \A q \in Requests, s \in Subject : q # r => WritePending(q, s)' = WritePending(q, s)
    BY <1>5 DEF WritePending
  <2> QED
    BY <2>1, <2>2
<1>10. PendingIsCurrent'
  <2>1. \A q \in Requests : events'[q] = events[q]
    BY <1>5
  <2> QED
    BY <1>0, <1>1, <1>9, <2>1 DEF PendingIsCurrent
<1>11. MirrorFollowsDatabase'
  BY <1>0, <1>1, <1>9 DEF MirrorFollowsDatabase, Agrees
<1> QED
  BY <1>5, <1>7, <1>8, <1>10, <1>11 DEF IndInv

(* A mirror write of an unsuspected subject is the last one pending and brings the
   mirror to the database's value. *)
LEMMA WritePreserves ==
  ASSUME IndInv, NEW r \in Requests, PipelineWrite(r)
  PROVE  IndInv'
<1> DEFINE k == 1 + sent[r] \div 2
           e == events[r][k]
<1>0. /\ TypeOK /\ PipelineShape /\ RowLocks /\ ReadsAreCommitted
      /\ NeverAnnounceUncommitted /\ PendingIsCurrent /\ MirrorFollowsDatabase
  BY DEF IndInv
<1>1. /\ pc[r] = "publishing" /\ sent[r] % 2 = 1
      /\ mirror' = [mirror EXCEPT ![e.subject] = e.value]
      /\ Advance(r, sent[r] + 1)
      /\ UNCHANGED <<db, committed, suspect, redisUp, sub, channel, cache, stage, snap, mutations, faults>>
  BY DEF PipelineWrite, MirrorWrite, Put, workerVars
<1>2. sent[r] \in Nat /\ events[r] \in Seq(Event) /\ sent[r] < 2 * Len(events[r])
  BY <1>0, <1>1 DEF TypeOK, PipelineShape
<1>3. k \in DOMAIN events[r]
  BY <1>2, Cursor
<1>4. e.subject \in Subject /\ e.value \in Nat /\ e.value \in committed[e.subject]
  BY <1>0, <1>1, <1>2, <1>3, EventTyping DEF NeverAnnounceUncommitted
<1>5. /\ pc' \in [Requests -> {"idle", "loaded", "open", "publishing"}]
      /\ events' \in [Requests -> Seq(Event)] /\ sent' \in [Requests -> Nat]
      /\ \A q \in Requests : q # r => pc'[q] = pc[q] /\ events'[q] = events[q] /\ sent'[q] = sent[q]
      /\ \/ sent[r] + 1 = 2 * Len(events[r]) /\ pc'[r] = "idle" /\ events'[r] = <<>>
         \/ pc'[r] = "publishing" /\ events'[r] = events[r] /\ sent'[r] = sent[r] + 1
      /\ PipelineShape' /\ RowLocks' /\ ReadsAreCommitted'
  BY <1>1, AdvanceFacts
<1>6. TypeOK'
  BY <1>0, <1>1, <1>4, <1>5 DEF TypeOK, View
<1>7. NeverAnnounceUncommitted'
  <2>1. \A q \in Requests : pc'[q] = "publishing" => pc[q] = "publishing" /\ events'[q] = events[q]
    BY <1>1, <1>5
  <2>2. CommittedOrAbsent(mirror)'
    BY <1>0, <1>1, <1>4 DEF NeverAnnounceUncommitted, CommittedOrAbsent, TypeOK, View
  <2> QED
    BY <1>0, <1>1, <2>1, <2>2 DEF NeverAnnounceUncommitted, CommittedOrAbsent
<1>8. \A s \in Subject : WritePending(r, s)' <=> (WritePending(r, s) /\ s # e.subject)
  <2>1. \A i \in DOMAIN events[r] : i \in Nat /\ i <= Len(events[r])
    BY <1>2, EventTyping
  <2>2. \A i \in DOMAIN events[r] : 2 * i > sent[r] <=> (i = k \/ 2 * i > sent[r] + 1)
    BY <1>1, <1>2, <2>1, Cursor
  <2>3. \A i \in DOMAIN events[r] : events[r][i].subject = e.subject => i = k
    BY <1>0, <1>3 DEF PipelineShape
  <2>4. ~(2 * k > sent[r] + 1) /\ k \in Nat
    BY <1>1, <1>2, Cursor
  <2>5. CASE sent[r] + 1 = 2 * Len(events[r]) /\ pc'[r] = "idle" /\ events'[r] = <<>>
    <3>1. \A i \in DOMAIN events[r] : ~(2 * i > sent[r] + 1)
      BY <1>2, <2>1, <2>5
    <3> HIDE DEF k
    <3> QED
      BY <2>2, <2>5, <3>1 DEF WritePending
  <2>6. CASE pc'[r] = "publishing" /\ events'[r] = events[r] /\ sent'[r] = sent[r] + 1
    <3> HIDE DEF k
    <3> QED
      BY <1>1, <2>2, <2>3, <2>4, <2>6 DEF WritePending
  <2> QED
    BY <1>5, <2>5, <2>6
<1>9. \A q \in Requests, s \in Subject : q # r => WritePending(q, s)' = WritePending(q, s)
  BY <1>5 DEF WritePending
<1>10. \A q \in Requests, s \in Subject : WritePending(q, s)' => WritePending(q, s) /\ events'[q] = events[q]
  <2>1. \A s \in Subject : WritePending(r, s)' => events'[r] = events[r]
    BY <1>5 DEF WritePending
  <2> QED
    BY <1>5, <1>8, <1>9, <2>1
<1>11. PendingIsCurrent'
  BY <1>0, <1>1, <1>10 DEF PendingIsCurrent
<1>12. WritePending(r, e.subject)
  <2>1. 2 * k > sent[r]
    BY <1>1, <1>2, Cursor
  <2> QED
    BY <1>1, <1>3, <2>1 DEF WritePending
<1>13. MirrorFollowsDatabase'
  <2> SUFFICES ASSUME NEW s \in Subject \ suspect', \A q \in Requests : ~WritePending(q, s)'
               PROVE  Agrees(mirror, s)'
    BY DEF MirrorFollowsDatabase
  <2>1. CASE s = e.subject
    <3>1. e.value = db[s]
      BY <1>0, <1>1, <1>3, <1>12, <2>1 DEF PendingIsCurrent
    <3> QED
      BY <1>0, <1>1, <1>4, <2>1, <3>1 DEF Agrees, TypeOK, View
  <2>2. CASE s # e.subject
    <3>1. \A q \in Requests : ~WritePending(q, s)
      BY <1>8, <1>9, <2>2
    <3>2. mirror'[s] = mirror[s]
      BY <1>0, <1>1, <2>2 DEF TypeOK, View
    <3> QED
      BY <1>0, <1>1, <3>1, <3>2 DEF MirrorFollowsDatabase, Agrees
  <2> QED
    BY <2>1, <2>2
<1> QED
  BY <1>5, <1>6, <1>7, <1>11, <1>13 DEF IndInv

-----------------------------------------------------------------------------
(* Requests that end where they are leave every subject they had still to write under
   suspicion, and nothing else changes about pipelines, locks and pending writes. *)
LEMMA AbandonFacts ==
  ASSUME IndInv, NEW rs \in SUBSET Requests, Abandon(rs), UNCHANGED <<db, committed, mirror>>
  PROVE  /\ pc' \in [Requests -> {"idle", "loaded", "open", "publishing"}]
         /\ events' \in [Requests -> Seq(Event)]
         /\ sent' \in [Requests -> Nat]
         /\ suspect' \in SUBSET Subject
         /\ \A q \in Requests : pc'[q] = "publishing" => pc[q] = "publishing" /\ events'[q] = events[q]
         /\ PipelineShape' /\ RowLocks' /\ ReadsAreCommitted' /\ PendingIsCurrent' /\ MirrorFollowsDatabase'
<1>0. /\ TypeOK /\ PipelineShape /\ RowLocks /\ ReadsAreCommitted
      /\ NeverAnnounceUncommitted /\ PendingIsCurrent /\ MirrorFollowsDatabase
  BY DEF IndInv
<1>1. /\ pc' = [r \in Requests |-> IF r \in rs THEN "idle" ELSE pc[r]]
      /\ events' = [r \in Requests |-> IF r \in rs THEN <<>> ELSE events[r]]
      /\ sent' = [r \in Requests |-> IF r \in rs THEN 0 ELSE sent[r]]
      /\ suspect' = suspect \cup {s \in Subject : \E r \in rs : WritePending(r, s)}
  BY DEF Abandon
<1>2. \A q \in Requests :
        \/ q \in rs /\ pc'[q] = "idle" /\ events'[q] = <<>> /\ sent'[q] = 0
        \/ q \notin rs /\ pc'[q] = pc[q] /\ events'[q] = events[q] /\ sent'[q] = sent[q]
  BY <1>1
<1>3. /\ pc' \in [Requests -> {"idle", "loaded", "open", "publishing"}]
      /\ events' \in [Requests -> Seq(Event)]
      /\ sent' \in [Requests -> Nat]
      /\ suspect' \in SUBSET Subject
  <2>1. pc' \in [Requests -> {"idle", "loaded", "open", "publishing"}]
    BY <1>0, <1>1 DEF TypeOK
  <2>2. events' \in [Requests -> Seq(Event)]
    <3>1. <<>> \in Seq(Event)
      OBVIOUS
    <3> QED
      BY <1>0, <1>1, <3>1 DEF TypeOK
  <2>3. sent' \in [Requests -> Nat] /\ suspect' \in SUBSET Subject
    BY <1>0, <1>1 DEF TypeOK
  <2> QED
    BY <2>1, <2>2, <2>3
<1>4. \A q \in Requests : pc'[q] = "publishing" => pc[q] = "publishing" /\ events'[q] = events[q]
  BY <1>2
<1>5. PipelineShape'
  BY <1>0, <1>2 DEF PipelineShape
<1>6. RowLocks' /\ ReadsAreCommitted'
  BY <1>0, <1>2 DEF RowLocks, ReadsAreCommitted
<1>7. \A q \in Requests, s \in Subject :
        WritePending(q, s)' => q \notin rs /\ WritePending(q, s) /\ events'[q] = events[q]
  BY <1>2 DEF WritePending
<1>8. \A q \in Requests, s \in Subject : q \notin rs /\ WritePending(q, s) => WritePending(q, s)'
  BY <1>2 DEF WritePending
<1>9. \A s \in Subject \ suspect' : s \notin suspect /\ \A r \in rs : ~WritePending(r, s)
  BY <1>1
<1>10. PendingIsCurrent'
  BY <1>0, <1>7, <1>9 DEF PendingIsCurrent
<1>11. MirrorFollowsDatabase'
  <2> SUFFICES ASSUME NEW s \in Subject \ suspect', \A q \in Requests : ~WritePending(q, s)'
               PROVE  Agrees(mirror, s)'
    BY DEF MirrorFollowsDatabase
  <2>1. \A q \in Requests : ~WritePending(q, s)
    BY <1>8, <1>9
  <2> QED
    BY <1>0, <1>9, <2>1 DEF MirrorFollowsDatabase, Agrees
<1> QED
  BY <1>3, <1>4, <1>5, <1>6, <1>10, <1>11

(* A request that ends on its own, before its commit or after it. *)
LEMMA GiveUpPreserves ==
  ASSUME IndInv, NEW r \in Requests, Rollback(r) \/ PublishFails(r)
  PROVE  IndInv'
<1>1. /\ Abandon({r})
      /\ UNCHANGED <<db, committed, redisUp, mirror, sub, channel, cache, stage, snap, mutations, faults>>
  BY DEF Rollback, PublishFails, workerVars
<1>2. /\ pc' \in [Requests -> {"idle", "loaded", "open", "publishing"}]
      /\ events' \in [Requests -> Seq(Event)]
      /\ sent' \in [Requests -> Nat]
      /\ suspect' \in SUBSET Subject
      /\ \A q \in Requests : pc'[q] = "publishing" => pc[q] = "publishing" /\ events'[q] = events[q]
      /\ PipelineShape' /\ RowLocks' /\ ReadsAreCommitted' /\ PendingIsCurrent' /\ MirrorFollowsDatabase'
  BY <1>1, AbandonFacts
<1>3. TypeOK'
  BY <1>1, <1>2 DEF IndInv, TypeOK
<1>4. NeverAnnounceUncommitted'
  BY <1>1, <1>2 DEF IndInv, NeverAnnounceUncommitted, CommittedOrAbsent
<1> QED
  BY <1>2, <1>3, <1>4 DEF IndInv

(* A worker that dies takes the requests it was serving with it and starts empty. *)
LEMMA RestartPreserves ==
  ASSUME IndInv, NEW w \in Workers, NEW served \in SUBSET Requests, RestartWorker(w, served)
  PROVE  IndInv'
<1>0. TypeOK /\ NeverAnnounceUncommitted
  BY DEF IndInv
<1>1. /\ Abandon(served)
      /\ faults' = faults + 1 /\ faults < MaxFaults
      /\ sub' = [sub EXCEPT ![w] = "connecting"]
      /\ channel' = [channel EXCEPT ![w] = <<>>]
      /\ cache' = [cache EXCEPT ![w] = Empty]
      /\ stage' = [stage EXCEPT ![w] = 0]
      /\ snap' = [snap EXCEPT ![w] = Empty]
      /\ UNCHANGED <<db, committed, redisUp, mirror, mutations>>
  BY DEF RestartWorker
<1>2. /\ pc' \in [Requests -> {"idle", "loaded", "open", "publishing"}]
      /\ events' \in [Requests -> Seq(Event)]
      /\ sent' \in [Requests -> Nat]
      /\ suspect' \in SUBSET Subject
      /\ \A q \in Requests : pc'[q] = "publishing" => pc[q] = "publishing" /\ events'[q] = events[q]
      /\ PipelineShape' /\ RowLocks' /\ ReadsAreCommitted' /\ PendingIsCurrent' /\ MirrorFollowsDatabase'
  BY <1>1, AbandonFacts
<1>3. Empty \in View /\ CommittedOrAbsent(Empty)
  BY DEF Empty, View, CommittedOrAbsent
<1>4. TypeOK'
  <2>1. sub' \in [Workers -> {"connecting", "live", "broken"}] /\ stage' \in [Workers -> 0..2]
    BY <1>0, <1>1 DEF TypeOK
  <2>2. channel' \in [Workers -> Seq(Event)]
    <3>1. <<>> \in Seq(Event)
      OBVIOUS
    <3> QED
      BY <1>0, <1>1, <3>1 DEF TypeOK
  <2>3. cache' \in [Workers -> View] /\ snap' \in [Workers -> View]
    BY <1>0, <1>1, <1>3 DEF TypeOK
  <2>4. faults' \in 0..MaxFaults
    BY <1>0, <1>1, AuthzAssumption DEF TypeOK
  <2> QED
    BY <1>0, <1>1, <1>2, <2>1, <2>2, <2>3, <2>4 DEF TypeOK
<1>5. NeverAnnounceUncommitted'
  <2>1. \A v \in Workers : CommittedOrAbsent(cache'[v]) /\ CommittedOrAbsent(snap'[v])
    BY <1>0, <1>1, <1>3 DEF NeverAnnounceUncommitted, TypeOK
  <2>2. \A v \in Workers : \A i \in DOMAIN channel'[v] :
          channel'[v][i].value \in committed[channel'[v][i].subject]
    BY <1>0, <1>1 DEF NeverAnnounceUncommitted, TypeOK
  <2> QED
    BY <1>0, <1>1, <1>2, <2>1, <2>2 DEF NeverAnnounceUncommitted, CommittedOrAbsent
<1> QED
  BY <1>2, <1>4, <1>5 DEF IndInv
-----------------------------------------------------------------------------
(* Every step of the system preserves the invariant, as does a stuttering step. *)
LEMMA NextPreserves == IndInv /\ [Next]_vars => IndInv'
<1> SUFFICES ASSUME IndInv, [Next]_vars PROVE IndInv'
  OBVIOUS
<1>1. ASSUME NEW r \in Requests, NEW s \in Subject, LoadRow(r, s) PROVE IndInv'
  BY <1>1, LoadRowPreserves
<1>2. ASSUME NEW r \in Requests, NEW us \in SUBSET Users, BumpPermVersion(r, us) PROVE IndInv'
  BY <1>2, BumpPreserves
<1>3. ASSUME NEW r \in Requests, Rollback(r) PROVE IndInv'
  BY <1>3, GiveUpPreserves
<1>4. ASSUME NEW r \in Requests, RequestStep(r) PROVE IndInv'
  BY <1>4, CommitBumpPreserves, RowMutationPreserves, PublishPreserves, WritePreserves,
     GiveUpPreserves DEF RequestStep
<1>5. ASSUME (\E keysSurvive \in Survival : RedisDown(keysSurvive)) \/ RedisUp PROVE IndInv'
  BY <1>5, RedisStepPreserves
<1>6. ASSUME NEW w \in Workers, SubscribeLoop(w) \/ ResyncLoop(w) PROVE IndInv'
  BY <1>6, WorkerStepPreserves
<1>7. ASSUME NEW w \in Workers, NEW served \in SUBSET Requests, RestartWorker(w, served) PROVE IndInv'
  BY <1>7, RestartPreserves
<1>8. ASSUME UNCHANGED vars PROVE IndInv'
  <2>1. UNCHANGED <<db, committed, pc, events, sent, suspect, redisUp, mirror, sub, channel, cache,
                    stage, snap, mutations, faults>>
    BY <1>8 DEF vars, requestVars, workerVars
  <2>2. TypeOK' /\ PipelineShape' /\ RowLocks' /\ ReadsAreCommitted'
    BY <2>1 DEF IndInv, TypeOK, PipelineShape, RowLocks, ReadsAreCommitted
  <2>3. NeverAnnounceUncommitted' /\ PendingIsCurrent' /\ MirrorFollowsDatabase'
    BY <2>1 DEF IndInv, NeverAnnounceUncommitted, CommittedOrAbsent, PendingIsCurrent,
       MirrorFollowsDatabase, WritePending, Agrees
  <2> QED
    BY <2>2, <2>3 DEF IndInv
<1> QED
  BY <1>1, <1>2, <1>3, <1>4, <1>5, <1>6, <1>7, <1>8 DEF Next

(* The invariant holds in every reachable state. *)
THEOREM Invariance == Spec => []IndInv
<1>1. Init => IndInv
  BY InitEstablishes
<1>2. IndInv /\ [Next]_vars => IndInv'
  BY NextPreserves
<1> QED
  BY <1>1, <1>2, PTL DEF Spec

(* Type correctness of the propagation model. *)
THEOREM TypeCorrect == Spec => []TypeOK
<1>1. IndInv => TypeOK
  BY DEF IndInv
<1> QED
  BY <1>1, Invariance, PTL

(* No subscriber, mirror or cache ever holds a version or status that was not committed:
   publish_events only runs after the commit, whatever fails or races. *)
THEOREM AnnouncementsAreCommitted == Spec => []NeverAnnounceUncommitted
<1>1. IndInv => NeverAnnounceUncommitted
  BY DEF IndInv
<1> QED
  BY <1>1, Invariance, PTL

(* The mirror equals the database for every subject not under suspicion: a request that
   ended between its commit and its mirror write, lost keys, overlapping publishes and
   unwritten flushes are the only causes of a wrong mirror. *)
THEOREM MirrorIsFaithful == Spec => []MirrorFollowsDatabase
<1>1. IndInv => MirrorFollowsDatabase
  BY DEF IndInv
<1> QED
  BY <1>1, Invariance, PTL
=============================================================================
