------------------------------- MODULE Catalog -------------------------------
(***************************************************************************)
(* The permission catalog: every worker process mirrors its release's      *)
(* PERMISSION_REGISTRY (app/core/rbac/registry.py) into the permissions    *)
(* table before it serves (app/cli/sync_permissions.py, called by the      *)
(* lifespan of app/main.py), and then reads and writes permission masks by *)
(* the bit positions of that registry.                                     *)
(*                                                                         *)
(* Workers start at once, crash, and are deployed with other releases.     *)
(* Between get_by_name and the commit of create_with_bit there are awaits, *)
(* so each is a step.  A mask is the set of its bits.                      *)
(***************************************************************************)
EXTENDS Naturals, Sequences, FiniteSets

CONSTANTS
  Names,      \* permission names
  Width,      \* bits of a mask, 256 in the code
  Null,       \* bit_position of a row older than the column
  Legacy,     \* names that may have such a row
  Implies,    \* PERMISSION_IMPLIES, with {} for the names it lacks
  Workers,
  Releases,   \* versions of the code
  Registry,   \* the PERMISSION_REGISTRY of each, in the order of the dict
  Required,   \* the permissions the routes of each name in permission_required
  MaxStops    \* bound: how often workers stop

ASSUME CatalogAssumption ==
  /\ Width \in Nat /\ Null \notin Nat /\ Legacy \subseteq Names
  /\ Implies \in [Names -> SUBSET Names]
  /\ Registry \in [Releases -> Seq([name : Names, bit : Nat])]
  /\ \A r \in Releases : \A i, j \in DOMAIN Registry[r] :  \* the keys of a dict
       Registry[r][i].name = Registry[r][j].name => i = j
  /\ Required \in [Releases -> SUBSET Names]
  /\ MaxStops \in Nat

VARIABLES
  table,    \* rows of permissions; nothing deletes or updates one
  phase,    \* where each worker is
  release,  \* the release it runs, or will run when it starts
  next,     \* the entry of its registry that the sync is at
  role,     \* a role's permissions and the mask stored for them
  stops,
  sound,    \* history: workers whose registry agreed with the table when they started
  raced     \* history: workers during whose start another one inserted a row

vars == <<table, phase, release, next, role, stops, sound, raced>>

Entries(r) == {Registry[r][i] : i \in DOMAIN Registry[r]}
Known(r) == {e.name : e \in Entries(r)}

(* The assertions of registry.py and the lookups of permission_required, at import. *)
Imports(r) ==
  /\ \A i, j \in DOMAIN Registry[r] : Registry[r][i].bit = Registry[r][j].bit => i = j
  /\ \A e \in Entries(r) : e.bit < Width
  /\ Required[r] \subseteq Known(r)

MaskFor(r, names) == {e.bit : e \in {x \in Entries(r) : x.name \in names}}
NamesForMask(r, mask) == {e.name : e \in {x \in Entries(r) : x.bit \in mask}}

(* expand_implied: rounds of the frontier; no chain is longer than the number of names. *)
ExpandImplied(names) ==
  LET grown[k \in Nat] ==
        IF k = 0 THEN names
        ELSE grown[k - 1] \cup UNION {Implies[n] : n \in grown[k - 1]}
  IN  grown[Cardinality(Names)]

Starting(w) == phase[w] \in {"checking", "inserting"}
Entry(w) == Registry[release[w]][next[w]]

(* No name has another bit in the table, no bit another name. *)
Agrees(r) == \A e \in Entries(r) : \A row \in table : row.name = e.name <=> row.bit = e.bit

Init ==
  /\ \E old \in SUBSET Legacy : table = {[name |-> n, bit |-> Null] : n \in old}
  /\ phase = [w \in Workers |-> "down"]
  /\ release \in [Workers -> Releases]
  /\ next = [w \in Workers |-> 1]
  /\ role = [names |-> {}, mask |-> {}]
  /\ stops = 0 /\ sound = {} /\ raced = {}
-----------------------------------------------------------------------------
Goto(w, label) == phase' = [phase EXCEPT ![w] = label]

(* The process starts: the modules import and the lifespan calls sync. *)
Boot(w) ==
  /\ phase[w] = "down" /\ Imports(release[w])
  /\ Goto(w, "checking")
  /\ next' = [next EXCEPT ![w] = 1]
  /\ sound' = IF Agrees(release[w]) THEN sound \cup {w} ELSE sound \ {w}
  /\ raced' = raced \ {w}
  /\ UNCHANGED <<table, release, role, stops>>

Checking(w) == phase[w] = "checking" /\ next[w] <= Len(Registry[release[w]])

(* Wrong variant: the row is inserted without looking for it. *)
ExistingUnread(w) == {}

(* get_by_name *)
Existing(w) == {row \in table : row.name = Entry(w).name}

(* Wrong variant: a row with the name is enough. *)
SameBitUnread(row, w) == TRUE

SameBit(row, w) == row.bit = Entry(w).bit

CheckPresent(w) ==
  /\ Checking(w) /\ Existing(w) # {}
  /\ \A row \in Existing(w) : SameBit(row, w)
  /\ next' = [next EXCEPT ![w] = next[w] + 1]
  /\ UNCHANGED <<table, phase, release, role, stops, sound, raced>>

(* RuntimeError leaves the lifespan: the worker never serves. *)
CheckMismatch(w) ==
  /\ Checking(w)
  /\ \E row \in Existing(w) : ~SameBit(row, w)
  /\ Goto(w, "failed")
  /\ UNCHANGED <<table, release, next, role, stops, sound, raced>>

CheckAbsent(w) ==
  /\ Checking(w) /\ Existing(w) = {}
  /\ Goto(w, "inserting")
  /\ UNCHANGED <<table, release, next, role, stops, sound, raced>>

(* Wrong variant: bit_position is not unique. *)
UniqueName(e) == \A row \in table : row.name # e.name

(* Both columns are unique; NULLs do not collide. *)
Unique(e) == \A row \in table : row.name # e.name /\ row.bit # e.bit

(* create_with_bit commits one row. *)
Insert(w) ==
  /\ phase[w] = "inserting" /\ Unique(Entry(w))
  /\ table' = table \cup {Entry(w)}
  /\ Goto(w, "checking")
  /\ next' = [next EXCEPT ![w] = next[w] + 1]
  /\ raced' = raced \cup {v \in Workers \ {w} : Starting(v)}
  /\ UNCHANGED <<release, role, stops, sound>>

(* IntegrityError leaves the lifespan too. *)
InsertRefused(w) ==
  /\ phase[w] = "inserting" /\ ~Unique(Entry(w))
  /\ Goto(w, "failed")
  /\ UNCHANGED <<table, release, next, role, stops, sound, raced>>

Serve(w) ==
  /\ phase[w] = "checking" /\ next[w] > Len(Registry[release[w]])
  /\ Goto(w, "serving")
  /\ UNCHANGED <<table, release, next, role, stops, sound, raced>>

(* A serving worker stores a role's mask: mask_for raises UnknownPermission for a name
   outside its registry. *)
WriteRole(w) ==
  /\ phase[w] = "serving"
  /\ \E asked \in SUBSET Names :
       /\ ExpandImplied(asked) \subseteq Known(release[w])
       /\ role' = [names |-> ExpandImplied(asked),
                   mask  |-> MaskFor(release[w], ExpandImplied(asked))]
  /\ UNCHANGED <<table, phase, release, next, stops, sound, raced>>

(* A crash, a shutdown or a deployment, at any point. *)
Stop(w) ==
  /\ phase[w] # "down" /\ stops < MaxStops
  /\ stops' = stops + 1
  /\ Goto(w, "down")
  /\ \E r \in Releases : release' = [release EXCEPT ![w] = r]
  /\ UNCHANGED <<table, next, role, sound, raced>>

Sync(w) ==
  \/ CheckPresent(w) \/ CheckMismatch(w) \/ CheckAbsent(w)
  \/ Insert(w) \/ InsertRefused(w) \/ Serve(w)

Next == \E w \in Workers : Boot(w) \/ Sync(w) \/ WriteRole(w) \/ Stop(w)

Spec == Init /\ [][Next]_vars
-----------------------------------------------------------------------------
(* Workers keep their shapes, and the table is one to one between names and bits. *)
TypeOK ==
  /\ table \subseteq [name : Names, bit : Nat \cup {Null}]
  /\ phase \in [Workers -> {"down", "checking", "inserting", "serving", "failed"}]
  /\ release \in [Workers -> Releases]
  /\ next \in [Workers -> Nat \ {0}]
  /\ role \in [names : SUBSET Names, mask : SUBSET Nat]
  /\ stops \in 0..MaxStops /\ sound \subseteq Workers /\ raced \subseteq Workers
  /\ \A w \in Workers : phase[w] = "inserting" => next[w] \in DOMAIN Registry[release[w]]
  /\ \A row1, row2 \in table :
       row1.name = row2.name \/ (row1.bit = row2.bit /\ row1.bit # Null) => row1 = row2

(* A stored mask means the same to every worker that serves, whatever releases they run,
   crashed under or were rolled back to: each reads from it the names it was written for,
   less those its registry does not know (names_for_mask, permission_required). *)
MasksTravel ==
  \A w \in Workers : phase[w] = "serving" =>
    NamesForMask(release[w], role.mask) = role.names \cap Known(release[w])

(* Running the sync on every start is safe but for one race: a worker whose registry
   agreed with the table when it started fails to start only when another worker inserted
   a permission during that start (_sync_with_session). *)
OnlyRacesFailAStart == \A w \in sound : phase[w] = "failed" => w \in raced
=============================================================================
