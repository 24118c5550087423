---------------------------- MODULE CatalogProofs ----------------------------
(***************************************************************************)
(* Proofs about Catalog.  The table only grows and stays one to one, and a *)
(* worker serves only when its whole registry is in the table; so whatever *)
(* mask a worker stores is the image under the table of the names it was   *)
(* written for, and every other worker reads it back through the table.    *)
(***************************************************************************)
EXTENDS Catalog, TLAPS

(* What the sync has been through is in the table, and all of it when it serves. *)
Covered ==
  \A w \in Workers :
    /\ Starting(w) => \A i \in DOMAIN Registry[release[w]] :
                        i < next[w] => Registry[release[w]][i] \in table
    /\ phase[w] = "serving" => Entries(release[w]) \subseteq table

(* What starts has passed the assertions at import. *)
Imported == \A w \in Workers : Starting(w) => Imports(release[w])

(* The stored mask is the image of the role's names under the table. *)
RoleBacked ==
  /\ \A n \in role.names : \E row \in table : row.name = n /\ row.bit \in Nat
  /\ role.mask = {row.bit : row \in {x \in table : x.name \in role.names}}

(* Without a race a start that began in agreement stays in it. *)
Undisturbed ==
  \A w \in sound \ raced : Starting(w) =>
    /\ Agrees(release[w])
    /\ phase[w] = "inserting" => Existing(w) = {}

Inv ==
  /\ TypeOK /\ Covered /\ Imported /\ RoleBacked /\ Undisturbed /\ OnlyRacesFailAStart

-----------------------------------------------------------------------------
(* An entry is a name with a bit, and the entries of a release are told apart by both. *)
LEMMA EntriesType ==
  ASSUME NEW r \in Releases
  PROVE  /\ DOMAIN Registry[r] = 1..Len(Registry[r]) /\ Len(Registry[r]) \in Nat
         /\ \A i \in DOMAIN Registry[r] : Registry[r][i] \in [name : Names, bit : Nat]
         /\ Entries(r) \subseteq [name : Names, bit : Nat]
<1> DEFINE S == [name : Names, bit : Nat]
<1>1. Registry[r] \in Seq(S)
  BY CatalogAssumption DEF CatalogAssumption
<1> HIDE DEF S
<1>2. DOMAIN Registry[r] = 1..Len(Registry[r]) /\ Len(Registry[r]) \in Nat
  BY <1>1
<1>3. \A i \in DOMAIN Registry[r] : Registry[r][i] \in S
  BY <1>1, <1>2
<1> USE DEF S
<1> QED BY <1>2, <1>3 DEF Entries

(* A record with these two fields is determined by them. *)
LEMMA RowsEqual ==
  ASSUME NEW row1 \in [name : Names, bit : Nat \cup {Null}],
         NEW row2 \in [name : Names, bit : Nat \cup {Null}],
         row1.name = row2.name, row1.bit = row2.bit
  PROVE  row1 = row2
OBVIOUS

(* Two workers that serve read a mask through the same table. *)
LEMMA InvImpliesMasksTravel == Inv => MasksTravel
<1> SUFFICES ASSUME Inv, NEW w \in Workers, phase[w] = "serving"
             PROVE  NamesForMask(release[w], role.mask) = role.names \cap Known(release[w])
  BY DEF MasksTravel
<1> DEFINE r == release[w]
<1>1. r \in Releases /\ Entries(r) \subseteq table
  BY DEF Inv, TypeOK, Covered
<1>2. ASSUME NEW e \in Entries(r)
      PROVE  e.bit \in role.mask <=> e.name \in role.names
  <2>1. e \in table /\ e.bit \in Nat
    BY <1>1, EntriesType
  <2>2. e.name \in role.names => e.bit \in role.mask
    BY <2>1 DEF Inv, RoleBacked
  <2>3. ASSUME e.bit \in role.mask PROVE e.name \in role.names
    <3>1. PICK row \in table : row.name \in role.names /\ row.bit = e.bit
      BY <2>3 DEF Inv, RoleBacked
    <3>2. e.bit # Null
      BY <2>1, CatalogAssumption DEF CatalogAssumption
    <3>3. row = e
      BY <2>1, <3>1, <3>2 DEF Inv, TypeOK
    <3> QED BY <3>1, <3>3
  <2> QED BY <2>2, <2>3
<1>3. NamesForMask(r, role.mask) = {e.name : e \in {x \in Entries(r) : x.name \in role.names}}
  BY <1>2 DEF NamesForMask
<1> QED BY <1>3 DEF Known

LEMMA InvInit == Init => Inv
<1> SUFFICES ASSUME Init PROVE Inv
  OBVIOUS
<1>1. PICK old \in SUBSET Legacy : table = {[name |-> n, bit |-> Null] : n \in old}
  BY DEF Init
<1>2. \A row \in table : row.name \in old /\ row.bit = Null
                          /\ row = [name |-> row.name, bit |-> Null]
  BY <1>1
<1>3. TypeOK
  <2>1. table \subseteq [name : Names, bit : Nat \cup {Null}]
    BY <1>1, CatalogAssumption DEF CatalogAssumption
  <2>2. \A row1, row2 \in table :
          row1.name = row2.name \/ (row1.bit = row2.bit /\ row1.bit # Null) => row1 = row2
    BY <1>2
  <2> QED BY <2>1, <2>2, CatalogAssumption DEF Init, TypeOK, CatalogAssumption
<1>4. Covered /\ Imported /\ Undisturbed /\ OnlyRacesFailAStart
  BY DEF Init, Covered, Imported, Undisturbed, OnlyRacesFailAStart, Starting
<1>5. RoleBacked
  BY DEF Init, RoleBacked
<1> QED BY <1>3, <1>4, <1>5 DEF Inv

-----------------------------------------------------------------------------
LEMMA BootKeeps == ASSUME Inv, NEW w \in Workers, Boot(w) PROVE Inv'
<1> USE DEF Inv, Boot, Goto
<1>1. TypeOK'
  BY DEF TypeOK
<1>2. Covered'
  <2>1. \A i \in DOMAIN Registry[release[w]] : ~(i < next'[w])
    BY EntriesType DEF TypeOK
  <2>2. \A v \in Workers \ {w} : phase'[v] = phase[v] /\ next'[v] = next[v]
    BY DEF TypeOK
  <2>3. phase'[w] = "checking"
    BY DEF TypeOK
  <2> QED BY <2>1, <2>2, <2>3 DEF Covered, Starting, Entries
<1>3. Imported'
  BY DEF Imported, Starting, TypeOK, Imports, Entries, Known
<1>4. RoleBacked'
  BY DEF RoleBacked
<1>5. Undisturbed'
  <2> SUFFICES ASSUME NEW v \in sound', v \notin raced', Starting(v)'
               PROVE  Agrees(release[v])' /\ (phase'[v] = "inserting" => Existing(v)' = {})
    BY DEF Undisturbed
  <2>1. Agrees(release[v])' <=> Agrees(release[v])
    BY DEF Agrees, Entries
  <2>2. CASE v = w
    BY <2>1, <2>2 DEF TypeOK
  <2>3. CASE v # w
    <3>1. Agrees(release[v]) /\ (phase[v] = "inserting" => Existing(v) = {})
      BY <2>3 DEF Undisturbed, Starting, TypeOK
    <3>2. Existing(v)' = Existing(v) /\ phase'[v] = phase[v]
      BY <2>3 DEF Existing, Entry, TypeOK
    <3> QED BY <2>1, <3>1, <3>2
  <2> QED BY <2>2, <2>3
<1>6. OnlyRacesFailAStart'
  BY DEF OnlyRacesFailAStart, TypeOK
<1> QED BY <1>1, <1>2, <1>3, <1>4, <1>5, <1>6

LEMMA CheckPresentKeeps == ASSUME Inv, NEW w \in Workers, CheckPresent(w) PROVE Inv'
<1> USE DEF Inv, CheckPresent, Checking
<1> DEFINE r == release[w]
<1>0. \A v \in Workers : Imports(release[v])' = Imports(release[v])
  BY DEF Imports, Entries, Known
<1>1. TypeOK'
  BY DEF TypeOK
<1>2. Covered'
  <2>1. r \in Releases /\ next[w] \in DOMAIN Registry[r]
    BY EntriesType DEF TypeOK
  <2>2. PICK row \in table : row.name = Entry(w).name
    BY DEF Existing
  <2>3. row.bit = Entry(w).bit
    BY <2>2 DEF Existing, SameBit
  <2>4. Entry(w) \in table
    <3>1. Entry(w) \in [name : Names, bit : Nat]
      BY <2>1, EntriesType DEF Entry
    <3>2. row = Entry(w)
      BY <2>2, <2>3, <3>1, RowsEqual DEF TypeOK
    <3> QED BY <3>2
  <2>5. \A i \in DOMAIN Registry[r] : i < next[w] + 1 => i < next[w] \/ i = next[w]
    BY <2>1, EntriesType DEF TypeOK
  <2>6. \A i \in DOMAIN Registry[r] : i < next'[w] => Registry[r][i] \in table
    BY <2>4, <2>5 DEF Covered, Starting, TypeOK, Entry
  <2>7. \A v \in Workers \ {w} : next'[v] = next[v]
    BY DEF TypeOK
  <2> QED BY <2>6, <2>7 DEF Covered, Starting, Entries
<1>3. Imported'
  BY <1>0 DEF Imported, Starting
<1>4. RoleBacked'
  BY DEF RoleBacked
<1>5. Undisturbed'
  <2> SUFFICES ASSUME NEW v \in sound \ raced, Starting(v)'
               PROVE  Agrees(release[v])' /\ (phase'[v] = "inserting" => Existing(v)' = {})
    BY DEF Undisturbed
  <2>1. Agrees(release[v])'
    BY DEF Undisturbed, Starting, Agrees, Entries
  <2>2. phase[v] = "inserting" => v # w /\ next'[v] = next[v]
    BY DEF TypeOK
  <2>3. phase[v] = "inserting" => Existing(v)' = Existing(v)
    BY <2>2 DEF Existing, Entry
  <2> QED BY <2>1, <2>3 DEF Undisturbed, Starting
<1>6. OnlyRacesFailAStart'
  BY DEF OnlyRacesFailAStart
<1> QED BY <1>1, <1>2, <1>3, <1>4, <1>5, <1>6

(* Steps that move one worker's phase and nothing else. *)
LEMMA PhaseMoveKeeps ==
  ASSUME Inv, NEW w \in Workers, NEW label \in {"failed", "inserting", "serving"},
         Goto(w, label), phase[w] \in {"checking", "inserting"},
         UNCHANGED <<table, release, next, role, stops, sound, raced>>,
         label = "failed" => w \notin sound \/ w \in raced,
         label = "inserting" => /\ next[w] \in DOMAIN Registry[release[w]]
                                /\ Existing(w) = {},
         label = "serving" => Entries(release[w]) \subseteq table
  PROVE  Inv'
<1> USE DEF Inv, Goto
<1>1. TypeOK'
  BY DEF TypeOK
<1>2. Covered'
  BY DEF Covered, Starting, TypeOK, Entries
<1>3. Imported'
  BY DEF Imported, Starting, Imports, Entries, Known, TypeOK
<1>4. RoleBacked'
  BY DEF RoleBacked
<1>5. Undisturbed'
  BY DEF Undisturbed, Starting, Agrees, Entries, Existing, Entry, TypeOK
<1>6. OnlyRacesFailAStart'
  BY DEF OnlyRacesFailAStart, TypeOK
<1> QED BY <1>1, <1>2, <1>3, <1>4, <1>5, <1>6

LEMMA CheckMismatchKeeps == ASSUME Inv, NEW w \in Workers, CheckMismatch(w) PROVE Inv'
<1>1. next[w] \in DOMAIN Registry[release[w]]
  BY EntriesType DEF Inv, TypeOK, CheckMismatch, Checking
<1>2. w \notin sound \/ w \in raced
  <2> SUFFICES ASSUME w \in sound \ raced PROVE FALSE
    OBVIOUS
  <2>1. Agrees(release[w]) /\ Entry(w) \in Entries(release[w])
    BY <1>1 DEF Inv, Undisturbed, Starting, CheckMismatch, Checking, Entry, Entries
  <2> QED BY <2>1 DEF Agrees, CheckMismatch, Existing, SameBit
<1> QED BY <1>2, PhaseMoveKeeps DEF CheckMismatch, Checking

LEMMA CheckAbsentKeeps == ASSUME Inv, NEW w \in Workers, CheckAbsent(w) PROVE Inv'
<1>1. next[w] \in DOMAIN Registry[release[w]]
  BY EntriesType DEF Inv, TypeOK, CheckAbsent, Checking
<1> QED BY <1>1, PhaseMoveKeeps DEF CheckAbsent, Checking

LEMMA InsertRefusedKeeps == ASSUME Inv, NEW w \in Workers, InsertRefused(w) PROVE Inv'
<1>1. w \notin sound \/ w \in raced
  <2> SUFFICES ASSUME w \in sound \ raced PROVE FALSE
    OBVIOUS
  <2>1. Agrees(release[w]) /\ Existing(w) = {}
    BY DEF Inv, Undisturbed, Starting, InsertRefused
  <2>2. Entry(w) \in Entries(release[w])
    BY DEF Inv, TypeOK, InsertRefused, Entry, Entries
  <2>3. PICK row \in table : row.name = Entry(w).name \/ row.bit = Entry(w).bit
    BY DEF InsertRefused, Unique
  <2>4. row.name = Entry(w).name
    BY <2>1, <2>2, <2>3 DEF Agrees
  <2> QED BY <2>1, <2>4 DEF Existing
<1> QED BY <1>1, PhaseMoveKeeps DEF InsertRefused

LEMMA ServeKeeps == ASSUME Inv, NEW w \in Workers, Serve(w) PROVE Inv'
<1>1. Entries(release[w]) \subseteq table
  <2>1. \A i \in DOMAIN Registry[release[w]] : i < next[w]
    BY EntriesType DEF Inv, TypeOK, Serve
  <2> QED BY <2>1 DEF Inv, Covered, Starting, Serve, Entries
<1> QED BY <1>1, PhaseMoveKeeps DEF Serve

-----------------------------------------------------------------------------
LEMMA InsertKeeps == ASSUME Inv, NEW w \in Workers, Insert(w) PROVE Inv'
<1> USE DEF Inv, Insert, Goto
<1> DEFINE r == release[w]
           e == Entry(w)
<1>1. r \in Releases /\ next[w] \in DOMAIN Registry[r] /\ next[w] \in Nat
  BY DEF TypeOK
<1>2. e \in [name : Names, bit : Nat] /\ e \in Entries(r) /\ e.bit # Null
  BY <1>1, EntriesType, CatalogAssumption DEF Entry, Entries, CatalogAssumption
<1>3. \A row \in table : row.name # e.name /\ row.bit # e.bit
  BY DEF Unique
<1>4. TypeOK'
  <2>1. table' \subseteq [name : Names, bit : Nat \cup {Null}]
    BY <1>2 DEF TypeOK
  <2>2. \A row1, row2 \in table' :
          row1.name = row2.name \/ (row1.bit = row2.bit /\ row1.bit # Null) => row1 = row2
    BY <1>3 DEF TypeOK
  <2>3. /\ phase' \in [Workers -> {"down", "checking", "inserting", "serving", "failed"}]
        /\ next' \in [Workers -> Nat \ {0}]
    BY DEF TypeOK
  <2>4. \A v \in Workers : phase'[v] = "inserting" => next'[v] \in DOMAIN Registry[release[v]]
    BY DEF TypeOK
  <2>5. raced' \subseteq Workers
    BY DEF TypeOK
  <2> QED BY <2>1, <2>2, <2>3, <2>4, <2>5 DEF TypeOK
<1>5. Covered'
  <2> SUFFICES ASSUME NEW v \in Workers
               PROVE  /\ Starting(v)' => \A i \in DOMAIN Registry[release[v]] :
                           i < next'[v] => Registry[release[v]][i] \in table'
                      /\ phase'[v] = "serving" => Entries(release[v]) \subseteq table'
    BY DEF Covered, Entries
  <2>1. CASE v # w
    BY <2>1 DEF Covered, Starting, TypeOK
  <2>2. CASE v = w
    <3>1. \A i \in DOMAIN Registry[r] : i < next[w] + 1 => i < next[w] \/ i = next[w]
      BY <1>1, EntriesType
    <3>2. \A i \in DOMAIN Registry[r] : i < next'[w] => Registry[r][i] \in table'
      BY <3>1 DEF Covered, Starting, TypeOK, Entry
    <3> QED BY <2>2, <3>2 DEF TypeOK
  <2> QED BY <2>1, <2>2
<1>6. Imported'
  BY DEF Imported, Starting, Imports, Entries, Known, TypeOK
<1>7. RoleBacked'
  <2>1. e.name \notin role.names
    BY <1>3 DEF RoleBacked
  <2>2. {x \in table' : x.name \in role.names} = {x \in table : x.name \in role.names}
    BY <2>1
  <2> QED BY <2>2 DEF RoleBacked
<1>8. Undisturbed'
  <2> SUFFICES ASSUME NEW v \in sound, v \notin raced', Starting(v)'
               PROVE  Agrees(release[v])' /\ (phase'[v] = "inserting" => Existing(v)' = {})
    BY DEF Undisturbed
  <2>1. v = w
    BY DEF Starting, TypeOK
  <2>2. phase'[v] = "checking"
    BY <2>1 DEF TypeOK
  <2>3. Agrees(r) /\ Imports(r)
    BY <2>1 DEF Undisturbed, Imported, Starting
  <2>4. ASSUME NEW f \in Entries(r) PROVE e.name = f.name <=> e.bit = f.bit
    <3>1. PICK i \in DOMAIN Registry[r] : f = Registry[r][i]
      BY DEF Entries
    <3>2. e = Registry[r][next[w]]
      BY DEF Entry
    <3> QED BY <1>1, <2>3, <3>1, <3>2, CatalogAssumption DEF Imports, CatalogAssumption
  <2>5. \A f \in Entries(r) : \A row \in table' : row.name = f.name <=> row.bit = f.bit
    BY <2>3, <2>4 DEF Agrees
  <2> QED BY <2>1, <2>2, <2>5 DEF Agrees, Entries
<1>9. OnlyRacesFailAStart'
  BY DEF OnlyRacesFailAStart, TypeOK
<1> QED BY <1>4, <1>5, <1>6, <1>7, <1>8, <1>9

LEMMA WriteRoleKeeps == ASSUME Inv, NEW w \in Workers, WriteRole(w) PROVE Inv'
<1> USE DEF Inv, WriteRole
<1> DEFINE r == release[w]
<1>0. \A v \in Workers : Imports(release[v])' = Imports(release[v])
  BY DEF Imports, Entries, Known
<1>1. PICK names \in SUBSET Names :
        /\ ExpandImplied(names) \subseteq Known(r)
        /\ role' = [names |-> ExpandImplied(names), mask |-> MaskFor(r, ExpandImplied(names))]
  OBVIOUS
<1> DEFINE S == ExpandImplied(names)
<1>2. r \in Releases /\ Entries(r) \subseteq table /\ Entries(r) \subseteq [name : Names, bit : Nat]
  BY EntriesType DEF TypeOK, Covered
<1>3. S \subseteq {e.name : e \in Entries(r)}
  BY <1>1 DEF Known
<1> HIDE DEF S
<1>4. role' = [names |-> S, mask |-> MaskFor(r, S)]
  BY <1>1 DEF S
<1>5. role' \in [names : SUBSET Names, mask : SUBSET Nat]
  BY <1>2, <1>3, <1>4 DEF MaskFor
<1>6. TypeOK'
  BY <1>5 DEF TypeOK
<1>7. RoleBacked'
  <2>1. \A n \in S : \E row \in table : row.name = n /\ row.bit \in Nat
    BY <1>2, <1>3
  <2>2. ASSUME NEW row \in table, row.name \in S PROVE row \in Entries(r)
    <3>1. PICK e \in Entries(r) : e.name = row.name
      BY <1>3, <2>2
    <3>2. e = row
      BY <1>2, <3>1 DEF TypeOK
    <3> QED BY <3>2
  <2>3. {x \in Entries(r) : x.name \in S} = {x \in table : x.name \in S}
    BY <1>2, <2>2
  <2>4. MaskFor(r, S) = {row.bit : row \in {x \in table : x.name \in S}}
    BY <2>3 DEF MaskFor
  <2>5. role'.names = S /\ role'.mask = MaskFor(r, S)
    BY <1>4
  <2> QED BY <2>1, <2>4, <2>5 DEF RoleBacked
<1>8. Covered' /\ Imported'
  BY <1>0 DEF Covered, Imported, Starting, Entries
<1>9. Undisturbed' /\ OnlyRacesFailAStart'
  BY DEF Undisturbed, OnlyRacesFailAStart, Starting, Entries, Agrees, Existing, Entry
<1> QED BY <1>6, <1>7, <1>8, <1>9

LEMMA StopKeeps == ASSUME Inv, NEW w \in Workers, Stop(w) PROVE Inv'
<1> USE DEF Inv, Stop, Goto
<1>1. TypeOK'
  BY CatalogAssumption DEF TypeOK, CatalogAssumption
<1>2. Covered'
  BY DEF Covered, Starting, TypeOK, Entries
<1>3. Imported'
  BY DEF Imported, Starting, Imports, Entries, Known, TypeOK
<1>4. RoleBacked'
  BY DEF RoleBacked
<1>5. Undisturbed'
  BY DEF Undisturbed, Starting, Agrees, Entries, Existing, Entry, TypeOK
<1>6. OnlyRacesFailAStart'
  BY DEF OnlyRacesFailAStart, TypeOK
<1> QED BY <1>1, <1>2, <1>3, <1>4, <1>5, <1>6

LEMMA InvNext == Inv /\ [Next]_vars => Inv'
<1> SUFFICES ASSUME Inv, [Next]_vars PROVE Inv'
  OBVIOUS
<1>1. ASSUME NEW w \in Workers, Boot(w) \/ Sync(w) \/ WriteRole(w) \/ Stop(w) PROVE Inv'
  BY <1>1, BootKeeps, CheckPresentKeeps, CheckMismatchKeeps, CheckAbsentKeeps, InsertKeeps,
     InsertRefusedKeeps, ServeKeeps, WriteRoleKeeps, StopKeeps DEF Sync
<1>2. CASE UNCHANGED vars
  BY <1>2 DEF vars, Inv, TypeOK, Covered, Imported, RoleBacked, Undisturbed,
     OnlyRacesFailAStart, Starting, Entries, Imports, Known, Agrees, Existing, Entry
<1> QED BY <1>1, <1>2 DEF Next

LEMMA InvAlways == Spec => []Inv
BY InvInit, InvNext, PTL DEF Spec
-----------------------------------------------------------------------------
(* Workers keep their shapes, and the table is one to one between names and bits, for any
   releases, workers and mask width. *)
THEOREM TypeCorrect == Spec => []TypeOK
<1>1. Inv => TypeOK
  BY DEF Inv
<1> QED BY <1>1, InvAlways, PTL

(* Any two workers that serve read one mask alike, whatever releases were started,
   stopped and rolled back before (sync, names_for_mask). *)
THEOREM MasksMeanTheSame == Spec => []MasksTravel
BY InvImpliesMasksTravel, InvAlways, PTL

(* A start that begins in agreement with the table fails only by a race (sync). *)
THEOREM StartsFailByRacesOnly == Spec => []OnlyRacesFailAStart
<1>1. Inv => OnlyRacesFailAStart
  BY DEF Inv
<1> QED BY <1>1, InvAlways, PTL
=============================================================================
