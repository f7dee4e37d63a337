---------------------------- MODULE ConsolesProofs ----------------------------
(***************************************************************************)
(* Theorems of Consoles.  Each part has an inductive invariant of its own, *)
(* stated over the part's module through its instance; a step of the       *)
(* consoles is one of the part that is open, so the invariant of that part *)
(* is all there is to keep.                                                *)
(***************************************************************************)
EXTENDS Consoles, FiniteSetTheorems, SequenceTheorems, WellFoundedInduction, TLAPS

----------------------------------------------------------------------------
(* The role catalogue: a PATCH between its two transactions carries the     *)
(* rank its role's new name asks for, as long as nobody else patches it.    *)

RankFits(row) == row.name \in R!ReservedNames => row.rank = R!ReservedRank[row.name]

Patched ==
  [name: R!Names \cup {None}, rank: (0..1000) \cup {None}, dept: Departments \cup {None}]

RolesTyped ==
  /\ roles \in [RoleIds -> R!Role \cup {None}]
  /\ raced \subseteq RoleIds
  /\ patches \in [Requests -> [role: RoleIds, fields: Patched] \cup {None}]
  /\ \A q \in Requests : patches[q] # None => roles[patches[q].role] # None

PatchesKeepTheRank ==
  \A q \in Requests :
    patches[q] # None /\ patches[q].role \notin raced =>
      RankFits(R!Set(roles[patches[q].role], patches[q].fields))

RolesIInv == RolesTyped /\ PatchesKeepTheRank /\ R!ReservedNamesCarryTheirRank

LEMMA RoleTypes == ASSUME RolesTyped PROVE R!TypeOK
<1>1. \A q \in Requests : patches[q] # None =>
        /\ roles[patches[q].role] # None
        /\ patches[q].fields \in Patched
  BY DEF RolesTyped
<1>2. \A fields \in Patched : fields.rank \in 0..1000 \cup {None}
  BY DEF Patched
<1> QED
  BY <1>1, <1>2 DEF RolesTyped, R!TypeOK

(* What a PATCH leaves of a row is a row.                                   *)
LEMMA SetIsARow ==
  ASSUME NEW row \in R!Role, NEW fields \in Patched
  PROVE  R!Set(row, fields) \in R!Role
<1>1. DOMAIN row = {"dept", "name", "rank"}
  BY DEF R!Role
<1>2. \A f \in {"dept", "name", "rank"} :
        R!Set(row, fields)[f] = IF fields[f] = None THEN row[f] ELSE fields[f]
  BY <1>1 DEF R!Set
<1>3. R!Set(row, fields)
        = [dept |-> R!Set(row, fields).dept, name |-> R!Set(row, fields).name,
           rank |-> R!Set(row, fields).rank]
  BY <1>1 DEF R!Set
<1>4. /\ fields.dept \in Departments \cup {None}
      /\ fields.name \in R!Names \cup {None}
      /\ fields.rank \in (0..1000) \cup {None}
  BY DEF Patched
<1>5. row.dept \in Departments /\ row.name \in R!Names /\ row.rank \in 0..1000
  BY DEF R!Role
<1> QED
  BY <1>2, <1>3, <1>4, <1>5 DEF R!Role

LEMMA RolesInit == R!Init => RolesIInv
BY DEF R!Init, RolesIInv, RolesTyped, PatchesKeepTheRank, R!ReservedNamesCarryTheirRank

(* The rank that goes with a reserved name is a rank.                       *)
LEMMA ReservedRanks ==
  ASSUME NEW name \in R!ReservedNames
  PROVE  R!ReservedRank[name] \in 0..1000
<1>1. R!ReservedNames = {"read_only", "org_admin", "tenant_admin"}
  BY DEF R!ReservedNames, R!ReservedRank
<1>2. /\ R!ReservedRank["read_only"] = 0
      /\ R!ReservedRank["org_admin"] = 980
      /\ R!ReservedRank["tenant_admin"] = 990
  BY DEF R!ReservedRank
<1> QED
  BY <1>1, <1>2

(* A role is created where none is, so no PATCH is of it.                   *)
LEMMA CreateKeepsRoles ==
  ASSUME RolesIInv, NEW r \in RoleIds, NEW dept \in Departments,
         NEW name \in R!Names, NEW rank \in RanksAsked, R!Create(r, dept, name, rank)
  PROVE  RolesIInv'
<1> DEFINE row == [dept |-> dept, name |-> name, rank |-> R!StoredRank(name, rank)]
<1>1. roles[r] = None /\ roles' = [roles EXCEPT ![r] = row] /\ UNCHANGED <<patches, raced>>
  BY DEF R!Create
<1>2. rank \in Int /\ rank # None
  BY RolesAssumption
<1>3. R!StoredRank(name, rank) \in 0..1000
  BY <1>2, ReservedRanks DEF R!Create, R!AssertRank, R!StoredRank, R!DynamicBand
<1>4. row \in R!Role
  BY <1>3 DEF R!Role
<1>5. RankFits(row)
  BY DEF RankFits, R!StoredRank
<1> HIDE DEF row
<1>6. RolesTyped'
  BY <1>1, <1>4 DEF RolesIInv, RolesTyped
<1>7. PatchesKeepTheRank'
  BY <1>1 DEF RolesIInv, RolesTyped, PatchesKeepTheRank
<1>8. R!ReservedNamesCarryTheirRank'
  BY <1>1, <1>4, <1>5 DEF RolesIInv, RolesTyped, R!ReservedNamesCarryTheirRank, RankFits
<1> QED
  BY <1>6, <1>7, <1>8 DEF RolesIInv

(* A PATCH is read: the rank of a reserved name goes with it.               *)
LEMMA ReadKeepsRoles ==
  ASSUME RolesIInv, NEW q \in Requests, NEW r \in RoleIds, NEW patch \in R!Patch,
         R!UpdateRead(q, r, patch)
  PROVE  RolesIInv'
<1> DEFINE fields == R!Fields(roles[r], patch)
           next == IF patch.name # None THEN patch.name ELSE roles[r].name
<1>1. /\ roles[r] # None /\ UNCHANGED <<roles, raced>>
      /\ patches' = [patches EXCEPT ![q] = [role |-> r, fields |-> fields]]
  BY DEF R!UpdateRead
<1>2. roles[r] \in R!Role
  BY <1>1 DEF RolesIInv, RolesTyped
<1>3. next \in R!Names
  BY <1>2 DEF R!Patch, R!Role
<1>4. fields = [name |-> patch.name, dept |-> patch.dept,
                rank |-> IF next \in R!ReservedNames THEN R!ReservedRank[next] ELSE patch.rank]
  BY DEF R!Fields, R!Patch
<1>5. \A name \in R!ReservedNames : R!ReservedRank[name] \in 0..1000
  BY ReservedRanks
<1>6. patch.rank = None \/ patch.rank \in 0..1000 \/ next \in R!ReservedNames
  BY DEF R!UpdateRead, R!AssertRank, R!DynamicBand
<1> HIDE DEF fields, next
<1>7. fields \in Patched
  <2>1. /\ patch.name \in R!Names \cup {None}
        /\ patch.dept \in Departments \cup {None}
    BY DEF R!Patch
  <2>2. fields.rank \in (0..1000) \cup {None}
    BY <1>4, <1>5, <1>6
  <2> QED
    BY <1>4, <2>1, <2>2 DEF Patched
<1>8. RankFits(R!Set(roles[r], fields))
  <2>1. R!Set(roles[r], fields).name = next
    BY <1>2, <1>4 DEF R!Set, R!Role, next
  <2>2. R!Set(roles[r], fields).rank
          = IF fields.rank = None THEN roles[r].rank ELSE fields.rank
    BY <1>2 DEF R!Set, R!Role
  <2>3. CASE next \in R!ReservedNames
    <3>1. fields.rank = R!ReservedRank[next]
      BY <1>4, <2>3
    <3>2. R!ReservedRank[next] \in 0..1000
      BY <1>5, <2>3
    <3>3. fields.rank # None
      BY <3>1, <3>2, RolesAssumption
    <3> QED
      BY <2>1, <2>2, <3>1, <3>3 DEF RankFits
  <2> QED
    BY <2>1, <2>3 DEF RankFits
<1>9. RolesTyped'
  BY <1>1, <1>7 DEF RolesIInv, RolesTyped
<1>10. PatchesKeepTheRank'
  BY <1>1, <1>8 DEF RolesIInv, RolesTyped, PatchesKeepTheRank
<1> QED
  BY <1>1, <1>9, <1>10 DEF RolesIInv, R!ReservedNamesCarryTheirRank

(* The PATCH that is written fits by the invariant; another that has read   *)
(* the same role makes it a raced one.                                      *)
LEMMA WriteKeepsRoles ==
  ASSUME RolesIInv, NEW q \in Requests, R!UpdateWrite(q)
  PROVE  RolesIInv'
<1> DEFINE r == patches[q].role
           row == R!Set(roles[r], patches[q].fields)
<1>1. patches[q] # None /\ patches' = [patches EXCEPT ![q] = None]
  BY DEF R!UpdateWrite
<1>2. patches[q] \in [role: RoleIds, fields: Patched] /\ roles[r] \in R!Role
  BY <1>1 DEF RolesIInv, RolesTyped
<1>3. row \in R!Role
  BY <1>2, SetIsARow
<1>4. r \notin raced => RankFits(row)
  BY <1>1 DEF RolesIInv, PatchesKeepTheRank
<1>5. \/ UNCHANGED <<roles, raced>>
      \/ /\ roles' = [roles EXCEPT ![r] = row]
         /\ raced' = IF \E p \in Requests \ {q} : patches[p] # None /\ patches[p].role = r
                     THEN raced \cup {r} ELSE raced
  BY DEF R!UpdateWrite
<1>6. r \in RoleIds
  BY <1>2
<1> HIDE DEF r, row
<1>7. CASE UNCHANGED <<roles, raced>>
  <2>1. RolesTyped'
    BY <1>1, <1>7 DEF RolesIInv, RolesTyped
  <2>2. PatchesKeepTheRank'
    BY <1>1, <1>7 DEF RolesIInv, RolesTyped, PatchesKeepTheRank
  <2> QED
    BY <1>7, <2>1, <2>2 DEF RolesIInv, R!ReservedNamesCarryTheirRank
<1>8. CASE /\ roles' = [roles EXCEPT ![r] = row]
           /\ raced' = IF \E p \in Requests \ {q} : patches[p] # None /\ patches[p].role = r
                       THEN raced \cup {r} ELSE raced
  <2>1. raced \subseteq raced'
    BY <1>8
  <2>2. row # None
    BY <1>3, RolesAssumption
  <2>3. RolesTyped'
    BY <1>1, <1>3, <1>6, <1>8, <2>2 DEF RolesIInv, RolesTyped
  <2>4. \A p \in Requests : patches'[p] # None /\ patches'[p].role \notin raced' =>
          /\ patches[p] # None /\ patches[p].role \notin raced
          /\ patches'[p] = patches[p]
          /\ roles'[patches[p].role] = roles[patches[p].role]
    BY <1>1, <1>8, <2>1 DEF RolesIInv, RolesTyped
  <2>5. PatchesKeepTheRank'
    BY <2>4 DEF RolesIInv, PatchesKeepTheRank
  <2>6. R!ReservedNamesCarryTheirRank'
    BY <1>4, <1>6, <1>8, <2>1 DEF RolesIInv, RolesTyped, R!ReservedNamesCarryTheirRank, RankFits
  <2> QED
    BY <2>3, <2>5, <2>6 DEF RolesIInv
<1> QED
  BY <1>5, <1>7, <1>8

LEMMA RolesNext == RolesIInv /\ [R!Next]_roleVars => RolesIInv'
<1> SUFFICES ASSUME RolesIInv, [R!Next]_roleVars
             PROVE  RolesIInv'
  OBVIOUS
<1>1. CASE UNCHANGED roleVars
  BY <1>1 DEF roleVars, RolesIInv, RolesTyped, PatchesKeepTheRank,
              R!ReservedNamesCarryTheirRank
<1> QED
  BY <1>1, CreateKeepsRoles, ReadKeepsRoles, WriteKeepsRoles DEF R!Next

\* A whole PUT is alone, and what it has written is what it wants.
WholeIsAlone ==
  \A q \in Requests : puts[q] # None /\ puts[q].whole =>
    /\ \A p \in Requests \ {q} : puts[p] = None
    /\ \A m \in Modules :
         puts[q].step[m] = "done" => (rows[m] = "on" <=> m \in puts[q].wanted)

\* Once it is exact nobody is at work.
ExactIsAtRest == exact # None => \A q \in Requests : puts[q] = None

ModulesIInv == M!TypeOK /\ WholeIsAlone /\ ExactIsAtRest /\ M!WholePutsAreExact

(* No module has a row and no PUT has been made.                            *)
LEMMA ModulesInit == M!Init => ModulesIInv
BY DEF M!Init, ModulesIInv, M!TypeOK, WholeIsAlone, ExactIsAtRest, M!WholePutsAreExact

(* A new PUT has written nothing; if it meets another, neither is whole.    *)
LEMMA PutKeepsModules ==
  ASSUME ModulesIInv, NEW q \in Requests, NEW set \in SUBSET Modules, M!Put(q, set)
  PROVE  ModulesIInv'
<1>1. M!NewPut(set) \in M!Underway
  BY DEF M!NewPut, M!Underway, M!Steps
<1>2. \A p \in Requests \ {q} :
        puts[p] # None => [puts[p] EXCEPT !.whole = FALSE] \in M!Underway
  BY DEF ModulesIInv, M!TypeOK, M!Underway
<1>3. M!TypeOK'
  BY <1>1, <1>2 DEF M!Put, ModulesIInv, M!TypeOK
<1>4. \A p \in Requests \ {q} : puts'[p] # None => ~puts'[p].whole
  BY DEF M!Put, ModulesIInv, M!TypeOK, M!Underway
<1>5. puts'[q] # None /\ puts'[q].whole => \A p \in Requests \ {q} : puts'[p] = None
  BY DEF M!Put, M!NewPut, M!InFlight
<1>6. \A m \in Modules : puts'[q].step[m] # "done"
  BY DEF M!Put, M!NewPut
<1>7. WholeIsAlone'
  BY <1>4, <1>5, <1>6 DEF WholeIsAlone
<1> QED
  BY <1>3, <1>7 DEF M!Put, ModulesIInv, ExactIsAtRest, M!WholePutsAreExact

(* A request in flight keeps everybody from resting, so that one of its     *)
(* transactions only has to keep what its own PUT has written.              *)
LEMMA TransactionKeepsModules ==
  ASSUME ModulesIInv, NEW q \in Requests, puts[q] # None, NEW m \in Modules,
         NEW step \in M!Steps, NEW whole \in BOOLEAN, whole => puts[q].whole,
         puts' = [puts EXCEPT ![q].step[m] = step, ![q].whole = whole],
         UNCHANGED exact, M!TypeOK',
         \A n \in Modules \ {m} : rows'[n] = rows[n],
         whole /\ step = "done" => (rows'[m] = "on" <=> m \in puts[q].wanted)
  PROVE  ModulesIInv'
<1>1. puts[q] \in M!Underway
  BY DEF ModulesIInv, M!TypeOK
<1>2. exact = None /\ exact' = None
  BY DEF ModulesIInv, ExactIsAtRest
<1>3. /\ puts'[q] = [wanted |-> puts[q].wanted,
                     step |-> [puts[q].step EXCEPT ![m] = step], whole |-> whole]
      /\ \A p \in Requests \ {q} : puts'[p] = puts[p]
  BY <1>1 DEF ModulesIInv, M!TypeOK, M!Underway
<1>4. \A p \in Requests \ {q} : puts[p] # None => ~puts[p].whole
  BY DEF ModulesIInv, WholeIsAlone
<1>5. \A n \in Modules : puts'[q].step[n] = IF n = m THEN step ELSE puts[q].step[n]
  BY <1>1, <1>3 DEF M!Underway
<1>6. ASSUME whole
      PROVE  \A p \in Requests \ {q} : puts'[p] = None
  BY <1>3, <1>6 DEF ModulesIInv, WholeIsAlone
<1>7. ASSUME whole, NEW n \in Modules, puts'[q].step[n] = "done"
      PROVE  rows'[n] = "on" <=> n \in puts[q].wanted
  <2>1. CASE n = m
    BY <1>5, <1>7, <2>1
  <2>2. CASE n # m
    <3>1. puts[q].step[n] = "done" /\ rows'[n] = rows[n]
      BY <1>5, <1>7, <2>2
    <3> QED
      BY <1>7, <3>1 DEF ModulesIInv, WholeIsAlone
  <2> QED
    BY <2>1, <2>2
<1>8. puts'[q].whole = whole /\ puts'[q].wanted = puts[q].wanted
  BY <1>3
<1>9. WholeIsAlone'
  <2> SUFFICES ASSUME NEW p \in Requests, puts'[p] # None, puts'[p].whole
               PROVE  /\ \A r \in Requests \ {p} : puts'[r] = None
                      /\ \A n \in Modules :
                           puts'[p].step[n] = "done" => (rows'[n] = "on" <=> n \in puts'[p].wanted)
    BY DEF WholeIsAlone
  <2>1. p = q
    BY <1>3, <1>4
  <2>2. whole
    BY <1>8, <2>1
  <2> QED
    BY <1>6, <1>7, <1>8, <2>1, <2>2
<1> QED
  BY <1>2, <1>9 DEF ModulesIInv, ExactIsAtRest, M!WholePutsAreExact

(* Every step keeps the invariant.                                          *)
LEMMA ModulesNext == ModulesIInv /\ [M!Next]_moduleVars => ModulesIInv'
<1> SUFFICES ASSUME ModulesIInv, [M!Next]_moduleVars
             PROVE  ModulesIInv'
  OBVIOUS
<1>1. ASSUME NEW q \in Requests, NEW m \in Modules, M!Select(q, m)
      PROVE  ModulesIInv'
  <2> DEFINE next == IF rows[m] = "none" THEN "insert" ELSE "update"
  <2>1. puts[q] \in M!Underway
    BY <1>1 DEF M!Select, ModulesIInv, M!TypeOK
  <2>2. puts' = [puts EXCEPT ![q].step[m] = next, ![q].whole = puts[q].whole]
    BY <1>1, <2>1 DEF M!Select, ModulesIInv, M!TypeOK, M!Underway
  <2>3. M!TypeOK'
    BY <1>1, <2>1 DEF M!Select, ModulesIInv, M!TypeOK, M!Underway, M!Steps
  <2> QED
    BY <1>1, <2>1, <2>2, <2>3, TransactionKeepsModules DEF M!Select, M!Underway, M!Steps
<1>2. ASSUME NEW q \in Requests, NEW m \in Modules, M!Write(q, m)
      PROVE  ModulesIInv'
  <2>1. puts[q] \in M!Underway /\ puts[q] # None
    BY <1>2 DEF M!Write, ModulesIInv, M!TypeOK
  <2>2. CASE puts[q].step[m] = "insert" /\ rows[m] # "none"
    <3>1. M!TypeOK'
      BY <1>2, <2>1, <2>2 DEF M!Write, ModulesIInv, M!TypeOK, M!Underway, M!Steps
    <3> QED
      BY <1>2, <2>1, <2>2, <3>1, TransactionKeepsModules DEF M!Write, M!Steps
  <2>3. CASE ~(puts[q].step[m] = "insert" /\ rows[m] # "none")
    <3>1. puts' = [puts EXCEPT ![q].step[m] = "done", ![q].whole = puts[q].whole]
      BY <1>2, <2>1, <2>3 DEF M!Write, ModulesIInv, M!TypeOK, M!Underway
    <3>2. rows' = [rows EXCEPT ![m] = IF m \in puts[q].wanted THEN "on" ELSE "off"]
      BY <1>2, <2>3 DEF M!Write
    <3>3. M!TypeOK'
      BY <1>2, <2>1, <3>1, <3>2 DEF M!Write, ModulesIInv, M!TypeOK, M!Underway, M!Steps
    <3>4. /\ \A n \in Modules \ {m} : rows'[n] = rows[n]
          /\ rows'[m] = "on" <=> m \in puts[q].wanted
      BY <3>2 DEF ModulesIInv, M!TypeOK
    <3> QED
      BY <1>2, <2>1, <3>1, <3>3, <3>4, TransactionKeepsModules DEF M!Write, M!Underway, M!Steps
  <2> QED
    BY <2>2, <2>3
<1>3. ASSUME NEW q \in Requests, NEW m \in Modules, M!Fail(q, m)
      PROVE  ModulesIInv'
  <2>1. M!TypeOK'
    BY <1>3 DEF M!Fail, ModulesIInv, M!TypeOK, M!Underway, M!Steps
  <2> QED
    BY <1>3, <2>1, TransactionKeepsModules DEF M!Fail, M!Steps
<1>4. ASSUME NEW q \in Requests, M!Answer(q)
      PROVE  ModulesIInv'
  <2>1. puts[q] \in M!Underway /\ puts[q] # None
    BY <1>4 DEF M!Answer, ModulesIInv, M!TypeOK
  <2>2. M!TypeOK'
    BY <1>4, <2>1 DEF M!Answer, ModulesIInv, M!TypeOK, M!Underway
  <2>3. ASSUME exact' # None
        PROVE  /\ \A p \in Requests : puts'[p] = None
               /\ M!Active' = exact'
    <3>1. puts[q].whole /\ exact' = puts[q].wanted
      BY <1>4, <2>3 DEF M!Answer
    <3>2. \A m \in Modules : rows[m] = "on" <=> m \in puts[q].wanted
      BY <1>4, <2>1, <3>1 DEF M!Answer, ModulesIInv, WholeIsAlone
    <3>3. M!Active' = exact'
      BY <1>4, <2>1, <3>1, <3>2 DEF M!Answer, M!Active, M!Underway
    <3>4. \A p \in Requests : puts'[p] = None
      BY <1>4, <2>1, <3>1 DEF M!Answer, ModulesIInv, WholeIsAlone, M!TypeOK
    <3> QED
      BY <3>3, <3>4
  <2>4. WholeIsAlone'
    BY <1>4 DEF M!Answer, ModulesIInv, WholeIsAlone, M!TypeOK
  <2> QED
    BY <2>2, <2>3, <2>4 DEF ModulesIInv, ExactIsAtRest, M!WholePutsAreExact
<1>5. CASE M!Restart
  BY <1>5 DEF M!Restart, ModulesIInv, M!TypeOK, WholeIsAlone, ExactIsAtRest, M!WholePutsAreExact
<1>6. CASE UNCHANGED moduleVars
  BY <1>6 DEF moduleVars, ModulesIInv, M!TypeOK, WholeIsAlone, ExactIsAtRest,
              M!WholePutsAreExact, M!Active
<1> QED
  BY <1>1, <1>2, <1>3, <1>4, <1>5, <1>6, PutKeepsModules DEF M!Next

----------------------------------------------------------------------------
(* The directory: no place ever changes its tenant, and a department write  *)
(* that was checked stays right unless its branch is given away meanwhile.  *)

Write == [dept: Units, tenant: Tenants, org: Orgs \cup {None}, new: BOOLEAN]

DirectoryTyped == D!TypeOK /\ writes \in [Requests -> Write \cup {None}]

\* The branch a department is of, or is about to be of.
OfItsTenant(tenant, org) ==
  org \notin moved \cup {None} => orgs[org] # None /\ orgs[org].tenant = tenant

DepartmentsAtHome ==
  \A d \in Units : departments[d] # None => OfItsTenant(departments[d].tenant, departments[d].org)
WritesAtHome ==
  \A q \in Requests : writes[q] # None => OfItsTenant(writes[q].tenant, writes[q].org)
BranchesAtHome ==
  \A o \in Orgs : orgs[o] # None /\ orgs[o].city # None =>
    places[orgs[o].city] # None /\ places[orgs[o].city].tenant = orgs[o].tenant
PlacesAtHome ==
  \A p \in D!Places : places[p] # None /\ places[p].parent # None =>
    /\ places[places[p].parent] # None
    /\ places[places[p].parent].tenant = places[p].tenant

DirectoryIInv ==
  DirectoryTyped /\ DepartmentsAtHome /\ WritesAtHome /\ BranchesAtHome /\ PlacesAtHome

LEMMA DirectoryInit == D!Init => DirectoryIInv
BY DEF D!Init, DirectoryIInv, DirectoryTyped, D!TypeOK, DepartmentsAtHome, WritesAtHome,
       BranchesAtHome, PlacesAtHome

(* What is at home is what the property says of it.                         *)
LEMMA DirectoryHome == DirectoryIInv => D!RecordsPointHome
BY DEF DirectoryIInv, DepartmentsAtHome, OfItsTenant, BranchesAtHome, PlacesAtHome,
       D!RecordsPointHome

Place == D!Country \cup D!State \cup D!City

(* A place that is written keeps its tenant, and has its parent there.      *)
LEMMA WritePlaceKeepsDirectory ==
  ASSUME DirectoryIInv, NEW p \in D!Places, NEW row \in Place, D!WritePlace(p, row),
         places[p] # None => places[p].tenant = row.tenant,
         row.parent # None =>
           row.parent \in D!Places /\ places[row.parent] # None /\ places[row.parent].tenant = row.tenant
  PROVE  DirectoryIInv'
<1>1. /\ places' = [places EXCEPT ![p] = row]
      /\ UNCHANGED <<orgs, departments, writes, moved>>
  BY DEF D!WritePlace
<1>2. places \in [D!Places -> Place \cup {None}]
  BY DEF DirectoryIInv, DirectoryTyped, D!TypeOK, Place
<1>3. row # None
  BY DirectoryAssumption DEF Place
<1>4. \A r \in D!Places : places[r] # None =>
        places'[r] # None /\ places'[r].tenant = places[r].tenant
  BY <1>1, <1>2, <1>3
<1>5. DirectoryTyped'
  BY <1>1, <1>2 DEF DirectoryIInv, DirectoryTyped, D!TypeOK, Place
<1>6. (DepartmentsAtHome /\ WritesAtHome)'
  BY <1>1 DEF DirectoryIInv, DepartmentsAtHome, WritesAtHome, OfItsTenant
<1>7. \A o \in Orgs : orgs[o] # None /\ orgs[o].city # None => orgs[o].city \in D!Places
  BY DEF DirectoryIInv, DirectoryTyped, D!TypeOK, D!Organization, D!Places
<1>8. BranchesAtHome'
  BY <1>1, <1>4, <1>7 DEF DirectoryIInv, BranchesAtHome
<1>9. \A r \in D!Places : places[r] # None /\ places[r].parent # None =>
        places[r].parent \in D!Places
  BY <1>2 DEF Place, D!Country, D!State, D!City, D!Places
<1>10. PlacesAtHome'
  <2> SUFFICES ASSUME NEW r \in D!Places, places'[r] # None, places'[r].parent # None
               PROVE  /\ places'[places'[r].parent] # None
                      /\ places'[places'[r].parent].tenant = places'[r].tenant
    BY DEF PlacesAtHome
  <2>1. CASE r = p
    BY <1>1, <1>2, <1>4, <2>1
  <2>2. CASE r # p
    <3>1. places'[r] = places[r]
      BY <1>1, <1>2, <2>2
    <3> QED
      BY <1>4, <1>9, <3>1 DEF DirectoryIInv, PlacesAtHome
  <2> QED
    BY <2>1, <2>2
<1> QED
  BY <1>5, <1>6, <1>8, <1>10 DEF DirectoryIInv

(* A branch is created, or changed: its city is one of its tenant's.        *)
LEMMA OrgKeepsDirectory ==
  ASSUME DirectoryIInv, NEW o \in Orgs, NEW t \in Tenants, NEW c \in Cities \cup {None},
         D!CityFits(c, t), orgs' = [orgs EXCEPT ![o] = [tenant |-> t, city |-> c]],
         UNCHANGED <<departments, places, writes>>,
         \/ orgs[o] = None /\ moved' = moved
         \/ moved' = IF t # orgs[o].tenant THEN moved \cup {o} ELSE moved
  PROVE  DirectoryIInv'
<1> DEFINE row == [tenant |-> t, city |-> c]
<1>1. row \in D!Organization /\ row # None
  BY DirectoryAssumption DEF D!Organization
<1>2. orgs' = [orgs EXCEPT ![o] = row] /\ row.tenant = t /\ row.city = c
  OBVIOUS
<1>3. orgs \in [Orgs -> D!Organization \cup {None}]
  BY DEF DirectoryIInv, DirectoryTyped, D!TypeOK
<1>4. moved \subseteq moved' /\ moved' \subseteq Orgs
  BY DEF DirectoryIInv, DirectoryTyped, D!TypeOK
<1> HIDE DEF row
<1>5. DirectoryTyped'
  BY <1>1, <1>2, <1>3, <1>4 DEF DirectoryIInv, DirectoryTyped, D!TypeOK
<1>6. ASSUME NEW tenant \in Tenants, NEW org \in Orgs \cup {None}, OfItsTenant(tenant, org)
      PROVE  OfItsTenant(tenant, org)'
  BY <1>1, <1>2, <1>3, <1>4, <1>6 DEF OfItsTenant
<1>7. \A d \in Units : departments[d] # None =>
        departments[d].tenant \in Tenants /\ departments[d].org \in Orgs \cup {None}
  BY DEF DirectoryIInv, DirectoryTyped, D!TypeOK, D!Department
<1>8. DepartmentsAtHome'
  <2> SUFFICES ASSUME NEW d \in Units, departments[d] # None
               PROVE  OfItsTenant(departments[d].tenant, departments[d].org)'
    BY DEF DepartmentsAtHome
  <2>1. PICK tenant \in Tenants : tenant = departments[d].tenant
    BY <1>7
  <2>2. PICK org \in Orgs \cup {None} : org = departments[d].org
    BY <1>7
  <2>3. OfItsTenant(tenant, org)
    BY <2>1, <2>2 DEF DirectoryIInv, DepartmentsAtHome
  <2>4. OfItsTenant(tenant, org)'
    BY <1>6, <2>3
  <2> QED
    BY <2>1, <2>2, <2>4 DEF OfItsTenant
<1>9. WritesAtHome'
  <2> SUFFICES ASSUME NEW q \in Requests, writes[q] # None
               PROVE  OfItsTenant(writes[q].tenant, writes[q].org)'
    BY DEF WritesAtHome
  <2>1. writes[q] \in Write
    BY DEF DirectoryIInv, DirectoryTyped
  <2>2. PICK tenant \in Tenants : tenant = writes[q].tenant
    BY <2>1 DEF Write
  <2>3. PICK org \in Orgs \cup {None} : org = writes[q].org
    BY <2>1 DEF Write
  <2>4. OfItsTenant(tenant, org)
    BY <2>2, <2>3 DEF DirectoryIInv, WritesAtHome
  <2>5. OfItsTenant(tenant, org)'
    BY <1>6, <2>4
  <2> QED
    BY <2>2, <2>3, <2>5 DEF OfItsTenant
<1>10. BranchesAtHome'
  BY <1>1, <1>2, <1>3 DEF DirectoryIInv, BranchesAtHome, D!CityFits
<1> QED
  BY <1>5, <1>8, <1>9, <1>10 DEF DirectoryIInv, PlacesAtHome

LEMMA DirectoryNext == DirectoryIInv /\ [D!Next]_directoryVars => DirectoryIInv'
<1> SUFFICES ASSUME DirectoryIInv, [D!Next]_directoryVars
             PROVE  DirectoryIInv'
  OBVIOUS
<1>1. ASSUME NEW t \in Tenants, NEW c \in Countries, D!CreateCountry(c, t)
      PROVE  DirectoryIInv'
  <2> DEFINE row == [tenant |-> t, parent |-> None]
  <2>1. row \in Place /\ c \in D!Places /\ row.parent = None
    BY DEF Place, D!Country, D!Places
  <2>2. places[c] = None /\ D!WritePlace(c, row)
    BY <1>1 DEF D!CreateCountry
  <2> HIDE DEF row
  <2> QED
    BY <2>1, <2>2, WritePlaceKeepsDirectory
<1>2. ASSUME NEW t \in Tenants, NEW c \in Countries, NEW s \in States, D!CreateState(s, t, c)
      PROVE  DirectoryIInv'
  <2> DEFINE row == [tenant |-> t, parent |-> c]
  <2>1. row \in Place /\ {c, s} \subseteq D!Places /\ row.parent = c /\ row.tenant = t
    BY DEF Place, D!State, D!Places
  <2>2. places[s] = None /\ D!WritePlace(s, row) /\ places[c] # None /\ places[c].tenant = t
    BY <1>2 DEF D!CreateState, D!CountryBelongsToTenant
  <2> HIDE DEF row
  <2> QED
    BY <2>1, <2>2, WritePlaceKeepsDirectory
<1>3. ASSUME NEW t \in Tenants, NEW c \in Countries, NEW s \in States, D!UpdateState(s, t, c)
      PROVE  DirectoryIInv'
  <2> DEFINE row == [places[s] EXCEPT !.parent = c]
  <2>1. /\ places[s] # None /\ places[s].tenant = t /\ D!WritePlace(s, row)
        /\ places[c] # None /\ places[c].tenant = t
    BY <1>3 DEF D!UpdateState, D!StateBelongsToTenant, D!CountryBelongsToTenant
  <2>2. {c, s} \subseteq D!Places /\ places[s] \in Place
    BY <2>1 DEF D!Places, DirectoryIInv, DirectoryTyped, D!TypeOK, Place
  <2>3. row = [tenant |-> t, parent |-> c]
    BY <2>1, <2>2 DEF Place, D!Country, D!State, D!City
  <2>4. row \in Place /\ row.parent = c /\ row.tenant = t
    BY <2>3 DEF Place, D!State
  <2> HIDE DEF row
  <2> QED
    BY <2>1, <2>2, <2>4, WritePlaceKeepsDirectory
<1>4. ASSUME NEW t \in Tenants, NEW s \in States, NEW c \in Cities, D!CreateCity(c, t, s)
      PROVE  DirectoryIInv'
  <2> DEFINE row == [tenant |-> t, parent |-> s]
  <2>1. row \in Place /\ {c, s} \subseteq D!Places /\ row.parent = s /\ row.tenant = t
    BY DEF Place, D!City, D!Places
  <2>2. places[c] = None /\ D!WritePlace(c, row) /\ places[s] # None /\ places[s].tenant = t
    BY <1>4 DEF D!CreateCity, D!StateBelongsToTenant
  <2> HIDE DEF row
  <2> QED
    BY <2>1, <2>2, WritePlaceKeepsDirectory
<1>5. ASSUME NEW t \in Tenants, NEW s \in States, NEW c \in Cities, D!UpdateCity(c, t, s)
      PROVE  DirectoryIInv'
  <2> DEFINE row == [places[c] EXCEPT !.parent = s]
  <2>1. /\ places[c] # None /\ places[c].tenant = t /\ D!WritePlace(c, row)
        /\ places[s] # None /\ places[s].tenant = t
    BY <1>5 DEF D!UpdateCity, D!StateBelongsToTenant
  <2>2. {c, s} \subseteq D!Places /\ places[c] \in Place
    BY <2>1 DEF D!Places, DirectoryIInv, DirectoryTyped, D!TypeOK, Place
  <2>3. row = [tenant |-> t, parent |-> s]
    BY <2>1, <2>2 DEF Place, D!Country, D!State, D!City
  <2>4. row \in Place /\ row.parent = s /\ row.tenant = t
    BY <2>3 DEF Place, D!City
  <2> HIDE DEF row
  <2> QED
    BY <2>1, <2>2, <2>4, WritePlaceKeepsDirectory
<1>6. ASSUME NEW o \in Orgs, NEW t \in Tenants, NEW c \in Cities \cup {None},
             D!CreateOrg(o, t, c) \/ D!UpdateOrg(o, t, c)
      PROVE  DirectoryIInv'
  BY <1>6, OrgKeepsDirectory DEF D!CreateOrg, D!UpdateOrg
<1>7. ASSUME NEW q \in Requests, NEW d \in Units, NEW t \in Tenants, NEW o \in Orgs \cup {None},
             D!CheckDepartment(q, d, t, o)
      PROVE  DirectoryIInv'
  <2> DEFINE w == [dept |-> d, tenant |-> t, org |-> o, new |-> departments[d] = None]
  <2>1. writes' = [writes EXCEPT ![q] = w] /\ UNCHANGED <<orgs, departments, places, moved>>
        /\ (o # None => orgs[o] # None /\ orgs[o].tenant = t)
    BY <1>7 DEF D!CheckDepartment, D!OrgBelongsToTenant
  <2>2. w \in Write /\ w.tenant = t /\ w.org = o
    BY DEF Write
  <2> HIDE DEF w
  <2>3. DirectoryTyped'
    BY <2>1, <2>2 DEF DirectoryIInv, DirectoryTyped, D!TypeOK
  <2>4. OfItsTenant(t, o)
    BY <2>1 DEF OfItsTenant
  <2>5. WritesAtHome'
    BY <2>1, <2>2, <2>4 DEF DirectoryIInv, DirectoryTyped, WritesAtHome, OfItsTenant
  <2> QED
    BY <2>1, <2>3, <2>5 DEF DirectoryIInv, DepartmentsAtHome, OfItsTenant, BranchesAtHome,
                            PlacesAtHome
<1>8. ASSUME NEW q \in Requests, D!WriteDepartment(q)
      PROVE  DirectoryIInv'
  <2> DEFINE w == writes[q]
             row == [tenant |-> w.tenant, org |-> w.org]
  <2>1. w # None /\ writes' = [writes EXCEPT ![q] = None] /\ UNCHANGED <<orgs, places, moved>>
    BY <1>8 DEF D!WriteDepartment
  <2>2. departments' \in {departments, [departments EXCEPT ![w.dept] = row]}
    BY <1>8 DEF D!WriteDepartment
  <2>3. w \in Write
    BY <2>1 DEF DirectoryIInv, DirectoryTyped
  <2>4. row \in D!Department /\ w.dept \in Units /\ row.tenant = w.tenant /\ row.org = w.org
    BY <2>3 DEF Write, D!Department
  <2>5. OfItsTenant(row.tenant, row.org)
    BY <2>1, <2>4 DEF DirectoryIInv, WritesAtHome
  <2> HIDE DEF w, row
  <2>6. DirectoryTyped'
    BY <2>1, <2>2, <2>4 DEF DirectoryIInv, DirectoryTyped, D!TypeOK
  <2>7. DepartmentsAtHome'
    BY <2>1, <2>2, <2>4, <2>5
       DEF DirectoryIInv, DirectoryTyped, D!TypeOK, DepartmentsAtHome, OfItsTenant
  <2>8. WritesAtHome'
    BY <2>1 DEF DirectoryIInv, DirectoryTyped, WritesAtHome, OfItsTenant
  <2> QED
    BY <2>1, <2>6, <2>7, <2>8 DEF DirectoryIInv, BranchesAtHome, PlacesAtHome
<1>9. CASE UNCHANGED directoryVars
  BY <1>9 DEF directoryVars, DirectoryIInv, DirectoryTyped, D!TypeOK, DepartmentsAtHome,
              WritesAtHome, OfItsTenant, BranchesAtHome, PlacesAtHome
<1> QED
  BY <1>1, <1>2, <1>3, <1>4, <1>5, <1>6, <1>7, <1>8, <1>9 DEF D!Next

----------------------------------------------------------------------------
(* The resolver of the capability matrix is written twice.  Both walk the   *)
(* catalogue from the tools down; that it is one tree under each tool, of   *)
(* some depth, is all that their agreement needs.                           *)

(* Every nonempty set of numbers has a least one.                           *)
LEMMA LeastNumber ==
  ASSUME NEW S \in SUBSET Nat, S # {}
  PROVE  \E n \in S : \A m \in S : n <= m
<1> DEFINE Below == OpToRel(<, Nat)
<1>1. IsWellFoundedOn(Below, Nat)
  BY NatLessThanWellFounded
<1>2. \A m, n \in Nat : m < n => <<m, n>> \in Below
  BY DEF OpToRel
<1> HIDE DEF Below
<1>3. PICK n \in S : \A m \in S : ~ (<<m, n>> \in Below)
  BY <1>1, WFMin
<1>4. \A m \in S : m \in Nat /\ n \in Nat /\ ~ (m < n)
  BY <1>2, <1>3
<1>5. \A m \in S : n <= m
  BY <1>4
<1> QED
  BY <1>5

(* How far below its tool a capability is.                                  *)
LEMMA CapabilitiesHaveADepth ==
  \E depth \in [Caps -> Nat], bound \in Nat :
    \A c \in Caps : /\ depth[c] < bound
                    /\ Parent[c] # None => Parent[c] \in Caps /\ depth[Parent[c]] < depth[c]
<1>1. Cardinality(Caps) \in Nat
  BY CatalogueAssumption, FS_CardinalityType
<1>2. PICK depth \in [Caps -> 0..Cardinality(Caps)] :
        \A c \in Caps : Parent[c] # None => depth[Parent[c]] < depth[c]
  BY CatalogueAssumption
<1>3. depth \in [Caps -> Nat] /\ Cardinality(Caps) + 1 \in Nat
  BY <1>1, <1>2
<1>4. \A c \in Caps : depth[c] < Cardinality(Caps) + 1 /\ (Parent[c] # None => Parent[c] \in Caps)
  BY <1>1, <1>2, CatalogueAssumption
<1> QED
  BY <1>2, <1>3, <1>4

(* What passes from every capability to those under it is true of all.      *)
LEMMA CatalogueInduction ==
  ASSUME NEW Good \in SUBSET Caps,
         \A c \in Caps : (Parent[c] # None => Parent[c] \in Good) => c \in Good
  PROVE  Good = Caps
<1>1. PICK depth \in [Caps -> Nat], bound \in Nat :
        \A c \in Caps : /\ depth[c] < bound
                        /\ Parent[c] # None => Parent[c] \in Caps /\ depth[Parent[c]] < depth[c]
  BY CapabilitiesHaveADepth
<1> DEFINE Depths == {depth[c] : c \in Caps \ Good}
<1> SUFFICES ASSUME Depths # {}
             PROVE  FALSE
  OBVIOUS
<1>2. Depths \in SUBSET Nat
  BY <1>1
<1>3. PICK n \in Depths : \A m \in Depths : n <= m
  BY <1>2, LeastNumber
<1>4. PICK c \in Caps \ Good : n = depth[c]
  OBVIOUS
<1>5. Parent[c] # None /\ Parent[c] \in Caps \ Good
  BY <1>1, <1>4
<1>6. depth[Parent[c]] \in Depths /\ depth[Parent[c]] \in Nat /\ depth[c] \in Nat
      /\ depth[Parent[c]] < depth[c]
  BY <1>1, <1>5
<1> HIDE DEF Depths
<1>7. depth[c] <= depth[Parent[c]]
  BY <1>3, <1>4, <1>6
<1> QED
  BY <1>6, <1>7

GoesDown(f, top, down) ==
  \A c \in Caps : f[c] = IF Parent[c] = None THEN top[c] ELSE down[c][f[Parent[c]]]

(* A function defined along the catalogue, from the tools down, exists.     *)
LEMMA CatalogueRecursion ==
  ASSUME NEW Values, NEW top \in [Caps -> Values],
         NEW down \in [Caps -> [Values -> Values]]
  PROVE  \E f \in [Caps -> Values] : GoesDown(f, top, down)
<1>1. PICK depth \in [Caps -> Nat], bound \in Nat :
        \A c \in Caps : /\ depth[c] < bound
                        /\ Parent[c] # None => Parent[c] \in Caps /\ depth[Parent[c]] < depth[c]
  BY CapabilitiesHaveADepth
<1> DEFINE Rule(f, c) == f[c] = IF Parent[c] = None THEN top[c] ELSE down[c][f[Parent[c]]]
           Down(f) == [c \in Caps |-> IF Parent[c] = None THEN top[c] ELSE down[c][f[Parent[c]]]]
           Follows(f, n) == \A c \in Caps : depth[c] < n => Rule(f, c)
           Stuck == {n \in Nat : \A f \in [Caps -> Values] : ~ Follows(f, n)}
<1>2. ASSUME NEW f \in [Caps -> Values]
      PROVE  Down(f) \in [Caps -> Values]
  BY <1>1
<1>3. 0 \notin Stuck
  <2>1. \A c \in Caps : ~ (depth[c] < 0)
    BY <1>1
  <2> QED
    BY <2>1
<1>4. ASSUME NEW n \in Nat, n \notin Stuck
      PROVE  n + 1 \notin Stuck
  <2>1. PICK f \in [Caps -> Values] : Follows(f, n)
    BY <1>4
  <2>2. ASSUME NEW c \in Caps, depth[c] < n + 1
        PROVE  Rule(Down(f), c)
    <3>1. CASE Parent[c] = None
      BY <3>1
    <3>2. CASE Parent[c] # None
      <4>1. Parent[c] \in Caps /\ depth[Parent[c]] < n
        <5>1. depth[c] \in Nat /\ Parent[c] \in Caps /\ depth[Parent[c]] \in Nat
              /\ depth[Parent[c]] < depth[c]
          BY <1>1, <3>2
        <5> QED
          BY <2>2, <5>1
      <4>2. Down(f)[Parent[c]] = f[Parent[c]]
        BY <2>1, <4>1
      <4> QED
        BY <3>2, <4>2
    <3> QED
      BY <3>1, <3>2
  <2> QED
    BY <1>2, <2>1, <2>2
<1> HIDE DEF Stuck
<1>5. Stuck = {}
  <2> SUFFICES ASSUME Stuck # {}
               PROVE  FALSE
    OBVIOUS
  <2>1. Stuck \in SUBSET Nat
    BY DEF Stuck
  <2>2. PICK n \in Stuck : \A m \in Stuck : n <= m
    BY <2>1, LeastNumber
  <2>3. n \in Nat /\ n # 0
    BY <1>3, <2>1
  <2>4. n - 1 \in Nat /\ ~ (n <= n - 1) /\ (n - 1) + 1 = n
    BY <2>3
  <2>5. n - 1 \notin Stuck
    BY <2>2, <2>4
  <2> QED
    BY <1>4, <2>4, <2>5
<1>6. PICK f \in [Caps -> Values] : Follows(f, bound)
  BY <1>5 DEF Stuck
<1>7. GoesDown(f, top, down)
  BY <1>1, <1>6 DEF GoesDown
<1> QED
  BY <1>7

(* What flows down, what is granted and the walk are what their recursions  *)
(* say they are.                                                            *)
LEMMA FlowsRecursion ==
  ASSUME NEW own
  PROVE  /\ G!Flows(own) \in [Caps -> BOOLEAN]
         /\ \A c \in Caps : G!Flows(own)[c] =
              IF G!Inherits(c) /\ own[c] # "none" THEN own[c] = "on"
              ELSE IF Parent[c] = None THEN own[c] = "on" ELSE G!Flows(own)[Parent[c]]
<1> DEFINE Held(c) == G!Inherits(c) /\ own[c] # "none"
           Rule(f, c) == IF Held(c) THEN own[c] = "on"
                         ELSE IF Parent[c] = None THEN own[c] = "on" ELSE f[Parent[c]]
           first == [c \in Caps |-> own[c] = "on"]
           down == [c \in Caps |-> [b \in BOOLEAN |-> IF Held(c) THEN own[c] = "on" ELSE b]]
           flows == G!Flows(own)
           Good == {c \in Caps : flows[c] \in BOOLEAN}
<1>1. first \in [Caps -> BOOLEAN] /\ down \in [Caps -> [BOOLEAN -> BOOLEAN]]
  OBVIOUS
<1> HIDE DEF first, down
<1>2. PICK f \in [Caps -> BOOLEAN] : GoesDown(f, first, down)
  BY <1>1, CatalogueRecursion
<1>3. \A c \in Caps : Parent[c] # None => f[Parent[c]] \in BOOLEAN
  BY <1>2, CatalogueAssumption
<1>4. \A c \in Caps : f[c] = Rule(f, c)
  BY <1>2, <1>3 DEF GoesDown, first, down
<1>5. f = [c \in Caps |-> Rule(f, c)]
  BY <1>2, <1>4
<1>6. flows = [c \in Caps |-> Rule(flows, c)]
  BY <1>5 DEF G!Flows
<1> HIDE DEF flows
<1>7. \A c \in Caps : flows[c] = Rule(flows, c)
  BY <1>6
<1>8. Good = Caps
  <2>1. \A c \in Caps : (Parent[c] # None => Parent[c] \in Good) => c \in Good
    BY <1>7
  <2> QED
    BY <2>1, CatalogueInduction
<1>9. flows \in [Caps -> BOOLEAN]
  BY <1>6, <1>8
<1> QED
  BY <1>7, <1>9 DEF flows

LEMMA ResolveRecursion ==
  ASSUME NEW own
  PROVE  /\ G!Resolve(own) = [c \in Caps |-> G!Resolve(own)[c]]
         /\ \A c \in Caps : G!Resolve(own)[c] =
              /\ Parent[c] # None => G!Resolve(own)[Parent[c]]
              /\ IF G!Inherits(c) /\ own[c] = "none" /\ Parent[c] # None
                 THEN G!Flows(own)[Parent[c]] ELSE own[c] = "on"
<1> DEFINE flows == G!Flows(own)
           Alone(c) == IF G!Inherits(c) /\ own[c] = "none" /\ Parent[c] # None
                       THEN flows[Parent[c]] ELSE own[c] = "on"
           Rule(f, c) == (Parent[c] # None => f[Parent[c]]) /\ Alone(c)
           first == [c \in Caps |-> Alone(c)]
           down == [c \in Caps |-> [b \in BOOLEAN |-> b /\ Alone(c)]]
<1>1. \A c \in Caps : Alone(c) \in BOOLEAN
  BY FlowsRecursion, CatalogueAssumption
<1> HIDE DEF Alone
<1>2. first \in [Caps -> BOOLEAN] /\ down \in [Caps -> [BOOLEAN -> BOOLEAN]]
  BY <1>1
<1> HIDE DEF first, down
<1>3. PICK f \in [Caps -> BOOLEAN] : GoesDown(f, first, down)
  BY <1>2, CatalogueRecursion
<1>4. \A c \in Caps : Parent[c] # None => f[Parent[c]] \in BOOLEAN
  BY <1>3, CatalogueAssumption
<1>5. \A c \in Caps : f[c] = Rule(f, c)
  BY <1>1, <1>3, <1>4 DEF GoesDown, first, down
<1>6. f = [c \in Caps |-> Rule(f, c)]
  BY <1>3, <1>5
<1>7. G!Resolve(own) = [c \in Caps |-> Rule(G!Resolve(own), c)]
  BY <1>6 DEF G!Resolve, Alone
<1> QED
  BY <1>7 DEF Alone

LEMMA WalkRecursion ==
  ASSUME NEW row
  PROVE  \A c \in Caps :
           /\ G!Walk(row)[c].nav =
                IF Parent[c] = None \/ (G!Inherits(c) /\ row[c] # "none")
                THEN row[c] = "on" ELSE G!Walk(row)[Parent[c]].nav
           /\ G!Walk(row)[c].granted =
                IF Parent[c] = None THEN row[c] = "on"
                ELSE /\ G!Walk(row)[Parent[c]].granted
                     /\ IF G!Inherits(c) THEN G!Walk(row)[c].nav ELSE row[c] = "on"
<1> DEFINE Step == [granted: BOOLEAN, nav: BOOLEAN]
           Nav(c, w) == IF G!Inherits(c) /\ row[c] # "none" THEN row[c] = "on" ELSE w.nav
           Root(c) == [granted |-> row[c] = "on", nav |-> row[c] = "on"]
           Under(c, w) ==
             [granted |-> w.granted /\ IF G!Inherits(c) THEN Nav(c, w) ELSE row[c] = "on",
              nav |-> Nav(c, w)]
           Rule(f, c) == IF Parent[c] = None THEN Root(c) ELSE Under(c, f[Parent[c]])
           first == [c \in Caps |-> Root(c)]
           down == [c \in Caps |-> [w \in Step |-> Under(c, w)]]
<1>1. \A c \in Caps : Root(c) \in Step /\ \A w \in Step : Under(c, w) \in Step
  <2>1. ASSUME NEW c \in Caps, NEW w \in Step
        PROVE  /\ Nav(c, w) \in BOOLEAN
               /\ (w.granted /\ IF G!Inherits(c) THEN Nav(c, w) ELSE row[c] = "on") \in BOOLEAN
    OBVIOUS
  <2> QED
    BY <2>1
<1>2. first \in [Caps -> Step] /\ down \in [Caps -> [Step -> Step]]
  <2> HIDE DEF Step, Root, Under
  <2> QED
    BY <1>1
<1> HIDE DEF first, down, Step, Root, Under
<1>3. PICK f \in [Caps -> Step] : GoesDown(f, first, down)
  BY <1>2, CatalogueRecursion
<1>4. \A c \in Caps : Parent[c] # None => f[Parent[c]] \in Step
  BY <1>3, CatalogueAssumption
<1>5. \A c \in Caps : f[c] = Rule(f, c)
  BY <1>3, <1>4 DEF GoesDown, first, down
<1>6. f = [c \in Caps |-> Rule(f, c)]
  BY <1>3, <1>5
<1>7. G!Walk(row) = [c \in Caps |-> Rule(G!Walk(row), c)]
  BY <1>6 DEF G!Walk, Root, Under
<1>8. \A c \in Caps : G!Walk(row)[c] = Rule(G!Walk(row), c)
  <2> DEFINE walk == G!Walk(row)
  <2>1. walk = [c \in Caps |-> Rule(walk, c)]
    BY <1>7
  <2> HIDE DEF walk
  <2>2. \A c \in Caps : walk[c] = Rule(walk, c)
    BY <2>1
  <2> QED
    BY <2>2 DEF walk
<1> SUFFICES ASSUME NEW c \in Caps
             PROVE  /\ G!Walk(row)[c].nav =
                         IF Parent[c] = None \/ (G!Inherits(c) /\ row[c] # "none")
                         THEN row[c] = "on" ELSE G!Walk(row)[Parent[c]].nav
                    /\ G!Walk(row)[c].granted =
                         IF Parent[c] = None THEN row[c] = "on"
                         ELSE /\ G!Walk(row)[Parent[c]].granted
                              /\ IF G!Inherits(c) THEN G!Walk(row)[c].nav ELSE row[c] = "on"
  OBVIOUS
<1>9. CASE Parent[c] = None
  <2>1. G!Walk(row)[c] = Root(c)
    BY <1>8, <1>9
  <2>2. G!Walk(row)[c].nav = (row[c] = "on") /\ G!Walk(row)[c].granted = (row[c] = "on")
    BY <2>1 DEF Root
  <2> QED
    BY <1>9, <2>2
<1>10. CASE Parent[c] # None
  <2> DEFINE w == G!Walk(row)[Parent[c]]
  <2>1. G!Walk(row)[c] = Under(c, w)
    BY <1>8, <1>10
  <2>2. G!Walk(row)[c].nav = Nav(c, w)
    BY <2>1 DEF Under
  <2>3. G!Walk(row)[c].granted = (w.granted /\ IF G!Inherits(c) THEN Nav(c, w) ELSE row[c] = "on")
    BY <2>1 DEF Under
  <2> QED
    BY <1>10, <2>2, <2>3
<1> QED
  BY <1>9, <1>10

(* The walk of the database finds what the walk of the screen finds.        *)
LEMMA WalksAgree ==
  ASSUME NEW own
  PROVE  \A c \in Caps : /\ G!Walk(own)[c].granted = G!Resolve(own)[c]
                         /\ G!Walk(own)[c].nav = G!Flows(own)[c]
<1> DEFINE walk == G!Walk(own)
           granted == G!Resolve(own)
           flows == G!Flows(own)
           Good == {c \in Caps : walk[c].granted = granted[c] /\ walk[c].nav = flows[c]}
<1>1. ASSUME NEW c \in Caps, Parent[c] # None => Parent[c] \in Good
      PROVE  c \in Good
  <2>1. /\ granted[c] = /\ Parent[c] # None => granted[Parent[c]]
                        /\ IF G!Inherits(c) /\ own[c] = "none" /\ Parent[c] # None
                           THEN flows[Parent[c]] ELSE own[c] = "on"
        /\ flows[c] = IF G!Inherits(c) /\ own[c] # "none" THEN own[c] = "on"
                      ELSE IF Parent[c] = None THEN own[c] = "on" ELSE flows[Parent[c]]
    BY ResolveRecursion, FlowsRecursion
  <2>2. /\ walk[c].nav = IF Parent[c] = None \/ (G!Inherits(c) /\ own[c] # "none")
                         THEN own[c] = "on" ELSE walk[Parent[c]].nav
        /\ walk[c].granted = IF Parent[c] = None THEN own[c] = "on"
                             ELSE /\ walk[Parent[c]].granted
                                  /\ IF G!Inherits(c) THEN walk[c].nav ELSE own[c] = "on"
    BY WalkRecursion
  <2>3. Parent[c] # None => /\ walk[Parent[c]].granted = granted[Parent[c]]
                            /\ walk[Parent[c]].nav = flows[Parent[c]]
    BY <1>1
  <2> HIDE DEF walk, granted, flows
  <2>4. walk[c].nav = flows[c]
    BY <2>1, <2>2, <2>3
  <2>5. walk[c].granted = granted[c]
    BY <2>1, <2>2, <2>3
  <2> QED
    BY <2>4, <2>5
<1>2. Good = Caps
  <2> HIDE DEF Good
  <2>1. Good \in SUBSET Caps
    BY DEF Good
  <2> QED
    BY <1>1, <2>1, CatalogueInduction
<1> QED
  BY <1>2

(* The screen's resolveCapabilityMatrix and the database's                  *)
(* iam.fn_role_capability_matrix grant the same, whatever the catalogue and *)
(* the rows of the tenant.                                                  *)
THEOREM TheResolversAgree == G!ResolversAgree
<1> SUFFICES ASSUME NEW table \in [Roles -> G!Rows], NEW r \in Roles
             PROVE  G!RoleCapabilityMatrix(table, r) = G!Resolve(G!Over(table[r], Defaults[r]))
  BY DEF G!ResolversAgree
<1> DEFINE own == G!Over(table[r], Defaults[r])
<1>1. G!RoleCapabilityMatrix(table, r) = [c \in Caps |-> G!Walk(own)[c].granted]
  BY DEF G!RoleCapabilityMatrix, G!Over
<1> HIDE DEF own
<1>2. \A c \in Caps : G!Walk(own)[c].granted = G!Resolve(own)[c]
  BY WalksAgree
<1>3. G!Resolve(own) = [c \in Caps |-> G!Resolve(own)[c]]
  BY ResolveRecursion
<1> QED
  BY <1>1, <1>2, <1>3 DEF own

----------------------------------------------------------------------------
(* The matrix.  What the boxes show when Save is pressed is resolved from   *)
(* the ticks over the rows the screen holds; the save writes the ticks over *)
(* the role's rows; a layer over a layer is one layer, so that the database *)
(* holds what was resolved.                                                 *)

SaveIsAsShown ==
  saving # None =>
    /\ saving.role \in Roles /\ saving.changes \in G!Rows
    /\ saving.shown = G!Resolve(G!Over(saving.changes, G!OwnGrants(saving.held)))

WrittenIsAsShown ==
  saved # None /\ saved.inStep =>
    /\ saved.role \in Roles
    /\ saved.shown = G!Resolve(G!Over(overrides[saved.role], Defaults[saved.role]))

MatrixIInv ==
  /\ overrides \in [Roles -> G!Rows] /\ pending \in G!Rows
  /\ role \in Roles \cup {None}
  /\ SaveIsAsShown /\ WrittenIsAsShown

LEMMA MatrixInit == G!Init => MatrixIInv
BY DEF G!Init, G!NoRows, G!Rows, MatrixIInv, SaveIsAsShown, WrittenIsAsShown

LEMMA MatrixSaved == MatrixIInv => G!SavedFromTheRolesRows
BY TheResolversAgree DEF G!ResolversAgree, MatrixIInv, WrittenIsAsShown, G!SavedFromTheRolesRows, G!SavedAsShown

(* A layer over two layers is the two uppermost over the lowest.            *)
LEMMA LayersAssociate ==
  ASSUME NEW a \in G!Rows, NEW b \in G!Rows, NEW c
  PROVE  /\ G!Over(a, b) \in G!Rows
         /\ G!Over(G!Over(a, b), c) = G!Over(a, G!Over(b, c))
<1>1. G!Over(a, b) \in G!Rows
  BY DEF G!Over, G!Rows
<1>2. ASSUME NEW k \in Caps
      PROVE  G!Over(G!Over(a, b), c)[k] = G!Over(a, G!Over(b, c))[k]
  BY <1>2 DEF G!Over
<1>3. G!Over(G!Over(a, b), c) = G!Over(a, G!Over(b, c))
  BY <1>2 DEF G!Over
<1> QED
  BY <1>1, <1>3

LEMMA MatrixNext == MatrixIInv /\ [G!Next]_matrixVars => MatrixIInv'
<1> SUFFICES ASSUME MatrixIInv, [G!Next]_matrixVars
             PROVE  MatrixIInv'
  OBVIOUS
<1> USE DEF MatrixIInv, SaveIsAsShown, WrittenIsAsShown
<1>1. ASSUME NEW r \in Roles \cup {None}, G!PickRole(r)
      PROVE  MatrixIInv'
  BY <1>1 DEF G!PickRole, G!NoRows, G!Rows
<1>2. ASSUME NEW r \in Roles, G!ListRoleCapabilities(r) \/ G!ReadAnswers(r) \/ G!ReadFails(r)
      PROVE  MatrixIInv'
  BY <1>2 DEF G!ListRoleCapabilities, G!ReadAnswers, G!ReadFails
<1>3. ASSUME NEW c \in Caps, G!Toggle(c)
      PROVE  MatrixIInv'
  BY <1>3 DEF G!Toggle, G!Rows
<1>4. CASE G!HandleSave
  BY <1>4 DEF G!HandleSave, G!Resolved
<1>5. CASE G!UpsertGrants
  <2>1. /\ saving # None /\ saving.role \in Roles /\ saving.changes \in G!Rows
        /\ overrides' = [overrides EXCEPT ![saving.role] = G!Over(saving.changes, @)]
        /\ saving' = [saving EXCEPT !.written = TRUE]
        /\ saved'.role = saving.role /\ saved'.shown = saving.shown
        /\ saved'.inStep => saving.held = [defaults |-> Defaults[saving.role],
                                           overrides |-> overrides[saving.role]]
        /\ UNCHANGED <<role, pending>>
    BY <1>5 DEF G!UpsertGrants
  <2>2. overrides' \in [Roles -> G!Rows]
        /\ overrides'[saving.role] = G!Over(saving.changes, overrides[saving.role])
    BY <2>1, LayersAssociate
  <2>3. SaveIsAsShown'
    BY <2>1
  <2>4. WrittenIsAsShown'
    <3> SUFFICES ASSUME saved'.inStep
                 PROVE  saved'.shown = G!Resolve(G!Over(overrides'[saved'.role], Defaults[saved'.role]))
      BY <2>1
    <3>1. G!OwnGrants(saving.held) = G!Over(overrides[saving.role], Defaults[saving.role])
      BY <2>1 DEF G!OwnGrants
    <3>2. G!Over(overrides'[saving.role], Defaults[saving.role])
            = G!Over(saving.changes, G!OwnGrants(saving.held))
      BY <2>1, <2>2, <3>1, LayersAssociate
    <3> QED
      BY <2>1, <3>2
  <2> QED
    BY <2>1, <2>2, <2>3, <2>4
<1>6. CASE G!SaveAnswers
  BY <1>6 DEF G!SaveAnswers, G!NoRows, G!Rows
<1>7. CASE G!SaveFails
  BY <1>7 DEF G!SaveFails
<1>8. ASSUME NEW r \in Roles, NEW c \in Caps, NEW value \in {"on", "off"}, G!Elsewhere(r, c, value)
      PROVE  MatrixIInv'
  <2>1. overrides' \in [Roles -> G!Rows] /\ \A s \in Roles : s # r => overrides'[s] = overrides[s]
    BY <1>8 DEF G!Elsewhere, G!Rows
  <2> QED
    BY <1>8, <2>1 DEF G!Elsewhere
<1>9. CASE UNCHANGED matrixVars
  BY <1>9 DEF matrixVars
<1> QED
  BY <1>1, <1>2, <1>3, <1>4, <1>5, <1>6, <1>7, <1>8, <1>9 DEF G!Next

(* The rows on screen and those on their way are rows.                      *)

MatrixTyped ==
  /\ view \in [defaults: G!Rows, overrides: G!Rows]
  /\ loading \in BOOLEAN /\ error \in BOOLEAN
  /\ reads \in [Roles -> [step: {"none", "asked", "read"}, rows: G!Rows]]
  /\ ticks \in Nat /\ others \in Nat /\ ticks + others <= MaxTicks

LEMMA MatrixTypes == MatrixIInv /\ MatrixTyped => G!TypeOK
<1> SUFFICES ASSUME MatrixIInv, MatrixTyped
             PROVE  G!TypeOK
  OBVIOUS
<1>1. \A r \in Roles : reads[r].step \in {"none", "asked", "read"} /\ reads[r].rows \in G!Rows
  BY DEF MatrixTyped
<1>2. ticks + others \in 0..MaxTicks
  BY BoundsAssumption DEF MatrixTyped
<1> QED
  BY <1>1, <1>2 DEF G!TypeOK, MatrixIInv, MatrixTyped

LEMMA LayersAreRows ==
  ASSUME NEW a \in G!Rows, NEW b \in G!Rows
  PROVE  G!Over(a, b) \in G!Rows
BY DEF G!Over, G!Rows

LEMMA MatrixTypedInit == G!Init => MatrixTyped
<1> SUFFICES ASSUME G!Init PROVE MatrixTyped
  OBVIOUS
<1>1. G!NoRows \in G!Rows
  BY DEF G!NoRows, G!Rows
<1>2. G!NoRead \in [step: {"none", "asked", "read"}, rows: G!Rows]
  BY <1>1 DEF G!NoRead
<1>3. G!Blank \in [defaults: G!Rows, overrides: G!Rows]
  BY <1>1 DEF G!Blank
<1>4. reads \in [Roles -> [step: {"none", "asked", "read"}, rows: G!Rows]]
  BY <1>2 DEF G!Init
<1>5. ticks = 0 /\ others = 0 /\ MaxTicks \in Nat
  BY BoundsAssumption DEF G!Init
<1>6. view \in [defaults: G!Rows, overrides: G!Rows] /\ loading = FALSE /\ error = FALSE
  BY <1>3 DEF G!Init
<1>7. ticks \in Nat /\ others \in Nat /\ ticks + others <= MaxTicks
  BY <1>5
<1>8. loading \in BOOLEAN /\ error \in BOOLEAN
  BY <1>6
<1> QED
  BY <1>4, <1>6, <1>7, <1>8 DEF MatrixTyped

LEMMA MatrixTypedNext ==
  MatrixIInv /\ MatrixTyped /\ [G!Next]_matrixVars => MatrixTyped'
<1> SUFFICES ASSUME MatrixIInv, MatrixTyped, [G!Next]_matrixVars
             PROVE  MatrixTyped'
  OBVIOUS
<1> DEFINE Read == [step: {"none", "asked", "read"}, rows: G!Rows]
           View == [defaults: G!Rows, overrides: G!Rows]
<1>1. G!NoRows \in G!Rows
  BY DEF G!NoRows, G!Rows
<1>2. G!NoRead \in Read /\ G!Blank \in View
  BY <1>1 DEF G!NoRead, G!Blank
<1>3. ASSUME NEW r \in Roles, NEW step \in {"none", "asked", "read"}
      PROVE  [reads EXCEPT ![r].step = step] \in [Roles -> Read]
  BY <1>3 DEF MatrixTyped
<1>4. ASSUME NEW r \in Roles \cup {None}, G!PickRole(r)
      PROVE  MatrixTyped'
  <2>1. view' \in View
    BY <1>2, <1>4 DEF G!PickRole, MatrixTyped
  <2>2. reads' \in [Roles -> Read]
    BY <1>3, <1>4 DEF G!PickRole, MatrixTyped
  <2>3. loading' \in BOOLEAN /\ error' \in BOOLEAN /\ UNCHANGED <<ticks, others>>
    BY <1>4 DEF G!PickRole, MatrixTyped
  <2> QED
    BY <2>1, <2>2, <2>3 DEF MatrixTyped
<1>5. ASSUME NEW r \in Roles, G!ListRoleCapabilities(r)
      PROVE  MatrixTyped'
  <2>1. reads' \in [Roles -> Read]
    BY <1>5 DEF G!ListRoleCapabilities, MatrixTyped, MatrixIInv
  <2> QED
    BY <1>5, <2>1 DEF G!ListRoleCapabilities, MatrixTyped
<1>6. ASSUME NEW r \in Roles, G!ReadAnswers(r) \/ G!ReadFails(r)
      PROVE  MatrixTyped'
  <2>1. reads' \in [Roles -> Read]
    BY <1>2, <1>6 DEF G!ReadAnswers, G!ReadFails, MatrixTyped
  <2>2. view' \in View
    BY <1>6, CatalogueAssumption DEF G!ReadAnswers, G!ReadFails, MatrixTyped
  <2> QED
    BY <1>6, <2>1, <2>2 DEF G!ReadAnswers, G!ReadFails, MatrixTyped
<1>7. ASSUME NEW c \in Caps, G!Toggle(c)
      PROVE  MatrixTyped'
  BY <1>7, BoundsAssumption DEF G!Toggle, MatrixTyped
<1>8. CASE G!HandleSave
  BY <1>8 DEF G!HandleSave, MatrixTyped, MatrixIInv
<1>9. CASE G!UpsertGrants
  BY <1>9 DEF G!UpsertGrants, MatrixTyped, MatrixIInv, SaveIsAsShown
<1>10. CASE G!SaveAnswers
  <2>1. G!Over(saving.changes, view.overrides) \in G!Rows
    BY <1>10, LayersAreRows DEF G!SaveAnswers, MatrixTyped, MatrixIInv, SaveIsAsShown
  <2>2. view' \in View
    BY <1>10, <2>1 DEF G!SaveAnswers, MatrixTyped
  <2> QED
    BY <1>10, <2>2 DEF G!SaveAnswers, MatrixTyped
<1>11. CASE G!SaveFails
  BY <1>11 DEF G!SaveFails, MatrixTyped
<1>12. ASSUME NEW r \in Roles, NEW c \in Caps, NEW value, G!Elsewhere(r, c, value)
       PROVE  MatrixTyped'
  BY <1>12, BoundsAssumption DEF G!Elsewhere, MatrixTyped
<1>13. CASE UNCHANGED matrixVars
  BY <1>13 DEF matrixVars, MatrixTyped
<1> QED
  BY <1>4, <1>5, <1>6, <1>7, <1>8, <1>9, <1>10, <1>11, <1>12, <1>13 DEF G!Next

----------------------------------------------------------------------------
(* The lookup forms: what differs from the row the form was opened on was   *)
(* set by hand, and the children listed are those of the parent on the form *)
(* unless their list is on its way or could not be had.                     *)

EditsAreByHand ==
  editor = "edit" => \A f \in L!Fields : values[f] # base[f] => f \in byHand

ListsFollowTheParent ==
  /\ filling # None => filling = values.parent
  /\ options # None /\ filling = None /\ ~unfilled => options = values.parent

SendingKeepsOpen == sending # None => editor # "closed" /\ "columns" \in DOMAIN sending

LookupsIInv ==
  /\ DOMAIN values = L!Fields
  /\ EditsAreByHand /\ ListsFollowTheParent /\ SendingKeepsOpen /\ L!OthersColumnsStay

LEMMA LookupsInit == L!Init => LookupsIInv
BY DEF L!Init, L!Blank, LookupsIInv, EditsAreByHand, ListsFollowTheParent, SendingKeepsOpen,
       L!OthersColumnsStay

(* A form that opens shows the row it is opened on.                         *)
LEMMA OpenKeepsLookups ==
  ASSUME LookupsIInv, NEW how, NEW row, NEW columns, L!Open(how, row, columns),
         DOMAIN columns = L!Fields,
         how = "edit" => \A f \in L!Fields : columns[f] = row[f]
  PROVE  LookupsIInv'
BY DEF L!Open, L!Fetch, LookupsIInv, EditsAreByHand, ListsFollowTheParent, SendingKeepsOpen,
       L!OthersColumnsStay

(* A column set by hand is recorded; the other columns stay.                *)
LEMMA SetFieldKeepsLookups ==
  ASSUME LookupsIInv, NEW field \in L!Fields, NEW value, L!SetField(field, value)
  PROVE  /\ DOMAIN values' = L!Fields
         /\ \A f \in L!Fields : values'[f] = IF f = field THEN value ELSE values[f]
         /\ EditsAreByHand' /\ SendingKeepsOpen' /\ L!OthersColumnsStay'
<1>1. /\ DOMAIN values' = L!Fields
      /\ \A f \in L!Fields : values'[f] = IF f = field THEN value ELSE values[f]
  BY DEF L!SetField, LookupsIInv
<1>2. sending = None /\ sending' = None /\ editor' = editor /\ base' = base
      /\ byHand' = byHand \cup {field}
  BY DEF L!SetField, L!Editable
<1> QED
  BY <1>1, <1>2 DEF LookupsIInv, EditsAreByHand, SendingKeepsOpen, L!OthersColumnsStay

LEMMA ShutKeepsLookups ==
  ASSUME L!Shut, sending' = None
  PROVE  LookupsIInv'
BY DEF L!Shut, L!Fetch, L!Blank, LookupsIInv, EditsAreByHand, ListsFollowTheParent,
       SendingKeepsOpen, L!OthersColumnsStay

LEMMA SendKeepsLookups ==
  ASSUME LookupsIInv, NEW columns, L!Send(columns), editor # "closed",
         editor = "edit" => DOMAIN columns \subseteq byHand \cup {"active"}
  PROVE  LookupsIInv'
BY DEF L!Send, L!select, LookupsIInv, EditsAreByHand, ListsFollowTheParent, SendingKeepsOpen,
       L!OthersColumnsStay

LEMMA LookupsNext == LookupsIInv /\ [L!Next]_lookupVars => LookupsIInv'
<1> SUFFICES ASSUME LookupsIInv, [L!Next]_lookupVars
             PROVE  LookupsIInv'
  OBVIOUS
<1>1. CASE L!OpenCreate
  <2>1. L!Open("create", None, L!Blank) /\ DOMAIN L!Blank = L!Fields
    BY <1>1 DEF L!OpenCreate, L!Blank
  <2> QED
    BY <2>1, OpenKeepsLookups
<1>2. CASE L!OpenEdit
  <2>1. L!Open("edit", onPage, L!ValuesFromRow(onPage))
    BY <1>2 DEF L!OpenEdit
  <2>2. /\ DOMAIN L!ValuesFromRow(onPage) = L!Fields
        /\ \A f \in L!Fields : L!ValuesFromRow(onPage)[f] = onPage[f]
    BY DEF L!ValuesFromRow
  <2> QED
    BY <2>1, <2>2, OpenKeepsLookups
<1>3. ASSUME NEW l \in Labels \cup {None}, L!SetLabel(l)
      PROVE  LookupsIInv'
  <2>1. L!SetField("label", l) /\ UNCHANGED <<options, filling, unfilled>> /\ "label" \in L!Fields
    BY <1>3 DEF L!SetLabel, L!select, L!Fields
  <2>2. values'.parent = values.parent
    BY <2>1, SetFieldKeepsLookups DEF L!Fields
  <2> QED
    BY <2>1, <2>2, SetFieldKeepsLookups DEF LookupsIInv, ListsFollowTheParent
<1>4. ASSUME NEW p \in Parents \cup {None}, L!SetParent(p)
      PROVE  LookupsIInv'
  <2>1. L!SetField("parent", p) /\ "parent" \in L!Fields
    BY <1>4 DEF L!SetParent, L!Fields
  <2>2. values'.parent = p
    BY <2>1, SetFieldKeepsLookups
  <2>3. ListsFollowTheParent'
    BY <1>4, <2>2 DEF L!SetParent, L!Fetch, ListsFollowTheParent
  <2> QED
    BY <2>1, <2>3, SetFieldKeepsLookups DEF LookupsIInv
<1>5. ASSUME NEW c \in L!AllChildren \cup {None}, L!SetChild(c)
      PROVE  LookupsIInv'
  <2>1. L!SetField("child", c) /\ UNCHANGED <<options, filling, unfilled>> /\ "child" \in L!Fields
    BY <1>5 DEF L!SetChild, L!select, L!Fields
  <2>2. values'.parent = values.parent
    BY <2>1, SetFieldKeepsLookups DEF L!Fields
  <2> QED
    BY <2>1, <2>2, SetFieldKeepsLookups DEF LookupsIInv, ListsFollowTheParent
<1>6. CASE L!HandleSubmit
  BY <1>6, SendKeepsLookups DEF L!HandleSubmit, L!Editable
<1>7. CASE L!HandleSave
  <2>1. DOMAIN L!Patch \subseteq byHand
    BY <1>7 DEF L!HandleSave, L!Patch, LookupsIInv, EditsAreByHand
  <2> QED
    BY <1>7, <2>1, SendKeepsLookups DEF L!HandleSave, L!Editable
<1>8. CASE L!HandleToggleActive
  BY <1>8, SendKeepsLookups DEF L!HandleToggleActive, L!Editable
<1>9. CASE L!HandleClose
  BY <1>9, ShutKeepsLookups DEF L!HandleClose, L!Editable
<1>10. CASE L!Answer
  BY <1>10, ShutKeepsLookups DEF L!Answer
<1>11. CASE L!Serve
  <2>1. /\ sending' = [sending EXCEPT !.served = TRUE] /\ sending # None
        /\ UNCHANGED <<editor, base, values, options, filling, unfilled, byHand>>
    BY <1>11 DEF L!Serve, L!select
  <2>2. sending'.columns = sending.columns /\ "columns" \in DOMAIN sending'
    BY <2>1 DEF LookupsIInv, SendingKeepsOpen
  <2> QED
    BY <2>1, <2>2 DEF LookupsIInv, EditsAreByHand, ListsFollowTheParent, SendingKeepsOpen,
                      L!OthersColumnsStay
<1>12. ASSUME L!FetchOptions \/ L!FetchFails \/ L!NoAnswer \/ L!Refresh
              \/ (\E row \in L!InitialRows : L!Elsewhere(row)) \/ UNCHANGED lookupVars
       PROVE  LookupsIInv'
  BY <1>12 DEF L!FetchOptions, L!FetchFails, L!NoAnswer, L!Refresh, L!Elsewhere, lookupVars,
               L!select, LookupsIInv, EditsAreByHand, ListsFollowTheParent, SendingKeepsOpen,
               L!OthersColumnsStay
<1> QED
  BY <1>1, <1>2, <1>3, <1>4, <1>5, <1>6, <1>7, <1>8, <1>9, <1>10, <1>11, <1>12 DEF L!Next

(* A child that appears on the form was chosen from the list on offer, which *)
(* is that of the parent on the form.                                        *)
LEMMA LookupsChoose == LookupsIInv /\ [L!Next]_lookupVars => L!ChildChosen
<1> SUFFICES ASSUME LookupsIInv, [L!Next]_lookupVars, editor # "closed",
                    values'.child \notin {values.child, None}, ~unfilled
             PROVE  values'.child \in ChildrenOf[values.parent]
  BY DEF L!ChildChosen
<1>1. values' # values
  OBVIOUS
<1>2. ~L!Shut
  BY DEF L!Shut, L!Blank, L!Fields
<1>3. ASSUME NEW field \in {"label", "parent"}, NEW value
      PROVE  ~L!SetField(field, value)
  <2> SUFFICES ASSUME L!SetField(field, value)
               PROVE  FALSE
    OBVIOUS
  <2>1. values'.child = values.child
    BY SetFieldKeepsLookups DEF L!Fields
  <2> QED
    BY <2>1
<1>4. ASSUME NEW c \in L!AllChildren \cup {None}, L!SetChild(c)
      PROVE  values'.child \in ChildrenOf[values.parent]
  <2>1. L!SetField("child", c) /\ "child" \in L!Fields
    BY <1>4 DEF L!SetChild, L!Fields
  <2>2. values'.child = c
    BY <2>1, SetFieldKeepsLookups
  <2>3. options # None /\ c \in ChildrenOf[options] /\ filling = None
    BY <1>4, <2>2 DEF L!SetChild, L!ChildOffered
  <2> QED
    BY <2>2, <2>3 DEF LookupsIInv, ListsFollowTheParent
<1>5. ASSUME L!Next
      PROVE  \E c \in L!AllChildren \cup {None} : L!SetChild(c)
  BY <1>1, <1>2, <1>3, <1>5
     DEF L!Next, L!Refresh, L!OpenCreate, L!OpenEdit, L!Open, L!SetLabel, L!SetParent,
         L!FetchOptions, L!FetchFails, L!HandleSubmit, L!HandleSave, L!HandleToggleActive,
         L!Send, L!HandleClose, L!Serve, L!Answer, L!NoAnswer, L!Elsewhere
<1> QED
  BY <1>1, <1>4, <1>5 DEF lookupVars

(* A request carries columns of the row's types, and a                      *)
(* label it does not clear.                                                 *)

Column(f) == IF f = "active" THEN BOOLEAN ELSE
             IF f = "label" THEN Labels ELSE
             IF f = "parent" THEN Parents \cup {None} ELSE L!AllChildren \cup {None}

LookupsTyped ==
  /\ stored \in L!Stored \cup {None} /\ onPage \in L!Stored \cup {None}
  /\ values \in L!Values /\ byHand \subseteq L!Fields
  /\ editor \in {"closed", "create", "edit"}
  /\ editor = "edit" => base \in L!Stored /\ base # None
  /\ editor # "edit" => base = None
  /\ {options, filling} \subseteq Parents \cup {None}
  /\ written \in Nat /\ written <= MaxWrites

ColumnsTyped ==
  sending # None =>
    /\ DOMAIN sending.columns \subseteq L!Fields \cup {"active"}
    /\ \A f \in DOMAIN sending.columns : sending.columns[f] \in Column(f)
    /\ editor = "create" => DOMAIN sending.columns = L!Fields

FormsTyped == LookupsTyped /\ ColumnsTyped

LEMMA LookupTypes == LookupsIInv /\ FormsTyped => L!TypeOK
BY DEF LookupsIInv, ListsFollowTheParent, SendingKeepsOpen, FormsTyped, LookupsTyped, L!TypeOK

LEMMA FormsTypedInit == L!Init => FormsTyped
<1> SUFFICES ASSUME L!Init PROVE FormsTyped
  OBVIOUS
<1>1. L!Blank \in L!Values
  BY DEF L!Blank, L!Fields, L!Values
<1>2. stored \in L!Stored \cup {None} /\ onPage \in L!Stored \cup {None}
  BY DEF L!Init, L!InitialRows
<1>3. written = 0 /\ MaxWrites \in Nat
  BY BoundsAssumption DEF L!Init
<1>4. written \in Nat /\ written <= MaxWrites
  BY <1>3
<1>5. /\ values \in L!Values /\ byHand = {} /\ editor = "closed" /\ base = None
      /\ options = None /\ filling = None /\ sending = None
  BY <1>1 DEF L!Init
<1> QED
  BY <1>2, <1>4, <1>5 DEF FormsTyped, LookupsTyped, ColumnsTyped

(* A form that opens shows a row, or is blank.                              *)
LEMMA OpenKeepsTypes ==
  ASSUME FormsTyped, LookupsIInv, L!OpenCreate \/ L!OpenEdit
  PROVE  FormsTyped'
<1>1. L!Blank \in L!Values
  BY DEF L!Blank, L!Fields, L!Values
<1>2. ASSUME NEW row \in L!Stored
      PROVE  L!ValuesFromRow(row) \in L!Values
  <2>1. /\ row["label"] \in Labels \cup {None} /\ row["parent"] \in Parents \cup {None}
        /\ row["child"] \in L!AllChildren \cup {None}
    BY DEF L!Stored
  <2> QED
    BY <2>1 DEF L!ValuesFromRow, L!Fields, L!Values
<1>3. ASSUME NEW columns \in L!Values
      PROVE  columns.parent \in Parents \cup {None}
  BY DEF L!Values
<1>4. sending = None
  BY DEF LookupsIInv, SendingKeepsOpen, L!OpenCreate, L!OpenEdit, L!Open
<1>5. CASE L!OpenCreate
  <2>1. /\ values' \in L!Values /\ filling' \in Parents \cup {None}
        /\ editor' = "create" /\ base' = None /\ options' = None /\ byHand' = {}
        /\ UNCHANGED <<stored, onPage, sending, written>>
    BY <1>1, <1>3, <1>5 DEF L!OpenCreate, L!Open, L!Fetch, L!service
  <2> QED
    BY <1>4, <2>1 DEF FormsTyped, LookupsTyped, ColumnsTyped
<1>6. CASE L!OpenEdit
  <2>1. onPage \in L!Stored /\ onPage # None
    BY <1>6 DEF L!OpenEdit, FormsTyped, LookupsTyped
  <2>2. /\ values' \in L!Values /\ filling' \in Parents \cup {None}
        /\ editor' = "edit" /\ base' = onPage /\ options' = None /\ byHand' = {}
        /\ UNCHANGED <<stored, onPage, sending, written>>
    BY <1>2, <1>3, <1>6, <2>1 DEF L!OpenEdit, L!Open, L!Fetch, L!service
  <2> QED
    BY <1>4, <2>1, <2>2 DEF FormsTyped, LookupsTyped, ColumnsTyped
<1> QED
  BY <1>5, <1>6

(* What the form sends is columns of its values, with a label.              *)
LEMMA SendKeepsTypes ==
  ASSUME FormsTyped, LookupsIInv, L!HandleSubmit \/ L!HandleSave \/ L!HandleToggleActive
  PROVE  FormsTyped'
<1>1. UNCHANGED <<stored, onPage, rerender, editor, base, values, options, filling, byHand, written>>
  BY DEF L!HandleSubmit, L!HandleSave, L!HandleToggleActive, L!Send, L!service, L!select
<1>2. LookupsTyped'
  BY <1>1 DEF FormsTyped, LookupsTyped
<1>3. values \in L!Values /\ DOMAIN values = L!Fields
  BY DEF FormsTyped, LookupsTyped, LookupsIInv
<1>4. values["label"] # None => \A f \in L!Fields : values[f] \in Column(f)
  BY <1>3 DEF L!Values, L!Fields, Column
<1>5. CASE L!HandleSubmit
  <2>1. sending'.columns = values /\ values["label"] # None
    BY <1>5 DEF L!HandleSubmit, L!Send
  <2> QED
    BY <1>1, <1>2, <1>3, <1>4, <2>1 DEF FormsTyped, ColumnsTyped
<1>6. CASE L!HandleSave
  <2>1. sending'.columns = L!Patch /\ values["label"] # None /\ editor = "edit"
    BY <1>6 DEF L!HandleSave, L!Send
  <2>2. /\ DOMAIN L!Patch \subseteq L!Fields
        /\ \A f \in DOMAIN L!Patch : L!Patch[f] = values[f]
    BY DEF L!Patch
  <2> QED
    BY <1>1, <1>2, <1>4, <2>1, <2>2 DEF FormsTyped, ColumnsTyped
<1>7. CASE L!HandleToggleActive
  <2>1. sending'.columns = [f \in {"active"} |-> ~base.active] /\ editor = "edit"
    BY <1>7 DEF L!HandleToggleActive, L!Send
  <2>2. DOMAIN sending'.columns = {"active"} /\ sending'.columns["active"] \in BOOLEAN
    BY <2>1
  <2> QED
    BY <1>1, <1>2, <2>1, <2>2 DEF FormsTyped, ColumnsTyped, Column
<1> QED
  BY <1>5, <1>6, <1>7

(* A row that is served keeps its types.                                    *)
LEMMA ServeKeepsTypes ==
  ASSUME FormsTyped, LookupsIInv, L!Serve
  PROVE  FormsTyped'
<1> DEFINE names == L!Fields \cup {"active"}
           columns == sending.columns
           old == IF editor = "create" THEN [f \in names |-> TRUE] ELSE stored
           now == [f \in DOMAIN old |-> IF f \in DOMAIN columns THEN columns[f] ELSE old[f]]
<1>1. /\ sending # None /\ editor \in {"create", "edit"}
      /\ stored' = now /\ (editor = "create" <=> stored = None)
      /\ sending' = [sending EXCEPT !.served = TRUE]
      /\ written < MaxWrites /\ written' = written + 1
      /\ UNCHANGED <<onPage, editor, base, values, options, filling, byHand>>
  BY DEF L!Serve, L!select, FormsTyped, LookupsTyped, LookupsIInv, SendingKeepsOpen
<1>2. /\ DOMAIN columns \subseteq names
      /\ \A f \in DOMAIN columns : columns[f] \in Column(f)
      /\ editor = "create" => DOMAIN columns = L!Fields
  BY <1>1 DEF FormsTyped, ColumnsTyped
<1>3. DOMAIN old = names /\ \A f \in names : f \notin DOMAIN columns => old[f] \in Column(f)
  <2>1. CASE editor = "create"
    BY <1>2, <2>1 DEF Column
  <2>2. CASE editor # "create"
    <3>1. stored \in L!Stored
      BY <1>1, <2>2 DEF FormsTyped, LookupsTyped
    <3> QED
      BY <2>2, <3>1 DEF L!Stored, L!Fields, Column
  <2> QED
    BY <2>1, <2>2
<1> HIDE DEF old
<1>4. DOMAIN now = names /\ \A f \in names : now[f] \in Column(f)
  BY <1>2, <1>3
<1>5. now = [label |-> now["label"], parent |-> now["parent"], child |-> now["child"],
             active |-> now["active"]]
  BY <1>3 DEF L!Fields
<1>6. now \in L!Stored
  <2>1. /\ now["label"] \in Labels /\ now["parent"] \in Parents \cup {None}
        /\ now["child"] \in L!AllChildren \cup {None} /\ now["active"] \in BOOLEAN
    BY <1>4 DEF L!Fields, Column
  <2> HIDE DEF now
  <2> QED
    BY <1>5, <2>1 DEF L!Stored
<1>7. MaxWrites \in Nat
  BY BoundsAssumption
<1>8. LookupsTyped'
  BY <1>1, <1>6, <1>7 DEF FormsTyped, LookupsTyped
<1>9. ColumnsTyped'
  <2>1. sending'.columns = columns
    BY <1>1 DEF LookupsIInv, SendingKeepsOpen
  <2> QED
    BY <1>1, <1>2, <2>1 DEF ColumnsTyped
<1> QED
  BY <1>8, <1>9 DEF FormsTyped

(* A column set by hand is of its type.                                     *)
LEMMA SetFieldKeepsTypes ==
  ASSUME FormsTyped, LookupsIInv, NEW f \in L!Fields, NEW v, L!SetField(f, v),
         v \in Column(f) \cup {None}, {options', filling'} \subseteq Parents \cup {None}
  PROVE  FormsTyped'
<1>1. /\ sending = None /\ values' = [values EXCEPT ![f] = v] /\ byHand' = byHand \cup {f}
      /\ UNCHANGED <<stored, onPage, editor, base, sending, written>>
  BY DEF L!SetField, L!Editable, L!service
<1>2. values' \in L!Values
  <2>1. values \in L!Values
    BY DEF FormsTyped, LookupsTyped
  <2> QED
    BY <1>1, <2>1 DEF L!Values, L!Fields, Column
<1> QED
  BY <1>1, <1>2 DEF FormsTyped, LookupsTyped, ColumnsTyped

LEMMA FormsTypedNext ==
  LookupsIInv /\ FormsTyped /\ [L!Next]_lookupVars => FormsTyped'
<1> SUFFICES ASSUME LookupsIInv, FormsTyped, [L!Next]_lookupVars
             PROVE  FormsTyped'
  OBVIOUS
<1>1. CASE L!Refresh
  BY <1>1 DEF L!Refresh, L!select, FormsTyped, LookupsTyped, ColumnsTyped
<1>2. ASSUME NEW l \in Labels \cup {None}, L!SetLabel(l)
      PROVE  FormsTyped'
  <2>1. L!SetField("label", l) /\ UNCHANGED <<options, filling>>
    BY <1>2 DEF L!SetLabel, L!select
  <2>2. {options', filling'} \subseteq Parents \cup {None}
    BY <2>1 DEF FormsTyped, LookupsTyped
  <2>3. "label" \in L!Fields /\ l \in Column("label") \cup {None}
    BY DEF L!Fields, Column
  <2> QED
    BY <2>1, <2>2, <2>3, SetFieldKeepsTypes
<1>3. ASSUME NEW p \in Parents \cup {None}, L!SetParent(p)
      PROVE  FormsTyped'
  <2>1. L!SetField("parent", p) /\ filling' = p /\ options' \in {options, None}
    BY <1>3 DEF L!SetParent, L!Fetch
  <2>2. {options', filling'} \subseteq Parents \cup {None}
    BY <2>1 DEF FormsTyped, LookupsTyped
  <2>3. "parent" \in L!Fields /\ p \in Column("parent") \cup {None}
    BY DEF L!Fields, Column
  <2> QED
    BY <2>1, <2>2, <2>3, SetFieldKeepsTypes
<1>4. ASSUME NEW c \in L!AllChildren \cup {None}, L!SetChild(c)
      PROVE  FormsTyped'
  <2>1. L!SetField("child", c) /\ UNCHANGED <<options, filling>>
    BY <1>4 DEF L!SetChild, L!select
  <2>2. {options', filling'} \subseteq Parents \cup {None}
    BY <2>1 DEF FormsTyped, LookupsTyped
  <2>3. "child" \in L!Fields /\ c \in Column("child") \cup {None}
    BY DEF L!Fields, Column
  <2> QED
    BY <2>1, <2>2, <2>3, SetFieldKeepsTypes
<1>5. CASE L!FetchOptions \/ L!FetchFails
  BY <1>5 DEF L!FetchOptions, L!FetchFails, L!service, FormsTyped, LookupsTyped, ColumnsTyped
<1>6. ASSUME L!Shut, sending' = None, UNCHANGED stored, UNCHANGED onPage, UNCHANGED written
      PROVE  FormsTyped'
  <2>1. L!Blank \in L!Values
    BY DEF L!Blank, L!Fields, L!Values
  <2>2. /\ values' \in L!Values /\ byHand' = {} /\ editor' = "closed" /\ base' = None
        /\ options' = None /\ filling' = None
    BY <1>6, <2>1 DEF L!Shut, L!Fetch
  <2> QED
    BY <1>6, <2>2 DEF FormsTyped, LookupsTyped, ColumnsTyped
<1>7. CASE L!HandleClose \/ L!Answer
  BY <1>6, <1>7 DEF L!HandleClose, L!Answer, L!Editable, L!service
<1>8. CASE L!NoAnswer
  BY <1>8 DEF L!NoAnswer, L!service, L!select, FormsTyped, LookupsTyped, ColumnsTyped
<1>9. ASSUME NEW row \in L!InitialRows, L!Elsewhere(row)
      PROVE  FormsTyped'
  <2>1. row \in L!Stored /\ MaxWrites \in Nat
    BY BoundsAssumption DEF L!InitialRows
  <2>2. /\ stored' \in L!Stored /\ written < MaxWrites /\ written' = written + 1
        /\ UNCHANGED <<onPage, editor, base, values, options, filling, sending, byHand>>
    BY <1>9, <2>1 DEF L!Elsewhere, L!select
  <2> QED
    BY <2>1, <2>2 DEF FormsTyped, LookupsTyped, ColumnsTyped
<1>10. CASE UNCHANGED lookupVars
  BY <1>10 DEF lookupVars, FormsTyped, LookupsTyped, ColumnsTyped
<1> QED
  BY <1>1, <1>2, <1>3, <1>4, <1>5, <1>7, <1>8, <1>9, <1>10, OpenKeepsTypes, SendKeepsTypes,
     ServeKeepsTypes DEF L!Next

----------------------------------------------------------------------------
(* The campaign mapping dialog: the dry run waited for is of the types in   *)
(* the dialog, and so is the impact shown once nothing is waited for, if no *)
(* dry run has failed.                                                      *)

AsksAreOfTheTarget ==
  \A a \in asks : "live" \in DOMAIN a /\ (a.live => a.of = target)

PreviewsAreOfTheTarget == ~previewing /\ previews # None /\ ~failed => previews = target

CommitsKeepTheTarget == committing # None => target # None

CampaignsIInv ==
  /\ AsksAreOfTheTarget /\ PreviewsAreOfTheTarget
  /\ CommitsKeepTheTarget /\ C!ConfirmsWerePreviewed

LEMMA CampaignsInit == C!Init => CampaignsIInv
BY DEF C!Init, CampaignsIInv, AsksAreOfTheTarget, PreviewsAreOfTheTarget,
       CommitsKeepTheTarget, C!ConfirmsWerePreviewed

(* A dry run that is cancelled is not waited for any more.                  *)
LEMMA CancelledAsk ==
  ASSUME AsksAreOfTheTarget, NEW a \in asks
  PROVE  "live" \in DOMAIN [a EXCEPT !.live = FALSE] /\ ~[a EXCEPT !.live = FALSE].live
BY DEF AsksAreOfTheTarget

(* Entries that are asked for while nothing is being confirmed.             *)
LEMMA AskFollowsTheTarget ==
  ASSUME AsksAreOfTheTarget, NEW entries, asks' = C!Ask(entries), target' = entries,
         previewing' = TRUE, committing' = None
  PROVE  CampaignsIInv'
<1> DEFINE ask == [of |-> entries, live |-> TRUE]
<1>1. "live" \in DOMAIN ask /\ ask.of = entries
  OBVIOUS
<1>2. \A a \in {[a EXCEPT !.live = FALSE] : a \in asks} : "live" \in DOMAIN a /\ ~a.live
  BY CancelledAsk
<1>3. asks' = {[a EXCEPT !.live = FALSE] : a \in asks} \cup {ask}
  BY DEF C!Ask
<1> HIDE DEF ask
<1>4. AsksAreOfTheTarget'
  BY <1>1, <1>2, <1>3 DEF AsksAreOfTheTarget
<1> QED
  BY <1>4 DEF CampaignsIInv, PreviewsAreOfTheTarget, CommitsKeepTheTarget,
              C!ConfirmsWerePreviewed

LEMMA ClosedKeepsCampaigns ==
  ASSUME AsksAreOfTheTarget, C!Closed, committing' = None
  PROVE  CampaignsIInv'
<1>1. \A a \in asks' : "live" \in DOMAIN a /\ ~a.live
  BY CancelledAsk DEF C!Closed
<1> QED
  BY <1>1 DEF C!Closed, CampaignsIInv, AsksAreOfTheTarget, PreviewsAreOfTheTarget,
              CommitsKeepTheTarget, C!ConfirmsWerePreviewed

LEMMA CampaignsNext == CampaignsIInv /\ [C!Next]_campaignVars => CampaignsIInv'
<1> SUFFICES ASSUME CampaignsIInv, [C!Next]_campaignVars
             PROVE  CampaignsIInv'
  OBVIOUS
<1> USE DEF CampaignsIInv
<1>1. ASSUME UNCHANGED <<target, asks, previews, previewing, committing, failed>>
      PROVE  CampaignsIInv'
  BY <1>1 DEF AsksAreOfTheTarget, PreviewsAreOfTheTarget, CommitsKeepTheTarget,
              C!ConfirmsWerePreviewed
<1>2. CASE C!HandleFetch \/ C!Sync \/ C!Refresh \/ UNCHANGED campaignVars
  BY <1>1, <1>2 DEF C!HandleFetch, C!Sync, C!Refresh, C!dialog, campaignVars
<1>3. ASSUME NEW c \in Campaigns, NEW type \in Types \cup {None},
             C!HandleSelectionChange(c, type)
      PROVE  CampaignsIInv'
  BY <1>1, <1>3 DEF C!HandleSelectionChange, C!dialog
<1>4. ASSUME NEW entries, NEW edit, C!Open(entries, edit)
      PROVE  CampaignsIInv'
  BY <1>4, AskFollowsTheTarget DEF C!Open, CommitsKeepTheTarget
<1>5. ASSUME NEW c \in Campaigns, C!OpenConfirmOne(c) \/ C!OpenEdit(c)
      PROVE  CampaignsIInv'
  BY <1>4, <1>5 DEF C!OpenConfirmOne, C!OpenEdit
<1>6. ASSUME NEW status \in {"unmapped", "suggested"}, C!OpenConfirmAll(status)
      PROVE  CampaignsIInv'
  BY <1>4, <1>6 DEF C!OpenConfirmAll
<1>7. ASSUME NEW c \in Campaigns, C!ConfirmOne(c)
      PROVE  CampaignsIInv'
  BY <1>7 DEF C!ConfirmOne, AsksAreOfTheTarget, PreviewsAreOfTheTarget, CommitsKeepTheTarget,
              C!ConfirmsWerePreviewed
<1>8. ASSUME NEW type \in Types, C!SetSingleType(type)
      PROVE  CampaignsIInv'
  <2>1. PICK entries : entries = target'
    OBVIOUS
  <2>2. asks' = C!Ask(entries)
    BY <1>8, <2>1 DEF C!SetSingleType
  <2> QED
    BY <1>8, <2>1, <2>2, AskFollowsTheTarget DEF C!SetSingleType
<1>9. ASSUME NEW a \in asks, C!PreviewAnswers(a)
      PROVE  CampaignsIInv'
  BY <1>9 DEF C!PreviewAnswers, AsksAreOfTheTarget, PreviewsAreOfTheTarget,
              CommitsKeepTheTarget, C!ConfirmsWerePreviewed
<1>10. ASSUME NEW a \in asks, C!PreviewFails(a)
       PROVE  CampaignsIInv'
  BY <1>10 DEF C!PreviewFails, AsksAreOfTheTarget, PreviewsAreOfTheTarget,
               CommitsKeepTheTarget, C!ConfirmsWerePreviewed
<1>11. CASE C!HandleSubmit
  BY <1>11 DEF C!HandleSubmit, C!CommitOffered, AsksAreOfTheTarget, PreviewsAreOfTheTarget,
               CommitsKeepTheTarget, C!ConfirmsWerePreviewed
<1>12. CASE C!CommitDone
  <2>1. CASE unconfirmed
    BY <1>12, <2>1 DEF C!CommitDone, AsksAreOfTheTarget, PreviewsAreOfTheTarget,
                       CommitsKeepTheTarget, C!ConfirmsWerePreviewed
  <2>2. CASE ~unconfirmed
    BY <1>12, <2>2, ClosedKeepsCampaigns DEF C!CommitDone
  <2> QED
    BY <2>1, <2>2
<1>13. CASE C!HandleClose
  BY <1>13, ClosedKeepsCampaigns DEF C!HandleClose
<1> QED
  BY <1>2, <1>3, <1>5, <1>6, <1>7, <1>8, <1>9, <1>10, <1>11, <1>12, <1>13 DEF C!Next

(* Requests that are waited for no more are as many as before at most; and  *)
(* those waited for, if all are for one thing, are one.                     *)

LEMMA NoMoreWhenStale ==
  ASSUME NEW S, IsFiniteSet(S)
  PROVE  LET stale == {[a EXCEPT !.live = FALSE] : a \in S}
         IN  IsFiniteSet(stale) /\ Cardinality(stale) <= Cardinality(S)
<1> DEFINE stale == {[a EXCEPT !.live = FALSE] : a \in S}
           f == [a \in S |-> [a EXCEPT !.live = FALSE]]
<1>1. f \in Surjection(S, stale)
  BY DEF Surjection
<1> QED
  BY <1>1, FS_Surjection

LEMMA OneIsWaitedFor ==
  ASSUME NEW S, NEW one, \A a \in S : a.live => a = one
  PROVE  Cardinality({a \in S : a.live}) <= 1
<1> DEFINE Waited == {a \in S : a.live}
<1>1. Waited \in SUBSET {one}
  OBVIOUS
<1>2. IsFiniteSet({one}) /\ Cardinality({one}) = 1
  BY FS_Singleton
<1> HIDE DEF Waited
<1>3. Cardinality(Waited) <= Cardinality({one})
  BY <1>1, <1>2, FS_Subset
<1> QED
  BY <1>2, <1>3 DEF Waited

(* A part counts with its own copy of the operator.                         *)
LEMMA CampaignsCount == \A S : C!Cardinality(S) = Cardinality(S)
BY Zenon DEF C!Cardinality, Cardinality

LEMMA OneMoreAtMost ==
  ASSUME NEW a \in Nat, NEW b \in Nat, NEW m \in Nat, NEW c,
         a <= b, b < m, c = a \/ c = a + 1
  PROVE  c <= m
OBVIOUS

(* The mapping dialog.                                                      *)
CampaignsTyped ==
  /\ campaigns \in [Campaigns -> C!Campaign \cup {C!Untyped}]
  /\ grid \in [Campaigns -> C!Campaign \cup {C!Untyped}]
  /\ changes \in Nat /\ changes <= MaxChanges

DialogTyped ==
  /\ target # None => target \in C!Entries
  /\ previews # None => previews \in C!Entries
  /\ committing # None => committing \subseteq DOMAIN target
  /\ asks \subseteq [of: C!Entries, live: BOOLEAN]
  /\ IsFiniteSet(asks) /\ Cardinality(asks) <= MaxPreviews

LEMMA DialogTypes == CampaignsIInv /\ CampaignsTyped /\ DialogTyped => C!TypeOK
<1> SUFFICES ASSUME CampaignsIInv, CampaignsTyped, DialogTyped
             PROVE  C!TypeOK
  OBVIOUS
<1>1. \A a \in asks : a.live => a = [of |-> target, live |-> TRUE]
  BY DEF CampaignsIInv, AsksAreOfTheTarget, DialogTyped
<1>2. Cardinality({a \in asks : a.live}) <= 1
  BY <1>1, OneIsWaitedFor
<1>3. \A c \in Campaigns : {campaigns[c], grid[c]} \subseteq C!Campaign \cup {C!Untyped}
  BY DEF CampaignsTyped
<1>4. /\ target # None => target \in C!Entries
      /\ previews # None => previews \in C!Entries
      /\ committing # None => target # None /\ committing \subseteq DOMAIN target
  BY DEF CampaignsIInv, CommitsKeepTheTarget, DialogTyped
<1>5. Cardinality(asks) <= MaxPreviews /\ changes <= MaxChanges
  BY DEF CampaignsTyped, DialogTyped
<1> HIDE DEF CampaignsIInv, CampaignsTyped, DialogTyped
<1> QED
  BY <1>2, <1>3, <1>4, <1>5, CampaignsCount, Zenon DEF C!TypeOK

LEMMA CampaignsTypedInit == C!Init => CampaignsTyped /\ DialogTyped
<1> SUFFICES ASSUME C!Init PROVE CampaignsTyped /\ DialogTyped
  OBVIOUS
<1>1. changes = 0 /\ asks = {} /\ MaxChanges \in Nat /\ MaxPreviews \in Nat
  BY BoundsAssumption DEF C!Init
<1>2. changes \in Nat /\ changes <= MaxChanges
  BY <1>1
<1>3. IsFiniteSet(asks) /\ Cardinality(asks) <= MaxPreviews
  BY <1>1, FS_EmptySet
<1>4. CampaignsTyped
  BY <1>2 DEF C!Init, CampaignsTyped
<1>5. DialogTyped
  BY <1>1, <1>3 DEF C!Init, DialogTyped
<1> QED
  BY <1>4, <1>5

(* The table and the grid hold campaigns, whatever the dialog does.         *)
LEMMA CampaignsTypedNext ==
  CampaignsIInv /\ CampaignsTyped /\ DialogTyped /\ [C!Next]_campaignVars => CampaignsTyped'
<1> SUFFICES ASSUME CampaignsIInv, CampaignsTyped, DialogTyped, [C!Next]_campaignVars
             PROVE  CampaignsTyped'
  OBVIOUS
<1> USE DEF CampaignsTyped
<1>1. MaxChanges \in Nat
  BY BoundsAssumption
<1>2. CASE C!HandleFetch
  BY <1>1, <1>2 DEF C!HandleFetch
<1>3. CASE C!Sync
  BY <1>3 DEF C!Sync
<1>4. CASE C!Refresh
  BY <1>4 DEF C!Refresh
<1>5. ASSUME NEW c \in Campaigns, NEW type, C!HandleSelectionChange(c, type)
      PROVE  CampaignsTyped'
  BY <1>1, <1>5 DEF C!HandleSelectionChange
<1>6. ASSUME NEW entries, NEW edit, C!Open(entries, edit)
      PROVE  UNCHANGED <<campaigns, grid, changes>>
  BY <1>6 DEF C!Open, C!page
<1>7. ASSUME NEW c \in Campaigns, C!ConfirmOne(c)
      PROVE  CampaignsTyped'
  <2>1. target \in C!Entries /\ c \in DOMAIN target
    BY <1>7 DEF C!ConfirmOne, CampaignsIInv, CommitsKeepTheTarget, DialogTyped
  <2>2. target[c] \in Types
    BY <2>1 DEF C!Entries
  <2>3. [status |-> "confirmed", type |-> target[c]] \in C!Campaign
    BY <2>2 DEF C!Campaign
  <2> QED
    BY <1>7, <2>3 DEF C!ConfirmOne, C!page
<1>8. CASE \/ C!HandleSubmit \/ C!CommitDone \/ C!HandleClose
           \/ \E type \in Types : C!SetSingleType(type)
           \/ \E a \in asks : C!PreviewAnswers(a) \/ C!PreviewFails(a)
  BY <1>8 DEF C!HandleSubmit, C!CommitDone, C!HandleClose, C!SetSingleType, C!PreviewAnswers,
              C!PreviewFails, C!page
<1>9. CASE UNCHANGED campaignVars
  BY <1>9 DEF campaignVars
<1> QED
  BY <1>2, <1>3, <1>4, <1>5, <1>6, <1>7, <1>8, <1>9
     DEF C!Next, C!OpenConfirmOne, C!OpenEdit, C!OpenConfirmAll

(* A dry run more, and those before it waited for no longer.                *)
LEMMA AskKeepsAsks ==
  ASSUME DialogTyped, NEW entries \in C!Entries, Cardinality(asks) < MaxPreviews,
         asks' = C!Ask(entries)
  PROVE  /\ asks' \subseteq [of: C!Entries, live: BOOLEAN]
         /\ IsFiniteSet(asks') /\ Cardinality(asks') <= MaxPreviews
<1> DEFINE stale == {[a EXCEPT !.live = FALSE] : a \in asks}
           new == [of |-> entries, live |-> TRUE]
<1>1. asks' = stale \cup {new}
  BY Zenon DEF C!Ask
<1>2. asks \subseteq [of: C!Entries, live: BOOLEAN] /\ IsFiniteSet(asks)
  BY DEF DialogTyped
<1>3. \A a \in asks : [a EXCEPT !.live = FALSE] \in [of: C!Entries, live: BOOLEAN]
  BY <1>2
<1>4. new \in [of: C!Entries, live: BOOLEAN]
  OBVIOUS
<1>5. asks' \subseteq [of: C!Entries, live: BOOLEAN]
  BY <1>1, <1>3, <1>4, Zenon
<1>6. IsFiniteSet(stale) /\ Cardinality(stale) <= Cardinality(asks)
  BY <1>2, NoMoreWhenStale
<1> HIDE DEF stale, new
<1>7. /\ IsFiniteSet(stale \cup {new})
      /\ Cardinality(stale \cup {new}) = IF new \in stale THEN Cardinality(stale)
                                                      ELSE Cardinality(stale) + 1
  BY <1>6, FS_AddElement
<1>8. Cardinality(stale) \in Nat /\ Cardinality(asks) \in Nat /\ MaxPreviews \in Nat
  BY <1>2, <1>6, FS_CardinalityType, BoundsAssumption
<1>9. \/ Cardinality(stale \cup {new}) = Cardinality(stale)
      \/ Cardinality(stale \cup {new}) = Cardinality(stale) + 1
  BY <1>7
<1>10. Cardinality(stale \cup {new}) <= MaxPreviews
  BY <1>6, <1>8, <1>9, OneMoreAtMost
<1> QED
  BY <1>1, <1>5, <1>7, <1>10

LEMMA OpenKeepsDialog ==
  ASSUME DialogTyped, CampaignsIInv, NEW entries \in C!Entries, NEW edit, C!Open(entries, edit)
  PROVE  DialogTyped'
<1>1. /\ target = None /\ Cardinality(asks) < MaxPreviews /\ target' = entries
      /\ asks' = C!Ask(entries) /\ previews' = None /\ committing' = committing
  BY CampaignsCount, Zenon DEF C!Open
<1>2. committing' = None
  BY <1>1 DEF CampaignsIInv, CommitsKeepTheTarget
<1> QED
  BY <1>1, <1>2, AskKeepsAsks DEF DialogTyped

(* Whoever is shut leaves its dry runs on their way.                        *)
LEMMA ClosedKeepsDialog ==
  ASSUME DialogTyped, C!Closed, committing' = None
  PROVE  DialogTyped'
<1> DEFINE stale == {[a EXCEPT !.live = FALSE] : a \in asks}
<1>1. asks' = stale /\ target' = None /\ previews' = None
  BY Zenon DEF C!Closed
<1>2. asks \subseteq [of: C!Entries, live: BOOLEAN] /\ IsFiniteSet(asks)
      /\ Cardinality(asks) <= MaxPreviews
  BY DEF DialogTyped
<1>3. \A a \in asks : [a EXCEPT !.live = FALSE] \in [of: C!Entries, live: BOOLEAN]
  BY <1>2
<1>4. asks' \subseteq [of: C!Entries, live: BOOLEAN]
  BY <1>1, <1>3, Zenon
<1>5. IsFiniteSet(stale) /\ Cardinality(stale) <= Cardinality(asks)
  BY <1>2, NoMoreWhenStale
<1> HIDE DEF stale
<1>6. Cardinality(stale) \in Nat /\ Cardinality(asks) \in Nat /\ MaxPreviews \in Nat
  BY <1>2, <1>5, FS_CardinalityType, BoundsAssumption
<1>7. Cardinality(stale) <= MaxPreviews
  BY <1>2, <1>5, <1>6
<1> QED
  BY <1>1, <1>4, <1>5, <1>7 DEF DialogTyped

LEMMA AnswersKeepAsks ==
  ASSUME DialogTyped, NEW a \in asks, asks' = asks \ {a}
  PROVE  /\ asks' \subseteq [of: C!Entries, live: BOOLEAN]
         /\ IsFiniteSet(asks') /\ Cardinality(asks') <= MaxPreviews
<1>1. asks \subseteq [of: C!Entries, live: BOOLEAN] /\ IsFiniteSet(asks)
      /\ Cardinality(asks) <= MaxPreviews
  BY DEF DialogTyped
<1>2. asks' \in SUBSET asks
  OBVIOUS
<1>3. IsFiniteSet(asks') /\ Cardinality(asks') <= Cardinality(asks)
  BY <1>1, <1>2, FS_Subset
<1>4. Cardinality(asks') \in Nat /\ Cardinality(asks) \in Nat /\ MaxPreviews \in Nat
  BY <1>1, <1>3, FS_CardinalityType, BoundsAssumption
<1>5. Cardinality(asks') <= MaxPreviews
  BY <1>1, <1>3, <1>4
<1> QED
  BY <1>1, <1>2, <1>3, <1>5

LEMMA EntriesOfSome ==
  ASSUME NEW cs, cs \subseteq Campaigns, cs # {}, NEW entries \in [cs -> Types]
  PROVE  entries \in C!Entries
<1>1. cs \in (SUBSET Campaigns) \ {{}}
  OBVIOUS
<1> QED
  BY <1>1, Zenon DEF C!Entries

LEMMA DialogTypedNext ==
  CampaignsIInv /\ CampaignsTyped /\ DialogTyped /\ [C!Next]_campaignVars => DialogTyped'
<1> SUFFICES ASSUME CampaignsIInv, CampaignsTyped, DialogTyped, [C!Next]_campaignVars
             PROVE  DialogTyped'
  OBVIOUS
<1>1. CASE UNCHANGED C!dialog
  <2>1. UNCHANGED <<target, previews, committing, asks>>
    BY <1>1 DEF C!dialog
  <2> QED
    BY <2>1 DEF DialogTyped
<1>2. ASSUME NEW c \in Campaigns, C!OpenConfirmOne(c)
      PROVE  DialogTyped'
  <2>1. selections[c] \in Types
    BY <1>2, Zenon DEF C!OpenConfirmOne, C!ConfirmOneOffered, C!Picked
  <2>2. [x \in {c} |-> selections[x]] \in C!Entries
    BY <2>1, EntriesOfSome
  <2> QED
    BY <1>2, <2>2, OpenKeepsDialog DEF C!OpenConfirmOne
<1>3. ASSUME NEW c \in Campaigns, C!OpenEdit(c)
      PROVE  DialogTyped'
  <2>1. grid[c] \in C!Campaign \cup {C!Untyped} /\ grid[c].status = "confirmed"
    BY <1>3 DEF C!OpenEdit, CampaignsTyped
  <2>2. grid[c].type \in Types
    BY <2>1 DEF C!Campaign, C!Untyped
  <2>3. [x \in {c} |-> grid[x].type] \in C!Entries
    BY <2>2, EntriesOfSome
  <2> QED
    BY <1>3, <2>3, OpenKeepsDialog DEF C!OpenEdit
<1>4. ASSUME NEW status, C!OpenConfirmAll(status)
      PROVE  DialogTyped'
  <2> DEFINE cs == C!Picked(C!Listed(status))
  <2>1. cs # {} /\ cs \subseteq Campaigns /\ \A c \in cs : selections[c] \in Types
    BY <1>4 DEF C!OpenConfirmAll, C!Picked, C!Listed
  <2>2. C!Open([c \in cs |-> selections[c]], FALSE)
    BY <1>4 DEF C!OpenConfirmAll
  <2> HIDE DEF cs
  <2>3. [c \in cs |-> selections[c]] \in C!Entries
    BY <2>1, EntriesOfSome
  <2> QED
    BY <2>2, <2>3, OpenKeepsDialog
<1>5. ASSUME NEW type \in Types, C!SetSingleType(type)
      PROVE  DialogTyped'
  <2>1. PICK c \in DOMAIN target : target' = [x \in {c} |-> type]
    BY <1>5 DEF C!SetSingleType
  <2>2. target \in C!Entries
    BY <1>5 DEF C!SetSingleType, DialogTyped
  <2>3. c \in Campaigns
    BY <2>1, <2>2 DEF C!Entries
  <2>4. target' \in C!Entries
    BY <2>1, <2>3, EntriesOfSome
  <2>5. /\ Cardinality(asks) < MaxPreviews /\ asks' = C!Ask(target')
        /\ previews' = previews /\ committing' = None
    BY <1>5, CampaignsCount, Zenon DEF C!SetSingleType
  <2> QED
    BY <2>4, <2>5, AskKeepsAsks DEF DialogTyped
<1>6. ASSUME NEW a \in asks, C!PreviewAnswers(a) \/ C!PreviewFails(a)
      PROVE  DialogTyped'
  <2>1. /\ asks' = asks \ {a} /\ UNCHANGED <<target, committing>>
        /\ previews' = a.of \/ previews' = previews
    BY <1>6 DEF C!PreviewAnswers, C!PreviewFails
  <2>2. a.of \in C!Entries
    BY DEF DialogTyped
  <2> QED
    BY <2>1, <2>2, AnswersKeepAsks DEF DialogTyped
<1>7. CASE C!HandleSubmit
  <2>1. committing' = DOMAIN target /\ UNCHANGED <<target, asks, previews>>
    BY <1>7 DEF C!HandleSubmit
  <2> QED
    BY <2>1 DEF DialogTyped
<1>8. ASSUME NEW c, C!ConfirmOne(c)
      PROVE  DialogTyped'
  <2>1. /\ committing # None /\ committing' = committing \ {c}
        /\ UNCHANGED <<target, asks, previews>>
    BY <1>8 DEF C!ConfirmOne
  <2> QED
    BY <2>1 DEF DialogTyped
<1>9. CASE C!CommitDone
  <2>1. committing' = None
    BY <1>9 DEF C!CommitDone
  <2>2. CASE UNCHANGED <<target, asks, previews>>
    BY <2>1, <2>2 DEF DialogTyped
  <2>3. CASE C!Closed
    BY <2>1, <2>3, ClosedKeepsDialog
  <2> QED
    BY <1>9, <2>2, <2>3 DEF C!CommitDone
<1>10. CASE C!HandleClose
  <2>1. C!Closed /\ committing' = None
    BY <1>10 DEF C!HandleClose
  <2> QED
    BY <2>1, ClosedKeepsDialog
<1>11. CASE C!HandleFetch \/ C!Sync \/ C!Refresh
            \/ \E c \in Campaigns, type \in Types \cup {None} : C!HandleSelectionChange(c, type)
  BY <1>1, <1>11, Zenon DEF C!HandleFetch, C!Sync, C!Refresh, C!HandleSelectionChange
<1>12. CASE UNCHANGED campaignVars
  <2>1. UNCHANGED <<target, previews, committing, asks>>
    BY <1>12 DEF campaignVars
  <2> QED
    BY <2>1 DEF DialogTyped
<1> QED
  BY <1>2, <1>3, <1>4, <1>5, <1>6, <1>7, <1>8, <1>9, <1>10, <1>11, <1>12, Zenon DEF C!Next

----------------------------------------------------------------------------
(* The rules screen: every rule of a tenant is listed once.                 *)
(* An entry out of a sequence, and an entry into it.                        *)
LEMMA Removed ==
  ASSUME NEW S, NEW s \in Seq(S), NEW i \in 1..Len(s)
  PROVE  T!RemoveAt(s, i) = [j \in 1..Len(s) - 1 |-> IF j < i THEN s[j] ELSE s[j + 1]]
<1> DEFINE before == SubSeq(s, 1, i - 1)
           after == SubSeq(s, i + 1, Len(s))
           left == [j \in 1..Len(s) - 1 |-> IF j < i THEN s[j] ELSE s[j + 1]]
<1>1. Len(s) \in Nat /\ i \in Int /\ 1 <= i /\ i <= Len(s) /\ \A j \in 1..Len(s) : s[j] \in S
  OBVIOUS
<1>2. /\ before \in Seq(S) /\ Len(before) = i - 1
      /\ \A j \in 1..i - 1 : before[j] = s[j]
  <2>1. \A j \in 1..i - 1 : s[j] \in S
    BY <1>1
  <2> QED
    BY <1>1, <2>1, SubSeqProperties
<1>3. /\ after \in Seq(S) /\ Len(after) = Len(s) - i
      /\ \A j \in 1..Len(s) - i : after[j] = s[j + i]
  <2>1. \A j \in i + 1..Len(s) : s[j] \in S
    BY <1>1
  <2> QED
    BY <1>1, <2>1, SubSeqProperties
<1>4. T!RemoveAt(s, i) = before \o after
  BY DEF T!RemoveAt
<1> HIDE DEF before, after
<1>5. /\ before \o after \in Seq(S) /\ Len(before \o after) = Len(before) + Len(after)
      /\ \A j \in 1..Len(before) + Len(after) :
           (before \o after)[j] = IF j <= Len(before) THEN before[j] ELSE after[j - Len(before)]
  BY <1>2, <1>3, ConcatProperties
<1>6. left \in Seq(S) /\ Len(left) = Len(s) - 1
  BY <1>1
<1>7. Len(before) + Len(after) = Len(s) - 1
  BY <1>1, <1>2, <1>3
<1>8. ASSUME NEW j \in 1..Len(s) - 1
      PROVE  (before \o after)[j] = left[j]
  <2>1. CASE j < i
    <3>1. j \in 1..i - 1 /\ j <= Len(before)
      BY <1>1, <1>2, <2>1
    <3>2. (before \o after)[j] = before[j]
      BY <1>5, <1>7, <3>1
    <3> QED
      BY <1>2, <2>1, <3>1, <3>2
  <2>2. CASE ~ (j < i)
    <3>1. j - (i - 1) \in 1..Len(s) - i /\ ~ (j <= Len(before)) /\ (j - (i - 1)) + i = j + 1
      BY <1>1, <1>2, <2>2
    <3>2. (before \o after)[j] = after[j - (i - 1)]
      BY <1>2, <1>5, <1>7, <3>1
    <3>3. after[j - (i - 1)] = s[(j - (i - 1)) + i]
      BY <1>3, <3>1
    <3> QED
      BY <2>2, <3>1, <3>2, <3>3
  <2> QED
    BY <2>1, <2>2
<1> HIDE DEF left
<1>9. Len(before \o after) = Len(left) /\ \A j \in 1..Len(left) : (before \o after)[j] = left[j]
  BY <1>5, <1>6, <1>7, <1>8
<1>10. before \o after = left
  BY <1>5, <1>6, <1>9, SeqEqual
<1> QED
  BY <1>4, <1>10 DEF left

LEMMA Inserted ==
  ASSUME NEW S, NEW s \in Seq(S), NEW i \in 1..Len(s), NEW e \in S
  PROVE  T!InsertAt(s, i, e) =
           [j \in 1..Len(s) + 1 |-> IF j < i THEN s[j] ELSE IF j = i THEN e ELSE s[j - 1]]
BY DEF T!InsertAt

LEMMA Appended ==
  ASSUME NEW S, NEW s \in Seq(S), NEW e \in S
  PROVE  Append(s, e) = [j \in 1..Len(s) + 1 |-> IF j <= Len(s) THEN s[j] ELSE e]
<1> DEFINE more == [j \in 1..Len(s) + 1 |-> IF j <= Len(s) THEN s[j] ELSE e]
<1>1. /\ Append(s, e) \in Seq(S) /\ Len(Append(s, e)) = Len(s) + 1
      /\ \A j \in 1..Len(s) + 1 : Append(s, e)[j] = more[j]
  BY AppendProperties
<1>2. more \in Seq(S) /\ Len(more) = Len(s) + 1
  OBVIOUS
<1> QED
  BY <1>1, <1>2, SeqEqual

(* The rules of a tenant, each listed once.                                 *)
Rulebook == [rules: Seq(T!Rule), types: [CampaignTypes -> T!Type]]
ListedOnce(rules) == \A i, j \in 1..Len(rules) : rules[i].id = rules[j].id => i = j

RulebookTyped == rulebook \in Rulebook /\ ListedOnce(rulebook.rules)

LEMMA NoMoreRulesThanIds ==
  ASSUME NEW rules \in Seq(T!Rule), ListedOnce(rules)
  PROVE  Len(rules) <= Cardinality(Rules)
<1> DEFINE f == [i \in 1..Len(rules) |-> rules[i].id]
<1>0. \A i \in 1..Len(rules) : rules[i] \in T!Rule
  OBVIOUS
<1>1. f \in [1..Len(rules) -> Rules]
  BY <1>0 DEF T!Rule
<1>2. f \in Injection(1..Len(rules), Rules)
  BY <1>1 DEF ListedOnce, Injection, IsInjective
<1>3. IsFiniteSet(Rules)
  BY RulesAssumption
<1> HIDE DEF f
<1>4. Cardinality(1..Len(rules)) <= Cardinality(Rules)
  BY <1>2, <1>3, FS_Injection
<1>5. \A n \in Nat : Cardinality(1..n) = n
  BY FS_Interval
<1>6. Len(rules) \in Nat
  OBVIOUS
<1> QED
  BY <1>4, <1>5, <1>6

LEMMA RulesCount == \A S : T!Cardinality(S) = Cardinality(S)
BY Zenon DEF T!Cardinality, Cardinality

LEMMA RulebookTypes ==
  ASSUME RulebookTyped
  PROVE  /\ rulebook.rules \in T!SeqOf(T!Rule, T!Cardinality(Rules))
         /\ T!IsInjective(T!Ids(rulebook.rules))
         /\ rulebook.types \in [CampaignTypes -> T!Type]
<1>1. rulebook.rules \in Seq(T!Rule) /\ ListedOnce(rulebook.rules)
      /\ rulebook.types \in [CampaignTypes -> T!Type]
  BY DEF RulebookTyped, Rulebook
<1>2. T!IsInjective(T!Ids(rulebook.rules))
  BY <1>1 DEF T!IsInjective, T!Ids, ListedOnce
<1>3. Len(rulebook.rules) <= Cardinality(Rules) /\ Len(rulebook.rules) \in Nat
  BY <1>1, NoMoreRulesThanIds
<1>4. Cardinality(Rules) \in Nat
  BY RulesAssumption, FS_CardinalityType
<1>5. Len(rulebook.rules) \in 0..Cardinality(Rules)
  BY <1>3, <1>4
<1>6. rulebook.rules \in [1..Len(rulebook.rules) -> T!Rule]
  BY <1>1
<1>7. rulebook.rules \in T!SeqOf(T!Rule, Cardinality(Rules))
  BY <1>5, <1>6, Zenon DEF T!SeqOf
<1> QED
  BY <1>1, <1>2, <1>7, RulesCount

(* Whatever the service does to its rules, each is listed once.             *)
LEMMA RemovedKeepsRules ==
  ASSUME RulebookTyped, NEW i \in DOMAIN rulebook.rules,
         rulebook' = [rulebook EXCEPT !.rules = T!RemoveAt(@, i)]
  PROVE  RulebookTyped'
<1> DEFINE s == rulebook.rules
           left == [j \in 1..Len(s) - 1 |-> IF j < i THEN s[j] ELSE s[j + 1]]
<1>1. s \in Seq(T!Rule) /\ ListedOnce(s) /\ i \in 1..Len(s) /\ Len(s) \in Nat
  BY DEF RulebookTyped, Rulebook
<1>2. rulebook' = [rulebook EXCEPT !.rules = left]
  BY <1>1, Removed
<1>3. \A j \in 1..Len(s) : s[j] \in T!Rule
  BY <1>1
<1> HIDE DEF s
<1>4. left \in Seq(T!Rule) /\ Len(left) = Len(s) - 1
  BY <1>1, <1>3
<1>5. ListedOnce(left)
  <2> SUFFICES ASSUME NEW j \in 1..Len(s) - 1, NEW k \in 1..Len(s) - 1, left[j].id = left[k].id
               PROVE  j = k
    BY <1>4 DEF ListedOnce
  <2> DEFINE was(n) == IF n < i THEN n ELSE n + 1
  <2>1. was(j) \in 1..Len(s) /\ was(k) \in 1..Len(s)
    BY <1>1
  <2>2. left[j] = s[was(j)] /\ left[k] = s[was(k)]
    OBVIOUS
  <2>3. was(j) = was(k)
    BY <1>1, <2>1, <2>2 DEF ListedOnce
  <2> QED
    BY <1>1, <2>3
<1> HIDE DEF left
<1> QED
  BY <1>2, <1>4, <1>5 DEF RulebookTyped, Rulebook

LEMMA DeletedKeepsRules ==
  ASSUME RulebookTyped, NEW c, T!Deleted(c)
  PROVE  RulebookTyped'
BY RemovedKeepsRules DEF T!Deleted

LEMMA CreatedKeepsRules ==
  ASSUME RulebookTyped, NEW c, c.type \in CampaignTypes, T!Created(c)
  PROVE  RulebookTyped'
<1> DEFINE s == rulebook.rules
<1>1. s \in Seq(T!Rule) /\ ListedOnce(s) /\ Len(s) \in Nat
      /\ \A j \in 1..Len(s) : s[j] \in T!Rule
  BY DEF RulebookTyped, Rulebook
<1>2. PICK id \in Rules :
        /\ ~T!Listed(id)
        /\ \/ rulebook' = [rulebook EXCEPT !.rules =
                             Append(@, [id |-> id, type |-> c.type, active |-> TRUE])]
           \/ \E i \in DOMAIN s : rulebook' = [rulebook EXCEPT !.rules =
                             T!InsertAt(@, i, [id |-> id, type |-> c.type, active |-> TRUE])]
  BY DEF T!Created
<1> DEFINE r == [id |-> id, type |-> c.type, active |-> TRUE]
<1>3. r \in T!Rule /\ r.id = id
  BY DEF T!Rule
<1>4. \A j \in 1..Len(s) : s[j].id # id
  BY <1>1, <1>2 DEF T!Listed
<1>5. CASE rulebook' = [rulebook EXCEPT !.rules = Append(@, r)]
  <2> DEFINE more == [j \in 1..Len(s) + 1 |-> IF j <= Len(s) THEN s[j] ELSE r]
  <2>1. rulebook' = [rulebook EXCEPT !.rules = Append(s, r)]
    BY <1>5
  <2> HIDE DEF s, r
  <2>2. Append(s, r) = more
    BY <1>1, <1>3, Appended
  <2>3. rulebook' = [rulebook EXCEPT !.rules = more]
    BY <2>1, <2>2, Zenon
  <2>4. more \in Seq(T!Rule) /\ Len(more) = Len(s) + 1
    BY <1>1, <1>3
  <2>5. ListedOnce(more)
    BY <1>1, <1>3, <1>4, <2>4 DEF ListedOnce
  <2> HIDE DEF more
  <2> QED
    BY <2>3, <2>4, <2>5 DEF RulebookTyped, Rulebook
<1>6. ASSUME NEW i \in DOMAIN s, rulebook' = [rulebook EXCEPT !.rules = T!InsertAt(@, i, r)]
      PROVE  RulebookTyped'
  <2> DEFINE more == [j \in 1..Len(s) + 1 |->
                        IF j < i THEN s[j] ELSE IF j = i THEN r ELSE s[j - 1]]
  <2>1. rulebook' = [rulebook EXCEPT !.rules = T!InsertAt(s, i, r)] /\ i \in 1..Len(s)
    BY <1>1, <1>6
  <2> HIDE DEF s, r
  <2>2. T!InsertAt(s, i, r) = more
    BY <1>1, <1>3, <2>1, Inserted
  <2>3. rulebook' = [rulebook EXCEPT !.rules = more] /\ i \in 1..Len(s)
    BY <2>1, <2>2, Zenon
  <2>4. more \in Seq(T!Rule) /\ Len(more) = Len(s) + 1
    BY <1>1, <1>3, <2>3
  <2>5. ListedOnce(more)
    <3> SUFFICES ASSUME NEW j \in 1..Len(s) + 1, NEW k \in 1..Len(s) + 1,
                        more[j].id = more[k].id
                 PROVE  j = k
      BY <2>4 DEF ListedOnce
    <3> DEFINE was(n) == IF n < i THEN n ELSE n - 1
    <3>1. ASSUME NEW n \in 1..Len(s) + 1, n # i
          PROVE  was(n) \in 1..Len(s) /\ more[n] = s[was(n)]
      BY <1>1, <2>3, <3>1
    <3>2. more[i] = r
      BY <1>1, <2>3
    <3>3. CASE j = i \/ k = i
      BY <1>3, <1>4, <3>1, <3>2, <3>3
    <3>4. CASE j # i /\ k # i
      <4>1. was(j) = was(k)
        BY <1>1, <3>1, <3>4 DEF ListedOnce
      <4> QED
        BY <1>1, <2>3, <3>4, <4>1
    <3> QED
      BY <3>3, <3>4
  <2> HIDE DEF more
  <2> QED
    BY <2>3, <2>4, <2>5 DEF RulebookTyped, Rulebook
<1> QED
  BY <1>2, <1>5, <1>6

LEMMA ReorderedKeepsRules ==
  ASSUME RulebookTyped, NEW c, c.ids \in Seq(Rules), T!Reordered(c)
  PROVE  RulebookTyped'
<1> DEFINE s == rulebook.rules
           new == [i \in DOMAIN c.ids |-> T!RuleOf(c.ids[i])]
<1>1. s \in Seq(T!Rule) /\ DOMAIN s = 1..Len(s) /\ \A j \in 1..Len(s) : s[j] \in T!Rule
  BY DEF RulebookTyped, Rulebook
<1>2. /\ T!IsInjective(c.ids) /\ T!ToSet(c.ids) = T!ToSet(T!Ids(s))
      /\ rulebook' = [rulebook EXCEPT !.rules = new]
  BY Zenon DEF T!Reordered
<1>3. ASSUME NEW i \in DOMAIN c.ids
      PROVE  T!RuleOf(c.ids[i]) \in T!Rule /\ T!RuleOf(c.ids[i]).id = c.ids[i]
  <2>1. c.ids[i] \in T!ToSet(T!Ids(s))
    BY <1>2 DEF T!ToSet
  <2>2. PICK j \in DOMAIN s : s[j].id = c.ids[i]
    BY <2>1 DEF T!ToSet, T!Ids
  <2>3. s[j] \in T!ToSet(s) /\ s[j].id = c.ids[i]
    BY <2>2 DEF T!ToSet
  <2>4. T!RuleOf(c.ids[i]) \in T!ToSet(s) /\ T!RuleOf(c.ids[i]).id = c.ids[i]
    BY <2>3, Zenon DEF T!RuleOf
  <2>5. T!ToSet(s) \subseteq T!Rule
    BY <1>1 DEF T!ToSet
  <2> QED
    BY <2>4, <2>5
<1> HIDE DEF s
<1>4. DOMAIN c.ids = 1..Len(c.ids) /\ Len(c.ids) \in Nat
  OBVIOUS
<1>5. new \in Seq(T!Rule) /\ Len(new) = Len(c.ids)
  BY <1>3, <1>4
<1>6. ListedOnce(new)
  BY <1>2, <1>3, <1>4, <1>5 DEF ListedOnce, T!IsInjective
<1> HIDE DEF new
<1> QED
  BY <1>2, <1>5, <1>6 DEF RulebookTyped, Rulebook

LEMMA RewrittenKeepsRules ==
  ASSUME RulebookTyped, NEW c, c.rule \in T!Rule, T!Rewritten(c)
  PROVE  RulebookTyped'
<1> DEFINE s == rulebook.rules
           new == [i \in DOMAIN s |-> IF s[i].id = c.rule.id THEN c.rule ELSE s[i]]
<1>1. s \in Seq(T!Rule) /\ DOMAIN s = 1..Len(s) /\ (\A j \in 1..Len(s) : s[j] \in T!Rule)
      /\ ListedOnce(s)
  BY DEF RulebookTyped, Rulebook
<1>2. rulebook' = [rulebook EXCEPT !.rules = new]
  BY DEF T!Rewritten
<1> HIDE DEF s
<1>3. new \in Seq(T!Rule) /\ Len(new) = Len(s)
  BY <1>1
<1>4. \A i \in 1..Len(s) : new[i].id = s[i].id
  BY <1>1
<1>5. ListedOnce(new)
  BY <1>1, <1>3, <1>4 DEF ListedOnce
<1> HIDE DEF new
<1> QED
  BY <1>2, <1>3, <1>5 DEF RulebookTyped, Rulebook

LEMMA RetypedKeepsRules ==
  ASSUME RulebookTyped, NEW c, c.id \in CampaignTypes, c.to \in T!Type, T!Retyped(c)
  PROVE  RulebookTyped'
BY DEF RulebookTyped, Rulebook, T!Retyped

\* What is on its way, and what the screen has loaded, is of the service's kinds.
Action == [step: {"write", "served", "reload"}, change: T!Change \cup {None}]

ScreenTyped ==
  /\ onScreen.types # None => onScreen \in Rulebook
  /\ reread # None => reread \in Rulebook
  /\ acting \in Action \cup {None}
  /\ T!Step("write") \/ T!Step("served") => mounted /\ acting.change \in T!Change
  /\ foreign \in 0..MaxForeign

LEMMA RuleTypes == RulebookTyped /\ ScreenTyped => T!TypeOK
<1> SUFFICES ASSUME RulebookTyped, ScreenTyped PROVE T!TypeOK
  OBVIOUS
<1>1. /\ acting \in Action \cup {None}
      /\ T!Step("write") \/ T!Step("served") => mounted /\ acting.change \in T!Change
      /\ foreign \in 0..MaxForeign
  BY DEF ScreenTyped
<1> QED
  BY <1>1, RulebookTypes, Zenon DEF T!TypeOK, Action

(* A change that is on its way is something.                                *)
LEMMA StepsAreActions ==
  ASSUME NEW step \in {"write", "served", "reload"}, NEW change \in T!Change \cup {None},
         NEW act, act = T!Acting(step, change)
  PROVE  act \in Action /\ act # None /\ act.step = step /\ act.change = change
<1>1. act \in Action
  BY DEF T!Acting, Action
<1> QED
  BY <1>1, RulesAssumption DEF T!Acting, Action

LEMMA RulesTypedInit == T!Init => RulebookTyped /\ ScreenTyped
<1> SUFFICES ASSUME T!Init PROVE RulebookTyped /\ ScreenTyped
  OBVIOUS
<1>1. PICK r \in T!Rule, types \in [CampaignTypes -> [active: {TRUE}, department: TypeDepartments]] :
        \E rs \in {<<>>, <<r>>} : rulebook = [rules |-> rs, types |-> types]
  BY DEF T!Init
<1>2. PICK rs \in {<<>>, <<r>>} : rulebook = [rules |-> rs, types |-> types]
  BY <1>1
<1>3. types \in [CampaignTypes -> T!Type]
  BY DEF T!Type
<1>4. rs \in Seq(T!Rule) /\ Len(rs) \in {0, 1}
  <2>1. <<>> \in Seq(T!Rule) /\ Len(<<>>) = 0
    OBVIOUS
  <2>2. <<r>> \in Seq(T!Rule) /\ Len(<<r>>) = 1
    OBVIOUS
  <2>3. CASE rs = <<>>
    BY <2>1, <2>3
  <2>4. CASE rs = <<r>>
    BY <2>2, <2>4
  <2> QED
    BY <2>3, <2>4, Zenon
<1>5. ListedOnce(rs)
  BY <1>4 DEF ListedOnce
<1>6. RulebookTyped
  BY <1>2, <1>3, <1>4, <1>5 DEF RulebookTyped, Rulebook
<1>7. /\ onScreen.types = None /\ reread = None /\ foreign = 0 /\ MaxForeign \in Nat
      /\ acting = T!Acting("reload", None)
  BY BoundsAssumption DEF T!Init, T!Unlisted
<1>8. acting \in Action /\ acting.step = "reload"
  BY <1>7, StepsAreActions
<1> QED
  BY <1>6, <1>7, <1>8 DEF ScreenTyped, T!Step

(* The ids of a list, two of them exchanged.                                *)
LEMMA SwappedIds ==
  ASSUME NEW rules \in Seq(T!Rule), NEW i \in 1..Len(rules) - 1
  PROVE  T!Swapped(T!Ids(rules), i) \in Seq(Rules)
<1>1. \A j \in 1..Len(rules) : rules[j].id \in Rules
  <2>1. \A j \in 1..Len(rules) : rules[j] \in T!Rule
    OBVIOUS
  <2> QED
    BY <2>1 DEF T!Rule
<1>2. T!Ids(rules) \in [1..Len(rules) -> Rules]
  BY <1>1 DEF T!Ids
<1>3. Len(rules) \in Nat /\ i \in 1..Len(rules) /\ i + 1 \in 1..Len(rules)
  OBVIOUS
<1>4. T!Swapped(T!Ids(rules), i) \in [1..Len(rules) -> Rules]
  BY <1>2, <1>3 DEF T!Swapped
<1> QED
  BY <1>3, <1>4

(* What the screen offers to change is a change the service knows.          *)
LEMMA ChangesAreAsked ==
  ASSUME ScreenTyped, NEW c \in T!Changes
  PROVE  c \in T!Change
<1>1. onScreen \in Rulebook /\ c \in T!Moves \cup T!RuleEdits \cup T!NewRules \cup T!TypeEdits
  BY DEF T!Changes, ScreenTyped
<1>2. /\ onScreen.rules \in Seq(T!Rule) /\ onScreen.types \in [CampaignTypes -> T!Type]
      /\ \A i \in DOMAIN onScreen.rules : onScreen.rules[i] \in T!Rule
  BY <1>1 DEF Rulebook
<1>3. CASE c \in T!Moves
  <2>1. PICK i \in 1..Len(onScreen.rules) - 1 :
          c = [kind |-> "order", ids |-> T!Swapped(T!Ids(onScreen.rules), i)]
    BY <1>3 DEF T!Moves
  <2>2. T!Swapped(T!Ids(onScreen.rules), i) \in Seq(Rules)
    BY <1>2, <2>1, SwappedIds
  <2> QED
    BY <2>1, <2>2 DEF T!Change
<1>4. CASE c \in T!RuleEdits
  <2>1. PICK i \in DOMAIN onScreen.rules :
          \/ \E t \in CampaignTypes :
               c = [kind |-> "rule", rule |-> [onScreen.rules[i] EXCEPT !.type = t]]
          \/ c = [kind |-> "rule", rule |-> [onScreen.rules[i] EXCEPT !.active = ~@]]
          \/ c = [kind |-> "delete", id |-> onScreen.rules[i].id]
    BY <1>4 DEF T!RuleEdits, T!RuleTypes
  <2> DEFINE r == onScreen.rules[i]
  <2>2. r \in T!Rule /\ r.id \in Rules
    BY <1>2 DEF T!Rule
  <2> HIDE DEF r
  <2>3. [r EXCEPT !.active = ~@] \in T!Rule /\ \A t \in CampaignTypes : [r EXCEPT !.type = t] \in T!Rule
    BY <2>2 DEF T!Rule
  <2>4. \/ \E rule \in T!Rule : c = [kind |-> "rule", rule |-> rule]
        \/ c = [kind |-> "delete", id |-> r.id]
    BY <2>1, <2>3 DEF r
  <2> QED
    BY <2>2, <2>4 DEF T!Change
<1>5. CASE c \in T!NewRules
  <2>1. PICK t \in CampaignTypes, b \in Rules \cup {None} :
          c = [kind |-> "create", type |-> t, before |-> b]
    <3>1. \A i \in {1} \cap DOMAIN onScreen.rules : onScreen.rules[i].id \in Rules
      BY <1>2 DEF T!Rule
    <3> QED
      BY <1>5, <3>1 DEF T!NewRules
  <2> QED
    BY <2>1 DEF T!Change
<1>6. CASE c \in T!TypeEdits
  <2>1. PICK t \in CampaignTypes :
          \/ \E d \in TypeDepartments \cup {None} :
               c = [kind |-> "type", id |-> t, to |-> [onScreen.types[t] EXCEPT !.department = d]]
          \/ c = [kind |-> "type", id |-> t, to |-> [onScreen.types[t] EXCEPT !.active = ~@]]
    BY <1>6 DEF T!TypeEdits
  <2> DEFINE was == onScreen.types[t]
  <2>2. was \in T!Type
    BY <1>2
  <2> HIDE DEF was
  <2>3. /\ [was EXCEPT !.active = ~@] \in T!Type
        /\ \A d \in TypeDepartments \cup {None} : [was EXCEPT !.department = d] \in T!Type
    BY <2>2 DEF T!Type
  <2>4. \E to \in T!Type : c = [kind |-> "type", id |-> t, to |-> to]
    BY <2>1, <2>3 DEF was
  <2> QED
    BY <2>4 DEF T!Change
<1> QED
  BY <1>1, <1>3, <1>4, <1>5, <1>6

LEMMA RulebookTypedNext ==
  RulebookTyped /\ ScreenTyped /\ [T!Next]_ruleVars => RulebookTyped'
<1> SUFFICES ASSUME RulebookTyped, ScreenTyped, [T!Next]_ruleVars
             PROVE  RulebookTyped'
  OBVIOUS
<1>1. CASE T!Serve
  <2>1. T!Applied(acting.change) /\ acting.change \in T!Change
    BY <1>1 DEF T!Serve, ScreenTyped
  <2>2. ASSUME NEW c \in T!Change
        PROVE  /\ c.kind = "order" => c.ids \in Seq(Rules)
               /\ c.kind = "rule" => c.rule \in T!Rule
               /\ c.kind = "create" => c.type \in CampaignTypes
               /\ c.kind = "type" => c.id \in CampaignTypes /\ c.to \in T!Type
    BY DEF T!Change
  <2> QED
    BY <2>1, <2>2, ReorderedKeepsRules, RewrittenKeepsRules, DeletedKeepsRules,
       CreatedKeepsRules, RetypedKeepsRules DEF T!Applied
<1>2. CASE T!Foreign
  <2>1. ASSUME NEW i \in DOMAIN rulebook.rules, T!Deleted([id |-> rulebook.rules[i].id])
        PROVE  RulebookTyped'
    BY <2>1, DeletedKeepsRules
  <2>2. ASSUME NEW t \in CampaignTypes, T!Created([type |-> t, before |-> None])
        PROVE  RulebookTyped'
    BY <2>2, CreatedKeepsRules
  <2>3. ASSUME NEW i \in 1..Len(rulebook.rules) - 1,
               T!Reordered([ids |-> T!Swapped(T!Ids(rulebook.rules), i)])
        PROVE  RulebookTyped'
    <3>1. T!Swapped(T!Ids(rulebook.rules), i) \in Seq(Rules)
      BY SwappedIds DEF RulebookTyped, Rulebook
    <3> QED
      BY <2>3, <3>1, ReorderedKeepsRules
  <2> QED
    BY <1>2, <2>1, <2>2, <2>3 DEF T!Foreign
<1>3. CASE UNCHANGED rulebook
  BY <1>3 DEF RulebookTyped
<1> QED
  BY <1>1, <1>2, <1>3
     DEF T!Next, T!Act, T!Answer, T!NoAnswer, T!ReadLists, T!Load, T!LoadFails, ruleVars

LEMMA ScreenTypedNext ==
  RulebookTyped /\ ScreenTyped /\ [T!Next]_ruleVars => ScreenTyped'
<1> SUFFICES ASSUME RulebookTyped, ScreenTyped, [T!Next]_ruleVars
             PROVE  ScreenTyped'
  OBVIOUS
<1> USE DEF ScreenTyped, T!Step
<1>1. rulebook \in Rulebook /\ MaxForeign \in Nat
  BY BoundsAssumption DEF RulebookTyped
<1>2. ASSUME NEW c \in T!Changes, T!Act(c)
      PROVE  ScreenTyped'
  <2>1. acting' = T!Acting("write", c) /\ mounted /\ UNCHANGED <<onScreen, mounted, reread, foreign>>
    BY <1>2 DEF T!Act
  <2>2. acting' \in Action /\ acting'.change \in T!Change
    BY <2>1, ChangesAreAsked, StepsAreActions
  <2> QED
    BY <2>1, <2>2
<1>3. CASE T!Serve
  <2>1. acting # None /\ acting.step = "write" /\ acting' = [acting EXCEPT !.step = "served"]
        /\ UNCHANGED <<onScreen, mounted, reread, foreign>>
    BY <1>3 DEF T!Serve
  <2>2. acting \in Action
    BY <2>1
  <2>3. acting' \in Action /\ acting'.change = acting.change
    BY <2>1, <2>2 DEF Action
  <2> QED
    BY <2>1, <2>3
<1>4. CASE T!Answer
  <2>1. acting' = T!Acting("reload", None) /\ UNCHANGED <<onScreen, mounted, reread, foreign>>
    BY <1>4 DEF T!Answer
  <2>2. acting' \in Action /\ acting'.step = "reload"
    BY <2>1, StepsAreActions
  <2> QED
    BY <2>1, <2>2
<1>5. CASE T!NoAnswer
  BY <1>5 DEF T!NoAnswer
<1>6. CASE T!ReadLists
  BY <1>1, <1>6 DEF T!ReadLists
<1>7. CASE T!Load
  BY <1>7 DEF T!Load
<1>8. CASE T!LoadFails
  BY <1>8 DEF T!LoadFails
<1>9. CASE T!Foreign
  <2>1. foreign < MaxForeign /\ foreign' = foreign + 1
        /\ UNCHANGED <<onScreen, mounted, acting, reread>>
    BY <1>9 DEF T!Foreign
  <2>2. foreign' \in 0..MaxForeign
    BY <1>1, <2>1
  <2> QED
    BY <2>1, <2>2
<1>10. CASE UNCHANGED ruleVars
  BY <1>10 DEF ruleVars
<1> QED
  BY <1>2, <1>3, <1>4, <1>5, <1>6, <1>7, <1>8, <1>9, <1>10 DEF T!Next

----------------------------------------------------------------------------
(* From the moment the lists are read to the moment they are shown, and     *)
(* until a change is served, nobody changes the service unless that is      *)
(* recorded.                                                                *)

ReadListsAreCurrent ==
  reread # None => T!Step("reload") /\ (~unsure => reread = rulebook)

ShownUntilServed ==
  mounted /\ ~unsure /\ (acting = None \/ T!Step("write")) => onScreen = rulebook

RulesIInv == RulebookTyped /\ ScreenTyped /\ ReadListsAreCurrent /\ ShownUntilServed

LEMMA RulesInit == T!Init => RulesIInv
<1> SUFFICES ASSUME T!Init PROVE RulesIInv
  OBVIOUS
<1>1. ReadListsAreCurrent /\ ShownUntilServed
  BY DEF T!Init, ReadListsAreCurrent, ShownUntilServed
<1> QED
  BY <1>1, RulesTypedInit DEF RulesIInv

(* At rest that is the property.                                            *)
LEMMA RulesShown == RulesIInv => T!ScreenIsTheServersTruth
BY DEF RulesIInv, ShownUntilServed, T!ScreenIsTheServersTruth

LEMMA RulesNext == RulesIInv /\ [T!Next]_ruleVars => RulesIInv'
<1> SUFFICES ASSUME RulesIInv, [T!Next]_ruleVars
             PROVE  RulesIInv'
  OBVIOUS
<1>1. RulebookTyped' /\ ScreenTyped'
  BY RulebookTypedNext, ScreenTypedNext DEF RulesIInv
<1>2. /\ ScreenTyped /\ ReadListsAreCurrent /\ ShownUntilServed
      /\ acting = None \/ acting \in Action
  BY DEF RulesIInv, ScreenTyped
<1> SUFFICES ReadListsAreCurrent' /\ ShownUntilServed'
  BY <1>1 DEF RulesIInv
<1> USE DEF ReadListsAreCurrent, ShownUntilServed, T!Step
<1>3. ASSUME NEW c \in T!Changes, T!Act(c)
      PROVE  ReadListsAreCurrent' /\ ShownUntilServed'
  <2>1. acting' = T!Acting("write", c) /\ c \in T!Change
    BY <1>2, <1>3, ChangesAreAsked DEF T!Act
  <2>2. acting' # None /\ acting'.step = "write"
    BY <2>1, StepsAreActions
  <2>3. /\ mounted /\ acting = None /\ reread = None
        /\ UNCHANGED <<rulebook, onScreen, mounted, reread, unsure>>
    BY <1>2, <1>3 DEF T!Act
  <2> QED
    BY <1>2, <2>2, <2>3
<1>4. CASE T!Serve
  <2>1. /\ acting # None /\ acting.step = "write" /\ acting' = [acting EXCEPT !.step = "served"]
        /\ reread' = reread /\ reread = None
    BY <1>2, <1>4 DEF T!Serve
  <2>2. acting'.step = "served"
    BY <1>2, <2>1 DEF Action
  <2>3. acting' # None
    BY <1>2, <2>1, RulesAssumption DEF Action
  <2> QED
    BY <2>1, <2>2, <2>3
<1>5. CASE T!Answer
  <2>1. acting' = T!Acting("reload", None) /\ reread' = reread /\ reread = None
    BY <1>2, <1>5 DEF T!Answer
  <2>2. acting' # None /\ acting'.step = "reload"
    BY <2>1, StepsAreActions
  <2> QED
    BY <2>1, <2>2
<1>6. CASE T!NoAnswer
  BY <1>2, <1>6 DEF T!NoAnswer
<1>7. CASE T!ReadLists
  BY <1>2, <1>7 DEF T!ReadLists
<1>8. CASE T!Load
  BY <1>2, <1>8 DEF T!Load
<1>9. CASE T!LoadFails
  BY <1>2, <1>9 DEF T!LoadFails
<1>10. CASE T!Foreign
  BY <1>2, <1>10 DEF T!Foreign
<1>11. CASE UNCHANGED ruleVars
  BY <1>2, <1>11 DEF ruleVars
<1> QED
  BY <1>3, <1>4, <1>5, <1>6, <1>7, <1>8, <1>9, <1>10, <1>11 DEF T!Next

----------------------------------------------------------------------------
(* The page mapping dialog: the one list waited for is of the page chosen,  *)
(* in a dialog that is open.                                                *)

ListsAreOfThePage == \A l \in lists : l.live => l.page = pageId /\ modal # "closed"

PagesTyped ==
  /\ mapped \subseteq P!Row /\ board \subseteq P!Row /\ posting \in P!Row \cup {None}
  /\ pageId \in Pages \cup {None} /\ formId \in P!AllForms \cup {None}
  /\ modal = "closed" => posting = None /\ forms = None
  /\ pageLevel \in BOOLEAN
  /\ lists \subseteq [page: Pages, live: BOOLEAN]

PagesIInv == PagesTyped /\ ListsAreOfThePage /\ P!FormsMatchThePage

LEMMA PagesInit == P!Init => PagesIInv
BY DEF P!Init, PagesIInv, PagesTyped, ListsAreOfThePage, P!FormsMatchThePage

(* Whatever moves the page chosen asks for its forms or drops the list.     *)
LEMMA ListsFollowThePage ==
  ASSUME PagesIInv, NEW creating \in BOOLEAN, NEW p \in Pages \cup {None}, NEW whole \in BOOLEAN,
         P!LoadForms(creating, p, whole), pageId' = p, creating => modal' # "closed"
  PROVE  /\ lists' \subseteq [page: Pages, live: BOOLEAN]
         /\ ListsAreOfThePage' /\ P!FormsMatchThePage'
         /\ forms' \in {forms, None}
<1>1. ASSUME NEW l \in lists
      PROVE  /\ [l EXCEPT !.live = FALSE] \in [page: Pages, live: BOOLEAN]
             /\ ~[l EXCEPT !.live = FALSE].live
  BY DEF PagesIInv, PagesTyped
<1>2. \A e \in P!Cancelled : e \in [page: Pages, live: BOOLEAN] /\ ~e.live
  BY <1>1 DEF P!Cancelled
<1>3. CASE creating /\ ~whole /\ p # None
  <2> DEFINE list == [page |-> p, live |-> TRUE]
  <2>1. lists' = P!Cancelled \cup {list} /\ forms' = forms
    BY <1>3 DEF P!LoadForms
  <2>2. list \in [page: Pages, live: BOOLEAN] /\ list.page = pageId' /\ list.live
        /\ modal' # "closed"
    BY <1>3
  <2> HIDE DEF list
  <2> QED
    BY <1>2, <2>1, <2>2 DEF ListsAreOfThePage, P!FormsMatchThePage
<1>4. CASE ~(creating /\ ~whole /\ p # None)
  <2>1. lists' = P!Cancelled /\ forms' = None
    BY <1>4 DEF P!LoadForms
  <2> QED
    BY <1>2, <2>1 DEF ListsAreOfThePage, P!FormsMatchThePage
<1> QED
  BY <1>3, <1>4

(* A form that is shut offers none.                                         *)
LEMMA ShutClears ==
  ASSUME PagesIInv, P!Shut
  PROVE  /\ lists' \subseteq [page: Pages, live: BOOLEAN]
         /\ ListsAreOfThePage' /\ P!FormsMatchThePage'
         /\ forms' = None /\ pageId' = None /\ formId' = None /\ pageLevel' = TRUE
<1>1. P!LoadForms(FALSE, None, TRUE) /\ pageId' = None /\ formId' = None /\ pageLevel' = TRUE
  BY DEF P!Shut
<1>2. forms' = None
  BY <1>1 DEF P!LoadForms
<1> QED
  BY <1>1, <1>2, ListsFollowThePage

LEMMA PagesNext == PagesIInv /\ [P!Next]_pageVars => PagesIInv'
<1> SUFFICES ASSUME PagesIInv, [P!Next]_pageVars
             PROVE  PagesIInv'
  OBVIOUS
<1> USE DEF PagesIInv
<1>1. ASSUME NEW p \in Pages \cup {None}, NEW f \in P!AllForms \cup {None}, P!OpenCreate(p, f)
      PROVE  PagesIInv'
  <2>1. P!LoadForms(TRUE, p, f = None) /\ pageId' = p /\ formId' = f /\ pageLevel' \in BOOLEAN
        /\ modal' = "create"
    BY <1>1 DEF P!OpenCreate
  <2>2. /\ lists' \subseteq [page: Pages, live: BOOLEAN]
        /\ ListsAreOfThePage' /\ P!FormsMatchThePage'
    BY <2>1, ListsFollowThePage
  <2> QED
    BY <1>1, <2>1, <2>2 DEF P!OpenCreate, PagesTyped
<1>2. ASSUME NEW row \in board, P!OpenEdit(row)
      PROVE  PagesIInv'
  <2>1. row.page \in Pages /\ row.form \in P!AllForms \cup {None}
    BY DEF PagesTyped, P!Row
  <2>2. P!LoadForms(FALSE, row.page, row.form = None) /\ pageId' = row.page /\ formId' = row.form
        /\ pageLevel' \in BOOLEAN
    BY <1>2 DEF P!OpenEdit
  <2>3. /\ lists' \subseteq [page: Pages, live: BOOLEAN]
        /\ ListsAreOfThePage' /\ P!FormsMatchThePage'
    BY <2>1, <2>2, ListsFollowThePage
  <2> QED
    BY <1>2, <2>1, <2>2, <2>3 DEF P!OpenEdit, PagesTyped
<1>3. ASSUME NEW p \in Pages \cup {None}, P!SetPageId(p)
      PROVE  PagesIInv'
  <2>1. P!LoadForms(TRUE, p, pageLevel) /\ pageId' = p /\ pageLevel \in BOOLEAN
        /\ modal' = "create"
    BY <1>3 DEF P!SetPageId, P!Creating, PagesTyped
  <2>2. /\ lists' \subseteq [page: Pages, live: BOOLEAN]
        /\ ListsAreOfThePage' /\ P!FormsMatchThePage'
    BY <2>1, ListsFollowThePage
  <2> QED
    BY <1>3, <2>2 DEF P!SetPageId, P!Creating, PagesTyped
<1>4. ASSUME NEW whole \in BOOLEAN, P!SetPageLevel(whole)
      PROVE  PagesIInv'
  <2>1. P!LoadForms(TRUE, pageId, whole) /\ pageId' = pageId /\ pageId \in Pages \cup {None}
        /\ modal' = "create"
    BY <1>4 DEF P!SetPageLevel, P!Creating, PagesTyped
  <2>2. PICK p \in Pages \cup {None} : p = pageId
    BY <2>1
  <2>3. P!LoadForms(TRUE, p, whole) /\ pageId' = p /\ modal' = "create"
    BY <2>1, <2>2
  <2>4. /\ lists' \subseteq [page: Pages, live: BOOLEAN]
        /\ ListsAreOfThePage' /\ P!FormsMatchThePage'
    BY <2>3, ListsFollowThePage
  <2> QED
    BY <1>4, <2>4 DEF P!SetPageLevel, P!Creating, PagesTyped
<1>5. ASSUME NEW f \in P!AllForms \cup {None}, P!SetFormId(f)
      PROVE  PagesIInv'
  BY <1>5 DEF P!SetFormId, PagesTyped, ListsAreOfThePage, P!FormsMatchThePage
<1>6. ASSUME NEW l \in lists, P!FormsAnswer(l) \/ P!FormsFail(l)
      PROVE  PagesIInv'
  BY <1>6 DEF P!FormsAnswer, P!FormsFail, PagesTyped, ListsAreOfThePage, P!FormsMatchThePage
<1>7. CASE P!HandleSubmit
  BY <1>7 DEF P!HandleSubmit, PagesTyped, ListsAreOfThePage, P!FormsMatchThePage, P!Row
<1>8. CASE P!Saved
  <2>1. P!Shut
    BY <1>8 DEF P!Saved
  <2> QED
    BY <1>8, <2>1, ShutClears DEF P!Saved, PagesTyped
<1>9. CASE P!HandleClose
  <2>1. P!Shut
    BY <1>9 DEF P!HandleClose
  <2> QED
    BY <1>9, <2>1, ShutClears DEF P!HandleClose, PagesTyped
<1>10. ASSUME P!NotSaved \/ P!Refetch \/ (\E row \in mapped : P!Elsewhere(row)) \/ UNCHANGED pageVars
       PROVE  PagesIInv'
  BY <1>10 DEF P!NotSaved, P!Refetch, P!Elsewhere, pageVars, PagesTyped, ListsAreOfThePage,
               P!FormsMatchThePage
<1>11. \A p \in Pages : FormsOf[p] \subseteq P!AllForms
  BY DEF P!AllForms
<1> QED
  BY <1>1, <1>2, <1>3, <1>4, <1>5, <1>6, <1>7, <1>8, <1>9, <1>10, <1>11 DEF P!Next

LEMMA PagesCount == \A S : P!Cardinality(S) = Cardinality(S)
BY Zenon DEF P!Cardinality, Cardinality

(* A list that is waited for is that of the page chosen, so one is at most. *)
LEMMA PageTypes == PagesIInv => P!TypeOK
<1> SUFFICES ASSUME PagesIInv PROVE P!TypeOK
  OBVIOUS
<1>1. \A l \in lists : l.live => l = [page |-> pageId, live |-> TRUE]
  BY DEF PagesIInv, PagesTyped, ListsAreOfThePage
<1>2. Cardinality({l \in lists : l.live}) <= 1
  BY <1>1, OneIsWaitedFor
<1>3. PagesTyped
  BY DEF PagesIInv
<1> QED
  BY <1>2, <1>3, PagesCount, Zenon DEF PagesTyped, P!TypeOK

----------------------------------------------------------------------------
(* The filters of a pull: the one query waited for is of the pages chosen,  *)
(* so what has settled is what is observed on them.                         *)

QueriesAreOfPages == \A q \in queries : q.live => q.of = picked

SettledInScope ==
  F!Settled => offered \subseteq F!CampaignsOf(picked) /\ chosen \subseteq F!CampaignsOf(picked)

FilterTyped ==
  /\ picked \subseteq PullPages
  /\ offered \subseteq F!AllCampaigns /\ chosen \subseteq F!AllCampaigns
  /\ queries \subseteq [of: SUBSET PullPages, live: BOOLEAN]

FilterIInv == FilterTyped /\ QueriesAreOfPages /\ SettledInScope /\ F!PullsStayInScope

LEMMA FilterInit == F!Init => FilterIInv
BY DEF F!Init, FilterIInv, FilterTyped, QueriesAreOfPages, SettledInScope, F!Settled,
       F!PullsStayInScope

(* What any pages offer is observed on some page.                           *)
LEMMA CampaignsOfPages ==
  ASSUME NEW of \in SUBSET PullPages
  PROVE  F!CampaignsOf(of) \subseteq F!AllCampaigns
BY DEF F!CampaignsOf, F!AllCampaigns

LEMMA FilterNext == FilterIInv /\ [F!Next]_filterVars => FilterIInv'
<1> SUFFICES ASSUME FilterIInv, [F!Next]_filterVars
             PROVE  FilterIInv'
  OBVIOUS
<1> USE DEF FilterIInv
<1>1. ASSUME NEW of \in SUBSET PullPages, F!SetPages(of)
      PROVE  FilterIInv'
  <2> DEFINE query == [of |-> of, live |-> TRUE]
  <2>1. queries' = {[q EXCEPT !.live = FALSE] : q \in queries} \cup {query}
    BY <1>1 DEF F!SetPages, F!Query
  <2>2. ASSUME NEW q \in queries
        PROVE  /\ [q EXCEPT !.live = FALSE] \in [of: SUBSET PullPages, live: BOOLEAN]
               /\ ~[q EXCEPT !.live = FALSE].live
    BY DEF FilterTyped
  <2>3. query \in [of: SUBSET PullPages, live: BOOLEAN] /\ query.of = of /\ query.live
    OBVIOUS
  <2> HIDE DEF query
  <2>4. /\ \A e \in queries' : e \in [of: SUBSET PullPages, live: BOOLEAN]
        /\ \A e \in queries' \ {query} : ~e.live
    BY <2>1, <2>2, <2>3
  <2>5. FilterTyped'
    <3>1. queries' \subseteq [of: SUBSET PullPages, live: BOOLEAN]
      BY <2>4
    <3>2. picked' = of /\ offered' = offered /\ chosen' = chosen
      BY <1>1 DEF F!SetPages
    <3> QED
      BY <3>1, <3>2 DEF FilterTyped, F!AllCampaigns
  <2>6. QueriesAreOfPages'
    BY <1>1, <2>3, <2>4 DEF F!SetPages, QueriesAreOfPages
  <2>7. ~F!Settled'
    BY <2>1, <2>3 DEF F!Settled
  <2> QED
    BY <1>1, <2>5, <2>6, <2>7 DEF F!SetPages, SettledInScope, F!PullsStayInScope
<1>2. ASSUME NEW campaign \in SUBSET F!AllCampaigns, F!SetCampaigns(campaign)
      PROVE  FilterIInv'
  BY <1>2 DEF F!SetCampaigns, FilterTyped, QueriesAreOfPages, SettledInScope, F!Settled,
              F!PullsStayInScope
<1>3. ASSUME NEW q \in queries, F!CampaignsAnswer(q)
      PROVE  FilterIInv'
  <2>1. q.of \in SUBSET PullPages
    BY DEF FilterTyped
  <2>2. F!CampaignsOf(q.of) \subseteq F!AllCampaigns
    BY <2>1, CampaignsOfPages
  <2>3. FilterTyped'
    BY <1>3, <2>2 DEF F!CampaignsAnswer, FilterTyped
  <2>4. QueriesAreOfPages'
    BY <1>3 DEF F!CampaignsAnswer, QueriesAreOfPages
  <2>5. SettledInScope'
    <3>1. CASE q.live
      BY <1>3, <3>1 DEF F!CampaignsAnswer, SettledInScope, QueriesAreOfPages
    <3>2. CASE ~q.live
      BY <1>3, <3>2 DEF F!CampaignsAnswer, SettledInScope, F!Settled
    <3> QED
      BY <3>1, <3>2
  <2> QED
    BY <1>3, <2>3, <2>4, <2>5 DEF F!CampaignsAnswer, F!PullsStayInScope
<1>4. ASSUME NEW q \in queries, F!CampaignsFail(q)
      PROVE  FilterIInv'
  BY <1>4 DEF F!CampaignsFail, FilterTyped, QueriesAreOfPages, SettledInScope, F!Settled,
              F!PullsStayInScope
<1>5. CASE F!HandleSubmit
  BY <1>5 DEF F!HandleSubmit, FilterTyped, QueriesAreOfPages, SettledInScope, F!Settled,
              F!PullsStayInScope
<1>6. ASSUME \/ F!Unlock
             \/ \E m \in {"pages", "campaign"} : F!SetMode(m)
             \/ \E w \in {"none", "since", "both", "empty"} : F!SetWindow(w)
             \/ UNCHANGED filterVars
      PROVE  FilterIInv'
  <2>1. /\ UNCHANGED <<picked, offered, chosen, queries, unlisted>>
        /\ asked' = asked \/ asked' = None
    BY <1>6 DEF F!Unlock, F!SetMode, F!SetWindow, filterVars
  <2> QED
    BY <2>1 DEF FilterTyped, QueriesAreOfPages, SettledInScope, F!Settled, F!PullsStayInScope
<1> QED
  BY <1>1, <1>2, <1>3, <1>4, <1>5, <1>6 DEF F!Next

(* Likewise the query waited for is that of the pages chosen.               *)
LEMMA FilterCounts == \A S : F!Cardinality(S) = Cardinality(S)
BY Zenon DEF F!Cardinality, Cardinality

LEMMA FilterTypes == FilterIInv => F!TypeOK
<1> SUFFICES ASSUME FilterIInv PROVE F!TypeOK
  OBVIOUS
<1>1. \A q \in queries : q.live => q = [of |-> picked, live |-> TRUE]
  BY DEF FilterIInv, FilterTyped, QueriesAreOfPages
<1>2. Cardinality({q \in queries : q.live}) <= 1
  BY <1>1, OneIsWaitedFor
<1>3. FilterTyped
  BY DEF FilterIInv
<1> QED
  BY <1>2, <1>3, FilterCounts, Zenon DEF FilterTyped, F!TypeOK

----------------------------------------------------------------------------
(* The lead pull: whatever names another run starts a poller, and a poller  *)
(* stops only on a status that ends the run, so the property is inductive.  *)

LEMMA PullInit == Q!Init => Q!StartedWorkIsFollowed
BY DEF Q!Init, Q!StartedWorkIsFollowed

LEMMA PollersPoll ==
  ASSUME NEW phase \in {"asking", "read", "armed"}, NEW status
  PROVE  Q!Poller(phase, status) # Q!Off
<1>1. Q!Poller(phase, status).phase # Q!Off.phase
  BY DEF Q!Poller, Q!Off
<1> QED
  BY <1>1

(* Another run is followed from its first poll on.                          *)
LEMMA FollowPolls ==
  ASSUME NEW r, Q!Follow(r), UNCHANGED accepted
  PROVE  Q!StartedWorkIsFollowed'
<1>1. Q!Asking # Q!Off
  BY PollersPoll DEF Q!Asking
<1> QED
  BY <1>1 DEF Q!Follow, Q!StartedWorkIsFollowed, Q!Polling

LEMMA RepollPolls ==
  ASSUME Q!Repoll, UNCHANGED runId
  PROVE  Q!StartedWorkIsFollowed'
<1>1. Q!Asking # Q!Off
  BY PollersPoll DEF Q!Asking
<1> QED
  BY <1>1 DEF Q!Repoll, Q!StartedWorkIsFollowed, Q!Polling

LEMMA PullNext ==
  Q!StartedWorkIsFollowed /\ [Q!Next]_pullVars => Q!StartedWorkIsFollowed'
<1> SUFFICES ASSUME Q!StartedWorkIsFollowed, [Q!Next]_pullVars
             PROVE  Q!StartedWorkIsFollowed'
  OBVIOUS
<1>1. ASSUME UNCHANGED <<runId, run, poll, accepted, reopened>>
      PROVE  Q!StartedWorkIsFollowed'
  BY <1>1 DEF Q!StartedWorkIsFollowed, Q!Polling
<1>2. ASSUME NEW r \in Runs, Q!Work(r) \/ Q!Elsewhere(r) \/ Q!StartRun(r)
      PROVE  Q!StartedWorkIsFollowed'
  BY <1>1, <1>2 DEF Q!Work, Q!Elsewhere, Q!StartRun, Q!Ask, Q!screen
<1>3. CASE Q!PollReads \/ Q!PollFails \/ Q!PollAgain
  <2>1. poll' # Q!Off
    BY <1>3, PollersPoll DEF Q!PollReads, Q!PollFails, Q!PollAgain, Q!Asking
  <2> QED
    BY <2>1 DEF Q!StartedWorkIsFollowed, Q!Polling
<1>4. CASE Q!PollSees
  <2>1. CASE poll.status \in Q!Terminal
    <3>1. run' \notin Q!Live \cup {None} /\ accepted' = None
      BY <1>4, <2>1 DEF Q!PollSees, Q!Terminal, Q!Live
    <3> QED
      BY <3>1 DEF Q!StartedWorkIsFollowed
  <2>2. CASE poll.status \notin Q!Terminal
    <3>1. poll' # Q!Off
      BY <1>4, <2>2, PollersPoll DEF Q!PollSees
    <3> QED
      BY <3>1 DEF Q!StartedWorkIsFollowed, Q!Polling
  <2> QED
    BY <2>1, <2>2
<1>5. CASE Q!PollMisses
  BY <1>5 DEF Q!PollMisses, Q!StartedWorkIsFollowed
<1>6. CASE Q!CreateAnswer
  BY <1>1, <1>6, FollowPolls DEF Q!CreateAnswer
<1>7. CASE Q!JumpToLiveRun
  BY <1>7, FollowPolls DEF Q!JumpToLiveRun
<1>8. CASE Q!StartAnother
  BY <1>8, FollowPolls DEF Q!StartAnother
<1>9. CASE Q!HandleApply
  BY <1>1, <1>9 DEF Q!HandleApply, Q!Ask
<1>10. CASE Q!ApplyAnswer
  BY <1>10, RepollPolls DEF Q!ApplyAnswer
<1>11. ASSUME NEW r \in Runs \cup {None}, Q!OpenScheduledRun(r)
       PROVE  Q!StartedWorkIsFollowed'
  BY <1>1, <1>11 DEF Q!OpenScheduledRun, Q!Ask
<1>12. CASE Q!ScheduledAnswer
  BY <1>1, <1>12, FollowPolls DEF Q!ScheduledAnswer
<1>13. CASE Q!HandleMappingSaved
  BY <1>1, <1>13 DEF Q!HandleMappingSaved, Q!Ask
<1>14. CASE Q!RemapAnswer
  BY <1>1, <1>14, RepollPolls DEF Q!RemapAnswer
<1>15. CASE UNCHANGED pullVars
  BY <1>1, <1>15 DEF pullVars
<1> QED
  BY <1>2, <1>3, <1>4, <1>5, <1>6, <1>7, <1>8, <1>9, <1>10, <1>11, <1>12, <1>13, <1>14, <1>15
     DEF Q!Next

\* The run followed is polled, and no other one.
PollTyped ==
  /\ runId \in Runs \cup {None} /\ run \in Q!Live \cup Q!Terminal \cup {None}
  /\ poll.status \in Q!Live \cup Q!Terminal \cup {None}
  /\ runId = None => run = None /\ poll = Q!Off

RequestsTyped ==
  /\ DOMAIN requests = Q!Kinds
  /\ \A k \in Q!Kinds : requests[k].asked \in Runs \cup {None}

PullTyped ==
  /\ pulls \in [Runs -> Q!Live \cup Q!Terminal \cup {None}]
  /\ conflict \in Runs \cup {None}
  /\ PollTyped /\ RequestsTyped

LEMMA PullTypes == PullTyped => Q!TypeOK
BY DEF PullTyped, PollTyped, RequestsTyped, Q!TypeOK

LEMMA PullTypedInit == Q!Init => PullTyped
BY DEF Q!Init, PullTyped, PollTyped, RequestsTyped, Q!Off, Q!Poller, Q!Quiet

LEMMA FollowKeepsPoll ==
  ASSUME PollTyped, NEW r \in Runs \cup {None}, Q!Follow(r)
  PROVE  PollTyped'
BY DEF PollTyped, Q!Follow, Q!Asking, Q!Off, Q!Poller

LEMMA RepollKeepsPoll ==
  ASSUME PollTyped, Q!Repoll, UNCHANGED <<runId, run>>
  PROVE  PollTyped'
BY DEF PollTyped, Q!Repoll, Q!Asking, Q!Off, Q!Poller

LEMMA AskKeepsRequests ==
  ASSUME RequestsTyped, NEW k \in Q!Kinds, NEW r \in Runs \cup {None}, NEW answer,
         requests' = [requests EXCEPT ![k] = [asked |-> r, answer |-> answer]]
  PROVE  RequestsTyped'
BY DEF RequestsTyped

LEMMA AnswerKeepsRequests ==
  ASSUME RequestsTyped, NEW k \in Q!Kinds, requests' = [requests EXCEPT ![k] = Q!Quiet]
  PROVE  RequestsTyped'
BY AskKeepsRequests DEF Q!Quiet

LEMMA StartKeepsPulls ==
  ASSUME PullTyped, NEW r, Q!Start(r)
  PROVE  pulls' \in [Runs -> Q!Live \cup Q!Terminal \cup {None}]
BY DEF PullTyped, Q!Start, Q!Live, Q!Terminal

LEMMA PullTypedNext == PullTyped /\ [Q!Next]_pullVars => PullTyped'
<1> SUFFICES ASSUME PullTyped, [Q!Next]_pullVars
             PROVE  PullTyped'
  OBVIOUS
<1>1. ASSUME UNCHANGED <<runId, run, poll>>
      PROVE  PollTyped'
  BY <1>1 DEF PullTyped, PollTyped
<1>2. ASSUME UNCHANGED requests
      PROVE  RequestsTyped'
  BY <1>2 DEF PullTyped, RequestsTyped
<1>3. PollTyped /\ RequestsTyped
  BY DEF PullTyped
<1>4. ASSUME NEW r \in Runs, Q!Work(r)
      PROVE  PullTyped'
  <2>1. PICK status \in Q!NextStatus(pulls[r]) : pulls' = [pulls EXCEPT ![r] = status]
    BY <1>4 DEF Q!Work
  <2>2. Q!NextStatus(pulls[r]) \subseteq Q!Live \cup Q!Terminal
    <3>1. CASE pulls[r] = "running"
      BY <3>1 DEF Q!NextStatus, Q!Terminal
    <3>2. CASE pulls[r] = "applying"
      BY <3>2 DEF Q!NextStatus, Q!Terminal
    <3>3. CASE pulls[r] # "running" /\ pulls[r] # "applying"
      BY <3>3 DEF Q!NextStatus
    <3> QED
      BY <3>1, <3>2, <3>3
  <2>3. pulls' \in [Runs -> Q!Live \cup Q!Terminal \cup {None}]
    BY <2>1, <2>2 DEF PullTyped
  <2>4. UNCHANGED <<runId, run, poll, requests, conflict>>
    BY <1>4 DEF Q!Work, Q!screen
  <2> QED
    BY <1>1, <1>2, <2>3, <2>4 DEF PullTyped
<1>5. ASSUME NEW r \in Runs, Q!Elsewhere(r)
      PROVE  PullTyped'
  <2>1. UNCHANGED <<runId, run, poll, requests, conflict>>
    BY <1>5 DEF Q!Elsewhere, Q!screen
  <2>2. Q!Start(r) \/ pulls' = [pulls EXCEPT ![r] = "applying"]
    BY <1>5 DEF Q!Elsewhere
  <2>3. pulls' \in [Runs -> Q!Live \cup Q!Terminal \cup {None}]
    BY <2>2, StartKeepsPulls DEF PullTyped, Q!Live
  <2> QED
    BY <1>1, <1>2, <2>1, <2>3 DEF PullTyped
<1>6. ASSUME NEW r \in Runs, Q!StartRun(r)
      PROVE  PullTyped'
  <2>1. /\ UNCHANGED <<runId, run, poll>> /\ conflict' = None
        /\ \/ requests' = [requests EXCEPT !["create"] = [asked |-> r, answer |-> "ok"]]
           \/ requests' = [requests EXCEPT !["create"] = [asked |-> r, answer |-> "conflict"]]
    BY <1>6 DEF Q!StartRun, Q!Ask
  <2>2. Q!Start(r) \/ UNCHANGED pulls
    BY <1>6 DEF Q!StartRun
  <2>3. pulls' \in [Runs -> Q!Live \cup Q!Terminal \cup {None}]
    BY <2>2, StartKeepsPulls DEF PullTyped
  <2>4. RequestsTyped'
    BY <1>3, <2>1, AskKeepsRequests DEF Q!Kinds
  <2> QED
    BY <1>1, <2>1, <2>3, <2>4 DEF PullTyped
<1>7. CASE Q!PollReads \/ Q!PollSees \/ Q!PollMisses \/ Q!PollFails \/ Q!PollAgain
  <2>1. UNCHANGED <<pulls, requests, conflict>>
    BY <1>7 DEF Q!PollReads, Q!PollSees, Q!PollMisses, Q!PollFails, Q!PollAgain, Q!service
  <2>2. Q!Off.phase = "off"
    BY DEF Q!Off, Q!Poller
  <2>3. CASE Q!PollReads
    <3>1. runId \in Runs
      BY <1>3, <2>2, <2>3 DEF Q!PollReads, PollTyped
    <3>2. pulls[runId] \in Q!Live \cup Q!Terminal \cup {None}
      BY <3>1 DEF PullTyped
    <3>3. PollTyped'
      BY <1>3, <2>2, <2>3, <3>2 DEF Q!PollReads, PollTyped, Q!Poller
    <3> QED
      BY <1>2, <2>1, <3>3 DEF PullTyped
  <2>4. CASE Q!PollSees \/ Q!PollMisses \/ Q!PollFails \/ Q!PollAgain
    <3>1. PollTyped'
      BY <1>3, <2>2, <2>4
         DEF Q!PollSees, Q!PollMisses, Q!PollFails, Q!PollAgain, Q!Asking, Q!Poller, Q!Off,
             PollTyped
    <3> QED
      BY <1>2, <2>1, <3>1 DEF PullTyped
  <2> QED
    BY <1>7, <2>3, <2>4
<1>8. CASE Q!CreateAnswer
  <2>1. requests' = [requests EXCEPT !["create"] = Q!Quiet] /\ UNCHANGED pulls
    BY <1>8 DEF Q!CreateAnswer, Q!service
  <2>2. RequestsTyped'
    BY <1>3, <2>1, AnswerKeepsRequests DEF Q!Kinds
  <2>3. requests["create"].asked \in Runs \cup {None}
    BY <1>3 DEF RequestsTyped, Q!Kinds
  <2>4. conflict' \in Runs \cup {None}
    BY <1>8, <2>3 DEF Q!CreateAnswer, PullTyped
  <2>5. Q!Follow(requests["create"].asked) \/ UNCHANGED <<runId, run, poll>>
    BY <1>8 DEF Q!CreateAnswer
  <2>6. PollTyped'
    BY <1>1, <1>3, <2>3, <2>5, FollowKeepsPoll
  <2> QED
    BY <2>1, <2>2, <2>4, <2>6 DEF PullTyped
<1>9. CASE Q!JumpToLiveRun \/ Q!StartAnother
  <2>1. UNCHANGED <<pulls, requests>> /\ conflict' \in {None, conflict}
    BY <1>9 DEF Q!JumpToLiveRun, Q!StartAnother, Q!service
  <2>2. \E r \in Runs \cup {None} : Q!Follow(r)
    BY <1>9 DEF Q!JumpToLiveRun, Q!StartAnother, PullTyped
  <2>3. PollTyped'
    BY <1>3, <2>2, FollowKeepsPoll
  <2> QED
    BY <1>2, <2>1, <2>3 DEF PullTyped
<1>10. CASE Q!HandleApply
  <2>1. /\ UNCHANGED <<runId, run, poll, conflict>>
        /\ \/ requests' = [requests EXCEPT !["apply"] = [asked |-> runId, answer |-> "ok"]]
           \/ requests' = [requests EXCEPT !["apply"] = [asked |-> runId, answer |-> "refused"]]
        /\ pulls' = pulls \/ pulls' = [pulls EXCEPT ![runId] = "applying"]
    BY <1>10 DEF Q!HandleApply, Q!Ask
  <2>2. pulls' \in [Runs -> Q!Live \cup Q!Terminal \cup {None}]
    BY <2>1 DEF PullTyped, Q!Live
  <2>3. runId \in Runs \cup {None}
    BY <1>3 DEF PollTyped
  <2>4. RequestsTyped'
    BY <1>3, <2>1, <2>3, AskKeepsRequests DEF Q!Kinds
  <2> QED
    BY <1>1, <2>1, <2>2, <2>4 DEF PullTyped
<1>11. CASE Q!ApplyAnswer \/ Q!RemapAnswer
  <2>1. /\ UNCHANGED <<pulls, runId, run, conflict>>
        /\ \E k \in Q!Kinds : requests' = [requests EXCEPT ![k] = Q!Quiet]
        /\ Q!Repoll \/ UNCHANGED poll
    BY <1>11 DEF Q!ApplyAnswer, Q!RemapAnswer, Q!service, Q!Kinds
  <2>2. RequestsTyped'
    BY <1>3, <2>1, AnswerKeepsRequests
  <2>3. PollTyped'
    BY <1>1, <1>3, <2>1, RepollKeepsPoll
  <2> QED
    BY <2>1, <2>2, <2>3 DEF PullTyped
<1>12. ASSUME NEW r \in Runs \cup {None}, Q!OpenScheduledRun(r)
       PROVE  PullTyped'
  <2>1. /\ UNCHANGED <<pulls, runId, run, poll, conflict>>
        /\ requests' = [requests EXCEPT !["scheduled"] = [asked |-> r, answer |-> "ok"]]
    BY <1>12 DEF Q!OpenScheduledRun, Q!Ask
  <2>2. RequestsTyped'
    BY <1>3, <2>1, AskKeepsRequests DEF Q!Kinds
  <2> QED
    BY <1>1, <2>1, <2>2 DEF PullTyped
<1>13. CASE Q!ScheduledAnswer
  <2>1. UNCHANGED <<pulls, conflict>> /\ requests' = [requests EXCEPT !["scheduled"] = Q!Quiet]
    BY <1>13 DEF Q!ScheduledAnswer, Q!service
  <2>2. RequestsTyped'
    BY <1>3, <2>1, AnswerKeepsRequests DEF Q!Kinds
  <2>3. requests["scheduled"].asked \in Runs \cup {None}
    BY <1>3 DEF RequestsTyped, Q!Kinds
  <2>4. Q!Follow(requests["scheduled"].asked) \/ UNCHANGED <<runId, run, poll>>
    BY <1>13 DEF Q!ScheduledAnswer
  <2>5. PollTyped'
    BY <1>1, <1>3, <2>3, <2>4, FollowKeepsPoll
  <2> QED
    BY <2>1, <2>2, <2>5 DEF PullTyped
<1>14. CASE Q!HandleMappingSaved
  <2>1. /\ UNCHANGED <<pulls, runId, run, poll, conflict>>
        /\ requests' = [requests EXCEPT !["remap"] = [asked |-> runId, answer |-> "ok"]]
    BY <1>14 DEF Q!HandleMappingSaved, Q!Ask
  <2>2. runId \in Runs \cup {None}
    BY <1>3 DEF PollTyped
  <2>3. RequestsTyped'
    BY <1>3, <2>1, <2>2, AskKeepsRequests DEF Q!Kinds
  <2> QED
    BY <1>1, <2>1, <2>3 DEF PullTyped
<1>15. CASE UNCHANGED pullVars
  BY <1>1, <1>2, <1>15 DEF pullVars, PullTyped
<1> QED
  BY <1>4, <1>5, <1>6, <1>7, <1>8, <1>9, <1>10, <1>11, <1>12, <1>13, <1>14, <1>15 DEF Q!Next

\* A preview on display is of the filters and the batch on display, and so is
\* a request on its way: whatever changes either discards the one and waits
\* for the other.
PreviewIsCurrent == preview # None => preview.of = A!Body
RequestIsCurrent == request # None => request.of = A!Body

RerunIInv == PreviewIsCurrent /\ RequestIsCurrent /\ A!RunsArePreviewed

(* The page opens with nothing previewed and nothing asked.                 *)
LEMMA RerunInit == A!Init => RerunIInv
BY DEF A!Init, RerunIInv, PreviewIsCurrent, RequestIsCurrent, A!RunsArePreviewed

(* Every step keeps the invariant.                                          *)
LEMMA RerunNext == RerunIInv /\ [A!Next]_rerunVars => RerunIInv'
<1> SUFFICES ASSUME RerunIInv, [A!Next]_rerunVars
             PROVE  RerunIInv'
  OBVIOUS
<1> USE DEF RerunIInv, PreviewIsCurrent, RequestIsCurrent, A!RunsArePreviewed, A!Body
<1>1. ASSUME NEW f \in Filters, A!Toggle(f)
      PROVE  RerunIInv'
  BY <1>1 DEF A!Toggle, A!ToggleOffered
<1>2. CASE A!RunPreview
  BY <1>2 DEF A!RunPreview
<1>3. CASE A!RunForReal
  BY <1>3 DEF A!RunForReal, A!AssignOffered
<1>4. ASSUME NEW n \in 0..1, A!Answer(n)
      PROVE  RerunIInv'
  BY <1>4 DEF A!Answer
<1>5. CASE A!Fail
  BY <1>5 DEF A!Fail
<1>6. CASE A!ResetBatches
  BY <1>6 DEF A!ResetBatches, A!StartOverOffered
<1>7. CASE UNCHANGED rerunVars
  BY <1>7 DEF rerunVars
<1> QED
  BY <1>1, <1>2, <1>3, <1>4, <1>5, <1>6, <1>7 DEF A!Next

(* The cursor stays below the number of batches; what was previewed is of   *)
(* filters and a cursor the page may have.                                  *)
RerunTyped ==
  /\ filters \subseteq Filters /\ cursor \in A!Cursor
  /\ preview # None => preview \in A!Result

LEMMA RerunTypes == RerunIInv /\ RerunTyped => A!TypeOK
BY DEF RerunIInv, RequestIsCurrent, RerunTyped, A!TypeOK

LEMMA RerunTypedInit == A!Init => RerunTyped
BY BoundsAssumption DEF A!Init, RerunTyped, A!Cursor

LEMMA RerunTypedNext == RerunIInv /\ RerunTyped /\ [A!Next]_rerunVars => RerunTyped'
<1> SUFFICES ASSUME RerunIInv, RerunTyped, [A!Next]_rerunVars
             PROVE  RerunTyped'
  OBVIOUS
<1> USE DEF RerunTyped
<1>1. Batches \in Nat /\ Batches > 0
  BY BoundsAssumption
<1>2. 0 \in A!Cursor
  BY <1>1 DEF A!Cursor
<1>3. ASSUME NEW f \in Filters, A!Toggle(f)
      PROVE  RerunTyped'
  BY <1>2, <1>3 DEF A!Toggle
<1>4. ASSUME NEW n \in 0..1, A!Answer(n)
      PROVE  RerunTyped'
  <2>1. request.of = [filters |-> filters, cursor |-> cursor]
    BY <1>4 DEF A!Answer, RerunIInv, RequestIsCurrent, A!Body
  <2>2. [of |-> request.of, assigned |-> n] \in A!Result
    BY <2>1 DEF A!Result
  <2>3. (cursor + 1) % Batches \in A!Cursor
    BY <1>1 DEF A!Cursor
  <2>4. (request.of.cursor + 1) % Batches \in A!Cursor
    BY <2>1, <2>3
  <2> QED
    BY <1>4, <2>2, <2>4 DEF A!Answer
<1>5. CASE A!RunPreview \/ A!RunForReal \/ A!Fail \/ A!ResetBatches
  BY <1>2, <1>5 DEF A!RunPreview, A!RunForReal, A!Fail, A!ResetBatches
<1>6. CASE UNCHANGED rerunVars
  BY <1>6 DEF rerunVars
<1> QED
  BY <1>3, <1>4, <1>5, <1>6 DEF A!Next

----------------------------------------------------------------------------
(* The token dialogs: a request on its way is of the dialog that is open,   *)
(* for the token it is open for, so the answer finds it.                    *)

KeyCall ==
  [kind: K!Kinds, token: Tokens \cup {None}, grant: Grants \cup {None},
   state: {"asked", "done", "refused"}, made: Tokens \cup {None}]

KeysTyped ==
  /\ tokens \in [Tokens -> K!Row \cup {None}] /\ listed \in [Tokens -> K!Row \cup {None}]
  /\ \A t \in Tokens : listed[t] # None => tokens[t] # None
  /\ sheet \in K!Kinds \cup {"closed"}
  /\ sheet \in {"closed", "create"} => subject = None
  /\ sheet \notin {"closed", "create"} => subject \in Tokens /\ tokens[subject] # None
  /\ entered \in Grants \cup {None}
  /\ shown # None => sheet \in {"create", "rotate"} /\ call = None
  /\ minted \subseteq Tokens /\ met \cup lost \subseteq minted

CallsAreOfTheSheet ==
  call # None =>
    /\ call \in KeyCall
    /\ call.kind = sheet /\ call.token = subject
    /\ call.kind \in {"create", "edit"} => call.grant # None
    /\ call.made # None => call.kind \in {"create", "rotate"} /\ call.state # "asked"
    /\ call.state = "done" /\ call.kind \in {"create", "rotate"} => call.made # None
    /\ call.made \in minted \cup {None}

KeysIInv == KeysTyped /\ CallsAreOfTheSheet /\ K!KeysAreShownToTheirMaker

LEMMA KeysInit == K!Init => KeysIInv
BY DEF K!Init, K!Row, KeysIInv, KeysTyped, CallsAreOfTheSheet, K!KeysAreShownToTheirMaker

(* A row that is written is a row, and a row that was there stays one.      *)
RowsStay(table) ==
  /\ table \in [Tokens -> K!Row \cup {None}]
  /\ \A t \in Tokens : tokens[t] # None => table[t] # None

LEMMA RevokedRowsStay ==
  ASSUME KeysTyped, NEW t \in Tokens, tokens[t] # None
  PROVE  RowsStay(K!AsOf(t)) /\ K!AsOf(t)[t] # None
<1>1. tokens[t] \in K!Row
  BY DEF KeysTyped
<1>2. [tokens[t] EXCEPT !.live = FALSE] \in K!Row
  BY <1>1 DEF K!Row
<1> QED
  BY <1>2, KeysAssumption DEF KeysTyped, RowsStay, K!AsOf

LEMMA GrantedRowsStay ==
  ASSUME KeysTyped, NEW t \in Tokens, tokens[t] # None, NEW g \in Grants
  PROVE  RowsStay([tokens EXCEPT ![t].grant = g])
<1>1. tokens[t] \in K!Row
  BY DEF KeysTyped
<1>2. [tokens[t] EXCEPT !.grant = g] \in K!Row
  BY <1>1 DEF K!Row
<1> QED
  BY <1>2, KeysAssumption DEF KeysTyped, RowsStay

(* An opened dialog has no request yet.                                     *)
LEMMA OpenKeepsKeys ==
  ASSUME KeysIInv, NEW kind \in K!Kinds, NEW token \in Tokens \cup {None},
         NEW grant \in Grants \cup {None}, K!Open(kind, token, grant),
         IF kind = "create" THEN token = None ELSE token # None /\ tokens[token] # None
  PROVE  KeysIInv'
<1>1. call = None
  BY DEF K!Open, KeysIInv, CallsAreOfTheSheet, KeyCall, K!Kinds
<1>2. shown = None
  BY DEF K!Open, KeysIInv, KeysTyped
<1> QED
  BY <1>1, <1>2 DEF K!Open, KeysIInv, KeysTyped, CallsAreOfTheSheet,
                    K!KeysAreShownToTheirMaker, K!Kinds

LEMMA SubmitKeepsKeys ==
  ASSUME KeysIInv, NEW grant \in Grants \cup {None}, K!Submit(grant), sheet \in K!Kinds,
         sheet \in {"create", "edit"} => grant # None, shown = None
  PROVE  KeysIInv'
<1>1. /\ call = None /\ call' = K!Call(sheet, subject, grant)
      /\ UNCHANGED <<tokens, listed, sheet, subject, entered, shown, minted, met, lost>>
  BY DEF K!Submit
<1>2. subject \in Tokens \cup {None}
  BY DEF KeysIInv, KeysTyped
<1>3. /\ call' \in KeyCall /\ call'.kind = sheet /\ call'.token = subject
      /\ call'.grant = grant /\ call'.made = None /\ call'.state = "asked"
  BY <1>1, <1>2 DEF K!Call, KeyCall
<1>4. KeysTyped'
  BY <1>1 DEF KeysIInv, KeysTyped
<1>5. CallsAreOfTheSheet'
  BY <1>1, <1>3 DEF CallsAreOfTheSheet
<1>6. K!KeysAreShownToTheirMaker'
  BY <1>1 DEF KeysIInv, K!KeysAreShownToTheirMaker
<1> QED
  BY <1>4, <1>5, <1>6 DEF KeysIInv

(* The service does as it was asked: a key it makes is on the way.          *)
LEMMA ServeKeepsKeys ==
  ASSUME KeysIInv, NEW made \in Tokens \cup {None}, NEW state \in {"done", "refused"},
         call # None, call.state = "asked", K!Served(state, made),
         made # None => call.kind \in {"create", "rotate"},
         state = "done" /\ call.kind \in {"create", "rotate"} => made # None,
         minted' = minted \cup ({made} \ {None}),
         RowsStay(tokens'),
         UNCHANGED <<listed, sheet, subject, entered, shown, met, lost>>
  PROVE  KeysIInv'
<1>1. call \in KeyCall /\ call' = [call EXCEPT !.state = state, !.made = made]
  BY DEF K!Served, KeysIInv, CallsAreOfTheSheet
<1>2. /\ call' \in KeyCall /\ call'.kind = call.kind /\ call'.token = call.token
      /\ call'.grant = call.grant /\ call'.made = made /\ call'.state = state
  BY <1>1 DEF KeyCall
<1>3. call' # None
  BY <1>2, KeysAssumption DEF KeyCall
<1>4. KeysTyped'
  BY DEF KeysIInv, KeysTyped, RowsStay
<1>5. CallsAreOfTheSheet'
  BY <1>2 DEF KeysIInv, CallsAreOfTheSheet
<1>6. call.made = None
  BY DEF KeysIInv, CallsAreOfTheSheet
<1>7. K!KeysAreShownToTheirMaker'
  <2>1. \A t \in minted : t \in met \cup lost
    BY <1>6, KeysAssumption DEF KeysIInv, KeysTyped, K!KeysAreShownToTheirMaker
  <2> QED
    BY <1>2, <1>3, <2>1 DEF K!KeysAreShownToTheirMaker
<1> QED
  BY <1>4, <1>5, <1>7 DEF KeysIInv

LEMMA KeysNext == KeysIInv /\ [K!Next]_keyVars => KeysIInv'
<1> SUFFICES ASSUME KeysIInv, [K!Next]_keyVars
             PROVE  KeysIInv'
  OBVIOUS
<1>1. CASE K!OpenCreate
  BY <1>1, OpenKeepsKeys DEF K!OpenCreate, K!Kinds
<1>2. ASSUME NEW t \in Tokens, NEW kind \in K!Kinds \ {"create"}, K!OpenFor(kind, t)
      PROVE  KeysIInv'
  <2>1. listed[t] # None /\ K!Open(kind, t, IF kind = "edit" THEN listed[t].grant ELSE None)
    BY <1>2 DEF K!OpenFor, K!ActionsOffered
  <2>2. tokens[t] # None /\ t # None /\ listed[t].grant \in Grants
    BY <2>1, KeysAssumption DEF KeysIInv, KeysTyped, K!Row
  <2> QED
    BY <2>1, <2>2, OpenKeepsKeys
<1>3. CASE K!HandleClose
  BY <1>3 DEF K!HandleClose, K!CloseOffered, KeysIInv, KeysTyped, CallsAreOfTheSheet,
              K!KeysAreShownToTheirMaker
<1>4. ASSUME NEW t \in Tokens, K!Elsewhere(t)
      PROVE  KeysIInv'
  <2>1. RowsStay(tokens')
    <3>1. CASE tokens' = K!AsOf(t)
      BY <1>4, <3>1, RevokedRowsStay DEF K!Elsewhere, KeysIInv
    <3>2. ASSUME NEW g \in Grants, tokens' = [tokens EXCEPT ![t].grant = g]
          PROVE  RowsStay(tokens')
      BY <1>4, <3>2, GrantedRowsStay DEF K!Elsewhere, KeysIInv
    <3> QED
      BY <1>4, <3>1, <3>2 DEF K!Elsewhere
  <2> QED
    BY <1>4, <2>1 DEF K!Elsewhere, RowsStay, KeysIInv, KeysTyped, CallsAreOfTheSheet,
                      K!KeysAreShownToTheirMaker
<1>5. ASSUME NEW g \in Grants \cup {None}, K!SetCreateForm(g) \/ K!SetEditForm(g)
      PROVE  KeysIInv'
  BY <1>5 DEF K!SetCreateForm, K!SetEditForm, K!Enter, KeysIInv, KeysTyped, CallsAreOfTheSheet,
              K!KeysAreShownToTheirMaker
<1>6. CASE K!SubmitCreate \/ K!SubmitEdit
  <2>1. entered \in Grants /\ K!Submit(entered) /\ sheet \in {"create", "edit"}
    BY <1>6 DEF K!SubmitCreate, K!SubmitEdit, K!CreateFormShown, K!EditFormShown, KeysIInv,
                KeysTyped
  <2>2. shown = None
    BY <1>6 DEF K!SubmitCreate, K!SubmitEdit, K!CreateFormShown, K!EditFormShown, KeysIInv,
                KeysTyped
  <2>3. PICK grant \in Grants : grant = entered
    BY <2>1
  <2>4. K!Submit(grant) /\ grant # None
    BY <2>1, <2>3, <1>6 DEF K!SubmitCreate, K!SubmitEdit
  <2> QED
    BY <2>1, <2>2, <2>4, SubmitKeepsKeys DEF K!Kinds
<1>7. CASE K!HandleRotate \/ K!HandleRevoke
  <2>1. K!Submit(None) /\ sheet \in {"rotate", "revoke"} /\ shown = None
    BY <1>7 DEF K!HandleRotate, K!HandleRevoke, KeysIInv, KeysTyped
  <2> QED
    BY <2>1, SubmitKeepsKeys DEF K!Kinds
<1>8. CASE K!Serve
  <2>1. UNCHANGED <<listed, sheet, subject, entered, shown, met, lost>>
    BY <1>8 DEF K!Serve
  <2>2. ASSUME call # None
        PROVE  /\ call \in KeyCall /\ call.kind = sheet /\ call.token = subject
               /\ call.kind \in {"create", "edit"} => call.grant \in Grants
               /\ call.kind # "create" => call.token \in Tokens /\ tokens[call.token] # None
    BY <2>2 DEF KeysIInv, KeysTyped, CallsAreOfTheSheet, KeyCall, K!Kinds
  <2>3. ASSUME NEW new \in Tokens, K!Create(new)
        PROVE  KeysIInv'
    <3>1. call # None /\ call.state = "asked" /\ call.kind = "create" /\ new # None
      BY <2>3, KeysAssumption DEF K!Create, K!Asked
    <3>2. [grant |-> call.grant, live |-> TRUE] \in K!Row
      BY <2>2, <3>1 DEF K!Row
    <3>3. tokens' = [tokens EXCEPT ![new] = [grant |-> call.grant, live |-> TRUE]]
      BY <2>3 DEF K!Create
    <3>4. RowsStay(tokens')
      BY <3>2, <3>3, KeysAssumption DEF KeysIInv, KeysTyped, RowsStay
    <3> QED
      BY <2>1, <2>3, <3>1, <3>4, ServeKeepsKeys DEF K!Create
  <2>4. ASSUME NEW new \in Tokens, K!Rotate(new)
        PROVE  KeysIInv'
    <3>1. call # None /\ call.state = "asked" /\ call.kind = "rotate" /\ new # None
      BY <2>4, KeysAssumption DEF K!Rotate, K!Asked
    <3>2. call.token \in Tokens /\ tokens[call.token] # None
      BY <2>2, <3>1
    <3>3. RowsStay(K!AsOf(call.token))
      BY <3>2, RevokedRowsStay DEF KeysIInv
    <3>4. tokens[call.token].grant \in Grants
      BY <3>2 DEF KeysIInv, KeysTyped, K!Row
    <3>5. [grant |-> tokens[call.token].grant, live |-> TRUE] \in K!Row
      BY <3>4 DEF K!Row
    <3>6. tokens' = [K!AsOf(call.token) EXCEPT ![new] =
                       [grant |-> tokens[call.token].grant, live |-> TRUE]]
      BY <2>4 DEF K!Rotate
    <3>7. RowsStay(tokens')
      BY <3>3, <3>5, <3>6, KeysAssumption DEF RowsStay
    <3> QED
      BY <2>1, <2>4, <3>1, <3>7, ServeKeepsKeys DEF K!Rotate
  <2>5. ASSUME K!Update \/ K!Revoke
        PROVE  KeysIInv'
    <3>1. call # None /\ call.state = "asked" /\ call.kind \in {"edit", "revoke"}
          /\ K!Served("done", None) /\ minted' = minted
      BY <2>5 DEF K!Update, K!Revoke, K!Asked
    <3>2. call.token \in Tokens /\ tokens[call.token] # None
          /\ (call.kind = "edit" => call.grant \in Grants)
      BY <2>2, <3>1
    <3>3. RowsStay(tokens')
      <4>1. CASE K!Update
        <5>1. call.grant \in Grants /\ tokens' = [tokens EXCEPT ![call.token].grant = call.grant]
          BY <4>1, <3>2 DEF K!Update, K!Asked
        <5> QED
          BY <3>2, <5>1, GrantedRowsStay DEF KeysIInv
      <4>2. CASE K!Revoke
        BY <3>2, <4>2, RevokedRowsStay DEF K!Revoke, KeysIInv
      <4> QED
        BY <2>5, <4>1, <4>2
    <3> QED
      BY <2>1, <3>1, <3>3, ServeKeepsKeys
  <2>6. ASSUME K!Refuse
        PROVE  KeysIInv'
    <3>1. RowsStay(tokens')
      BY <2>6 DEF K!Refuse, RowsStay, KeysIInv, KeysTyped
    <3> QED
      BY <2>1, <2>6, <3>1, ServeKeepsKeys DEF K!Refuse
  <2> QED
    BY <1>8, <2>3, <2>4, <2>5, <2>6 DEF K!Serve
<1>9. CASE K!Answer
  <2>1. /\ call # None /\ call' = None /\ call.kind = sheet /\ call.token = subject
        /\ call.made # None => call.kind \in {"create", "rotate"}
        /\ call.made \in minted \cup {None}
        /\ UNCHANGED <<tokens, listed, minted, lost>>
    BY <1>9 DEF K!Answer, KeysIInv, CallsAreOfTheSheet
  <2>2. CASE call.kind \in {"create", "rotate"}
    <3>1. shown' = call.made /\ met' = met \cup {call.made}
          /\ UNCHANGED <<sheet, subject, entered>>
      BY <1>9, <2>1, <2>2 DEF K!Answer
    <3>2. call.made \in minted
      BY <1>9, <2>1, <2>2 DEF K!Answer, KeysIInv, CallsAreOfTheSheet
    <3>3. KeysTyped'
      BY <2>1, <2>2, <3>1, <3>2 DEF KeysIInv, KeysTyped
    <3> QED
      BY <2>1, <3>1, <3>3 DEF KeysIInv, CallsAreOfTheSheet, K!KeysAreShownToTheirMaker
  <2>3. CASE call.kind \notin {"create", "rotate"}
    <3>1. sheet' = "closed" /\ subject' = None /\ entered' = None /\ UNCHANGED <<shown, met>>
      BY <1>9, <2>3 DEF K!Answer
    <3>2. shown = None
      BY <2>1 DEF KeysIInv, KeysTyped
    <3>3. \A t \in minted : t \in met \cup lost
      BY <2>1, <2>3, KeysAssumption DEF KeysIInv, KeysTyped, K!KeysAreShownToTheirMaker
    <3> QED
      BY <2>1, <3>1, <3>2, <3>3
         DEF KeysIInv, KeysTyped, CallsAreOfTheSheet, K!KeysAreShownToTheirMaker
  <2> QED
    BY <2>2, <2>3
<1>10. CASE K!NoAnswer
  <2>1. /\ call # None /\ call' = None /\ lost' = lost \cup ({call.made} \ {None})
        /\ UNCHANGED <<tokens, listed, sheet, subject, entered, shown, minted, met>>
    BY <1>10 DEF K!NoAnswer
  <2>2. call.made \in minted \cup {None}
    BY <2>1 DEF KeysIInv, CallsAreOfTheSheet
  <2>3. KeysTyped'
    BY <2>1, <2>2 DEF KeysIInv, KeysTyped
  <2> QED
    BY <2>1, <2>3, KeysAssumption
       DEF KeysIInv, KeysTyped, CallsAreOfTheSheet, K!KeysAreShownToTheirMaker
<1>11. CASE K!Refresh \/ UNCHANGED keyVars
  BY <1>11 DEF K!Refresh, keyVars, KeysIInv, KeysTyped, CallsAreOfTheSheet,
               K!KeysAreShownToTheirMaker
<1> QED
  BY <1>1, <1>2, <1>3, <1>4, <1>5, <1>6, <1>7, <1>8, <1>9, <1>10, <1>11 DEF K!Next

(* The dialog is open for a token unless it makes one.                      *)
LEMMA KeyTypes == KeysIInv => K!TypeOK
<1> SUFFICES ASSUME KeysIInv PROVE K!TypeOK
  OBVIOUS
<1>1. subject = None <=> sheet \in {"closed", "create"}
  BY KeysAssumption DEF KeysIInv, KeysTyped
<1> QED
  BY <1>1 DEF KeysIInv, KeysTyped, K!TypeOK

----------------------------------------------------------------------------
(* The team form.  The draft departs from the member as loaded only where   *)
(* the administrator touched it, and the list of heirs is empty as soon as  *)
(* it is known that the member's role works no leads.                       *)

EditsAMember == who # None /\ who.kind = "edit"

FormTyped ==
  /\ who \in Members \cup {None}
  /\ DOMAIN assigned = Branches
  /\ heir \in Heirs \cup {None} /\ lastHeir \in Heirs \cup {None}

DraftIsAsLoaded ==
  EditsAMember =>
    /\ existing = "loaded" => \A b \in Branches \ touched : assigned[b] = who.held[b]
    /\ "home" \in touched \/ home = who.home
    /\ "home" \in touched \/ "manager" \in touched \/ manager = who.manager

\* Nothing of the branches is saved before they are in.
UnloadedIsUnsent ==
  EditsAMember /\ sent # None /\ existing = "loading" => sent.assignments = Omitted

NobodyToHandOverTo ==
  EditsAMember /\ who.product /\ ~U!HoldsLeads(existing, roleList) => heirs = {}

FormIInv ==
  /\ FormTyped /\ DraftIsAsLoaded /\ UnloadedIsUnsent /\ NobodyToHandOverTo
  /\ U!UntouchedFieldsStay /\ U!LeadsAreNeverForgotten

LEMMA FormInit == U!Init => FormIInv
BY DEF U!Init, U!NoRows, FormIInv, FormTyped, DraftIsAsLoaded, UnloadedIsUnsent,
       NobodyToHandOverTo, EditsAMember, U!UntouchedFieldsStay,
       U!LeadsAreNeverForgotten, U!Edits

(* An edit of the draft records what it touches.                            *)
LEMMA EditKeepsForm ==
  ASSUME FormIInv, NEW what, U!Edit(what), DOMAIN assigned' = Branches,
         EditsAMember => \A b \in Branches \ touched' : assigned'[b] = assigned[b],
         EditsAMember => "home" \in touched' \/ home' = home,
         EditsAMember => "manager" \in touched' \/ manager' = manager
  PROVE  FormIInv'
<1>1. /\ touched' = touched \cup what
      /\ UNCHANGED <<who, existing, roleList, heirs, heir, lastHeir, filled, sent>>
  BY DEF U!Edit, U!panels
<1>2. FormTyped'
  BY <1>1 DEF FormIInv, FormTyped
<1>3. DraftIsAsLoaded'
  BY <1>1 DEF FormIInv, DraftIsAsLoaded, EditsAMember
<1>4. UnloadedIsUnsent'
  BY <1>1 DEF FormIInv, UnloadedIsUnsent, EditsAMember
<1>5. NobodyToHandOverTo'
  BY <1>1 DEF FormIInv, NobodyToHandOverTo, EditsAMember, U!HoldsLeads
<1>6. U!UntouchedFieldsStay'
  BY <1>1 DEF FormIInv, U!UntouchedFieldsStay, U!Edits
<1>7. U!LeadsAreNeverForgotten'
  BY <1>1 DEF FormIInv, U!LeadsAreNeverForgotten, U!Edits
<1> QED
  BY <1>2, <1>3, <1>4, <1>5, <1>6, <1>7 DEF FormIInv

\* What an edit may send.
Faithful(patch) ==
  /\ existing = "loading" => patch.assignments = Omitted
  /\ patch.assignments # Omitted /\ existing = "loaded" =>
       /\ \A b \in Branches \ touched : patch.assignments[b] = who.held[b]
       /\ "home" \in touched \/ patch.home = who.home
       /\ "home" \in touched \/ "manager" \in touched \/ patch.manager = Omitted

Leaves(patch) ==
  \/ /\ patch.assignments # Omitted /\ patch.home # who.home
     /\ patch.assignments[who.home] = None
  \/ patch.active = FALSE

NamesAnHeir(patch) ==
  who.product /\ Leaves(patch) =>
    patch.heir # Omitted /\ (patch.heir = None => heirs \in {{}, Failed})

LEMMA SendKeepsForm ==
  ASSUME FormIInv, NEW patch, U!Send(patch),
         EditsAMember => Faithful(patch) /\ NamesAnHeir(patch)
  PROVE  FormIInv'
<1>1. /\ sent' = patch
      /\ UNCHANGED <<who, assigned, home, manager, existing, roleList, managers, heirs, heir,
                     lastHeir, touched>>
  BY DEF U!Send, U!draft, U!loads
<1>2. FormTyped'
  BY <1>1 DEF FormIInv, FormTyped
<1>3. DraftIsAsLoaded'
  BY <1>1 DEF FormIInv, DraftIsAsLoaded, EditsAMember
<1>4. UnloadedIsUnsent'
  BY <1>1 DEF UnloadedIsUnsent, EditsAMember, Faithful
<1>5. NobodyToHandOverTo'
  BY <1>1 DEF FormIInv, NobodyToHandOverTo, EditsAMember, U!HoldsLeads
<1>6. U!UntouchedFieldsStay'
  BY <1>1 DEF U!UntouchedFieldsStay, U!Edits, EditsAMember, Faithful
<1>7. U!LeadsAreNeverForgotten'
  BY <1>1 DEF U!LeadsAreNeverForgotten, U!Edits, EditsAMember, NamesAnHeir, Leaves
<1> QED
  BY <1>2, <1>3, <1>4, <1>5, <1>6, <1>7 DEF FormIInv

(* A load that comes in leaves what was sent alone, and heirs only go.      *)
LEMMA LoadKeepsForm ==
  ASSUME FormIInv, UNCHANGED <<who, heir, lastHeir, filled, sent, touched>>,
         FormTyped', DraftIsAsLoaded', NobodyToHandOverTo',
         heirs \in {{}, Failed} => heirs' \in {{}, Failed},
         existing' = "loaded" => existing \in {"loading", "loaded"},
         existing' = "loading" => existing = "loading"
  PROVE  FormIInv'
<1>1. UnloadedIsUnsent'
  BY DEF FormIInv, UnloadedIsUnsent, EditsAMember
<1>2. U!UntouchedFieldsStay'
  BY DEF FormIInv, UnloadedIsUnsent, EditsAMember, U!UntouchedFieldsStay, U!Edits
<1>3. U!LeadsAreNeverForgotten'
  BY DEF FormIInv, U!LeadsAreNeverForgotten, U!Edits
<1> QED
  BY <1>1, <1>2, <1>3 DEF FormIInv

(* The patch of an edit.                                                    *)
LEMMA EditPatchIsSafe ==
  ASSUME FormIInv, EditsAMember, U!LeavingHomeBranch => U!HeirSettled(heir)
  PROVE  Faithful(U!EditPatch) /\ NamesAnHeir(U!EditPatch)
<1>0. Omitted \notin Heirs \cup {None} /\ Omitted # FALSE
  BY FormAssumption
<1>1. CASE existing = "loading"
  <2>1. U!EditPatch.assignments = Omitted /\ U!EditPatch.active = Omitted
    BY <1>1 DEF U!EditPatch, U!Nothing
  <2> QED
    BY <1>0, <1>1, <2>1 DEF Faithful, NamesAnHeir, Leaves
<1>2. CASE existing # "loading"
  <2>1. /\ U!EditPatch.assignments = assigned /\ U!EditPatch.home = home
        /\ U!EditPatch.manager =
             IF home # who.home \/ manager # who.manager THEN manager ELSE Omitted
        /\ U!EditPatch.heir = IF U!LeavingHomeBranch THEN heir
                              ELSE IF who.product /\ U!LeavingBranch THEN None ELSE Omitted
        /\ U!EditPatch.active = Omitted
    BY <1>2 DEF U!EditPatch, U!Nothing
  <2>2. Faithful(U!EditPatch)
    BY <1>2, <2>1 DEF Faithful, FormIInv, DraftIsAsLoaded
  <2>3. NamesAnHeir(U!EditPatch)
    <3> SUFFICES ASSUME who.product, Leaves(U!EditPatch)
                 PROVE  /\ U!EditPatch.heir # Omitted
                        /\ U!EditPatch.heir = None => heirs \in {{}, Failed}
      BY DEF NamesAnHeir
    <3>1. U!LeavingBranch
      BY <1>0, <2>1 DEF Leaves, U!LeavingBranch
    <3>2. CASE U!HoldsLeads(existing, roleList)
      BY <1>0, <2>1, <3>1, <3>2 DEF U!LeavingHomeBranch, U!HeirSettled, U!HeirList, FormIInv, FormTyped
    <3>3. CASE ~U!HoldsLeads(existing, roleList)
      BY <1>0, <2>1, <3>1, <3>3 DEF U!LeavingHomeBranch, FormIInv, NobodyToHandOverTo
    <3> QED
      BY <3>2, <3>3
  <2> QED
    BY <2>2, <2>3
<1> QED
  BY <1>1, <1>2

(* A deactivation says who takes the leads over.                            *)
LEMMA DeactivationIsSafe ==
  ASSUME NEW h, who.product => h # Omitted /\ (h = None => heirs \in {{}, Failed})
  PROVE  Faithful(U!Deactivation(h)) /\ NamesAnHeir(U!Deactivation(h))
<1>1. U!Deactivation(h).assignments = Omitted /\ U!Deactivation(h).heir = h
  BY DEF U!Deactivation, U!Nothing
<1> QED
  BY <1>1 DEF Faithful, NamesAnHeir

LEMMA FormNext == FormIInv /\ [U!Next]_formVars => FormIInv'
<1> SUFFICES ASSUME FormIInv, [U!Next]_formVars
             PROVE  FormIInv'
  OBVIOUS
<1>0. /\ DOMAIN assigned = Branches /\ Loading \notin {{}, Failed}
      /\ Omitted \notin Heirs \cup {None} /\ Omitted # FALSE
      /\ EditsAMember => ~U!Creates
  BY FormAssumption DEF FormIInv, FormTyped, EditsAMember, U!Creates
<1>1. ASSUME NEW m \in Members, U!Open(m)
      PROVE  FormIInv'
  <2>1. /\ who' = m /\ existing' = "loading" /\ roleList' = "loading"
        /\ home' = m.home /\ manager' = m.manager /\ heir' = None /\ lastHeir' = None
        /\ sent' = None /\ DOMAIN assigned' = Branches
    BY <1>1 DEF U!Open, U!Fallback, U!NoRows
  <2>2. FormTyped' /\ DraftIsAsLoaded' /\ UnloadedIsUnsent'
    BY <2>1 DEF FormTyped, DraftIsAsLoaded, UnloadedIsUnsent
  <2>3. NobodyToHandOverTo'
    BY <2>1 DEF NobodyToHandOverTo, U!HoldsLeads
  <2> QED
    BY <2>1, <2>2, <2>3
       DEF FormIInv, U!UntouchedFieldsStay, U!LeadsAreNeverForgotten, U!Edits
<1>2. CASE U!Close
  BY <1>2 DEF U!Close, U!draft, U!loads, U!panels, FormIInv, FormTyped, DraftIsAsLoaded,
              UnloadedIsUnsent, NobodyToHandOverTo, EditsAMember,
              U!UntouchedFieldsStay, U!LeadsAreNeverForgotten, U!Edits
<1>3. ASSUME NEW outcome \in {"loaded", "failed"}, U!MappingsAnswer(outcome)
      PROVE  FormIInv'
  <2>1. /\ who # None /\ existing = "loading" /\ existing' = outcome
        /\ assigned' = IF outcome = "loaded" THEN who.held ELSE U!NoRows
        /\ home' = who.home /\ heirs' = U!HeirsFor(outcome, roleList)
        /\ UNCHANGED <<who, manager, roleList, heir, lastHeir, filled, sent, touched>>
    BY <1>3 DEF U!MappingsAnswer, U!panels
  <2>2. DOMAIN who.held = Branches
    BY <2>1, FormAssumption DEF FormIInv, FormTyped, U!Member
  <2>3. FormTyped' /\ DraftIsAsLoaded'
    BY <2>1, <2>2 DEF FormIInv, FormTyped, DraftIsAsLoaded, EditsAMember, U!NoRows
  <2>4. NobodyToHandOverTo'
    BY <2>1 DEF NobodyToHandOverTo, U!HeirsFor, U!HoldsLeads
  <2> QED
    BY <2>1, <2>3, <2>4, LoadKeepsForm DEF U!HeirsFor
<1>4. ASSUME NEW outcome \in {"ready", "failed"}, U!RolesAnswer(outcome)
      PROVE  FormIInv'
  <2>1. /\ who # None /\ roleList' = outcome
        /\ heirs' = IF U!Creates THEN {} ELSE U!HeirsFor(existing, outcome)
        /\ UNCHANGED <<who, assigned, home, manager, existing, heir, lastHeir, filled, sent, touched>>
    BY <1>4 DEF U!RolesAnswer, U!panels, U!draft
  <2>2. FormTyped' /\ DraftIsAsLoaded'
    BY <2>1 DEF FormIInv, FormTyped, DraftIsAsLoaded, EditsAMember
  <2>3. NobodyToHandOverTo'
    BY <2>1 DEF NobodyToHandOverTo, U!HeirsFor, U!HoldsLeads
  <2> QED
    BY <2>1, <2>2, <2>3, LoadKeepsForm DEF U!HeirsFor
<1>5. ASSUME NEW outcome, U!HeirsAre(outcome)
      PROVE  FormIInv'
  <2>1. /\ heirs = Loading
        /\ UNCHANGED <<who, assigned, home, manager, existing, roleList, heir, lastHeir, filled,
                       sent, touched>>
    BY <1>5 DEF U!HeirsAre, U!panels, U!draft
  <2>2. FormTyped' /\ DraftIsAsLoaded'
    BY <2>1 DEF FormIInv, FormTyped, DraftIsAsLoaded, EditsAMember
  <2>3. NobodyToHandOverTo'
    BY <1>0, <2>1 DEF FormIInv, NobodyToHandOverTo, EditsAMember, U!HoldsLeads
  <2> QED
    BY <1>0, <2>1, <2>2, <2>3, LoadKeepsForm
<1>6. ASSUME NEW list \in SUBSET Managers, U!ManagersAnswer(list)
      PROVE  FormIInv'
  <2>1. /\ manager' = manager \/ home # who.home
        /\ UNCHANGED <<who, assigned, home, existing, roleList, heirs, heir, lastHeir, filled,
                       sent, touched>>
    BY <1>6 DEF U!ManagersAnswer, U!ShouldClearManager, U!panels
  <2>2. FormTyped' /\ DraftIsAsLoaded'
    BY <2>1 DEF FormIInv, FormTyped, DraftIsAsLoaded, EditsAMember
  <2>3. NobodyToHandOverTo'
    BY <2>1 DEF FormIInv, NobodyToHandOverTo, EditsAMember, U!HoldsLeads
  <2> QED
    BY <2>1, <2>2, <2>3, LoadKeepsForm
<1>7. ASSUME NEW b \in Branches, U!AddBranch(b)
      PROVE  FormIInv'
  <2>1. /\ U!Edit({b} \cup IF U!Held(assigned) = {} THEN {"home"} ELSE {})
        /\ home' = IF U!Held(assigned) = {} THEN b ELSE home
        /\ UNCHANGED manager
        /\ DOMAIN assigned' = Branches
        /\ \A c \in Branches \ {b} : assigned'[c] = assigned[c]
    BY <1>0, <1>7 DEF U!AddBranch, U!HomeIs
  <2>2. b \in touched' /\ (U!Held(assigned) = {} => "home" \in touched')
    BY <2>1 DEF U!Edit
  <2> QED
    BY <2>1, <2>2, EditKeepsForm
<1>8. ASSUME NEW b \in Branches, U!SetHome(b)
      PROVE  FormIInv'
  <2>1. U!Edit({"home"}) /\ UNCHANGED <<assigned, manager>>
    BY <1>8 DEF U!SetHome, U!HomeIs
  <2>2. "home" \in touched'
    BY <2>1 DEF U!Edit
  <2> QED
    BY <1>0, <2>1, <2>2, EditKeepsForm
<1>9. ASSUME NEW b \in Branches, NEW next \in Branches \cup {None}, U!RemoveBranch(b, next)
      PROVE  FormIInv'
  <2>1. /\ U!Edit({b} \cup IF b = home THEN {"home"} ELSE {})
        /\ UNCHANGED manager
        /\ DOMAIN assigned' = Branches
        /\ ~U!Creates => /\ home' = IF b = home THEN next ELSE home
                         /\ \A c \in Branches \ {b} : assigned'[c] = assigned[c]
    BY <1>0, <1>9 DEF U!RemoveBranch, U!HomeIs, U!Fallback, U!NoRows
  <2>2. b \in touched' /\ (b = home => "home" \in touched')
    BY <2>1 DEF U!Edit
  <2> QED
    BY <1>0, <2>1, <2>2, EditKeepsForm
<1>10. ASSUME NEW b \in Branches, UNCHANGED <<home, manager>>, U!Edit({b}),
              DOMAIN assigned' = Branches,
              \A c \in Branches \ {b} : assigned'[c] = assigned[c]
       PROVE  FormIInv'
  <2>1. b \in touched'
    BY <1>10 DEF U!Edit
  <2> QED
    BY <1>10, <2>1, EditKeepsForm
<1>11. ASSUME NEW b \in Branches, NEW r, U!SetRole(b, r)
       PROVE  FormIInv'
  BY <1>0, <1>10, <1>11 DEF U!SetRole
<1>12. ASSUME NEW b \in Branches, NEW t, U!RemoveType(b, t)
       PROVE  FormIInv'
  BY <1>0, <1>10, <1>12 DEF U!RemoveType
<1>13. ASSUME NEW b \in Branches, NEW t, NEW n, U!SetWeight(b, t, n)
       PROVE  FormIInv'
  BY <1>0, <1>10, <1>13 DEF U!SetWeight
<1>14. ASSUME NEW m, U!PickManager(m)
       PROVE  FormIInv'
  <2>1. U!Edit({"manager"}) /\ UNCHANGED <<assigned, home>>
    BY <1>14 DEF U!PickManager
  <2>2. "manager" \in touched'
    BY <2>1 DEF U!Edit
  <2> QED
    BY <1>0, <2>1, <2>2, EditKeepsForm
<1>15. ASSUME UNCHANGED <<who, assigned, home, manager, existing, roleList, heirs, sent, touched>>,
              heir' \in Heirs \cup {None}, lastHeir' \in Heirs \cup {None},
              filled' => filled
       PROVE  FormIInv'
  BY <1>15 DEF FormIInv, FormTyped, DraftIsAsLoaded, UnloadedIsUnsent, NobodyToHandOverTo,
               EditsAMember, U!HoldsLeads, U!UntouchedFieldsStay,
               U!LeadsAreNeverForgotten, U!Edits
<1>16. ASSUME NEW h \in Heirs, U!PickHeir(h)
       PROVE  FormIInv'
  BY <1>15, <1>16 DEF U!PickHeir, U!draft, U!loads, FormIInv, FormTyped
<1>17. CASE U!Save
  <2>1. U!Send(U!EditPatch) /\ (U!LeavingHomeBranch => U!HeirSettled(heir))
    BY <1>17 DEF U!Save
  <2> QED
    BY <2>1, EditPatchIsSafe, SendKeepsForm
<1>18. CASE U!Create
  <2>1. ~EditsAMember
    BY <1>0, <1>18 DEF U!Create, U!CreateFormShown
  <2>2. PICK patch : U!Send(patch)
    BY <1>18 DEF U!Create
  <2> QED
    BY <2>1, <2>2, SendKeepsForm
<1>19. CASE U!ToggleActive
  <2>1. CASE U!Send([U!Nothing EXCEPT !.active = TRUE])
    <3>1. /\ [U!Nothing EXCEPT !.active = TRUE].assignments = Omitted
          /\ [U!Nothing EXCEPT !.active = TRUE].active # FALSE
      BY DEF U!Nothing
    <3>2. /\ Faithful([U!Nothing EXCEPT !.active = TRUE])
          /\ NamesAnHeir([U!Nothing EXCEPT !.active = TRUE])
      BY <3>1 DEF Faithful, NamesAnHeir, Leaves
    <3> QED
      BY <2>1, <3>2, SendKeepsForm
  <2>2. CASE ~who.product /\ U!Send(U!Deactivation(Omitted))
    BY <2>2, DeactivationIsSafe, SendKeepsForm
  <2>3. CASE ~U!HoldsLeads(existing, roleList) /\ U!Send(U!Deactivation(None))
    <3>1. EditsAMember => (who.product => None # Omitted /\ heirs = {})
      BY <1>0, <2>3 DEF FormIInv, NobodyToHandOverTo
    <3> QED
      BY <2>3, <3>1, DeactivationIsSafe, SendKeepsForm
  <2>4. CASE UNCHANGED <<who, U!draft, U!loads, heir, lastHeir, filled, sent, touched, edits>>
    BY <1>15, <2>4 DEF U!draft, U!loads, FormIInv, FormTyped
  <2> QED
    BY <1>19, <2>1, <2>2, <2>3, <2>4 DEF U!ToggleActive
<1>20. CASE U!ConfirmDeactivate
  <2>1. U!Send(U!Deactivation(lastHeir)) /\ lastHeir # Omitted
        /\ (lastHeir = None => heirs \in {{}, Failed})
    BY <1>0, <1>20 DEF U!ConfirmDeactivate, U!HeirSettled, U!HeirList, FormIInv, FormTyped
  <2> QED
    BY <2>1, DeactivationIsSafe, SendKeepsForm
<1>21. CASE U!CancelDeactivate
  BY <1>15, <1>21 DEF U!CancelDeactivate, U!draft, U!loads, FormIInv, FormTyped
<1>22. CASE U!AnswerStay
  BY <1>15, <1>22 DEF U!AnswerStay, U!draft, U!loads, U!panels, FormIInv, FormTyped
<1>23. CASE U!AnswerSaved
  BY <1>23 DEF U!AnswerSaved, U!draft, U!loads, U!panels, FormIInv, FormTyped,
               DraftIsAsLoaded, UnloadedIsUnsent, NobodyToHandOverTo, EditsAMember,
               U!UntouchedFieldsStay, U!LeadsAreNeverForgotten, U!Edits
<1>24. CASE UNCHANGED formVars
  BY <1>15, <1>24 DEF formVars, FormIInv, FormTyped
<1> QED
  BY <1>1, <1>2, <1>3, <1>4, <1>5, <1>6, <1>7, <1>8, <1>9, <1>11, <1>12, <1>13, <1>14,
     <1>16, <1>17, <1>18, <1>19, <1>20, <1>21, <1>22, <1>23, <1>24
     DEF U!Next, U!HeirsAnswer, U!HeirsFail

(* The draft holds rows of branches, and what was loaded is of its kind.     *)
DraftTyped ==
  /\ assigned \in [Branches -> U!Row]
  /\ home \in Branches \cup {None} /\ manager \in Managers \cup {None}
  /\ edits \in 0..MaxEdits

LoadsTyped ==
  /\ who \in Members \cup {None}
  /\ existing \in {"loading", "loaded", "failed"}
  /\ roleList \in {"loading", "ready", "failed"}
  /\ heirs \in {Loading, Failed} \/ heirs \subseteq Heirs

LEMMA FormTypes == DraftTyped /\ LoadsTyped => U!TypeOK
<1> SUFFICES ASSUME DraftTyped, LoadsTyped PROVE U!TypeOK
  OBVIOUS
<1>1. ASSUME NEW b \in U!Held(assigned)
      PROVE  /\ assigned[b].role \in FormRoles \cup {None}
             /\ \A t \in DOMAIN assigned[b].weights :
                  t \in WeightTypes /\ assigned[b].weights[t] \in 0..100
  <2>1. assigned[b] \in [role: FormRoles \cup {None}, weights: U!Weights]
    BY DEF U!Held, U!Row, DraftTyped
  <2>2. PICK S \in SUBSET WeightTypes : assigned[b].weights \in [S -> 0..100]
    BY <2>1 DEF U!Weights
  <2> QED
    BY <2>1, <2>2
<1> QED
  BY <1>1 DEF DraftTyped, LoadsTyped, U!TypeOK

LEMMA MemberParts ==
  ASSUME NEW m \in Members
  PROVE  /\ m.home \in Branches /\ m.manager \in Managers \cup {None}
         /\ m.held \in [Branches -> U!Row]
BY FormAssumption DEF U!Member

LEMMA NewRows ==
  /\ U!NoRows \in [Branches -> U!Row]
  /\ U!NoWeights \in U!Weights
  /\ \A b \in Branches : U!Fallback(b) \in [Branches -> U!Row]
<1>1. U!NoRows \in [Branches -> U!Row]
  BY DEF U!NoRows, U!Row
<1>2. U!NoWeights \in [{} -> 0..100]
  BY DEF U!NoWeights
<1>3. U!NoWeights \in U!Weights
  BY <1>2 DEF U!Weights
<1>4. [role |-> None, weights |-> U!NoWeights] \in U!Row
  BY <1>3 DEF U!Row
<1> QED
  BY <1>1, <1>3, <1>4 DEF U!Fallback

LEMMA FormTypedInit == U!Init => DraftTyped /\ LoadsTyped
<1> SUFFICES ASSUME U!Init PROVE DraftTyped /\ LoadsTyped
  OBVIOUS
<1>1. 0 \in 0..MaxEdits
  BY BoundsAssumption
<1> QED
  BY <1>1, NewRows DEF U!Init, DraftTyped, LoadsTyped

(* Where a weight is entered, and where it is taken out.                    *)
LEMMA WeightsStay ==
  ASSUME NEW weights \in U!Weights, NEW t \in WeightTypes, NEW n \in 0..100
  PROVE  /\ U!WithWeight(weights, t, n) \in U!Weights
         /\ [u \in DOMAIN weights \ {t} |-> weights[u]] \in U!Weights
<1>1. PICK S \in SUBSET WeightTypes : weights \in [S -> 0..100]
  BY DEF U!Weights
<1>2. S \cup {t} \in SUBSET WeightTypes /\ S \ {t} \in SUBSET WeightTypes
  OBVIOUS
<1>3. U!WithWeight(weights, t, n) \in [S \cup {t} -> 0..100]
  BY <1>1 DEF U!WithWeight
<1>4. [u \in DOMAIN weights \ {t} |-> weights[u]] \in [S \ {t} -> 0..100]
  BY <1>1
<1>5. \A pool \in SUBSET WeightTypes : [pool -> 0..100] \subseteq U!Weights
  BY DEF U!Weights
<1>6. /\ [S \cup {t} -> 0..100] \subseteq U!Weights
      /\ [S \ {t} -> 0..100] \subseteq U!Weights
  BY <1>2, <1>5
<1> QED
  BY <1>3, <1>4, <1>6

LEMMA RowsStayRows ==
  ASSUME DraftTyped, NEW b \in Branches, NEW row \in U!Row,
         assigned' = [assigned EXCEPT ![b] = row]
  PROVE  assigned' \in [Branches -> U!Row]
BY DEF DraftTyped

LEMMA EditsStayInBounds ==
  ASSUME DraftTyped, edits < MaxEdits, NEW what, U!Edit(what)
  PROVE  edits' \in 0..MaxEdits
<1>1. MaxEdits \in Nat
  BY BoundsAssumption
<1> QED
  BY <1>1 DEF DraftTyped, U!Edit

LEMMA DraftTypedNext ==
  FormIInv /\ DraftTyped /\ LoadsTyped /\ [U!Next]_formVars => DraftTyped'
<1> SUFFICES ASSUME FormIInv, DraftTyped, LoadsTyped, [U!Next]_formVars
             PROVE  DraftTyped'
  OBVIOUS
<1>1. ASSUME UNCHANGED U!draft, UNCHANGED edits
      PROVE  DraftTyped'
  BY <1>1 DEF DraftTyped, U!draft
<1>2. ASSUME who # None
      PROVE  who \in Members
  BY <1>2 DEF LoadsTyped
<1>3. ASSUME NEW m \in Members, U!Open(m)
      PROVE  DraftTyped'
  <2>1. /\ assigned' = U!Fallback(m.home) /\ home' = m.home /\ manager' = m.manager
        /\ edits' = 0
    BY <1>3 DEF U!Open
  <2>2. 0 \in 0..MaxEdits
    BY BoundsAssumption
  <2> QED
    BY <2>1, <2>2, MemberParts, NewRows DEF DraftTyped
<1>4. ASSUME NEW outcome, U!MappingsAnswer(outcome)
      PROVE  DraftTyped'
  <2>1. /\ who # None /\ assigned' \in {who.held, U!NoRows} /\ home' = who.home
        /\ UNCHANGED <<manager, edits>>
    BY <1>4 DEF U!MappingsAnswer
  <2> QED
    BY <1>2, <2>1, MemberParts, NewRows DEF DraftTyped
<1>5. ASSUME NEW list, U!ManagersAnswer(list)
      PROVE  DraftTyped'
  <2>1. /\ UNCHANGED <<assigned, home, edits>> /\ manager' \in {None, manager}
    BY <1>5 DEF U!ManagersAnswer
  <2> QED
    BY <2>1 DEF DraftTyped
<1>6. ASSUME U!Editable, who \in Members,
             assigned' \in [Branches -> U!Row], home' \in Branches \cup {None},
             manager' \in Managers \cup {None}, NEW what, U!Edit(what)
      PROVE  DraftTyped'
  <2>1. edits < MaxEdits
    BY <1>6 DEF U!Editable
  <2> QED
    BY <1>6, <2>1, EditsStayInBounds DEF DraftTyped
<1>7. ASSUME U!Editable
      PROVE  who \in Members /\ edits < MaxEdits
  BY <1>2, <1>7 DEF U!Editable, U!BranchesShown, U!CreateFormShown, U!EditFormShown
<1>8. ASSUME NEW b \in Branches, assigned[b] # None
      PROVE  assigned[b] \in [role: FormRoles \cup {None}, weights: U!Weights]
  BY <1>8 DEF DraftTyped, U!Row
<1>9. /\ assigned \in [Branches -> U!Row] /\ home \in Branches \cup {None}
      /\ manager \in Managers \cup {None}
  BY DEF DraftTyped
<1>10. ASSUME NEW b \in Branches, U!AddBranch(b)
       PROVE  DraftTyped'
  <2> DEFINE r == IF home # None /\ assigned[home] # None THEN assigned[home].role ELSE None
  <2>1. r \in FormRoles \cup {None}
    BY <1>8, <1>9
  <2>2. [role |-> r, weights |-> U!NoWeights] \in U!Row
    BY <2>1, NewRows DEF U!Row
  <2>3. assigned' = [assigned EXCEPT ![b] = [role |-> r, weights |-> U!NoWeights]]
    BY <1>10 DEF U!AddBranch
  <2> HIDE DEF r
  <2>4. assigned' \in [Branches -> U!Row]
    BY <2>2, <2>3, RowsStayRows
  <2>5. U!Editable /\ home' \in {b, home} /\ manager' = manager
    BY <1>10 DEF U!AddBranch, U!HomeIs
  <2>6. \E what : U!Edit(what)
    BY <1>10, Zenon DEF U!AddBranch
  <2> QED
    BY <1>6, <1>7, <1>9, <2>4, <2>5, <2>6
<1>11. ASSUME NEW b \in Branches, NEW next \in Branches \cup {None}, U!RemoveBranch(b, next)
       PROVE  DraftTyped'
  <2>1. U!Editable /\ who \in Members /\ (\E what : U!Edit(what)) /\ manager' = manager
    BY <1>7, <1>11, Zenon DEF U!RemoveBranch, U!HomeIs
  <2>2. \/ assigned' = U!Fallback(who.home) /\ home' = who.home
        \/ assigned' = [assigned EXCEPT ![b] = None] /\ home' \in {next, home}
    BY <1>11 DEF U!RemoveBranch, U!HomeIs
  <2>3. None \in U!Row
    BY DEF U!Row
  <2>4. assigned' \in [Branches -> U!Row] /\ home' \in Branches \cup {None}
    BY <1>9, <2>1, <2>2, <2>3, MemberParts, NewRows
  <2> QED
    BY <1>6, <1>9, <2>1, <2>4
<1>12. ASSUME NEW b \in Branches, U!SetHome(b)
       PROVE  DraftTyped'
  <2>1. /\ U!Editable /\ U!Edit({"home"}) /\ home' = b
        /\ UNCHANGED <<assigned, manager>>
    BY <1>12 DEF U!SetHome, U!HomeIs
  <2> QED
    BY <1>6, <1>7, <1>9, <2>1
<1>13. ASSUME NEW b \in Branches, NEW r \in FormRoles, U!SetRole(b, r)
       PROVE  DraftTyped'
  <2>1. /\ U!Editable /\ U!Edit({b}) /\ assigned[b] # None
        /\ assigned' = [assigned EXCEPT ![b].role = r] /\ UNCHANGED <<home, manager>>
    BY <1>13 DEF U!SetRole
  <2>2. [assigned[b] EXCEPT !.role = r] \in U!Row
    BY <1>8, <2>1 DEF U!Row
  <2>3. assigned' = [assigned EXCEPT ![b] = [assigned[b] EXCEPT !.role = r]]
    BY <2>1
  <2>4. assigned' \in [Branches -> U!Row]
    BY <2>2, <2>3, RowsStayRows
  <2> QED
    BY <1>6, <1>7, <1>9, <2>1, <2>4
<1>14. ASSUME NEW b \in Branches, NEW weights \in U!Weights, assigned[b] # None, U!Editable,
              U!Edit({b}), assigned' = [assigned EXCEPT ![b].weights = weights],
              UNCHANGED <<home, manager>>
       PROVE  DraftTyped'
  <2>1. [assigned[b] EXCEPT !.weights = weights] \in U!Row
    BY <1>8, <1>14 DEF U!Row
  <2>2. assigned' = [assigned EXCEPT ![b] = [assigned[b] EXCEPT !.weights = weights]]
    BY <1>14
  <2>3. assigned' \in [Branches -> U!Row]
    BY <2>1, <2>2, RowsStayRows
  <2> QED
    BY <1>6, <1>7, <1>9, <1>14, <2>3
<1>15. ASSUME NEW b \in Branches, NEW t \in WeightTypes, U!RemoveType(b, t)
       PROVE  DraftTyped'
  <2> DEFINE left == [u \in DOMAIN assigned[b].weights \ {t} |-> assigned[b].weights[u]]
  <2>1. assigned[b] # None /\ assigned' = [assigned EXCEPT ![b].weights = left]
    BY <1>15 DEF U!RemoveType
  <2>2. assigned[b].weights \in U!Weights
    BY <1>8, <2>1
  <2>3. left \in U!Weights
    BY <2>2, WeightsStay, 0 \in 0..100
  <2>4. U!Editable /\ U!Edit({b}) /\ UNCHANGED <<home, manager>>
    BY <1>15 DEF U!RemoveType
  <2> HIDE DEF left
  <2> QED
    BY <1>14, <2>1, <2>3, <2>4
<1>16. ASSUME NEW b \in Branches, NEW t \in WeightTypes, NEW n \in EnteredWeights,
              U!SetWeight(b, t, n)
       PROVE  DraftTyped'
  <2> DEFINE given == U!WithWeight(assigned[b].weights, t, U!Clamped(n))
  <2>1. assigned[b] # None /\ assigned' = [assigned EXCEPT ![b].weights = given]
    BY <1>16 DEF U!SetWeight
  <2>2. U!Clamped(n) \in 0..100
    BY FormAssumption DEF U!Clamped
  <2>3. assigned[b].weights \in U!Weights
    BY <1>8, <2>1
  <2>4. given \in U!Weights
    BY <2>2, <2>3, WeightsStay
  <2>5. U!Editable /\ U!Edit({b}) /\ UNCHANGED <<home, manager>>
    BY <1>16 DEF U!SetWeight
  <2> HIDE DEF given
  <2> QED
    BY <1>14, <2>1, <2>4, <2>5
<1>17. ASSUME NEW m \in Managers \cup {None}, U!PickManager(m)
       PROVE  DraftTyped'
  <2>1. /\ edits < MaxEdits /\ U!Edit({"manager"}) /\ manager' = m
        /\ UNCHANGED <<assigned, home>>
    BY <1>17 DEF U!PickManager
  <2> QED
    BY <1>9, <2>1, EditsStayInBounds DEF DraftTyped
<1>18. CASE \/ U!Close \/ U!Save \/ U!Create \/ U!ToggleActive \/ U!ConfirmDeactivate
            \/ U!CancelDeactivate \/ U!AnswerStay \/ U!AnswerSaved
            \/ \E outcome \in {"ready", "failed"} : U!RolesAnswer(outcome)
            \/ \E outcome : U!HeirsAre(outcome)
            \/ \E h \in Heirs : U!PickHeir(h)
  BY <1>1, <1>18
     DEF U!Close, U!Save, U!Create, U!ToggleActive, U!ConfirmDeactivate, U!CancelDeactivate,
         U!AnswerStay, U!AnswerSaved, U!RolesAnswer, U!HeirsAre, U!PickHeir, U!Send
<1>19. CASE UNCHANGED formVars
  BY <1>1, <1>19 DEF formVars, U!draft
<1> QED
  BY <1>3, <1>4, <1>5, <1>10, <1>11, <1>12, <1>13, <1>15, <1>16, <1>17, <1>18, <1>19
     DEF U!Next, U!HeirsAnswer, U!HeirsFail

LEMMA LoadsTypedNext == LoadsTyped /\ [U!Next]_formVars => LoadsTyped'
<1> SUFFICES ASSUME LoadsTyped, [U!Next]_formVars
             PROVE  LoadsTyped'
  OBVIOUS
<1> USE DEF LoadsTyped
<1>1. ASSUME UNCHANGED <<who, existing, roleList, heirs>>
      PROVE  LoadsTyped'
  BY <1>1
<1>2. ASSUME NEW m \in Members, U!Open(m)
      PROVE  LoadsTyped'
  BY <1>2 DEF U!Open
<1>3. CASE U!Close \/ U!AnswerSaved
  BY <1>3 DEF U!Close, U!AnswerSaved, U!loads
<1>4. ASSUME NEW outcome \in {"loaded", "failed"}, U!MappingsAnswer(outcome)
      PROVE  LoadsTyped'
  BY <1>4 DEF U!MappingsAnswer, U!HeirsFor
<1>5. ASSUME NEW outcome \in {"ready", "failed"}, U!RolesAnswer(outcome)
      PROVE  LoadsTyped'
  BY <1>5 DEF U!RolesAnswer, U!HeirsFor
<1>6. ASSUME NEW outcome \in (SUBSET Heirs) \cup {Failed}, U!HeirsAre(outcome)
      PROVE  LoadsTyped'
  BY <1>6 DEF U!HeirsAre
<1>7. ASSUME NEW what, U!Edit(what)
      PROVE  LoadsTyped'
  BY <1>1, <1>7 DEF U!Edit
<1>8. CASE \/ \E b \in Branches : U!AddBranch(b) \/ U!SetHome(b)
           \/ \E b \in Branches, next \in Branches \cup {None} : U!RemoveBranch(b, next)
           \/ \E b \in Branches, r \in FormRoles : U!SetRole(b, r)
           \/ \E b \in Branches, t \in WeightTypes : U!RemoveType(b, t)
           \/ \E b \in Branches, t \in WeightTypes, n \in EnteredWeights : U!SetWeight(b, t, n)
           \/ \E m \in Managers \cup {None} : U!PickManager(m)
  <2>1. \E what : U!Edit(what)
    BY <1>8, Zenon
       DEF U!AddBranch, U!SetHome, U!RemoveBranch, U!SetRole, U!RemoveType, U!SetWeight,
           U!PickManager
  <2> QED
    BY <1>7, <2>1
<1>9. CASE \/ U!Save \/ U!Create \/ U!ToggleActive \/ U!ConfirmDeactivate
           \/ U!CancelDeactivate \/ U!AnswerStay
           \/ \E list \in SUBSET Managers : U!ManagersAnswer(list)
           \/ \E h \in Heirs : U!PickHeir(h)
  BY <1>1, <1>9
     DEF U!Save, U!Create, U!ToggleActive, U!ConfirmDeactivate, U!CancelDeactivate,
         U!AnswerStay, U!ManagersAnswer, U!PickHeir, U!Send, U!loads
<1>10. CASE UNCHANGED formVars
  BY <1>1, <1>10 DEF formVars
<1> QED
  BY <1>2, <1>3, <1>4, <1>5, <1>6, <1>8, <1>9, <1>10 DEF U!Next, U!HeirsAnswer, U!HeirsFail

----------------------------------------------------------------------------
(* Web push.  Once the session has ended no request is accepted, so a row   *)
(* can only go, and an endpoint the browser gets is a new one; and once     *)
(* notifications are turned off nothing is left that would subscribe.       *)

PushJob == [at: {"idle", "ready", "key", "post", "delete", "drop", "over", "failed"},
            end: Endpoints \cup {None}, as: Mailboxes \cup {None}]

PushTyped ==
  /\ session \in Mailboxes \cup {None}
  /\ issued \subseteq Endpoints
  /\ local \in issued \cup {None}
  /\ subscribed \in [Endpoints -> Mailboxes \cup {None}]
  /\ \A e \in Endpoints : subscribed[e] # None => e \in issued
  /\ jobs \in [W!Jobs -> PushJob]

\* Who does what; a registration on its way names an endpoint of the browser.
JobsKeepTheirSteps ==
  /\ \A j \in W!Jobs : jobs[j].at = "post" => jobs[j].end \in issued
  /\ jobs["off"].at \notin {"key", "post"}
  /\ jobs["signout"].at \notin {"key", "post"}
  /\ jobs["worker"].at # "key"

\* A page that is closed does nothing.
ClosedPagesRest == page = "closed" => \A j \in W!PageJobs : jobs[j].at = "idle"

\* What a request is accepted for is the session of now, if anything.
EndedSessionsAreRefused == \A j \in W!Jobs : jobs[j].as \in {None, session}

\* A row that leads to a device without a session is the one the sign-out has
\* looked at or has still to look at.
RowsGoWithTheSession ==
  session = None /\ local # None /\ subscribed[local] # None =>
    /\ settled # "vacated"
    /\ jobs["signout"].at # "over"
    /\ jobs["signout"].at \in {"delete", "drop"} => jobs["signout"].end = local

\* Who has registered since they signed in is the one the row is for.
SettledBySession ==
  /\ settled = "vacated" => session = None /\ page = "closed"
  /\ settled = "registered" => session # None
  /\ settled = "registered" /\ local # None => subscribed[local] \in {None, session}

\* From the moment notifications are turned off nobody is about to subscribe,
\* and what is left is the subscription the teardown has found.
OffMeansNobodySubscribes ==
  turnedOff = "clean" =>
    /\ suppress
    /\ jobs["mount"].at \notin {"key", "post"} /\ jobs["button"].at # "key"
    /\ jobs["off"].at \in {"idle", "over"} => local = None
    /\ jobs["off"].at \in {"delete", "drop"} => local \in {None, jobs["off"].end}

PushIInv ==
  /\ PushTyped /\ JobsKeepTheirSteps /\ ClosedPagesRest /\ EndedSessionsAreRefused
  /\ RowsGoWithTheSession /\ SettledBySession /\ OffMeansNobodySubscribes

LEMMA PushInit == W!Init => PushIInv
BY DEF W!Init, PushIInv, PushTyped, JobsKeepTheirSteps, ClosedPagesRest,
       EndedSessionsAreRefused, RowsGoWithTheSession, SettledBySession,
       OffMeansNobodySubscribes, W!Jobs, W!PageJobs, W!Idle, PushJob

LEMMA PushQuiet == PushIInv => W!PushesFollowTheUser /\ W!TurnedOffStaysOff
BY DEF PushIInv, RowsGoWithTheSession, SettledBySession, OffMeansNobodySubscribes,
       PushTyped, W!PushesFollowTheUser, W!TurnedOffStaysOff, W!Idle

(* A job moves on; the others stay where they are.                          *)
LEMMA JobsGo ==
  ASSUME PushIInv, NEW j \in W!Jobs, NEW job \in PushJob, W!Goes(j, job)
  PROVE  /\ jobs' \in [W!Jobs -> PushJob] /\ jobs'[j] = job
         /\ \A k \in W!Jobs : k # j => jobs'[k] = jobs[k]
BY DEF PushIInv, PushTyped, W!Goes

LEMMA PushNext == PushIInv /\ [W!Next]_pushVars => PushIInv'
<1> SUFFICES ASSUME PushIInv, [W!Next]_pushVars
             PROVE  PushIInv'
  OBVIOUS
<1> USE DEF W!Jobs, W!PageJobs
<1>0. W!Idle \in PushJob /\ W!Idle.at = "idle" /\ W!Idle.as = None
  BY DEF W!Idle, PushJob
<1>a. ASSUME NEW step \in {"ready", "key", "post", "delete", "drop", "over", "failed"},
             NEW e \in Endpoints \cup {None}, NEW as \in Mailboxes \cup {None}
      PROVE  /\ W!At(step, e, as) \in PushJob /\ W!At(step, e, as).at = step
             /\ W!At(step, e, as).end = e /\ W!At(step, e, as).as = as
  BY <1>a DEF W!At, PushJob
<1>1. ASSUME NEW m \in Mailboxes, W!SendToUser(m)
      PROVE  PushIInv'
  <2>1. /\ UNCHANGED <<session, issued, local, jobs, page, suppress, turnedOff, settled>>
        /\ subscribed' \in [Endpoints -> Mailboxes \cup {None}]
        /\ \A e \in Endpoints : subscribed'[e] \in {None, subscribed[e]}
    BY <1>1 DEF W!SendToUser, W!device, PushIInv, PushTyped
  <2> QED
    BY <2>1 DEF PushIInv, PushTyped, JobsKeepTheirSteps, ClosedPagesRest,
                EndedSessionsAreRefused, RowsGoWithTheSession, SettledBySession,
                OffMeansNobodySubscribes
<1>2. ASSUME NEW m \in Mailboxes, W!Login(m)
      PROVE  PushIInv'
  <2>1. jobs["signout"].at = "idle"
    BY <1>2 DEF W!Login, PushIInv, ClosedPagesRest
  <2> QED
    BY <1>2, <2>1
       DEF W!Login, PushIInv, PushTyped, JobsKeepTheirSteps, ClosedPagesRest,
           EndedSessionsAreRefused, RowsGoWithTheSession, SettledBySession,
           OffMeansNobodySubscribes
<1>3. ASSUME NEW e \in Endpoints, W!Rotate(e)
      PROVE  PushIInv'
  <2>1. e \notin issued /\ subscribed[e] = None
    BY <1>3 DEF W!Rotate, W!Fresh, PushIInv, PushTyped
  <2>2. \/ UNCHANGED jobs
        \/ /\ jobs' \in [W!Jobs -> PushJob] /\ jobs'["worker"] = W!At("post", e, session)
           /\ \A k \in W!Jobs : k # "worker" => jobs'[k] = jobs[k]
    BY <1>3, <1>a, JobsGo DEF W!Rotate, PushIInv, PushTyped
  <2>3. W!At("post", e, session).at = "post" /\ W!At("post", e, session).end = e
        /\ W!At("post", e, session).as = session
    BY <1>a DEF PushIInv, PushTyped
  <2>4. local' = e /\ issued' = issued \cup {e} /\ turnedOff' = "no"
        /\ UNCHANGED <<session, page, suppress, subscribed, settled>>
    BY <1>3 DEF W!Rotate
  <2> QED
    BY <2>1, <2>2, <2>3, <2>4
       DEF PushIInv, PushTyped, JobsKeepTheirSteps, ClosedPagesRest,
           EndedSessionsAreRefused, RowsGoWithTheSession, SettledBySession,
           OffMeansNobodySubscribes
<1>4. CASE W!Lose
  BY <1>4 DEF W!Lose, PushIInv, PushTyped, JobsKeepTheirSteps, ClosedPagesRest,
              EndedSessionsAreRefused, RowsGoWithTheSession, SettledBySession,
              OffMeansNobodySubscribes
<1>5. CASE W!OpenPage
  <2>1. page' = "open" /\ turnedOff' = "no" /\ session # None
        /\ UNCHANGED <<session, local, issued, subscribed, settled>>
    BY <1>5 DEF W!OpenPage
  <2>2. \/ UNCHANGED jobs
        \/ /\ jobs' \in [W!Jobs -> PushJob]
           /\ jobs'["mount"].at = "ready" /\ jobs'["mount"].as = None
           /\ \A k \in W!Jobs : k # "mount" => jobs'[k] = jobs[k]
    BY <1>5, <1>a, JobsGo DEF W!OpenPage
  <2> QED
    BY <2>1, <2>2
       DEF PushIInv, PushTyped, JobsKeepTheirSteps, ClosedPagesRest,
           EndedSessionsAreRefused, RowsGoWithTheSession, SettledBySession,
           OffMeansNobodySubscribes
<1>6. CASE W!ClosePage
  <2>1. /\ jobs' \in [W!Jobs -> PushJob] /\ jobs'["worker"] = jobs["worker"]
        /\ \A k \in W!PageJobs : jobs'[k] = W!Idle
    BY <1>0, <1>6 DEF W!ClosePage, PushIInv, PushTyped
  <2>2. page' = "closed" /\ turnedOff' = "no"
        /\ UNCHANGED <<session, local, issued, subscribed, settled>>
    BY <1>6 DEF W!ClosePage
  <2>3. settled # "vacated"
    BY <1>6 DEF W!ClosePage, PushIInv, SettledBySession
  <2> QED
    BY <1>0, <2>1, <2>2, <1>6
       DEF W!ClosePage, PushIInv, PushTyped, JobsKeepTheirSteps, ClosedPagesRest,
           EndedSessionsAreRefused, RowsGoWithTheSession, SettledBySession,
           OffMeansNobodySubscribes
<1>7. CASE W!Reconcile
  <2>1. UNCHANGED <<session, local, issued, subscribed, page, suppress, turnedOff, settled>>
    BY <1>7 DEF W!Reconcile
  <2>2. jobs["mount"].at = "ready" /\ page # "closed"
    BY <1>7 DEF W!Reconcile, PushIInv, ClosedPagesRest
  <2>3. local \in Endpoints \cup {None} /\ session \in Mailboxes \cup {None}
    BY DEF PushIInv, PushTyped
  <2>4. /\ jobs' \in [W!Jobs -> PushJob]
        /\ \A k \in W!Jobs : k # "mount" => jobs'[k] = jobs[k]
        /\ \/ suppress /\ jobs'["mount"] = W!Idle
           \/ ~suppress /\ local # None /\ jobs'["mount"] = W!At("post", local, session)
           \/ ~suppress /\ jobs'["mount"] = W!At("key", None, session)
    BY <1>0, <1>7, <1>a, <2>3, JobsGo DEF W!Reconcile
  <2>5. /\ W!At("post", local, session).at = "post" /\ W!At("post", local, session).end = local
        /\ W!At("post", local, session).as = session
        /\ W!At("key", None, session).at = "key" /\ W!At("key", None, session).as = session
    BY <1>a, <2>3
  <2>6. PushTyped'
    BY <1>0, <2>1, <2>2, <2>4, <2>5 DEF PushIInv, PushTyped
  <2>7. JobsKeepTheirSteps'
    BY <1>0, <2>1, <2>2, <2>4, <2>5 DEF PushIInv, JobsKeepTheirSteps, PushTyped
  <2>8. ClosedPagesRest'
    BY <1>0, <2>1, <2>2, <2>4, <2>5 DEF PushIInv, ClosedPagesRest
  <2>9. EndedSessionsAreRefused'
    BY <1>0, <2>1, <2>2, <2>4, <2>5 DEF PushIInv, EndedSessionsAreRefused
  <2>10. RowsGoWithTheSession'
    BY <1>0, <2>1, <2>2, <2>4, <2>5 DEF PushIInv, RowsGoWithTheSession, PushTyped, EndedSessionsAreRefused, SettledBySession
  <2>11. SettledBySession'
    BY <1>0, <2>1, <2>2, <2>4, <2>5 DEF PushIInv, SettledBySession
  <2>12. OffMeansNobodySubscribes'
    BY <1>0, <2>1, <2>2, <2>4, <2>5 DEF PushIInv, OffMeansNobodySubscribes, JobsKeepTheirSteps
  <2> QED
    BY <2>6, <2>7, <2>8, <2>9, <2>10, <2>11, <2>12 DEF PushIInv
<1>8. ASSUME NEW answer \in {"granted", "denied", "default"}, W!Subscribe(answer)
      PROVE  PushIInv'
  <2>1. page # "closed" /\ UNCHANGED <<session, local, issued, page, subscribed, settled>>
    BY <1>8 DEF W!Subscribe, W!TurnOnOffered, W!Quiet
  <2>2. session \in Mailboxes \cup {None}
    BY DEF PushIInv, PushTyped
  <2>3. \/ UNCHANGED <<jobs, suppress, turnedOff>>
        \/ /\ turnedOff' = "no" /\ jobs' \in [W!Jobs -> PushJob]
           /\ jobs'["button"] = W!At("key", None, session)
           /\ \A k \in W!Jobs : k # "button" => jobs'[k] = jobs[k]
    BY <1>8, <1>a, <2>2, JobsGo DEF W!Subscribe
  <2>4. W!At("key", None, session).at = "key" /\ W!At("key", None, session).as = session
    BY <1>a, <2>2
  <2> QED
    BY <2>1, <2>3, <2>4
       DEF PushIInv, PushTyped, JobsKeepTheirSteps, ClosedPagesRest,
           EndedSessionsAreRefused, RowsGoWithTheSession, SettledBySession,
           OffMeansNobodySubscribes
<1>9. ASSUME NEW j \in W!Jobs, NEW e \in Endpoints, W!CreateSubscription(j, e)
      PROVE  PushIInv'
  <2>1. /\ jobs[j].at = "key" /\ local' = e
        /\ \/ local = None /\ e \notin issued /\ issued' = issued \cup {e}
           \/ local # None /\ local = e /\ issued' = issued
        /\ UNCHANGED <<session, page, suppress, subscribed, turnedOff, settled>>
    BY <1>9 DEF W!CreateSubscription, W!Fresh
  <2>2. j \in {"mount", "button"} /\ page # "closed" /\ turnedOff # "clean"
    BY <2>1 DEF PushIInv, JobsKeepTheirSteps, ClosedPagesRest, OffMeansNobodySubscribes
  <2>3. session \in Mailboxes \cup {None}
    BY DEF PushIInv, PushTyped
  <2>4. /\ jobs' \in [W!Jobs -> PushJob] /\ jobs'[j] = W!At("post", e, session)
        /\ \A k \in W!Jobs : k # j => jobs'[k] = jobs[k]
    BY <1>9, <1>a, <2>3, JobsGo DEF W!CreateSubscription
  <2>5. W!At("post", e, session).at = "post" /\ W!At("post", e, session).end = e
        /\ W!At("post", e, session).as = session
    BY <1>a, <2>3
  <2>6. PushTyped'
    BY <2>1, <2>2, <2>4, <2>5 DEF PushIInv, PushTyped
  <2>7. JobsKeepTheirSteps'
    BY <2>1, <2>2, <2>4, <2>5 DEF PushIInv, JobsKeepTheirSteps, PushTyped
  <2>8. ClosedPagesRest'
    BY <2>1, <2>2, <2>4, <2>5 DEF PushIInv, ClosedPagesRest
  <2>9. EndedSessionsAreRefused'
    BY <2>1, <2>2, <2>4, <2>5 DEF PushIInv, EndedSessionsAreRefused
  <2>10. RowsGoWithTheSession'
    BY <2>1, <2>2, <2>4, <2>5 DEF PushIInv, RowsGoWithTheSession, PushTyped, EndedSessionsAreRefused, SettledBySession
  <2>11. SettledBySession'
    BY <2>1, <2>2, <2>4, <2>5 DEF PushIInv, PushTyped, SettledBySession
  <2>12. OffMeansNobodySubscribes'
    BY <2>1, <2>2, <2>4, <2>5 DEF PushIInv, OffMeansNobodySubscribes, JobsKeepTheirSteps
  <2> QED
    BY <2>6, <2>7, <2>8, <2>9, <2>10, <2>11, <2>12 DEF PushIInv
<1>10. ASSUME NEW j \in W!Jobs, W!Post(j)
       PROVE  PushIInv'
  <2>1. /\ jobs[j].at = "post" /\ jobs[j].as # None
        /\ subscribed' = [subscribed EXCEPT ![jobs[j].end] = jobs[j].as]
        /\ settled' = IF jobs[j].end = local THEN "registered" ELSE settled
        /\ UNCHANGED <<session, local, issued, page, suppress, turnedOff>>
    BY <1>10 DEF W!Post, W!SaveSubscription
  <2>2. /\ session # None /\ jobs[j].as = session
        /\ jobs[j].end \in issued /\ jobs[j] \in PushJob
    BY <2>1 DEF PushIInv, EndedSessionsAreRefused, JobsKeepTheirSteps, PushTyped
  <2>3. subscribed' \in [Endpoints -> Mailboxes \cup {None}]
        /\ \A e \in Endpoints : subscribed'[e] # None => e \in issued
    BY <2>1, <2>2 DEF PushIInv, PushTyped, PushJob
  <2>4. /\ jobs' \in [W!Jobs -> PushJob] /\ jobs'[j] = W!Idle
        /\ \A k \in W!Jobs : k # j => jobs'[k] = jobs[k]
    BY <1>0, <1>10, JobsGo DEF W!Post
  <2> QED
    BY <1>0, <2>1, <2>2, <2>3, <2>4
       DEF PushIInv, PushTyped, JobsKeepTheirSteps, ClosedPagesRest,
           EndedSessionsAreRefused, RowsGoWithTheSession, SettledBySession,
           OffMeansNobodySubscribes
<1>11. ASSUME NEW j \in W!Jobs, W!RequestFails(j)
       PROVE  PushIInv'
  <2>1. /\ jobs[j].at \in {"key", "post"}
        /\ UNCHANGED <<session, local, issued, page, suppress, subscribed, turnedOff, settled>>
    BY <1>11 DEF W!RequestFails
  <2>2. /\ jobs' \in [W!Jobs -> PushJob] /\ jobs'[j] = W!Idle
        /\ \A k \in W!Jobs : k # j => jobs'[k] = jobs[k]
    BY <1>0, <1>11, JobsGo DEF W!RequestFails
  <2> QED
    BY <1>0, <2>1, <2>2
       DEF PushIInv, PushTyped, JobsKeepTheirSteps, ClosedPagesRest,
           EndedSessionsAreRefused, RowsGoWithTheSession, SettledBySession,
           OffMeansNobodySubscribes
<1>12. ASSUME NEW j \in W!Jobs, W!Look(j)
       PROVE  PushIInv'
  <2>1. /\ j \in {"off", "signout"} /\ jobs[j].at = "ready"
        /\ UNCHANGED <<session, local, issued, page, suppress, subscribed, turnedOff, settled>>
    BY <1>12 DEF W!Look
  <2>2. local \in Endpoints \cup {None} /\ session \in Mailboxes \cup {None}
    BY DEF PushIInv, PushTyped
  <2>3. /\ jobs' \in [W!Jobs -> PushJob]
        /\ \A k \in W!Jobs : k # j => jobs'[k] = jobs[k]
        /\ \/ local = None /\ jobs'[j] = W!At("over", None, None)
           \/ local # None /\ jobs'[j] = W!At("delete", local, session)
    BY <1>12, <1>a, <2>2, JobsGo DEF W!Look
  <2>4. /\ W!At("over", None, None).at = "over" /\ W!At("over", None, None).as = None
        /\ W!At("delete", local, session).at = "delete" /\ W!At("delete", local, session).end = local
        /\ W!At("delete", local, session).as = session
    BY <1>a, <2>2
  <2> QED
    BY <2>1, <2>3, <2>4
       DEF PushIInv, PushTyped, JobsKeepTheirSteps, ClosedPagesRest,
           EndedSessionsAreRefused, RowsGoWithTheSession, SettledBySession,
           OffMeansNobodySubscribes
<1>13. ASSUME NEW j \in W!Jobs, W!Tell(j)
       PROVE  PushIInv'
  <2>1. /\ jobs[j].at = "delete" /\ jobs[j] \in PushJob
        /\ UNCHANGED <<session, local, issued, page, suppress, turnedOff, settled>>
    BY <1>13 DEF W!Tell, PushIInv, PushTyped
  <2>2. [jobs[j] EXCEPT !.at = "drop"] \in PushJob
        /\ [jobs[j] EXCEPT !.at = "drop"].at = "drop"
        /\ [jobs[j] EXCEPT !.at = "drop"].end = jobs[j].end
        /\ [jobs[j] EXCEPT !.at = "drop"].as = jobs[j].as
    BY <2>1 DEF PushJob
  <2>3. /\ jobs' \in [W!Jobs -> PushJob] /\ jobs'[j] = [jobs[j] EXCEPT !.at = "drop"]
        /\ \A k \in W!Jobs : k # j => jobs'[k] = jobs[k]
    BY <1>13, <2>2, JobsGo DEF W!Tell
  <2>4. subscribed' \in [Endpoints -> Mailboxes \cup {None}]
        /\ \A e \in Endpoints : subscribed'[e] \in {None, subscribed[e]}
    BY <1>13 DEF W!Tell, W!DeleteSubscription, PushIInv, PushTyped
  <2>5. PushTyped'
    BY <2>1, <2>2, <2>3, <2>4 DEF PushIInv, PushTyped
  <2>6. JobsKeepTheirSteps'
    BY <2>1, <2>2, <2>3, <2>4, ZenonT(40) DEF PushIInv, JobsKeepTheirSteps, PushTyped
  <2>7. ClosedPagesRest'
    BY <2>1, <2>2, <2>3, <2>4 DEF PushIInv, ClosedPagesRest
  <2>8. EndedSessionsAreRefused'
    BY <2>1, <2>2, <2>3, <2>4 DEF PushIInv, EndedSessionsAreRefused
  <2>9. RowsGoWithTheSession'
    BY <2>1, <2>2, <2>3, <2>4 DEF PushIInv, RowsGoWithTheSession, PushTyped, EndedSessionsAreRefused, SettledBySession
  <2>10. SettledBySession'
    BY <2>1, <2>2, <2>3, <2>4 DEF PushIInv, PushTyped, SettledBySession
  <2>11. OffMeansNobodySubscribes'
    BY <2>1, <2>2, <2>3, <2>4 DEF PushIInv, OffMeansNobodySubscribes, JobsKeepTheirSteps
  <2> QED
    BY <2>5, <2>6, <2>7, <2>8, <2>9, <2>10, <2>11 DEF PushIInv
<1>14. ASSUME NEW j \in W!Jobs, W!Drop(j)
       PROVE  PushIInv'
  <2>1. /\ jobs[j].at = "drop" /\ local' \in {local, None}
        /\ local = jobs[j].end => local' = None
        /\ UNCHANGED <<session, issued, page, suppress, subscribed, turnedOff, settled>>
    BY <1>14 DEF W!Drop
  <2>2. W!At("over", None, None).at = "over" /\ W!At("over", None, None).as = None
    BY <1>a
  <2>3. /\ jobs' \in [W!Jobs -> PushJob] /\ jobs'[j] = W!At("over", None, None)
        /\ \A k \in W!Jobs : k # j => jobs'[k] = jobs[k]
    BY <1>14, <1>a, JobsGo DEF W!Drop
  <2> QED
    BY <2>1, <2>2, <2>3
       DEF PushIInv, PushTyped, JobsKeepTheirSteps, ClosedPagesRest,
           EndedSessionsAreRefused, RowsGoWithTheSession, SettledBySession,
           OffMeansNobodySubscribes
<1>15. CASE W!Unsubscribe
  <2>1. /\ page # "closed" /\ jobs["button"].at = "idle" /\ suppress'
        /\ jobs["mount"].at \in {"key", "post"} => turnedOff' # "clean"
        /\ UNCHANGED <<session, local, issued, page, subscribed, settled>>
    BY <1>0, <1>15 DEF W!Unsubscribe, W!TurnOffOffered, W!Quiet
  <2>2. session \in Mailboxes \cup {None}
    BY DEF PushIInv, PushTyped
  <2>3. /\ jobs' \in [W!Jobs -> PushJob] /\ jobs'["off"] = W!At("ready", None, session)
        /\ \A k \in W!Jobs : k # "off" => jobs'[k] = jobs[k]
    BY <1>15, <1>a, <2>2, JobsGo DEF W!Unsubscribe
  <2>4. W!At("ready", None, session).at = "ready" /\ W!At("ready", None, session).as = session
    BY <1>a, <2>2
  <2> QED
    BY <2>1, <2>3, <2>4
       DEF PushIInv, PushTyped, JobsKeepTheirSteps, ClosedPagesRest,
           EndedSessionsAreRefused, RowsGoWithTheSession, SettledBySession,
           OffMeansNobodySubscribes
<1>16. CASE W!OffIsOver
  <2>1. /\ jobs["off"].at = "over"
        /\ UNCHANGED <<session, local, issued, page, suppress, subscribed, turnedOff, settled>>
    BY <1>16 DEF W!OffIsOver
  <2>2. /\ jobs' \in [W!Jobs -> PushJob] /\ jobs'["off"] = W!Idle
        /\ \A k \in W!Jobs : k # "off" => jobs'[k] = jobs[k]
    BY <1>0, <1>16, JobsGo DEF W!OffIsOver
  <2> QED
    BY <1>0, <2>1, <2>2
       DEF PushIInv, PushTyped, JobsKeepTheirSteps, ClosedPagesRest,
           EndedSessionsAreRefused, RowsGoWithTheSession, SettledBySession,
           OffMeansNobodySubscribes
<1>17. CASE W!SignOut
  <2>1. page # "closed" /\ UNCHANGED <<local, issued, page, suppress, subscribed, turnedOff>>
    BY <1>17 DEF W!SignOut
  <2>2. W!At("ready", None, None) \in PushJob /\ W!At("ready", None, None).at = "ready"
        /\ W!At("ready", None, None).as = None
    BY <1>a
  <2>3. \A k \in W!Jobs : /\ [jobs[k] EXCEPT !.as = None] \in PushJob
                          /\ [jobs[k] EXCEPT !.as = None].at = jobs[k].at
                          /\ [jobs[k] EXCEPT !.as = None].end = jobs[k].end
                          /\ [jobs[k] EXCEPT !.as = None].as = None
    BY DEF PushIInv, PushTyped, PushJob
  <2>4. /\ jobs' \in [W!Jobs -> PushJob] /\ jobs'["signout"].at = "ready"
        /\ jobs'["signout"].as = None
        /\ \A k \in W!Jobs : k # "signout" =>
             jobs'[k].at = jobs[k].at /\ jobs'[k].end = jobs[k].end
        /\ \/ session' = None /\ settled' = "no" /\ \A k \in W!Jobs : jobs'[k].as = None
           \/ UNCHANGED <<session, settled>> /\ \A k \in W!Jobs : k # "signout" => jobs'[k].as = jobs[k].as
    <3>1. CASE session' = None /\ settled' = "no" /\ jobs' = [k \in W!Jobs |->
                 IF k = "signout" THEN W!At("ready", None, None) ELSE [jobs[k] EXCEPT !.as = None]]
      BY <2>2, <2>3, <3>1
    <3>2. CASE W!Goes("signout", W!At("ready", None, None)) /\ UNCHANGED <<session, settled>>
      BY <2>2, <3>2, JobsGo
    <3> QED
      BY <1>17, <3>1, <3>2 DEF W!SignOut
  <2> QED
    BY <2>1, <2>4
       DEF PushIInv, PushTyped, JobsKeepTheirSteps, ClosedPagesRest,
           EndedSessionsAreRefused, RowsGoWithTheSession, SettledBySession,
           OffMeansNobodySubscribes
<1>18. CASE W!SignedOut
  <2>1. /\ jobs' \in [W!Jobs -> PushJob] /\ jobs'["worker"] = jobs["worker"]
        /\ \A k \in W!PageJobs : jobs'[k] = W!Idle
    BY <1>0, <1>18 DEF W!SignedOut, PushIInv, PushTyped
  <2>2. /\ jobs["signout"].at \in {"over", "failed"} /\ page' = "closed" /\ turnedOff' = "no"
        /\ settled' = IF session = None /\ jobs["signout"].at = "over" THEN "vacated"
                      ELSE settled
        /\ UNCHANGED <<session, local, issued, subscribed>>
    BY <1>18 DEF W!SignedOut
  <2> QED
    BY <1>0, <2>1, <2>2
       DEF PushIInv, PushTyped, JobsKeepTheirSteps, ClosedPagesRest,
           EndedSessionsAreRefused, RowsGoWithTheSession, SettledBySession,
           OffMeansNobodySubscribes
<1>19. ASSUME NEW j \in W!Jobs, W!Refused(j)
       PROVE  PushIInv'
  <2>1. /\ j \in W!PageJobs /\ jobs[j].at \in {"key", "post", "delete"} /\ jobs[j] \in PushJob
        /\ page' = "leaving"
        /\ UNCHANGED <<session, local, issued, suppress, subscribed, turnedOff, settled>>
    BY <1>19 DEF W!Refused, PushIInv, PushTyped
  <2>2. PICK job \in PushJob : /\ W!Goes(j, job) /\ job.as = None
                               /\ \/ jobs[j].at # "delete" /\ job.at = "idle"
                                  \/ /\ jobs[j].at = "delete" /\ job.at = "drop"
                                     /\ job.end = jobs[j].end
    <3>1. [jobs[j] EXCEPT !.at = "drop"] \in PushJob
          /\ [jobs[j] EXCEPT !.at = "drop"].at = "drop"
          /\ [jobs[j] EXCEPT !.at = "drop"].end = jobs[j].end
          /\ [jobs[j] EXCEPT !.at = "drop"].as = jobs[j].as
      BY <2>1 DEF PushJob
    <3> QED
      BY <1>0, <1>19, <3>1 DEF W!Refused
  <2>3. /\ jobs' \in [W!Jobs -> PushJob] /\ jobs'[j] = job
        /\ \A k \in W!Jobs : k # j => jobs'[k] = jobs[k]
    BY <2>2, JobsGo
  <2>4. settled # "vacated"
    BY <2>1 DEF PushIInv, SettledBySession, ClosedPagesRest
  <2>5. PushTyped'
    BY <2>1, <2>2, <2>3 DEF PushIInv, PushTyped
  <2>6. JobsKeepTheirSteps'
    BY <2>1, <2>2, <2>3 DEF PushIInv, JobsKeepTheirSteps, PushTyped
  <2>7. ClosedPagesRest' /\ EndedSessionsAreRefused'
    BY <2>1, <2>2, <2>3 DEF PushIInv, ClosedPagesRest, EndedSessionsAreRefused
  <2>8. RowsGoWithTheSession' /\ SettledBySession'
    BY <2>1, <2>2, <2>3, <2>4 DEF PushIInv, RowsGoWithTheSession, SettledBySession
  <2>9. OffMeansNobodySubscribes'
    BY <2>1, <2>2, <2>3 DEF PushIInv, OffMeansNobodySubscribes, JobsKeepTheirSteps
  <2> QED
    BY <2>5, <2>6, <2>7, <2>8, <2>9 DEF PushIInv
<1>20. ASSUME NEW j \in W!Jobs, W!TeardownFails(j)
       PROVE  PushIInv'
  <2>1. /\ jobs[j].at \in {"ready", "drop"}
        /\ UNCHANGED <<session, local, issued, page, suppress, subscribed, settled>>
    BY <1>20 DEF W!TeardownFails
  <2>2. W!At("failed", None, None).at = "failed" /\ W!At("failed", None, None).as = None
    BY <1>a
  <2>3. CASE j = "off"
    <3>1. /\ jobs' \in [W!Jobs -> PushJob] /\ jobs'["off"] = W!Idle /\ turnedOff' = "no"
          /\ \A k \in W!Jobs : k # "off" => jobs'[k] = jobs[k]
      BY <1>0, <1>20, <2>3, JobsGo DEF W!TeardownFails
    <3> QED
      BY <1>0, <2>1, <3>1
         DEF PushIInv, PushTyped, JobsKeepTheirSteps, ClosedPagesRest,
             EndedSessionsAreRefused, RowsGoWithTheSession, SettledBySession,
             OffMeansNobodySubscribes
  <2>4. CASE j = "signout"
    <3>1. /\ jobs' \in [W!Jobs -> PushJob] /\ jobs'["signout"] = W!At("failed", None, None)
          /\ \A k \in W!Jobs : k # "signout" => jobs'[k] = jobs[k]
          /\ UNCHANGED turnedOff
      BY <1>20, <1>a, <2>4, JobsGo DEF W!TeardownFails
    <3> QED
      BY <2>1, <2>2, <2>4, <3>1
         DEF PushIInv, PushTyped, JobsKeepTheirSteps, ClosedPagesRest,
             EndedSessionsAreRefused, RowsGoWithTheSession, SettledBySession,
             OffMeansNobodySubscribes
  <2> QED
    BY <1>20, <2>3, <2>4 DEF W!TeardownFails
<1>21. CASE UNCHANGED pushVars
  BY <1>21 DEF pushVars, PushIInv, PushTyped, JobsKeepTheirSteps, ClosedPagesRest,
               EndedSessionsAreRefused, RowsGoWithTheSession, SettledBySession,
               OffMeansNobodySubscribes
<1> QED
  BY <1>1, <1>2, <1>3, <1>4, <1>5, <1>6, <1>7, <1>8, <1>9, <1>10, <1>11, <1>12, <1>13,
     <1>14, <1>15, <1>16, <1>17, <1>18, <1>19, <1>20, <1>21 DEF W!Next

----------------------------------------------------------------------------
(* The tab.  What a load of the address may still lead to is bounded by a   *)
(* number that every redirect lowers; a page that was asked for is the      *)
(* address itself or the callback of the login in front of it.              *)

Here == {N!Page(app, p) : app \in N!Products \cup N!Consoles, p \in {"home", "deep"}}

\* A callback is a page that was guarded, or where a login without one leads.
Callbacks == Here \cup {N!Auth("no-access", None), None}

Addresses ==
  Here \cup {N!Page(c, "login") : c \in N!Consoles}
       \cup {N!Auth(p, cb) : p \in {"login", "select", "password"}, cb \in Callbacks}
       \cup {N!Auth("no-access", None)}

\* The redirects that may follow, with a session and without.
LeftIn(p) ==
  IF p.app = "auth" /\ p.page = "login" THEN 3
  ELSE IF p.page \in {"login", "no-access"} THEN 2
  ELSE IF p.page \in {"home", "deep"} THEN 1
  ELSE 0

LeftOut(p) ==
  IF p.page \in {"home", "deep"} THEN 2
  ELSE IF p.page = "login" THEN 0
  ELSE 1

Ahead == IF N!ServerSession THEN LeftIn(at) ELSE LeftOut(at)

TabTyped ==
  /\ at \in Addresses
  /\ redirects \in Nat
  /\ cookie # None \/ live => cookie.licensed \in N!Licences
  /\ display \in {"page", "restricted"} => at \in Here
  /\ display = "restricted" => at.app \in N!Consoles
  /\ display = "branches" => at.app = "auth" /\ at.page = "select"

RedirectsRunOut == redirects <= 3 /\ (display = None => redirects + Ahead <= 3)

\* A page that was asked for is where the tab is, or what its login leads to.
TheRequestIsKept ==
  wanted # None =>
    /\ wanted \in Here
    /\ \/ at = wanted /\ display \in {None, "page", "restricted"}
       \/ at = N!Auth("login", wanted) /\ display \in {None, "form"}
       \/ at = N!Auth("select", wanted) /\ display \in {None, "branches"}

TabIInv == TabTyped /\ RedirectsRunOut /\ TheRequestIsKept

(* What an address is made of.                                              *)
LEMMA AddressParts ==
  /\ \A p \in Here : /\ p \in Addresses /\ p \in Callbacks
                     /\ p.app \in N!Products \cup N!Consoles /\ p.page \in {"home", "deep"}
  /\ \A c \in N!Consoles : /\ N!Page(c, "login") \in Addresses
                           /\ N!Page(c, "login").app = c /\ N!Page(c, "login").page = "login"
  /\ \A p \in {"login", "select", "password"}, cb \in Callbacks :
       N!Auth(p, cb) \in Addresses
  /\ N!Auth("no-access", None) \in Addresses
  /\ \A p, cb : /\ N!Auth(p, cb).app = "auth" /\ N!Auth(p, cb).page = p
                /\ N!Auth(p, cb).callback = cb
<1>1. \A p \in Here : /\ p \in Addresses /\ p \in Callbacks
                     /\ p.app \in N!Products \cup N!Consoles /\ p.page \in {"home", "deep"}
  BY DEF Here, Callbacks, Addresses, N!Page
<1>2. \A c \in N!Consoles : /\ N!Page(c, "login") \in Addresses
                           /\ N!Page(c, "login").app = c /\ N!Page(c, "login").page = "login"
  BY DEF Addresses, N!Page
<1>3. \A p \in {"login", "select", "password"}, cb \in Callbacks :
        N!Auth(p, cb) \in Addresses
  BY DEF Addresses
<1>4. N!Auth("no-access", None) \in Addresses
  BY DEF Addresses
<1>5. \A p, cb : /\ N!Auth(p, cb).app = "auth" /\ N!Auth(p, cb).page = p
                /\ N!Auth(p, cb).callback = cb
  BY DEF N!Auth
<1> QED
  BY <1>1, <1>2, <1>3, <1>4, <1>5

LEMMA AddressKinds ==
  ASSUME NEW p \in Addresses
  PROVE  /\ p.page \in {"home", "deep"} => p \in Here
         /\ p.app \in N!Consoles /\ p.page = "login" => p = N!Page(p.app, "login")
         /\ p.app = "auth" /\ p.page \in {"login", "select", "password"} =>
              p.callback \in Callbacks
         /\ p.app \in {"auth"} \cup N!Products \cup N!Consoles
         /\ p.page \in {"home", "deep", "login", "select", "password", "no-access"}
         /\ p.page = "login" => p.app \in {"auth"} \cup N!Consoles
BY DEF Here, Callbacks, Addresses, N!Page, N!Auth, N!Products, N!Consoles

LEMMA LeftBounds == \A p : LeftIn(p) \in 0..3 /\ LeftOut(p) \in 0..3
<1>1. ASSUME NEW p
      PROVE  LeftIn(p) \in 0..3
  BY DEF LeftIn
<1>2. ASSUME NEW p
      PROVE  LeftOut(p) \in 0..3
  BY DEF LeftOut
<1> QED
  BY <1>1, <1>2

LEMMA TabInit == N!Init => TabIInv
<1> SUFFICES ASSUME N!Init
             PROVE  TabIInv
  OBVIOUS
<1>1. /\ at = N!Auth("login", None) /\ cookie = None /\ ~live /\ display = None
      /\ redirects = 0 /\ wanted = None
  BY DEF N!Init
<1>2. at \in Addresses
  <2>1. None \in Callbacks
    BY DEF Callbacks
  <2> QED
    BY <1>1, <2>1, AddressParts
<1>3. TabTyped
  BY <1>1, <1>2, TabAssumption DEF TabTyped
<1>4. RedirectsRunOut
  BY <1>1, LeftBounds DEF RedirectsRunOut, Ahead
<1> QED
  BY <1>1, <1>3, <1>4 DEF TabIInv, TheRequestIsKept

(* Where a session leads.                                                   *)
LEMMA Destinations ==
  /\ \A licensed : N!SessionDestination(licensed) \in Here \cup {N!Auth("no-access", None)}
  /\ \A licensed \in N!Licences :
       N!UsableProducts(licensed) # {} => N!SessionDestination(licensed) \in Here
<1>1. N!Landing("lms") \in Here /\ N!Landing("hr") \in Here
  BY DEF N!Landing, Here, N!Products
<1>2. ASSUME NEW licensed \in N!Licences, N!UsableProducts(licensed) # {}
      PROVE  "lms" \in N!UsableProducts(licensed) \/ "hr" \in N!UsableProducts(licensed)
  BY <1>2 DEF N!UsableProducts, N!Licences
<1> QED
  BY <1>1, <1>2 DEF N!SessionDestination

(* Where a callback leads, or else the session.                             *)
LEMMA OrDestinations ==
  ASSUME NEW cb \in Callbacks, NEW licensed
  PROVE  /\ N!Or(cb, N!SessionDestination(licensed)) \in Here \cup {N!Auth("no-access", None)}
         /\ cb # None => N!Or(cb, N!SessionDestination(licensed)) = cb
BY Destinations DEF N!Or, Callbacks

(* From an address nobody has loaded yet three redirects are enough.        *)
LEMMA FreshTabs ==
  ASSUME TabIInv, at' \in Addresses, redirects' = 0,
         display' = None \/ UNCHANGED <<display, at>>,
         cookie' # None \/ live' => cookie'.licensed \in N!Licences,
         TheRequestIsKept'
  PROVE  TabIInv'
<1>1. TabTyped'
  BY TabAssumption DEF TabIInv, TabTyped
<1>2. LeftIn(at') \in 0..3 /\ LeftOut(at') \in 0..3
  BY LeftBounds
<1>3. RedirectsRunOut'
  BY <1>2 DEF RedirectsRunOut, Ahead, LeftIn, LeftOut
<1> QED
  BY <1>1, <1>3 DEF TabIInv

(* Nothing is asked for any more.                                           *)
LEMMA FreshTabsWithout ==
  ASSUME TabIInv, at' \in Addresses, redirects' = 0,
         display' = None \/ UNCHANGED <<display, at>>,
         cookie' # None \/ live' => cookie'.licensed \in N!Licences,
         wanted' = None
  PROVE  TabIInv'
BY FreshTabs DEF TheRequestIsKept

(* A redirect lowers what is ahead.                                         *)
LEMMA RedirectKeepsTab ==
  ASSUME TabIInv, display = None, NEW place \in Addresses, N!Redirect(place),
         N!ServerSession => LeftIn(place) < LeftIn(at),
         ~N!ServerSession => LeftOut(place) < LeftOut(at),
         TheRequestIsKept'
  PROVE  TabIInv'
<1>1. /\ at' = place /\ display' = None /\ redirects' = redirects + 1
      /\ UNCHANGED <<cookie, live, gateway>>
  BY DEF N!Redirect, N!Go
<1>2. TabTyped'
  <2>1. redirects \in Nat /\ (cookie # None \/ live => cookie.licensed \in N!Licences)
    BY DEF TabIInv, TabTyped
  <2>2. cookie' # None \/ live' => cookie'.licensed \in N!Licences
    BY <1>1, <2>1
  <2>3. redirects' \in Nat
    BY <1>1, <2>1
  <2> QED
    BY <1>1, <2>2, <2>3, TabAssumption DEF TabTyped
<1>3. redirects \in Nat /\ redirects + Ahead <= 3
  BY DEF TabIInv, TabTyped, RedirectsRunOut
<1>4. N!ServerSession' <=> N!ServerSession
  BY <1>1 DEF N!ServerSession
<1>5. LeftIn(place) \in 0..3 /\ LeftOut(place) \in 0..3 /\ LeftIn(at) \in 0..3 /\ LeftOut(at) \in 0..3
  BY LeftBounds
<1>6. Ahead' = IF N!ServerSession THEN LeftIn(place) ELSE LeftOut(place)
  BY <1>1, <1>4 DEF Ahead, LeftIn, LeftOut
<1>7. redirects' + Ahead' <= 3 /\ redirects' <= 3
  <2>1. CASE N!ServerSession
    BY <1>1, <1>3, <1>5, <1>6, <2>1 DEF Ahead
  <2>2. CASE ~N!ServerSession
    BY <1>1, <1>3, <1>5, <1>6, <2>2 DEF Ahead
  <2> QED
    BY <2>1, <2>2
<1>8. RedirectsRunOut'
  BY <1>7 DEF RedirectsRunOut
<1> QED
  BY <1>2, <1>8 DEF TabIInv

(* A page that is shown fits its address.                                   *)
LEMMA ShowKeepsTab ==
  ASSUME TabIInv, display = None,
         NEW what \in {"page", "restricted", "form", "branches", "no access"}, N!Show(what),
         what \in {"page", "restricted"} <=> at \in Here,
         what = "restricted" => at.app \in N!Consoles,
         what = "branches" <=> at.app = "auth" /\ at.page = "select",
         at.app = "auth" /\ at.page = "login" => what = "form"
  PROVE  TabIInv'
<1>1. display' = what /\ what # None
      /\ UNCHANGED <<cookie, live, gateway, at, redirects, wanted>>
  BY TabAssumption DEF N!Show
<1>2. TabTyped'
  BY <1>1 DEF TabIInv, TabTyped
<1>3. RedirectsRunOut'
  BY <1>1 DEF TabIInv, RedirectsRunOut
<1>4. TheRequestIsKept'
  <2> SUFFICES ASSUME wanted # None
               PROVE  TheRequestIsKept'
    BY <1>1 DEF TheRequestIsKept
  <2>1. wanted \in Here /\ at \in {wanted, N!Auth("login", wanted), N!Auth("select", wanted)}
    BY DEF TabIInv, TheRequestIsKept
  <2>2. CASE at = wanted
    BY <1>1, <2>1, <2>2, AddressParts DEF TheRequestIsKept
  <2>3. CASE at = N!Auth("login", wanted)
    <3>1. at.app = "auth" /\ at.page = "login"
      BY <2>3 DEF N!Auth
    <3>2. at' = N!Auth("login", wanted') /\ display' = "form" /\ wanted' \in Here
      BY <1>1, <2>1, <2>3, <3>1
    <3> QED
      BY <3>2 DEF TheRequestIsKept
  <2>4. CASE at = N!Auth("select", wanted)
    <3>1. at.app = "auth" /\ at.page = "select"
      BY <2>4 DEF N!Auth
    <3>2. at' = N!Auth("select", wanted') /\ display' = "branches" /\ wanted' \in Here
      BY <1>1, <2>1, <2>4, <3>1
    <3> QED
      BY <3>2 DEF TheRequestIsKept
  <2> QED
    BY <2>1, <2>2, <2>3, <2>4
<1> QED
  BY <1>2, <1>3, <1>4 DEF TabIInv

(* While nothing is shown, a request that is kept says where the tab is.    *)
LEMMA KeptRequests ==
  ASSUME TabIInv, wanted # None
  PROVE  /\ wanted \in Here
         /\ at.page \in {"home", "deep"} => at = wanted
         /\ at.app = "auth" /\ at.page = "login" => at = N!Auth("login", wanted) /\ at.callback = wanted
         /\ at.app = "auth" /\ at.page = "select" => at = N!Auth("select", wanted) /\ at.callback = wanted
         /\ \/ at.page \in {"home", "deep"}
            \/ at.app = "auth" /\ at.page \in {"login", "select"}
<1>1. /\ wanted \in Here
      /\ at \in {wanted, N!Auth("login", wanted), N!Auth("select", wanted)}
  BY DEF TabIInv, TheRequestIsKept
<1>2. "auth" \notin N!Products \cup N!Consoles
  BY DEF N!Products, N!Consoles
<1> QED
  BY <1>1, <1>2, AddressParts

LEMMA TabNext == TabIInv /\ [N!Next]_tabVars => TabIInv'
<1> SUFFICES ASSUME TabIInv, [N!Next]_tabVars
             PROVE  TabIInv'
  OBVIOUS
<1>0. /\ at \in Addresses /\ None \in Callbacks
      /\ cookie # None \/ live => cookie.licensed \in N!Licences
      /\ "auth" \notin N!Products \cup N!Consoles
      /\ \A p \in Here : p.page \notin {"login", "select", "password", "no-access"}
  BY AddressParts DEF TabIInv, TabTyped, Callbacks, N!Products, N!Consoles
<1>a. /\ LeftIn(N!Auth("login", None)) = 3 /\ LeftIn(N!Auth("no-access", None)) = 2
      /\ \A cb : LeftIn(N!Auth("password", cb)) = 0
      /\ \A p \in Here : LeftIn(p) = 1
      /\ \A cb : LeftOut(N!Auth("login", cb)) = 0 /\ LeftOut(N!Auth("password", cb)) = 1
      /\ \A c \in N!Consoles : LeftOut(N!Page(c, "login")) = 0
  <2>1. \A p \in Here : p.page \in {"home", "deep"}
    BY AddressParts
  <2>2. \A p \in Here : LeftIn(p) = 1
    BY <2>1 DEF LeftIn
  <2> QED
    BY <2>2 DEF LeftIn, LeftOut, N!Auth, N!Page
<1>b. /\ at.page \in {"home", "deep"} => LeftIn(at) = 1 /\ LeftOut(at) = 2
      /\ at.app = "auth" /\ at.page = "login" => LeftIn(at) = 3
      /\ at.app \in N!Consoles /\ at.page = "login" => LeftIn(at) = 2
      /\ at.page = "no-access" => LeftIn(at) = 2 /\ LeftOut(at) = 1
      /\ at.page \in {"select", "password"} => LeftOut(at) = 1
  BY <1>0 DEF LeftIn, LeftOut
<1>1. CASE N!SessionEnds
  BY <1>0, <1>1, FreshTabsWithout DEF N!SessionEnds, N!Changes
<1>2. CASE N!GatewayFlips
  BY <1>0, <1>2, FreshTabsWithout DEF N!GatewayFlips, N!Changes
<1>3. CASE N!Bounce
  <2>1. /\ display = None /\ at.page \in {"home", "deep"} /\ cookie = None /\ wanted' = at
        /\ N!Redirect(N!Auth("login", at))
    BY <1>3 DEF N!Bounce, N!Guarded, N!CallbackOf
  <2>2. at \in Here /\ N!Auth("login", at) \in Addresses
    BY <1>0, <2>1, AddressKinds, AddressParts
  <2>3. TheRequestIsKept'
    BY <2>1, <2>2 DEF TheRequestIsKept, N!Redirect, N!Go
  <2> QED
    BY <1>a, <1>b, <2>1, <2>2, <2>3, RedirectKeepsTab DEF N!ServerSession
<1>4. CASE N!ForcePasswordChange
  <2>1. /\ display = None /\ at.page \in {"home", "deep"} /\ wanted' = None
        /\ N!Redirect(N!Auth("password", None))
    BY <1>4 DEF N!ForcePasswordChange, N!Guarded
  <2>2. N!Auth("password", None) \in Addresses
    BY <1>0, AddressParts
  <2> QED
    BY <1>a, <1>b, <2>1, <2>2, RedirectKeepsTab DEF TheRequestIsKept
<1>5. CASE N!LoadProduct
  <2>1. display = None /\ at.page \in {"home", "deep"} /\ at.app \in N!Products
    BY <1>5 DEF N!LoadProduct, N!Passed, N!Guarded
  <2>2. at \in Here /\ N!Auth("password", None) \in Addresses
    BY <1>0, <2>1, AddressKinds, AddressParts
  <2>3. ASSUME ~N!ServerSession, NEW p \in {"home", "deep"},
               N!Redirect(N!Auth("login", N!Page(at.app, p))), wanted' = N!Page(at.app, p)
        PROVE  TabIInv'
    <3>1. N!Page(at.app, p) \in Here /\ N!Auth("login", N!Page(at.app, p)) \in Addresses
      <4>1. N!Page(at.app, p) \in Here
        BY <2>1 DEF Here
      <4> QED
        BY <4>1, AddressParts
    <3>2. TheRequestIsKept'
      BY <2>3, <3>1 DEF TheRequestIsKept, N!Redirect, N!Go
    <3> QED
      BY <1>a, <1>b, <2>1, <2>3, <3>1, <3>2, RedirectKeepsTab
  <2>4. CASE N!ServerSession /\ N!Redirect(N!Auth("password", None)) /\ wanted' = None
    BY <1>a, <1>b, <2>1, <2>2, <2>4, RedirectKeepsTab DEF TheRequestIsKept
  <2>5. CASE N!Show("page")
    BY <1>0, <2>1, <2>2, <2>5, ShowKeepsTab
  <2> QED
    BY <1>5, <2>3, <2>4, <2>5 DEF N!LoadProduct, N!CallbackOf
<1>6. CASE N!LoadConsole
  <2>1. display = None /\ at.page \in {"home", "deep"} /\ at.app \in N!Consoles
    BY <1>6 DEF N!LoadConsole, N!Passed, N!Guarded
  <2>2. at \in Here /\ N!Page(at.app, "login") \in Addresses
    BY <1>0, <2>1, AddressKinds, AddressParts
  <2>3. CASE ~N!ServerSession /\ N!Redirect(N!Page(at.app, "login")) /\ wanted' = None
    BY <1>a, <1>b, <2>1, <2>2, <2>3, RedirectKeepsTab DEF TheRequestIsKept
  <2>4. CASE N!Show("page")
    BY <1>0, <2>1, <2>2, <2>4, ShowKeepsTab
  <2>5. CASE N!Show("restricted")
    BY <1>0, <2>1, <2>2, <2>5, ShowKeepsTab
  <2> QED
    BY <1>6, <2>3, <2>4, <2>5 DEF N!LoadConsole
<1>7. CASE N!LoadConsoleLogin
  <2>1. display = None /\ at.app \in N!Consoles /\ at.page = "login"
    BY <1>7 DEF N!LoadConsoleLogin
  <2>2. N!Page(at.app, "home") \in Here /\ at \notin Here
    BY <1>0, <2>1 DEF Here
  <2>3. wanted = None
    BY <1>0, <2>1, KeptRequests
  <2>4. CASE N!ServerSession /\ N!Redirect(N!Page(at.app, "home")) /\ UNCHANGED wanted
    BY <1>a, <1>b, <2>1, <2>2, <2>3, <2>4, AddressParts, RedirectKeepsTab DEF TheRequestIsKept
  <2>5. CASE N!Show("form")
    BY <1>0, <2>1, <2>2, <2>5, ShowKeepsTab
  <2> QED
    BY <1>7, <2>4, <2>5 DEF N!LoadConsoleLogin
<1>8. CASE N!LoadLogin
  <2> DEFINE place == N!Or(at.callback, N!SessionDestination(cookie.licensed))
  <2>1. display = None /\ at.app = "auth" /\ at.page = "login"
    BY <1>8 DEF N!LoadLogin
  <2>2. at.callback \in Callbacks /\ at \notin Here
    BY <1>0, <2>1, AddressKinds
  <2>3. /\ place \in Here \cup {N!Auth("no-access", None)}
        /\ at.callback # None => place = at.callback
    BY <2>2, OrDestinations
  <2>4. CASE N!ServerSession /\ N!Redirect(place) /\ UNCHANGED wanted
    <3>1. place \in Addresses /\ LeftIn(place) < LeftIn(at)
      BY <1>a, <1>b, <2>1, <2>3, AddressParts
    <3>2. ASSUME wanted # None
          PROVE  wanted \in Here /\ place = wanted
      BY <2>1, <2>3, <3>2, KeptRequests
    <3>3. TheRequestIsKept'
      BY <2>4, <3>2 DEF TheRequestIsKept, N!Redirect, N!Go
    <3> QED
      BY <2>1, <2>4, <3>1, <3>3, RedirectKeepsTab
  <2>5. CASE N!Show("form")
    BY <1>0, <2>1, <2>2, <2>5, ShowKeepsTab
  <2> QED
    BY <1>8, <2>4, <2>5 DEF N!LoadLogin
<1>9. CASE N!LoadSelectBranch
  <2>1. display = None /\ at.app = "auth" /\ at.page = "select"
    BY <1>9 DEF N!LoadSelectBranch
  <2>2. N!Auth("login", at.callback) \in Addresses /\ at \notin Here
    BY <1>0, <2>1, AddressKinds, AddressParts
  <2>3. CASE ~N!ServerSession /\ N!Redirect(N!Auth("login", at.callback)) /\ UNCHANGED wanted
    <3>1. TheRequestIsKept'
      BY <2>1, <2>3, KeptRequests DEF TheRequestIsKept, N!Redirect, N!Go
    <3> QED
      BY <1>a, <1>b, <2>1, <2>2, <2>3, <3>1, RedirectKeepsTab
  <2>4. CASE N!Show("branches")
    BY <1>0, <2>1, <2>2, <2>4, ShowKeepsTab
  <2> QED
    BY <1>9, <2>3, <2>4 DEF N!LoadSelectBranch
<1>10. CASE N!LoadChangePassword
  <2>1. display = None /\ at.app = "auth" /\ at.page = "password"
    BY <1>10 DEF N!LoadChangePassword
  <2>2. N!Auth("login", None) \in Addresses /\ at \notin Here
    BY <1>0, <2>1, AddressParts
  <2>3. CASE ~N!ServerSession /\ N!Redirect(N!Auth("login", None)) /\ wanted' = None
    BY <1>a, <1>b, <2>1, <2>2, <2>3, RedirectKeepsTab DEF TheRequestIsKept
  <2>4. CASE N!Show("form")
    BY <1>0, <2>1, <2>2, <2>4, ShowKeepsTab
  <2> QED
    BY <1>10, <2>3, <2>4 DEF N!LoadChangePassword
<1>11. CASE N!LoadNoAccess
  <2>1. display = None /\ at.app = "auth" /\ at.page = "no-access"
    BY <1>11 DEF N!LoadNoAccess
  <2>2. N!Auth("login", None) \in Addresses /\ at \notin Here
    BY <1>0, <2>1, AddressParts
  <2>3. wanted = None
    BY <2>1, KeptRequests
  <2>4. CASE ~N!ServerSession /\ N!Redirect(N!Auth("login", None)) /\ UNCHANGED wanted
    BY <1>a, <1>b, <2>1, <2>2, <2>3, <2>4, RedirectKeepsTab DEF TheRequestIsKept
  <2>5. CASE /\ N!ServerSession /\ N!UsableProducts(cookie.licensed) # {}
             /\ N!Redirect(N!SessionDestination(cookie.licensed)) /\ UNCHANGED wanted
    <3>1. N!SessionDestination(cookie.licensed) \in Here
      BY <1>0, <2>5, Destinations DEF N!ServerSession
    <3> QED
      BY <1>a, <1>b, <2>1, <2>3, <2>5, <3>1, AddressParts, RedirectKeepsTab DEF TheRequestIsKept
  <2>6. CASE N!Show("no access")
    BY <1>0, <2>1, <2>2, <2>6, ShowKeepsTab
  <2> QED
    BY <1>11, <2>4, <2>5, <2>6 DEF N!LoadNoAccess
<1>12. ASSUME NEW place \in N!Entrances, N!Visit(place)
       PROVE  TabIInv'
  <2>1. place \in Addresses
    BY <1>0, <1>12, AddressParts DEF N!Entrances, Here
  <2> QED
    BY <1>0, <1>12, <2>1, FreshTabsWithout DEF N!Visit, N!Assign
<1>13. CASE N!HandleUnauthorized
  <2>1. /\ at' = at /\ display' = None /\ redirects' = 0 /\ display = "page"
        /\ UNCHANGED <<cookie, live, wanted>>
    BY <1>13 DEF N!HandleUnauthorized, N!Assign
  <2>2. ASSUME wanted # None
        PROVE  wanted \in Here /\ at = wanted
    BY <2>1, <2>2, TabAssumption DEF TabIInv, TheRequestIsKept
  <2>3. TheRequestIsKept'
    BY <2>1, <2>2 DEF TheRequestIsKept
  <2> QED
    BY <1>0, <2>1, <2>3, FreshTabs
<1>14. ASSUME NEW licensed \in N!Licences, N!LoginHere(licensed)
       PROVE  TabIInv'
  <2> DEFINE product == N!Or(at.callback, N!SessionDestination(licensed))
  <2>1. /\ at.app = "auth" /\ at.page = "login" /\ display' = None /\ redirects' = 0
        /\ cookie'.licensed = licensed /\ wanted' = wanted
        /\ at' = product \/ at' = N!Auth("select", product)
    BY <1>14 DEF N!LoginHere, N!Mint, N!Assign
  <2>2. at.callback \in Callbacks
    BY <1>0, <2>1, AddressKinds
  <2>3. /\ product \in Here \cup {N!Auth("no-access", None)}
        /\ at.callback # None => product = at.callback
    BY <2>2, OrDestinations
  <2>4. at' \in Addresses
    <3>1. product \in Callbacks /\ product \in Addresses
      BY <2>3, AddressParts DEF Callbacks
    <3> QED
      BY <2>1, <3>1, AddressParts
  <2>5. ASSUME wanted # None
        PROVE  wanted \in Here /\ product = wanted
    BY <2>1, <2>3, <2>5, KeptRequests
  <2>6. TheRequestIsKept'
    BY <2>1, <2>5 DEF TheRequestIsKept
  <2> QED
    BY <2>1, <2>4, <2>6, FreshTabs
<1>15. ASSUME NEW licensed \in N!Licences, N!LoginAtConsole(licensed)
       PROVE  TabIInv'
  <2>1. /\ at.app \in N!Consoles /\ display = "form" /\ at' = N!Page(at.app, "home")
        /\ display' = None /\ redirects' = 0 /\ cookie'.licensed = licensed /\ wanted' = wanted
    BY <1>15 DEF N!LoginAtConsole, N!Mint, N!Assign
  <2>2. at' \in Here
    BY <2>1 DEF Here
  <2>3. wanted = None
    <3> SUFFICES ASSUME wanted # None
                 PROVE  FALSE
      OBVIOUS
    <3>1. at = N!Auth("login", wanted)
      BY <2>1, TabAssumption DEF TabIInv, TheRequestIsKept
    <3> QED
      BY <1>0, <2>1, <3>1 DEF N!Auth
  <2> QED
    BY <2>1, <2>2, <2>3, AddressParts, FreshTabsWithout
<1>16. CASE N!SelectBranch
  <2> DEFINE next == N!Or(at.callback, N!SessionDestination(cookie.licensed))
  <2>1. /\ display = "branches" /\ display' = None /\ redirects' = 0 /\ at' = next
        /\ wanted' = wanted
        /\ \/ live /\ cookie'.licensed = cookie.licensed
           \/ UNCHANGED <<cookie, live>>
    BY <1>16 DEF N!SelectBranch, N!Mint, N!Assign
  <2>2. at.app = "auth" /\ at.page = "select"
    BY <2>1 DEF TabIInv, TabTyped
  <2>3. at.callback \in Callbacks
    BY <1>0, <2>2, AddressKinds
  <2>4. /\ next \in Here \cup {N!Auth("no-access", None)}
        /\ at.callback # None => next = at.callback
    BY <2>3, OrDestinations
  <2>5. ASSUME wanted # None
        PROVE  wanted \in Here /\ next = wanted
    BY <2>2, <2>4, <2>5, KeptRequests
  <2>6. TheRequestIsKept'
    BY <2>1, <2>5 DEF TheRequestIsKept
  <2>7. cookie' # None \/ live' => cookie'.licensed \in N!Licences
    BY <1>0, <2>1
  <2> QED
    BY <2>1, <2>4, <2>6, <2>7, AddressParts, FreshTabs
<1>17. CASE N!ChangePassword
  <2>1. /\ at.app = "auth" /\ at.page = "password" /\ display' = None /\ redirects' = 0
        /\ live /\ cookie'.licensed = cookie.licensed /\ wanted' = wanted
        /\ at' = N!Or(at.callback, N!SessionDestination(cookie.licensed))
    BY <1>17 DEF N!ChangePassword, N!Mint, N!Assign
  <2>2. at' \in Addresses
    BY <1>0, <2>1, AddressKinds, AddressParts, OrDestinations
  <2>3. wanted = None
    BY <2>1, KeptRequests
  <2> QED
    BY <1>0, <2>1, <2>2, <2>3, FreshTabsWithout
<1>18. CASE N!AskToChangePassword
  <2>1. at \in Here /\ N!Visit(N!Auth("password", at))
    BY <1>18 DEF N!AskToChangePassword, TabIInv, TabTyped
  <2>2. N!Auth("password", at) \in Addresses
    BY <2>1, AddressParts
  <2> QED
    BY <1>0, <2>1, <2>2, FreshTabsWithout DEF N!Visit, N!Assign
<1>19. ASSUME NEW opens, N!SwitchBranch(opens)
       PROVE  TabIInv'
  <2>1. /\ at' = at /\ display' = None /\ redirects' = 0 /\ live
        /\ cookie'.licensed = cookie.licensed /\ wanted' = None
    BY <1>19 DEF N!SwitchBranch, N!Mint, N!Assign
  <2> QED
    BY <1>0, <2>1, FreshTabsWithout
<1>20. CASE N!SignOut
  <2>1. /\ at' = IF display = "restricted" THEN N!Page(at.app, "login") ELSE N!Auth("login", None)
        /\ display' = None /\ redirects' = 0 /\ wanted' = None
        /\ \/ cookie' = None /\ live' = FALSE
           \/ UNCHANGED <<cookie, live>>
    BY <1>20 DEF N!SignOut, N!Assign
  <2>2. at' \in Addresses
    BY <1>0, <2>1, AddressParts DEF TabIInv, TabTyped
  <2>3. cookie' # None \/ live' => cookie'.licensed \in N!Licences
    BY <1>0, <2>1
  <2> QED
    BY <2>1, <2>2, <2>3, FreshTabsWithout
<1>21. CASE UNCHANGED tabVars
  <2>1. UNCHANGED <<cookie, live, gateway, at, display, redirects, wanted>>
    BY <1>21 DEF tabVars
  <2>2. N!ServerSession' <=> N!ServerSession
    BY <2>1 DEF N!ServerSession
  <2>3. TabTyped' /\ TheRequestIsKept'
    BY <2>1 DEF TabIInv, TabTyped, TheRequestIsKept
  <2>4. RedirectsRunOut'
    BY <2>1, <2>2 DEF TabIInv, RedirectsRunOut, Ahead, LeftIn, LeftOut
  <2> QED
    BY <2>3, <2>4 DEF TabIInv
<1> QED
  BY <1>1, <1>2, <1>3, <1>4, <1>5, <1>6, <1>7, <1>8, <1>9, <1>10, <1>11, <1>12, <1>13,
     <1>14, <1>15, <1>16, <1>17, <1>18, <1>19, <1>20, <1>21 DEF N!Next

(* The push jobs of a page that is closed have nothing left of them.        *)
ClosedPagesForget ==
  /\ page \in {"closed", "open", "leaving"}
  /\ page = "closed" => \A j \in W!PageJobs : jobs[j] = W!Idle

LEMMA PushTypes == PushIInv /\ ClosedPagesForget => W!TypeOK
<1> SUFFICES ASSUME PushIInv, ClosedPagesForget PROVE W!TypeOK
  OBVIOUS
<1>1. \A j \in W!Jobs : jobs[j].as \in Mailboxes \cup {None}
  BY DEF PushIInv, PushTyped, PushJob
<1> QED
  BY <1>1 DEF PushIInv, PushTyped, ClosedPagesForget, W!TypeOK

LEMMA PushTypedInit == W!Init => ClosedPagesForget
BY DEF W!Init, ClosedPagesForget, W!PageJobs

LEMMA PushTypedNext == PushIInv /\ ClosedPagesForget /\ [W!Next]_pushVars => ClosedPagesForget'
<1> SUFFICES ASSUME PushIInv, ClosedPagesForget, [W!Next]_pushVars
             PROVE  ClosedPagesForget'
  OBVIOUS
<1>1. /\ W!Idle.at = "idle" /\ W!PageJobs \subseteq W!Jobs /\ "worker" \notin W!PageJobs
      /\ jobs \in [W!Jobs -> PushJob]
  BY DEF W!Idle, W!PageJobs, PushIInv, PushTyped
<1>2. ASSUME UNCHANGED page,
             \/ UNCHANGED jobs
             \/ page # "closed"
             \/ \E job : jobs' = [jobs EXCEPT !["worker"] = job]
             \/ \E j \in W!Jobs : jobs' = [jobs EXCEPT ![j] = W!Idle]
             \/ \E j \in W!Jobs : /\ jobs[j].at # "idle"
                                  /\ \E job : jobs' = [jobs EXCEPT ![j] = job]
      PROVE  ClosedPagesForget'
  BY <1>1, <1>2 DEF ClosedPagesForget
<1>3. ASSUME page' \in {"open", "leaving"}
      PROVE  ClosedPagesForget'
  BY <1>3 DEF ClosedPagesForget
<1>4. ASSUME page' = "closed",
             jobs' = [j \in W!Jobs |-> IF j \in W!PageJobs THEN W!Idle ELSE jobs[j]]
      PROVE  ClosedPagesForget'
  BY <1>1, <1>4 DEF ClosedPagesForget
<1>5. ASSUME NEW m \in Mailboxes, W!SendToUser(m) \/ W!Login(m)
      PROVE  ClosedPagesForget'
  BY <1>2, <1>5 DEF W!SendToUser, W!Login, W!device
<1>6. ASSUME NEW e \in Endpoints, W!Rotate(e)
      PROVE  ClosedPagesForget'
  BY <1>2, <1>6 DEF W!Rotate, W!Goes
<1>7. CASE W!Lose
  BY <1>2, <1>7 DEF W!Lose
<1>8. CASE W!OpenPage
  BY <1>3, <1>8 DEF W!OpenPage
<1>9. CASE W!ClosePage \/ W!SignedOut
  BY <1>4, <1>9 DEF W!ClosePage, W!SignedOut
<1>10. CASE W!Reconcile
  <2>1. /\ UNCHANGED page /\ jobs["mount"].at = "ready" /\ "mount" \in W!Jobs
        /\ \E job : jobs' = [jobs EXCEPT !["mount"] = job]
    BY <1>10 DEF W!Reconcile, W!Goes, W!Jobs
  <2> QED
    BY <1>2, <2>1
<1>11. ASSUME NEW answer, W!Subscribe(answer)
       PROVE  ClosedPagesForget'
  BY <1>2, <1>11 DEF W!Subscribe, W!TurnOnOffered, W!Quiet
<1>12. ASSUME NEW j \in W!Jobs, NEW e \in Endpoints, W!CreateSubscription(j, e)
       PROVE  ClosedPagesForget'
  <2>1. /\ UNCHANGED page /\ jobs[j].at # "idle"
        /\ \E job : jobs' = [jobs EXCEPT ![j] = job]
    BY <1>12 DEF W!CreateSubscription, W!Goes
  <2> QED
    BY <1>2, <2>1
<1>13. ASSUME NEW j \in W!Jobs, W!Post(j) \/ W!RequestFails(j)
       PROVE  ClosedPagesForget'
  <2>1. UNCHANGED page /\ jobs' = [jobs EXCEPT ![j] = W!Idle]
    BY <1>13 DEF W!Post, W!RequestFails, W!Goes
  <2> QED
    BY <1>2, <2>1
<1>14. ASSUME NEW j \in W!Jobs, W!Look(j) \/ W!Tell(j) \/ W!Drop(j)
       PROVE  ClosedPagesForget'
  <2>1. /\ UNCHANGED page /\ jobs[j].at # "idle"
        /\ \E job : jobs' = [jobs EXCEPT ![j] = job]
    BY <1>14 DEF W!Look, W!Tell, W!Drop, W!Goes
  <2> QED
    BY <1>2, <2>1
<1>15. CASE W!Unsubscribe
  BY <1>2, <1>15 DEF W!Unsubscribe, W!TurnOffOffered, W!Quiet
<1>16. CASE W!OffIsOver
  <2>1. UNCHANGED page /\ jobs' = [jobs EXCEPT !["off"] = W!Idle] /\ "off" \in W!Jobs
    BY <1>16 DEF W!OffIsOver, W!Goes, W!Jobs
  <2> QED
    BY <1>2, <2>1
<1>17. CASE W!SignOut
  BY <1>2, <1>17 DEF W!SignOut
<1>18. ASSUME NEW j \in W!Jobs, W!Refused(j)
       PROVE  ClosedPagesForget'
  BY <1>3, <1>18 DEF W!Refused
<1>19. ASSUME NEW j \in W!Jobs, W!TeardownFails(j)
       PROVE  ClosedPagesForget'
  <2>1. /\ UNCHANGED page /\ jobs[j].at # "idle"
        /\ \E job : jobs' = [jobs EXCEPT ![j] = job]
    BY <1>19 DEF W!TeardownFails, W!Goes
  <2> QED
    BY <1>2, <2>1
<1>20. CASE UNCHANGED pushVars
  BY <1>2, <1>20 DEF pushVars
<1> QED
  BY <1>5, <1>6, <1>7, <1>8, <1>9, <1>10, <1>11, <1>12, <1>13, <1>14, <1>15, <1>16, <1>17,
     <1>18, <1>19, <1>20 DEF W!Next

----------------------------------------------------------------------------
(* The claims of a cookie, and what a page may show.                        *)
Claims == [forced: BOOLEAN, licensed: N!Licences]

SessionTyped ==
  /\ cookie \in Claims \cup {None}
  /\ live \in BOOLEAN /\ (live => cookie # None)
  /\ account \in N!Accounts
  /\ display \in {None, "page", "restricted", "form", "branches", "no access"}

LEMMA TabTypes == SessionTyped => N!TypeOK
BY DEF SessionTyped, Claims, N!TypeOK

LEMMA TabTypedInit == N!Init => SessionTyped
BY DEF N!Init, SessionTyped

LEMMA GoKeepsSession ==
  ASSUME SessionTyped, NEW place, N!Go(place)
  PROVE  SessionTyped'
BY DEF SessionTyped, N!Go

LEMMA ShowKeepsSession ==
  ASSUME SessionTyped, NEW what \in {"page", "restricted", "form", "branches", "no access"},
         N!Show(what)
  PROVE  SessionTyped'
BY DEF SessionTyped, N!Show

LEMMA MintKeepsSession ==
  ASSUME SessionTyped, NEW forced \in BOOLEAN, NEW licensed \in N!Licences,
         N!Mint(forced, licensed), account' \in N!Accounts, display' = None
  PROVE  SessionTyped'
<1>1. cookie' \in Claims
  BY DEF N!Mint, Claims
<1>2. cookie' # None
  BY <1>1, TabAssumption DEF Claims
<1> QED
  BY <1>1, <1>2 DEF SessionTyped, N!Mint

LEMMA TabTypedNext == TabIInv /\ SessionTyped /\ [N!Next]_tabVars => SessionTyped'
<1> SUFFICES ASSUME TabIInv, SessionTyped, [N!Next]_tabVars
             PROVE  SessionTyped'
  OBVIOUS
<1>1. CASE N!SessionEnds
  BY <1>1 DEF N!SessionEnds, SessionTyped, N!Accounts
<1>2. CASE N!GatewayFlips
  BY <1>2 DEF N!GatewayFlips, SessionTyped
<1>3. CASE N!Bounce \/ N!ForcePasswordChange
  BY <1>3, GoKeepsSession DEF N!Bounce, N!ForcePasswordChange, N!Redirect
<1>4. CASE N!LoadProduct \/ N!LoadConsole \/ N!LoadConsoleLogin \/ N!LoadLogin
           \/ N!LoadSelectBranch \/ N!LoadChangePassword \/ N!LoadNoAccess
  <2>1. CASE N!LoadProduct
    <3>1. \/ \E page_ \in {"home", "deep"} :
               N!Go(N!Auth("login", N!CallbackOf(N!Page(at.app, page_))))
          \/ N!Go(N!Auth("password", None))
          \/ N!Show("page")
      BY <2>1 DEF N!LoadProduct, N!Redirect
    <3> QED
      BY <3>1, GoKeepsSession, ShowKeepsSession
  <2>2. CASE ~N!LoadProduct
    <3>1. \/ \E place : N!Go(place)
          \/ \E what \in {"page", "restricted", "form", "branches", "no access"} : N!Show(what)
      BY <1>4, <2>2 DEF N!LoadConsole, N!LoadConsoleLogin, N!LoadLogin,
                  N!LoadSelectBranch, N!LoadChangePassword, N!LoadNoAccess, N!Redirect
    <3> QED
      BY <3>1, GoKeepsSession, ShowKeepsSession
  <2> QED
    BY <2>1, <2>2
<1>5. ASSUME UNCHANGED <<cookie, live, account>>, display' = None
      PROVE  SessionTyped'
  BY <1>5 DEF SessionTyped
<1>6. ASSUME NEW place, N!Visit(place)
      PROVE  SessionTyped'
  BY <1>5, <1>6 DEF N!Visit, N!Assign
<1>7. CASE N!HandleUnauthorized
  BY <1>5, <1>7 DEF N!HandleUnauthorized, N!Assign
<1>8. ASSUME NEW licensed \in N!Licences, N!LoginHere(licensed) \/ N!LoginAtConsole(licensed)
      PROVE  SessionTyped'
  <2>1. N!Mint(account.forced, licensed) /\ account' = account /\ display' = None
    BY <1>8 DEF N!LoginHere, N!LoginAtConsole, N!Assign
  <2>2. account.forced \in BOOLEAN /\ account \in N!Accounts
    BY DEF SessionTyped, N!Accounts
  <2> QED
    BY <2>1, <2>2, MintKeepsSession
<1>9. ASSUME live PROVE cookie.forced \in BOOLEAN /\ cookie.licensed \in N!Licences
  BY <1>9 DEF SessionTyped, Claims
<1>10. CASE N!SelectBranch
  <2>1. account' = account /\ display' = None
    BY <1>10 DEF N!SelectBranch, N!Assign
  <2>2. CASE UNCHANGED <<cookie, live>>
    BY <1>5, <2>1, <2>2
  <2>3. CASE live /\ N!Mint(cookie.forced, cookie.licensed)
    BY <1>9, <2>1, <2>3, MintKeepsSession DEF SessionTyped
  <2> QED
    BY <1>10, <2>2, <2>3 DEF N!SelectBranch
<1>11. CASE N!ChangePassword
  <2>1. /\ live /\ N!Mint(FALSE, cookie.licensed) /\ display' = None
        /\ account' = [account EXCEPT !.forced = FALSE]
    BY <1>11 DEF N!ChangePassword, N!Assign
  <2>2. account' \in N!Accounts
    BY <2>1 DEF SessionTyped, N!Accounts
  <2> QED
    BY <1>9, <2>1, <2>2, MintKeepsSession
<1>12. CASE N!AskToChangePassword
  BY <1>6, <1>12 DEF N!AskToChangePassword
<1>13. ASSUME NEW opens \in SUBSET {"lms", "lookup"}, N!SwitchBranch(opens)
       PROVE  SessionTyped'
  <2>1. /\ live /\ N!Mint(cookie.forced, cookie.licensed) /\ display' = None
        /\ account' = [account EXCEPT !.opens = opens]
    BY <1>13 DEF N!SwitchBranch, N!Assign
  <2>2. account' \in N!Accounts
    BY <2>1 DEF SessionTyped, N!Accounts, N!Products, N!Consoles
  <2> QED
    BY <1>9, <2>1, <2>2, MintKeepsSession
<1>14. CASE N!SignOut
  <2>1. /\ \/ cookie' = None /\ live' = FALSE
           \/ UNCHANGED <<cookie, live>>
        /\ display' = None /\ account' = account
    BY <1>14 DEF N!SignOut, N!Assign
  <2>2. CASE cookie' = None /\ live' = FALSE
    BY <2>1, <2>2, Zenon DEF SessionTyped
  <2>3. CASE UNCHANGED <<cookie, live>>
    BY <1>5, <2>1, <2>3
  <2> QED
    BY <2>1, <2>2, <2>3
<1>15. CASE UNCHANGED tabVars
  BY <1>15 DEF tabVars, SessionTyped
<1> QED
  BY <1>1, <1>2, <1>3, <1>4, <1>6, <1>7, <1>8, <1>10, <1>11, <1>12, <1>13, <1>14, <1>15
     DEF N!Next

----------------------------------------------------------------------------
(* The parts put together.                                                  *)

IInv ==
  /\ open = "roles" => RolesIInv
  /\ open = "modules" => ModulesIInv
  /\ open = "directory" => DirectoryIInv
  /\ open = "matrix" => MatrixIInv /\ MatrixTyped
  /\ open = "lookups" => LookupsIInv /\ FormsTyped
  /\ open = "campaigns" => CampaignsIInv /\ CampaignsTyped /\ DialogTyped
  /\ open = "rules" => RulesIInv
  /\ open = "pages" => PagesIInv
  /\ open = "filter" => FilterIInv
  /\ open = "pull" => Q!StartedWorkIsFollowed /\ PullTyped
  /\ open = "rerun" => RerunIInv /\ RerunTyped
  /\ open = "keys" => KeysIInv
  /\ open = "user" => FormIInv /\ DraftTyped /\ LoadsTyped
  /\ open = "push" => PushIInv /\ ClosedPagesForget
  /\ open = "tab" => TabIInv /\ SessionTyped

(* Which part is open never changes, and a step is one of that part.        *)
LEMMA OnlyTheOpenPartSteps ==
  ASSUME [Next]_consoles
  PROVE  /\ open' = open
         /\ open = "roles" => [R!Next]_roleVars
         /\ open = "modules" => [M!Next]_moduleVars
         /\ open = "directory" => [D!Next]_directoryVars
         /\ open = "matrix" => [G!Next]_matrixVars
         /\ open = "lookups" => [L!Next]_lookupVars
         /\ open = "campaigns" => [C!Next]_campaignVars
         /\ open = "rules" => [T!Next]_ruleVars
         /\ open = "pages" => [P!Next]_pageVars
         /\ open = "filter" => [F!Next]_filterVars
         /\ open = "pull" => [Q!Next]_pullVars
         /\ open = "rerun" => [A!Next]_rerunVars
         /\ open = "keys" => [K!Next]_keyVars
         /\ open = "user" => [U!Next]_formVars
         /\ open = "push" => [W!Next]_pushVars
         /\ open = "tab" => [N!Next]_tabVars
<1>1. CASE RolesStep
  BY <1>1 DEF RolesStep, Still
<1>2. CASE ModulesStep
  BY <1>2 DEF ModulesStep, Still
<1>3. CASE DirectoryStep
  BY <1>3 DEF DirectoryStep, Still
<1>4. CASE MatrixStep
  BY <1>4 DEF MatrixStep, Still
<1>5. CASE LookupsStep
  BY <1>5 DEF LookupsStep, Still
<1>6. CASE CampaignsStep
  BY <1>6 DEF CampaignsStep, Still
<1>7. CASE RulesStep
  BY <1>7 DEF RulesStep, Still
<1>8. CASE PagesStep
  BY <1>8 DEF PagesStep, Still
<1>9. CASE FilterStep
  BY <1>9 DEF FilterStep, Still
<1>10. CASE PullStep
  BY <1>10 DEF PullStep, Still
<1>11. CASE RerunStep
  BY <1>11 DEF RerunStep, Still
<1>12. CASE KeysStep
  BY <1>12 DEF KeysStep, Still
<1>13. CASE FormStep
  BY <1>13 DEF FormStep, Still
<1>14. CASE PushStep
  BY <1>14 DEF PushStep, Still
<1>15. CASE TabStep
  BY <1>15 DEF TabStep, Still
<1>16. CASE UNCHANGED consoles
  BY <1>16 DEF consoles
<1> QED
  BY <1>1, <1>2, <1>3, <1>4, <1>5, <1>6, <1>7, <1>8, <1>9, <1>10, <1>11, <1>12, <1>13,
     <1>14, <1>15, <1>16 DEF Next

(* The part that is open starts in its first state.                         *)
LEMMA InitIInv == Init => IInv
BY RolesInit, ModulesInit, DirectoryInit, MatrixInit, MatrixTypedInit, LookupsInit,
   FormsTypedInit, CampaignsInit, CampaignsTypedInit, RulesInit, PagesInit, FilterInit,
   PullInit, PullTypedInit, RerunInit, RerunTypedInit, KeysInit, FormInit, FormTypedInit,
   PushInit, PushTypedInit, TabInit, TabTypedInit
   DEF Init, IInv

LEMMA NextIInv == IInv /\ [Next]_consoles => IInv'
<1> SUFFICES ASSUME IInv, [Next]_consoles
             PROVE  IInv'
  OBVIOUS
<1>1. open' = open
  BY OnlyTheOpenPartSteps
<1>2. open = "roles" => RolesIInv'
  BY OnlyTheOpenPartSteps, RolesNext DEF IInv
<1>3. open = "modules" => ModulesIInv'
  BY OnlyTheOpenPartSteps, ModulesNext DEF IInv
<1>4. open = "directory" => DirectoryIInv'
  BY OnlyTheOpenPartSteps, DirectoryNext DEF IInv
<1>5. open = "matrix" => (MatrixIInv /\ MatrixTyped)'
  BY OnlyTheOpenPartSteps, MatrixNext, MatrixTypedNext DEF IInv
<1>6. open = "lookups" => (LookupsIInv /\ FormsTyped)'
  BY OnlyTheOpenPartSteps, LookupsNext, FormsTypedNext DEF IInv
<1>7. open = "campaigns" => (CampaignsIInv /\ CampaignsTyped /\ DialogTyped)'
  BY OnlyTheOpenPartSteps, CampaignsNext, CampaignsTypedNext, DialogTypedNext DEF IInv
<1>8. open = "rules" => RulesIInv'
  BY OnlyTheOpenPartSteps, RulesNext DEF IInv
<1>9. open = "pages" => PagesIInv'
  BY OnlyTheOpenPartSteps, PagesNext DEF IInv
<1>10. open = "filter" => FilterIInv'
  BY OnlyTheOpenPartSteps, FilterNext DEF IInv
<1>11. open = "pull" => (Q!StartedWorkIsFollowed /\ PullTyped)'
  BY OnlyTheOpenPartSteps, PullNext, PullTypedNext DEF IInv
<1>12. open = "rerun" => (RerunIInv /\ RerunTyped)'
  BY OnlyTheOpenPartSteps, RerunNext, RerunTypedNext DEF IInv
<1>13. open = "keys" => KeysIInv'
  BY OnlyTheOpenPartSteps, KeysNext DEF IInv
<1>14. open = "user" => (FormIInv /\ DraftTyped /\ LoadsTyped)'
  BY OnlyTheOpenPartSteps, FormNext, DraftTypedNext, LoadsTypedNext DEF IInv
<1>15. open = "push" => (PushIInv /\ ClosedPagesForget)'
  BY OnlyTheOpenPartSteps, PushNext, PushTypedNext DEF IInv
<1>16. open = "tab" => (TabIInv /\ SessionTyped)'
  BY OnlyTheOpenPartSteps, TabNext, TabTypedNext DEF IInv
<1> QED
  BY <1>1, <1>2, <1>3, <1>4, <1>5, <1>6, <1>7, <1>8, <1>9, <1>10, <1>11, <1>12, <1>13,
     <1>14, <1>15, <1>16 DEF IInv

(* The invariant of the part that is open holds in every state.             *)
THEOREM Invariance == Spec => []IInv
BY InitIInv, NextIInv, PTL DEF Spec

(* Every part: its variables have their types, and of the dry runs, queries *)
(* and lists of forms on their way one at most is the current one.          *)
THEOREM TypeCorrect == Spec => []TypeOK
<1>1. IInv => TypeOK
  <2> SUFFICES ASSUME IInv PROVE TypeOK
    OBVIOUS
  <2>1. open = "roles" => R!TypeOK
    BY RoleTypes DEF IInv, RolesIInv
  <2>2. open = "modules" => M!TypeOK
    BY DEF IInv, ModulesIInv
  <2>3. open = "directory" => D!TypeOK
    BY DEF IInv, DirectoryIInv, DirectoryTyped
  <2>4. open = "matrix" => G!TypeOK
    BY MatrixTypes DEF IInv
  <2>5. open = "lookups" => L!TypeOK
    BY LookupTypes DEF IInv
  <2>6. open = "campaigns" => C!TypeOK
    BY DialogTypes DEF IInv
  <2>7. open = "rules" => T!TypeOK
    BY RuleTypes DEF IInv, RulesIInv
  <2>8. open = "pages" => P!TypeOK
    BY PageTypes DEF IInv
  <2>9. open = "filter" => F!TypeOK
    BY FilterTypes DEF IInv
  <2>10. open = "pull" => Q!TypeOK
    BY PullTypes DEF IInv
  <2>11. open = "rerun" => A!TypeOK
    BY RerunTypes DEF IInv
  <2>12. open = "keys" => K!TypeOK
    BY KeyTypes DEF IInv
  <2>13. open = "user" => U!TypeOK
    BY FormTypes DEF IInv
  <2>14. open = "push" => W!TypeOK
    BY PushTypes DEF IInv
  <2>15. open = "tab" => N!TypeOK
    BY TabTypes DEF IInv
  <2> QED
    BY <2>1, <2>2, <2>3, <2>4, <2>5, <2>6, <2>7, <2>8, <2>9, <2>10, <2>11, <2>12, <2>13,
       <2>14, <2>15 DEF TypeOK
<1> QED
  BY <1>1, Invariance, PTL

(* roles.service: whichever PATCHes overlap, a role with a reserved name has *)
(* that name's rank.                                                        *)
THEOREM ReservedNamesKeepTheirRank == Spec => []ReservedNamesCarryTheirRank
<1>1. IInv => ReservedNamesCarryTheirRank
  BY DEF IInv, RolesIInv, ReservedNamesCarryTheirRank
<1> QED
  BY <1>1, Invariance, PTL

(* tenant-modules.service: a PUT that ran whole and alone leaves exactly the *)
(* listed modules active.                                                   *)
THEOREM WholePutsWriteTheSet == Spec => []WholePutsAreExact
<1>1. IInv => WholePutsAreExact
  BY DEF IInv, ModulesIInv, WholePutsAreExact
<1> QED
  BY <1>1, Invariance, PTL

(* admin-service: departments, branches and places belong to the tenant that *)
(* points at them, whatever writes overlap or stop half way.                *)
THEOREM CataloguesPointHome == Spec => []RecordsPointHome
<1>1. IInv => RecordsPointHome
  BY DirectoryHome DEF IInv, RecordsPointHome
<1> QED
  BY <1>1, Invariance, PTL

(* CapabilityMatrixClient: a save over the role's own rows resolves to what *)
(* the boxes showed.                                                        *)
THEOREM SavesAreAsShown == Spec => []SavedFromTheRolesRows
<1>1. IInv => SavedFromTheRolesRows
  BY MatrixSaved DEF IInv, SavedFromTheRolesRows
<1> QED
  BY <1>1, Invariance, PTL

(* EditLookupModal: an edit sends no column nobody touched.                 *)
THEOREM EditsSendWhatWasTouched == Spec => []OthersColumnsStay
<1>1. IInv => OthersColumnsStay
  BY DEF IInv, LookupsIInv, OthersColumnsStay
<1> QED
  BY <1>1, Invariance, PTL

(* ConfirmMappingDialog: a commit confirms what was previewed last, however *)
(* the answers of the previews are ordered.                                 *)
THEOREM CommitsConfirmThePreview == Spec => []ConfirmsWerePreviewed
<1>1. IInv => ConfirmsWerePreviewed
  BY DEF IInv, CampaignsIInv, ConfirmsWerePreviewed
<1> QED
  BY <1>1, Invariance, PTL

(* The page mapping modal offers the forms of the page chosen, whichever    *)
(* lists of other pages are still on their way.                             *)
THEOREM FormsAreThePages == Spec => []FormsMatchThePage
<1>1. IInv => FormsMatchThePage
  BY DEF IInv, PagesIInv, FormsMatchThePage
<1> QED
  BY <1>1, Invariance, PTL

(* PullFilterForm: a pull asked for on settled lists names campaigns of its *)
(* pages alone.                                                             *)
THEOREM PullsAreInScope == Spec => []PullsStayInScope
<1>1. IInv => PullsStayInScope
  BY DEF IInv, FilterIInv, PullsStayInScope
<1> QED
  BY <1>1, Invariance, PTL

(* LeadPullClient: a run on screen that has work to do is polled.           *)
THEOREM TheRunIsPolled == Spec => []StartedWorkIsFollowed
<1>1. IInv => StartedWorkIsFollowed
  BY DEF IInv, StartedWorkIsFollowed
<1> QED
  BY <1>1, Invariance, PTL

(* AssignmentRerunClient: only a batch that was previewed is run.           *)
THEOREM OnlyPreviewsRun == Spec => []RunsArePreviewed
<1>1. IInv => RunsArePreviewed
  BY DEF IInv, RerunIInv, RunsArePreviewed
<1> QED
  BY <1>1, Invariance, PTL

(* The API token dialogs: a key that was made is shown, under way or lost.  *)
THEOREM KeysReachTheirMaker == Spec => []KeysAreShownToTheirMaker
<1>1. IInv => KeysAreShownToTheirMaker
  BY DEF IInv, KeysIInv, KeysAreShownToTheirMaker
<1> QED
  BY <1>1, Invariance, PTL

(* EditUserModal: a save leaves what nobody touched, in whatever order the  *)
(* lists came in.                                                           *)
THEOREM SavesLeaveTheRest == Spec => []UntouchedFieldsStay
<1>1. IInv => UntouchedFieldsStay
  BY DEF IInv, FormIInv, UntouchedFieldsStay
<1> QED
  BY <1>1, Invariance, PTL

(* EditUserModal: who leaves a branch or the platform leaves the leads to   *)
(* somebody named, or to nobody once the fetch of who could take them is    *)
(* over, with an empty list or without one.                                 *)
THEOREM LeadsFindAnHeir == Spec => []LeadsAreNeverForgotten
<1>1. IInv => LeadsAreNeverForgotten
  BY DEF IInv, FormIInv, LeadsAreNeverForgotten
<1> QED
  BY <1>1, Invariance, PTL

(* usePushSubscription, the worker and the sign-out: no row leads to a      *)
(* device whose teardown has run to its end, and the row of one that has    *)
(* registered is its user's.  A teardown that the reload or the browser     *)
(* cuts short promises neither until the next registration.                 *)
THEOREM PushesKeepToTheUser == Spec => []PushesFollowTheUser
<1>1. IInv => PushesFollowTheUser
  BY PushQuiet DEF IInv, PushesFollowTheUser
<1> QED
  BY <1>1, Invariance, PTL

(* usePushSubscription: what was turned off is not subscribed again, unless *)
(* the reconciler was past its checks.                                      *)
THEOREM OffStaysOff == Spec => []TurnedOffStaysOff
<1>1. IInv => TurnedOffStaysOff
  BY PushQuiet DEF IInv, TurnedOffStaysOff
<1> QED
  BY <1>1, Invariance, PTL

(* The web applications: once nothing changes, three redirects lead to a    *)
(* page, whatever the cookie claims.                                        *)
THEOREM ThreeRedirectsAreEnough ==
  ASSUME MaxRedirects \in Nat, MaxRedirects >= 3
  PROVE  Spec => []RedirectsEnd
<1>1. IInv => RedirectsEnd
  <2> SUFFICES ASSUME TabIInv
               PROVE  N!RedirectsEnd
    BY DEF IInv, RedirectsEnd
  <2>1. redirects \in Nat /\ redirects <= 3
    BY DEF TabIInv, TabTyped, RedirectsRunOut
  <2> QED
    BY <2>1 DEF N!RedirectsEnd
<1> QED
  BY <1>1, Invariance, PTL

(* The web applications: a login ends on the page that asked for it.        *)
THEOREM LoginsReturn == Spec => []LoginReturnsToTheRequest
<1>1. IInv => LoginReturnsToTheRequest
  <2> SUFFICES ASSUME TabIInv
               PROVE  N!LoginReturnsToTheRequest
    BY DEF IInv, LoginReturnsToTheRequest
  <2> QED
    BY TabAssumption DEF TabIInv, TheRequestIsKept, N!LoginReturnsToTheRequest
<1> QED
  BY <1>1, Invariance, PTL

(* FkSelect: a child is chosen among those of the parent on the form, while *)
(* lists of earlier parents are still on their way.                         *)
THEOREM ChildrenComeFromTheirParent == Spec => ChildrenAreChosenUnderTheirParent
<1>1. IInv /\ [Next]_consoles => (open = "lookups" => L!ChildChosen)
  BY OnlyTheOpenPartSteps, LookupsChoose DEF IInv
<1> QED
  BY <1>1, Invariance, PTL DEF Spec, ChildrenAreChosenUnderTheirParent

(* CampaignTypesClient: between changes the screen holds what the service   *)
(* has, unless others changed it or an answer was lost.                     *)
THEOREM TheScreenIsCurrent == Spec => []ScreenIsTheServersTruth
<1>1. IInv => ScreenIsTheServersTruth
  BY RulesShown DEF IInv, ScreenIsTheServersTruth
<1> QED
  BY <1>1, Invariance, PTL

=============================================================================
