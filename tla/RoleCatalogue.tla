---------------------------- MODULE RoleCatalogue ----------------------------
(***************************************************************************)
(* The roles of one tenant (iam.user_roles) as the admin service writes    *)
(* them.  A role is looked up in one transaction and patched in another,   *)
(* so patches overlap; the rank rules are the service's, uniqueness is the *)
(* database's.  Labels, descriptions and the active flag are left out.     *)
(***************************************************************************)
EXTENDS Integers

CONSTANTS RoleIds, Departments, OrdinaryNames, RanksAsked, Requests, None

VARIABLES
  roles,     \* iam.user_roles: department, name and rank, or None
  patches,   \* the PATCH requests between their two transactions
  raced      \* history: roles patched while another patch had read them

catalogue == <<roles, patches, raced>>

\* RESERVED_ROLE_RANK; super_admin can be neither created nor renamed to.
ReservedRank == [read_only |-> 0, org_admin |-> 980, tenant_admin |-> 990]
ReservedNames == DOMAIN ReservedRank
DynamicBand == 1..979

Names == OrdinaryNames \cup ReservedNames
Role == [dept: Departments, name: Names, rank: 0..1000]
Patch == [name: Names \cup {None}, rank: RanksAsked \cup {None},
          dept: Departments \cup {None}]

AssertRank(name, rank) ==
  rank # None =>
    IF name \in ReservedNames THEN rank = ReservedRank[name]
    ELSE rank \in DynamicBand

\* A reserved name always stores its fixed rank.
StoredRank(name, rank) ==
  IF name \in ReservedNames THEN ReservedRank[name] ELSE rank

\* uix_user_roles_tenant_name and uix_user_roles_tenant_dept_rank.
Admits(table, r, role) ==
  \A s \in RoleIds \ {r} :
    table[s] # None =>
      /\ table[s].name # role.name
      /\ ~(table[s].dept = role.dept /\ table[s].rank = role.rank)

Init ==
  /\ roles = [r \in RoleIds |-> None]
  /\ patches = [q \in Requests |-> None]
  /\ raced = {}

Create(r, dept, name, rank) ==
  LET role == [dept |-> dept, name |-> name, rank |-> StoredRank(name, rank)] IN
  /\ roles[r] = None
  /\ AssertRank(name, rank)
  /\ Admits(roles, r, role)
  /\ roles' = [roles EXCEPT ![r] = role]
  /\ UNCHANGED <<patches, raced>>

\* Mutant: the fixed rank is not asserted again when a row becomes reserved.
FieldsAsSent(existing, patch) == patch

\* The columns the UPDATE will set, from the row as it was read.
Fields(existing, patch) ==
  LET next == IF patch.name # None THEN patch.name ELSE existing.name IN
  [patch EXCEPT !.rank = IF next \in ReservedNames THEN ReservedRank[next] ELSE @]

UpdateRead(q, r, patch) ==
  LET next == IF patch.name # None THEN patch.name ELSE roles[r].name IN
  /\ roles[r] # None
  /\ patches[q] = None
  /\ AssertRank(next, patch.rank)
  /\ patches' = [patches EXCEPT ![q] = [role |-> r, fields |-> Fields(roles[r], patch)]]
  /\ UNCHANGED <<roles, raced>>

Set(row, fields) ==
  [f \in DOMAIN row |-> IF fields[f] = None THEN row[f] ELSE fields[f]]

\* The UPDATE names the row by its id alone; a unique index may refuse it.
UpdateWrite(q) ==
  LET r == patches[q].role
      row == Set(roles[r], patches[q].fields) IN
  /\ patches[q] # None
  /\ patches' = [patches EXCEPT ![q] = None]
  /\ \/ /\ Admits(roles, r, row)
        /\ roles' = [roles EXCEPT ![r] = row]
        /\ raced' = IF \E p \in Requests \ {q} : patches[p] # None /\ patches[p].role = r
                    THEN raced \cup {r} ELSE raced
     \/ ~Admits(roles, r, row) /\ UNCHANGED <<roles, raced>>

Next ==
  \/ \E r \in RoleIds, dept \in Departments, name \in Names, rank \in RanksAsked :
       Create(r, dept, name, rank)
  \/ \E q \in Requests, r \in RoleIds, patch \in Patch : UpdateRead(q, r, patch)
  \/ \E q \in Requests : UpdateWrite(q)

Spec == Init /\ [][Next]_catalogue

----------------------------------------------------------------------------
TypeOK ==
  /\ roles \in [RoleIds -> Role \cup {None}]
  /\ \A q \in Requests : patches[q] # None =>
       /\ roles[patches[q].role] # None
       /\ patches[q].fields.rank \in 0..1000 \cup {None}
  /\ raced \subseteq RoleIds

(* A role with a reserved name carries that name's fixed rank, however it   *)
(* came by the name, as long as no two patches of it overlapped: platform   *)
(* roles are derived from these ranks, and a PATCH may carry a new name, a  *)
(* new rank or both.                                                        *)
ReservedNamesCarryTheirRank ==
  \A r \in RoleIds \ raced :
    roles[r] # None /\ roles[r].name \in ReservedNames =>
      roles[r].rank = ReservedRank[roles[r].name]

=============================================================================
