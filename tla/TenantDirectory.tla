--------------------------- MODULE TenantDirectory ---------------------------
(***************************************************************************)
(* Branches, departments and places of several tenants as the admin        *)
(* service writes them.  Its transactions bypass row-level security, so    *)
(* what keeps the tenants' records apart are the service's own checks,     *)
(* each a transaction before the write, and the composite foreign keys on  *)
(* places.  Names, addresses and active flags are left out.                *)
(***************************************************************************)
EXTENDS Naturals

CONSTANTS
  Tenants, Orgs, Departments,
  Countries, States, Cities,   \* geo.*: one table per level
  Requests, None

VARIABLES
  orgs,         \* entity.organizations: tenant and city, or None
  departments,  \* iam.departments: tenant and branch (None: tenant-wide)
  places,       \* geo.*: tenant and parent (None: a country), or None
  writes,       \* department requests between check and write
  moved         \* history: branches given to another tenant

directory == <<orgs, departments, places, writes, moved>>

Places == Countries \cup States \cup Cities

Organization == [tenant: Tenants, city: Cities \cup {None}]
Department == [tenant: Tenants, org: Orgs \cup {None}]
Country == [tenant: Tenants, parent: {None}]
State == [tenant: Tenants, parent: Countries]
City == [tenant: Tenants, parent: States]

Init ==
  /\ orgs = [o \in Orgs |-> None]
  /\ departments = [d \in Departments |-> None]
  /\ places = [p \in Places |-> None]
  /\ writes = [q \in Requests |-> None]
  /\ moved = {}

\* The composite foreign keys of states and cities ask the same again.
CountryBelongsToTenant(c, t) == places[c] # None /\ places[c].tenant = t
StateBelongsToTenant(s, t) == places[s] # None /\ places[s].tenant = t

WritePlace(p, row) ==
  /\ places' = [places EXCEPT ![p] = row]
  /\ UNCHANGED <<orgs, departments, writes, moved>>

\* A PATCH of a country keeps its tenant: only names and codes change.
CreateCountry(c, t) ==
  places[c] = None /\ WritePlace(c, [tenant |-> t, parent |-> None])

CreateState(s, t, c) ==
  /\ places[s] = None /\ CountryBelongsToTenant(c, t)
  /\ WritePlace(s, [tenant |-> t, parent |-> c])

\* The row and the new parent are both looked for in the tenant.
UpdateState(s, t, c) ==
  /\ StateBelongsToTenant(s, t) /\ CountryBelongsToTenant(c, t)
  /\ WritePlace(s, [places[s] EXCEPT !.parent = c])

CreateCity(c, t, s) ==
  /\ places[c] = None /\ StateBelongsToTenant(s, t)
  /\ WritePlace(c, [tenant |-> t, parent |-> s])

UpdateCity(c, t, s) ==
  /\ places[c] # None /\ places[c].tenant = t /\ StateBelongsToTenant(s, t)
  /\ WritePlace(c, [places[c] EXCEPT !.parent = s])

\* organizations.create and update: the tenant exists, the city is its own.
CityFits(c, t) == c # None => places[c] # None /\ places[c].tenant = t

CreateOrg(o, t, c) ==
  /\ orgs[o] = None
  /\ CityFits(c, t)
  /\ orgs' = [orgs EXCEPT ![o] = [tenant |-> t, city |-> c]]
  /\ UNCHANGED <<departments, places, writes, moved>>

\* A PATCH may name another tenant: nothing looks at the departments.
UpdateOrg(o, t, c) ==
  /\ orgs[o] # None
  /\ CityFits(c, t)
  /\ orgs' = [orgs EXCEPT ![o] = [tenant |-> t, city |-> c]]
  /\ moved' = IF t # orgs[o].tenant THEN moved \cup {o} ELSE moved
  /\ UNCHANGED <<departments, places, writes>>

\* Mutant: the branch only has to exist.
OrgBelongsToAnyTenant(o, t) == orgs[o] # None

OrgBelongsToTenant(o, t) == orgs[o] # None /\ orgs[o].tenant = t

\* departments.create and update: assertOrgInTenant, then the write.  An
\* update also looks for the row under the tenant the caller selected.
CheckDepartment(q, d, t, o) ==
  /\ writes[q] = None
  /\ departments[d] # None => departments[d].tenant = t
  /\ o # None => OrgBelongsToTenant(o, t)
  /\ writes' = [writes EXCEPT ![q] = [dept |-> d, tenant |-> t, org |-> o,
                                      new |-> departments[d] = None]]
  /\ UNCHANGED <<orgs, departments, places, moved>>

WriteDepartment(q) ==
  LET w == writes[q] IN
  /\ w # None
  /\ writes' = [writes EXCEPT ![q] = None]
  /\ departments' =
       IF w.new /\ departments[w.dept] # None THEN departments
       ELSE [departments EXCEPT ![w.dept] = [tenant |-> w.tenant, org |-> w.org]]
  /\ UNCHANGED <<orgs, places, moved>>

Next ==
  \/ \E t \in Tenants, c \in Countries : CreateCountry(c, t)
  \/ \E t \in Tenants, c \in Countries, s \in States :
       CreateState(s, t, c) \/ UpdateState(s, t, c)
  \/ \E t \in Tenants, s \in States, c \in Cities :
       CreateCity(c, t, s) \/ UpdateCity(c, t, s)
  \/ \E o \in Orgs, t \in Tenants, c \in Cities \cup {None} :
       CreateOrg(o, t, c) \/ UpdateOrg(o, t, c)
  \/ \E q \in Requests, d \in Departments, t \in Tenants, o \in Orgs \cup {None} :
       CheckDepartment(q, d, t, o)
  \/ \E q \in Requests : WriteDepartment(q)

Spec == Init /\ [][Next]_directory

----------------------------------------------------------------------------
TypeOK ==
  /\ orgs \in [Orgs -> Organization \cup {None}]
  /\ departments \in [Departments -> Department \cup {None}]
  /\ places \in [Places -> Country \cup State \cup City \cup {None}]
  /\ moved \subseteq Orgs

(* "An org_id from a different tenant would produce a department that shows *)
(* up under one tenant while pointing at another's branch": whatever is     *)
(* created, patched and overlaps, a department points into its own tenant,  *)
(* unless the branch itself was given to another tenant afterwards, which   *)
(* organizations.update allows without a look at its departments.  Branches *)
(* and places stay with places of their own tenant in any case.             *)
RecordsPointHome ==
  /\ \A d \in Departments :
       LET row == departments[d] IN
       row # None /\ row.org \notin moved \cup {None} =>
         orgs[row.org].tenant = row.tenant
  /\ \A o \in Orgs :
       orgs[o] # None /\ orgs[o].city # None =>
         places[orgs[o].city].tenant = orgs[o].tenant
  /\ \A p \in Places :
       places[p] # None /\ places[p].parent # None =>
         places[places[p].parent].tenant = places[p].tenant

=============================================================================
