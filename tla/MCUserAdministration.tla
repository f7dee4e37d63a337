------------------------ MODULE MCUserAdministration ------------------------
(* Small instances of UserAdministration: two branches of one tenant, one   *)
(* campaign type of the sales department, a sales role and a role of        *)
(* another department, a tenant_admin and the administrator of a branch.    *)
EXTENDS UserAdministration, TLC

CONSTANTS o1, o2, sales, other, leadType

MCRank == [r \in Roles |-> 1]
MCDeptOf == [x \in Roles \cup Types |-> IF x = other THEN "fitness" ELSE "sales"]
MCActors == {[rank |-> 2, tenantWide |-> TRUE, org |-> o1, manages |-> {}],
             [rank |-> 1, tenantWide |-> FALSE, org |-> o2, manages |-> {o2}]}

In(r, share) == [role |-> r, weights |-> [t \in Types |-> share]]
Plain == [active |-> Unsaid, role |-> Unsaid, org |-> Unsaid, home |-> Unsaid,
          leadsTo |-> Unsaid, branches |-> Unsaid]
Listed(b1, b2, h, to) ==
  [Plain EXCEPT !.branches = [o \in Orgs |-> IF o = o1 THEN b1 ELSE b2],
                !.home = h, !.leadsTo = to]

\* A deactivation with its hand-over, a reactivation, a role by name, a legacy
\* transfer, and branch lists: a transfer, both branches, and a weight that the
\* list keeps or drops under a role of another department.
MCUpdates ==
  {[Plain EXCEPT !.active = FALSE, !.leadsTo = v] :
     v \in {None} \cup Users} \cup
  {[Plain EXCEPT !.active = TRUE], [Plain EXCEPT !.role = other],
   [Plain EXCEPT !.org = o1, !.leadsTo = None],
   Listed(None, In(sales, 1), o2, None), Listed(None, In(sales, 0), o2, Unsaid),
   Listed(In(sales, 1), In(other, None), o1, Unsaid),
   Listed(In(sales, 1), In(other, 1), o1, Unsaid)}

MCCreations ==
  {[home |-> o1, branches |-> [o \in Orgs |-> IF o = o1 THEN In(sales, 1) ELSE b]] :
     b \in {None, In(sales, 1)}}
MCGrants == {[org |-> o2, role |-> sales, type |-> leadType, share |-> 1],
             [org |-> o2, role |-> other, type |-> leadType, share |-> 0]}

Symmetry == Permutations(Calls) \cup Permutations(Users)

============================================================================
