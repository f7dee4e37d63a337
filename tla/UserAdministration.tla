------------------------- MODULE UserAdministration -------------------------
(***************************************************************************)
(* How identity-service administers a member: POST, PATCH and DELETE       *)
(* /users, the branch grants, and the lead-assignment shares.  A PATCH is  *)
(* not one transaction but a sequence of them, with a call to              *)
(* leads-service in the middle and one to hr-service at the end; each of   *)
(* its awaits that writes is a step here, and it may fail at any of them.  *)
(*                                                                         *)
(* A deletion, a grant and a revocation are taken from their checks to     *)
(* their (only) transaction in one step: what they checked, their own      *)
(* transaction or a trigger checks again.  The two revocations a PATCH may *)
(* write one after the other are one step.                                 *)
(*                                                                         *)
(* Left out: names, e-mail addresses and mail, managers (ReportingLines),  *)
(* passwords and the content of tokens (Sessions), and a second tenant.    *)
(* leads-service and hr-service are external: the first moves a member's   *)
(* open leads of a branch and assigns new leads to memberships with a      *)
(* share; the profiles the second keeps are left out.                      *)
(***************************************************************************)
EXTENDS Integers, FiniteSetsExt

CONSTANTS
  Users, Orgs, Roles,
  Types,          \* marketing.campaign_types: the pools leads are drawn from
  Shares,         \* the weights a request may carry
  Full,           \* the weights of a pool add up to this, 100 in the code
  Rank,           \* iam.user_roles.rank
  LeadRoles,      \* roles inside the rank band of auto-assignment
  DeptOf,         \* department_id of a role or a campaign type
  Actors,         \* the administrators: [rank, tenantWide, org, manages]
  Creations,      \* the POST bodies a run sends: [branches, home]
  Updates,        \* the PATCH bodies a run sends
  Grants,         \* the grants a run makes: [org, role, type, share]
  MaxRequests,    \* bound on the requests of a run
  Calls,          \* requests in flight at the same time
  None, Unsaid    \* SQL NULL, and a field the request does not carry

Weights == [Types -> Shares \cup {None}]
Assignment == [role: Roles, weights: Weights]
Assignments == [Orgs -> Assignment \cup {None}]

ASSUME AdministrationAssumption ==
  /\ 0 \in Shares /\ Shares \subseteq Nat /\ Full \in Nat \ {0}
  /\ Rank \in [Roles -> Nat]
  /\ LeadRoles \subseteq Roles
  /\ Roles \cup Types \subseteq DOMAIN DeptOf
  /\ \A a \in Actors : a.rank \in Nat /\ a.tenantWide \in BOOLEAN
                       /\ a.org \in Orgs /\ a.manages \subseteq Orgs
  /\ MaxRequests \in Nat

\* updateUserSchema: the whole branch list comes with a home that is in it.
ASSUME UpdateAssumption ==
  \A r \in Updates :
    /\ r.active \in BOOLEAN \cup {Unsaid}
    /\ r.role \in Roles \cup {Unsaid}
    /\ r.org \in Orgs \cup {Unsaid}
    /\ r.leadsTo \in Users \cup {None, Unsaid}
    /\ r.branches \in Assignments \cup {Unsaid}
    /\ r.branches # Unsaid => r.home \in Orgs /\ r.branches[r.home] # None

\* createUserSchema and addOrgMappingSchema.
ASSUME BodyAssumption ==
  /\ \A b \in Creations : b.branches \in Assignments
  /\ \A g \in Grants : g.org \in Orgs /\ g.role \in Roles /\ g.type \in Types
                       /\ g.share \in Shares

\* What a request in flight is in the middle of: a PATCH, a revocation that is
\* all that is left, hr-service's answer to a POST, a change of the weights.
Update == [pc: {"fields", "sync_role", "resolve", "transfer", "move", "set_home",
                "reconcile", "refused", "revoke", "reassign", "hr"},
           user: Users, by: Actors, req: Updates, from: Orgs, role: Roles, home: Orgs,
           active: BOOLEAN]
Revocation == [pc: {"revoke"}, user: Users]
HrSync == [pc: {"hr"}, user: Users, home: Orgs, active: BOOLEAN]
WeightChange == [pc: {"weights"}, user: Users, org: Orgs, type: Types,
                 shares: UNION {[S -> Shares] : S \in SUBSET Users}]
Call == Update \cup Revocation \cup HrSync \cup WeightChange

ASSUME NoneAssumption ==
  None \notin Users \cup Orgs \cup Roles \cup Assignment \cup Shares \cup Call

VARIABLES
  account,    \* iam.users: existence, is_active, is_deleted
  home,       \* iam.users.org_id
  role,       \* iam.users.role_id
  mapRole,    \* iam.user_org_mapping: the role of each row, None without a row
  member,     \* iam.user_org_mapping: the branches of the active rows
  weight,     \* lms.lead_assignment_weights: per membership and pool
  leads,      \* external: who holds open leads of which branch
  calls,      \* the requests in flight
  begun,      \* how many requests were begun, up to MaxRequests
  outdated,   \* history: sessions older than a change of access, per user
  strays,     \* history: leads received in a branch on the way out of it
  parted      \* history: branches left by a transfer that handed leads over

rows == <<account, home, role, mapRole, member, weight>>
history == <<outdated, strays, parted>>
vars == <<rows, leads, calls, begun, history>>

Exists(u) == account[u] \in {"active", "inactive"}

----------------------------------------------------------------------------
(* Checks.                                                                 *)

\* canManageUser and canGrantRole: at or below one's own rank.
MayManage(a, u) == a.rank >= Rank[role[u]]
MayGrant(a, r) == a.rank >= Rank[r]

\* assertWeightDepartment for every weight the user does not hold already.
WeightsFit(r, w, held) ==
  \A t \in Types : w[t] # None /\ t \notin held =>
                     DeptOf[r] # None /\ DeptOf[t] = DeptOf[r]

HeldTypes(u, o) == {t \in Types : weight[u][o][t] # None}

\* resolveAssignments; exempt: the weight rows a branch already has.
AssignmentsAllowed(a, branches, exempt) ==
  \A o \in Orgs : branches[o] # None =>
    /\ WeightsFit(branches[o].role, branches[o].weights, exempt[o])
    /\ a.tenantWide \/ o \in a.manages
    /\ MayGrant(a, branches[o].role)

\* isLeadAssignableInOrg, and not the user who is leaving.
MayTakeOver(v, u, o) ==
  /\ v # u
  /\ account[v] = "active"
  /\ o \in member[v]
  /\ mapRole[v][o] \in LeadRoles

\* lms.fn_assert_weight_type_tenant: a row that is new fits the department of
\* the membership's role.
AssertWeightType(u, w, roles) ==
  \A o \in Orgs, t \in Types :
    weight[u][o][t] = None /\ w[o][t] # None =>
      DeptOf[roles[o]] # None /\ DeptOf[t] = DeptOf[roles[o]]

----------------------------------------------------------------------------
(* Writes.                                                                 *)

\* Positive weights become zero, in the given branches.
Zeroed(u, orgs) ==
  [o \in Orgs |-> [t \in Types |->
     IF o \in orgs /\ weight[u][o][t] # None THEN 0 ELSE weight[u][o][t]]]

\* upsertOrgAssignment for the listed branches: the payload's weights are
\* written; a pool it does not name is kept, or left when prune holds.
UpsertedWeights(u, branches, written, prune) ==
  [o \in Orgs |-> [t \in Types |->
     IF o \notin written THEN weight[u][o][t]
     ELSE IF branches[o].weights[t] # None \/ prune
          THEN branches[o].weights[t] ELSE weight[u][o][t]]]

UpsertedRoles(u, branches, written) ==
  [o \in Orgs |-> IF o \in written THEN branches[o].role ELSE mapRole[u][o]]

Idle(c) == calls[c] = None
Begun == begun < MaxRequests /\ begun' = begun + 1
Goto(c, pc) == calls' = [calls EXCEPT ![c].pc = pc]
Finish(c) == calls' = [calls EXCEPT ![c] = None]
At(c, pc) == calls[c] # None /\ calls[c].pc = pc

\* The user's tokens still say what this call has just made untrue.
Outdate(u, c, why) == outdated' = [outdated EXCEPT ![u] = @ \cup {<<c, why>>}]

\* Whoever receives a lead of o now is not, or not for long, a member there.
OnTheWayOut(v, o) ==
  o \notin member[v] \/ \E c \in Calls : At(c, "move") /\ calls[c].user = v
                                         /\ calls[c].from = o

\* leads-service moves u's open leads of o to v, or to nobody.
ReassignOrgLeads(u, o, v) ==
  LET kept == leads \ {<<u, o>>} IN
  IF <<u, o>> \in leads /\ v # None
  THEN /\ leads' = kept \cup {<<v, o>>}
       /\ strays' = (strays \ {<<u, o>>}) \cup
                    (IF OnTheWayOut(v, o) THEN {<<v, o>>} ELSE {})
  ELSE /\ leads' = kept
       /\ strays' = strays \ {<<u, o>>}

Init ==
  /\ account = [u \in Users |-> "absent"]
  /\ home = [u \in Users |-> None]
  /\ role = [u \in Users |-> None]
  /\ mapRole = [u \in Users |-> [o \in Orgs |-> None]]
  /\ member = [u \in Users |-> {}]
  /\ weight = [u \in Users |-> [o \in Orgs |-> [t \in Types |-> None]]]
  /\ leads = {}
  /\ calls = [c \in Calls |-> None]
  /\ begun = 0
  /\ outdated = [u \in Users |-> {}]
  /\ strays = {}
  /\ parted = {}

----------------------------------------------------------------------------
(* POST /users.                                                            *)

\* One transaction: the row, a mapping per branch, the weights.
CreateUser(c, a, u, b) ==
  LET branches == b.branches
      h == b.home
      orgs == {o \in Orgs : branches[o] # None}
      w == UpsertedWeights(u, branches, orgs, FALSE)
      roles == UpsertedRoles(u, branches, orgs)
  IN
  /\ Idle(c) /\ Begun
  /\ account[u] = "absent"
  /\ h \in orgs
  /\ AssignmentsAllowed(a, branches, [o \in Orgs |-> {}])
  /\ AssertWeightType(u, w, roles)
  /\ account' = [account EXCEPT ![u] = "active"]
  /\ home' = [home EXCEPT ![u] = h]
  /\ role' = [role EXCEPT ![u] = branches[h].role]
  /\ mapRole' = [mapRole EXCEPT ![u] = roles]
  /\ member' = [member EXCEPT ![u] = orgs]
  /\ weight' = [weight EXCEPT ![u] = w]
  /\ calls' = [calls EXCEPT ![c] =
                 [pc |-> "hr", user |-> u, home |-> h, active |-> TRUE]]
  /\ UNCHANGED <<leads, history>>

----------------------------------------------------------------------------
(* PATCH /users/:id.                                                       *)

\* reassign_leads_to goes with a branch, the branch list, or a deactivation.
LeadsMayBeNamed(r) ==
  r.leadsTo # Unsaid => r.org # Unsaid \/ r.branches # Unsaid \/ r.active = FALSE

\* The row before the change is read once; home, role and is_active of the
\* rest of the handler are this row's.
UpdateBegin(c, a, u, r) ==
  /\ Idle(c) /\ Begun
  /\ Exists(u)
  /\ MayManage(a, u)
  /\ r.role # Unsaid => MayGrant(a, r.role)
  /\ LeadsMayBeNamed(r)
  /\ r.leadsTo \in Users => MayTakeOver(r.leadsTo, u, home[u])
  /\ calls' = [calls EXCEPT ![c] =
       [pc |-> "fields", user |-> u, by |-> a, req |-> r,
        from |-> home[u], role |-> role[u],
        home |-> IF r.branches # Unsaid THEN r.home
                 ELSE IF r.org # Unsaid THEN r.org ELSE home[u],
        active |-> IF r.active = Unsaid THEN account[u] = "active" ELSE r.active]]
  /\ UNCHANGED <<rows, leads, outdated, strays, parted>>

Moving(k) == k.home # k.from
LeavesBranch(k) ==
  Moving(k) /\ (k.req.branches = Unsaid \/ k.req.branches[k.from] = None)

\* The role the destination's mapping gets.
MovedRole(k) ==
  IF k.req.branches # Unsaid THEN k.req.branches[k.home].role
  ELSE IF k.req.role # Unsaid THEN k.req.role ELSE k.role

\* Mutant: the caller of a deactivation is answered before the revocation.
AfterFieldsQuiet(k) ==
  IF k.req.branches # Unsaid THEN "resolve"
  ELSE IF Moving(k) THEN (IF k.by.tenantWide THEN "transfer" ELSE "refused")
  ELSE IF k.req.role # Unsaid THEN "revoke"
  ELSE "hr"

\* What a call does once its first transactions are over.
AfterFields(k) ==
  IF k.req.branches # Unsaid THEN "resolve"
  ELSE IF Moving(k) THEN (IF k.by.tenantWide THEN "transfer" ELSE "refused")
  ELSE IF k.req.active = FALSE \/ k.req.role # Unsaid THEN "revoke"
  ELSE "hr"

\* The generic UPDATE, which zeroes the weights of a user it deactivates.
WriteFields(c) ==
  LET k == calls[c]
      u == k.user
  IN
  /\ account' = [account EXCEPT ![u] =
       IF k.req.active = Unsaid THEN @
       ELSE IF k.req.active THEN "active" ELSE "inactive"]
  /\ role' = [role EXCEPT ![u] = IF k.req.role = Unsaid THEN @ ELSE k.req.role]
  /\ weight' = [weight EXCEPT ![u] =
       IF k.req.active = FALSE THEN Zeroed(u, Orgs) ELSE @]
  /\ outdated' = [outdated EXCEPT ![u] = @ \cup
       (IF k.req.active = FALSE THEN {<<c, "inactive">>} ELSE {}) \cup
       (IF k.req.role # Unsaid THEN {<<c, "role">>} ELSE {})]

\* The row is looked for in the branch it was read in; a miss is a 404.
UpdateFields(c) ==
  LET k == calls[c]
      u == k.user
  IN
  /\ At(c, "fields")
  /\ IF k.req.active = Unsaid /\ k.req.role = Unsaid
     THEN /\ Goto(c, AfterFields(k))
          /\ UNCHANGED <<account, role, weight, outdated>>
     ELSE IF Exists(u) /\ home[u] = k.from
     THEN /\ WriteFields(c)
          /\ Goto(c, IF k.req.role # Unsaid THEN "sync_role" ELSE AfterFields(k))
     ELSE /\ Finish(c)
          /\ UNCHANGED <<account, role, weight, outdated>>
  /\ UNCHANGED <<begun, home, mapRole, member, leads, strays, parted>>

\* syncOrgMappingRole, on the mapping of the branch the row was read in.
SyncOrgMappingRole(c) ==
  LET k == calls[c] IN
  /\ At(c, "sync_role")
  /\ mapRole' = [mapRole EXCEPT ![k.user][k.from] =
                   IF @ = None THEN None ELSE k.req.role]
  /\ Goto(c, AfterFields(k))
  /\ UNCHANGED <<begun, account, home, role, member, weight, leads, history>>

\* A branch move by an administrator who may not.
UpdateRefused(c) ==
  /\ At(c, "refused")
  /\ Finish(c)
  /\ outdated' = [outdated EXCEPT ![calls[c].user] =
                    {x \in @ : x[1] # c}]
  /\ UNCHANGED <<begun, rows, leads, strays, parted>>

\* resolveAssignments, and which of the three ways home takes.
ResolveAssignments(c) ==
  LET k == calls[c]
      exempt == [o \in Orgs |-> HeldTypes(k.user, o)]
  IN
  /\ At(c, "resolve")
  /\ Goto(c, IF ~AssignmentsAllowed(k.by, k.req.branches, exempt) THEN "refused"
             ELSE IF LeavesBranch(k)
                  THEN (IF k.by.tenantWide THEN "transfer" ELSE "refused")
             ELSE IF Moving(k) \/ MovedRole(k) # k.role THEN "set_home"
             ELSE "reconcile")
  /\ UNCHANGED <<begun, rows, leads, history>>

\* Mutant: the leads of the branch the member comes to are handed over.
LeadsBranchOfTheMove(k) == k.home

\* reassignOrgLeads is for the branch left, as the row was read.
LeadsBranch(k) == k.from

\* The saga's first half, when the request says who takes the leads.
HandLeadsOver(c) ==
  LET k == calls[c] IN
  /\ At(c, "transfer")
  /\ k.req.leadsTo # Unsaid
  /\ ReassignOrgLeads(k.user, LeadsBranch(k), k.req.leadsTo)
  /\ Goto(c, "move")
  /\ UNCHANGED <<begun, rows, outdated, parted>>

\* leads-service did it and its answer was lost: the saga stops.
HandOverTimesOut(c) ==
  LET k == calls[c] IN
  /\ At(c, "transfer")
  /\ k.req.leadsTo # Unsaid
  /\ ReassignOrgLeads(k.user, LeadsBranch(k), k.req.leadsTo)
  /\ Goto(c, "refused")
  /\ UNCHANGED <<begun, rows, outdated, parted>>

\* Mutant: the new branch is left to the reconcile that follows.
MembersLeaving(u, k) == member[u] \ {k.from}

\* The old mapping is deactivated, the new one inserted or reactivated.
MembersMoved(u, k) == (member[u] \ {k.from}) \cup {k.home}

RolesMoved(u, k) == [mapRole[u] EXCEPT ![k.home] = MovedRole(k)]

\* moveUserBranch's transaction; iam.users.role_id is not part of it.
MoveUserBranch(c) ==
  LET k == calls[c]
      u == k.user
  IN
  /\ At(c, "move") \/ (At(c, "transfer") /\ k.req.leadsTo = Unsaid)
  /\ home' = [home EXCEPT ![u] = k.home]
  /\ member' = [member EXCEPT ![u] = MembersMoved(u, k)]
  /\ weight' = [weight EXCEPT ![u] = Zeroed(u, {k.from})]
  /\ mapRole' = [mapRole EXCEPT ![u] = RolesMoved(u, k)]
  /\ Outdate(u, c, "branch")
  /\ parted' = (parted \ {<<u, k.home>>}) \cup
               (IF k.pc = "move" THEN {<<u, k.from>>} ELSE {})
  /\ Goto(c, IF k.req.branches # Unsaid THEN "reconcile" ELSE "revoke")
  /\ UNCHANGED <<begun, account, role, leads, strays>>

\* setHomeOrg: home moves between branches the user keeps, or takes a new role.
SetHomeOrg(c) ==
  LET k == calls[c]
      u == k.user
  IN
  /\ At(c, "set_home")
  /\ home' = [home EXCEPT ![u] = k.home]
  /\ role' = [role EXCEPT ![u] = MovedRole(k)]
  /\ outdated' = [outdated EXCEPT ![u] = @ \cup
       (IF Moving(k) THEN {<<c, "branch">>} ELSE {}) \cup
       (IF MovedRole(k) # k.role THEN {<<c, "role">>} ELSE {})]
  /\ Goto(c, "reconcile")
  /\ UNCHANGED <<begun, account, mapRole, member, weight, leads, strays,
                 parted>>

\* reconcileOrgAssignments: what is new or different is written, pools the
\* payload does not name are left, branches it does not name are revoked (and
\* keep their weight rows); identical branches are not touched.
ReconcileOrgAssignments(c) ==
  LET k == calls[c]
      u == k.user
      want == k.req.branches
      orgs == {o \in Orgs : want[o] # None}
      updated == {o \in orgs \cap member[u] :
                    mapRole[u][o] # want[o].role \/ weight[u][o] # want[o].weights}
      written == updated \cup (orgs \ member[u])
      removed == member[u] \ orgs
      w == UpsertedWeights(u, want, written, TRUE)
      roles == UpsertedRoles(u, want, written)
  IN
  /\ At(c, "reconcile")
  /\ IF AssertWeightType(u, w, roles)
     THEN /\ mapRole' = [mapRole EXCEPT ![u] = roles]
          /\ member' = [member EXCEPT ![u] = orgs]
          /\ weight' = [weight EXCEPT ![u] = w]
          /\ parted' = parted \ {<<u, o>> : o \in orgs}
          /\ outdated' = [outdated EXCEPT ![u] = @ \cup
               (IF removed # {} THEN {<<c, "unmapped">>} ELSE {})]
          /\ Goto(c, IF \/ Moving(k) \/ updated # {} \/ removed # {}
                        \/ k.req.active = FALSE
                     THEN "revoke" ELSE "hr")
     ELSE /\ Goto(c, "refused")
          /\ UNCHANGED <<mapRole, member, weight, parted, outdated>>
  /\ UNCHANGED <<begun, account, home, role, leads, strays>>

\* revokeAllUserSessions: one row ends every session the user has.
Revoke(c) ==
  LET k == calls[c] IN
  /\ At(c, "revoke")
  /\ outdated' = [outdated EXCEPT ![k.user] = {}]
  /\ IF "req" \notin DOMAIN k
     THEN Finish(c)
     ELSE Goto(c, IF /\ k.req.branches = Unsaid /\ ~Moving(k)
                     /\ k.req.active = FALSE /\ k.req.leadsTo # Unsaid
                  THEN "reassign" ELSE "hr")
  /\ UNCHANGED <<begun, rows, leads, strays, parted>>

\* reassignUserLeadsInOrg after a deactivation, within the branch.
ReassignUserLeadsInOrg(c) ==
  LET k == calls[c] IN
  /\ At(c, "reassign")
  /\ ReassignOrgLeads(k.user, LeadsBranch(k), k.req.leadsTo)
  /\ Goto(c, "hr")
  /\ UNCHANGED <<begun, rows, outdated, parted>>

\* syncHrProfile never throws: the reply says whether hr-service was told.
SyncHrProfile(c) ==
  /\ At(c, "hr")
  /\ Finish(c)
  /\ UNCHANGED <<begun, rows, leads, outdated, strays, parted>>

\* A step throws, or the process stops: what was committed stays, the caller
\* is not told that the change was made.
CallFails(c) ==
  /\ ~Idle(c)
  /\ Finish(c)
  /\ outdated' = [outdated EXCEPT ![calls[c].user] = {x \in @ : x[1] # c}]
  /\ UNCHANGED <<begun, rows, leads, strays, parted>>

----------------------------------------------------------------------------
(* DELETE /users/:id, the branch grants and the weights screen.            *)

\* softDeleteUser: the row only in the administrator's branch (RoleTxContext's
\* org_id), the mappings everywhere.
DeleteUser(c, a, u) ==
  /\ Idle(c) /\ Begun
  /\ Exists(u)
  /\ MayManage(a, u)
  /\ account' = [account EXCEPT ![u] = IF home[u] = a.org THEN "deleted" ELSE @]
  /\ member' = [member EXCEPT ![u] = {}]
  /\ Outdate(u, c, "unmapped")
  /\ calls' = [calls EXCEPT ![c] = [pc |-> "revoke", user |-> u]]
  /\ UNCHANGED <<home, role, mapRole, weight, leads, strays, parted>>

\* addOrgMapping: role and membership by upsert, the weight of one pool.
AddOrgMapping(a, u, g) ==
  LET o == g.org
      w == [weight[u] EXCEPT ![o][g.type] = g.share]
      roles == [mapRole[u] EXCEPT ![o] = g.role]
  IN
  /\ Begun
  /\ Exists(u)
  /\ MayManage(a, u)
  /\ g.type \notin HeldTypes(u, o) =>
       DeptOf[g.role] # None /\ DeptOf[g.type] = DeptOf[g.role]
  /\ AssertWeightType(u, w, roles)
  /\ mapRole' = [mapRole EXCEPT ![u] = roles]
  /\ member' = [member EXCEPT ![u] = @ \cup {o}]
  /\ weight' = [weight EXCEPT ![u] = w]
  /\ parted' = parted \ {<<u, o>>}
  /\ UNCHANGED <<account, home, role, leads, calls, outdated, strays>>

\* removeOrgMapping: an inactive row is found again, and its user logged out
\* again; the weight rows stay.
RemoveOrgMapping(c, a, u, o) ==
  /\ Idle(c) /\ Begun
  /\ Exists(u)
  /\ MayManage(a, u)
  /\ mapRole[u][o] # None
  /\ member' = [member EXCEPT ![u] = @ \ {o}]
  /\ Outdate(u, c, "unmapped")
  /\ calls' = [calls EXCEPT ![c] = [pc |-> "revoke", user |-> u]]
  /\ UNCHANGED <<account, home, role, mapRole, weight, leads, strays,
                 parted>>

\* PUT /users/assignment-weights, before its transaction: the department rule
\* against the roles and weight rows of this moment.
CheckAssignmentWeights(c, o, t, shares) ==
  /\ Idle(c) /\ Begun
  /\ \A u \in DOMAIN shares :
       o \in member[u] /\ t \notin HeldTypes(u, o) =>
         DeptOf[mapRole[u][o]] # None /\ DeptOf[t] = DeptOf[mapRole[u][o]]
  /\ \E u \in DOMAIN shares :
       calls' = [calls EXCEPT ![c] = [pc |-> "weights", user |-> u, org |-> o,
                                      type |-> t, shares |-> shares]]
  /\ UNCHANGED <<rows, leads, history>>

\* Its transaction: everybody a member with a role inside the band, the
\* payload's sum Full or nothing; nobody's account is looked at.
UpdateAssignmentWeights(c) ==
  LET k == calls[c]
      users == DOMAIN k.shares
      w == [u \in Users |->
              IF u \in users THEN [weight[u] EXCEPT ![k.org][k.type] = k.shares[u]]
              ELSE weight[u]]
      total == MapThenSumSet(LAMBDA u : k.shares[u], users)
  IN
  /\ At(c, "weights")
  /\ weight' = IF /\ \A u \in users : /\ k.org \in member[u]
                                      /\ mapRole[u][k.org] \in LeadRoles
                                      /\ AssertWeightType(u, w[u], mapRole[u])
                  /\ total \in {0, Full}
               THEN w ELSE weight
  /\ Finish(c)
  /\ UNCHANGED <<begun, account, home, role, mapRole, member, leads, history>>

\* External: leads-service picks a membership with a share for a new lead; the
\* lead's own trigger then refuses an owner whose account is not active.
LeadArrives(u, o) ==
  /\ o \in member[u]
  /\ \E t \in Types : weight[u][o][t] \notin {None, 0}
  /\ account[u] = "active"
  /\ leads' = leads \cup {<<u, o>>}
  /\ strays' = IF OnTheWayOut(u, o) THEN strays \cup {<<u, o>>} ELSE strays
  /\ UNCHANGED <<begun, rows, calls, outdated, parted>>

----------------------------------------------------------------------------
UpdateStep(c) ==
  \/ UpdateFields(c) \/ SyncOrgMappingRole(c) \/ UpdateRefused(c)
  \/ ResolveAssignments(c) \/ HandLeadsOver(c) \/ HandOverTimesOut(c)
  \/ MoveUserBranch(c) \/ SetHomeOrg(c) \/ ReconcileOrgAssignments(c)
  \/ Revoke(c) \/ ReassignUserLeadsInOrg(c) \/ SyncHrProfile(c)

Next ==
  \/ \E c \in Calls, a \in Actors, u \in Users, b \in Creations :
       CreateUser(c, a, u, b)
  \/ \E c \in Calls, a \in Actors, u \in Users, r \in Updates :
       UpdateBegin(c, a, u, r)
  \/ \E c \in Calls : UpdateStep(c) \/ CallFails(c) \/ UpdateAssignmentWeights(c)
  \/ \E c \in Calls, a \in Actors, u \in Users :
       DeleteUser(c, a, u) \/ \E o \in Orgs : RemoveOrgMapping(c, a, u, o)
  \/ \E a \in Actors, u \in Users, g \in Grants : AddOrgMapping(a, u, g)
  \/ \E c \in Calls, o \in Orgs, t \in Types, S \in (SUBSET Users) \ {{}} :
       \E shares \in [S -> Shares] : CheckAssignmentWeights(c, o, t, shares)
  \/ \E u \in Users, o \in Orgs : LeadArrives(u, o)

Spec == Init /\ [][Next]_vars

----------------------------------------------------------------------------
(* Properties.                                                             *)

(* A row has a home and a role exactly when the user exists, deleted or not;*)
(* an active membership and a weight have their mapping row.                *)
TypeOK ==
  /\ account \in [Users -> {"absent", "active", "inactive", "deleted"}]
  /\ home \in [Users -> Orgs \cup {None}]
  /\ role \in [Users -> Roles \cup {None}]
  /\ mapRole \in [Users -> [Orgs -> Roles \cup {None}]]
  /\ member \in [Users -> SUBSET Orgs]
  /\ weight \in [Users -> [Orgs -> Weights]]
  /\ leads \subseteq Users \X Orgs
  /\ calls \in [Calls -> Call \cup {None}]
  /\ \A u \in Users :
       /\ (home[u] = None) = (account[u] = "absent")
       /\ (role[u] = None) = (account[u] = "absent")
       /\ \A o \in Orgs :
            mapRole[u][o] = None =>
              o \notin member[u] /\ \A t \in Types : weight[u][o][t] = None

(* "A branch ... change must not survive in an unrevoked token": a change   *)
(* that took a branch, the home branch or the account away from a user, and *)
(* was reported as done, has ended the sessions that are older than it.     *)
AccessLossEndsSessions ==
  \A u \in Users : \A x \in outdated[u] :
    x[2] # "role" => calls[x[1]] # None /\ calls[x[1]].user = u

(* The saga's order: the open leads of a branch change hands before the     *)
(* transfer commits.  Whatever fails or times out in between, a member      *)
(* transferred with a hand-over holds no lead of the branch left, except    *)
(* one that arrived, or was handed to him, with the transfer under way.     *)
LeadsAreHandedOverBeforeTheMove ==
  \A x \in parted \cap leads : x \in strays

(* "So the user is never briefly a member of nothing": no step of an edit   *)
(* takes a member's last branch away.                                       *)
EditsKeepAMembership ==
  [][\A c \in Calls, u \in Users :
       /\ calls[c] # None /\ "req" \in DOMAIN calls[c] /\ calls[c].user = u
       /\ calls'[c] # calls[c]
       /\ member[u] # {}
       => member'[u] # {}]_vars

============================================================================
