--------------------------- MODULE ReportingLines ---------------------------
(***************************************************************************)
(* The reporting hierarchy: who belongs to which branch, who reports to    *)
(* whom in it (iam.reporting_lines), and the display mirror                *)
(* iam.users.manager_id.  identity-service writes memberships and lines;   *)
(* triggers refuse a line that joins non-members or closes a loop, close   *)
(* the lines of a revoked membership, and keep the mirror.                 *)
(*                                                                         *)
(* One action is one transaction.  A transaction that writes a line for an *)
(* existing member is split at its commit, because its checks read what    *)
(* other transactions have committed and nothing locks what they read.     *)
(*                                                                         *)
(* Left out: the role and lead weights of a membership, dates (a line is   *)
(* open or it is history), lines written by other services, branches of a  *)
(* second tenant and the super_admin who acts across tenants.  A           *)
(* transaction that a trigger refuses changes nothing and is no step.      *)
(* Mirrors are compared at the end of a transaction: the code may refuse   *)
(* one that only an intermediate mirror would make loop.  The mirror's     *)
(* order among several foreign branches (latest line first) is any order.  *)
(*                                                                         *)
(* A request reads the user's home branch once, before its transactions,   *)
(* and other requests may move it meanwhile: the branch such a request     *)
(* writes in is any branch.                                                *)
(***************************************************************************)
EXTENDS Naturals, FiniteSets

CONSTANTS
  Users, Orgs,
  TenantWide,     \* users whose role is tenant_admin, for good
  Calls,          \* line-writing transactions open at the same time
  Overlap,        \* whether other transactions commit meanwhile
  None, Unsaid    \* SQL NULL, and a field the request does not carry

ASSUME HierarchyAssumption ==
  /\ TenantWide \subseteq Users
  /\ Overlap \in BOOLEAN
  /\ None \notin Users \cup Orgs
  /\ Unsaid \notin Users \cup {None}

VARIABLES
  account,        \* iam.users: existence, is_active, is_deleted
  home,           \* iam.users.org_id
  member,         \* iam.user_org_mapping: the branches of a user's active rows
  line,           \* iam.reporting_lines: per branch and user, the open line
  mirror,         \* iam.users.manager_id
  calls           \* the lines written and not yet committed

vars == <<account, home, member, line, mirror, calls>>

Accounts == {"absent", "active", "inactive", "deleted"}
Write == [org: Orgs, user: Users, boss: Users \cup {None},
          seen: Users \cup {None}]

Exists(u) == account[u] \in {"active", "inactive"}

----------------------------------------------------------------------------
(* The triggers.                                                           *)

\* Following boss upwards from u never ends.
Looping(boss, u) ==
  \E S \in SUBSET Users : u \in S /\ \A x \in S : boss[x] \in S

\* check_reporting_line_membership.
BothAreMembers(o, u, m, members) ==
  \A x \in {u, m} : account[x] = "active" /\ o \in members[x]

\* Mutant: the chain is followed through the display mirror.
NoLoopByMirror(o, u, m) == ~Looping([mirror EXCEPT ![u] = m], u)

\* check_reporting_line_no_cycle, and chk_reporting_lines_not_self.
NoLoop(o, u, m) == ~Looping([line[o] EXCEPT ![u] = m], u)

\* Mutant: only lines of which the member is the report are closed.
CloseOwnLines(u, orgs) ==
  [o \in Orgs |-> [x \in Users |->
     IF o \in orgs /\ x = u THEN None ELSE line[o][x]]]

\* Mutant: the lines of every branch are closed with one membership.
CloseAllLines(u, orgs) ==
  [o \in Orgs |-> [x \in Users |->
     IF x = u \/ line[o][x] = u THEN None ELSE line[o][x]]]

\* close_reporting_lines_on_mapping_revoke: report and manager alike.
CloseLines(u, orgs) ==
  [o \in Orgs |-> [x \in Users |->
     IF o \in orgs /\ (x = u \/ line[o][x] = u) THEN None ELSE line[o][x]]]

\* Whom the mirror may show: the home branch's manager, else another's.
Shown(lines, homes, u) ==
  LET all == {lines[o][u] : o \in Orgs} \ {None}
      own == {lines[homes[u]][u]} \ {None}
  IN  IF own # {} THEN own ELSE IF all # {} THEN all ELSE {None}

\* check_user_hierarchy_no_cycle on every mirror that changes.
MirrorAccepted(new) ==
  \A u \in Users : new[u] # mirror[u] => ~Looping(new, u)

\* Mutant: the mirror follows new lines and not closed ones.
SyncMirrorOnOpen(lines, homes) ==
  \E new \in [Users -> Users \cup {None}] :
    /\ \A u \in Users :
         IF \E o \in Orgs : lines[o][u] # line[o][u] /\ lines[o][u] # None
         THEN new[u] \in Shown(lines, homes, u)
         ELSE new[u] = mirror[u]
    /\ MirrorAccepted(new)
    /\ mirror' = new

\* sync_user_manager_mirror for every user one of whose lines changed.
SyncMirror(lines, homes) ==
  \E new \in [Users -> Users \cup {None}] :
    /\ \A u \in Users :
         IF \E o \in Orgs : lines[o][u] # line[o][u]
         THEN new[u] \in Shown(lines, homes, u)
         ELSE new[u] = mirror[u]
    /\ MirrorAccepted(new)
    /\ mirror' = new

\* The statements of one transaction on the lines, triggers included.
WriteLines(lines, homes) ==
  /\ line' = lines
  /\ SyncMirror(lines, homes)

----------------------------------------------------------------------------
(* Requests.                                                               *)

\* The rows a transaction needs are not locked by an open one, and without
\* Overlap none is open.
Free(users) ==
  \A c \in Calls : calls[c] # None => Overlap /\ calls[c].user \notin users

\* Everybody whose lines or mirror a revocation of u in orgs touches.
Touched(u, orgs) ==
  {u} \cup {x \in Users : \E o \in orgs : line[o][x] = u}

\* isActiveOrgMember, or a rank that ensureManagerMembership caters for.
MayManageIn(m, o) ==
  /\ account[m] = "active"
  /\ o \in member[m] \/ m \in TenantWide

\* ensureManagerMembership.
Granted(members, m, o) ==
  IF m \in Users THEN [members EXCEPT ![m] = @ \cup {o}] ELSE members

Init ==
  /\ account = [u \in Users |-> "absent"]
  /\ home = [u \in Users |-> None]
  /\ member = [u \in Users |-> {}]
  /\ line = [o \in Orgs |-> [u \in Users |-> None]]
  /\ mirror = [u \in Users |-> None]
  /\ calls = [c \in Calls |-> None]

\* auto_grant_all_orgs_on_tenant_admin, which fires on a new mapping row: the
\* first one of a tenant_admin brings rows in every branch of the tenant.
FirstMappings(u, branches) == IF u \in TenantWide THEN Orgs ELSE branches

\* createUser: the row, a mapping per branch, the manager's mapping, the line.
CreateUser(u, h, branches, m) ==
  /\ account[u] = "absent"
  /\ Free({u, m})
  /\ h \in branches
  /\ m # None => MayManageIn(m, h)
  /\ account' = [account EXCEPT ![u] = "active"]
  /\ home' = [home EXCEPT ![u] = h]
  /\ member' = Granted([member EXCEPT ![u] = FirstMappings(u, branches)], m, h)
  /\ WriteLines([line EXCEPT ![h][u] = m], home')
  /\ UNCHANGED calls

\* updateUser with is_active: mappings and lines stay as they are.
SetActive(u) ==
  /\ Exists(u)
  /\ Free({u})
  /\ account' = [account EXCEPT ![u] = IF @ = "active" THEN "inactive" ELSE "active"]
  /\ UNCHANGED <<home, member, line, mirror, calls>>

\* updateUser with manager_id: setReportingLine in o, the home branch the
\* request read, before the commit.
WriteLine(c, u, o, m) ==
  /\ calls[c] = None
  /\ Exists(u)
  /\ Free({u})
  /\ m # None => /\ m # u
                 /\ MayManageIn(m, o)
                 /\ BothAreMembers(o, u, m, member)
                 /\ NoLoop(o, u, m)
  /\ \E seen \in Shown([line EXCEPT ![o][u] = m], home, u) :
       /\ MirrorAccepted([mirror EXCEPT ![u] = seen])
       /\ calls' = [calls EXCEPT ![c] =
                      [org |-> o, user |-> u, boss |-> m, seen |-> seen]]
  /\ UNCHANGED <<account, home, member, line, mirror>>

CommitLine(c) ==
  LET w == calls[c] IN
  /\ w # None
  /\ line' = [line EXCEPT ![w.org][w.user] = w.boss]
  /\ mirror' = [mirror EXCEPT ![w.user] = w.seen]
  /\ calls' = [calls EXCEPT ![c] = None]
  /\ UNCHANGED <<account, home, member>>

\* The transaction rolls back: an error, a lost connection, a crash.
RollBack(c) ==
  /\ calls[c] # None
  /\ calls' = [calls EXCEPT ![c] = None]
  /\ UNCHANGED <<account, home, member, line, mirror>>

\* moveUserBranch: from is the home branch the request read.
MoveUserBranch(u, from, to) ==
  /\ Exists(u)
  /\ from # to
  /\ Free(Touched(u, {from}))
  /\ home' = [home EXCEPT ![u] = to]
  /\ member' = [member EXCEPT ![u] = (@ \ {from}) \cup {to}]
  /\ WriteLines(CloseLines(u, {from}), home')
  /\ UNCHANGED <<account, calls>>

\* setHomeOrg: no trigger watches iam.users.org_id.
SetHomeOrg(u, o) ==
  /\ Exists(u)
  /\ o # home[u]
  /\ Free({u})
  /\ home' = [home EXCEPT ![u] = o]
  /\ UNCHANGED <<account, member, line, mirror, calls>>

\* reconcileOrgAssignments, the last transaction of an update with
\* org_assignments; home moved to o in an earlier one, if at all.
ReconcileOrgAssignments(u, branches, o, m) ==
  LET kept == CloseLines(u, member[u] \ branches)
      members == Granted([member EXCEPT ![u] = branches], m, o)
  IN
  /\ Exists(u)
  /\ Free(Touched(u, member[u] \ branches))
  /\ o \in branches
  /\ m \in Users => /\ m # u
                    /\ MayManageIn(m, o)
                    /\ BothAreMembers(o, u, m, members)
                    /\ NoLoop(o, u, m)
  /\ member' = members
  /\ WriteLines(IF m = Unsaid THEN kept ELSE [kept EXCEPT ![o][u] = m], home)
  /\ UNCHANGED <<account, home, calls>>

AddOrgMapping(u, o) ==
  /\ Exists(u)
  /\ o \notin member[u]
  /\ Free({u})
  /\ member' = [member EXCEPT ![u] = @ \cup {o}]
  /\ UNCHANGED <<account, home, line, mirror, calls>>

RemoveOrgMapping(u, o) ==
  /\ Exists(u)
  /\ o \in member[u]
  /\ Free(Touched(u, {o}))
  /\ member' = [member EXCEPT ![u] = @ \ {o}]
  /\ WriteLines(CloseLines(u, {o}), home)
  /\ UNCHANGED <<account, home, calls>>

\* softDeleteUser; the user's row is missed when the administrator's session
\* is in another branch than the user's home.
SoftDeleteUser(u) ==
  /\ Exists(u)
  /\ Free(Touched(u, Orgs))
  /\ \/ account' = [account EXCEPT ![u] = "deleted"]
     \/ UNCHANGED account
  /\ member' = [member EXCEPT ![u] = {}]
  /\ WriteLines(CloseLines(u, Orgs), home)
  /\ UNCHANGED <<home, calls>>

Next ==
  \/ \E u \in Users, h \in Orgs, branches \in SUBSET Orgs,
        m \in Users \cup {None} : CreateUser(u, h, branches, m)
  \/ \E c \in Calls, u \in Users, o \in Orgs, m \in Users \cup {None} :
       WriteLine(c, u, o, m)
  \/ \E c \in Calls : CommitLine(c) \/ RollBack(c)
  \/ \E u \in Users, branches \in SUBSET Orgs, o \in Orgs,
        m \in Users \cup {None, Unsaid} : ReconcileOrgAssignments(u, branches, o, m)
  \/ \E u \in Users, from, to \in Orgs : MoveUserBranch(u, from, to)
  \/ \E u \in Users, o \in Orgs :
       \/ SetHomeOrg(u, o)
       \/ AddOrgMapping(u, o) \/ RemoveOrgMapping(u, o)
  \/ \E u \in Users : SetActive(u) \/ SoftDeleteUser(u)

Spec == Init /\ [][Next]_vars

----------------------------------------------------------------------------
(* Properties.                                                             *)

(* A user's row has a home branch exactly when it exists, deleted or not,   *)
(* and every line and mirror names a user or nobody.                        *)
TypeOK ==
  /\ account \in [Users -> Accounts]
  /\ home \in [Users -> Orgs \cup {None}]
  /\ \A u \in Users : home[u] = None <=> account[u] = "absent"
  /\ member \in [Users -> SUBSET Orgs]
  /\ line \in [Orgs -> [Users -> Users \cup {None}]]
  /\ mirror \in [Users -> Users \cup {None}]
  /\ calls \in [Calls -> Write \cup {None}]

(* "The tree is kept acyclic at the source": in no branch does a chain of   *)
(* managers come back to where it started, whatever transfers, revocations  *)
(* and re-grants came before.                                               *)
LinesFormTrees ==
  \A o \in Orgs, u \in Users : ~Looping(line[o], u)

(* "No chain ever crosses an org boundary": both ends of an open line hold  *)
(* an active mapping in its branch, so nobody keeps authority over, or      *)
(* stays under, people of a branch they were removed from.                  *)
LinesJoinMembers ==
  \A o \in Orgs, u \in Users :
    line[o][u] # None => o \in member[u] /\ o \in member[line[o][u]]

(* The manager a user is shown with is a manager the user has, in some      *)
(* branch, and a user who has one is shown with one.                        *)
MirrorNamesACurrentManager ==
  \A u \in Users :
    LET bosses == {line[o][u] : o \in Orgs} \ {None} IN
    IF bosses = {} THEN mirror[u] = None ELSE mirror[u] \in bosses

(* The mappings and the open lines, as pairs and triples.                   *)
Places == {p \in Users \X Orgs : p[2] \in member[p[1]]}

OpenLines ==
  {e \in [org: Orgs, report: Users, manager: Users] :
     line[e.org][e.report] = e.manager}

Abstract == INSTANCE Hierarchy WITH staff <- Places, lines <- OpenLines

(* Every transaction is one change of the hierarchy of one user: it closes  *)
(* the lines that go with the branches the user leaves and no others, and   *)
(* appoints nobody below themselves.                                        *)
ImplementsHierarchy == Abstract!Spec

============================================================================
