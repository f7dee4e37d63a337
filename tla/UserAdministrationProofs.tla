---------------------- MODULE UserAdministrationProofs ----------------------
(***************************************************************************)
(* Theorems of UserAdministration, for any members, branches, roles,       *)
(* pools, request bodies and any number of overlapping requests.           *)
(***************************************************************************)
EXTENDS UserAdministration, TLAPS

\* What a PATCH knows of itself at each of its steps.
Knows(k) ==
  /\ account[k.user] # "absent"
  /\ k.req.leadsTo # k.user
  /\ k.req.branches # Unsaid => k.home = k.req.home
  /\ k.pc = "sync_role" => k.req.role # Unsaid
  /\ k.pc \in {"resolve", "set_home", "reconcile"} => k.req.branches # Unsaid
  /\ k.pc \in {"transfer", "move"} => Moving(k)
  /\ k.pc \in {"move", "reassign"} => k.req.leadsTo # Unsaid
CallsKnow == \A c \in Calls : calls[c] \in Update => Knows(calls[c])

\* A session that says what was taken away from u has a call left that will end
\* it: by its revocation, or by telling its caller that the change was not made.
Owed(u, k) ==
  /\ k # None /\ k.user = u
  /\ \/ k.pc \in {"revoke", "refused"}
     \/ /\ k \in Update
        /\ Moving(k) \/ k.req.active = FALSE
        /\ k.pc \in {"sync_role", "resolve", "transfer", "move", "set_home", "reconcile"}
DebtsAreOwed ==
  \A u \in Users : \A x \in outdated[u] : x[2] # "role" => Owed(u, calls[x[1]])

\* Whoever has parted with a branch is no member of it; whoever has handed its
\* leads over, on the way out, holds none but strays.
PartedHaveLeft ==
  \A u \in Users, o \in Orgs : <<u, o>> \in parted =>
    /\ account[u] # "absent" /\ o \notin member[u]
    /\ <<u, o>> \in leads => <<u, o>> \in strays
HandedOver ==
  \A c \in Calls : At(c, "move") =>
    (<<calls[c].user, calls[c].from>> \in leads
       => <<calls[c].user, calls[c].from>> \in strays)

HistoryOK ==
  /\ outdated \in [Users -> SUBSET (Calls \X {"inactive", "role", "branch", "unmapped"})]
  /\ strays \subseteq Users \X Orgs
  /\ parted \subseteq Users \X Orgs

IInv ==
  /\ TypeOK /\ HistoryOK /\ CallsKnow
  /\ DebtsAreOwed /\ PartedHaveLeft /\ HandedOver

\* The part of TypeOK that is about the tables.
RowsOK ==
  /\ account \in [Users -> {"absent", "active", "inactive", "deleted"}]
  /\ home \in [Users -> Orgs \cup {None}]
  /\ role \in [Users -> Roles \cup {None}]
  /\ mapRole \in [Users -> [Orgs -> Roles \cup {None}]]
  /\ member \in [Users -> SUBSET Orgs]
  /\ weight \in [Users -> [Orgs -> Weights]]
  /\ \A u \in Users :
       /\ (home[u] = None) = (account[u] = "absent")
       /\ (role[u] = None) = (account[u] = "absent")
       /\ \A o \in Orgs :
            mapRole[u][o] = None =>
              o \notin member[u] /\ \A t \in Types : weight[u][o][t] = None

LEMMA TypeParts ==
  TypeOK <=> RowsOK /\ leads \subseteq Users \X Orgs /\ calls \in [Calls -> Call \cup {None}]
BY DEF TypeOK, RowsOK

UpdatePcs == {"fields", "sync_role", "resolve", "transfer", "move", "set_home",
              "reconcile", "refused", "revoke", "reassign", "hr"}

(* What a call is can be told from the step it is at.                       *)
LEMMA Shapes ==
  ASSUME NEW k \in Call
  PROVE  /\ k # None /\ k.user \in Users
         /\ k.pc \in UpdatePcs \cup {"weights"}
         /\ k.pc \in UpdatePcs \ {"revoke", "hr"} => k \in Update
         /\ k.pc = "weights" => k \in WeightChange /\ k \notin Update
         /\ "req" \in DOMAIN k <=> k \in Update
<1>1. k # None
  BY NoneAssumption
<1>2. CASE k \in Update
  BY <1>1, <1>2 DEF Update, UpdatePcs, WeightChange
<1>3. CASE k \in Revocation
  BY <1>1, <1>3 DEF Revocation, UpdatePcs, Update
<1>4. CASE k \in HrSync
  BY <1>1, <1>4 DEF HrSync, UpdatePcs, Update
<1>5. CASE k \in WeightChange
  BY <1>1, <1>5 DEF WeightChange, UpdatePcs, Update
<1> QED
  BY <1>2, <1>3, <1>4, <1>5 DEF Call

(* A PATCH has its fields.                                                  *)
LEMMA PatchFields ==
  ASSUME NEW k \in Update
  PROVE  /\ k \in Call
         /\ k.pc \in UpdatePcs /\ k.user \in Users /\ k.by \in Actors /\ k.req \in Updates
         /\ k.from \in Orgs /\ k.role \in Roles /\ k.home \in Orgs /\ k.active \in BOOLEAN
BY DEF Update, UpdatePcs, Call

(* A PATCH goes on to its next step: its record is the same but for that.   *)
LEMMA GotoStep ==
  ASSUME IInv, NEW c \in Calls, calls[c] \in Update, NEW pc \in UpdatePcs, Goto(c, pc)
  PROVE  \E k \in Update :
           /\ calls' = [calls EXCEPT ![c] = k] /\ k.pc = pc
           /\ k.user = calls[c].user /\ k.by = calls[c].by /\ k.req = calls[c].req
           /\ k.from = calls[c].from /\ k.role = calls[c].role /\ k.home = calls[c].home
<1> DEFINE k == [calls[c] EXCEPT !.pc = pc]
<1>1. /\ k \in Update /\ k.pc = pc
      /\ k.user = calls[c].user /\ k.by = calls[c].by /\ k.req = calls[c].req
      /\ k.from = calls[c].from /\ k.role = calls[c].role /\ k.home = calls[c].home
  BY DEF Update, UpdatePcs
<1>2. calls' = [calls EXCEPT ![c] = k]
  BY DEF Goto
<1> HIDE DEF k
<1> QED
  BY <1>1, <1>2

(* The role that a transfer writes.                                         *)
LEMMA MovedRoleIsARole ==
  ASSUME NEW k \in Update, Knows(k)
  PROVE  MovedRole(k) \in Roles
<1>1. /\ k.req \in Updates /\ k.home \in Orgs /\ k.role \in Roles
  BY PatchFields
<1>2. CASE k.req.branches # Unsaid
  <2>1. k.req.branches \in Assignments /\ k.req.branches[k.home] # None
    BY <1>1, <1>2, UpdateAssumption DEF Knows
  <2>2. k.req.branches[k.home] \in Assignment
    BY <1>1, <2>1 DEF Assignments
  <2> QED
    BY <1>2, <2>2 DEF MovedRole, Assignment
<1>3. CASE k.req.branches = Unsaid
  BY <1>1, <1>3, UpdateAssumption DEF MovedRole
<1> QED
  BY <1>2, <1>3

----------------------------------------------------------------------------
(* The conjuncts of the invariant, one step of one call at a time.          *)

LEMMA CallsStep ==
  ASSUME IInv, NEW c \in Calls, NEW k \in Call \cup {None}, calls' = [calls EXCEPT ![c] = k],
         k \in Update => Knows(k)',
         \A u \in Users : account'[u] = "absent" => account[u] = "absent"
  PROVE  /\ calls' \in [Calls -> Call \cup {None}] /\ calls'[c] = k
         /\ \A d \in Calls \ {c} : calls'[d] = calls[d]
         /\ CallsKnow'
<1>1. /\ calls' \in [Calls -> Call \cup {None}] /\ calls'[c] = k
      /\ \A d \in Calls \ {c} : calls'[d] = calls[d]
  BY DEF IInv, TypeOK
<1>2. ASSUME NEW d \in Calls, d # c, calls[d] \in Update PROVE Knows(calls[d])'
  <2>1. Knows(calls[d]) /\ calls[d].user \in Users /\ calls'[d] = calls[d]
    BY <1>1, <1>2, PatchFields DEF IInv, CallsKnow
  <2> QED
    BY <2>1 DEF Knows, Moving
<1>3. CallsKnow'
  BY <1>1, <1>2 DEF CallsKnow, Knows, Moving
<1> QED
  BY <1>1, <1>3

LEMMA DebtsStep ==
  ASSUME IInv, NEW c \in Calls, NEW k \in Call \cup {None}, calls' = [calls EXCEPT ![c] = k],
         outdated' \in [Users -> SUBSET (Calls \X {"inactive", "role", "branch", "unmapped"})],
         \A u \in Users : \A x \in outdated'[u] :
           x[2] # "role" => (x \in outdated[u] /\ x[1] # c) \/ (x[1] = c /\ Owed(u, k))
  PROVE  DebtsAreOwed'
<1>1. /\ calls'[c] = k
      /\ \A d \in Calls \ {c} : calls'[d] = calls[d]
  BY DEF IInv, TypeOK
<1> SUFFICES ASSUME NEW u \in Users, NEW x \in outdated'[u], x[2] # "role"
             PROVE  Owed(u, calls[x[1]])'
  BY DEF DebtsAreOwed
<1>2. x[1] \in Calls
  OBVIOUS
<1>3. CASE x \in outdated[u] /\ x[1] # c
  BY <1>1, <1>2, <1>3 DEF IInv, DebtsAreOwed, Owed, Moving
<1>4. CASE x[1] = c /\ Owed(u, k)
  BY <1>1, <1>4 DEF Owed, Moving
<1> QED
  BY <1>3, <1>4

\* No new branch, no new lead and no new member on the way out.
LEMMA LeadsStay ==
  ASSUME IInv, NEW c \in Calls, NEW k \in Call \cup {None}, calls' = [calls EXCEPT ![c] = k],
         k # None => k.pc # "move",
         UNCHANGED <<leads, strays>>, parted' \subseteq parted,
         \A u \in Users : account'[u] = "absent" => account[u] = "absent",
         \A u \in Users, o \in Orgs : <<u, o>> \in parted' => o \in member[u] \/ o \notin member'[u]
  PROVE  PartedHaveLeft' /\ HandedOver'
<1>1. /\ calls'[c] = k
      /\ \A d \in Calls \ {c} : calls'[d] = calls[d]
  BY DEF IInv, TypeOK
<1>2. PartedHaveLeft'
  BY DEF IInv, PartedHaveLeft
<1>3. HandedOver'
  BY <1>1 DEF IInv, HandedOver, At
<1> QED
  BY <1>2, <1>3

LEMMA RowsStay ==
  ASSUME IInv, UNCHANGED rows
  PROVE  RowsOK' /\ \A u \in Users : account'[u] = "absent" => account[u] = "absent"
BY TypeParts DEF IInv, RowsOK, rows

LEMMA InvParts ==
  ASSUME RowsOK', leads' \subseteq Users \X Orgs, calls' \in [Calls -> Call \cup {None}],
         HistoryOK', CallsKnow', DebtsAreOwed', PartedHaveLeft', HandedOver'
  PROVE  IInv'
BY DEF IInv, TypeOK, RowsOK

(* A step of a PATCH that changes no account, no membership and no history  *)
(* keeps what it knows and owes.                                            *)
LEMMA QuietStep ==
  ASSUME IInv, NEW c \in Calls, calls[c] \in Update, NEW pc \in UpdatePcs, Goto(c, pc),
         RowsOK', UNCHANGED <<account, member, leads, history>>,
         pc \notin {"sync_role", "move", "reassign", "fields"},
         pc \in {"resolve", "set_home", "reconcile"} => calls[c].req.branches # Unsaid,
         pc = "transfer" => Moving(calls[c]),
         \A u \in Users : Owed(u, calls[c]) =>
           \/ pc \in {"revoke", "refused"}
           \/ /\ pc \in {"resolve", "transfer", "set_home", "reconcile"}
              /\ Moving(calls[c]) \/ calls[c].req.active = FALSE
  PROVE  IInv'
<1>1. PICK k \in Update :
        /\ calls' = [calls EXCEPT ![c] = k] /\ k.pc = pc
        /\ k.user = calls[c].user /\ k.by = calls[c].by /\ k.req = calls[c].req
        /\ k.from = calls[c].from /\ k.role = calls[c].role /\ k.home = calls[c].home
  BY GotoStep
<1>2. k \in Call /\ k # None
  BY Shapes DEF Call
<1>3. UNCHANGED <<account, outdated, leads, strays, parted, member>>
  BY DEF history
<1>4. Knows(k)'
  BY <1>1, <1>3 DEF IInv, CallsKnow, Knows, Moving
<1>5. calls' \in [Calls -> Call \cup {None}] /\ CallsKnow'
  BY <1>1, <1>2, <1>3, <1>4, CallsStep
<1>6. DebtsAreOwed'
  <2>1. ASSUME NEW u \in Users, NEW x \in outdated'[u], x[2] # "role"
        PROVE  (x \in outdated[u] /\ x[1] # c) \/ (x[1] = c /\ Owed(u, k))
    <3>1. x \in outdated[u] /\ Owed(u, calls[x[1]])
      BY <1>3, <2>1 DEF IInv, DebtsAreOwed
    <3>2. CASE x[1] = c
      BY <1>1, <1>2, <3>1, <3>2 DEF Owed, Moving
    <3> QED
      BY <3>1, <3>2
  <2> QED
    BY <1>1, <1>2, <1>3, <2>1, DebtsStep DEF IInv, HistoryOK
<1>7. PartedHaveLeft' /\ HandedOver'
  BY <1>1, <1>2, <1>3, LeadsStay
<1>8. HistoryOK' /\ leads' \subseteq Users \X Orgs
  BY <1>3 DEF IInv, HistoryOK, TypeOK
<1> QED
  BY <1>5, <1>6, <1>7, <1>8, InvParts

(* A request is over, and its debts are paid or were told.                  *)
LEMMA FinishStep ==
  ASSUME IInv, NEW c \in Calls, Finish(c), UNCHANGED <<rows, leads, strays, parted>>,
         outdated' \in [Users -> SUBSET (Calls \X {"inactive", "role", "branch", "unmapped"})],
         \A u \in Users : \A x \in outdated'[u] : x \in outdated[u],
         \A u \in Users : \A x \in outdated'[u] : x[1] = c => x[2] = "role"
  PROVE  IInv'
<1>1. calls' = [calls EXCEPT ![c] = None]
  BY DEF Finish
<1>2. UNCHANGED <<account, leads, strays, parted, member>>
  BY DEF rows
<1>3. None \notin Update
  BY NoneAssumption DEF Call
<1>4. calls' \in [Calls -> Call \cup {None}] /\ CallsKnow'
  BY <1>1, <1>2, <1>3, CallsStep
<1>5. DebtsAreOwed'
  <2>1. \A u \in Users : \A x \in outdated'[u] :
          x[2] # "role" => x \in outdated[u] /\ x[1] # c
    OBVIOUS
  <2>2. None \in Call \cup {None}
    OBVIOUS
  <2> QED
    BY <1>1, <2>1, <2>2, DebtsStep
<1>6. PartedHaveLeft' /\ HandedOver'
  BY <1>1, <1>2, LeadsStay
<1>7. HistoryOK' /\ leads' \subseteq Users \X Orgs
  BY <1>2 DEF IInv, HistoryOK, TypeOK
<1> QED
  BY <1>4, <1>5, <1>6, <1>7, RowsStay, InvParts

(* A call that owes nothing may end without a word.                         *)
LEMMA QuietFinish ==
  ASSUME IInv, NEW c \in Calls, Finish(c), UNCHANGED <<rows, leads, history>>,
         \A u \in Users : ~ Owed(u, calls[c])
  PROVE  IInv'
<1>1. UNCHANGED <<rows, leads, strays, parted, outdated>>
  BY DEF history
<1>2. \A u \in Users : \A x \in outdated[u] : x[1] = c => x[2] = "role"
  BY DEF IInv, DebtsAreOwed
<1> QED
  BY <1>1, <1>2, FinishStep DEF IInv, HistoryOK

(* A member's rows as they are.                                             *)
LEMMA RowsOfAMember ==
  ASSUME IInv, NEW u \in Users
  PROVE  /\ account[u] \in {"absent", "active", "inactive", "deleted"}
         /\ home[u] \in Orgs \cup {None} /\ role[u] \in Roles \cup {None}
         /\ mapRole[u] \in [Orgs -> Roles \cup {None}] /\ member[u] \in SUBSET Orgs
         /\ weight[u] \in [Orgs -> Weights]
         /\ (home[u] = None) = (account[u] = "absent")
         /\ (role[u] = None) = (account[u] = "absent")
         /\ \A o \in Orgs : mapRole[u][o] = None =>
              o \notin member[u] /\ \A t \in Types : weight[u][o][t] = None
         /\ account = [account EXCEPT ![u] = account[u]]
         /\ home = [home EXCEPT ![u] = home[u]] /\ role = [role EXCEPT ![u] = role[u]]
         /\ mapRole = [mapRole EXCEPT ![u] = mapRole[u]]
         /\ member = [member EXCEPT ![u] = member[u]]
         /\ weight = [weight EXCEPT ![u] = weight[u]]
BY TypeParts DEF IInv, RowsOK

(* Weights that become zero stay weights, and rows that are missing, missing. *)
LEMMA ZeroedWeights ==
  ASSUME IInv, NEW u \in Users, NEW S \in SUBSET Orgs
  PROVE  /\ Zeroed(u, S) \in [Orgs -> Weights]
         /\ \A o \in Orgs, t \in Types : weight[u][o][t] = None => Zeroed(u, S)[o][t] = None
BY RowsOfAMember, AdministrationAssumption DEF Zeroed, Weights

(* One member's rows are replaced.                                          *)
RowsBecome(u, a, h, r, roles, m, w) ==
  /\ account' = [account EXCEPT ![u] = a] /\ home' = [home EXCEPT ![u] = h]
  /\ role' = [role EXCEPT ![u] = r] /\ mapRole' = [mapRole EXCEPT ![u] = roles]
  /\ member' = [member EXCEPT ![u] = m] /\ weight' = [weight EXCEPT ![u] = w]
RowsFit(a, h, r, roles, m, w) ==
  /\ a \in {"absent", "active", "inactive", "deleted"}
  /\ h \in Orgs \cup {None} /\ r \in Roles \cup {None}
  /\ roles \in [Orgs -> Roles \cup {None}] /\ m \in SUBSET Orgs /\ w \in [Orgs -> Weights]
  /\ (h = None) = (a = "absent") /\ (r = None) = (a = "absent")
  /\ \A o \in Orgs : roles[o] = None => o \notin m /\ \A t \in Types : w[o][t] = None

LEMMA RowStep ==
  ASSUME IInv, NEW u \in Users, NEW a, NEW h, NEW r, NEW roles, NEW m, NEW w,
         RowsFit(a, h, r, roles, m, w), RowsBecome(u, a, h, r, roles, m, w)
  PROVE  RowsOK'
<1> USE DEF RowsFit, RowsBecome
<1>1. /\ account' \in [Users -> {"absent", "active", "inactive", "deleted"}]
      /\ home' \in [Users -> Orgs \cup {None}]
      /\ role' \in [Users -> Roles \cup {None}]
      /\ mapRole' \in [Users -> [Orgs -> Roles \cup {None}]]
      /\ member' \in [Users -> SUBSET Orgs]
      /\ weight' \in [Users -> [Orgs -> Weights]]
  BY TypeParts DEF IInv, RowsOK
<1>2. /\ account'[u] = a /\ home'[u] = h /\ role'[u] = r /\ mapRole'[u] = roles
      /\ member'[u] = m /\ weight'[u] = w
  BY TypeParts DEF IInv, RowsOK
<1>3. \A v \in Users \ {u} :
        /\ account'[v] = account[v] /\ home'[v] = home[v] /\ role'[v] = role[v]
        /\ mapRole'[v] = mapRole[v] /\ member'[v] = member[v] /\ weight'[v] = weight[v]
  BY TypeParts DEF IInv, RowsOK
<1>4. ASSUME NEW v \in Users
      PROVE  /\ (home'[v] = None) = (account'[v] = "absent")
             /\ (role'[v] = None) = (account'[v] = "absent")
             /\ \A o \in Orgs : mapRole'[v][o] = None =>
                  o \notin member'[v] /\ \A t \in Types : weight'[v][o][t] = None
  <2>1. CASE v = u
    BY <1>2, <2>1
  <2>2. CASE v # u
    BY <1>3, <2>2, TypeParts DEF IInv, RowsOK
  <2> QED
    BY <2>1, <2>2
<1> QED
  BY <1>1, <1>4 DEF RowsOK

(* What the payload writes of a branch it lists.                            *)
UpsertsFit(u, roles, w, written) ==
  /\ roles \in [Orgs -> Roles \cup {None}] /\ w \in [Orgs -> Weights]
  /\ \A o \in Orgs : roles[o] = None =>
       o \notin written /\ mapRole[u][o] = None /\ \A t \in Types : w[o][t] = None

LEMMA Upserts ==
  ASSUME IInv, NEW u \in Users, NEW want \in Assignments,
         NEW written \in SUBSET {o \in Orgs : want[o] # None}
  PROVE  /\ UpsertsFit(u, UpsertedRoles(u, want, written),
                       UpsertedWeights(u, want, written, TRUE), written)
         /\ UpsertsFit(u, UpsertedRoles(u, want, written),
                       UpsertedWeights(u, want, written, FALSE), written)
<1>1. \A o \in written : want[o].role \in Roles /\ want[o].role # None /\ want[o].weights \in Weights
  BY NoneAssumption DEF Assignments, Assignment
<1>2. /\ mapRole[u] \in [Orgs -> Roles \cup {None}] /\ weight[u] \in [Orgs -> Weights]
      /\ \A o \in Orgs : mapRole[u][o] = None => \A t \in Types : weight[u][o][t] = None
  BY TypeParts DEF IInv, RowsOK
<1> DEFINE roles == UpsertedRoles(u, want, written)
<1>3. /\ roles \in [Orgs -> Roles \cup {None}]
      /\ \A o \in Orgs : roles[o] = None => o \notin written /\ mapRole[u][o] = None
  BY <1>1, <1>2 DEF UpsertedRoles
<1>4. ASSUME NEW w, \/ w = UpsertedWeights(u, want, written, TRUE)
                    \/ w = UpsertedWeights(u, want, written, FALSE)
      PROVE  UpsertsFit(u, roles, w, written)
  <2>1. ASSUME NEW o \in Orgs
        PROVE  w[o] \in Weights /\ (o \notin written => w[o] = weight[u][o])
    <3>1. CASE o \in written
      BY <1>1, <1>2, <1>4, <3>1 DEF UpsertedWeights, Weights
    <3>2. CASE o \notin written
      BY <1>2, <1>4, <3>2 DEF UpsertedWeights, Weights
    <3> QED
      BY <3>1, <3>2
  <2>2. w = [o \in Orgs |-> w[o]]
    BY <1>4 DEF UpsertedWeights
  <2> HIDE DEF roles
  <2> QED
    BY <1>2, <1>3, <2>1, <2>2 DEF UpsertsFit
<1> HIDE DEF roles
<1> QED
  BY <1>4 DEF roles

----------------------------------------------------------------------------
(* PATCH /users/:id, step by step.                                          *)

LEMMA RefusedKeepsIInv ==
  ASSUME IInv, NEW c \in Calls, UpdateRefused(c) \/ CallFails(c)
  PROVE  IInv'
<1>1. /\ calls[c] # None /\ Finish(c) /\ UNCHANGED <<rows, leads, strays, parted>>
      /\ outdated' = [outdated EXCEPT ![calls[c].user] = {x \in @ : x[1] # c}]
  BY DEF UpdateRefused, CallFails, Idle, At
<1>2. calls[c].user \in Users
  BY <1>1, Shapes DEF IInv, TypeOK
<1>3. /\ outdated' \in [Users -> SUBSET (Calls \X {"inactive", "role", "branch", "unmapped"})]
      /\ \A u \in Users : \A x \in outdated'[u] : x \in outdated[u]
  BY <1>1, <1>2 DEF IInv, HistoryOK
<1>4. ASSUME NEW u \in Users, NEW x \in outdated'[u], x[1] = c PROVE x[2] = "role"
  <2>1. u # calls[c].user
    BY <1>1, <1>2, <1>4 DEF IInv, HistoryOK
  <2> QED
    BY <1>3, <1>4, <2>1 DEF IInv, DebtsAreOwed, Owed
<1> QED
  BY ONLY IInv, c \in Calls, <1>1, <1>3, <1>4, FinishStep

LEMMA SyncHrKeepsIInv ==
  ASSUME IInv, NEW c \in Calls, SyncHrProfile(c)
  PROVE  IInv'
<1>1. \A u \in Users : ~ Owed(u, calls[c])
  BY DEF SyncHrProfile, At, Owed
<1> QED
  BY <1>1, QuietFinish DEF SyncHrProfile, history

LEMMA ResolveKeepsIInv ==
  ASSUME IInv, NEW c \in Calls, ResolveAssignments(c)
  PROVE  IInv'
<1> DEFINE k == calls[c]
           exempt == [o \in Orgs |-> HeldTypes(k.user, o)]
           pc == IF ~AssignmentsAllowed(k.by, k.req.branches, exempt) THEN "refused"
                 ELSE IF LeavesBranch(k)
                      THEN (IF k.by.tenantWide THEN "transfer" ELSE "refused")
                 ELSE IF Moving(k) \/ MovedRole(k) # k.role THEN "set_home"
                 ELSE "reconcile"
<1>1. k # None /\ k.pc = "resolve" /\ Goto(c, pc) /\ UNCHANGED <<rows, leads, history>>
  BY DEF ResolveAssignments, At
<1>2. k \in Update
  BY <1>1, Shapes DEF IInv, TypeOK, UpdatePcs
<1>3. Knows(k)
  BY <1>2 DEF IInv, CallsKnow
<1>4. /\ pc \in {"refused", "transfer", "set_home", "reconcile"}
      /\ pc = "transfer" => Moving(k)
  BY DEF LeavesBranch
<1>5. \A u \in Users : Owed(u, k) => Moving(k) \/ k.req.active = FALSE
  BY <1>1 DEF Owed
<1> HIDE DEF pc
<1>6. RowsOK' /\ UNCHANGED <<account, member, leads, history>>
  BY <1>1, RowsStay DEF rows
<1> QED
  BY <1>1, <1>2, <1>3, <1>4, <1>5, <1>6, QuietStep DEF Knows, UpdatePcs

LEMMA SyncRoleKeepsIInv ==
  ASSUME IInv, NEW c \in Calls, SyncOrgMappingRole(c)
  PROVE  IInv'
<1> DEFINE k == calls[c]
<1>1. /\ k # None /\ k.pc = "sync_role" /\ Goto(c, AfterFields(k))
      /\ mapRole' = [mapRole EXCEPT ![k.user][k.from] = IF @ = None THEN None ELSE k.req.role]
      /\ UNCHANGED <<begun, account, home, role, member, weight, leads, history>>
  BY DEF SyncOrgMappingRole, At
<1>2. k \in Update
  BY <1>1, Shapes DEF IInv, TypeOK, UpdatePcs
<1>3. Knows(k) /\ k.user \in Users /\ k.from \in Orgs /\ k.req.role \in Roles
  BY <1>1, <1>2, PatchFields, UpdateAssumption DEF IInv, CallsKnow, Knows
<1>4. RowsOK'
  <2>1. k.req.role # None
    BY <1>3, NoneAssumption
  <2>2. mapRole' \in [Users -> [Orgs -> Roles \cup {None}]]
    BY <1>1, <1>3, TypeParts DEF IInv, RowsOK
  <2>3. \A u \in Users, o \in Orgs : mapRole'[u][o] = None => mapRole[u][o] = None
    BY <1>1, <1>3, <2>1, TypeParts DEF IInv, RowsOK
  <2> QED
    BY <1>1, <2>2, <2>3, TypeParts DEF IInv, RowsOK
<1>5. /\ AfterFields(k) \in UpdatePcs \ {"sync_role", "move", "reassign", "fields"}
      /\ AfterFields(k) \in {"resolve", "set_home", "reconcile"} => k.req.branches # Unsaid
      /\ AfterFields(k) = "transfer" => Moving(k)
      /\ AfterFields(k) # "hr" => AfterFields(k) \in {"revoke", "refused", "resolve", "transfer"}
      /\ AfterFields(k) = "hr" => ~ Moving(k) /\ k.req.active # FALSE
  BY DEF AfterFields, UpdatePcs
<1>6. \A u \in Users : Owed(u, k) => AfterFields(k) # "hr"
  BY <1>1, <1>5 DEF Owed
<1>7. UNCHANGED <<account, member, leads, history>>
  BY <1>1
<1>8. PICK pc \in UpdatePcs : pc = AfterFields(k)
  BY <1>5
<1>9. /\ Goto(c, pc) /\ pc \notin {"sync_role", "move", "reassign", "fields"}
      /\ pc \in {"resolve", "set_home", "reconcile"} => k.req.branches # Unsaid
      /\ pc = "transfer" => Moving(k)
  BY <1>1, <1>5, <1>8
<1>10. \A u \in Users : Owed(u, k) =>
         /\ pc \in {"revoke", "refused", "resolve", "transfer"}
         /\ Moving(k) \/ k.req.active = FALSE
  BY <1>1, <1>5, <1>6, <1>8 DEF Owed
<1> QED
  BY <1>2, <1>4, <1>7, <1>9, <1>10, QuietStep

(* leads-service moves leads: whoever is on the way out receives strays.    *)
LEMMA HandOver ==
  ASSUME IInv, NEW u \in Users, NEW o \in Orgs, NEW v \in Users \cup {None}, v # u,
         ReassignOrgLeads(u, o, v)
  PROVE  /\ leads' \subseteq Users \X Orgs /\ strays' \subseteq Users \X Orgs
         /\ <<u, o>> \notin leads'
         /\ \A w \in Users, p \in Orgs :
              OnTheWayOut(w, p) /\ (<<w, p>> \in leads => <<w, p>> \in strays)
              => (<<w, p>> \in leads' => <<w, p>> \in strays')
BY DEF ReassignOrgLeads, IInv, TypeOK, HistoryOK

LEMMA HandOverStep ==
  ASSUME IInv, NEW c \in Calls, calls[c] \in Update, NEW pc \in UpdatePcs, Goto(c, pc),
         ReassignOrgLeads(calls[c].user, calls[c].from, calls[c].req.leadsTo),
         calls[c].req.leadsTo # Unsaid,
         UNCHANGED <<rows, outdated, parted>>,
         pc \in {"move", "refused", "hr"},
         pc = "move" => Moving(calls[c]),
         \A u \in Users : Owed(u, calls[c]) =>
           \/ pc = "refused"
           \/ pc = "move" /\ (Moving(calls[c]) \/ calls[c].req.active = FALSE)
  PROVE  IInv'
<1>1. PICK k \in Update :
        /\ calls' = [calls EXCEPT ![c] = k] /\ k.pc = pc
        /\ k.user = calls[c].user /\ k.by = calls[c].by /\ k.req = calls[c].req
        /\ k.from = calls[c].from /\ k.role = calls[c].role /\ k.home = calls[c].home
  BY GotoStep
<1>2. k \in Call /\ k # None
  BY Shapes DEF Call
<1>3. UNCHANGED <<account, member>>
  BY DEF rows
<1>4. Knows(calls[c])
  BY DEF IInv, CallsKnow
<1>5. Knows(k)'
  BY <1>1, <1>3, <1>4 DEF Knows, Moving
<1>6. /\ calls' \in [Calls -> Call \cup {None}] /\ CallsKnow' /\ calls'[c] = k
      /\ \A d \in Calls \ {c} : calls'[d] = calls[d]
  BY <1>1, <1>2, <1>3, <1>5, CallsStep
<1>7. DebtsAreOwed'
  <2>1. ASSUME NEW u \in Users, NEW x \in outdated'[u], x[2] # "role"
        PROVE  (x \in outdated[u] /\ x[1] # c) \/ (x[1] = c /\ Owed(u, k))
    <3>1. x \in outdated[u] /\ Owed(u, calls[x[1]])
      BY <2>1 DEF IInv, DebtsAreOwed
    <3>2. CASE x[1] = c
      BY <1>1, <1>2, <3>1, <3>2 DEF Owed, Moving
    <3> QED
      BY <3>1, <3>2
  <2> QED
    BY <1>1, <1>2, <2>1, DebtsStep DEF IInv, HistoryOK
<1> DEFINE u == calls[c].user
           o == calls[c].from
<1>8. /\ u \in Users /\ o \in Orgs /\ calls[c].req.leadsTo \in Users \cup {None}
      /\ calls[c].req.leadsTo # u
  BY <1>4, PatchFields, UpdateAssumption DEF Knows
<1>9. /\ leads' \subseteq Users \X Orgs /\ strays' \subseteq Users \X Orgs
      /\ <<u, o>> \notin leads'
      /\ \A w \in Users, p \in Orgs :
           OnTheWayOut(w, p) /\ (<<w, p>> \in leads => <<w, p>> \in strays)
           => (<<w, p>> \in leads' => <<w, p>> \in strays')
  BY <1>8, HandOver
<1>10. PartedHaveLeft'
  BY <1>3, <1>9 DEF IInv, PartedHaveLeft, OnTheWayOut
<1>11. HandedOver'
  <2> SUFFICES ASSUME NEW d \in Calls, At(d, "move")',
                      <<calls'[d].user, calls'[d].from>> \in leads'
               PROVE  <<calls'[d].user, calls'[d].from>> \in strays'
    BY DEF HandedOver
  <2>1. CASE d = c
    BY <1>1, <1>6, <1>9, <2>1
  <2>2. CASE d # c
    <3>1. calls'[d] = calls[d] /\ At(d, "move")
      BY <1>6, <2>2 DEF At
    <3>2. calls[d].user \in Users /\ calls[d].from \in Orgs
      BY <3>1, Shapes, PatchFields DEF At, IInv, TypeOK, UpdatePcs
    <3>3. OnTheWayOut(calls[d].user, calls[d].from)
      BY <3>1 DEF OnTheWayOut
    <3> QED
      BY <1>9, <3>1, <3>2, <3>3 DEF IInv, HandedOver
  <2> QED
    BY <2>1, <2>2
<1>12. HistoryOK'
  BY <1>9 DEF IInv, HistoryOK
<1> QED
  BY <1>6, <1>7, <1>9, <1>10, <1>11, <1>12, RowsStay, InvParts

LEMMA HandLeadsOverKeepsIInv ==
  ASSUME IInv, NEW c \in Calls,
         HandLeadsOver(c) \/ HandOverTimesOut(c) \/ ReassignUserLeadsInOrg(c)
  PROVE  IInv'
<1>1. calls[c] # None /\ calls[c].pc \in {"transfer", "reassign"}
  BY DEF HandLeadsOver, HandOverTimesOut, ReassignUserLeadsInOrg, At
<1>2. calls[c] \in Update
  BY <1>1, Shapes DEF IInv, TypeOK, UpdatePcs
<1>3. Knows(calls[c])
  BY <1>2 DEF IInv, CallsKnow
<1>4. /\ ReassignOrgLeads(calls[c].user, calls[c].from, calls[c].req.leadsTo)
      /\ calls[c].req.leadsTo # Unsaid /\ UNCHANGED <<rows, outdated, parted>>
  BY <1>1, <1>3 DEF HandLeadsOver, HandOverTimesOut, ReassignUserLeadsInOrg, LeadsBranch,
                    Knows, At
<1>5. CASE calls[c].pc = "transfer"
  <2>1. Moving(calls[c])
    BY <1>3, <1>5 DEF Knows
  <2>2. Goto(c, "move") \/ Goto(c, "refused")
    BY <1>5 DEF HandLeadsOver, HandOverTimesOut, ReassignUserLeadsInOrg, At
  <2> QED
    BY <1>2, <1>4, <2>1, <2>2, HandOverStep DEF UpdatePcs
<1>6. CASE calls[c].pc = "reassign"
  <2>1. Goto(c, "hr")
    BY <1>6 DEF HandLeadsOver, HandOverTimesOut, ReassignUserLeadsInOrg, At
  <2>2. \A u \in Users : ~ Owed(u, calls[c])
    BY <1>6 DEF Owed
  <2> QED
    BY <1>2, <1>4, <2>1, <2>2, HandOverStep DEF UpdatePcs
<1> QED
  BY <1>1, <1>5, <1>6

(* A step of a call that takes something away, and owes it to the sessions. *)
LEMMA NewDebts ==
  ASSUME IInv, NEW c \in Calls, NEW k \in Call, calls' = [calls EXCEPT ![c] = k],
         NEW D \in SUBSET ({c} \X {"inactive", "role", "branch", "unmapped"}),
         outdated' = [outdated EXCEPT ![k.user] = @ \cup D],
         \A x \in D : x[2] # "role" => Owed(k.user, k),
         calls[c] # None => \A u \in Users : Owed(u, calls[c]) => Owed(u, k)
  PROVE  /\ outdated' \in [Users -> SUBSET (Calls \X {"inactive", "role", "branch", "unmapped"})]
         /\ DebtsAreOwed'
<1>1. k.user \in Users /\ k # None
  BY Shapes
<1>2. outdated' \in [Users -> SUBSET (Calls \X {"inactive", "role", "branch", "unmapped"})]
  BY <1>1 DEF IInv, HistoryOK
<1>3. ASSUME NEW u \in Users, NEW x \in outdated'[u], x[2] # "role"
      PROVE  (x \in outdated[u] /\ x[1] # c) \/ (x[1] = c /\ Owed(u, k))
  <2>1. x \in outdated[u] \/ (u = k.user /\ x \in D)
    BY <1>1, <1>3 DEF IInv, HistoryOK
  <2>2. CASE x \in outdated[u] /\ x[1] = c
    <3>1. Owed(u, calls[c])
      BY <1>3, <2>2 DEF IInv, DebtsAreOwed
    <3> QED
      BY <2>2, <3>1 DEF Owed
  <2>3. CASE u = k.user /\ x \in D
    BY <1>3, <2>3
  <2> QED
    BY <2>1, <2>2, <2>3
<1>4. DebtsAreOwed'
  BY <1>2, <1>3, DebtsStep
<1> QED
  BY <1>2, <1>4

LEMMA SetHomeKeepsIInv ==
  ASSUME IInv, NEW c \in Calls, SetHomeOrg(c)
  PROVE  IInv'
<1> DEFINE k == calls[c]
           D == (IF Moving(k) THEN {<<c, "branch">>} ELSE {}) \cup
                (IF MovedRole(k) # k.role THEN {<<c, "role">>} ELSE {})
<1>1. /\ k # None /\ k.pc = "set_home" /\ Goto(c, "reconcile")
      /\ home' = [home EXCEPT ![k.user] = k.home]
      /\ role' = [role EXCEPT ![k.user] = MovedRole(k)]
      /\ outdated' = [outdated EXCEPT ![k.user] = @ \cup D]
      /\ UNCHANGED <<account, mapRole, member, weight, leads, strays, parted>>
  BY DEF SetHomeOrg, At
<1>2. k \in Update
  BY <1>1, Shapes DEF IInv, TypeOK, UpdatePcs
<1>3. /\ Knows(k) /\ k.user \in Users /\ k.home \in Orgs /\ MovedRole(k) \in Roles
      /\ k.home # None /\ MovedRole(k) # None
  BY <1>2, PatchFields, MovedRoleIsARole, NoneAssumption DEF IInv, CallsKnow
<1>4. RowsOK'
  <2>1. account[k.user] # "absent"
    BY <1>3 DEF Knows
  <2> HIDE DEF k
  <2> QED
    BY <1>1, <1>3, <2>1, TypeParts DEF IInv, RowsOK
<1>5. PICK k2 \in Update :
        /\ calls' = [calls EXCEPT ![c] = k2] /\ k2.pc = "reconcile"
        /\ k2.user = k.user /\ k2.by = k.by /\ k2.req = k.req
        /\ k2.from = k.from /\ k2.role = k.role /\ k2.home = k.home
  BY <1>1, <1>2, GotoStep DEF UpdatePcs
<1>6. k2 \in Call /\ k2 # None
  BY Shapes DEF Call
<1>7. Knows(k2)'
  BY <1>1, <1>3, <1>5 DEF Knows, Moving
<1>8. calls' \in [Calls -> Call \cup {None}] /\ CallsKnow'
  BY <1>1, <1>5, <1>6, <1>7, CallsStep
<1>9. \A u \in Users : Owed(u, k) => Owed(u, k2)
  BY <1>1, <1>5, <1>6 DEF Owed, Moving
<1>10. \A x \in D : x[2] # "role" => Owed(k2.user, k2)
  BY <1>5, <1>6 DEF Owed, Moving
<1>11. D \in SUBSET ({c} \X {"inactive", "role", "branch", "unmapped"})
  OBVIOUS
<1>12. outdated' = [outdated EXCEPT ![k2.user] = @ \cup D]
  BY <1>1, <1>5
<1> HIDE DEF D
<1>13. /\ outdated' \in [Users -> SUBSET (Calls \X {"inactive", "role", "branch", "unmapped"})]
       /\ DebtsAreOwed'
  BY <1>5, <1>6, <1>9, <1>10, <1>11, <1>12, NewDebts
<1>14. PartedHaveLeft' /\ HandedOver'
  BY <1>1, <1>5, <1>6, LeadsStay
<1>15. HistoryOK' /\ leads' \subseteq Users \X Orgs
  BY <1>1, <1>13 DEF IInv, HistoryOK, TypeOK
<1> QED
  BY <1>4, <1>8, <1>13, <1>14, <1>15, InvParts

LEMMA MoveKeepsIInv ==
  ASSUME IInv, NEW c \in Calls, MoveUserBranch(c)
  PROVE  IInv'
<1> DEFINE k == calls[c]
           u == k.user
           pc == IF k.req.branches # Unsaid THEN "reconcile" ELSE "revoke"
           D == {<<c, "branch">>}
<1>1. /\ k # None /\ k.pc \in {"move", "transfer"} /\ Goto(c, pc)
      /\ home' = [home EXCEPT ![u] = k.home]
      /\ member' = [member EXCEPT ![u] = (member[u] \ {k.from}) \cup {k.home}]
      /\ weight' = [weight EXCEPT ![u] = Zeroed(u, {k.from})]
      /\ mapRole' = [mapRole EXCEPT ![u] = [mapRole[u] EXCEPT ![k.home] = MovedRole(k)]]
      /\ outdated' = [outdated EXCEPT ![u] = @ \cup D]
      /\ parted' = (parted \ {<<u, k.home>>}) \cup
                   (IF k.pc = "move" THEN {<<u, k.from>>} ELSE {})
      /\ UNCHANGED <<account, role, leads, strays>>
  BY DEF MoveUserBranch, At, Outdate, MembersMoved, RolesMoved
<1>2. k \in Update
  BY <1>1, Shapes DEF IInv, TypeOK, UpdatePcs
<1>3. /\ Knows(k) /\ u \in Users /\ k.home \in Orgs /\ k.from \in Orgs
      /\ MovedRole(k) \in Roles /\ k.home # None /\ MovedRole(k) # None
      /\ account[u] # "absent" /\ k.home # k.from
  BY <1>1, <1>2, PatchFields, MovedRoleIsARole, NoneAssumption
     DEF IInv, CallsKnow, Knows, Moving
<1>4. RowsOK'
  <2> DEFINE z == Zeroed(u, {k.from})
             roles == [mapRole[u] EXCEPT ![k.home] = MovedRole(k)]
             m == (member[u] \ {k.from}) \cup {k.home}
  <2>1. /\ roles \in [Orgs -> Roles \cup {None}] /\ m \in SUBSET Orgs
        /\ \A o \in Orgs : roles[o] = None => mapRole[u][o] = None /\ o # k.home
    BY <1>3, RowsOfAMember
  <2>2. z \in [Orgs -> Weights]
        /\ \A o \in Orgs, t \in Types : weight[u][o][t] = None => z[o][t] = None
    BY <1>3, ZeroedWeights
  <2>3. \A o \in Orgs : o \in m => o \in member[u] \/ o = k.home
    OBVIOUS
  <2>4. RowsBecome(u, account[u], k.home, role[u], roles, m, z)
    BY <1>1, <1>3, RowsOfAMember DEF RowsBecome
  <2> HIDE DEF z, roles, m, k, u
  <2>5. RowsFit(account[u], k.home, role[u], roles, m, z)
    <3>1. \A o \in Orgs : roles[o] = None => o \notin m /\ \A t \in Types : z[o][t] = None
      BY <1>3, <2>1, <2>2, <2>3, RowsOfAMember
    <3> QED
      BY <1>3, <2>1, <2>2, <3>1, RowsOfAMember DEF RowsFit
  <2> QED
    BY <1>3, <2>4, <2>5, RowStep
<1>5. pc \in {"reconcile", "revoke"} /\ (pc = "reconcile" => k.req.branches # Unsaid)
  OBVIOUS
<1> HIDE DEF pc
<1>6. PICK k2 \in Update :
        /\ calls' = [calls EXCEPT ![c] = k2] /\ k2.pc = pc
        /\ k2.user = k.user /\ k2.by = k.by /\ k2.req = k.req
        /\ k2.from = k.from /\ k2.role = k.role /\ k2.home = k.home
  BY <1>1, <1>2, <1>5, GotoStep DEF UpdatePcs
<1>7. k2 \in Call /\ k2 # None
  BY Shapes DEF Call
<1>8. Knows(k2)'
  BY <1>1, <1>3, <1>5, <1>6 DEF Knows, Moving
<1>9. /\ calls' \in [Calls -> Call \cup {None}] /\ CallsKnow' /\ calls'[c] = k2
      /\ \A d \in Calls \ {c} : calls'[d] = calls[d]
  BY <1>1, <1>6, <1>7, <1>8, CallsStep
<1>10. Owed(u, k2) /\ \A w \in Users : Owed(w, k) => Owed(w, k2)
  BY <1>3, <1>5, <1>6, <1>7 DEF Owed, Moving
<1>11. D \in SUBSET ({c} \X {"inactive", "role", "branch", "unmapped"})
  OBVIOUS
<1>12. outdated' = [outdated EXCEPT ![k2.user] = @ \cup D]
  BY <1>1, <1>6
<1> HIDE DEF D
<1>13. /\ outdated' \in [Users -> SUBSET (Calls \X {"inactive", "role", "branch", "unmapped"})]
       /\ DebtsAreOwed'
  BY <1>6, <1>7, <1>10, <1>11, <1>12, NewDebts
<1>14. k.pc = "move" => (<<u, k.from>> \in leads => <<u, k.from>> \in strays)
  BY <1>1 DEF IInv, HandedOver, At
<1>15. PartedHaveLeft'
  <2> SUFFICES ASSUME NEW w \in Users, NEW o \in Orgs, <<w, o>> \in parted'
               PROVE  /\ account[w] # "absent" /\ o \notin member'[w]
                      /\ <<w, o>> \in leads => <<w, o>> \in strays
    BY <1>1 DEF PartedHaveLeft
  <2> HIDE DEF k, u
  <2>1. CASE w = u /\ o = k.from
    <3>1. member'[u] = (member[u] \ {k.from}) \cup {k.home}
      BY <1>1, <1>3, TypeParts DEF IInv, RowsOK
    <3> QED
      BY <1>1, <1>3, <1>14, <2>1, <3>1 DEF IInv, PartedHaveLeft
  <2>2. CASE <<w, o>> # <<u, k.from>>
    <3>1. <<w, o>> \in parted /\ <<w, o>> # <<u, k.home>>
      BY <1>1, <1>3, <2>2
    <3>2. member'[w] \subseteq member[w] \cup (IF w = u THEN {k.home} ELSE {})
      BY <1>1, <1>3, TypeParts DEF IInv, RowsOK
    <3> QED
      BY <3>1, <3>2 DEF IInv, PartedHaveLeft
  <2> QED
    BY <2>1, <2>2
<1>16. HandedOver'
  BY <1>1, <1>5, <1>6, <1>9 DEF IInv, HandedOver, At
<1>17. HistoryOK' /\ leads' \subseteq Users \X Orgs
  BY <1>1, <1>3, <1>13 DEF IInv, HistoryOK, TypeOK
<1> QED
  BY <1>4, <1>9, <1>13, <1>15, <1>16, <1>17, InvParts

LEMMA FieldsKeepsIInv ==
  ASSUME IInv, NEW c \in Calls, UpdateFields(c)
  PROVE  IInv'
<1> DEFINE k == calls[c]
           u == k.user
<1>1. k # None /\ k.pc = "fields"
  BY DEF UpdateFields, At
<1>2. k \in Update
  BY <1>1, Shapes DEF IInv, TypeOK, UpdatePcs
<1>3. Knows(k) /\ u \in Users /\ k.req \in Updates /\ \A w \in Users : ~ Owed(w, k)
  BY <1>1, <1>2, PatchFields DEF IInv, CallsKnow, Owed
<1>4. /\ AfterFields(k) \in UpdatePcs \ {"sync_role", "move", "reassign", "fields"}
      /\ AfterFields(k) \in {"resolve", "set_home", "reconcile"} => k.req.branches # Unsaid
      /\ AfterFields(k) = "transfer" => Moving(k)
      /\ AfterFields(k) \in {"revoke", "refused", "resolve", "transfer", "hr"}
      /\ k.req.active = FALSE => AfterFields(k) # "hr"
  BY DEF AfterFields, UpdatePcs
<1>5. UNCHANGED <<home, mapRole, member, leads, strays, parted>>
  BY DEF UpdateFields
<1>6. CASE k.req.active = Unsaid /\ k.req.role = Unsaid
  <2>1. Goto(c, AfterFields(k)) /\ UNCHANGED <<rows, leads, history>>
    BY <1>5, <1>6 DEF UpdateFields, rows, history
  <2>2. RowsOK' /\ UNCHANGED <<account, member, leads, history>>
    BY <2>1, RowsStay DEF rows
  <2>3. PICK pc \in UpdatePcs : pc = AfterFields(k)
    BY <1>4
  <2> QED
    BY <1>2, <1>3, <1>4, <2>1, <2>2, <2>3, QuietStep
<1>7. CASE ~ (k.req.active = Unsaid /\ k.req.role = Unsaid) /\ ~ (Exists(u) /\ home[u] = k.from)
  <2>1. Finish(c) /\ UNCHANGED <<rows, leads, history>>
    BY <1>5, <1>7 DEF UpdateFields, rows, history
  <2> QED
    BY <1>3, <2>1, QuietFinish
<1>8. CASE ~ (k.req.active = Unsaid /\ k.req.role = Unsaid) /\ Exists(u) /\ home[u] = k.from
  <2> DEFINE D == (IF k.req.active = FALSE THEN {<<c, "inactive">>} ELSE {}) \cup
                  (IF k.req.role # Unsaid THEN {<<c, "role">>} ELSE {})
             pc == IF k.req.role # Unsaid THEN "sync_role" ELSE AfterFields(k)
             status == IF k.req.active = Unsaid THEN account[u]
                       ELSE IF k.req.active THEN "active" ELSE "inactive"
             newRole == IF k.req.role = Unsaid THEN role[u] ELSE k.req.role
             newWeight == IF k.req.active = FALSE THEN Zeroed(u, Orgs) ELSE weight[u]
  <2>1. /\ Goto(c, pc)
        /\ account' = [account EXCEPT ![u] = status]
        /\ role' = [role EXCEPT ![u] = newRole]
        /\ weight' = [weight EXCEPT ![u] = newWeight]
        /\ outdated' = [outdated EXCEPT ![u] = @ \cup D]
    <3>1. WriteFields(c) /\ Goto(c, pc)
      BY <1>8 DEF UpdateFields
    <3> QED
      BY <1>3, <3>1, TypeParts DEF WriteFields, IInv, RowsOK, HistoryOK
  <2>2. account[u] \in {"active", "inactive"} /\ status \in {"active", "inactive"}
    BY <1>8 DEF Exists
  <2>3. newRole \in Roles /\ newRole # None
    <3>1. role[u] \in Roles
      BY <1>3, <2>2, TypeParts DEF IInv, RowsOK
    <3>2. k.req.role \in Roles \cup {Unsaid}
      BY <1>3, UpdateAssumption
    <3> QED
      BY <3>1, <3>2, NoneAssumption
  <2>4. newWeight \in [Orgs -> Weights]
        /\ \A o \in Orgs, t \in Types : weight[u][o][t] = None => newWeight[o][t] = None
    BY <1>3, RowsOfAMember, ZeroedWeights
  <2>5. RowsOK'
    <3>1. \A o \in Orgs : mapRole[u][o] = None =>
            o \notin member[u] /\ \A t \in Types : newWeight[o][t] = None
      BY <1>3, <2>4, RowsOfAMember
    <3> HIDE DEF status, newRole, newWeight, k, u
    <3>2. RowsFit(status, home[u], newRole, mapRole[u], member[u], newWeight)
      BY <1>3, <2>2, <2>3, <2>4, <3>1, RowsOfAMember DEF RowsFit
    <3>3. RowsBecome(u, status, home[u], newRole, mapRole[u], member[u], newWeight)
      BY <1>3, <1>5, <2>1, RowsOfAMember DEF RowsBecome
    <3> QED
      BY <1>3, <3>2, <3>3, RowStep
  <2>6. /\ pc \in {"sync_role", "revoke", "refused", "resolve", "transfer", "hr"}
        /\ pc = "resolve" => k.req.branches # Unsaid
        /\ pc = "transfer" => Moving(k)
        /\ pc = "sync_role" => k.req.role # Unsaid
        /\ k.req.active = FALSE => pc # "hr"
    BY <1>4
  <2> HIDE DEF pc
  <2>7. PICK k2 \in Update :
          /\ calls' = [calls EXCEPT ![c] = k2] /\ k2.pc = pc
          /\ k2.user = k.user /\ k2.by = k.by /\ k2.req = k.req
          /\ k2.from = k.from /\ k2.role = k.role /\ k2.home = k.home
    BY <1>2, <2>1, <2>6, GotoStep DEF UpdatePcs
  <2>8. k2 \in Call /\ k2 # None
    BY Shapes DEF Call
  <2>9. \A w \in Users : account'[w] = "absent" => account[w] = "absent"
    BY <1>3, <2>1, <2>2, TypeParts DEF IInv, RowsOK
  <2>10. Knows(k2)'
    BY <1>3, <2>6, <2>7, <2>9 DEF Knows, Moving
  <2>11. calls' \in [Calls -> Call \cup {None}] /\ CallsKnow'
    BY <2>7, <2>8, <2>9, <2>10, CallsStep
  <2>12. \A x \in D : x[2] # "role" => Owed(k2.user, k2)
    BY <2>6, <2>7, <2>8 DEF Owed, Moving
  <2>13. D \in SUBSET ({c} \X {"inactive", "role", "branch", "unmapped"})
    OBVIOUS
  <2>14. outdated' = [outdated EXCEPT ![k2.user] = @ \cup D]
    BY <2>1, <2>7
  <2> HIDE DEF D
  <2>15. /\ outdated' \in [Users -> SUBSET (Calls \X {"inactive", "role", "branch", "unmapped"})]
         /\ DebtsAreOwed'
    BY <1>3, <2>7, <2>8, <2>12, <2>13, <2>14, NewDebts
  <2>16. PartedHaveLeft' /\ HandedOver'
    BY <1>5, <2>6, <2>7, <2>8, <2>9, LeadsStay
  <2>17. HistoryOK' /\ leads' \subseteq Users \X Orgs
    BY <1>5, <2>15 DEF IInv, HistoryOK, TypeOK
  <2> QED
    BY <2>5, <2>11, <2>15, <2>16, <2>17, InvParts
<1> QED
  BY <1>6, <1>7, <1>8

\* Memberships only of branches that are listed, and none of a branch parted with.
LEMMA ReconcileKeepsIInv ==
  ASSUME IInv, NEW c \in Calls, ReconcileOrgAssignments(c)
  PROVE  IInv'
<1> DEFINE k == calls[c]
           u == k.user
           want == k.req.branches
           orgs == {o \in Orgs : want[o] # None}
           updated == {o \in orgs \cap member[u] :
                         mapRole[u][o] # want[o].role \/ weight[u][o] # want[o].weights}
           written == updated \cup (orgs \ member[u])
           removed == member[u] \ orgs
           w == UpsertedWeights(u, want, written, TRUE)
           roles == UpsertedRoles(u, want, written)
           D == IF removed # {} THEN {<<c, "unmapped">>} ELSE {}
           pc == IF \/ Moving(k) \/ updated # {} \/ removed # {}
                    \/ k.req.active = FALSE
                 THEN "revoke" ELSE "hr"
<1>1. /\ k # None /\ k.pc = "reconcile"
      /\ UNCHANGED <<account, home, role, leads, strays>>
  BY DEF ReconcileOrgAssignments, At
<1>2. k \in Update
  BY <1>1, Shapes DEF IInv, TypeOK, UpdatePcs
<1>3. /\ Knows(k) /\ u \in Users /\ want \in Assignments
  BY <1>1, <1>2, PatchFields, UpdateAssumption DEF IInv, CallsKnow, Knows
<1>4. CASE AssertWeightType(u, w, roles)
  <2>1. /\ mapRole' = [mapRole EXCEPT ![u] = roles]
        /\ member' = [member EXCEPT ![u] = orgs]
        /\ weight' = [weight EXCEPT ![u] = w]
        /\ parted' = parted \ {<<u, o>> : o \in orgs}
        /\ outdated' = [outdated EXCEPT ![u] = @ \cup D]
        /\ Goto(c, pc)
    BY <1>4 DEF ReconcileOrgAssignments
  <2>2. /\ roles \in [Orgs -> Roles \cup {None}] /\ w \in [Orgs -> Weights]
        /\ \A o \in Orgs : roles[o] = None =>
             o \notin written /\ mapRole[u][o] = None /\ \A t \in Types : w[o][t] = None
    <3>1. written \in SUBSET {o \in Orgs : want[o] # None}
      OBVIOUS
    <3> HIDE DEF k, u, want, written
    <3>2. UpsertsFit(u, roles, w, written)
      BY <1>3, <3>1, Upserts
    <3> QED
      BY <3>2 DEF UpsertsFit
  <2>3. \A o \in orgs : o \in written \/ o \in member[u]
    OBVIOUS
  <2>4. RowsOK'
    <3>1. orgs \in SUBSET Orgs
      OBVIOUS
    <3> HIDE DEF k, u, want, orgs, updated, written, w, roles
    <3>2. RowsBecome(u, account[u], home[u], role[u], roles, orgs, w)
      BY <1>1, <1>3, <2>1, RowsOfAMember DEF RowsBecome
    <3>3. RowsFit(account[u], home[u], role[u], roles, orgs, w)
      BY <1>3, <2>2, <2>3, <3>1, RowsOfAMember DEF RowsFit
    <3> QED
      BY <1>3, <3>2, <3>3, RowStep
  <2>5. pc \in {"revoke", "hr"} /\ (pc = "hr" => removed = {} /\ ~ Moving(k) /\ k.req.active # FALSE)
    OBVIOUS
  <2>6. D \in SUBSET ({c} \X {"inactive", "role", "branch", "unmapped"})
        /\ (removed = {} => D = {})
    OBVIOUS
  <2>7. member'[u] = orgs /\ \A v \in Users \ {u} : member'[v] = member[v]
    BY <1>3, <2>1 DEF IInv, TypeOK
  <2> HIDE DEF pc, D, removed, written, updated, orgs, w, roles
  <2>8. PICK k2 \in Update :
          /\ calls' = [calls EXCEPT ![c] = k2] /\ k2.pc = pc
          /\ k2.user = k.user /\ k2.by = k.by /\ k2.req = k.req
          /\ k2.from = k.from /\ k2.role = k.role /\ k2.home = k.home
    BY <1>2, <2>1, <2>5, GotoStep DEF UpdatePcs
  <2>9. k2 \in Call /\ k2 # None
    BY Shapes DEF Call
  <2>10. Knows(k2)'
    BY <1>1, <1>3, <2>5, <2>8 DEF Knows, Moving
  <2>11. calls' \in [Calls -> Call \cup {None}] /\ CallsKnow'
    BY <1>1, <2>8, <2>9, <2>10, CallsStep
  <2>12. \A v \in Users : Owed(v, k) => Owed(v, k2)
    BY <1>1, <2>5, <2>8, <2>9 DEF Owed, Moving
  <2>13. \A x \in D : x[2] # "role" => Owed(k2.user, k2)
    BY <2>5, <2>6, <2>8, <2>9 DEF Owed, Moving
  <2>14. outdated' = [outdated EXCEPT ![k2.user] = @ \cup D]
    BY <2>1, <2>8
  <2>15. /\ outdated' \in [Users -> SUBSET (Calls \X {"inactive", "role", "branch", "unmapped"})]
         /\ DebtsAreOwed'
    BY <2>6, <2>8, <2>9, <2>12, <2>13, <2>14, NewDebts
  <2>16. PartedHaveLeft' /\ HandedOver'
    <3>1. parted' \subseteq parted
      BY <2>1
    <3>2. ASSUME NEW v \in Users, NEW o \in Orgs, <<v, o>> \in parted'
          PROVE  o \in member[v] \/ o \notin member'[v]
      BY <2>1, <2>7, <3>2
    <3> QED
      BY <1>1, <2>5, <2>8, <2>9, <3>1, <3>2, LeadsStay
  <2>17. HistoryOK' /\ leads' \subseteq Users \X Orgs
    BY <1>1, <2>1, <2>15 DEF IInv, HistoryOK, TypeOK
  <2> QED
    BY <2>4, <2>11, <2>15, <2>16, <2>17, InvParts
<1>5. CASE ~ AssertWeightType(u, w, roles)
  <2>1. Goto(c, "refused") /\ UNCHANGED <<rows, account, member, leads, history>>
    BY <1>1, <1>5 DEF ReconcileOrgAssignments, rows, history
  <2>2. RowsOK'
    BY <2>1, RowsStay
  <2> QED
    BY <1>2, <2>1, <2>2, QuietStep DEF UpdatePcs
<1> QED
  BY <1>4, <1>5

(* One row ends every session: nothing is owed any more.                    *)
LEMMA RevokeKeepsIInv ==
  ASSUME IInv, NEW c \in Calls, Revoke(c)
  PROVE  IInv'
<1> DEFINE k == calls[c]
<1>1. /\ k # None /\ k.pc = "revoke" /\ UNCHANGED <<rows, leads, strays, parted>>
      /\ outdated' = [outdated EXCEPT ![k.user] = {}]
  BY DEF Revoke, At
<1>2. k \in Call /\ k.user \in Users
  BY <1>1, Shapes DEF IInv, TypeOK
<1>3. /\ outdated' \in [Users -> SUBSET (Calls \X {"inactive", "role", "branch", "unmapped"})]
      /\ outdated'[k.user] = {}
      /\ \A u \in Users : \A x \in outdated'[u] : x \in outdated[u]
  BY <1>1, <1>2 DEF IInv, HistoryOK
<1>4. ASSUME NEW u \in Users, NEW x \in outdated'[u], x[1] = c PROVE x[2] = "role"
  BY <1>2, <1>3, <1>4 DEF IInv, DebtsAreOwed, Owed
<1>5. CASE k \notin Update
  <2>1. Finish(c)
    BY <1>2, <1>5, Shapes DEF Revoke
  <2> QED
    BY ONLY IInv, c \in Calls, <1>1, <1>3, <1>4, <2>1, FinishStep
<1>6. CASE k \in Update
  <2> DEFINE pc == IF /\ k.req.branches = Unsaid /\ ~Moving(k)
                      /\ k.req.active = FALSE /\ k.req.leadsTo # Unsaid
                   THEN "reassign" ELSE "hr"
  <2>1. Goto(c, pc)
    BY <1>2, <1>6, Shapes DEF Revoke
  <2>2. pc \in {"reassign", "hr"} /\ (pc = "reassign" => k.req.leadsTo # Unsaid)
    OBVIOUS
  <2> HIDE DEF pc
  <2>3. PICK k2 \in Update :
          /\ calls' = [calls EXCEPT ![c] = k2] /\ k2.pc = pc
          /\ k2.user = k.user /\ k2.by = k.by /\ k2.req = k.req
          /\ k2.from = k.from /\ k2.role = k.role /\ k2.home = k.home
    BY <1>6, <2>1, <2>2, GotoStep DEF UpdatePcs
  <2>4. k2 \in Call /\ k2 # None /\ UNCHANGED <<account, member>>
    BY <1>1, Shapes DEF Call, rows
  <2>5. Knows(k2)'
    <3>1. Knows(k)
      BY <1>6 DEF IInv, CallsKnow
    <3> QED
      BY <2>2, <2>3, <2>4, <3>1 DEF Knows, Moving
  <2>6. calls' \in [Calls -> Call \cup {None}] /\ CallsKnow'
    BY <2>3, <2>4, <2>5, CallsStep
  <2>7. \A u \in Users : \A x \in outdated'[u] : x[2] # "role" => x \in outdated[u] /\ x[1] # c
    BY <1>3, <1>4
  <2>8. DebtsAreOwed'
    <3>1. k2 \in Call \cup {None} /\ calls' = [calls EXCEPT ![c] = k2]
      BY <2>3, <2>4
    <3> QED
      BY ONLY IInv, c \in Calls, <1>3, <2>7, <3>1, DebtsStep
  <2>9. PartedHaveLeft' /\ HandedOver'
    BY <1>1, <2>2, <2>3, <2>4, LeadsStay
  <2>10. HistoryOK' /\ leads' \subseteq Users \X Orgs
    BY <1>1, <1>3 DEF IInv, HistoryOK, TypeOK
  <2> QED
    BY <1>1, <2>6, <2>8, <2>9, <2>10, RowsStay, InvParts
<1> QED
  BY <1>5, <1>6

----------------------------------------------------------------------------
(* The other operations.                                                    *)

\* A new call that is no PATCH takes what it takes away from its user, if at all.
LEMMA OtherCall ==
  ASSUME IInv, NEW c \in Calls, calls[c] = None, NEW k \in Call \ Update,
         calls' = [calls EXCEPT ![c] = k], k.pc \in {"revoke", "hr", "weights"},
         RowsOK', \A u \in Users : account'[u] = "absent" => account[u] = "absent",
         NEW D \in SUBSET {<<c, "unmapped">>}, D # {} => k.pc = "revoke",
         outdated' = [outdated EXCEPT ![k.user] = @ \cup D],
         UNCHANGED <<leads, strays, parted>>,
         \A u \in Users, o \in Orgs : <<u, o>> \in parted => o \in member[u] \/ o \notin member'[u]
  PROVE  IInv'
<1>1. k # None /\ k.user \in Users
  BY Shapes
<1>2. calls' \in [Calls -> Call \cup {None}] /\ CallsKnow'
  BY CallsStep
<1>3. \A x \in D : x[2] # "role" => Owed(k.user, k)
  BY <1>1 DEF Owed
<1>4. /\ outdated' \in [Users -> SUBSET (Calls \X {"inactive", "role", "branch", "unmapped"})]
      /\ DebtsAreOwed'
  <2>1. D \in SUBSET ({c} \X {"inactive", "role", "branch", "unmapped"})
    OBVIOUS
  <2> QED
    BY <1>1, <1>3, <2>1, NewDebts
<1>5. PartedHaveLeft' /\ HandedOver'
  BY <1>1, LeadsStay
<1>6. HistoryOK' /\ leads' \subseteq Users \X Orgs
  BY <1>4 DEF IInv, HistoryOK, TypeOK
<1> QED
  BY <1>2, <1>4, <1>5, <1>6, InvParts

LEMMA CreateKeepsIInv ==
  ASSUME IInv, NEW c \in Calls, NEW a \in Actors, NEW u \in Users, NEW b \in Creations,
         CreateUser(c, a, u, b)
  PROVE  IInv'
<1> DEFINE branches == b.branches
           h == b.home
           orgs == {o \in Orgs : branches[o] # None}
           w == UpsertedWeights(u, branches, orgs, FALSE)
           roles == UpsertedRoles(u, branches, orgs)
           k == [pc |-> "hr", user |-> u, home |-> h, active |-> TRUE]
<1>1. /\ calls[c] = None /\ account[u] = "absent" /\ h \in orgs
      /\ account' = [account EXCEPT ![u] = "active"]
      /\ home' = [home EXCEPT ![u] = h]
      /\ role' = [role EXCEPT ![u] = branches[h].role]
      /\ mapRole' = [mapRole EXCEPT ![u] = roles]
      /\ member' = [member EXCEPT ![u] = orgs]
      /\ weight' = [weight EXCEPT ![u] = w]
      /\ calls' = [calls EXCEPT ![c] = k] /\ UNCHANGED <<leads, outdated, strays, parted>>
  BY DEF CreateUser, Idle, history
<1>2. branches \in Assignments /\ h \in Orgs /\ h # None /\ orgs \in SUBSET Orgs
  BY <1>1, BodyAssumption, NoneAssumption
<1>3. branches[h].role \in Roles /\ branches[h].role # None
  BY <1>1, <1>2, NoneAssumption DEF Assignments, Assignment
<1>4. /\ roles \in [Orgs -> Roles \cup {None}] /\ w \in [Orgs -> Weights]
      /\ \A o \in Orgs : roles[o] = None => o \notin orgs /\ \A t \in Types : w[o][t] = None
  <2> HIDE DEF branches
  <2>1. UpsertsFit(u, roles, w, orgs)
    BY <1>2, Upserts
  <2> QED
    BY <2>1 DEF UpsertsFit
<1>5. k \in HrSync /\ k \in Call /\ k.pc = "hr" /\ k.user = u
  BY <1>2 DEF HrSync, Call
<1>6. k \notin Update
  BY DEF Update
<1> HIDE DEF branches, h, orgs, w, roles, k
<1>7. RowsOK'
  <2>1. RowsBecome(u, "active", h, branches[h].role, roles, orgs, w)
    BY <1>1 DEF RowsBecome
  <2>2. RowsFit("active", h, branches[h].role, roles, orgs, w)
    BY <1>2, <1>3, <1>4 DEF RowsFit
  <2> QED
    BY <2>1, <2>2, RowStep
<1>8. \A v \in Users : account'[v] = "absent" => account[v] = "absent"
  BY <1>1 DEF IInv, TypeOK
<1>9. \A v \in Users, o \in Orgs : <<v, o>> \in parted => o \in member[v] \/ o \notin member'[v]
  <2>1. \A v \in Users : v # u => member'[v] = member[v]
    BY <1>1 DEF IInv, TypeOK
  <2> QED
    BY <1>1, <2>1 DEF IInv, PartedHaveLeft
<1>10. outdated' = [outdated EXCEPT ![k.user] = @ \cup {}]
  BY <1>1 DEF IInv, HistoryOK
<1>11. {} \in SUBSET {<<c, "unmapped">>}
  OBVIOUS
<1> QED
  BY <1>1, <1>5, <1>6, <1>7, <1>8, <1>9, <1>10, <1>11, OtherCall

LEMMA BeginKeepsIInv ==
  ASSUME IInv, NEW c \in Calls, NEW a \in Actors, NEW u \in Users, NEW r \in Updates,
         UpdateBegin(c, a, u, r)
  PROVE  IInv'
<1> DEFINE new == [pc |-> "fields", user |-> u, by |-> a, req |-> r,
                   from |-> home[u], role |-> role[u],
                   home |-> IF r.branches # Unsaid THEN r.home
                            ELSE IF r.org # Unsaid THEN r.org ELSE home[u],
                   active |-> IF r.active = Unsaid THEN account[u] = "active" ELSE r.active]
<1>1. /\ calls[c] = None /\ Exists(u) /\ calls' = [calls EXCEPT ![c] = new]
      /\ r.leadsTo \in Users => MayTakeOver(r.leadsTo, u, home[u])
      /\ UNCHANGED <<rows, account, member, leads, outdated, strays, parted>>
  BY DEF UpdateBegin, Idle, rows
<1>2. account[u] # "absent" /\ home[u] \in Orgs /\ role[u] \in Roles
  BY <1>1, RowsOfAMember DEF Exists
<1>3. r.leadsTo # u
  BY <1>1 DEF MayTakeOver
<1>4. new.home \in Orgs /\ new.active \in BOOLEAN
  BY <1>2, UpdateAssumption
<1>5. /\ new.pc = "fields" /\ new.user = u /\ new.req = r
      /\ new.req.branches # Unsaid => new.home = new.req.home
  OBVIOUS
<1>6. new \in Update
  BY <1>2, <1>4 DEF Update
<1> HIDE DEF new
<1>7. PICK k \in Update : k = new
  BY <1>6
<1>8. k \in Call /\ k # None
  BY Shapes DEF Call
<1>9. Knows(k)'
  BY <1>1, <1>2, <1>3, <1>5, <1>7 DEF Knows
<1>10. calls' \in [Calls -> Call \cup {None}] /\ CallsKnow'
  BY <1>1, <1>7, <1>8, <1>9, CallsStep
<1>11. DebtsAreOwed'
  <2>1. \A v \in Users : \A x \in outdated'[v] : x[2] # "role" => x \in outdated[v] /\ x[1] # c
    BY <1>1 DEF IInv, DebtsAreOwed, Owed
  <2>2. outdated' \in [Users -> SUBSET (Calls \X {"inactive", "role", "branch", "unmapped"})]
    BY <1>1 DEF IInv, HistoryOK
  <2>3. k \in Call \cup {None} /\ calls' = [calls EXCEPT ![c] = k]
    BY <1>1, <1>7, <1>8
  <2> QED
    BY ONLY IInv, c \in Calls, <2>1, <2>2, <2>3, DebtsStep
<1>12. PartedHaveLeft' /\ HandedOver'
  BY <1>1, <1>5, <1>7, <1>8, LeadsStay
<1>13. HistoryOK' /\ leads' \subseteq Users \X Orgs
  BY <1>1 DEF IInv, HistoryOK, TypeOK
<1> QED
  BY <1>1, <1>10, <1>11, <1>12, <1>13, RowsStay, InvParts

LEMMA TakeAwayKeepsIInv ==
  ASSUME IInv, NEW c \in Calls, NEW a \in Actors, NEW u \in Users,
         DeleteUser(c, a, u) \/ \E o \in Orgs : RemoveOrgMapping(c, a, u, o)
  PROVE  IInv'
<1> DEFINE k == [pc |-> "revoke", user |-> u]
           D == {<<c, "unmapped">>}
<1>1. PICK s \in {"absent", "active", "inactive", "deleted"}, m \in SUBSET Orgs :
        /\ account' = [account EXCEPT ![u] = s] /\ s # "absent"
        /\ member' = [member EXCEPT ![u] = m] /\ m \subseteq member[u]
        /\ calls[c] = None /\ calls' = [calls EXCEPT ![c] = k]
        /\ outdated' = [outdated EXCEPT ![u] = @ \cup D]
        /\ UNCHANGED <<home, role, mapRole, weight, leads, strays, parted>>
        /\ account[u] # "absent"
  <2>1. CASE DeleteUser(c, a, u)
    <3>1. account[u] \in {"active", "inactive"}
      BY <2>1 DEF DeleteUser, Exists
    <3> DEFINE s == IF home[u] = a.org THEN "deleted" ELSE account[u]
    <3>2. s \in {"active", "inactive", "deleted"} /\ account' = [account EXCEPT ![u] = s]
      BY <2>1, <3>1, RowsOfAMember DEF DeleteUser
    <3>3. {} \in SUBSET Orgs /\ {} \subseteq member[u]
      OBVIOUS
    <3> HIDE DEF s
    <3> QED
      BY <2>1, <3>1, <3>2, <3>3 DEF DeleteUser, Idle, Outdate
  <2>2. CASE \E o \in Orgs : RemoveOrgMapping(c, a, u, o)
    <3>1. PICK o \in Orgs : RemoveOrgMapping(c, a, u, o)
      BY <2>2
    <3>2. account[u] \in {"active", "inactive"} /\ account' = [account EXCEPT ![u] = account[u]]
      BY <3>1, RowsOfAMember DEF RemoveOrgMapping, Exists
    <3> DEFINE m == member[u] \ {o}
    <3>3. m \in SUBSET Orgs /\ m \subseteq member[u] /\ member' = [member EXCEPT ![u] = m]
      BY <3>1, RowsOfAMember DEF RemoveOrgMapping
    <3>4. calls[c] = None /\ calls' = [calls EXCEPT ![c] = k]
          /\ outdated' = [outdated EXCEPT ![u] = @ \cup D]
          /\ UNCHANGED <<home, role, mapRole, weight, leads, strays, parted>>
      BY <3>1 DEF RemoveOrgMapping, Idle, Outdate
    <3> HIDE DEF m, k, D
    <3> QED
      BY <3>2, <3>3, <3>4
  <2> QED
    BY <2>1, <2>2
<1>2. k \in Revocation /\ k \in Call /\ k.pc = "revoke" /\ k.user = u
  BY DEF Revocation, Call
<1>3. k \notin Update
  BY DEF Update
<1>4. D \in SUBSET {<<c, "unmapped">>}
  OBVIOUS
<1> HIDE DEF k, D
<1>5. RowsOK'
  <2>1. RowsBecome(u, s, home[u], role[u], mapRole[u], m, weight[u])
    BY <1>1, RowsOfAMember DEF RowsBecome
  <2>2. RowsFit(s, home[u], role[u], mapRole[u], m, weight[u])
    BY <1>1, RowsOfAMember DEF RowsFit
  <2> QED
    BY <2>1, <2>2, RowStep
<1>6. \A v \in Users : account'[v] = "absent" => account[v] = "absent"
  BY <1>1 DEF IInv, TypeOK
<1>7. \A v \in Users, o \in Orgs : <<v, o>> \in parted => o \in member[v] \/ o \notin member'[v]
  BY <1>1 DEF IInv, TypeOK
<1>8. outdated' = [outdated EXCEPT ![k.user] = @ \cup D]
  BY <1>1, <1>2
<1> QED
  BY <1>1, <1>2, <1>3, <1>4, <1>5, <1>6, <1>7, <1>8, OtherCall

LEMMA AddOrgKeepsIInv ==
  ASSUME IInv, NEW a \in Actors, NEW u \in Users, NEW g \in Grants, AddOrgMapping(a, u, g)
  PROVE  IInv'
<1> DEFINE o == g.org
           w == [weight[u] EXCEPT ![o][g.type] = g.share]
           roles == [mapRole[u] EXCEPT ![o] = g.role]
           m == member[u] \cup {o}
<1>1. /\ mapRole' = [mapRole EXCEPT ![u] = roles]
      /\ member' = [member EXCEPT ![u] = m]
      /\ weight' = [weight EXCEPT ![u] = w]
      /\ parted' = parted \ {<<u, o>>}
      /\ UNCHANGED <<account, home, role, leads, calls, outdated, strays>>
  BY RowsOfAMember DEF AddOrgMapping
<1>2. o \in Orgs /\ g.role \in Roles /\ g.role # None /\ g.type \in Types /\ g.share \in Shares
  BY BodyAssumption, NoneAssumption
<1>3. /\ roles \in [Orgs -> Roles \cup {None}] /\ m \in SUBSET Orgs
      /\ \A p \in Orgs : roles[p] = None => p # o /\ mapRole[u][p] = None
  BY <1>2, RowsOfAMember
<1>4. w \in [Orgs -> Weights] /\ \A p \in Orgs : p # o => w[p] = weight[u][p]
  BY <1>2, RowsOfAMember DEF Weights
<1>5. \A p \in Orgs : roles[p] = None => p \notin m /\ \A t \in Types : w[p][t] = None
  <2>1. \A p \in Orgs : p \in m => p \in member[u] \/ p = o
    OBVIOUS
  <2> HIDE DEF w, roles, m, o
  <2> QED
    BY <1>3, <1>4, <2>1, RowsOfAMember
<1>6. m \subseteq member[u] \cup {o}
  OBVIOUS
<1> HIDE DEF w, roles, m, o
<1>7. RowsOK'
  <2>1. RowsBecome(u, account[u], home[u], role[u], roles, m, w)
    BY <1>1, RowsOfAMember DEF RowsBecome
  <2>2. RowsFit(account[u], home[u], role[u], roles, m, w)
    BY <1>3, <1>4, <1>5, RowsOfAMember DEF RowsFit
  <2> QED
    BY <2>1, <2>2, RowStep
<1>8. PartedHaveLeft'
  <2>1. \A v \in Users : member'[v] \subseteq member[v] \cup (IF v = u THEN {o} ELSE {})
    BY <1>1, <1>6 DEF IInv, TypeOK
  <2> QED
    BY <1>1, <2>1 DEF IInv, PartedHaveLeft
<1>9. CallsKnow' /\ DebtsAreOwed' /\ HandedOver' /\ HistoryOK'
  BY <1>1 DEF IInv, CallsKnow, Knows, Moving, DebtsAreOwed, Owed, HandedOver, At, HistoryOK
<1> QED
  BY <1>1, <1>7, <1>8, <1>9, TypeParts, InvParts DEF IInv

LEMMA CheckWeightsKeepsIInv ==
  ASSUME IInv, NEW c \in Calls, NEW o \in Orgs, NEW t \in Types,
         NEW S \in (SUBSET Users) \ {{}}, NEW shares \in [S -> Shares],
         CheckAssignmentWeights(c, o, t, shares)
  PROVE  IInv'
<1>1. PICK u \in S : calls' = [calls EXCEPT ![c] =
        [pc |-> "weights", user |-> u, org |-> o, type |-> t, shares |-> shares]]
  BY DEF CheckAssignmentWeights
<1> DEFINE k == [pc |-> "weights", user |-> u, org |-> o, type |-> t, shares |-> shares]
<1>2. calls[c] = None /\ UNCHANGED <<rows, account, member, leads, outdated, strays, parted>>
  BY DEF CheckAssignmentWeights, Idle, rows, history
<1>3. k \in WeightChange /\ k.pc = "weights" /\ k.user = u /\ u \in Users
  BY DEF WeightChange
<1>4. k \in Call \ Update
  BY <1>3, Shapes DEF Call
<1> HIDE DEF k
<1>5. outdated' = [outdated EXCEPT ![k.user] = @ \cup {}]
  BY <1>2, <1>3 DEF IInv, HistoryOK
<1>6. {} \in SUBSET {<<c, "unmapped">>}
  OBVIOUS
<1>7. calls' = [calls EXCEPT ![c] = k]
  BY <1>1 DEF k
<1> QED
  BY <1>2, <1>3, <1>4, <1>5, <1>6, <1>7, RowsStay, OtherCall

\* Shares are written to members only.
LEMMA WeightsKeepsIInv ==
  ASSUME IInv, NEW c \in Calls, UpdateAssignmentWeights(c)
  PROVE  IInv'
<1> DEFINE k == calls[c]
           users == DOMAIN k.shares
           w == [u \in Users |->
                   IF u \in users THEN [weight[u] EXCEPT ![k.org][k.type] = k.shares[u]]
                   ELSE weight[u]]
<1>1. /\ k # None /\ k.pc = "weights" /\ Finish(c)
      /\ UNCHANGED <<account, home, role, mapRole, member, leads, history>>
      /\ weight' = weight \/ (weight' = w /\ \A u \in users : k.org \in member[u])
  BY DEF UpdateAssignmentWeights, At
<1>2. k \in WeightChange /\ k \notin Update
  BY <1>1, Shapes DEF IInv, TypeOK
<1>3. k.org \in Orgs /\ k.type \in Types /\ \A u \in users : k.shares[u] \in Shares
  BY <1>2 DEF WeightChange
<1>4. ASSUME NEW u \in Users
      PROVE  /\ w[u] \in [Orgs -> Weights]
             /\ \A o \in Orgs : o # k.org \/ u \notin users => w[u][o] = weight[u][o]
  BY <1>3, RowsOfAMember DEF Weights
<1>5. w \in [Users -> [Orgs -> Weights]]
  <2>1. \A u \in Users : w[u] \in [Orgs -> Weights]
    BY <1>4
  <2>2. w = [u \in Users |-> w[u]]
    OBVIOUS
  <2> HIDE DEF w
  <2> QED
    BY <2>1, <2>2
<1>6. RowsOK'
  <2>1. CASE weight' = weight
    BY <1>1, <2>1, TypeParts DEF IInv, RowsOK
  <2>2. CASE weight' = w /\ \A u \in users : k.org \in member[u]
    <3>1. ASSUME NEW u \in Users, NEW o \in Orgs, mapRole[u][o] = None
          PROVE  \A t \in Types : w[u][o][t] = None
      <4>1. o \notin member[u] /\ \A t \in Types : weight[u][o][t] = None
        BY <3>1, RowsOfAMember
      <4>2. w[u][o] = weight[u][o]
        BY <1>4, <2>2, <4>1
      <4> QED
        BY <4>1, <4>2
    <3> HIDE DEF w
    <3> QED
      BY <1>1, <1>5, <2>2, <3>1, TypeParts DEF IInv, RowsOK
  <2> QED
    BY <1>1, <2>1, <2>2
<1>7. \A u \in Users : \A x \in outdated[u] : x[1] = c => x[2] = "role"
  BY <1>1, <1>2 DEF IInv, DebtsAreOwed, Owed
<1>8. UNCHANGED <<account, member, leads, strays, parted, outdated>>
  BY <1>1 DEF history
<1>9. calls' = [calls EXCEPT ![c] = None] /\ None \in Call \cup {None} /\ None \notin Update
  BY <1>1, NoneAssumption DEF Finish, Call
<1> HIDE DEF k
<1>10. calls' \in [Calls -> Call \cup {None}] /\ CallsKnow'
  BY <1>8, <1>9, CallsStep
<1>11. DebtsAreOwed'
  <2>1. \A u \in Users : \A x \in outdated'[u] : x[2] # "role" => x \in outdated[u] /\ x[1] # c
    BY <1>7, <1>8
  <2>2. outdated' \in [Users -> SUBSET (Calls \X {"inactive", "role", "branch", "unmapped"})]
    BY <1>8 DEF IInv, HistoryOK
  <2> QED
    BY ONLY IInv, c \in Calls, <1>9, <2>1, <2>2, DebtsStep
<1>12. PartedHaveLeft' /\ HandedOver'
  BY <1>8, <1>9, LeadsStay
<1>13. HistoryOK' /\ leads' \subseteq Users \X Orgs
  BY <1>8 DEF IInv, HistoryOK, TypeOK
<1> QED
  BY <1>6, <1>10, <1>11, <1>12, <1>13, InvParts

LEMMA LeadArrivesKeepsIInv ==
  ASSUME IInv, NEW u \in Users, NEW o \in Orgs, LeadArrives(u, o)
  PROVE  IInv'
<1>1. /\ leads' = leads \cup {<<u, o>>}
      /\ strays' = IF OnTheWayOut(u, o) THEN strays \cup {<<u, o>>} ELSE strays
      /\ UNCHANGED <<rows, account, member, calls, outdated, parted>>
  BY DEF LeadArrives, rows
<1>2. PartedHaveLeft'
  BY <1>1 DEF IInv, PartedHaveLeft, OnTheWayOut
<1>3. HandedOver'
  <2> SUFFICES ASSUME NEW c \in Calls, At(c, "move"),
                      <<calls[c].user, calls[c].from>> \in leads'
               PROVE  <<calls[c].user, calls[c].from>> \in strays'
    BY <1>1 DEF HandedOver, At
  <2>1. OnTheWayOut(calls[c].user, calls[c].from)
    BY DEF OnTheWayOut
  <2> QED
    BY <1>1, <2>1 DEF IInv, HandedOver
<1>4. CallsKnow' /\ DebtsAreOwed' /\ HistoryOK'
  BY <1>1 DEF IInv, CallsKnow, Knows, Moving, DebtsAreOwed, Owed, HistoryOK
<1>5. leads' \subseteq Users \X Orgs /\ calls' \in [Calls -> Call \cup {None}]
  BY <1>1 DEF IInv, TypeOK
<1> QED
  BY <1>1, <1>2, <1>3, <1>4, <1>5, RowsStay, InvParts

----------------------------------------------------------------------------
(* Nobody exists and nothing is in flight.                                  *)
LEMMA InitIInv == Init => IInv
<1> SUFFICES ASSUME Init PROVE IInv
  OBVIOUS
<1>1. None \notin Update
  BY NoneAssumption DEF Call
<1> QED
  BY <1>1 DEF Init, IInv, TypeOK, Weights, HistoryOK, CallsKnow, DebtsAreOwed,
              PartedHaveLeft, HandedOver, At

(* One case per operation; a PATCH is one step of it.                       *)
LEMMA NextIInv == IInv /\ [Next]_vars => IInv'
<1> SUFFICES ASSUME IInv, [Next]_vars PROVE IInv'
  OBVIOUS
<1>1. CASE \E c \in Calls, a \in Actors, u \in Users, b \in Creations : CreateUser(c, a, u, b)
  BY <1>1, CreateKeepsIInv
<1>2. CASE \E c \in Calls, a \in Actors, u \in Users, r \in Updates : UpdateBegin(c, a, u, r)
  BY <1>2, BeginKeepsIInv
<1>3. CASE \E c \in Calls : UpdateStep(c)
  <2>1. PICK c \in Calls : UpdateStep(c)
    BY <1>3
  <2> QED
    BY <2>1, FieldsKeepsIInv, SyncRoleKeepsIInv, RefusedKeepsIInv, ResolveKeepsIInv,
       HandLeadsOverKeepsIInv, MoveKeepsIInv, SetHomeKeepsIInv, ReconcileKeepsIInv,
       RevokeKeepsIInv, SyncHrKeepsIInv DEF UpdateStep
<1>4. CASE \E c \in Calls : CallFails(c) \/ UpdateAssignmentWeights(c)
  BY <1>4, RefusedKeepsIInv, WeightsKeepsIInv
<1>5. CASE \E c \in Calls, a \in Actors, u \in Users :
             DeleteUser(c, a, u) \/ \E o \in Orgs : RemoveOrgMapping(c, a, u, o)
  BY <1>5, TakeAwayKeepsIInv
<1>6. CASE \E a \in Actors, u \in Users, g \in Grants : AddOrgMapping(a, u, g)
  BY <1>6, AddOrgKeepsIInv
<1>7. CASE \E c \in Calls, o \in Orgs, t \in Types, S \in (SUBSET Users) \ {{}} :
             \E shares \in [S -> Shares] : CheckAssignmentWeights(c, o, t, shares)
  BY <1>7, CheckWeightsKeepsIInv
<1>8. CASE \E u \in Users, o \in Orgs : LeadArrives(u, o)
  BY <1>8, LeadArrivesKeepsIInv
<1>9. CASE UNCHANGED vars
  <2>1. UNCHANGED <<rows, account, member, leads, calls, outdated, strays, parted>>
    BY <1>9 DEF vars, rows, history
  <2>2. leads' \subseteq Users \X Orgs /\ calls' \in [Calls -> Call \cup {None}]
    BY <2>1 DEF IInv, TypeOK
  <2>3. HistoryOK' /\ CallsKnow' /\ DebtsAreOwed'
    BY <2>1 DEF IInv, HistoryOK, CallsKnow, Knows, Moving, DebtsAreOwed, Owed
  <2>4. PartedHaveLeft' /\ HandedOver'
    BY <2>1 DEF IInv, PartedHaveLeft, HandedOver, At
  <2> QED
    BY <2>1, <2>2, <2>3, <2>4, RowsStay, InvParts
<1> QED
  BY <1>1, <1>2, <1>3, <1>4, <1>5, <1>6, <1>7, <1>8, <1>9 DEF Next

THEOREM Invariance == Spec => []IInv
<1>1. Init => IInv
  BY InitIInv
<1>2. IInv /\ [Next]_vars => IInv'
  BY NextIInv
<1> QED
  BY <1>1, <1>2, PTL DEF Spec

(* A row has a home and a role exactly when the user exists; an active      *)
(* membership and a weight have their mapping row.                          *)
THEOREM TypeCorrect == Spec => []TypeOK
<1>1. IInv => TypeOK
  BY DEF IInv
<1> QED
  BY <1>1, Invariance, PTL

(* However requests overlap and wherever they fail: a branch or an account  *)
(* that was taken away, and whose caller heard of it, has no older session. *)
THEOREM NoSessionOutlivesItsAccess == Spec => []AccessLossEndsSessions
<1>1. IInv => AccessLossEndsSessions
  <2> SUFFICES ASSUME IInv, NEW u \in Users, NEW x \in outdated[u], x[2] # "role"
               PROVE  calls[x[1]] # None /\ calls[x[1]].user = u
    BY DEF AccessLossEndsSessions
  <2> QED
    BY DEF IInv, DebtsAreOwed, Owed
<1> QED
  BY <1>1, Invariance, PTL

(* The saga's order: whatever times out, fails or overlaps, a member that   *)
(* was transferred with a hand-over has left no lead behind him.            *)
THEOREM LeadsGoFirst == Spec => []LeadsAreHandedOverBeforeTheMove
<1>1. IInv => LeadsAreHandedOverBeforeTheMove
  <2> SUFFICES ASSUME IInv, NEW x \in parted \cap leads PROVE x \in strays
    BY DEF LeadsAreHandedOverBeforeTheMove
  <2>1. PICK u \in Users, o \in Orgs : x = <<u, o>>
    BY DEF IInv, HistoryOK
  <2> QED
    BY <2>1 DEF IInv, PartedHaveLeft
<1> QED
  BY <1>1, Invariance, PTL

(* The one step of an edit that replaces the branches, and the one that     *)
(* moves home, leave the member in one at least.                            *)
LEMMA EditKeepsOne ==
  ASSUME IInv, [Next]_vars, NEW c \in Calls, NEW u \in Users,
         calls[c] # None, "req" \in DOMAIN calls[c], calls[c].user = u,
         calls'[c] # calls[c], member[u] # {}
  PROVE  member'[u] # {}
<1> DEFINE k == calls[c]
<1>1. k \in Update
  BY Shapes DEF IInv, TypeOK
<1>2. Knows(k) /\ k.home \in Orgs /\ k.req \in Updates
  BY <1>1, PatchFields DEF IInv, CallsKnow
<1>3. SUFFICES ASSUME member' # member PROVE member'[u] # {}
  OBVIOUS
<1>4. ASSUME NEW d \in Calls, d # c, NEW x, calls' = [calls EXCEPT ![d] = x] PROVE FALSE
  BY <1>4 DEF IInv, TypeOK
<1>5. MoveUserBranch(c) \/ ReconcileOrgAssignments(c)
  <2>1. ASSUME NEW d \in Calls, UpdateStep(d) PROVE d = c /\ (MoveUserBranch(c) \/ ReconcileOrgAssignments(c))
    <3>1. MoveUserBranch(d) \/ ReconcileOrgAssignments(d)
      BY <1>3, <2>1 DEF UpdateStep, UpdateFields, SyncOrgMappingRole, UpdateRefused,
        ResolveAssignments, HandLeadsOver, HandOverTimesOut, SetHomeOrg, Revoke,
        ReassignUserLeadsInOrg, SyncHrProfile, rows
    <3>2. \E pc : Goto(d, pc)
      BY <3>1 DEF MoveUserBranch, ReconcileOrgAssignments
    <3>3. d = c
      BY <3>2 DEF Goto, IInv, TypeOK
    <3> QED
      BY <3>1, <3>3
  <2>2. ASSUME NEW d \in Calls PROVE ~ CallFails(d) /\ ~ UpdateAssignmentWeights(d)
    BY <1>3 DEF CallFails, UpdateAssignmentWeights, rows
  <2>3. ASSUME NEW d \in Calls, NEW a \in Actors, NEW v \in Users
        PROVE  /\ \A b \in Creations : ~ CreateUser(d, a, v, b)
               /\ \A r \in Updates : ~ UpdateBegin(d, a, v, r)
               /\ ~ DeleteUser(d, a, v) /\ \A o \in Orgs : ~ RemoveOrgMapping(d, a, v, o)
    <3>1. CASE d = c
      BY <3>1 DEF CreateUser, UpdateBegin, DeleteUser, RemoveOrgMapping, Idle
    <3>2. CASE d # c
      BY <1>4, <3>2 DEF CreateUser, UpdateBegin, DeleteUser, RemoveOrgMapping
    <3> QED
      BY <3>1, <3>2
  <2>4. ~ (\E a \in Actors, v \in Users, g \in Grants : AddOrgMapping(a, v, g))
    BY DEF AddOrgMapping
  <2>5. ~ (\E v \in Users, o \in Orgs : LeadArrives(v, o)) /\ ~ UNCHANGED vars
    BY DEF LeadArrives, vars
  <2>6. ~ (\E d \in Calls, o \in Orgs, t \in Types, S \in (SUBSET Users) \ {{}} :
             \E shares \in [S -> Shares] : CheckAssignmentWeights(d, o, t, shares))
    BY <1>3 DEF CheckAssignmentWeights, rows
  <2> QED
    BY <2>1, <2>2, <2>3, <2>4, <2>5, <2>6 DEF Next
<1>6. CASE MoveUserBranch(c)
  <2>1. member' = [member EXCEPT ![u] = (member[u] \ {k.from}) \cup {k.home}]
    BY <1>6 DEF MoveUserBranch, MembersMoved
  <2> QED
    BY <2>1 DEF IInv, TypeOK
<1>7. CASE ReconcileOrgAssignments(c)
  <2>1. member' = [member EXCEPT ![u] = {o \in Orgs : k.req.branches[o] # None}]
    BY <1>3, <1>7 DEF ReconcileOrgAssignments
  <2>2. k.pc = "reconcile"
    BY <1>7 DEF ReconcileOrgAssignments, At
  <2>3. k.req.branches[k.home] # None
    BY <1>2, <2>2, UpdateAssumption DEF Knows
  <2> QED
    BY <1>2, <2>1, <2>3 DEF IInv, TypeOK
<1> QED
  BY <1>5, <1>6, <1>7

(* "So the user is never briefly a member of nothing": whatever the edit,   *)
(* its body and what else is going on.                                      *)
THEOREM NeverAMemberOfNothing == Spec => EditsKeepAMembership
<1>1. IInv /\ [Next]_vars =>
        \A c \in Calls, u \in Users :
          /\ calls[c] # None /\ "req" \in DOMAIN calls[c] /\ calls[c].user = u
          /\ calls'[c] # calls[c]
          /\ member[u] # {}
          => member'[u] # {}
  BY EditKeepsOne
<1> QED
  BY <1>1, Invariance, PTL DEF Spec, EditsKeepAMembership

=============================================================================
