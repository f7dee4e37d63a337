------------------------ MODULE ReportingLinesProofs ------------------------
(***************************************************************************)
(* Proofs about ReportingLines, for any number of users, branches and      *)
(* open transactions, when transactions that write lines do not overlap    *)
(* (Overlap = FALSE).  With overlap LinesFormTrees is false.  The last     *)
(* theorems show the abstract Hierarchy implemented, and what it is worth. *)
(***************************************************************************)
EXTENDS ReportingLines, TLAPS

(* Nobody's chain of managers loops.                                       *)
Acyclic(boss) == \A u \in Users : ~Looping(boss, u)

Bosses == [Users -> Users \cup {None}]

(* A row that does not exist has no memberships.                           *)
AbsentAreNoMembers == \A u \in Users : account[u] = "absent" => member[u] = {}

(* At most one transaction is open, and what its triggers checked is still *)
(* so when it commits.                                                     *)
OneOpen == \A c, d \in Calls : calls[c] # None /\ calls[d] # None => c = d

StillLegal(w) ==
  /\ Exists(w.user)
  /\ w.boss # None =>
       /\ w.org \in member[w.user] \cap member[w.boss]
       /\ ~Looping([line[w.org] EXCEPT ![w.user] = w.boss], w.user)

OpenIsLegal == \A c \in Calls : calls[c] # None => StillLegal(calls[c])

Kept == LinesFormTrees /\ LinesJoinMembers /\ AbsentAreNoMembers
Open == OneOpen /\ OpenIsLegal

IInv == TypeOK /\ Kept /\ Open

----------------------------------------------------------------------------
(* Chains.                                                                 *)

(* Pointing one user elsewhere keeps all chains finite if that user's own  *)
(* new chain is: what check_reporting_line_no_cycle relies on when it      *)
(* follows the one chain only.                                             *)
LEMMA OneChainSuffices ==
  ASSUME NEW boss \in Bosses, NEW u \in Users, NEW m, Acyclic(boss),
         ~Looping([boss EXCEPT ![u] = m], u)
  PROVE  Acyclic([boss EXCEPT ![u] = m])
<1> DEFINE new == [boss EXCEPT ![u] = m]
<1> SUFFICES ASSUME NEW x \in Users, NEW S \in SUBSET Users, x \in S,
                    \A y \in S : new[y] \in S
             PROVE  FALSE
  BY DEF Acyclic, Looping
<1>1. CASE u \in S
  BY <1>1 DEF Looping
<1>2. CASE u \notin S
  <2>1. \A y \in S : boss[y] \in S
    BY <1>2 DEF Bosses
  <2> QED
    BY <2>1 DEF Acyclic, Looping
<1> QED
  BY <1>1, <1>2

(* Taking managers away makes no loop.                                     *)
LEMMA FewerLinesNoLoop ==
  ASSUME NEW old \in Bosses, NEW new \in Bosses, Acyclic(old),
         \A x \in Users : new[x] \in {old[x], None}
  PROVE  Acyclic(new)
<1> SUFFICES ASSUME NEW x \in Users, NEW S \in SUBSET Users, x \in S,
                    \A y \in S : new[y] \in S
             PROVE  FALSE
  BY DEF Acyclic, Looping
<1>1. \A y \in S : old[y] \in S
  BY HierarchyAssumption
<1> QED
  BY <1>1 DEF Acyclic, Looping

(* A user nobody reports to may report to anybody else.                    *)
LEMMA NewcomerMakesNoLoop ==
  ASSUME NEW boss \in Bosses, NEW u \in Users, NEW m \in Users \cup {None},
         Acyclic(boss), m # u, \A x \in Users : boss[x] # u
  PROVE  Acyclic([boss EXCEPT ![u] = m])
<1> DEFINE new == [boss EXCEPT ![u] = m]
<1> SUFFICES ASSUME NEW S \in SUBSET Users, u \in S, \A y \in S : new[y] \in S
             PROVE  FALSE
  BY OneChainSuffices DEF Looping
<1> DEFINE T == S \ {u}
<1>1. m \in T
  BY DEF Bosses
<1>2. \A y \in T : boss[y] \in T
  BY DEF Bosses
<1> QED
  BY <1>1, <1>2 DEF Acyclic, Looping

(* Closing a user's lines in some branches: what is left of every branch   *)
(* is part of what was there.                                              *)
LEMMA ClosingOnlyCloses ==
  ASSUME TypeOK, NEW u \in Users, NEW orgs \in SUBSET Orgs
  PROVE  /\ CloseLines(u, orgs) \in [Orgs -> Bosses]
         /\ \A o \in Orgs, x \in Users :
              CloseLines(u, orgs)[o][x] \in {line[o][x], None}
         /\ \A o \in orgs, x \in Users :
              /\ CloseLines(u, orgs)[o][u] = None
              /\ CloseLines(u, orgs)[o][x] # u
         /\ \A o \in Orgs \ orgs, x \in Users :
              CloseLines(u, orgs)[o][x] = line[o][x]
BY HierarchyAssumption DEF TypeOK, CloseLines, Bosses

(* Nothing but its own commit or rollback happens while one is open.       *)
LEMMA NoneOpen ==
  ASSUME ~Overlap, NEW users, Free(users)
  PROVE  \A c \in Calls : calls[c] = None
BY DEF Free

(* With nothing open there is nothing a change could invalidate.           *)
LEMMA IdleStaysLegal ==
  ASSUME \A c \in Calls : calls[c] = None, UNCHANGED calls
  PROVE  Open'
BY DEF Open, OneOpen, OpenIsLegal

----------------------------------------------------------------------------
(* The initial states, and one lemma per group of requests.                *)

LEMMA InitIsKept ==
  ASSUME Init PROVE IInv
<1>1. TypeOK /\ LinesJoinMembers /\ AbsentAreNoMembers /\ Open
  BY HierarchyAssumption
  DEF Init, TypeOK, Accounts, LinesJoinMembers, AbsentAreNoMembers, Open,
      OneOpen, OpenIsLegal
<1>2. LinesFormTrees
  BY HierarchyAssumption DEF Init, LinesFormTrees, Looping
<1> QED
  BY <1>1, <1>2 DEF IInv, Kept

LEMMA CreateKeeps ==
  ASSUME IInv, ~Overlap, NEW u \in Users, NEW h \in Orgs,
         NEW branches \in SUBSET Orgs, NEW m \in Users \cup {None},
         CreateUser(u, h, branches, m)
  PROVE  IInv'
<1> DEFINE lines == [line EXCEPT ![h][u] = m]
<1> USE HierarchyAssumption
<1>1. /\ account[u] = "absent" /\ member[u] = {} /\ h \in branches
      /\ account' = [account EXCEPT ![u] = "active"]
      /\ home' = [home EXCEPT ![u] = h]
      /\ line' = lines
      /\ mirror' \in [Users -> Users \cup {None}]
      /\ calls' = calls
      /\ m # None => m # u
  BY DEF CreateUser, WriteLines, SyncMirror, IInv, Kept, AbsentAreNoMembers,
         MayManageIn
<1>2. /\ member' \in [Users -> SUBSET Orgs]
      /\ h \in member'[u]
      /\ m # None => h \in member'[m]
      /\ \A x \in Users : member[x] \subseteq member'[x]
      /\ \A x \in Users : x # u /\ x # m => member'[x] = member[x]
      /\ m # None => account[m] = "active"
  BY <1>1 DEF CreateUser, Granted, FirstMappings, IInv, TypeOK, MayManageIn
<1>3. TypeOK'
  BY <1>1, <1>2 DEF IInv, TypeOK, Accounts
<1>4. LinesFormTrees'
  <2> SUFFICES ASSUME NEW o \in Orgs PROVE Acyclic(lines[o])
    BY <1>1 DEF LinesFormTrees, Acyclic, Looping
  <2>1. line[o] \in Bosses /\ Acyclic(line[o])
    BY DEF IInv, Kept, TypeOK, LinesFormTrees, Acyclic, Bosses
  <2>2. CASE o # h
    BY <2>1, <2>2 DEF IInv, TypeOK
  <2>3. CASE o = h
    <3>1. lines[o] = [line[o] EXCEPT ![u] = m]
      BY <2>3 DEF IInv, TypeOK
    <3>2. \A x \in Users : line[o][x] # u
      BY <1>1 DEF IInv, Kept, LinesJoinMembers
    <3> QED
      BY <1>1, <2>1, <3>1, <3>2, NewcomerMakesNoLoop
  <2> QED
    BY <2>2, <2>3
<1>5. LinesJoinMembers'
  BY <1>1, <1>2 DEF IInv, Kept, TypeOK, LinesJoinMembers
<1>6. AbsentAreNoMembers'
  BY <1>1, <1>2 DEF IInv, Kept, TypeOK, AbsentAreNoMembers
<1>7. Open'
  BY <1>1, NoneOpen, IdleStaysLegal DEF CreateUser
<1> QED
  BY <1>3, <1>4, <1>5, <1>6, <1>7 DEF IInv, Kept

(* Requests that close the lines of u in orgs, change u's memberships to a *)
(* set that keeps the branches outside orgs, and do no more to the lines.  *)
LEMMA ClosingKeeps ==
  ASSUME IInv, NEW u \in Users, NEW orgs \in SUBSET Orgs,
         account[u] # "absent",
         TypeOK', calls' = calls, \A c \in Calls : calls[c] = None,
         \A x \in Users : account'[x] = "absent" <=> account[x] = "absent",
         line' = CloseLines(u, orgs),
         \A x \in Users \ {u} : member'[x] = member[x],
         member[u] \ orgs \subseteq member'[u]
  PROVE  IInv'
<1> USE HierarchyAssumption
<1>0. TypeOK
  BY DEF IInv
<1>1. LinesFormTrees'
  <2> SUFFICES ASSUME NEW o \in Orgs PROVE Acyclic(CloseLines(u, orgs)[o])
    BY DEF LinesFormTrees, Acyclic, Looping
  <2>1. line[o] \in Bosses /\ Acyclic(line[o])
    BY DEF IInv, Kept, TypeOK, LinesFormTrees, Acyclic, Bosses
  <2> QED
    BY <1>0, <2>1, ClosingOnlyCloses, FewerLinesNoLoop
<1>2. LinesJoinMembers'
  <2> SUFFICES ASSUME NEW o \in Orgs, NEW x \in Users,
                      CloseLines(u, orgs)[o][x] # None
               PROVE  o \in member'[x] /\ o \in member'[CloseLines(u, orgs)[o][x]]
    BY DEF LinesJoinMembers
  <2>1. CloseLines(u, orgs)[o][x] = line[o][x]
    BY <1>0, ClosingOnlyCloses
  <2>2. o \in orgs => x # u /\ line[o][x] # u
    BY <1>0, <2>1, ClosingOnlyCloses
  <2>3. line[o][x] \in Users /\ o \in member[x] /\ o \in member[line[o][x]]
    BY <1>0, <2>1 DEF IInv, Kept, LinesJoinMembers, TypeOK
  <2> QED
    BY <2>1, <2>2, <2>3
<1>3. AbsentAreNoMembers'
  BY DEF IInv, Kept, AbsentAreNoMembers
<1>4. Open'
  BY IdleStaysLegal
<1> QED
  BY <1>1, <1>2, <1>3, <1>4 DEF IInv, Kept

LEMMA MoveKeeps ==
  ASSUME IInv, ~Overlap, NEW u \in Users, NEW from \in Orgs, NEW to \in Orgs,
         MoveUserBranch(u, from, to)
  PROVE  IInv'
<1> USE HierarchyAssumption
<1>0. TypeOK /\ CloseLines(u, {from}) \in [Orgs -> Bosses]
  BY ClosingOnlyCloses DEF IInv
<1>1. TypeOK'
  <2>1. /\ account[u] # "absent" /\ account' = account
        /\ home' = [home EXCEPT ![u] = to]
        /\ member' = [member EXCEPT ![u] = (@ \ {from}) \cup {to}]
        /\ line' = CloseLines(u, {from})
        /\ mirror' \in [Users -> Users \cup {None}] /\ calls' = calls
    BY DEF MoveUserBranch, WriteLines, SyncMirror, Exists
  <2> QED
    BY <1>0, <2>1 DEF TypeOK, Bosses
<1>2. /\ account[u] # "absent"
      /\ line' = CloseLines(u, {from})
      /\ \A x \in Users \ {u} : member'[x] = member[x]
      /\ member[u] \ {from} \subseteq member'[u]
      /\ account' = account /\ calls' = calls
  BY DEF MoveUserBranch, WriteLines, IInv, TypeOK, Exists
<1>3. \A c \in Calls : calls[c] = None
  BY NoneOpen DEF MoveUserBranch
<1> QED
  BY <1>1, <1>2, <1>3, ClosingKeeps

LEMMA RemoveKeeps ==
  ASSUME IInv, ~Overlap, NEW u \in Users, NEW o \in Orgs,
         RemoveOrgMapping(u, o)
  PROVE  IInv'
<1> USE HierarchyAssumption
<1>0. TypeOK /\ CloseLines(u, {o}) \in [Orgs -> Bosses]
  BY ClosingOnlyCloses DEF IInv
<1>1. TypeOK'
  <2>1. /\ account' = account /\ home' = home /\ calls' = calls
        /\ member' = [member EXCEPT ![u] = @ \ {o}]
        /\ line' = CloseLines(u, {o})
        /\ mirror' \in [Users -> Users \cup {None}]
    BY DEF RemoveOrgMapping, WriteLines, SyncMirror
  <2> QED
    BY <1>0, <2>1 DEF TypeOK, Bosses
<1>2. /\ account[u] # "absent"
      /\ line' = CloseLines(u, {o})
      /\ \A x \in Users \ {u} : member'[x] = member[x]
      /\ member[u] \ {o} \subseteq member'[u]
      /\ account' = account /\ calls' = calls
  BY DEF RemoveOrgMapping, WriteLines, IInv, TypeOK, Exists
<1>3. \A c \in Calls : calls[c] = None
  BY NoneOpen DEF RemoveOrgMapping
<1> QED
  BY <1>1, <1>2, <1>3, ClosingKeeps

LEMMA DeleteKeeps ==
  ASSUME IInv, ~Overlap, NEW u \in Users, SoftDeleteUser(u)
  PROVE  IInv'
<1> USE HierarchyAssumption
<1>1. /\ account' \in [Users -> Accounts]
      /\ \A x \in Users : account'[x] = "absent" <=> account[x] = "absent"
  BY DEF SoftDeleteUser, IInv, TypeOK, Exists, Accounts
<1>2. TypeOK'
  BY <1>1, ClosingOnlyCloses
  DEF SoftDeleteUser, WriteLines, SyncMirror, IInv, TypeOK, Bosses
<1>3. /\ account[u] # "absent"
      /\ line' = CloseLines(u, Orgs)
      /\ \A x \in Users \ {u} : member'[x] = member[x]
      /\ member[u] \ Orgs \subseteq member'[u]
      /\ calls' = calls
  BY DEF SoftDeleteUser, WriteLines, IInv, TypeOK, Exists
<1>4. \A c \in Calls : calls[c] = None
  BY NoneOpen DEF SoftDeleteUser
<1> QED
  BY <1>1, <1>2, <1>3, <1>4, ClosingKeeps

(* The lines are closed first, then the manager's is written: the loop     *)
(* check sees the chains of the home branch, which stays among the user's. *)
LEMMA ReconcileKeeps ==
  ASSUME IInv, ~Overlap, NEW u \in Users, NEW branches \in SUBSET Orgs,
         NEW o \in Orgs, NEW m \in Users \cup {None, Unsaid},
         ReconcileOrgAssignments(u, branches, o, m)
  PROVE  IInv'
<1> DEFINE gone == member[u] \ branches
           kept == CloseLines(u, gone)
<1> USE HierarchyAssumption
<1>0. TypeOK /\ gone \in SUBSET Orgs
  BY DEF IInv, TypeOK
<1>1. /\ account[u] # "absent" /\ o \in branches
      /\ account' = account /\ home' = home /\ calls' = calls
      /\ line' = IF m = Unsaid THEN kept ELSE [kept EXCEPT ![o][u] = m]
      /\ mirror' \in [Users -> Users \cup {None}]
      /\ m \in Users => m # u /\ account[m] = "active" /\ NoLoop(o, u, m)
      /\ member' = Granted([member EXCEPT ![u] = branches], m, o)
  BY DEF ReconcileOrgAssignments, WriteLines, SyncMirror, Exists, MayManageIn
<1>2. /\ member' \in [Users -> SUBSET Orgs]
      /\ branches \subseteq member'[u]
      /\ m \in Users => o \in member'[m]
      /\ \A x \in Users \ {u} : member[x] \subseteq member'[x]
      /\ \A x \in Users : account[x] = "absent" => member'[x] = member[x]
  BY <1>0, <1>1 DEF Granted, TypeOK
<1>3. /\ kept \in [Orgs -> Bosses]
      /\ \A p \in Orgs, x \in Users : kept[p][x] \in {line[p][x], None}
      /\ \A p \in gone, x \in Users : kept[p][u] = None /\ kept[p][x] # u
      /\ \A p \in Orgs \ gone, x \in Users : kept[p][x] = line[p][x]
  BY <1>0, ClosingOnlyCloses
<1> HIDE DEF kept
<1>4. TypeOK'
  BY <1>0, <1>1, <1>2, <1>3 DEF TypeOK, Bosses
<1>5. LinesFormTrees'
  <2> SUFFICES ASSUME NEW p \in Orgs PROVE Acyclic(line'[p])
    BY DEF LinesFormTrees, Acyclic, Looping
  <2>1. line[p] \in Bosses /\ Acyclic(line[p])
    BY DEF IInv, Kept, TypeOK, LinesFormTrees, Acyclic, Bosses
  <2>2. kept[p] \in Bosses /\ Acyclic(kept[p])
    <3>1. kept[p] \in Bosses /\ \A x \in Users : kept[p][x] \in {line[p][x], None}
      BY <1>3
    <3> QED
      BY <2>1, <3>1, FewerLinesNoLoop
  <2>3. CASE m = Unsaid \/ p # o
    BY <1>1, <1>3, <2>2, <2>3
  <2>4. CASE m = None /\ p = o
    <3>1. line'[p] = [kept[p] EXCEPT ![u] = None]
      BY <1>1, <1>3, <2>4
    <3>2. /\ [kept[p] EXCEPT ![u] = None] \in Bosses
          /\ \A x \in Users : [kept[p] EXCEPT ![u] = None][x] \in {kept[p][x], None}
      BY <2>2 DEF Bosses
    <3>3. Acyclic([kept[p] EXCEPT ![u] = None])
      BY <2>2, <3>2, FewerLinesNoLoop
    <3> QED
      BY <3>1, <3>3
  <2>5. CASE m \in Users /\ p = o
    <3>1. line'[p] = [kept[p] EXCEPT ![u] = m]
      BY <1>1, <1>3, <2>5
    <3>2. kept[p] = line[p]
      <4>1. \A x \in Users : kept[p][x] = line[p][x]
        BY <1>1, <1>3, <2>5
      <4> QED
        BY <2>1, <2>2, <4>1 DEF Bosses
    <3>3. ~Looping([line[p] EXCEPT ![u] = m], u)
      BY <1>1, <2>5 DEF NoLoop
    <3>4. Acyclic([line[p] EXCEPT ![u] = m])
      BY <2>1, <3>3, OneChainSuffices
    <3> QED
      BY <3>1, <3>2, <3>4
  <2> QED
    BY <2>3, <2>4, <2>5
<1>6. LinesJoinMembers'
  <2> SUFFICES ASSUME NEW p \in Orgs, NEW x \in Users, line'[p][x] # None
               PROVE  p \in member'[x] /\ p \in member'[line'[p][x]]
    BY DEF LinesJoinMembers
  <2>1. CASE p = o /\ x = u /\ m # Unsaid
    <3>1. line'[p][x] = m
      BY <1>1, <1>3, <2>1 DEF Bosses
    <3>2. m \in Users
      BY <2>1, <3>1
    <3> QED
      BY <1>1, <1>2, <2>1, <3>1, <3>2
  <2>2. CASE ~(p = o /\ x = u /\ m # Unsaid)
    <3>1. line'[p][x] = kept[p][x]
      BY <1>1, <1>3, <2>2 DEF Bosses
    <3>2. kept[p][x] = line[p][x]
      BY <1>3, <3>1
    <3>3. line[p][x] \in Users /\ p \in member[x] /\ p \in member[line[p][x]]
      BY <3>1, <3>2 DEF IInv, Kept, LinesJoinMembers, TypeOK
    <3>4. p \in gone => x # u /\ line[p][x] # u
      BY <1>3, <3>1, <3>2
    <3> QED
      BY <1>2, <3>1, <3>2, <3>3, <3>4
  <2> QED
    BY <2>1, <2>2
<1>7. AbsentAreNoMembers'
  BY <1>1, <1>2 DEF IInv, Kept, AbsentAreNoMembers
<1>8. Open'
  BY <1>1, NoneOpen, IdleStaysLegal DEF ReconcileOrgAssignments
<1> QED
  BY <1>4, <1>5, <1>6, <1>7, <1>8 DEF IInv, Kept

(* A transaction checks its line and stays open.                           *)
LEMMA WriteKeeps ==
  ASSUME IInv, ~Overlap, NEW c \in Calls, NEW u \in Users, NEW o \in Orgs,
         NEW m \in Users \cup {None}, WriteLine(c, u, o, m)
  PROVE  IInv'
<1> USE HierarchyAssumption
<1>1. PICK seen \in Shown([line EXCEPT ![o][u] = m], home, u) :
        calls' = [calls EXCEPT ![c] =
                    [org |-> o, user |-> u, boss |-> m, seen |-> seen]]
  BY DEF WriteLine
<1> DEFINE w == [org |-> o, user |-> u, boss |-> m, seen |-> seen]
<1>2. /\ Exists(u)
      /\ m # None => BothAreMembers(o, u, m, member) /\ NoLoop(o, u, m)
      /\ account' = account /\ home' = home /\ member' = member
      /\ line' = line /\ mirror' = mirror
  BY DEF WriteLine
<1>3. seen \in Users \cup {None}
  BY <1>1, <1>2 DEF Shown, IInv, TypeOK, Exists
<1>4. w \in Write
  BY <1>3 DEF Write
<1>5. TypeOK'
  BY <1>1, <1>2, <1>4 DEF IInv, TypeOK
<1>6. Kept'
  BY <1>2 DEF IInv, Kept, LinesFormTrees, LinesJoinMembers,
              AbsentAreNoMembers, Looping
<1>7. \A d \in Calls : calls'[d] # None => d = c /\ calls'[d] = w
  <2>1. \A d \in Calls : calls[d] = None
    BY NoneOpen DEF WriteLine
  <2> QED
    BY <1>1, <2>1 DEF IInv, TypeOK
<1>8. StillLegal(w)'
  BY <1>2 DEF StillLegal, BothAreMembers, NoLoop, Exists, Looping
<1>9. Open'
  BY <1>7, <1>8 DEF Open, OneOpen, OpenIsLegal
<1> QED
  BY <1>5, <1>6, <1>9 DEF IInv

(* It commits: what it checked still holds, since nothing else happened.   *)
LEMMA CommitKeeps ==
  ASSUME IInv, NEW c \in Calls, CommitLine(c)
  PROVE  IInv'
<1> DEFINE w == calls[c]
<1> USE HierarchyAssumption
<1>1. /\ w # None /\ w \in Write
      /\ line' = [line EXCEPT ![w.org][w.user] = w.boss]
      /\ mirror' = [mirror EXCEPT ![w.user] = w.seen]
      /\ calls' = [calls EXCEPT ![c] = None]
      /\ account' = account /\ home' = home /\ member' = member
      /\ StillLegal(w)
  BY DEF CommitLine, IInv, TypeOK, Open, OpenIsLegal
<1>2. /\ w.org \in Orgs /\ w.user \in Users
      /\ w.boss \in Users \cup {None} /\ w.seen \in Users \cup {None}
  BY <1>1 DEF Write
<1>3. TypeOK'
  BY <1>1, <1>2 DEF IInv, TypeOK
<1>4. \A d \in Calls : calls'[d] = None
  BY <1>1 DEF IInv, TypeOK, Open, OneOpen
<1> HIDE DEF w
<1>5. LinesFormTrees'
  <2> SUFFICES ASSUME NEW p \in Orgs PROVE Acyclic(line'[p])
    BY DEF LinesFormTrees, Acyclic, Looping
  <2>1. line[p] \in Bosses /\ Acyclic(line[p])
    BY DEF IInv, Kept, TypeOK, LinesFormTrees, Acyclic, Bosses
  <2>2. CASE p # w.org
    <3>1. line'[p] = line[p]
      BY <1>1, <2>2 DEF IInv, TypeOK
    <3> QED
      BY <2>1, <3>1
  <2>3. CASE p = w.org
    <3>1. line'[p] = [line[p] EXCEPT ![w.user] = w.boss]
      BY <1>1, <2>3 DEF IInv, TypeOK
    <3>2. CASE w.boss = None
      <4>1. /\ [line[p] EXCEPT ![w.user] = None] \in Bosses
            /\ \A x \in Users : [line[p] EXCEPT ![w.user] = None][x]
                                \in {line[p][x], None}
        BY <2>1 DEF Bosses
      <4>2. Acyclic([line[p] EXCEPT ![w.user] = None])
        BY <2>1, <4>1, FewerLinesNoLoop
      <4> QED
        BY <3>1, <3>2, <4>2
    <3>3. CASE w.boss # None
      <4>1. ~Looping([line[p] EXCEPT ![w.user] = w.boss], w.user)
        BY <1>1, <2>3, <3>3 DEF StillLegal
      <4>2. Acyclic([line[p] EXCEPT ![w.user] = w.boss])
        BY <1>2, <2>1, <4>1, OneChainSuffices
      <4> QED
        BY <3>1, <4>2
    <3> QED
      BY <3>2, <3>3
  <2> QED
    BY <2>2, <2>3
<1>6. LinesJoinMembers'
  <2> SUFFICES ASSUME NEW p \in Orgs, NEW x \in Users, line'[p][x] # None
               PROVE  p \in member[x] /\ p \in member[line'[p][x]]
    BY <1>1 DEF LinesJoinMembers
  <2>1. CASE p = w.org /\ x = w.user
    <3>1. line'[p][x] = w.boss
      BY <1>1, <2>1 DEF IInv, TypeOK
    <3> QED
      BY <1>1, <2>1, <3>1 DEF StillLegal
  <2>2. CASE ~(p = w.org /\ x = w.user)
    <3>1. line'[p][x] = line[p][x]
      BY <1>1, <1>2, <2>2 DEF IInv, TypeOK
    <3> QED
      BY <3>1 DEF IInv, Kept, LinesJoinMembers
  <2> QED
    BY <2>1, <2>2
<1>7. AbsentAreNoMembers'
  BY <1>1 DEF IInv, Kept, AbsentAreNoMembers
<1>8. Open'
  BY <1>4 DEF Open, OneOpen, OpenIsLegal
<1> QED
  BY <1>3, <1>5, <1>6, <1>7, <1>8 DEF IInv, Kept

LEMMA RollBackKeeps ==
  ASSUME IInv, NEW c \in Calls, RollBack(c)
  PROVE  IInv'
<1>1. /\ calls' = [calls EXCEPT ![c] = None]
      /\ account' = account /\ home' = home /\ member' = member
      /\ line' = line /\ mirror' = mirror
  BY DEF RollBack
<1>2. TypeOK' /\ \A d \in Calls : calls'[d] # None => calls'[d] = calls[d]
  BY <1>1 DEF IInv, TypeOK
<1>3. Kept'
  BY <1>1 DEF IInv, Kept, LinesFormTrees, LinesJoinMembers,
              AbsentAreNoMembers, Looping
<1>4. Open'
  <2>1. OneOpen'
    BY <1>2 DEF IInv, Open, OneOpen
  <2>2. OpenIsLegal'
    <3> SUFFICES ASSUME NEW d \in Calls, calls'[d] # None
                 PROVE  StillLegal(calls[d])'
      BY <1>2 DEF OpenIsLegal
    <3>1. calls'[d] = calls[d] /\ StillLegal(calls[d])
      BY <1>2 DEF IInv, Open, OpenIsLegal
    <3> QED
      BY <1>1, <3>1 DEF StillLegal, Exists, Looping
  <2> QED
    BY <2>1, <2>2 DEF Open
<1> QED
  BY <1>2, <1>3, <1>4 DEF IInv

(* Requests that leave the lines alone and take no membership away.        *)
LEMMA OthersKeep ==
  ASSUME IInv, ~Overlap, NEW u \in Users, NEW o \in Orgs,
         SetHomeOrg(u, o) \/ AddOrgMapping(u, o)
  PROVE  IInv'
<1> USE HierarchyAssumption
<1>1. /\ line' = line /\ mirror' = mirror /\ calls' = calls
      /\ account[u] # "absent"
  BY DEF SetHomeOrg, AddOrgMapping, Exists
<1>2. /\ TypeOK'
      /\ \A x \in Users : account'[x] = "absent" <=> account[x] = "absent"
  <2>1. CASE SetHomeOrg(u, o)
    BY <1>1, <2>1 DEF SetHomeOrg, IInv, TypeOK
  <2>2. CASE AddOrgMapping(u, o)
    BY <2>2 DEF AddOrgMapping, IInv, TypeOK
  <2> QED
    BY <2>1, <2>2
<1>3. \A x \in Users : /\ member[x] \subseteq member'[x]
                       /\ x # u => member'[x] = member[x]
  BY DEF SetHomeOrg, AddOrgMapping, IInv, TypeOK
<1>4. LinesFormTrees'
  BY <1>1 DEF IInv, Kept, LinesFormTrees, Looping
<1>5. LinesJoinMembers'
  BY <1>1, <1>3 DEF IInv, Kept, TypeOK, LinesJoinMembers
<1>6. AbsentAreNoMembers'
  BY <1>1, <1>2, <1>3 DEF IInv, Kept, AbsentAreNoMembers
<1>7. Open'
  <2>1. \A c \in Calls : calls[c] = None
    BY NoneOpen DEF SetHomeOrg, AddOrgMapping
  <2> QED
    BY <1>1, <2>1, IdleStaysLegal
<1> QED
  BY <1>2, <1>4, <1>5, <1>6, <1>7 DEF IInv, Kept

LEMMA SetActiveKeeps ==
  ASSUME IInv, ~Overlap, NEW u \in Users, SetActive(u)
  PROVE  IInv'
<1> USE HierarchyAssumption
<1>1. /\ account' \in [Users -> Accounts]
      /\ \A x \in Users : account'[x] = "absent" <=> account[x] = "absent"
      /\ home' = home /\ member' = member
      /\ line' = line /\ mirror' = mirror /\ calls' = calls
  BY DEF SetActive, IInv, TypeOK, Accounts, Exists
<1>2. TypeOK'
  BY <1>1 DEF IInv, TypeOK
<1>3. Kept'
  BY <1>1 DEF IInv, Kept, LinesFormTrees, LinesJoinMembers,
              AbsentAreNoMembers, Looping
<1>4. Open'
  <2>1. \A c \in Calls : calls[c] = None
    BY NoneOpen DEF SetActive
  <2> QED
    BY <1>1, <2>1, IdleStaysLegal
<1> QED
  BY <1>2, <1>3, <1>4 DEF IInv

LEMMA StutterKeeps ==
  ASSUME IInv, UNCHANGED vars PROVE IInv'
BY DEF vars, IInv, TypeOK, Kept, LinesFormTrees, LinesJoinMembers,
       AbsentAreNoMembers, Open, OneOpen, OpenIsLegal, StillLegal, Exists,
       Looping

----------------------------------------------------------------------------
(* The theorems.                                                           *)

LEMMA Inductive ==
  ASSUME ~Overlap PROVE Spec => []IInv
<1>1. Init => IInv
  BY InitIsKept
<1>2. IInv /\ [Next]_vars => IInv'
  <2> SUFFICES ASSUME IInv, [Next]_vars PROVE IInv'
    OBVIOUS
  <2>1. CASE \E u \in Users, h \in Orgs, branches \in SUBSET Orgs,
               m \in Users \cup {None} : CreateUser(u, h, branches, m)
    BY <2>1, CreateKeeps
  <2>2. CASE \E c \in Calls, u \in Users, o \in Orgs, m \in Users \cup {None} :
               WriteLine(c, u, o, m)
    BY <2>2, WriteKeeps
  <2>3. CASE \E c \in Calls : CommitLine(c) \/ RollBack(c)
    BY <2>3, CommitKeeps, RollBackKeeps
  <2>4. CASE \E u \in Users, branches \in SUBSET Orgs, o \in Orgs,
               m \in Users \cup {None, Unsaid} :
               ReconcileOrgAssignments(u, branches, o, m)
    BY <2>4, ReconcileKeeps
  <2>5. CASE \E u \in Users, from, to \in Orgs : MoveUserBranch(u, from, to)
    BY <2>5, MoveKeeps
  <2>6. CASE \E u \in Users, o \in Orgs :
               \/ SetHomeOrg(u, o)
               \/ AddOrgMapping(u, o) \/ RemoveOrgMapping(u, o)
    BY <2>6, OthersKeep, RemoveKeeps
  <2>7. CASE \E u \in Users : SetActive(u) \/ SoftDeleteUser(u)
    <3>1. PICK u \in Users : SetActive(u) \/ SoftDeleteUser(u)
      BY <2>7
    <3>2. CASE SetActive(u)
      BY <3>2, SetActiveKeeps
    <3> QED
      BY <3>1, <3>2, DeleteKeeps
  <2>8. CASE UNCHANGED vars
    BY <2>8, StutterKeeps
  <2> QED
    BY <2>1, <2>2, <2>3, <2>4, <2>5, <2>6, <2>7, <2>8 DEF Next
<1> QED
  BY <1>1, <1>2, PTL DEF Spec

(* Accounts, homes, memberships, lines and mirrors keep their types: a     *)
(* user has a home branch from its creation on and for good, deletion      *)
(* included.                                                               *)
THEOREM TypeCorrect ==
  ASSUME ~Overlap PROVE Spec => []TypeOK
<1>1. IInv => TypeOK
  BY DEF IInv
<1> QED
  BY <1>1, Inductive, PTL

(* However many users and branches: if transactions that write lines run   *)
(* one at a time, the lines of every branch form trees.  The check of one  *)
(* chain against the lines before the write is enough for all of them,     *)
(* through transfers, revocations, re-grants and multi-branch updates.     *)
THEOREM LinesAreTrees ==
  ASSUME ~Overlap PROVE Spec => []LinesFormTrees
<1>1. IInv => LinesFormTrees
  BY DEF IInv, Kept
<1> QED
  BY <1>1, Inductive, PTL

(* Under the same assumption both ends of an open line are members of its  *)
(* branch: closing the lines with the mapping, in every request that takes *)
(* a mapping away, leaves none behind.                                     *)
THEOREM LinesStayInTheirBranch ==
  ASSUME ~Overlap PROVE Spec => []LinesJoinMembers
<1>1. IInv => LinesJoinMembers
  BY DEF IInv, Kept
<1> QED
  BY <1>1, Inductive, PTL

----------------------------------------------------------------------------
(* The mirror.  What it shows is drawn from the lines as they are after a   *)
(* transaction, by a trigger that looks at the users whose lines changed.   *)

Fits(lines, u, shown) ==
  LET bosses == {lines[o][u] : o \in Orgs} \ {None} IN
  IF bosses = {} THEN shown = None ELSE shown \in bosses

After(w) == [line EXCEPT ![w.org][w.user] = w.boss]

\* What an open transaction will show is drawn from the lines it will leave.
OpenFits ==
  \A c \in Calls : calls[c] # None =>
    Fits(After(calls[c]), calls[c].user, calls[c].seen)

MirrorInv == IInv /\ MirrorNamesACurrentManager /\ OpenFits

LEMMA ShownFits ==
  ASSUME NEW lines, NEW homes, NEW u \in Users, homes[u] \in Orgs,
         NEW shown \in Shown(lines, homes, u)
  PROVE  Fits(lines, u, shown)
BY DEF Shown, Fits

(* Whose line changes has a home branch: absent users have no lines.        *)
LEMMA SyncFits ==
  ASSUME IInv, IInv', MirrorNamesACurrentManager, NEW lines, WriteLines(lines, home'),
         \A x \in Users : account'[x] = "absent" => account[x] = "absent"
  PROVE  MirrorNamesACurrentManager'
<1>1. PICK new \in [Users -> Users \cup {None}] :
        /\ \A u \in Users :
             IF \E o \in Orgs : lines[o][u] # line[o][u]
             THEN new[u] \in Shown(lines, home', u)
             ELSE new[u] = mirror[u]
        /\ mirror' = new /\ line' = lines
  BY DEF WriteLines, SyncMirror
<1> SUFFICES ASSUME NEW u \in Users
             PROVE  Fits(line', u, mirror'[u])
  BY DEF MirrorNamesACurrentManager, Fits
<1>2. CASE \E o \in Orgs : lines[o][u] # line[o][u]
  <2>1. PICK o \in Orgs : lines[o][u] # line[o][u]
    BY <1>2
  <2>2. CASE line[o][u] # None
    <3>1. account[u] # "absent"
      BY <2>2 DEF IInv, Kept, LinesJoinMembers, AbsentAreNoMembers
    <3> QED
      BY <1>1, <1>2, <3>1, ShownFits DEF IInv, TypeOK
  <2>3. CASE line'[o][u] # None
    <3>1. account'[u] # "absent"
      BY <2>3 DEF IInv, Kept, LinesJoinMembers, AbsentAreNoMembers
    <3> QED
      BY <1>1, <1>2, <3>1, ShownFits DEF IInv, TypeOK
  <2> QED
    BY <1>1, <2>1, <2>2, <2>3
<1>3. CASE ~(\E o \in Orgs : lines[o][u] # line[o][u])
  <2>1. \A o \in Orgs : line'[o][u] = line[o][u]
    BY <1>1, <1>3
  <2>2. mirror'[u] = mirror[u]
    BY <1>1, <1>3
  <2>3. Fits(line, u, mirror[u])
    BY DEF MirrorNamesACurrentManager, Fits
  <2> QED
    BY <2>1, <2>2, <2>3 DEF Fits
<1> QED
  BY <1>2, <1>3

(* A transaction on the lines while none is open.                           *)
LEMMA SyncKeepsMirror ==
  ASSUME MirrorInv, IInv', ~Overlap, NEW users, Free(users), calls' = calls,
         NEW lines, WriteLines(lines, home'),
         \A x \in Users : account'[x] = "absent" => account[x] = "absent"
  PROVE  MirrorInv'
<1>1. OpenFits'
  BY NoneOpen DEF OpenFits
<1> QED
  BY <1>1, SyncFits DEF MirrorInv

(* A request that writes no line while none is open.                        *)
LEMMA LinesKeepMirror ==
  ASSUME MirrorInv, IInv', ~Overlap, NEW users, Free(users),
         UNCHANGED <<calls, line, mirror>>
  PROVE  MirrorInv'
<1>1. OpenFits'
  BY NoneOpen DEF OpenFits
<1> QED
  BY <1>1 DEF MirrorInv, MirrorNamesACurrentManager

LEMMA WriteKeepsMirror ==
  ASSUME MirrorInv, IInv', ~Overlap, NEW c \in Calls, NEW u \in Users, NEW o \in Orgs,
         NEW m \in Users \cup {None}, WriteLine(c, u, o, m)
  PROVE  MirrorInv'
<1>1. PICK seen \in Shown([line EXCEPT ![o][u] = m], home, u) :
        calls' = [calls EXCEPT ![c] =
                    [org |-> o, user |-> u, boss |-> m, seen |-> seen]]
  BY DEF WriteLine
<1>2. line' = line /\ mirror' = mirror /\ home[u] \in Orgs
  BY DEF WriteLine, MirrorInv, IInv, TypeOK, Exists
<1>3. Fits([line EXCEPT ![o][u] = m], u, seen)
  BY <1>1, <1>2, ShownFits
<1> DEFINE w == [org |-> o, user |-> u, boss |-> m, seen |-> seen]
<1>4. \A d \in Calls : calls'[d] # None => calls'[d] = w
  <2>1. \A d \in Calls : calls[d] = None
    BY NoneOpen DEF WriteLine
  <2> QED
    BY <1>1, <2>1 DEF MirrorInv, IInv, TypeOK
<1>5. OpenFits'
  <2> SUFFICES ASSUME NEW d \in Calls, calls'[d] # None
               PROVE  Fits([line EXCEPT ![calls'[d].org][calls'[d].user] = calls'[d].boss],
                           calls'[d].user, calls'[d].seen)
    BY <1>2 DEF OpenFits, After, Fits
  <2>1. calls'[d].org = o /\ calls'[d].user = u /\ calls'[d].boss = m /\ calls'[d].seen = seen
    BY <1>4
  <2> QED
    BY <1>3, <2>1
<1> QED
  BY <1>2, <1>5 DEF MirrorInv, MirrorNamesACurrentManager

LEMMA CommitKeepsMirror ==
  ASSUME MirrorInv, IInv', NEW c \in Calls, CommitLine(c)
  PROVE  MirrorInv'
<1> DEFINE w == calls[c]
<1>1. /\ w # None /\ w \in Write
      /\ line' = After(w)
      /\ mirror' = [mirror EXCEPT ![w.user] = w.seen]
      /\ calls' = [calls EXCEPT ![c] = None]
      /\ Fits(After(w), w.user, w.seen)
  BY DEF CommitLine, After, MirrorInv, OpenFits, IInv, TypeOK
<1>2. w.org \in Orgs /\ w.user \in Users
  BY <1>1 DEF Write
<1>3. \A d \in Calls : calls'[d] = None
  BY <1>1 DEF MirrorInv, IInv, TypeOK, Open, OneOpen
<1> HIDE DEF w
<1>4. ASSUME NEW u \in Users
      PROVE  Fits(line', u, mirror'[u])
  <2>1. CASE u = w.user
    BY <1>1, <1>2, <2>1 DEF MirrorInv, IInv, TypeOK
  <2>2. CASE u # w.user
    <3>1. \A o \in Orgs : line'[o][u] = line[o][u]
      BY <1>1, <1>2, <2>2 DEF After, MirrorInv, IInv, TypeOK
    <3>2. mirror'[u] = mirror[u]
      BY <1>1, <2>2 DEF MirrorInv, IInv, TypeOK
    <3>3. Fits(line, u, mirror[u])
      BY DEF MirrorInv, MirrorNamesACurrentManager, Fits
    <3> QED
      BY <3>1, <3>2, <3>3 DEF Fits
  <2> QED
    BY <2>1, <2>2
<1>5. MirrorNamesACurrentManager'
  BY <1>4 DEF MirrorNamesACurrentManager, Fits
<1> QED
  BY <1>3, <1>5 DEF MirrorInv, OpenFits

LEMMA RollBackKeepsMirror ==
  ASSUME MirrorInv, IInv', NEW c \in Calls, RollBack(c)
  PROVE  MirrorInv'
<1>1. line' = line /\ mirror' = mirror
  BY DEF RollBack
<1>2. \A d \in Calls : calls'[d] # None => calls'[d] = calls[d]
  BY DEF RollBack, MirrorInv, IInv, TypeOK
<1>3. OpenFits'
  BY <1>1, <1>2 DEF MirrorInv, OpenFits, After
<1> QED
  BY <1>1, <1>3 DEF MirrorInv, MirrorNamesACurrentManager

LEMMA MirrorInductive ==
  ASSUME ~Overlap, MirrorInv, [Next]_vars, IInv'
  PROVE  MirrorInv'
<1>1. ASSUME NEW u \in Users, NEW h \in Orgs, NEW branches \in SUBSET Orgs,
             NEW m \in Users \cup {None}, CreateUser(u, h, branches, m)
      PROVE  MirrorInv'
  <2>1. \A x \in Users : account'[x] = "absent" => account[x] = "absent"
    BY <1>1 DEF CreateUser, MirrorInv, IInv, TypeOK
  <2> QED
    BY <1>1, <2>1, SyncKeepsMirror DEF CreateUser
<1>2. ASSUME NEW u \in Users, NEW branches \in SUBSET Orgs, NEW o \in Orgs,
             NEW m \in Users \cup {None, Unsaid},
             ReconcileOrgAssignments(u, branches, o, m)
      PROVE  MirrorInv'
  <2>1. \E lines : WriteLines(lines, home')
    BY <1>2 DEF ReconcileOrgAssignments
  <2> QED
    BY <1>2, <2>1, SyncKeepsMirror DEF ReconcileOrgAssignments
<1>3. ASSUME NEW u \in Users, NEW from \in Orgs, NEW to \in Orgs,
             MoveUserBranch(u, from, to)
      PROVE  MirrorInv'
  BY <1>3, SyncKeepsMirror DEF MoveUserBranch
<1>4. ASSUME NEW u \in Users, NEW o \in Orgs,
             SetHomeOrg(u, o) \/ AddOrgMapping(u, o) \/ RemoveOrgMapping(u, o)
      PROVE  MirrorInv'
  <2>1. CASE RemoveOrgMapping(u, o)
    <3>1. home' = home /\ account' = account
      BY <2>1 DEF RemoveOrgMapping
    <3> QED
      BY <2>1, <3>1, SyncKeepsMirror DEF RemoveOrgMapping
  <2>2. CASE SetHomeOrg(u, o) \/ AddOrgMapping(u, o)
    BY <2>2, LinesKeepMirror DEF SetHomeOrg, AddOrgMapping
  <2> QED
    BY <1>4, <2>1, <2>2
<1>5. ASSUME NEW u \in Users, SetActive(u) \/ SoftDeleteUser(u)
      PROVE  MirrorInv'
  <2>1. CASE SoftDeleteUser(u)
    <3>1. home' = home
      BY <2>1 DEF SoftDeleteUser
    <3>2. \A x \in Users : account'[x] = "absent" => account[x] = "absent"
      BY <2>1 DEF SoftDeleteUser, MirrorInv, IInv, TypeOK
    <3> QED
      BY <2>1, <3>1, <3>2, SyncKeepsMirror DEF SoftDeleteUser
  <2>2. CASE SetActive(u)
    BY <2>2, LinesKeepMirror DEF SetActive
  <2> QED
    BY <1>5, <2>1, <2>2
<1>6. CASE UNCHANGED vars
  BY <1>6 DEF vars, MirrorInv, MirrorNamesACurrentManager, OpenFits, After
<1> QED
  BY <1>1, <1>2, <1>3, <1>4, <1>5, <1>6, WriteKeepsMirror, CommitKeepsMirror,
     RollBackKeepsMirror DEF Next

(* sync_user_manager_mirror: the manager a user is shown with is one the    *)
(* user has, if transactions that write lines run one at a time.            *)
THEOREM TheMirrorIsTrue ==
  ASSUME ~Overlap PROVE Spec => []MirrorNamesACurrentManager
<1>1. Init => MirrorNamesACurrentManager /\ OpenFits
  BY DEF Init, MirrorNamesACurrentManager, OpenFits
<1>2. IInv /\ MirrorNamesACurrentManager /\ OpenFits /\ [Next]_vars /\ IInv'
        => (MirrorNamesACurrentManager /\ OpenFits)'
  BY MirrorInductive DEF MirrorInv
<1> QED
  BY <1>1, <1>2, Inductive, PTL DEF Spec

----------------------------------------------------------------------------
(* The hierarchy.  A transaction is one change of it, as long as only one   *)
(* that writes lines is open.                                               *)

\* The lines of any assignment of managers, OpenLines for the present one.
LinesOf(bosses) ==
  {e \in Abstract!Line : bosses[e.org][e.report] = e.manager}

(* The trigger looks for a user set that managers never lead out of, the    *)
(* hierarchy for a way up from the new manager to the report: if there is   *)
(* such a way, the people on it are such a set.                             *)
LEMMA LeadingUpLoops ==
  ASSUME NEW open \in SUBSET Abstract!Line, NEW o \in Orgs,
         NEW boss \in Bosses, NEW u \in Users, NEW m \in Users,
         \A e \in open : e.org = o => boss[e.report] = e.manager,
         Abstract!Leads(open, o, m, u)
  PROVE  Looping([boss EXCEPT ![u] = m], u)
<1> DEFINE new == [boss EXCEPT ![u] = m]
           Closed(S) == \A e \in open : e.org = o /\ e.report \in S => e.manager \in S
           T == {x \in Users : Abstract!Leads(open, o, x, u)}
<1>1. u \in T /\ m \in T
  BY DEF Abstract!Leads
<1>2. ASSUME NEW x \in T PROVE new[x] \in T
  <2>1. CASE x = u
    BY <1>1, <2>1 DEF Bosses
  <2>2. CASE x # u
    <3>1. new[x] = boss[x]
      BY <2>2 DEF Bosses
    <3>2. boss[x] \in Users
      <4> SUFFICES ASSUME boss[x] \notin Users PROVE FALSE
        OBVIOUS
      <4>1. \A e \in open : ~(e.org = o /\ e.report = x)
        BY DEF Abstract!Line
      <4>2. Closed({x})
        BY <4>1
      <4>3. \A S \in SUBSET Users : x \in S /\ Closed(S) => u \in S
        BY DEF Abstract!Leads
      <4> QED
        BY <2>2, <4>2, <4>3
    <3>3. ASSUME NEW S \in SUBSET Users, boss[x] \in S, Closed(S) PROVE u \in S
      <4>1. Closed(S \cup {x})
        BY <3>3
      <4>2. \A R \in SUBSET Users : x \in R /\ Closed(R) => u \in R
        BY DEF Abstract!Leads
      <4>3. u \in S \cup {x}
        BY <4>1, <4>2
      <4> QED
        BY <2>2, <4>3
    <3>4. Abstract!Leads(open, o, boss[x], u)
      BY <3>3 DEF Abstract!Leads
    <3> QED
      BY <3>1, <3>2, <3>4
  <2> QED
    BY <2>1, <2>2
<1> QED
  BY <1>1, <1>2 DEF Looping

(* Closing lines with a membership leaves the lines the hierarchy leaves.   *)
LEMMA ClosingLeavesTheRemaining ==
  ASSUME TypeOK, NEW u \in Users, NEW orgs \in SUBSET Orgs
  PROVE  LinesOf(CloseLines(u, orgs)) = Abstract!Remaining(u, orgs)
<1>1. ASSUME NEW e \in Abstract!Line
      PROVE  CloseLines(u, orgs)[e.org][e.report] = e.manager
               <=> /\ line[e.org][e.report] = e.manager
                   /\ e.org \in orgs => u \notin {e.report, e.manager}
  <2>1. e.org \in Orgs /\ e.report \in Users /\ e.manager \in Users
    BY DEF Abstract!Line
  <2> QED
    BY <2>1, HierarchyAssumption DEF CloseLines
<1> QED
  BY <1>1 DEF LinesOf, Abstract!Remaining, OpenLines, Abstract!Line

(* Writing a user's line replaces the one there was, if there was one.      *)
LEMMA WritingReplaces ==
  ASSUME NEW bosses, NEW after, NEW o \in Orgs, NEW u \in Users, NEW m,
         \A p \in Orgs, x \in Users :
           after[p][x] = IF p = o /\ x = u THEN m ELSE bosses[p][x]
  PROVE  LinesOf(after)
           = {e \in LinesOf(bosses) : ~(e.org = o /\ e.report = u)}
               \cup {e \in Abstract!Line : /\ e.org = o /\ e.report = u
                                           /\ e.manager = m}
BY DEF LinesOf, Abstract!Line

----------------------------------------------------------------------------
(* The three kinds of changes.                                              *)

\* Where u works after leaving some branches and joining others.
Stays(u, left, joined, x) ==
  IF x = u THEN (member[u] \ left) \cup joined ELSE member[x]

LEMMA PlacesMove ==
  ASSUME NEW u \in Users, NEW left \in SUBSET Orgs, NEW joined \in SUBSET Orgs
  PROVE  Abstract!Moved(u, left, joined)
           = {p \in Users \X Orgs : p[2] \in Stays(u, left, joined, p[1])}
BY DEF Abstract!Moved, Places, Stays

LEMMA RelocationIsAChange ==
  ASSUME TypeOK, NEW u \in Users, NEW left \in SUBSET Orgs,
         NEW joined \in SUBSET Orgs, left \cap joined = {},
         \A x \in Users : member'[x] = Stays(u, left, joined, x),
         line' = CloseLines(u, left)
  PROVE  Abstract!Next
<1>1. Places' = Abstract!Moved(u, left, joined)
  BY PlacesMove DEF Places
<1>2. OpenLines' = Abstract!Remaining(u, left)
  BY ClosingLeavesTheRemaining DEF OpenLines, LinesOf, Abstract!Line
<1> QED
  BY <1>1, <1>2 DEF Abstract!Next, Abstract!Change, Abstract!Relocate

\* Of all lines, m is written as u's manager in o; others close with left.
Written(u, left, o, m) ==
  \A p \in Orgs, x \in Users :
    line'[p][x] = IF p = o /\ x = u THEN m ELSE CloseLines(u, left)[p][x]

LEMMA DismissalIsAChange ==
  ASSUME TypeOK, NEW u \in Users, NEW left \in SUBSET Orgs,
         NEW joined \in SUBSET Orgs, left \cap joined = {}, NEW o \in Orgs,
         \A x \in Users : member'[x] = Stays(u, left, joined, x),
         Written(u, left, o, None)
  PROVE  Abstract!Next
<1>1. Places' = Abstract!Moved(u, left, joined)
  BY PlacesMove DEF Places
<1>2. OpenLines' = LinesOf(line')
  BY DEF OpenLines, LinesOf, Abstract!Line
<1>3. \A e \in Abstract!Line : e.manager # None
  BY HierarchyAssumption DEF Abstract!Line
<1>4. LinesOf(CloseLines(u, left)) = Abstract!Remaining(u, left)
  BY ClosingLeavesTheRemaining
<1>5. OpenLines' = Abstract!Unled(u, left, o)
  BY <1>2, <1>3, <1>4, WritingReplaces DEF Written, Abstract!Unled
<1> QED
  BY <1>1, <1>5 DEF Abstract!Next, Abstract!Change, Abstract!Dismiss

LEMMA AppointmentIsAChange ==
  ASSUME TypeOK, NEW u \in Users, NEW left \in SUBSET Orgs,
         NEW joined \in SUBSET Orgs, left \cap joined = {}, NEW o \in Orgs,
         NEW m \in Users, o \in Stays(u, left, joined, u),
         \A x \in Users : member'[x] = Stays(u, left, joined, x)
                                         \cup (IF x = m THEN {o} ELSE {}),
         NoLoop(o, u, m),
         Written(u, left, o, m)
  PROVE  Abstract!Next
<1> DEFINE new == [org |-> o, report |-> u, manager |-> m]
<1>1. /\ <<u, o>> \in Abstract!Moved(u, left, joined)
      /\ Places' = Abstract!Moved(u, left, joined) \cup {<<m, o>>}
  BY PlacesMove DEF Places
<1>2. OpenLines' = LinesOf(line')
  BY DEF OpenLines, LinesOf, Abstract!Line
<1>3. {e \in Abstract!Line : e.org = o /\ e.report = u /\ e.manager = m} = {new}
  BY DEF Abstract!Line
<1>4. LinesOf(CloseLines(u, left)) = Abstract!Remaining(u, left)
  BY ClosingLeavesTheRemaining
<1>5. OpenLines' = Abstract!Unled(u, left, o) \cup {new}
  BY <1>2, <1>3, <1>4, WritingReplaces DEF Written, Abstract!Unled
<1>6. ~Abstract!Leads(Abstract!Remaining(u, left), o, m, u)
  <2>1. line[o] \in Bosses
    BY DEF TypeOK, Bosses
  <2>2. /\ Abstract!Remaining(u, left) \in SUBSET Abstract!Line
        /\ \A e \in Abstract!Remaining(u, left) :
             e.org = o => line[o][e.report] = e.manager
    BY DEF Abstract!Remaining, OpenLines, Abstract!Line
  <2> QED
    BY <2>1, <2>2, LeadingUpLoops DEF NoLoop
<1> QED
  BY <1>1, <1>5, <1>6 DEF Abstract!Next, Abstract!Change, Abstract!Appoint

----------------------------------------------------------------------------
(* One lemma per group of requests.                                         *)

\* Requests that touch neither mappings nor lines.
LEMMA OthersLeaveTheHierarchy ==
  ASSUME member' = member, line' = line
  PROVE  UNCHANGED Abstract!hierarchy
BY DEF Abstract!hierarchy, Places, OpenLines

(* Who leaves nothing, closes nothing.                                      *)
LEMMA NothingLeftNothingClosed ==
  ASSUME TypeOK, NEW u \in Users
  PROVE  CloseLines(u, {}) = line
<1>1. \A o \in Orgs : CloseLines(u, {})[o] \in Bosses /\ line[o] \in Bosses
  BY ClosingOnlyCloses DEF TypeOK, Bosses
<1>2. \A o \in Orgs, x \in Users : CloseLines(u, {})[o][x] = line[o][x]
  BY ClosingOnlyCloses
<1>3. \A o \in Orgs : CloseLines(u, {})[o] = line[o]
  BY <1>1, <1>2 DEF Bosses
<1>4. /\ CloseLines(u, {}) \in [Orgs -> Bosses]
      /\ line \in [Orgs -> Bosses]
  BY ClosingOnlyCloses DEF TypeOK, Bosses
<1> QED
  BY <1>3, <1>4

LEMMA CreateIsAChange ==
  ASSUME IInv, ~Overlap, NEW u \in Users, NEW h \in Orgs,
         NEW branches \in SUBSET Orgs, NEW m \in Users \cup {None},
         CreateUser(u, h, branches, m)
  PROVE  Abstract!Next
<1> DEFINE joined == FirstMappings(u, branches)
<1>1. /\ account[u] = "absent" /\ h \in branches
      /\ m # None => account[m] = "active"
      /\ member' = Granted([member EXCEPT ![u] = joined], m, h)
      /\ line' = [line EXCEPT ![h][u] = m]
  BY DEF CreateUser, MayManageIn, WriteLines
<1>2. /\ TypeOK /\ member[u] = {} /\ m # u
      /\ joined \in SUBSET Orgs /\ h \in joined
  BY <1>1, HierarchyAssumption
  DEF IInv, Kept, AbsentAreNoMembers, FirstMappings
<1>3. \A x \in Users :
        member'[x] = Stays(u, {}, joined, x) \cup (IF x = m THEN {h} ELSE {})
  BY <1>1, <1>2, HierarchyAssumption DEF Granted, Stays, TypeOK
<1>4. Written(u, {}, h, m)
  BY <1>1, <1>2, NothingLeftNothingClosed DEF Written, TypeOK
<1>5. CASE m = None
  <2>1. \A x \in Users : member'[x] = Stays(u, {}, joined, x)
    BY <1>3, <1>5, HierarchyAssumption
  <2> QED
    BY <1>2, <1>4, <1>5, <2>1, DismissalIsAChange
<1>6. CASE m \in Users
  <2>1. NoLoop(h, u, m)
    <3>1. line[h] \in Bosses /\ Acyclic(line[h])
      BY DEF IInv, Kept, TypeOK, LinesFormTrees, Acyclic, Bosses
    <3>2. \A x \in Users : line[h][x] # u
      BY <1>2, HierarchyAssumption DEF IInv, Kept, LinesJoinMembers
    <3>3. Acyclic([line[h] EXCEPT ![u] = m])
      BY <1>2, <3>1, <3>2, NewcomerMakesNoLoop
    <3> QED
      BY <3>3 DEF Acyclic, NoLoop
  <2>2. h \in Stays(u, {}, joined, u)
    BY <1>2 DEF Stays
  <2> QED
    BY <1>2, <1>3, <1>4, <1>6, <2>1, <2>2, AppointmentIsAChange
<1> QED
  BY <1>5, <1>6

LEMMA ReconcileIsAChange ==
  ASSUME IInv, NEW u \in Users, NEW branches \in SUBSET Orgs, NEW o \in Orgs,
         NEW m \in Users \cup {None, Unsaid},
         ReconcileOrgAssignments(u, branches, o, m)
  PROVE  Abstract!Next
<1> DEFINE left == member[u] \ branches
<1>1. /\ o \in branches
      /\ m \in Users => m # u /\ NoLoop(o, u, m)
      /\ member' = Granted([member EXCEPT ![u] = branches], m, o)
      /\ line' = IF m = Unsaid THEN CloseLines(u, left)
                 ELSE [CloseLines(u, left) EXCEPT ![o][u] = m]
  BY DEF ReconcileOrgAssignments, WriteLines
<1>2. TypeOK /\ left \in SUBSET Orgs /\ left \cap branches = {}
  BY DEF IInv, TypeOK
<1>3. \A x \in Users :
        member'[x] = Stays(u, left, branches, x) \cup (IF x = m THEN {o} ELSE {})
  BY <1>1, <1>2, HierarchyAssumption DEF Granted, Stays, TypeOK
<1>4. m \notin Users => \A x \in Users : member'[x] = Stays(u, left, branches, x)
  BY <1>3
<1>5. CASE m = Unsaid
  BY <1>1, <1>2, <1>4, <1>5, HierarchyAssumption, RelocationIsAChange
<1>6. m # Unsaid => Written(u, left, o, m)
  <2>1. CloseLines(u, left) \in [Orgs -> Bosses]
    BY <1>2, ClosingOnlyCloses
  <2> QED
    BY <1>1, <2>1 DEF Written, Bosses
<1>7. CASE m = None
  BY <1>2, <1>4, <1>6, <1>7, HierarchyAssumption, DismissalIsAChange
<1>8. CASE m \in Users
  <2>1. o \in Stays(u, left, branches, u) /\ NoLoop(o, u, m)
    BY <1>1, <1>8 DEF Stays
  <2>2. Written(u, left, o, m)
    BY <1>6, <1>8, HierarchyAssumption
  <2> QED
    BY <1>2, <1>3, <1>8, <2>1, <2>2, AppointmentIsAChange
<1> QED
  BY <1>5, <1>7, <1>8

(* A commit makes the line its transaction checked, which is still legal.   *)
LEMMA CommitIsAChange ==
  ASSUME IInv, NEW c \in Calls, CommitLine(c)
  PROVE  Abstract!Next
<1> DEFINE w == calls[c]
<1>1. /\ w.org \in Orgs /\ w.user \in Users /\ w.boss \in Users \cup {None}
      /\ line' = [line EXCEPT ![w.org][w.user] = w.boss]
      /\ member' = member /\ StillLegal(w)
  BY DEF CommitLine, IInv, TypeOK, Open, OpenIsLegal, Write
<1>2. TypeOK /\ Written(w.user, {}, w.org, w.boss)
  BY <1>1, NothingLeftNothingClosed DEF IInv, Written, TypeOK
<1>3. \A x \in Users : Stays(w.user, {}, {}, x) = member[x]
  BY DEF Stays
<1> HIDE DEF w
<1>4. CASE w.boss = None
  BY <1>1, <1>2, <1>3, <1>4, DismissalIsAChange
<1>5. CASE w.boss \in Users
  <2>1. /\ w.org \in member[w.user] \cap member[w.boss]
        /\ NoLoop(w.org, w.user, w.boss)
    BY <1>1, <1>5, HierarchyAssumption DEF StillLegal, NoLoop
  <2>2. w.org \in Stays(w.user, {}, {}, w.user)
    BY <1>1, <1>3, <2>1
  <2>3. \A x \in Users :
          member'[x] = Stays(w.user, {}, {}, x)
                         \cup (IF x = w.boss THEN {w.org} ELSE {})
    BY <1>1, <1>3, <2>1
  <2> QED
    BY <1>1, <1>2, <1>5, <2>1, <2>2, <2>3, AppointmentIsAChange
<1> QED
  BY <1>1, <1>4, <1>5

(* Requests that only take branches away and give branches.                 *)
LEMMA MembershipsAreChanges ==
  ASSUME IInv, NEW u \in Users, NEW o \in Orgs, NEW p \in Orgs,
         \/ MoveUserBranch(u, o, p)
         \/ AddOrgMapping(u, o)
         \/ RemoveOrgMapping(u, o)
  PROVE  Abstract!Next
<1>0. TypeOK
  BY DEF IInv
<1>1. CASE MoveUserBranch(u, o, p)
  <2>1. /\ {o} \cap {p} = {} /\ line' = CloseLines(u, {o})
        /\ \A x \in Users : member'[x] = Stays(u, {o}, {p}, x)
    BY <1>0, <1>1 DEF MoveUserBranch, WriteLines, Stays, TypeOK
  <2> QED
    BY <1>0, <2>1, RelocationIsAChange
<1>2. CASE AddOrgMapping(u, o)
  <2>1. /\ line' = CloseLines(u, {})
        /\ \A x \in Users : member'[x] = Stays(u, {}, {o}, x)
    BY <1>0, <1>2, NothingLeftNothingClosed DEF AddOrgMapping, Stays, TypeOK
  <2> QED
    BY <1>0, <2>1, RelocationIsAChange
<1>3. CASE RemoveOrgMapping(u, o)
  <2>1. /\ line' = CloseLines(u, {o})
        /\ \A x \in Users : member'[x] = Stays(u, {o}, {}, x)
    BY <1>0, <1>3 DEF RemoveOrgMapping, WriteLines, Stays, TypeOK
  <2> QED
    BY <1>0, <2>1, RelocationIsAChange
<1> QED
  BY <1>1, <1>2, <1>3

LEMMA DeletionIsAChange ==
  ASSUME IInv, NEW u \in Users, SoftDeleteUser(u)
  PROVE  Abstract!Next
<1>1. TypeOK
  BY DEF IInv
<1>2. /\ line' = CloseLines(u, Orgs)
      /\ \A x \in Users : member'[x] = Stays(u, Orgs, {}, x)
  BY <1>1 DEF SoftDeleteUser, WriteLines, Stays, TypeOK
<1> QED
  BY <1>1, <1>2, RelocationIsAChange

LEMMA StepsAreChanges ==
  ASSUME IInv, ~Overlap, [Next]_vars
  PROVE  [Abstract!Next]_Abstract!hierarchy
<1>1. CASE \E u \in Users, h \in Orgs, branches \in SUBSET Orgs,
             m \in Users \cup {None} : CreateUser(u, h, branches, m)
  BY <1>1, CreateIsAChange
<1>2. CASE \E c \in Calls, u \in Users, o \in Orgs, m \in Users \cup {None} :
             WriteLine(c, u, o, m)
  BY <1>2, OthersLeaveTheHierarchy DEF WriteLine
<1>3. CASE \E c \in Calls : CommitLine(c) \/ RollBack(c)
  BY <1>3, CommitIsAChange, OthersLeaveTheHierarchy DEF RollBack
<1>4. CASE \E u \in Users, branches \in SUBSET Orgs, o \in Orgs,
             m \in Users \cup {None, Unsaid} :
             ReconcileOrgAssignments(u, branches, o, m)
  BY <1>4, ReconcileIsAChange
<1>5. CASE \E u \in Users, from, to \in Orgs : MoveUserBranch(u, from, to)
  BY <1>5, MembershipsAreChanges
<1>6. CASE \E u \in Users, o \in Orgs :
             \/ SetHomeOrg(u, o)
             \/ AddOrgMapping(u, o) \/ RemoveOrgMapping(u, o)
  <2>1. PICK u \in Users, o \in Orgs :
          SetHomeOrg(u, o) \/ AddOrgMapping(u, o) \/ RemoveOrgMapping(u, o)
    BY <1>6
  <2>2. CASE SetHomeOrg(u, o)
    BY <2>2, OthersLeaveTheHierarchy DEF SetHomeOrg
  <2> QED
    BY <2>1, <2>2, MembershipsAreChanges
<1>7. CASE \E u \in Users : SetActive(u) \/ SoftDeleteUser(u)
  <2>1. PICK u \in Users : SetActive(u) \/ SoftDeleteUser(u)
    BY <1>7
  <2>2. CASE SetActive(u)
    BY <2>2, OthersLeaveTheHierarchy DEF SetActive
  <2> QED
    BY <2>1, <2>2, DeletionIsAChange
<1>8. CASE UNCHANGED vars
  BY <1>8, OthersLeaveTheHierarchy DEF vars
<1> QED
  BY <1>1, <1>2, <1>3, <1>4, <1>5, <1>6, <1>7, <1>8 DEF Next

LEMMA NobodyAtFirst ==
  ASSUME Init PROVE Abstract!Init
<1>1. Places = {}
  BY DEF Init, Places
<1>2. OpenLines = {}
  BY HierarchyAssumption DEF Init, OpenLines
<1> QED
  BY <1>1, <1>2 DEF Abstract!Init

(* If transactions that write lines run one at a time, every request is one *)
(* change of the hierarchy of one user: transfers, revocations, deletions   *)
(* and whole-set updates close the user's lines in the branches left and    *)
(* no other line of anybody, and nobody comes to be led by their own.       *)
THEOREM TheHierarchyIsKept ==
  ASSUME ~Overlap PROVE Spec => ImplementsHierarchy
<1>1. Init => Abstract!Init
  BY NobodyAtFirst
<1>2. IInv /\ [Next]_vars => [Abstract!Next]_Abstract!hierarchy
  BY StepsAreChanges
<1> QED
  BY <1>1, <1>2, Inductive, PTL DEF Spec, ImplementsHierarchy, Abstract!Spec

----------------------------------------------------------------------------
(* What the abstract hierarchy is for, from its own steps only.             *)

LEMMA ChangesKeepOneManager ==
  ASSUME Abstract!OneManagerOfTheBranch, Abstract!Next
  PROVE  Abstract!OneManagerOfTheBranch'
<1>1. PICK u \in Users, left \in SUBSET Orgs, joined \in SUBSET Orgs :
        Abstract!Change(u, left, joined)
  BY DEF Abstract!Next
<1>2. OpenLines \in SUBSET Abstract!Line
  BY DEF OpenLines, Abstract!Line
<1>3. ASSUME NEW e \in Abstract!Remaining(u, left),
             Abstract!Moved(u, left, joined) \subseteq Places'
      PROVE  <<e.report, e.org>> \in Places' /\ <<e.manager, e.org>> \in Places'
  <2>1. /\ e \in OpenLines
        /\ e.org \in left => u \notin {e.report, e.manager}
    BY DEF Abstract!Remaining
  <2>2. <<e.report, e.org>> \in Places /\ <<e.manager, e.org>> \in Places
    BY <2>1 DEF Abstract!OneManagerOfTheBranch
  <2>3. /\ <<e.report, e.org>> \notin {u} \X left
        /\ <<e.manager, e.org>> \notin {u} \X left
    BY <2>1
  <2> QED
    BY <1>3, <2>2, <2>3 DEF Abstract!Moved
<1>4. Abstract!Remaining(u, left) \subseteq OpenLines
  BY DEF Abstract!Remaining
<1>5. CASE Abstract!Relocate(u, left, joined)
  BY <1>3, <1>4, <1>5 DEF Abstract!Relocate, Abstract!OneManagerOfTheBranch
<1>6. CASE \E o \in Orgs : Abstract!Dismiss(u, left, joined, o)
  BY <1>3, <1>4, <1>6
  DEF Abstract!Dismiss, Abstract!Unled, Abstract!OneManagerOfTheBranch
<1>7. CASE \E o \in Orgs, m \in Users : Abstract!Appoint(u, left, joined, o, m)
  <2>1. PICK o \in Orgs, m \in Users : Abstract!Appoint(u, left, joined, o, m)
    BY <1>7
  <2> DEFINE new == [org |-> o, report |-> u, manager |-> m]
  <2>2. /\ Places' = Abstract!Moved(u, left, joined) \cup {<<m, o>>}
        /\ <<u, o>> \in Places'
        /\ OpenLines' = Abstract!Unled(u, left, o) \cup {new}
    BY <2>1 DEF Abstract!Appoint
  <2>3. \A e \in OpenLines' :
          <<e.report, e.org>> \in Places' /\ <<e.manager, e.org>> \in Places'
    <3> SUFFICES ASSUME NEW e \in OpenLines'
                 PROVE  /\ <<e.report, e.org>> \in Places'
                        /\ <<e.manager, e.org>> \in Places'
      OBVIOUS
    <3>1. CASE e = new
      BY <2>2, <3>1
    <3>2. CASE e \in Abstract!Remaining(u, left)
      BY <1>3, <2>2, <3>2
    <3> QED
      BY <2>2, <3>1, <3>2 DEF Abstract!Unled
  <2>4. ASSUME NEW e \in OpenLines', NEW f \in OpenLines',
               e.org = f.org, e.report = f.report
        PROVE  e = f
    BY <1>4, <2>2, <2>4 DEF Abstract!Unled, Abstract!OneManagerOfTheBranch
  <2> QED
    BY <2>3, <2>4 DEF Abstract!OneManagerOfTheBranch
<1> QED
  BY <1>1, <1>5, <1>6, <1>7 DEF Abstract!Change

(* A circle would have to pass through the new line; what the way up from   *)
(* the new manager has in common with it would be a circle before.          *)
LEMMA ChangesMakeNoCircle ==
  ASSUME Abstract!NoCircle, Abstract!Next
  PROVE  Abstract!NoCircle'
<1>1. PICK u \in Users, left \in SUBSET Orgs, joined \in SUBSET Orgs :
        Abstract!Change(u, left, joined)
  BY DEF Abstract!Next
<1>2. Abstract!Remaining(u, left) \subseteq OpenLines
  BY DEF Abstract!Remaining
<1> SUFFICES ASSUME NEW p \in Orgs, NEW S \in SUBSET Users,
                    \A x \in S : \E e \in OpenLines' :
                      e.org = p /\ e.report = x /\ e.manager \in S
             PROVE  S = {}
  BY DEF Abstract!NoCircle
<1>3. CASE OpenLines' \subseteq OpenLines
  BY <1>3 DEF Abstract!NoCircle
<1>4. CASE \E o \in Orgs, m \in Users : Abstract!Appoint(u, left, joined, o, m)
  <2>1. PICK o \in Orgs, m \in Users : Abstract!Appoint(u, left, joined, o, m)
    BY <1>4
  <2> DEFINE new == [org |-> o, report |-> u, manager |-> m]
  <2>2. /\ OpenLines' = Abstract!Unled(u, left, o) \cup {new}
        /\ Abstract!Unled(u, left, o) \subseteq Abstract!Remaining(u, left)
        /\ \A e \in Abstract!Unled(u, left, o) : ~(e.org = o /\ e.report = u)
    BY <2>1 DEF Abstract!Appoint, Abstract!Unled
  <2>3. CASE ~(p = o /\ u \in S)
    <3>1. \A x \in S : \E e \in OpenLines :
            e.org = p /\ e.report = x /\ e.manager \in S
      BY <1>2, <2>2, <2>3
    <3> QED
      BY <3>1 DEF Abstract!NoCircle
  <2>4. CASE p = o /\ u \in S
    <3>1. m \in S
      BY <2>2, <2>4
    <3>2. PICK C \in SUBSET Users :
            /\ m \in C /\ u \notin C
            /\ \A e \in Abstract!Remaining(u, left) :
                 e.org = o /\ e.report \in C => e.manager \in C
      BY <2>1 DEF Abstract!Appoint, Abstract!Leads
    <3>3. \A x \in S \cap C : \E e \in OpenLines :
            e.org = o /\ e.report = x /\ e.manager \in S \cap C
      <4> SUFFICES ASSUME NEW x \in S \cap C
                   PROVE  \E e \in OpenLines :
                            e.org = o /\ e.report = x /\ e.manager \in S \cap C
        OBVIOUS
      <4>1. PICK e \in OpenLines' : e.org = o /\ e.report = x /\ e.manager \in S
        BY <2>4
      <4>2. e \in Abstract!Remaining(u, left)
        BY <2>2, <3>2, <4>1
      <4> QED
        BY <1>2, <3>2, <4>1, <4>2
    <3>4. S \cap C = {}
      BY <3>3 DEF Abstract!NoCircle
    <3> QED
      BY <3>1, <3>2, <3>4
  <2> QED
    BY <2>3, <2>4
<1>5. CASE \/ Abstract!Relocate(u, left, joined)
           \/ \E o \in Orgs : Abstract!Dismiss(u, left, joined, o)
  BY <1>2, <1>3, <1>5 DEF Abstract!Relocate, Abstract!Dismiss, Abstract!Unled
<1> QED
  BY <1>1, <1>4, <1>5 DEF Abstract!Change

(* Whatever implements the abstract hierarchy keeps one manager per person  *)
(* and branch, both of them of the branch, and nobody among their own       *)
(* superiors: that leaving a branch closes the lines both ways, and that    *)
(* the one chain above a new manager is looked at, is enough for it.        *)
THEOREM HierarchiesAreTrees ==
  ImplementsHierarchy => [](Abstract!OneManagerOfTheBranch /\ Abstract!NoCircle)
<1>1. Abstract!Init => Abstract!OneManagerOfTheBranch /\ Abstract!NoCircle
  BY DEF Abstract!Init, Abstract!OneManagerOfTheBranch, Abstract!NoCircle
<1>2. /\ Abstract!OneManagerOfTheBranch /\ Abstract!NoCircle
      /\ [Abstract!Next]_Abstract!hierarchy
      => (Abstract!OneManagerOfTheBranch /\ Abstract!NoCircle)'
  <2>1. ASSUME UNCHANGED Abstract!hierarchy
        PROVE  Places' = Places /\ OpenLines' = OpenLines
    BY <2>1 DEF Abstract!hierarchy
  <2>2. ASSUME UNCHANGED Abstract!hierarchy, Abstract!OneManagerOfTheBranch
        PROVE  Abstract!OneManagerOfTheBranch'
    BY <2>1, <2>2 DEF Abstract!OneManagerOfTheBranch
  <2>3. ASSUME UNCHANGED Abstract!hierarchy, Abstract!NoCircle
        PROVE  Abstract!NoCircle'
    <3> SUFFICES ASSUME NEW o \in Orgs, NEW S \in SUBSET Users,
                        \A x \in S : \E e \in OpenLines' :
                          e.org = o /\ e.report = x /\ e.manager \in S
                 PROVE  S = {}
      BY DEF Abstract!NoCircle
    <3>1. \A x \in S : \E e \in OpenLines :
            e.org = o /\ e.report = x /\ e.manager \in S
      BY <2>1, <2>3
    <3> QED
      BY <2>3, <3>1 DEF Abstract!NoCircle
  <2> QED
    BY <2>2, <2>3, ChangesKeepOneManager, ChangesMakeNoCircle
<1> QED
  BY <1>1, <1>2, PTL DEF ImplementsHierarchy, Abstract!Spec

=============================================================================
