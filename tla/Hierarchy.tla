------------------------------ MODULE Hierarchy ------------------------------
(***************************************************************************)
(* What the reporting hierarchy promises, without mappings, triggers and   *)
(* mirrors: who works in which branch, and who reports to whom there.  A   *)
(* change concerns one user: it takes the user out of some branches and    *)
(* into others, and may give the user a manager in one branch or none.     *)
(* Leaving a branch closes the user's lines in it, up and down; nobody     *)
(* else's line and no other line of the user changes, and nobody else's    *)
(* place but the new manager's, who works in the branch from then on.      *)
(***************************************************************************)
CONSTANTS Users, Orgs

VARIABLES
  staff,    \* pairs of a user and a branch
  lines     \* the open lines

hierarchy == <<staff, lines>>

Line == [org: Orgs, report: Users, manager: Users]

Init == staff = {} /\ lines = {}

(* Following managers upwards from m in branch o leads to u.                *)
Leads(open, o, m, u) ==
  \A S \in SUBSET Users :
    m \in S /\ (\A e \in open : e.org = o /\ e.report \in S => e.manager \in S)
      => u \in S

(* The places when u leaves some branches and joins others.                 *)
Moved(u, left, joined) ==
  (staff \ ({u} \X left)) \cup ({u} \X joined)

(* The lines that leaving those branches does not close.                    *)
Remaining(u, left) ==
  {e \in lines : e.org \in left => u \notin {e.report, e.manager}}

(* Of these, the ones that do not say whom u reports to in o.               *)
Unled(u, left, o) ==
  {e \in Remaining(u, left) : ~(e.org = o /\ e.report = u)}

Relocate(u, left, joined) ==
  /\ staff' = Moved(u, left, joined)
  /\ lines' = Remaining(u, left)

Dismiss(u, left, joined, o) ==
  /\ staff' = Moved(u, left, joined)
  /\ lines' = Unled(u, left, o)

(* Nobody is put under a user who reports to them, however indirectly.      *)
Appoint(u, left, joined, o, m) ==
  /\ <<u, o>> \in Moved(u, left, joined)
  /\ staff' = Moved(u, left, joined) \cup {<<m, o>>}
  /\ ~Leads(Remaining(u, left), o, m, u)
  /\ lines' = Unled(u, left, o) \cup {[org |-> o, report |-> u, manager |-> m]}

Change(u, left, joined) ==
  \/ Relocate(u, left, joined)
  \/ \E o \in Orgs : \/ Dismiss(u, left, joined, o)
                     \/ \E m \in Users : Appoint(u, left, joined, o, m)

Next ==
  \E u \in Users, left, joined \in SUBSET Orgs :
    left \cap joined = {} /\ Change(u, left, joined)

Spec == Init /\ [][Next]_hierarchy

----------------------------------------------------------------------------
(* What the hierarchy is for.                                               *)

(* A user answers to one manager in a branch at most, and both work there.  *)
OneManagerOfTheBranch ==
  /\ \A e \in lines : <<e.report, e.org>> \in staff /\ <<e.manager, e.org>> \in staff
  /\ \A e, f \in lines : e.org = f.org /\ e.report = f.report => e = f

(* In no branch do people report to each other in a circle.                 *)
NoCircle ==
  \A o \in Orgs, S \in SUBSET Users :
    (\A x \in S : \E e \in lines : e.org = o /\ e.report = x /\ e.manager \in S)
      => S = {}

=============================================================================
