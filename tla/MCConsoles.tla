------------------------------ MODULE MCConsoles ------------------------------
(* Small instances of the consoles' parts.                                  *)
EXTENDS Consoles, TLC

CONSTANTS
  r1, r2, tool, view_, op, p1, p2, s1,
  b1, b2, sales, coach, clerk, calls, sd, cd, m1,
  pg1, pg2, f1, f2, x1, x2

\* CapabilityGrants: a tool, a page of it and an operation on the page.
MCKind == tool :> "tool" @@ view_ :> "page" @@ op :> "op"
MCParent == tool :> None @@ view_ :> tool @@ op :> view_
MCDefaults == [r \in Roles |-> [c \in Caps |-> IF c = view_ THEN "none" ELSE "on"]]

\* LookupForms: one parent with a child and one without.
MCChildrenOf == p1 :> {s1} @@ p2 :> {}

\* PageMapping and PullFilter: two pages, with a form and a campaign each.
MCFormsOf == pg1 :> {f1} @@ pg2 :> {f2}
MCObserved == pg1 :> {x1} @@ pg2 :> {x2}

\* UserForm: a role of the department the type routes to, one of another and
\* one of none; members at home in b1.
MCRoleDepartment == (sales :> sd) @@ (coach :> cd) @@ (clerk :> None)
MCTypeDepartment == (calls :> sd)
Unweighted == [t \in {} |-> 0]
Works(r, w) == [role |-> r, weights |-> w]
Both == (b1 :> Works(sales, calls :> 40)) @@ (b2 :> Works(clerk, Unweighted))
One == (b1 :> Works(clerk, Unweighted)) @@ (b2 :> None)
Edited(held, picks, product, active) ==
  [kind |-> "edit", home |-> b1, held |-> held, manager |-> m1,
   picks |-> picks, product |-> product, active |-> active]
MCMembers ==
  { Edited(Both, TRUE, TRUE, TRUE), Edited(One, TRUE, TRUE, TRUE),
    Edited(Both, FALSE, FALSE, FALSE), Edited(Both, FALSE, FALSE, TRUE),
    [kind |-> "create", home |-> b1, held |-> [b \in Branches |-> None], manager |-> None,
     picks |-> TRUE, product |-> FALSE, active |-> TRUE] }

\* The two resolvers agree on this catalogue; a theorem says so of every one.
ASSUME ResolversAssumption == G!ResolversAgree
=============================================================================
