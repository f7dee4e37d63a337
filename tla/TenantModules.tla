---------------------------- MODULE TenantModules ----------------------------
(***************************************************************************)
(* PUT /tenants/:id/modules: the full set of active modules of one tenant  *)
(* is written by one transaction per module, all started at once.  Each    *)
(* looks for its row and then updates or inserts it; nothing joins them    *)
(* but the answer, and the failure of one stops none of the others.        *)
(***************************************************************************)
EXTENDS Naturals

CONSTANTS Modules, Requests, None

VARIABLES
  rows,      \* entity.tenant_modules: "none", "on" or "off" per module
  puts,      \* the requests in flight: the set wanted, each module's step
  exact      \* history: what the last PUT asked for, if it ran whole

settings == <<rows, puts, exact>>

Steps == {"select", "update", "insert", "done"}
Underway == [wanted: SUBSET Modules, step: [Modules -> Steps], whole: BOOLEAN]

InFlight == {q \in Requests : puts[q] # None}

\* Mutant: modules that are not listed are left alone.
NewPutOfListed(wanted) ==
  [wanted |-> wanted,
   step |-> [m \in Modules |-> IF m \in wanted THEN "select" ELSE "done"],
   whole |-> InFlight = {}]

\* A PUT is whole if none of its transactions failed and no other PUT of
\* the tenant was in flight with it.
NewPut(wanted) ==
  [wanted |-> wanted, step |-> [m \in Modules |-> "select"],
   whole |-> InFlight = {}]

Init ==
  /\ rows = [m \in Modules |-> "none"]
  /\ puts = [q \in Requests |-> None]
  /\ exact = None

Put(q, wanted) ==
  /\ puts[q] = None
  /\ puts' = [p \in Requests |->
       IF p = q THEN NewPut(wanted)
       ELSE IF puts[p] = None THEN None ELSE [puts[p] EXCEPT !.whole = FALSE]]
  /\ exact' = None
  /\ UNCHANGED rows

\* setActive: the row is looked for first ...
Select(q, m) ==
  /\ puts[q] # None /\ puts[q].step[m] = "select"
  /\ puts' = [puts EXCEPT ![q].step[m] = IF rows[m] = "none" THEN "insert" ELSE "update"]
  /\ UNCHANGED <<rows, exact>>

\* ... then written; an insert fails on a row inserted meanwhile.
Write(q, m) ==
  LET step == puts[q].step[m] IN
  /\ puts[q] # None /\ step \in {"insert", "update"}
  /\ IF step = "insert" /\ rows[m] # "none"
     THEN /\ puts' = [puts EXCEPT ![q].step[m] = "done", ![q].whole = FALSE]
          /\ UNCHANGED rows
     ELSE /\ puts' = [puts EXCEPT ![q].step[m] = "done"]
          /\ rows' = [rows EXCEPT ![m] = IF m \in puts[q].wanted THEN "on" ELSE "off"]
  /\ UNCHANGED exact

\* A transaction fails by itself; the others go on.
Fail(q, m) ==
  /\ puts[q] # None /\ puts[q].step[m] # "done"
  /\ puts' = [puts EXCEPT ![q].step[m] = "done", ![q].whole = FALSE]
  /\ UNCHANGED <<rows, exact>>

\* All transactions are over: list() answers with the active modules.
Answer(q) ==
  /\ puts[q] # None /\ \A m \in Modules : puts[q].step[m] = "done"
  /\ exact' = IF puts[q].whole THEN puts[q].wanted ELSE None
  /\ puts' = [puts EXCEPT ![q] = None]
  /\ UNCHANGED rows

Restart ==
  /\ InFlight # {}
  /\ puts' = [q \in Requests |-> None]
  /\ exact' = None
  /\ UNCHANGED rows

Next ==
  \/ \E q \in Requests, wanted \in SUBSET Modules : Put(q, wanted)
  \/ \E q \in Requests, m \in Modules : Select(q, m) \/ Write(q, m) \/ Fail(q, m)
  \/ \E q \in Requests : Answer(q)
  \/ Restart

Spec == Init /\ [][Next]_settings

----------------------------------------------------------------------------
Active == {m \in Modules : rows[m] = "on"}

TypeOK ==
  /\ rows \in [Modules -> {"none", "on", "off"}]
  /\ puts \in [Requests -> Underway \cup {None}]
  /\ exact \in (SUBSET Modules) \cup {None}

(* "The full active set -- anything not listed is disabled": after a PUT    *)
(* that no other overlapped and of which no transaction failed, exactly the *)
(* modules it listed are active, until the next PUT.  Of overlapping or     *)
(* interrupted PUTs the four transactions leave any mixture.                *)
WholePutsAreExact == exact # None => Active = exact

=============================================================================
