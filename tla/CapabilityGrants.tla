--------------------------- MODULE CapabilityGrants ---------------------------
(***************************************************************************)
(* The Capability Matrix of lookup-admin: an administrator picks a role of *)
(* the tenant, sees what its grants resolve to, ticks boxes and saves the  *)
(* ticks as override rows.  The rows of a role are read at one moment and  *)
(* handed to the screen at a later one, whichever role is picked by then.  *)
(* The resolver is written twice in the code, in TypeScript for the screen *)
(* and in SQL for the services, and twice here.  Labels, the order of the  *)
(* tree and rows of other tenants are left out.                            *)
(***************************************************************************)
EXTENDS Naturals

CONSTANTS
  Roles,         \* of the tenant, all below super_admin
  Caps,          \* the catalogue
  Kind, Parent,  \* of each capability; a root has the parent None
  Platform,      \* the superadmin.* subtree
  Defaults,      \* the platform's own rows, per role and capability
  MaxEdits,      \* bound on the ticks and the writes of others, together
  None

VARIABLES
  overrides,  \* iam.role_capabilities of the tenant
  role,       \* the role picked
  view,       \* the rows the screen holds: defaults and overrides
  pending,    \* the ticks not yet saved
  loading,
  error,      \* an error is on display
  reads,      \* the reads on their way, one per role at most
  saving,     \* the save on its way, with what the screen held and showed
  saved,      \* history: the save written last
  ticks, others  \* how many ticks, how many writes of others

matrix == <<overrides, role, view, pending, loading, error, reads, saving,
            saved, ticks, others>>

Rows == [Caps -> {"none", "on", "off"}]
NoRows == [c \in Caps |-> "none"]
Blank == [defaults |-> NoRows, overrides |-> NoRows]
NoRead == [step |-> "none", rows |-> NoRows]

\* One layer over another, row by row.
Over(upper, lower) == [c \in Caps |-> IF upper[c] # "none" THEN upper[c] ELSE lower[c]]

\* Mutant: the platform's default beats the tenant's own row.
OwnGrantsDefaultFirst(v) == Over(v.defaults, v.overrides)

\* ownGrantsByKey: "a row scoped to the acting tenant beats the default".
OwnGrants(v) == Over(v.overrides, v.defaults)

Inherits(c) == Kind[c] \in {"page", "tab"}

\* resolveCapabilityMatrix, as the screen walks the tree: a page or tab
\* without a row takes what flows down, anything else is off without one.
Flows(own) ==
  LET flows[c \in Caps] ==
        IF Inherits(c) /\ own[c] # "none" THEN own[c] = "on"
        ELSE IF Parent[c] = None THEN own[c] = "on" ELSE flows[Parent[c]]
  IN flows

Resolve(own) ==
  LET granted[c \in Caps] ==
        /\ Parent[c] # None => granted[Parent[c]]
        /\ IF Inherits(c) /\ own[c] = "none" /\ Parent[c] # None
           THEN Flows(own)[Parent[c]] ELSE own[c] = "on"
  IN granted

\* iam.fn_role_capability_matrix, from the tables: its recursive walk over
\* the rows grant_resolved picked.
Walk(row) ==
  LET walk[c \in Caps] ==
        IF Parent[c] = None THEN [granted |-> row[c] = "on", nav |-> row[c] = "on"]
        ELSE LET w == walk[Parent[c]]
                 nav == IF Inherits(c) /\ row[c] # "none" THEN row[c] = "on" ELSE w.nav
             IN [granted |-> w.granted /\ IF Inherits(c) THEN nav ELSE row[c] = "on",
                 nav |-> nav]
  IN walk

RoleCapabilityMatrix(table, r) ==
  LET row == [c \in Caps |-> IF table[r][c] # "none" THEN table[r][c] ELSE Defaults[r][c]]
  IN [c \in Caps |-> Walk(row)[c].granted]

\* "Resolved over SAVED + PENDING".
Resolved == Resolve(Over(pending, OwnGrants(view)))

Init ==
  /\ overrides = [r \in Roles |-> NoRows]
  /\ role = None /\ view = Blank
  /\ pending = NoRows /\ loading = FALSE /\ error = FALSE
  /\ reads = [r \in Roles |-> NoRead]
  /\ saving = None /\ saved = None
  /\ ticks = 0 /\ others = 0

\* Another role is picked: its rows are asked for and the ticks dropped, but
\* the rows of the role before stay.  Picking none, or a tenant, clears them.
PickRole(r) ==
  /\ r # role
  /\ role' = r
  /\ IF r = None
     THEN view' = Blank /\ UNCHANGED <<pending, loading, error, reads>>
     ELSE /\ reads[r] = NoRead
          /\ reads' = [reads EXCEPT ![r].step = "asked"]
          /\ loading' = TRUE /\ pending' = NoRows /\ error' = FALSE
          /\ UNCHANGED view
  /\ UNCHANGED <<overrides, saving, saved, ticks, others>>

ListRoleCapabilities(r) ==
  /\ reads[r].step = "asked"
  /\ reads' = [reads EXCEPT ![r] = [step |-> "read", rows |-> overrides[r]]]
  /\ UNCHANGED <<overrides, role, view, pending, loading, error, saving, saved,
                 ticks, others>>

\* No answer is dropped: nothing asks whether the role is still picked.
ReadAnswers(r) ==
  /\ reads[r].step = "read"
  /\ view' = [defaults |-> Defaults[r], overrides |-> reads[r].rows]
  /\ loading' = FALSE
  /\ reads' = [reads EXCEPT ![r] = NoRead]
  /\ UNCHANGED <<overrides, role, pending, error, saving, saved, ticks, others>>

ReadFails(r) ==
  /\ reads[r] # NoRead
  /\ loading' = FALSE /\ error' = TRUE
  /\ reads' = [reads EXCEPT ![r] = NoRead]
  /\ UNCHANGED <<overrides, role, view, pending, saving, saved, ticks, others>>

\* The boxes drawn enabled: none while the list loads, none of the platform's
\* subtree, none beneath a node that is off.
Offers(c) ==
  /\ role # None /\ ~loading
  /\ c \notin Platform
  /\ Parent[c] # None => Resolved[Parent[c]]

Toggle(c) ==
  /\ Offers(c) /\ ticks + others < MaxEdits
  /\ pending' = [pending EXCEPT ![c] = IF Resolved[c] THEN "off" ELSE "on"]
  /\ ticks' = ticks + 1
  /\ UNCHANGED <<overrides, role, view, loading, error, reads, saving, saved,
                 others>>

HandleSave ==
  /\ role # None /\ pending # NoRows /\ saving = None
  /\ saving' = [role |-> role, changes |-> pending, held |-> view,
                shown |-> Resolved, reported |-> error, written |-> FALSE]
  /\ error' = FALSE
  /\ UNCHANGED <<overrides, role, view, pending, loading, reads, saved, ticks,
                 others>>

\* assertGrantsAssignable.
Assignable(changes) == \A c \in Platform : changes[c] # "on"

\* upsertGrants: one transaction over the rows that were ticked.
UpsertGrants ==
  /\ saving # None /\ ~saving.written /\ Assignable(saving.changes)
  /\ overrides' = [overrides EXCEPT ![saving.role] = Over(saving.changes, @)]
  /\ saved' = [role |-> saving.role, shown |-> saving.shown, reported |-> saving.reported,
               inStep |-> saving.held = [defaults |-> Defaults[saving.role],
                                         overrides |-> overrides[saving.role]]]
  /\ saving' = [saving EXCEPT !.written = TRUE]
  /\ UNCHANGED <<role, view, pending, loading, error, reads, ticks, others>>

\* The rows written go into the list on screen, and every tick is dropped.
SaveAnswers ==
  /\ saving # None /\ saving.written
  /\ view' = [view EXCEPT !.overrides = Over(saving.changes, @)]
  /\ pending' = NoRows
  /\ saving' = None
  /\ UNCHANGED <<overrides, role, loading, error, reads, saved, ticks, others>>

SaveFails ==
  /\ saving # None
  /\ saving' = None
  /\ error' = TRUE
  /\ UNCHANGED <<overrides, role, view, pending, loading, reads, saved, ticks,
                 others>>

\* Another administrator saves one row.
Elsewhere(r, c, value) ==
  /\ ticks + others < MaxEdits
  /\ overrides' = [overrides EXCEPT ![r][c] = value]
  /\ others' = others + 1
  /\ saved' = IF saved # None /\ saved.role = r THEN None ELSE saved
  /\ UNCHANGED <<role, view, pending, loading, error, reads, saving, ticks>>

Next ==
  \/ \E r \in Roles \cup {None} : PickRole(r)
  \/ \E r \in Roles : ListRoleCapabilities(r) \/ ReadAnswers(r) \/ ReadFails(r)
  \/ \E c \in Caps : Toggle(c)
  \/ HandleSave \/ UpsertGrants \/ SaveAnswers \/ SaveFails
  \/ \E r \in Roles, c \in Caps \ Platform, value \in {"on", "off"} : Elsewhere(r, c, value)

Spec == Init /\ [][Next]_matrix

----------------------------------------------------------------------------
TypeOK ==
  /\ overrides \in [Roles -> Rows]
  /\ role \in Roles \cup {None}
  /\ view \in [defaults: Rows, overrides: Rows] /\ pending \in Rows
  /\ loading \in BOOLEAN /\ error \in BOOLEAN
  /\ \A r \in Roles : reads[r].step \in {"none", "asked", "read"} /\ reads[r].rows \in Rows
  /\ ticks + others \in 0..MaxEdits

(* The two resolvers agree, whatever rows a tenant has.                      *)
ResolversAgree ==
  \A table \in [Roles -> Rows] : \A r \in Roles :
    RoleCapabilityMatrix(table, r) = Resolve(Over(table[r], Defaults[r]))

SavedAsShown == RoleCapabilityMatrix(overrides, saved.role) = saved.shown

(* "The screen shows the state you are about to save": when the rows the     *)
(* screen held were the role's rows at the moment of the write, the database *)
(* resolves every capability of the role to what the boxes showed when Save  *)
(* was pressed -- overrides over defaults, denials with all beneath them --  *)
(* and until another save of that role it stays so.                          *)
SavedFromTheRolesRows == saved # None /\ saved.inStep => SavedAsShown

(* The same whenever no other administrator writes and no failed read was on *)
(* display.  A run refutes it: the rows of a role left before they came in   *)
(* are shown, and saved, as those of the role picked since.                  *)
SavedAlone == saved # None /\ others = 0 /\ ~saved.reported => SavedAsShown

=============================================================================
