------------------------------- MODULE UserForm -------------------------------
(***************************************************************************)
(* The form that creates and edits a team member.  It opens at once and    *)
(* four fetches fill it: the member's branches, the role catalogue, who    *)
(* could take over their leads, and the managers of the home branch, asked *)
(* again whenever the home branch moves.  The branches are saved as the    *)
(* complete set.  An effect of React runs within the action that causes    *)
(* it.  Names, phone numbers, notices and the department filter, which     *)
(* only narrows the roles on offer, are left out.                          *)
(***************************************************************************)
EXTENDS Integers

CONSTANTS
  Branches, Managers, Heirs, Types, Roles,
  RoleDepartment,     \* department of a role, or None
  LeadRoles,          \* roles that work leads
  TypeDepartment,     \* department of a campaign type
  Members,            \* who may be opened: see Member
  EnteredWeights,     \* numbers typed into a weight input
  MaxEdits,           \* bound on the edits of one opening
  None, Loading, Failed, Omitted

VARIABLES
  who,        \* the member the form is open for, as the roster had them
  existing,   \* the load of their branches: "loading", "loaded", "failed"
  roleList,   \* the role catalogue: the same three
  assigned,   \* the draft: role and weights per branch, or None
  home, manager,
  managers,   \* manager candidates: whose, which, and if a fetch is on
  heirs,      \* who could take the leads over, or Loading, or Failed
  heir,       \* the one picked when they leave, and when deactivated
  lastHeir, deactivating,
  pending,    \* a request is on
  sent,       \* history: the last patch
  touched,    \* history: what the admin set by hand
  edits

draft == <<assigned, home, manager>>
loads == <<existing, roleList, managers, heirs>>
panels == <<heir, lastHeir, deactivating>>
form == <<who, draft, loads, panels, pending, sent, touched, edits>>

Weights == UNION {[T -> 0..100] : T \in SUBSET Types}
NoWeights == [t \in {} |-> 0]

Idle == [of |-> None, list |-> {}, busy |-> FALSE]
NoRows == [b \in Branches |-> None]
Held(table) == {b \in Branches : table[b] # None}
Creates == who.kind = "create"

\* A new row has no role and sits in no pool until it is weighted.
Fallback(b) == [NoRows EXCEPT ![b] = [role |-> None, weights |-> NoWeights]]

Init ==
  /\ who = None
  /\ existing = "loading" /\ roleList = "loading"
  /\ assigned = NoRows /\ home = None /\ manager = None
  /\ managers = Idle /\ heirs = {}
  /\ heir = None /\ lastHeir = None /\ deactivating = FALSE
  /\ pending = FALSE /\ sent = None /\ touched = {} /\ edits = 0

\* The form is mounted: the draft starts from the fallback branch, and all
\* loads start.
Open(m) ==
  /\ who = None
  /\ who' = m
  /\ existing' = "loading" /\ roleList' = "loading"
  /\ assigned' = Fallback(m.home) /\ home' = m.home /\ manager' = m.manager
  /\ managers' = [of |-> None, list |-> {}, busy |-> TRUE]
  /\ heirs' = IF m.kind = "edit" /\ m.product THEN Loading ELSE {}
  /\ heir' = None /\ lastHeir' = None /\ deactivating' = FALSE
  /\ sent' = None /\ touched' = {} /\ edits' = 0
  /\ UNCHANGED pending

Close ==
  /\ who # None /\ ~pending
  /\ who' = None
  /\ UNCHANGED <<draft, loads, panels, pending, sent, touched, edits>>

\* The role whose leads are at stake; unknown until both loads are in.
HoldsLeads(mappings, catalogue) ==
  /\ who.product
  /\ mappings = "loaded" /\ catalogue = "ready" /\ who.held[who.home] # None =>
       who.held[who.home].role \in LeadRoles

\* Nothing to hand over: the fetch of heirs is cancelled.
HeirsFor(mappings, catalogue) ==
  IF HoldsLeads(mappings, catalogue) THEN heirs ELSE {}

\* The draft takes the loaded branches over, once.  A failed load seeds the
\* empty set.
MappingsAnswer(outcome) ==
  /\ who # None /\ ~Creates /\ existing = "loading"
  /\ existing' = outcome
  /\ assigned' = IF outcome = "loaded" THEN who.held ELSE NoRows
  /\ home' = who.home
  /\ heirs' = HeirsFor(outcome, roleList)
  /\ UNCHANGED <<who, manager, roleList, managers, panels, pending, sent,
                 touched, edits>>

RolesAnswer(outcome) ==
  /\ who # None /\ roleList = "loading"
  /\ roleList' = outcome
  /\ heirs' = IF Creates THEN {} ELSE HeirsFor(existing, outcome)
  /\ UNCHANGED <<who, draft, existing, managers, panels, pending, sent,
                 touched, edits>>

HeirsAre(outcome) ==
  /\ who # None /\ heirs = Loading
  /\ heirs' = outcome
  /\ UNCHANGED <<who, draft, existing, roleList, managers, panels, pending,
                 sent, touched, edits>>

HeirsAnswer(list) == HeirsAre(list)

\* The fetch fails: it is over, and the screen says nothing of it.
HeirsFail == HeirsAre(Failed)

\* What the form knows of the heirs: after a failed fetch, as after an empty
\* answer, that there are none.
HeirList == IF heirs \in {Loading, Failed} THEN {} ELSE heirs

\* Mutant: the value is judged on the branch the form opened with as well.
ShouldClearAnywhere(value, branch, m) ==
  /\ value # None /\ ~m.busy
  /\ m.of = branch
  /\ value \notin m.list

\* A manager the new home branch cannot honour is cleared, once its list is in.
ShouldClearManager(value, branch, m) ==
  /\ value # None /\ ~m.busy
  /\ m.of = branch
  /\ branch # who.home
  /\ value \notin m.list

\* Answers for a branch that is no longer home are dropped.
ManagersAnswer(list) ==
  LET m == [of |-> home, list |-> list, busy |-> FALSE] IN
  /\ who # None /\ managers.busy /\ home # None
  /\ managers' = m
  /\ manager' = IF ShouldClearManager(manager, home, m) THEN None ELSE manager
  /\ UNCHANGED <<who, assigned, home, existing, roleList, heirs, panels,
                 pending, sent, touched, edits>>

----------------------------------------------------------------------------
\* The two forms: an edit shows its branches once they are in.
CreateFormShown == who # None /\ Creates
EditFormShown == who # None /\ ~Creates
BranchesShown == CreateFormShown \/ (EditFormShown /\ existing # "loading")

\* A request locks every field.
Editable == BranchesShown /\ ~pending /\ edits < MaxEdits

Edit(what) == /\ touched' = touched \cup what
              /\ edits' = edits + 1
              /\ UNCHANGED <<who, existing, roleList, heirs, panels, pending,
                             sent>>

\* The home branch moves: its managers are fetched.
HomeIs(b) ==
  /\ home' = b
  /\ managers' = IF b = home THEN managers
                 ELSE IF b = None THEN [managers EXCEPT !.of = None, !.list = {}]
                 ELSE [managers EXCEPT !.busy = TRUE]
  /\ UNCHANGED manager

AddBranch(b) ==
  LET role == IF home # None /\ assigned[home] # None THEN assigned[home].role ELSE None IN
  /\ Editable /\ who.picks /\ assigned[b] = None
  /\ assigned' = [assigned EXCEPT ![b] = [role |-> role, weights |-> NoWeights]]
  /\ HomeIs(IF Held(assigned) = {} THEN b ELSE home)
  /\ Edit({b} \cup IF Held(assigned) = {} THEN {"home"} ELSE {})

\* The first branch left becomes home; a new member falls back to a first one.
RemoveBranch(b, next) ==
  LET left == Held(assigned) \ {b} IN
  /\ Editable /\ who.picks /\ assigned[b] # None
  /\ IF left = {} THEN next = None ELSE next \in left
  /\ IF left = {} /\ Creates
     THEN assigned' = Fallback(who.home) /\ HomeIs(who.home)
     ELSE /\ assigned' = [assigned EXCEPT ![b] = None]
          /\ HomeIs(IF b = home THEN next ELSE home)
  /\ Edit({b} \cup IF b = home THEN {"home"} ELSE {})

SetHome(b) ==
  /\ Editable /\ assigned[b] # None /\ b # home
  /\ HomeIs(b)
  /\ UNCHANGED assigned
  /\ Edit({"home"})

SetRole(b, r) ==
  /\ Editable /\ assigned[b] # None /\ roleList = "ready" /\ assigned[b].role # r
  /\ assigned' = [assigned EXCEPT ![b].role = r]
  /\ UNCHANGED <<home, manager, managers>>
  /\ Edit({b})

\* The pools a row may be weighted for are those of its role's department.
PoolScope(row) ==
  IF roleList = "ready" /\ row.role \in LeadRoles
  THEN {t \in Types : TypeDepartment[t] = RoleDepartment[row.role]}
  ELSE {}

Mismatched(row) ==
  IF roleList = "ready" /\ row.role \in LeadRoles
  THEN DOMAIN row.weights \ PoolScope(row) ELSE {}

\* WeightInput: clamped on entry.
Clamped(n) == IF n < 0 THEN 0 ELSE IF n > 100 THEN 100 ELSE n

WithWeight(weights, t, n) ==
  [u \in DOMAIN weights \cup {t} |-> IF u = t THEN n ELSE weights[u]]

SetWeight(b, t, n) ==
  /\ Editable /\ assigned[b] # None /\ t \in PoolScope(assigned[b])
  /\ assigned' = [assigned EXCEPT ![b].weights = WithWeight(@, t, Clamped(n))]
  /\ UNCHANGED <<home, manager, managers>>
  /\ Edit({b})

RemoveType(b, t) ==
  /\ Editable /\ assigned[b] # None
  /\ t \in (DOMAIN assigned[b].weights \cap PoolScope(assigned[b])) \cup Mismatched(assigned[b])
  /\ assigned' = [assigned EXCEPT ![b].weights = [u \in DOMAIN @ \ {t} |-> @[u]]]
  /\ UNCHANGED <<home, manager, managers>>
  /\ Edit({b})

\* ManagerSelect: open whenever no fetch is on.
PickManager(m) ==
  /\ who # None /\ ~pending /\ edits < MaxEdits
  /\ ~managers.busy /\ home # None
  /\ m \in managers.list \cup {None} /\ m # manager
  /\ manager' = m
  /\ UNCHANGED <<assigned, home, managers>>
  /\ Edit({"manager"})

----------------------------------------------------------------------------
LeavingBranch == home # who.home /\ assigned[who.home] = None
LeavingHomeBranch == LeavingBranch /\ HoldsLeads(existing, roleList)

\* The panels that ask who takes the leads over.
HeirOffered == EditFormShown /\ ~pending /\ heirs # Loading

PickHeir(h) ==
  /\ HeirOffered /\ h \in HeirList
  /\ \/ LeavingHomeBranch /\ heir' = h /\ UNCHANGED lastHeir
     \/ deactivating /\ lastHeir' = h /\ UNCHANGED heir
  /\ UNCHANGED <<who, draft, loads, deactivating, pending, sent, touched,
                 edits>>

IsComplete ==
  /\ Held(assigned) # {} /\ \A b \in Held(assigned) : assigned[b].role # None
  /\ home # None /\ assigned[home] # None

\* Mutant: an empty list is believed while it loads.
HeirSettledEarly(picked) == picked # None \/ HeirList = {}

\* An empty list means "unassign" only once the fetch is over, however it ended.
HeirSettled(picked) == heirs # Loading /\ (picked = None => HeirList = {})

Send(patch) == /\ pending' = TRUE
               /\ sent' = patch
               /\ UNCHANGED <<who, draft, loads, heir, lastHeir, touched,
                              edits>>

Nothing == [assignments |-> Omitted, home |-> Omitted, manager |-> Omitted,
            heir |-> Omitted, active |-> Omitted]

\* The footer of an edit.
FooterOffers(control) ==
  CASE control = "save" -> EditFormShown /\ ~pending
    [] control = "toggle" -> EditFormShown /\ ~pending /\ ~deactivating

\* What of the draft an edit sends.  Without the loaded branches: nothing.
EditPatch ==
  IF existing = "loading" THEN Nothing
  ELSE [Nothing EXCEPT
         !.assignments = assigned, !.home = home,
         !.manager = IF home # who.home \/ manager # who.manager THEN manager ELSE @,
         !.heir = IF LeavingHomeBranch THEN heir
                  ELSE IF who.product /\ LeavingBranch THEN None ELSE @]

Save ==
  /\ FooterOffers("save")
  /\ IsComplete
  /\ LeavingHomeBranch => HeirSettled(heir)
  /\ Send(EditPatch)
  /\ UNCHANGED deactivating

\* CreateUserModal's submit: the whole draft, and a manager if there is one.
Create ==
  /\ CreateFormShown /\ ~pending
  /\ IsComplete
  /\ Send([Nothing EXCEPT !.assignments = assigned, !.home = home,
                          !.manager = IF manager = None THEN @ ELSE manager])
  /\ UNCHANGED deactivating

Deactivation(h) == [Nothing EXCEPT !.active = FALSE, !.heir = h]

ToggleActive ==
  /\ FooterOffers("toggle")
  /\ IF ~who.active
     THEN Send([Nothing EXCEPT !.active = TRUE]) /\ UNCHANGED deactivating
     ELSE IF ~who.product
     THEN Send(Deactivation(Omitted)) /\ UNCHANGED deactivating
     ELSE IF ~HoldsLeads(existing, roleList)
     THEN Send(Deactivation(None)) /\ UNCHANGED deactivating
     ELSE /\ deactivating' = TRUE
          /\ UNCHANGED <<who, draft, loads, heir, lastHeir, pending, sent,
                         touched, edits>>

\* The panel of a deactivation.
PanelShown == EditFormShown /\ deactivating /\ who.product

ConfirmDeactivate ==
  /\ PanelShown /\ ~pending
  /\ HeirSettled(lastHeir)
  /\ Send(Deactivation(lastHeir))
  /\ UNCHANGED deactivating

CancelDeactivate ==
  /\ PanelShown /\ ~pending
  /\ deactivating' = FALSE /\ lastHeir' = None
  /\ UNCHANGED <<who, draft, loads, heir, pending, sent, touched, edits>>

\* Refused, or saved without the HR profile: the form stays open as it was.
AnswerStay ==
  /\ pending
  /\ pending' = FALSE
  /\ UNCHANGED <<who, draft, loads, panels, sent, touched, edits>>

\* A member created shows their password first; closing that panel is Close.
AnswerSaved ==
  /\ pending
  /\ pending' = FALSE
  /\ who' = None
  /\ UNCHANGED <<draft, loads, panels, sent, touched, edits>>

Next ==
  \/ \E m \in Members : Open(m)
  \/ Close
  \/ \E outcome \in {"loaded", "failed"} : MappingsAnswer(outcome)
  \/ \E outcome \in {"ready", "failed"} : RolesAnswer(outcome)
  \/ \E list \in SUBSET Heirs : HeirsAnswer(list)
  \/ HeirsFail
  \/ \E list \in SUBSET Managers : ManagersAnswer(list)
  \/ \E b \in Branches : AddBranch(b) \/ SetHome(b)
  \/ \E b \in Branches, next \in Branches \cup {None} : RemoveBranch(b, next)
  \/ \E b \in Branches, r \in Roles : SetRole(b, r)
  \/ \E b \in Branches, t \in Types : RemoveType(b, t)
  \/ \E b \in Branches, t \in Types, n \in EnteredWeights : SetWeight(b, t, n)
  \/ \E m \in Managers \cup {None} : PickManager(m)
  \/ \E h \in Heirs : PickHeir(h)
  \/ Save \/ Create \/ ToggleActive \/ ConfirmDeactivate \/ CancelDeactivate
  \/ AnswerStay \/ AnswerSaved

Spec == Init /\ [][Next]_form

----------------------------------------------------------------------------
Row == [role: Roles \cup {None}, weights: Weights] \cup {None}

Member == [kind: {"create", "edit"}, home: Branches, held: [Branches -> Row],
           manager: Managers \cup {None}, picks: BOOLEAN, product: BOOLEAN,
           active: BOOLEAN]

TypeOK ==
  /\ who \in Members \cup {None}
  /\ existing \in {"loading", "loaded", "failed"}
  /\ roleList \in {"loading", "ready", "failed"}
  /\ \A b \in Held(assigned) : /\ assigned[b].role \in Roles \cup {None}
                           /\ \A t \in DOMAIN assigned[b].weights :
                                t \in Types /\ assigned[b].weights[t] \in 0..100
  /\ home \in Branches \cup {None} /\ manager \in Managers \cup {None}
  /\ heirs \in {Loading, Failed} \/ heirs \subseteq Heirs
  /\ edits \in 0..MaxEdits

Edits == who # None /\ who.kind = "edit" /\ sent # None

(* Whatever order the four loads come in, a save of a form whose branches    *)
(* were loaded sends every branch the admin did not touch as it was loaded,  *)
(* the home branch unless it was moved, and no manager unless the field or   *)
(* the home branch was: "silently clearing it on a save that never touched   *)
(* the field would rewrite the hierarchy behind the admin's back".  After a  *)
(* load of the branches that failed nothing of the kind holds: the draft is  *)
(* empty, a branch may be added to it, and the save drops all the others.    *)
UntouchedFieldsStay ==
  Edits /\ sent.assignments # Omitted /\ existing = "loaded" =>
    /\ \A b \in Branches \ touched : sent.assignments[b] = who.held[b]
    /\ "home" \in touched \/ sent.home = who.home
    /\ "home" \in touched \/ "manager" \in touched \/ sent.manager = Omitted

(* A member with lead work leaves their home branch, or the platform, only   *)
(* by a patch that says what becomes of their leads.  It leaves them to      *)
(* nobody only after the list of heirs came in empty, or the role was seen   *)
(* to work no leads, or the fetch of the list failed: that third case the    *)
(* form does not tell from the first, although a list that is "empty for the *)
(* wrong reason" must not strand "a pipeline that had a perfectly good       *)
(* successor".                                                               *)
LeadsAreNeverForgotten ==
  Edits /\ who.product =>
    LET leaves == /\ sent.assignments # Omitted /\ sent.home # who.home
                  /\ sent.assignments[who.home] = None IN
    leaves \/ sent.active = FALSE =>
      /\ sent.heir # Omitted
      /\ pending /\ sent.heir = None => heirs \in {{}, Failed}

=============================================================================
