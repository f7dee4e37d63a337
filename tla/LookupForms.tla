------------------------------ MODULE LookupForms ------------------------------
(***************************************************************************)
(* The generic lookup tables of lookup-admin: one form, driven by a table  *)
(* of columns, creates and edits the rows of every one of them.  An edit   *)
(* sends the columns that differ from the row it was opened on.  A foreign *)
(* key may depend on another column of the form: its options are fetched   *)
(* anew whenever that column changes.                                      *)
(*                                                                         *)
(* A row has a label, which is required, a parent and a child under it.    *)
(* Left out: the scopes of tables, and the rows whose name or rank is      *)
(* reserved, which module RoleCatalogue keeps on the service's side.       *)
(***************************************************************************)
EXTENDS Naturals

CONSTANTS
  Labels, Parents,
  ChildrenOf,  \* the children of each parent
  MaxWrites,   \* bound on the writes, the form's and those of others, together
  None

VARIABLES
  stored,   \* the row of the service, or None
  onPage,   \* the row the page was rendered with, or None
  rerender, \* the page is being fetched again
  editor,   \* "closed", "create" or "edit"
  base,     \* the row the form was opened on
  values,   \* the columns of the form
  options,  \* the parent whose children are listed, or None
  filling,  \* the parent whose list is on its way, or None
  unfilled, \* the last list could not be had
  sending,  \* the request on its way: its columns, and whether it is served
  byHand,   \* history: the columns set by hand since the form was opened
  written   \* how many writes

lookup == <<stored, onPage, rerender, editor, base, values, options, filling,
            unfilled, sending, byHand, written>>

Fields == {"label", "parent", "child"}
AllChildren == UNION {ChildrenOf[p] : p \in Parents}
Values ==
  [label: Labels \cup {None}, parent: Parents \cup {None}, child: AllChildren \cup {None}]
Stored ==
  [label: Labels, parent: Parents \cup {None}, child: AllChildren \cup {None}, active: BOOLEAN]

\* A row of the service has its child under its parent.
InitialRows == {r \in Stored : r.child # None => r.parent # None /\ r.child \in ChildrenOf[r.parent]}

Blank == [f \in Fields |-> None]
ValuesFromRow(row) == [f \in Fields |-> row[f]]

Init ==
  /\ stored \in InitialRows \cup {None} /\ onPage = stored /\ rerender = FALSE
  /\ editor = "closed" /\ base = None /\ values = Blank
  /\ options = None /\ filling = None /\ unfilled = FALSE
  /\ sending = None /\ byHand = {} /\ written = 0

service == <<stored, onPage, rerender>>
select == <<options, filling, unfilled>>

----------------------------------------------------------------------------
Refresh ==
  /\ rerender
  /\ onPage' = stored /\ rerender' = FALSE
  /\ UNCHANGED <<stored, editor, base, values, select, sending, byHand,
                 written>>

\* The list of a parent is asked for; the answer of an earlier one is dropped.
Fetch(parent) == filling' = parent

Open(how, row, columns) ==
  /\ editor = "closed"
  /\ editor' = how /\ base' = row /\ values' = columns
  /\ options' = None /\ unfilled' = FALSE /\ Fetch(columns.parent)
  /\ byHand' = {}
  /\ UNCHANGED <<service, sending, written>>

OpenCreate == onPage = None /\ Open("create", None, Blank)
OpenEdit == onPage # None /\ Open("edit", onPage, ValuesFromRow(onPage))

Editable == editor # "closed" /\ sending = None
SetField(field, value) ==
  /\ Editable /\ value # values[field]
  /\ values' = [values EXCEPT ![field] = value]
  /\ byHand' = byHand \cup {field}
  /\ UNCHANGED <<service, editor, base, sending, written>>

SetLabel(label) == SetField("label", label) /\ UNCHANGED select

\* The child chosen under the parent before stays on the form.
SetParent(parent) ==
  /\ SetField("parent", parent)
  /\ Fetch(parent)
  /\ IF parent = None THEN options' = None /\ UNCHANGED unfilled
     ELSE unfilled' = FALSE /\ UNCHANGED options

\* Mutant: the list of the parent before can be chosen from.
ChildOfferedWhileLoading == values.parent # None

\* The select is disabled without a parent, and while its list is fetched.
ChildOffered == values.parent # None /\ filling = None

SetChild(child) ==
  /\ ChildOffered
  /\ child = None \/ (options # None /\ child \in ChildrenOf[options])
  /\ SetField("child", child)
  /\ UNCHANGED select

FetchOptions ==
  /\ filling # None
  /\ options' = filling /\ filling' = None
  /\ UNCHANGED <<service, editor, base, values, unfilled, sending, byHand,
                 written>>

\* What was listed before stays listed.
FetchFails ==
  /\ filling # None
  /\ unfilled' = TRUE /\ filling' = None
  /\ UNCHANGED <<service, editor, base, values, options, sending, byHand,
                 written>>

Send(columns) ==
  /\ sending' = [columns |-> columns, served |-> FALSE]
  /\ UNCHANGED <<service, editor, base, values, select, byHand, written>>

HandleSubmit ==
  /\ Editable /\ editor = "create"
  /\ values.label # None
  /\ Send(values)

\* Mutant: every column is sent.
PatchWhole == values

\* The columns that differ from the row the form was opened on.
Patch == [f \in {f \in Fields : values[f] # base[f]} |-> values[f]]

HandleSave ==
  /\ Editable /\ editor = "edit"
  /\ values.label # None
  /\ DOMAIN Patch # {}
  /\ Send(Patch)

HandleToggleActive ==
  /\ Editable /\ editor = "edit"
  /\ Send([f \in {"active"} |-> ~base.active])

Shut ==
  /\ editor' = "closed" /\ base' = None /\ values' = Blank
  /\ options' = None /\ unfilled' = FALSE /\ Fetch(None)
  /\ byHand' = {}

\* Cancel, or Save with nothing changed.
HandleClose ==
  /\ Editable
  /\ Shut
  /\ UNCHANGED <<service, sending, written>>

\* A new row is active; an update writes the columns it names.
Serve ==
  /\ sending # None /\ ~sending.served
  /\ written < MaxWrites /\ written' = written + 1
  /\ LET old == IF editor = "create" THEN [f \in Fields \cup {"active"} |-> TRUE] ELSE stored
         now == [f \in DOMAIN old |->
                   IF f \in DOMAIN sending.columns THEN sending.columns[f] ELSE old[f]]
     IN  /\ editor = "create" <=> stored = None
         /\ stored' = now
  /\ sending' = [sending EXCEPT !.served = TRUE]
  /\ UNCHANGED <<onPage, rerender, editor, base, values, select, byHand>>

Answer ==
  /\ sending # None /\ sending.served
  /\ sending' = None
  /\ Shut /\ rerender' = TRUE
  /\ UNCHANGED <<stored, onPage, written>>

\* Refused, or the answer is lost: the form stays as it is.
NoAnswer ==
  /\ sending # None
  /\ sending' = None
  /\ UNCHANGED <<service, editor, base, values, select, byHand, written>>

\* Another administrator writes a column.
Elsewhere(row) ==
  /\ stored # None /\ stored' = row
  /\ written < MaxWrites /\ written' = written + 1
  /\ \E f \in Fields \cup {"active"} : \A g \in (Fields \cup {"active"}) \ {f} : row[g] = stored[g]
  /\ UNCHANGED <<onPage, rerender, editor, base, values, select, sending,
                 byHand>>

Next ==
  \/ Refresh \/ OpenCreate \/ OpenEdit
  \/ \E l \in Labels \cup {None} : SetLabel(l)
  \/ \E p \in Parents \cup {None} : SetParent(p)
  \/ \E c \in AllChildren \cup {None} : SetChild(c)
  \/ FetchOptions \/ FetchFails
  \/ HandleSubmit \/ HandleSave \/ HandleToggleActive \/ HandleClose
  \/ Serve \/ Answer \/ NoAnswer
  \/ \E row \in InitialRows : Elsewhere(row)

Spec == Init /\ [][Next]_lookup

----------------------------------------------------------------------------
TypeOK ==
  /\ stored \in Stored \cup {None} /\ onPage \in Stored \cup {None}
  /\ values \in Values /\ byHand \subseteq Fields
  /\ editor = "edit" <=> base # None
  /\ sending # None => editor # "closed"
  /\ {options, filling} \subseteq Parents \cup {None} /\ (filling # None => filling = values.parent)
  /\ written <= MaxWrites

(* An edit of a row writes no column the administrator left alone, so that   *)
(* what others have written into those since the form was opened survives,   *)
(* however often it is sent again after a lost answer; and a toggle writes   *)
(* nothing but the flag.                                                     *)
OthersColumnsStay ==
  editor = "edit" /\ sending # None => DOMAIN sending.columns \subseteq byHand \cup {"active"}

\* A step that changes the child on the form chooses one of the parent's.
ChildChosen ==
  editor # "closed" /\ values'.child \notin {values.child, None} /\ ~unfilled
    => values'.child \in ChildrenOf[values.parent]

(* A child chosen by hand is one of the parent chosen, however often the     *)
(* parent was changed before and while its list is still on its way, unless  *)
(* the list could not be had: then that of the parent before stays listed.   *)
ChildrenAreChosenUnderTheirParent == [][ChildChosen]_lookup

=============================================================================
