------------------------------ MODULE PageMapping ------------------------------
(***************************************************************************)
(* Meta Page Mapping of lookup-admin: which branch the leads of a page, or *)
(* of one form of it, land in.  The dialog lists the live forms of the     *)
(* page chosen, asked for anew whenever the page changes; where they       *)
(* cannot be had the form is typed.  The service refuses a page and form   *)
(* mapped already.  Branches, platforms, default types and the names of    *)
(* pages are left out.                                                     *)
(***************************************************************************)
EXTENDS Naturals, FiniteSets

CONSTANTS
  Pages,
  FormsOf,   \* the live forms of each page
  MaxAsks,   \* bound on the lists of forms on their way
  MaxSaves,  \* bound on the rows created
  None       \* the form of a page-level row, too

VARIABLES
  mapped,    \* meta.page_org_map: the rows, a page and a form each
  board,     \* the rows on the page, as last fetched
  refetch,   \* the page is being fetched again
  modal,     \* "closed", "create" or "edit"
  pageId, pageLevel, formId,
  forms,     \* the page whose forms are listed, or None
  lists,     \* the lists on their way: of which page, and the latest or not
  missed,    \* the last list asked for could not be had
  posting    \* the row on its way to the service, or None

pages == <<mapped, board, refetch, modal, pageId, pageLevel, formId, forms, lists,
           missed, posting>>

AllForms == UNION {FormsOf[p] : p \in Pages}
Row == [page: Pages, form: AllForms \cup {None}]

Init ==
  /\ mapped = {} /\ board = {} /\ refetch = FALSE
  /\ modal = "closed" /\ pageId = None /\ pageLevel = TRUE /\ formId = None
  /\ forms = None /\ lists = {} /\ missed = FALSE /\ posting = None

Cancelled == {[l EXCEPT !.live = FALSE] : l \in lists}

\* The effect over the page chosen: its forms are asked for, or the list is
\* dropped; either way an earlier list is not waited for any more.
LoadForms(creating, page, whole) ==
  IF creating /\ ~whole /\ page # None
  THEN /\ Cardinality(lists) < MaxAsks
       /\ lists' = Cancelled \cup {[page |-> page, live |-> TRUE]}
       /\ missed' = FALSE
       /\ UNCHANGED forms
  ELSE forms' = None /\ lists' = Cancelled /\ missed' = FALSE

Shut ==
  /\ modal' = "closed" /\ pageId' = None /\ pageLevel' = TRUE /\ formId' = None
  /\ LoadForms(FALSE, None, TRUE)

\* New, perhaps for the page or form another screen names.
OpenCreate(page, form) ==
  /\ modal = "closed"
  /\ modal' = "create"
  /\ pageId' = page /\ pageLevel' = (form = None) /\ formId' = form
  /\ LoadForms(TRUE, page, form = None)
  /\ UNCHANGED <<mapped, board, refetch, posting>>

OpenEdit(row) ==
  /\ modal = "closed" /\ row \in board
  /\ modal' = "edit"
  /\ pageId' = row.page /\ pageLevel' = (row.form = None) /\ formId' = row.form
  /\ LoadForms(FALSE, row.page, row.form = None)
  /\ UNCHANGED <<mapped, board, refetch, posting>>

Creating == modal = "create" /\ posting = None

\* The form chosen for the page before is kept.
SetPageId(page) ==
  /\ Creating /\ page # pageId
  /\ pageId' = page
  /\ LoadForms(TRUE, page, pageLevel)
  /\ UNCHANGED <<mapped, board, refetch, modal, pageLevel, formId, posting>>

SetPageLevel(whole) ==
  /\ Creating /\ whole # pageLevel
  /\ pageLevel' = whole
  /\ LoadForms(TRUE, pageId, whole)
  /\ UNCHANGED <<mapped, board, refetch, modal, pageId, formId, posting>>

\* From the list, or typed, as when the list is empty.  Which of its forms the
\* list marks as mapped is as old as the list and left open.
FormsOffered ==
  IF forms # None /\ FormsOf[forms] # {} THEN FormsOf[forms] ELSE AllForms

SetFormId(form) ==
  /\ Creating /\ ~pageLevel /\ form \in FormsOffered \cup {None}
  /\ formId' = form
  /\ UNCHANGED <<mapped, board, refetch, modal, pageId, pageLevel, forms,
                 lists, missed, posting>>

\* Mutant: the list of a page left since is shown.
FormsAnswerLate(l) ==
  /\ l \in lists
  /\ lists' = lists \ {l}
  /\ forms' = l.page /\ missed' = FALSE
  /\ UNCHANGED <<mapped, board, refetch, modal, pageId, pageLevel, formId,
                 posting>>

FormsAnswer(l) ==
  /\ l \in lists
  /\ lists' = lists \ {l}
  /\ IF l.live THEN forms' = l.page ELSE UNCHANGED forms
  /\ UNCHANGED <<mapped, board, refetch, modal, pageId, pageLevel, formId,
                 missed, posting>>

FormsFail(l) ==
  /\ l \in lists
  /\ lists' = lists \ {l}
  /\ IF l.live THEN forms' = None /\ missed' = TRUE ELSE UNCHANGED <<forms, missed>>
  /\ UNCHANGED <<mapped, board, refetch, modal, pageId, pageLevel, formId,
                 posting>>

\* A page, and a form unless the whole page is mapped.
HandleSubmit ==
  /\ modal # "closed" /\ posting = None
  /\ pageId # None /\ (pageLevel \/ formId # None)
  /\ posting' = [page |-> pageId, form |-> IF pageLevel THEN None ELSE formId]
  /\ UNCHANGED <<mapped, board, refetch, modal, pageId, pageLevel, formId,
                 forms, lists, missed>>

\* The row is there: it was created or still there to be edited.
Saved ==
  /\ posting # None
  /\ IF modal = "create"
     THEN posting \notin mapped /\ Cardinality(mapped) < MaxSaves
          /\ mapped' = mapped \cup {posting}
     ELSE posting \in mapped /\ UNCHANGED mapped
  /\ posting' = None /\ refetch' = TRUE
  /\ Shut
  /\ UNCHANGED board

\* Mapped already, gone since, or no answer: the dialog stays; a row that is
\* gone has the page fetched again.
NotSaved ==
  /\ posting # None
  /\ posting' = None
  /\ refetch' = (refetch \/ (modal # "create" /\ posting \notin mapped))
  /\ UNCHANGED <<mapped, board, modal, pageId, pageLevel, formId, forms, lists,
                 missed>>

HandleClose ==
  /\ modal # "closed" /\ posting = None
  /\ Shut
  /\ UNCHANGED <<mapped, board, refetch, posting>>

Refetch ==
  /\ refetch
  /\ board' = mapped /\ refetch' = FALSE
  /\ UNCHANGED <<mapped, modal, pageId, pageLevel, formId, forms, lists,
                 missed, posting>>

\* Another administrator removes a row.
Elsewhere(row) ==
  /\ row \in mapped
  /\ mapped' = mapped \ {row}
  /\ UNCHANGED <<board, refetch, modal, pageId, pageLevel, formId, forms,
                 lists, missed, posting>>

Next ==
  \/ \E p \in Pages \cup {None} :
       \/ OpenCreate(p, None) \/ SetPageId(p)
       \/ p # None /\ \E f \in FormsOf[p] : OpenCreate(p, f)
  \/ \E row \in board : OpenEdit(row)
  \/ \E whole \in BOOLEAN : SetPageLevel(whole)
  \/ \E f \in AllForms \cup {None} : SetFormId(f)
  \/ \E l \in lists : FormsAnswer(l) \/ FormsFail(l)
  \/ HandleSubmit \/ Saved \/ NotSaved \/ HandleClose \/ Refetch
  \/ \E row \in mapped : Elsewhere(row)

Spec == Init /\ [][Next]_pages

----------------------------------------------------------------------------
TypeOK ==
  /\ mapped \subseteq Row /\ board \subseteq Row /\ posting \in Row \cup {None}
  /\ pageId \in Pages \cup {None} /\ formId \in AllForms \cup {None}
  /\ modal = "closed" => posting = None /\ forms = None
  /\ Cardinality({l \in lists : l.live}) <= 1

(* The forms on offer are those of the page chosen once the list asked for   *)
(* it is in, however often the page changed before and whatever order the    *)
(* lists came in; without one the form is typed.  While it is on its way the *)
(* list of the page before is still on offer.                                *)
FormsMatchThePage ==
  (\A l \in lists : ~l.live) /\ forms # None => forms = pageId

=============================================================================
