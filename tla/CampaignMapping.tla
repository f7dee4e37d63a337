---------------------------- MODULE CampaignMapping ----------------------------
(***************************************************************************)
(* Meta Campaign Mapping of lookup-admin: the three grids of campaigns and *)
(* the dialog that confirms which type a campaign is.  A confirm moves the *)
(* campaign's open leads to another pool, so the dialog makes dry runs and *)
(* shows their impact first; a change of type cancels the dry runs on      *)
(* their way and makes new ones.  Left out: the page filter, the optional  *)
(* rule added with a confirm, and what moves which lead.                   *)
(***************************************************************************)
EXTENDS Naturals, FiniteSets

CONSTANTS
  Campaigns, Types,
  MaxChanges,  \* bound on the fetches from Meta and the picks, together
  MaxAsks,     \* bound on the previews on their way
  None

VARIABLES
  campaigns,   \* the service's table: status and type, or suggested type
  grid,        \* the rows the page was rendered with
  selections,  \* the dropdown of each campaign; "unseen" before it is seeded
  fetching, refreshing,
  changes,     \* how many fetches and picks
  target,      \* the dialog: the type of each campaign in it, or None
  editable,    \* ... of a single campaign, whose type may be changed here
  asks,        \* the dry runs on their way: entries, and the latest or not
  previews,    \* the types whose impact is shown, or None
  previewing,
  committing,  \* the campaigns still to be confirmed, or None
  unconfirmed, \* this commit has something to report
  failed       \* history: a preview of this opening failed

mapping == <<campaigns, grid, selections, fetching, changes, refreshing, target, editable,
             asks, previews, previewing, committing, unconfirmed, failed>>

Untyped == [status |-> "absent", type |-> None]
Campaign == [status: {"unmapped"}, type: {None}]
              \cup [status: {"suggested", "confirmed"}, type: Types]
Listed(status) == {c \in Campaigns : grid[c].status = status}

\* The entries of a dialog: a type for each of some campaigns.
Entries == UNION {[cs -> Types] : cs \in (SUBSET Campaigns) \ {{}}}

\* An unmapped row starts empty, any other on its type or the suggestion;
\* a row seen before keeps what its dropdown says.
Seeded(rows, prev) ==
  [c \in Campaigns |->
     IF prev[c] = "unseen" /\ rows[c].status # "absent" THEN rows[c].type ELSE prev[c]]

Init ==
  /\ campaigns \in [Campaigns -> Campaign \cup {Untyped}] /\ grid = campaigns
  /\ selections = Seeded(grid, [c \in Campaigns |-> "unseen"])
  /\ fetching = FALSE /\ changes = 0 /\ refreshing = FALSE
  /\ target = None /\ editable = FALSE
  /\ asks = {} /\ previews = None /\ previewing = FALSE
  /\ committing = None /\ unconfirmed = FALSE
  /\ failed = FALSE

dialog == <<target, editable, asks, previews, previewing, committing,
            unconfirmed, failed>>
page == <<grid, selections, fetching, changes, refreshing>>

----------------------------------------------------------------------------
(* The page. *)

HandleFetch ==
  /\ ~fetching /\ changes < MaxChanges
  /\ fetching' = TRUE /\ changes' = changes + 1
  /\ UNCHANGED <<campaigns, grid, selections, refreshing, dialog>>

\* The sync: campaigns turn up, the rules suggest anew, "already confirmed
\* and left alone"; then the page is fetched again, unless the answer is lost.
Sync ==
  /\ fetching
  /\ campaigns' \in
       {now \in [Campaigns -> Campaign \cup {Untyped}] :
          \A c \in Campaigns :
            /\ campaigns[c].status = "confirmed" => now[c] = campaigns[c]
            /\ campaigns[c].status # "confirmed" => now[c].status # "confirmed"
            /\ now[c] = Untyped => campaigns[c] = Untyped}
  /\ fetching' = FALSE
  /\ refreshing' \in {TRUE, refreshing}
  /\ UNCHANGED <<grid, selections, changes, dialog>>

Refresh ==
  /\ refreshing
  /\ grid' = campaigns
  /\ selections' = Seeded(campaigns, selections)
  /\ refreshing' = FALSE
  /\ UNCHANGED <<campaigns, fetching, changes, dialog>>

HandleSelectionChange(c, type) ==
  /\ target = None
  /\ grid[c].status \in {"unmapped", "suggested"}
  /\ type # selections[c] /\ changes < MaxChanges
  /\ selections' = [selections EXCEPT ![c] = type]
  /\ changes' = changes + 1
  /\ UNCHANGED <<campaigns, grid, fetching, refreshing, dialog>>

----------------------------------------------------------------------------
(* The dialog. *)

Ask(entries) == {[a EXCEPT !.live = FALSE] : a \in asks} \cup {[of |-> entries, live |-> TRUE]}

\* A new target resets the dialog, and its preview is asked for.
Open(entries, canEdit) ==
  /\ target = None /\ Cardinality(asks) < MaxAsks
  /\ target' = entries /\ editable' = canEdit
  /\ asks' = Ask(entries)
  /\ previews' = None /\ previewing' = TRUE
  /\ failed' = FALSE
  /\ UNCHANGED <<campaigns, page, committing, unconfirmed>>

Picked(cs) == {c \in cs : selections[c] \in Types}

\* A row's own button: Confirm, or Change type, waits for a pick.
ConfirmOneOffered(c) == grid[c].status \in {"unmapped", "suggested"} /\ c \in Picked(Campaigns)

OpenConfirmOne(c) ==
  /\ ConfirmOneOffered(c)
  /\ Open([x \in {c} |-> selections[x]], TRUE)

OpenEdit(c) ==
  /\ grid[c].status = "confirmed"
  /\ Open([x \in {c} |-> grid[x].type], TRUE)

UnmappedAllPicked == Picked(Listed("unmapped")) = Listed("unmapped")

\* Only the button over "Needs mapping" asks for a pick on every row.
OpenConfirmAll(status) ==
  /\ status = "suggested" \/ UnmappedAllPicked
  /\ Picked(Listed(status)) # {}
  /\ Open([c \in Picked(Listed(status)) |-> selections[c]], FALSE)

\* The dropdown of a single campaign: dry runs on their way are cancelled.
SetSingleType(type) ==
  /\ target # None /\ editable /\ committing = None /\ Cardinality(asks) < MaxAsks
  /\ \E c \in DOMAIN target : type # target[c] /\ target' = [x \in {c} |-> type]
  /\ asks' = Ask(target')
  /\ previewing' = TRUE
  /\ UNCHANGED <<campaigns, page, editable, previews, committing, unconfirmed,
                 failed>>

\* Mutant: an answer to a cancelled preview is shown.
PreviewAnswersLate(a) ==
  /\ a \in asks
  /\ asks' = asks \ {a}
  /\ previews' = a.of /\ previewing' = FALSE
  /\ UNCHANGED <<campaigns, page, target, editable, committing, unconfirmed,
                 failed>>

\* Every dry run of an entry is in: three at a time, none changes anything.
PreviewAnswers(a) ==
  /\ a \in asks
  /\ asks' = asks \ {a}
  /\ IF a.live THEN previews' = a.of /\ previewing' = FALSE
     ELSE UNCHANGED <<previews, previewing>>
  /\ UNCHANGED <<campaigns, page, target, editable, committing, unconfirmed,
                 failed>>

\* One of them fails: what was shown before stays.
PreviewFails(a) ==
  /\ a \in asks
  /\ asks' = asks \ {a}
  /\ IF a.live THEN previewing' = FALSE /\ failed' = TRUE
     ELSE UNCHANGED <<previewing, failed>>
  /\ UNCHANGED <<campaigns, page, target, editable, previews, committing,
                 unconfirmed>>

\* What the dialog offers: everything but Cancel waits for the preview.
CommitOffered == target # None /\ committing = None /\ ~previewing /\ previews # None

HandleSubmit ==
  /\ CommitOffered
  /\ committing' = DOMAIN target /\ unconfirmed' = FALSE
  /\ UNCHANGED <<campaigns, page, target, editable, asks, previews, previewing,
                 failed>>

\* One campaign after another: confirmed, confirmed with its leads left where
\* they were or the answer lost, or refused.
ConfirmOne(c) ==
  /\ committing # None /\ c \in committing
  /\ committing' = committing \ {c}
  /\ \/ /\ campaigns' = [campaigns EXCEPT ![c] = [status |-> "confirmed", type |-> target[c]]]
        /\ unconfirmed' \in {unconfirmed, TRUE}
     \/ UNCHANGED campaigns /\ unconfirmed' = TRUE
  /\ UNCHANGED <<page, target, editable, asks, previews, previewing, failed>>

\* What else the dialog leaves behind is reset before it is looked at again.
Closed ==
  /\ target' = None /\ editable' = FALSE /\ previews' = None
  /\ previewing' = FALSE /\ unconfirmed' = FALSE /\ failed' = FALSE
  /\ asks' = {[a EXCEPT !.live = FALSE] : a \in asks}

\* The page is fetched again; something to report keeps the dialog open for
\* another try.
CommitDone ==
  /\ committing = {}
  /\ committing' = None
  /\ refreshing' = TRUE
  /\ IF unconfirmed
     THEN UNCHANGED <<target, editable, asks, previews, previewing,
                      unconfirmed, failed>>
     ELSE Closed
  /\ UNCHANGED <<campaigns, grid, selections, fetching, changes>>

HandleClose ==
  /\ target # None /\ committing = None
  /\ Closed
  /\ UNCHANGED <<campaigns, page, committing>>

Next ==
  \/ HandleFetch \/ Sync \/ Refresh
  \/ \E c \in Campaigns :
       \/ \E type \in Types \cup {None} : HandleSelectionChange(c, type)
       \/ OpenConfirmOne(c) \/ OpenEdit(c) \/ ConfirmOne(c)
  \/ \E status \in {"unmapped", "suggested"} : OpenConfirmAll(status)
  \/ \E type \in Types : SetSingleType(type)
  \/ \E a \in asks : PreviewAnswers(a) \/ PreviewFails(a)
  \/ HandleSubmit \/ CommitDone \/ HandleClose

Spec == Init /\ [][Next]_mapping

----------------------------------------------------------------------------
TypeOK ==
  /\ \A c \in Campaigns : {campaigns[c], grid[c]} \subseteq Campaign \cup {Untyped}
  /\ target # None => target \in Entries
  /\ previews # None => previews \in Entries
  /\ committing # None => target # None /\ committing \subseteq DOMAIN target
  /\ Cardinality({a \in asks : a.live}) <= 1
  /\ Cardinality(asks) <= MaxAsks /\ changes <= MaxChanges

(* "Confirming moves leads", so nobody confirms blind: whatever order the    *)
(* answers come in and however often the type is changed meanwhile, the      *)
(* impact shown while a commit runs is that of exactly the campaigns and     *)
(* types it confirms -- unless a preview of this opening has failed, which   *)
(* leaves the one before on display and the button enabled.                  *)
ConfirmsWerePreviewed == committing # None /\ ~failed => previews = target

=============================================================================
