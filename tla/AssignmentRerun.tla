---------------------------- MODULE AssignmentRerun ----------------------------
(***************************************************************************)
(* Re-run Auto-Assignment of lookup-admin: the unassigned leads of the     *)
(* chosen branches and campaign types are gone through in batches, each    *)
(* previewed before it is run.  The service is asked with the filters and  *)
(* the cursor of the moment; the answer is shown whatever was chosen       *)
(* since, so that the page disables its controls meanwhile.                *)
(***************************************************************************)
EXTENDS Naturals

CONSTANTS
  Filters,  \* branches and campaign types, one set for both
  Batches,  \* of every choice, numbered from 0
  None

VARIABLES
  filters,  \* the boxes ticked
  cursor,   \* the batch after the last one run
  preview,  \* the dry run shown: what it was of, how many it would assign
  request,  \* the request on its way, or None
  runs      \* history: the batch last run for real, and the preview then

rerun == <<filters, cursor, preview, request, runs>>

Cursor == 0..Batches - 1
Body == [filters |-> filters, cursor |-> cursor]

Init ==
  /\ filters = {} /\ cursor = 0
  /\ preview = None /\ request = None /\ runs = None

ToggleOffered == request = None

\* What comes back of a dry run: of which batch, and how many it would assign.
Result == [of: [filters: SUBSET Filters, cursor: Cursor], assigned: 0..1]

\* Mutant: a change of the filters keeps the preview.
ToggleQuietly(f) ==
  /\ ToggleOffered
  /\ filters' = (filters \ {f}) \cup ({f} \ filters)
  /\ cursor' = 0
  /\ UNCHANGED <<preview, request, runs>>

\* "A filter change invalidates both the preview and any batch position."
Toggle(f) ==
  /\ ToggleOffered
  /\ filters' = (filters \ {f}) \cup ({f} \ filters)
  /\ preview' = None /\ cursor' = 0
  /\ UNCHANGED <<request, runs>>

RunPreview ==
  /\ request = None
  /\ request' = [of |-> Body, dry |-> TRUE]
  /\ UNCHANGED <<filters, cursor, preview, runs>>

\* What is offered under the filters: Assign for a preview with something to
\* assign, Start over once a cursor is there.
AssignOffered == request = None /\ preview # None /\ preview.assigned > 0
StartOverOffered == request = None /\ cursor > 0

RunForReal ==
  /\ AssignOffered
  /\ request' = [of |-> Body, dry |-> FALSE]
  /\ runs' = [of |-> Body, seen |-> preview]
  /\ UNCHANGED <<filters, cursor, preview>>

\* After the last batch there is no cursor, and the next one is the first.
Answer(assigned) ==
  /\ request # None
  /\ request' = None
  /\ IF request.dry
     THEN preview' = [of |-> request.of, assigned |-> assigned] /\ UNCHANGED cursor
     ELSE preview' = None /\ cursor' = (request.of.cursor + 1) % Batches
  /\ UNCHANGED <<filters, runs>>

\* Refused, or done and its answer lost: the preview stays.
Fail ==
  /\ request # None
  /\ request' = None
  /\ UNCHANGED <<filters, cursor, preview, runs>>

ResetBatches ==
  /\ StartOverOffered
  /\ cursor' = 0 /\ preview' = None
  /\ UNCHANGED <<filters, request, runs>>

Next ==
  \/ \E f \in Filters : Toggle(f)
  \/ RunPreview \/ RunForReal
  \/ \E assigned \in 0..1 : Answer(assigned)
  \/ Fail \/ ResetBatches

Spec == Init /\ [][Next]_rerun

----------------------------------------------------------------------------
TypeOK ==
  /\ filters \subseteq Filters /\ cursor \in Cursor
  /\ preview # None => preview \in Result
  /\ request # None => request.of = Body

(* "Always previews first: the Run button acts on exactly the batch the      *)
(* preview described (same filters, same cursor)": every batch run for real  *)
(* is the one whose preview is on display when it is asked for, and that     *)
(* preview had something to assign -- across filters changed and changed     *)
(* back, batches run one after another, lost answers and a new start.        *)
RunsArePreviewed == runs # None => runs.seen # None /\ runs.seen.of = runs.of /\ runs.seen.assigned > 0

=============================================================================
