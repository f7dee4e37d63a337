---------------------------- MODULE ApiTokenScreens ----------------------------
(***************************************************************************)
(* API Tokens of admin-web: the table of tokens and its four dialogs.  A   *)
(* key is shown once, by the dialog that had it made, when the answer of   *)
(* the service is in; only its prefix is kept.  The service's side of a    *)
(* rotation is module ApiKeys: here it is one step.  A grant stands for    *)
(* scopes, branches, rate limit and expiry, which an edit sends all again; *)
(* the copy button is left out, and so is reloading the tab.               *)
(***************************************************************************)
CONSTANTS
  Tokens,  \* ids of iam.api_clients
  Grants,
  None

VARIABLES
  tokens,    \* the service's table: grant and live, or None
  listed,    \* the rows the page was rendered with
  reloading, \* the page is being fetched again
  sheet,     \* the dialog open, or "closed"
  subject,   \* the token it is open for, as the table had it, or None
  entered,   \* the grant on the form, or None while no scope is chosen
  call,      \* the request on its way, and what became of it
  shown,     \* the token whose key is on display, or None
  minted,    \* history: the tokens this page had made
  met,       \* history: those whose key was on display
  missed     \* history: those whose answer was lost

screens == <<tokens, listed, reloading, sheet, subject, entered, call, shown,
             minted, met, missed>>

Row == [grant: Grants, live: BOOLEAN]
Kinds == {"create", "edit", "rotate", "revoke"}
Call(kind, token, grant) ==
  [kind |-> kind, token |-> token, grant |-> grant, state |-> "asked", made |-> None]

Init ==
  /\ tokens \in [Tokens -> [grant: Grants, live: {TRUE}] \cup {None}] /\ listed = tokens
  /\ reloading = FALSE /\ sheet = "closed" /\ subject = None /\ entered = None
  /\ call = None /\ shown = None
  /\ minted = {} /\ met = {} /\ missed = {}

----------------------------------------------------------------------------
(* The page and its dialogs. *)

\* The tokens are fetched by the server that renders the page.
Refresh ==
  /\ reloading
  /\ listed' = tokens /\ reloading' = FALSE
  /\ UNCHANGED <<tokens, sheet, subject, entered, call, shown, minted, met,
                 missed>>

Open(kind, token, grant) ==
  /\ sheet = "closed"
  /\ sheet' = kind /\ subject' = token /\ entered' = grant
  /\ UNCHANGED <<tokens, listed, reloading, call, shown, minted, met, missed>>

OpenCreate == Open("create", None, None)

\* A revoked token's buttons are disabled.
ActionsOffered(t) == listed[t] # None /\ listed[t].live

\* The edit form starts from the row in the table.
OpenFor(kind, t) ==
  /\ ActionsOffered(t)
  /\ Open(kind, t, IF kind = "edit" THEN listed[t].grant ELSE None)

CreateFormShown == sheet = "create" /\ shown = None /\ call = None
EditFormShown == sheet = "edit" /\ call = None

Enter(grant) ==
  /\ entered' = grant
  /\ UNCHANGED <<tokens, listed, reloading, sheet, subject, call, shown,
                 minted, met, missed>>

SetCreateForm(grant) == CreateFormShown /\ Enter(grant)
SetEditForm(grant) == EditFormShown /\ Enter(grant)

Submit(grant) ==
  /\ call = None
  /\ call' = Call(sheet, subject, grant)
  /\ UNCHANGED <<tokens, listed, reloading, sheet, subject, entered, shown,
                 minted, met, missed>>

SubmitCreate == CreateFormShown /\ entered # None /\ Submit(entered)
SubmitEdit == EditFormShown /\ entered # None /\ Submit(entered)
HandleRotate == sheet = "rotate" /\ shown = None /\ Submit(None)
HandleRevoke == sheet = "revoke" /\ Submit(None)

\* Mutant: a dialog closes over a request on its way.
CloseOfferedAlways == sheet # "closed"

\* Cancel, the cross and Escape alike.
CloseOffered == sheet # "closed" /\ call = None

SecretRevealed == shown # None

\* A key on display is gone, and the page is fetched again.
HandleClose ==
  /\ CloseOffered
  /\ sheet' = "closed" /\ subject' = None /\ entered' = None /\ shown' = None
  /\ reloading' = (reloading \/ SecretRevealed)
  /\ UNCHANGED <<tokens, listed, call, minted, met, missed>>

----------------------------------------------------------------------------
(* The service, and its answers. *)

Served(state, made) == call' = [call EXCEPT !.state = state, !.made = made]
Asked(kind) == call # None /\ call.state = "asked" /\ call.kind = kind
AsOf(t) == [tokens EXCEPT ![t].live = FALSE]

Create(new) ==
  /\ Asked("create") /\ tokens[new] = None
  /\ tokens' = [tokens EXCEPT ![new] = [grant |-> call.grant, live |-> TRUE]]
  /\ Served("done", new) /\ minted' = minted \cup {new}

\* Of a revoked row too.
Update ==
  /\ Asked("edit")
  /\ tokens' = [tokens EXCEPT ![call.token].grant = call.grant]
  /\ Served("done", None) /\ UNCHANGED minted

Rotate(new) ==
  /\ Asked("rotate") /\ tokens[call.token].live /\ tokens[new] = None
  /\ tokens' = [AsOf(call.token) EXCEPT ![new] = [grant |-> tokens[call.token].grant, live |-> TRUE]]
  /\ Served("done", new) /\ minted' = minted \cup {new}

Revoke ==
  /\ Asked("revoke")
  /\ tokens' = AsOf(call.token)
  /\ Served("done", None) /\ UNCHANGED minted

Refuse ==
  /\ call # None /\ call.state = "asked"
  /\ Served("refused", None) /\ UNCHANGED <<tokens, minted>>

Serve ==
  /\ (\E new \in Tokens : Create(new) \/ Rotate(new)) \/ Update \/ Revoke \/ Refuse
  /\ UNCHANGED <<listed, reloading, sheet, subject, entered, shown, met,
                 missed>>

\* A key is shown by the dialog that asked for it, if that is still there; an
\* edit or a revocation closes its dialog and has the page fetched again.
Answer ==
  /\ call # None /\ call.state = "done"
  /\ call' = None
  /\ IF call.kind \in {"create", "rotate"}
     THEN /\ IF sheet = call.kind /\ subject = call.token
             THEN shown' = call.made /\ met' = met \cup {call.made}
             ELSE UNCHANGED <<shown, met>>
          /\ UNCHANGED <<sheet, subject, entered, reloading>>
     ELSE /\ sheet' = "closed" /\ subject' = None /\ entered' = None /\ reloading' = TRUE
          /\ UNCHANGED <<shown, met>>
  /\ UNCHANGED <<tokens, listed, minted, missed>>

\* Refused, or the answer is lost: the dialog stays, with an error.
NoAnswer ==
  /\ call # None
  /\ call' = None
  /\ missed' = missed \cup ({call.made} \ {None})
  /\ UNCHANGED <<tokens, listed, reloading, sheet, subject, entered, shown,
                 minted, met>>

\* Another administrator revokes or edits.
Elsewhere(t) ==
  /\ tokens[t] # None
  /\ \/ tokens' = AsOf(t)
     \/ \E g \in Grants : tokens' = [tokens EXCEPT ![t].grant = g]
  /\ UNCHANGED <<listed, reloading, sheet, subject, entered, call, shown,
                 minted, met, missed>>

Next ==
  \/ Refresh \/ OpenCreate \/ HandleClose
  \/ \E t \in Tokens : Elsewhere(t) \/ \E kind \in Kinds \ {"create"} : OpenFor(kind, t)
  \/ \E g \in Grants \cup {None} : SetCreateForm(g) \/ SetEditForm(g)
  \/ SubmitCreate \/ SubmitEdit \/ HandleRotate \/ HandleRevoke
  \/ Serve \/ Answer \/ NoAnswer

Spec == Init /\ [][Next]_screens

----------------------------------------------------------------------------
TypeOK ==
  /\ tokens \in [Tokens -> Row \cup {None}] /\ listed \in [Tokens -> Row \cup {None}]
  /\ sheet \in Kinds \cup {"closed"} /\ (subject = None <=> sheet \in {"closed", "create"})
  /\ shown # None => sheet \in {"create", "rotate"} /\ call = None
  /\ met \cup missed \subseteq minted

(* "API key -- shown once ... It will not be retrievable again": a key made  *)
(* for this page has been on display, unless its answer is on its way or was *)
(* lost: no dialog closes, and no list is fetched, over a key that is coming.*)
KeysAreShownToTheirMaker ==
  \A t \in minted : t \in met \cup missed \/ (call # None /\ call.made = t)

=============================================================================
