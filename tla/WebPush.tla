------------------------------- MODULE WebPush -------------------------------
(***************************************************************************)
(* Web Push on one shared device: the browser's subscription, the rows the *)
(* notifications service keeps of it, and the three places that keep the   *)
(* two in step: the hook of the opted-in page, the service worker and the  *)
(* sign-out.  A request carries the session it was sent with and is        *)
(* refused once that session has ended.  A mailbox is a user in a branch:  *)
(* rows are always addressed by both.                                      *)
(***************************************************************************)
EXTENDS Naturals, FiniteSets

CONSTANTS Mailboxes, Endpoints, None

VARIABLES
  session,      \* the mailbox signed in on the device, or None
  permission,   \* Notification.permission
  local,        \* the endpoint the browser holds; every other one is dead
  issued,       \* endpoints handed out so far: none is handed out twice
  subscribed,   \* notify.push_subscriptions: mailbox per endpoint, or None
  page,         \* "closed", "open", or "leaving": it is about to be reloaded
  suppress,     \* suppressReconcile
  paused,       \* pausedLocally: "Turn on" is offered although permitted
  jobs,         \* the four asynchronous functions, see Jobs
  turnedOff,    \* history: "clean", or "raced" by a reconciler past its checks
  settled       \* history: whose the row of the device's endpoint must be:
                \* nobody's ("vacated"), the user's own ("registered"), "no"

device == <<session, permission, local, issued, page, suppress, paused, jobs>>
push == <<device, subscribed, turnedOff, settled>>

\* The reconciler that runs on mount, the two buttons, the worker's handler
\* of pushsubscriptionchange, and the sign-out.
Jobs == {"mount", "button", "off", "worker", "signout"}
PageJobs == Jobs \ {"worker"}

Idle == [at |-> "idle", end |-> None, as |-> None]
At(step, endpoint, as) == [at |-> step, end |-> endpoint, as |-> as]
Goes(j, job) == jobs' = [jobs EXCEPT ![j] = job]

Init ==
  /\ session = None /\ permission = "default" /\ local = None /\ issued = {}
  /\ subscribed = [e \in Endpoints |-> None]
  /\ page = "closed" /\ suppress = FALSE /\ paused = FALSE
  /\ jobs = [j \in Jobs |-> Idle]
  /\ turnedOff = "no" /\ settled = "no"

----------------------------------------------------------------------------
(* The notifications service. *)

\* Upsert on the endpoint: a shared handset moves to its new user.
SaveSubscription(e, m) == subscribed' = [subscribed EXCEPT ![e] = m]

\* A route deletes only what the caller's own user and branch registered.
DeleteSubscription(e, m) ==
  subscribed' = [subscribed EXCEPT ![e] = IF @ = m THEN None ELSE @]

FindSubscriptions(m) == {e \in Endpoints : subscribed[e] = m}

\* A push to each of them; a dead endpoint answers 410 and is pruned, if the
\* service can.  What is dead stays so: the pushes may as well be one step.
SendToUser(m) ==
  /\ FindSubscriptions(m) # {}
  /\ \E gone \in SUBSET (FindSubscriptions(m) \ {local}) :
       subscribed' = [e \in Endpoints |-> IF e \in gone THEN None ELSE subscribed[e]]
  /\ UNCHANGED <<device, turnedOff, settled>>

----------------------------------------------------------------------------
(* The browser. *)

Fresh(e) == e \in Endpoints \ issued

\* The browser rotates its subscription, or an iPhone's icon is removed.
Rotate(e) ==
  /\ local # None /\ Fresh(e)
  /\ local' = e /\ issued' = issued \cup {e}
  /\ \/ jobs["worker"] = Idle /\ Goes("worker", At("post", e, session))
     \/ UNCHANGED jobs
  /\ turnedOff' = "no"
  /\ UNCHANGED <<session, permission, paused, page, suppress, subscribed,
                 settled>>

Lose ==
  /\ local # None
  /\ local' = None
  /\ UNCHANGED <<session, permission, paused, issued, page, suppress, jobs,
                 subscribed, turnedOff, settled>>

Login(m) ==
  /\ page = "closed" /\ session = None
  /\ session' = m
  /\ settled' = "no"
  /\ UNCHANGED <<permission, paused, local, issued, page, suppress, jobs,
                 subscribed, turnedOff>>

\* The hook mounts: with the permission given it reconciles.
OpenPage ==
  /\ page = "closed" /\ session # None
  /\ page' = "open" /\ suppress' = FALSE /\ paused' = FALSE
  /\ IF permission = "granted" THEN Goes("mount", At("ready", None, None))
     ELSE UNCHANGED jobs
  /\ turnedOff' = "no"
  /\ UNCHANGED <<session, permission, local, issued, subscribed, settled>>

\* Closed, left or reloaded: nothing the page had under way goes on.
ClosePage ==
  /\ page # "closed"
  /\ page' = "closed" /\ paused' = FALSE
  /\ jobs' = [j \in Jobs |-> IF j \in PageJobs THEN Idle ELSE jobs[j]]
  /\ turnedOff' = "no"
  /\ UNCHANGED <<session, permission, local, issued, suppress, subscribed,
                 settled>>

----------------------------------------------------------------------------
(* usePushSubscription. *)

\* Mutant: the reconciler does not look whether notifications were turned off.
ReconcileBlind ==
  LET found == local IN
  /\ jobs["mount"].at = "ready"
  /\ Goes("mount", IF found # None THEN At("post", found, session) ELSE At("key", None, session))
  /\ UNCHANGED <<session, permission, paused, local, issued, page, suppress,
                 subscribed, turnedOff, settled>>

\* The worker is ready: a subscription found is posted again, a missing one
\* is created.  Both checks for suppression precede this.
Reconcile ==
  LET found == local IN
  /\ jobs["mount"].at = "ready"
  /\ Goes("mount", IF suppress THEN Idle
                   ELSE IF found # None THEN At("post", found, session)
                   ELSE At("key", None, session))
  /\ UNCHANGED <<session, permission, paused, local, issued, page, suppress,
                 subscribed, turnedOff, settled>>

\* The card of NotificationOptIn: one button at a time.
Quiet == page # "closed" /\ jobs["button"] = Idle /\ jobs["off"] = Idle
TurnOnOffered == Quiet /\ permission # "denied" /\ (permission = "granted" => paused)
TurnOffOffered == Quiet /\ permission = "granted" /\ ~paused

\* "Turn on", with the answer the user gives.
Subscribe(answer) ==
  /\ TurnOnOffered
  /\ permission = "granted" => answer = "granted"
  /\ permission' = answer
  /\ IF answer = "granted"
     THEN /\ suppress' = FALSE /\ turnedOff' = "no"
          /\ Goes("button", At("key", None, session))
          /\ UNCHANGED paused
     ELSE paused' = FALSE /\ UNCHANGED <<suppress, jobs, turnedOff>>
  /\ UNCHANGED <<session, local, issued, page, subscribed, settled>>

\* createSubscription: the key is in, if only just before the session ended,
\* and the browser subscribes.
CreateSubscription(j, e) ==
  /\ jobs[j].at = "key"
  /\ IF local = None THEN Fresh(e) /\ issued' = issued \cup {e}
     ELSE e = local /\ UNCHANGED issued
  /\ local' = e
  /\ Goes(j, At("post", e, session))
  /\ UNCHANGED <<session, permission, paused, page, suppress, subscribed,
                 turnedOff, settled>>

\* A registration arrives, and is accepted of a session that still lives.
Post(j) ==
  /\ jobs[j].at = "post" /\ jobs[j].as # None
  /\ SaveSubscription(jobs[j].end, jobs[j].as)
  /\ Goes(j, Idle)
  /\ paused' = (paused /\ j # "button")
  /\ settled' = IF jobs[j].end = local THEN "registered" ELSE settled
  /\ UNCHANGED <<session, permission, local, issued, page, suppress, turnedOff>>

\* Any request may fail to get an answer, or any but a 401.
RequestFails(j) ==
  /\ jobs[j].at \in {"key", "post"}
  /\ Goes(j, Idle)
  /\ UNCHANGED <<session, permission, paused, local, issued, page, suppress,
                 subscribed, turnedOff, settled>>

\* handleUnauthorized: a page's request of a session that has ended is answered
\* 401 and the page is to be reloaded.  Until the browser gets to that, what it
\* has under way goes on: the teardown to the local subscription.  The worker's
\* request knows nothing of this.
Refused(j) ==
  /\ j \in PageJobs /\ jobs[j].at \in {"key", "post", "delete"}
  /\ jobs[j].as = None
  /\ page' = "leaving"
  /\ Goes(j, IF jobs[j].at = "delete" THEN [jobs[j] EXCEPT !.at = "drop"] ELSE Idle)
  /\ UNCHANGED <<session, permission, paused, local, issued, suppress,
                 subscribed, turnedOff, settled>>

\* "Turn off" suppresses the reconciler first.
Unsubscribe ==
  /\ TurnOffOffered
  /\ suppress' = TRUE
  /\ Goes("off", At("ready", None, session))
  /\ turnedOff' = IF jobs["mount"].at \in {"key", "post"} THEN "raced" ELSE "clean"
  /\ UNCHANGED <<session, permission, paused, local, issued, page, subscribed,
                 settled>>

\* The teardown of both "Turn off" and the sign-out: look, tell the service,
\* and drop the subscription whatever it answered.
Look(j) ==
  LET found == local IN
  /\ j \in {"off", "signout"} /\ jobs[j].at = "ready"
  /\ Goes(j, IF found = None THEN At("over", None, None) ELSE At("delete", found, session))
  /\ UNCHANGED <<session, permission, paused, local, issued, page, suppress,
                 subscribed, turnedOff, settled>>

\* Mutant: a refused request leaves the subscription standing.
TellStrictly(j) ==
  /\ jobs[j].at = "delete"
  /\ \/ /\ jobs[j].as # None
        /\ DeleteSubscription(jobs[j].end, jobs[j].as)
        /\ Goes(j, [jobs[j] EXCEPT !.at = "drop"])
     \/ UNCHANGED subscribed /\ Goes(j, At("over", None, None))
  /\ UNCHANGED <<session, permission, paused, local, issued, page, suppress,
                 turnedOff, settled>>

Tell(j) ==
  /\ jobs[j].at = "delete"
  /\ \/ jobs[j].as # None /\ DeleteSubscription(jobs[j].end, jobs[j].as)
     \/ UNCHANGED subscribed
  /\ Goes(j, [jobs[j] EXCEPT !.at = "drop"])
  /\ UNCHANGED <<session, permission, paused, local, issued, page, suppress,
                 turnedOff, settled>>

Drop(j) ==
  /\ jobs[j].at = "drop"
  /\ local' = IF local = jobs[j].end THEN None ELSE local
  /\ Goes(j, At("over", None, None))
  /\ UNCHANGED <<session, permission, paused, issued, page, suppress,
                 subscribed, turnedOff, settled>>

\* The browser's own part of the teardown fails: "Turn off" says so, and
\* notifications are on as before; the sign-out swallows it and goes on.
TeardownFails(j) ==
  /\ jobs[j].at \in {"ready", "drop"}
  /\ \/ j = "off" /\ Goes(j, Idle) /\ turnedOff' = "no"
     \/ j = "signout" /\ Goes(j, At("failed", None, None)) /\ UNCHANGED turnedOff
  /\ UNCHANGED <<session, permission, paused, local, issued, page, suppress,
                 subscribed, settled>>

OffIsOver ==
  /\ jobs["off"].at = "over"
  /\ Goes("off", Idle)
  /\ paused' = TRUE
  /\ UNCHANGED <<session, permission, local, issued, page, suppress,
                 subscribed, turnedOff, settled>>

\* handleSignOut ends the session first: every request it sends afterwards,
\* and every one still on its way, is refused -- unless the logout failed.
SignOut ==
  /\ page # "closed" /\ jobs["signout"] = Idle
  /\ \/ /\ session' = None
        /\ settled' = "no"
        /\ jobs' = [j \in Jobs |-> IF j = "signout" THEN At("ready", None, None)
                                   ELSE [jobs[j] EXCEPT !.as = None]]
     \/ Goes("signout", At("ready", None, None)) /\ UNCHANGED <<session, settled>>
  /\ UNCHANGED <<permission, paused, local, issued, page, suppress, subscribed,
                 turnedOff>>

\* ... and then leaves for the login page, however the teardown ended.
SignedOut ==
  /\ jobs["signout"].at \in {"over", "failed"}
  /\ page' = "closed" /\ paused' = FALSE
  /\ jobs' = [j \in Jobs |-> IF j \in PageJobs THEN Idle ELSE jobs[j]]
  /\ settled' = IF session = None /\ jobs["signout"].at = "over" THEN "vacated"
                ELSE settled
  /\ turnedOff' = "no"
  /\ UNCHANGED <<session, permission, local, issued, suppress, subscribed>>

Next ==
  \/ \E m \in Mailboxes : SendToUser(m) \/ Login(m)
  \/ \E e \in Endpoints : Rotate(e)
  \/ Lose \/ OpenPage \/ ClosePage \/ Reconcile
  \/ \E answer \in {"granted", "denied", "default"} : Subscribe(answer)
  \/ \E j \in Jobs, e \in Endpoints : CreateSubscription(j, e)
  \/ \E j \in Jobs : Post(j) \/ RequestFails(j) \/ Look(j) \/ Tell(j) \/ Drop(j)
                     \/ Refused(j) \/ TeardownFails(j)
  \/ Unsubscribe \/ OffIsOver \/ SignOut \/ SignedOut

Spec == Init /\ [][Next]_push

----------------------------------------------------------------------------
TypeOK ==
  /\ session \in Mailboxes \cup {None} /\ local \in Endpoints \cup {None}
  /\ local # None => local \in issued
  /\ subscribed \in [Endpoints -> Mailboxes \cup {None}]
  /\ \A e \in Endpoints : subscribed[e] # None => e \in issued
  /\ \A j \in Jobs : jobs[j].as \in Mailboxes \cup {None}
  /\ page \in {"closed", "open", "leaving"}
  /\ page = "closed" => \A j \in PageJobs : jobs[j] = Idle

(* "Logout must not leave this user's push registration ... on the device -- *)
(* a shared phone would otherwise push one person's follow-ups to whoever    *)
(* logs in next".  Once a sign-out's teardown has run to its end no row      *)
(* leads to the endpoint the device holds, although the session ends first,  *)
(* so that the service refuses the row's deletion; and once the next user's  *)
(* registration is accepted the row is theirs until they sign out -- in      *)
(* whatever order registrations, rotations, refusals and sends happen.       *)
(* Between the two the promise is not kept: when the reload that the refusal *)
(* starts comes first, or the browser fails to unsubscribe, the phone is the *)
(* last user's until the next one's page has registered.                     *)
PushesFollowTheUser ==
  local # None =>
    /\ settled = "vacated" => subscribed[local] = None
    /\ settled = "registered" => subscribed[local] \in {None, session}

(* "Set once the user turns notifications off in this session, so the mount  *)
(* reconciler does not immediately re-create the subscription it just        *)
(* deleted": once turned off, the device holds no subscription until it is   *)
(* turned on again, rotates or the page is left -- unless the reconciler had *)
(* passed its checks before, or the browser failed to drop it.               *)
TurnedOffStaysOff ==
  turnedOff = "clean" /\ jobs["off"] = Idle => local = None

=============================================================================
