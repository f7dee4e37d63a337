------------------------------- MODULE LeadPull -------------------------------
(***************************************************************************)
(* The Meta lead pull screen of lookup-admin.  A pull and its Apply run on *)
(* a worker of the leads service; the screen starts them by short requests *)
(* and follows one run by polling.  Every request reads the service at one *)
(* moment and is answered at a later one, and meanwhile the screen moves   *)
(* on.  The service is modelled from the way this screen uses it.  Counts, *)
(* names, dates and the rows' cells are left out.                          *)
(***************************************************************************)
EXTENDS Naturals, FiniteSets

CONSTANTS
  Runs,
  MaxAsks,   \* bound on the requests on their way at a time
  None

VARIABLES
  pulls,      \* the service: status of each run of the tenant, or None
  scheduled,  \* the runs the nightly catch-up created
  runId, run, \* the run the screen follows, and its status as last polled
  poll,       \* the poller: its phase, and the status an answer carries
  asks,       \* the other requests on their way, by kind
  conflict,   \* the live run a refused pull named
  accepted,   \* history: the run whose Apply was accepted and not yet polled
  reopened    \* history: the run followed was named again to the screen

service == <<pulls, scheduled>>
screen == <<runId, run, poll>>
desk == <<service, screen, asks, conflict, accepted, reopened>>

\* "running" stands for a run still queued, "applying" for apply_queued.
Live == {"running", "applying"}
Terminal == {"completed", "failed", "applied"}
Kinds == {"create", "apply", "scheduled", "remap"}
Quiet == [asked |-> None, answer |-> None]
Poller(phase, status) == [phase |-> phase, status |-> status]
Off == Poller("off", None)
Asking == Poller("asking", None)

LiveRuns == {r \in Runs : pulls[r] \in Live}

Init ==
  /\ pulls = [r \in Runs |-> None] /\ scheduled = {}
  /\ runId = None /\ run = None /\ poll = Off
  /\ asks = [k \in Kinds |-> Quiet]
  /\ conflict = None /\ accepted = None /\ reopened = FALSE

----------------------------------------------------------------------------
(* The service. *)

\* A pull is refused while a run of the tenant is live, and otherwise
\* deletes the run before it.
Start(r) ==
  /\ LiveRuns = {} /\ pulls[r] = None
  /\ pulls' = [q \in Runs |->
       IF q = r THEN "running" ELSE IF q \in scheduled THEN pulls[q] ELSE None]

\* The worker takes a run on; one interrupted goes back to "completed".
NextStatus(status) ==
  CASE status = "running" -> {"completed", "failed"}
    [] status = "applying" -> {"applied", "completed"}
    [] OTHER -> {}

Work(r) ==
  /\ \E status \in NextStatus(pulls[r]) : pulls' = [pulls EXCEPT ![r] = status]
  /\ UNCHANGED <<scheduled, screen, asks, conflict, accepted, reopened>>

\* The nightly catch-up, and an administrator in another tab.
Elsewhere(r) ==
  /\ \/ Start(r) /\ scheduled' \in {scheduled, scheduled \cup {r}}
     \/ /\ pulls[r] = "completed" /\ LiveRuns = {}
        /\ pulls' = [pulls EXCEPT ![r] = "applying"]
        /\ UNCHANGED scheduled
  /\ UNCHANGED <<screen, asks, conflict, accepted, reopened>>

----------------------------------------------------------------------------
(* The poller: an effect of the run followed and of a counter. *)

\* Another run is followed: the poller of the one before is cancelled.
\* Naming the run already followed restarts nothing.
Follow(r) ==
  /\ runId' = r
  /\ run' = None
  /\ poll' = IF r = runId THEN poll ELSE IF r = None THEN Off ELSE Asking
  /\ reopened' = (r # None /\ r = runId)

\* The counter is bumped: the same run is polled from the start.
Repoll ==
  /\ poll' = IF runId = None THEN Off ELSE Asking
  /\ reopened' = FALSE

PollReads ==
  /\ poll.phase = "asking"
  /\ poll' = Poller("read", pulls[runId])
  /\ UNCHANGED <<service, runId, run, asks, conflict, accepted, reopened>>

\* A terminal status stops the poller.
PollSees ==
  /\ poll.phase = "read" /\ poll.status # None
  /\ run' = poll.status
  /\ poll' = IF poll.status \in Terminal THEN Off ELSE Poller("armed", None)
  /\ accepted' = None
  /\ UNCHANGED <<service, runId, asks, conflict, reopened>>

\* So does a run that is gone: it is followed no longer.
PollMisses ==
  /\ poll.phase = "read" /\ poll.status = None
  /\ runId' = None /\ run' = None /\ poll' = Off
  /\ accepted' = None
  /\ UNCHANGED <<service, asks, conflict, reopened>>

\* Any other error has it try again.
PollFails ==
  /\ poll.phase \in {"asking", "read"}
  /\ poll' = Poller("armed", None)
  /\ UNCHANGED <<service, runId, run, asks, conflict, accepted, reopened>>

PollAgain ==
  /\ poll.phase = "armed"
  /\ poll' = Asking
  /\ UNCHANGED <<service, runId, run, asks, conflict, accepted, reopened>>

----------------------------------------------------------------------------
(* The buttons: each asks, and leaves the answer to be handled later. *)

Ask(k, r, answer) ==
  /\ asks[k] = Quiet /\ Cardinality({j \in Kinds : asks[j] # Quiet}) < MaxAsks
  /\ asks' = [asks EXCEPT ![k] = [asked |-> r, answer |-> answer]]
  /\ UNCHANGED <<scheduled, runId, run, poll, accepted, reopened>>

Creating == asks["create"] # Quiet
RunIsLive == IF run # None THEN run \in Live ELSE Creating

CanApply == run \in {"completed", "applied"}
ApplyInFlight == asks["apply"] # Quiet \/ run = "applying"

\* RunProgress and DeltaSummary are shown for a polled run only.
AnotherOffered == run = "failed"
MappingOffered == run \in {"completed", "applied"}

\* The controls the screen renders enabled.
Offers(control) ==
  CASE control = "pull" -> ~RunIsLive /\ ~Creating
    [] control = "jump" -> conflict # None
    [] control = "another" -> AnotherOffered
    [] control = "apply" -> run # None /\ CanApply /\ ~ApplyInFlight
    [] control = "map" -> run # None /\ MappingOffered

StartRun(r) ==
  /\ Offers("pull")
  /\ \/ Start(r) /\ Ask("create", r, "ok")
     \/ LiveRuns # {} /\ r \in LiveRuns /\ Ask("create", r, "conflict") /\ UNCHANGED pulls
  /\ conflict' = None

CreateAnswer ==
  LET a == asks["create"] IN
  /\ a # Quiet
  /\ asks' = [asks EXCEPT !["create"] = Quiet]
  /\ \/ a.answer = "ok" /\ Follow(a.asked) /\ UNCHANGED conflict
     \/ /\ a.answer = "conflict" /\ conflict' = a.asked
        /\ UNCHANGED <<runId, run, poll, reopened>>
     \/ UNCHANGED <<runId, run, poll, conflict, reopened>>
  /\ UNCHANGED <<service, accepted>>

JumpToLiveRun ==
  /\ Offers("jump")
  /\ Follow(conflict)
  /\ conflict' = None
  /\ UNCHANGED <<service, asks, accepted>>

StartAnother ==
  /\ Offers("another")
  /\ Follow(None)
  /\ UNCHANGED <<service, asks, conflict, accepted>>

HandleApply ==
  /\ Offers("apply")
  /\ IF pulls[runId] \in {"completed", "applied"} /\ LiveRuns = {}
     THEN /\ pulls' = [pulls EXCEPT ![runId] = "applying"]
          /\ Ask("apply", runId, "ok")
     ELSE UNCHANGED pulls /\ Ask("apply", runId, "refused")
  /\ UNCHANGED conflict

\* Mutant: the poller that stopped on "completed" is not started again.
ApplyAnswerUnpolled ==
  /\ asks["apply"] # Quiet
  /\ asks' = [asks EXCEPT !["apply"] = Quiet]
  /\ accepted' = IF asks["apply"].answer = "ok" /\ asks["apply"].asked = runId
                 THEN runId ELSE accepted
  /\ UNCHANGED <<service, runId, run, poll, conflict, reopened>>

\* Accepted or refused, the run is polled again.
ApplyAnswer ==
  /\ asks["apply"] # Quiet
  /\ asks' = [asks EXCEPT !["apply"] = Quiet]
  /\ accepted' = IF asks["apply"].answer = "ok" /\ asks["apply"].asked = runId
                 THEN runId ELSE accepted
  /\ Repoll
  /\ UNCHANGED <<service, runId, run, conflict>>

OpenScheduledRun(r) ==
  /\ IF scheduled = {} THEN r = None ELSE r \in scheduled
  /\ Ask("scheduled", r, "ok")
  /\ UNCHANGED <<pulls, conflict>>

ScheduledAnswer ==
  LET a == asks["scheduled"] IN
  /\ a # Quiet
  /\ asks' = [asks EXCEPT !["scheduled"] = Quiet]
  /\ \/ a.asked # None /\ Follow(a.asked)
     \/ UNCHANGED <<runId, run, poll, reopened>>
  /\ UNCHANGED <<service, conflict, accepted>>

\* An unmapped page was mapped from the summary of a finished run.
HandleMappingSaved ==
  /\ Offers("map")
  /\ Ask("remap", runId, "ok")
  /\ UNCHANGED <<pulls, conflict>>

RemapAnswer ==
  /\ asks["remap"] # Quiet
  /\ asks' = [asks EXCEPT !["remap"] = Quiet]
  /\ Repoll \/ UNCHANGED <<poll, reopened>>
  /\ UNCHANGED <<service, runId, run, conflict, accepted>>

Next ==
  \/ \E r \in Runs : Work(r) \/ Elsewhere(r) \/ StartRun(r)
  \/ PollReads \/ PollSees \/ PollMisses \/ PollFails \/ PollAgain
  \/ CreateAnswer \/ JumpToLiveRun \/ StartAnother
  \/ HandleApply \/ ApplyAnswer
  \/ \E r \in Runs \cup {None} : OpenScheduledRun(r)
  \/ ScheduledAnswer \/ HandleMappingSaved \/ RemapAnswer

Spec == Init /\ [][Next]_desk

----------------------------------------------------------------------------
Polling == poll # Off

TypeOK ==
  /\ pulls \in [Runs -> Live \cup Terminal \cup {None}]
  /\ runId \in Runs \cup {None} /\ run \in Live \cup Terminal \cup {None}
  /\ runId = None => run = None /\ poll = Off
  /\ conflict \in Runs \cup {None}
  /\ \A k \in Kinds : asks[k].asked \in Runs \cup {None}

(* "The run status is the only way this screen learns when it finishes":     *)
(* the poller runs whenever the run followed was last seen live, or was not  *)
(* seen yet, and from the acceptance of an Apply until its run is polled     *)
(* again -- through conflicts, other tabs, deleted runs and late answers, as *)
(* long as no answer named the very run already followed.                    *)
StartedWorkIsFollowed ==
  runId # None /\ ~reopened =>
    /\ run \in Live \cup {None} => Polling
    /\ accepted = runId => Polling

=============================================================================
