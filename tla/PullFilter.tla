------------------------------ MODULE PullFilter ------------------------------
(***************************************************************************)
(* The filters of a lead pull in lookup-admin: pages, campaigns observed   *)
(* on them, the mode and the window.  The campaigns on offer are asked for *)
(* anew with every change of the pages; the answer narrows the campaigns   *)
(* chosen.  The form is locked while a run is live.                        *)
(***************************************************************************)
EXTENDS Naturals, FiniteSets

CONSTANTS
  PullPages,
  Observed,    \* the campaigns observed on each page
  MaxQueries,  \* bound on the queries on their way
  None

VARIABLES
  picked,      \* the pages chosen; none means every page
  offered,     \* the campaigns on offer
  chosen,      \* the campaigns chosen
  queries,     \* the queries on their way: of which pages, and the latest or not
  unlisted,    \* the last query failed
  mode,
  window,      \* the dates given: "none", "since", "both" or "empty"
  locked,      \* a run is being started, or is live
  asked        \* history: the request sent last, and what it was sent amid

filter == <<picked, offered, chosen, queries, unlisted, mode, window, locked,
            asked>>

AllCampaigns == UNION {Observed[p] : p \in PullPages}
CampaignsOf(pages) == IF pages = {} THEN AllCampaigns ELSE UNION {Observed[p] : p \in pages}

Query(pages) ==
  queries' = {[q EXCEPT !.live = FALSE] : q \in queries} \cup {[of |-> pages, live |-> TRUE]}

\* Mounted with nothing chosen: every campaign is asked for.
Init ==
  /\ picked = {} /\ offered = {} /\ chosen = {}
  /\ queries = {[of |-> {}, live |-> TRUE]} /\ unlisted = FALSE
  /\ mode = "pages" /\ window = "none" /\ locked = FALSE /\ asked = None

SetPages(pages) ==
  /\ ~locked /\ pages # picked /\ Cardinality(queries) < MaxQueries
  /\ picked' = pages
  /\ Query(pages) /\ unlisted' = FALSE
  /\ UNCHANGED <<offered, chosen, mode, window, locked, asked>>

SetCampaigns(campaigns) ==
  /\ ~locked /\ campaigns # chosen
  /\ campaigns \ chosen \subseteq offered
  /\ chosen' = campaigns
  /\ UNCHANGED <<picked, offered, queries, unlisted, mode, window, locked,
                 asked>>

SetMode(m) ==
  /\ ~locked
  /\ mode' = m
  /\ UNCHANGED <<picked, offered, chosen, queries, unlisted, window, locked,
                 asked>>

SetWindow(w) ==
  /\ ~locked
  /\ window' = w
  /\ UNCHANGED <<picked, offered, chosen, queries, unlisted, mode, locked,
                 asked>>

\* Mutant: the campaigns of pages left since are offered.
CampaignsAnswerLate(q) ==
  /\ q \in queries
  /\ queries' = queries \ {q}
  /\ offered' = CampaignsOf(q.of) /\ chosen' = chosen \cap CampaignsOf(q.of)
  /\ UNCHANGED <<picked, unlisted, mode, window, locked, asked>>

\* "Drop any selected campaign that fell out of scope".
CampaignsAnswer(q) ==
  /\ q \in queries
  /\ queries' = queries \ {q}
  /\ IF q.live THEN offered' = CampaignsOf(q.of) /\ chosen' = chosen \cap CampaignsOf(q.of)
     ELSE UNCHANGED <<offered, chosen>>
  /\ UNCHANGED <<picked, unlisted, mode, window, locked, asked>>

\* Nothing is on offer, and what was chosen stays chosen.
CampaignsFail(q) ==
  /\ q \in queries
  /\ queries' = queries \ {q}
  /\ IF q.live THEN offered' = {} /\ unlisted' = TRUE ELSE UNCHANGED <<offered, unlisted>>
  /\ UNCHANGED <<picked, chosen, mode, window, locked, asked>>

Settled == ~unlisted /\ \A q \in queries : ~q.live

\* A start is required, and an end after it; campaign mode needs a campaign
\* (and no more than twenty).
HandleSubmit ==
  /\ ~locked
  /\ window \in {"since", "both"}
  /\ mode = "campaign" => chosen # {}
  /\ asked' = [pages |-> picked, campaigns |-> chosen, settled |-> Settled]
  /\ locked' = TRUE
  /\ UNCHANGED <<picked, offered, chosen, queries, unlisted, mode, window>>

\* The run is over, or was never started.
Unlock ==
  /\ locked
  /\ locked' = FALSE /\ asked' = None
  /\ UNCHANGED <<picked, offered, chosen, queries, unlisted, mode, window>>

Next ==
  \/ \E pages \in SUBSET PullPages : SetPages(pages)
  \/ \E campaigns \in SUBSET AllCampaigns : SetCampaigns(campaigns)
  \/ \E m \in {"pages", "campaign"} : SetMode(m)
  \/ \E w \in {"none", "since", "both", "empty"} : SetWindow(w)
  \/ \E q \in queries : CampaignsAnswer(q) \/ CampaignsFail(q)
  \/ HandleSubmit \/ Unlock

Spec == Init /\ [][Next]_filter

----------------------------------------------------------------------------
TypeOK ==
  /\ picked \subseteq PullPages /\ offered \subseteq AllCampaigns /\ chosen \subseteq AllCampaigns
  /\ Cardinality({q \in queries : q.live}) <= 1

(* A pull asked for once the campaigns of its pages had come in names only   *)
(* campaigns observed on those pages, however often the pages were changed   *)
(* before and whatever order the answers came in.  A pull asked for earlier, *)
(* or after that answer failed, may name others.                             *)
PullsStayInScope ==
  asked # None /\ asked.settled => asked.campaigns \subseteq CampaignsOf(asked.pages)

=============================================================================
