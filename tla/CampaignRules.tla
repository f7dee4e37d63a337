----------------------------- MODULE CampaignRules -----------------------------
(***************************************************************************)
(* Campaign Types & Rules of lookup-admin: the ordered rules that type a   *)
(* lead, first match wins, and the types with their departments.  Every    *)
(* change goes through one function: one at a time, followed by a reload   *)
(* of both lists.  The service belongs to another repository: it takes a   *)
(* new order of the whole live list only.  Left out: patterns, labels, the *)
(* list of departments, the form that adds a type (the types are the       *)
(* constant CampaignTypes), and the box that tests the rules.              *)
(***************************************************************************)
EXTENDS SequencesExt

CONSTANTS
  Rules, CampaignTypes, TypeDepartments,
  Default,    \* the type that cannot be deactivated
  MaxForeign, \* bound on the changes of other administrators
  None

VARIABLES
  rulebook,  \* the service: its rules in order, and its types
  onScreen,  \* the same as last loaded
  mounted,   \* the first load is over
  acting,    \* the change on its way, and how far: see Acting
  reread,    \* the lists a load has read, or None
  unsure,    \* history: a change made since the lists were read came from
             \* elsewhere or was answered by an error, or a load failed
  foreign    \* how many changes of others

ruleScreen == <<rulebook, onScreen, mounted, acting, reread, unsure, foreign>>

Rule == [id: Rules, type: CampaignTypes, active: BOOLEAN]
Type == [active: BOOLEAN, department: TypeDepartments \cup {None}]
Ids(rules) == [i \in DOMAIN rules |-> rules[i].id]
\* What may be asked of the service.
Change ==
  [kind: {"order"}, ids: Seq(Rules)] \cup [kind: {"rule"}, rule: Rule]
    \cup [kind: {"delete"}, id: Rules]
    \cup [kind: {"create"}, type: CampaignTypes, before: Rules \cup {None}]
    \cup [kind: {"type"}, id: CampaignTypes, to: Type]
\* A change is written, then served, then the lists are loaded again.
Acting(step, change) == [step |-> step, change |-> change]
Unlisted == [rules |-> <<>>, types |-> None]

Init ==
  /\ \E r \in Rule, types \in [CampaignTypes -> [active: {TRUE}, department: TypeDepartments]] :
       rulebook \in {[rules |-> rs, types |-> types] : rs \in {<<>>, <<r>>}}
  /\ onScreen = Unlisted /\ mounted = FALSE
  /\ acting = Acting("reload", None) /\ reread = None
  /\ unsure = FALSE /\ foreign = 0

----------------------------------------------------------------------------
(* What the page offers: a change of one rule or type, as the screen has   *)
(* it, when none is on its way.                                            *)

Swapped(rules, i) == [rules EXCEPT ![i] = rules[i + 1], ![i + 1] = rules[i]]

\* Up or down by one: the ids of the whole list, two of them exchanged.
Moves == {[kind |-> "order", ids |-> Swapped(Ids(onScreen.rules), i)] :
            i \in 1..Len(onScreen.rules) - 1}

\* Active types, and the one the rule has.
RuleTypes(r) == {t \in CampaignTypes : onScreen.types[t].active \/ t = r.type}

RuleEdits ==
  UNION {LET r == onScreen.rules[i] IN
           {[kind |-> "rule", rule |-> [r EXCEPT !.type = t]] : t \in RuleTypes(r)}
             \cup {[kind |-> "rule", rule |-> [r EXCEPT !.active = ~@]], [kind |-> "delete", id |-> r.id]}
         : i \in DOMAIN onScreen.rules}

\* At the end, or where the rule on top of the screen is.
NewRules ==
  {[kind |-> "create", type |-> t, before |-> b] :
     t \in {u \in CampaignTypes : onScreen.types[u].active},
     b \in {None} \cup {onScreen.rules[i].id : i \in {1} \cap DOMAIN onScreen.rules}}

TypeEdits ==
  {[kind |-> "type", id |-> t, to |-> [onScreen.types[t] EXCEPT !.department = d]] :
     t \in CampaignTypes, d \in TypeDepartments \cup {None}}
    \cup {[kind |-> "type", id |-> t, to |-> [onScreen.types[t] EXCEPT !.active = ~@]] :
            t \in CampaignTypes \ {Default}}

Changes ==
  IF onScreen.types = None THEN {}
  ELSE Moves \cup RuleEdits \cup NewRules \cup TypeEdits

Act(c) ==
  /\ mounted /\ acting = None
  /\ acting' = Acting("write", c)
  /\ UNCHANGED <<rulebook, onScreen, mounted, reread, unsure, foreign>>

----------------------------------------------------------------------------
(* The service. *)

Listed(id) == \E i \in DOMAIN rulebook.rules : rulebook.rules[i].id = id
RuleOf(id) == CHOOSE r \in ToSet(rulebook.rules) : r.id = id

\* A change of the whole order is refused unless it names every live rule.
Reordered(c) ==
  /\ IsInjective(c.ids) /\ ToSet(c.ids) = ToSet(Ids(rulebook.rules))
  /\ rulebook' = [rulebook EXCEPT !.rules = [i \in DOMAIN c.ids |-> RuleOf(c.ids[i])]]

Rewritten(c) ==
  /\ Listed(c.rule.id)
  /\ rulebook' = [rulebook EXCEPT !.rules =
                    [i \in DOMAIN @ |-> IF @[i].id = c.rule.id THEN c.rule ELSE @[i]]]

Deleted(c) ==
  \E i \in DOMAIN rulebook.rules :
    /\ rulebook.rules[i].id = c.id
    /\ rulebook' = [rulebook EXCEPT !.rules = RemoveAt(@, i)]

Created(c) ==
  \E id \in {q \in Rules : ~Listed(q)} :
    LET r == [id |-> id, type |-> c.type, active |-> TRUE]
        place == {i \in DOMAIN rulebook.rules : rulebook.rules[i].id = c.before}
    IN  rulebook' = [rulebook EXCEPT !.rules =
          IF place = {} THEN Append(@, r) ELSE InsertAt(@, CHOOSE i \in place : TRUE, r)]

Retyped(c) == rulebook' = [rulebook EXCEPT !.types[c.id] = c.to]

Applied(c) ==
  \/ c.kind = "order" /\ Reordered(c)
  \/ c.kind = "rule" /\ Rewritten(c)
  \/ c.kind = "delete" /\ Deleted(c)
  \/ c.kind = "create" /\ Created(c)
  \/ c.kind = "type" /\ Retyped(c)

Step(step) == acting # None /\ acting.step = step

Serve ==
  /\ Step("write")
  /\ Applied(acting.change)
  /\ acting' = [acting EXCEPT !.step = "served"]
  /\ UNCHANGED <<onScreen, mounted, reread, unsure, foreign>>

\* Another administrator's change.
Foreign ==
  /\ foreign < MaxForeign /\ foreign' = foreign + 1
  /\ \/ \E i \in DOMAIN rulebook.rules : Deleted([id |-> rulebook.rules[i].id])
     \/ \E t \in CampaignTypes : Created([type |-> t, before |-> None])
     \/ \E i \in 1..Len(rulebook.rules) - 1 : Reordered([ids |-> Swapped(Ids(rulebook.rules), i)])
  /\ unsure' = TRUE
  /\ UNCHANGED <<onScreen, mounted, acting, reread>>

----------------------------------------------------------------------------
(* act() and load(). *)

\* Mutant: a change that went through is not followed by a load.
AnswerOnly ==
  /\ Step("served")
  /\ acting' = None
  /\ UNCHANGED <<rulebook, onScreen, mounted, reread, unsure, foreign>>

Answer ==
  /\ Step("served")
  /\ acting' = Acting("reload", None)
  /\ UNCHANGED <<rulebook, onScreen, mounted, reread, unsure, foreign>>

\* Refused, or the answer is lost: nothing is loaded again.
NoAnswer ==
  /\ Step("write") \/ Step("served")
  /\ acting' = None
  /\ unsure' = (unsure \/ Step("served"))
  /\ UNCHANGED <<rulebook, onScreen, mounted, reread, foreign>>

\* The service reads the lists, in one step here: what comes between two of
\* them counts as coming after.  The page shows them later.
ReadLists ==
  /\ Step("reload") /\ reread = None
  /\ reread' = rulebook /\ unsure' = FALSE
  /\ UNCHANGED <<rulebook, onScreen, mounted, acting, foreign>>

Load ==
  /\ Step("reload") /\ reread # None
  /\ onScreen' = reread /\ reread' = None
  /\ mounted' = TRUE /\ acting' = None
  /\ UNCHANGED <<rulebook, unsure, foreign>>

\* The lists stay as they were, or empty, with everything on offer.
LoadFails ==
  /\ Step("reload")
  /\ reread' = None /\ unsure' = TRUE
  /\ mounted' = TRUE /\ acting' = None
  /\ UNCHANGED <<rulebook, onScreen, foreign>>

Next ==
  \/ \E c \in Changes : Act(c)
  \/ Serve \/ Answer \/ NoAnswer
  \/ ReadLists \/ Load \/ LoadFails
  \/ Foreign

Spec == Init /\ [][Next]_ruleScreen

----------------------------------------------------------------------------
TypeOK ==
  /\ rulebook.rules \in SeqOf(Rule, Cardinality(Rules)) /\ IsInjective(Ids(rulebook.rules))
  /\ rulebook.types \in [CampaignTypes -> Type]
  /\ acting \in [step: {"write", "served", "reload"}, change: Change \cup {None}] \cup {None}
  /\ Step("write") \/ Step("served") => mounted /\ acting.change \in Change
  /\ foreign \in 0..MaxForeign

(* "One in flight at a time, the error shown inline, and a reload so the     *)
(* screen is always the server's truth": between two changes the screen has  *)
(* every rule in the service's order and every type as the service has it,   *)
(* unless a change was refused an answer, a load failed, or others changed   *)
(* something since -- after an error the page does not load again.           *)
ScreenIsTheServersTruth ==
  mounted /\ acting = None /\ ~unsure => onScreen = rulebook

=============================================================================
