------------------------------ MODULE ApiKeys ------------------------------
(***************************************************************************)
(* The keys of the partner API: identity-service keeps them in             *)
(* iam.api_clients, where administrators create, edit, rotate and revoke   *)
(* them; api-gateway looks the key of every request up and limits its rate.*)
(*                                                                         *)
(* A rotation reads the row, then revokes it and inserts its successor in  *)
(* the same transaction, READ COMMITTED: what is committed between the two *)
(* statements is not in what it read.  Every other change is one step.     *)
(*                                                                         *)
(* A grant stands for scopes and branch bindings together.  Left out: the  *)
(* raw key and its hash (a key is its row), names, expires_at, the tenant   *)
(* and the administrator's own capability.                                 *)
(***************************************************************************)
EXTENDS FixedWindow

CONSTANTS
  Keys,              \* ids of iam.api_clients
  Admins,            \* rotations in flight
  Grants,            \* sets of scopes
  Limits,            \* rate_limit_per_min of a request's body
  Window, Crowd,     \* FixedWindow's
  None

Scopes == UNION Grants
Row == [grant: Grants, limit: Limits, active: BOOLEAN, first: Keys]
Rotation == [key: Keys, was: Row]

ASSUME KeysAssumption ==
  /\ Limits \subseteq Nat \ {0} /\ Limits # {}
  /\ {Window, Crowd} \subseteq Nat \ {0}
  /\ {} \notin Grants
  /\ None \notin Row \cup Rotation

VARIABLES
  row,       \* iam.api_clients; first: history, the key of creation
  change,    \* an administrator's rotation between its read and its write
  windows,   \* the gateway's map of windows
  word,      \* history: the last word on a client: its grant, {} if revoked
  crossed,   \* history: clients with a change inside somebody's rotation
  recent     \* history: the requests of a key let in during the last ticks

rows == <<row, change, word, crossed>>
gateway == <<windows, recent>>
vars == <<rows, gateway>>

Live(k) == row[k] # None /\ row[k].active
Rotating(k) == \E a \in Admins : change[a] # None /\ change[a].key = k

Init ==
  /\ row = [k \in Keys |-> None]
  /\ change = [a \in Admins |-> None]
  /\ windows = [k \in {} |-> None]
  /\ word = [k \in Keys |-> None]
  /\ crossed = {}
  /\ recent = [k \in Keys |-> [i \in 1..Window |-> 0]]

----------------------------------------------------------------------------
(* identity-service.                                                       *)

\* createApiClient.
CreateApiClient(k, g, n) ==
  /\ row[k] = None
  /\ row' = [row EXCEPT ![k] =
       [grant |-> g, limit |-> n, active |-> TRUE, first |-> k]]
  /\ word' = [word EXCEPT ![k] = g]
  /\ UNCHANGED <<change, crossed, gateway>>

\* updateApiClient: what the body says, of a live row or of a revoked one.
UpdateApiClient(k, g, n) ==
  /\ row[k] # None
  /\ row' = [row EXCEPT ![k].grant = g, ![k].limit = n]
  /\ word' = IF Live(k) THEN [word EXCEPT ![row[k].first] = g] ELSE word
  /\ crossed' = IF Rotating(k) THEN crossed \cup {row[k].first} ELSE crossed
  /\ UNCHANGED <<change, gateway>>

\* revokeApiClient, of a revoked row too.
RevokeApiClient(k) ==
  /\ row[k] # None
  /\ row' = [row EXCEPT ![k].active = FALSE]
  /\ word' = IF Live(k) THEN [word EXCEPT ![row[k].first] = {}] ELSE word
  /\ crossed' = IF Rotating(k) THEN crossed \cup {row[k].first} ELSE crossed
  /\ UNCHANGED <<change, gateway>>

\* rotateApiClient reads an active row.
Rotatable(k) == Live(k)

RotateRead(a, k) ==
  /\ change[a] = None
  /\ Rotatable(k)
  /\ change' = [change EXCEPT ![a] = [key |-> k, was |-> row[k]]]
  /\ crossed' = IF Rotating(k) THEN crossed \cup {row[k].first} ELSE crossed
  /\ UNCHANGED <<row, word, gateway>>

\* Mutant: the successor gets the limit, and every scope.
SuccessorOfEveryScope(was) ==
  [was EXCEPT !.grant = CHOOSE g \in Grants : \A h \in Grants : h \subseteq g]

\* The successor carries what was read.
Successor(was) == was

\* It revokes the row, whatever became of it, and inserts the successor.
RotateWrite(a, new) ==
  /\ change[a] # None
  /\ row[new] = None
  /\ LET c == change[a] IN
     row' = [row EXCEPT ![c.key].active = FALSE, ![new] = Successor(c.was)]
  /\ change' = [change EXCEPT ![a] = None]
  /\ UNCHANGED <<word, crossed, gateway>>

\* The transaction rolls back.
RotateFails(a) ==
  /\ change[a] # None
  /\ change' = [change EXCEPT ![a] = None]
  /\ UNCHANGED <<row, word, crossed, gateway>>

----------------------------------------------------------------------------
(* api-gateway.                                                            *)

\* publicApiKeyAuth looks the key up, bindings and all, in one statement, and
\* judges the answer; a request with the scope it needs counts.
PublicApiKeyAuth(k, scope) ==
  /\ Live(k)
  /\ scope \in row[k].grant
  /\ windows' = Hit(windows, k, Window, Crowd, row[k].limit)
  /\ recent' = IF Over(windows', k, row[k].limit) THEN recent
               ELSE [recent EXCEPT ![k] = [i \in 1..Window |-> @[i] + 1]]
  /\ UNCHANGED rows

\* The gateway restarts.
Restart ==
  /\ windows' = [k \in {} |-> None]
  /\ recent' = [k \in Keys |-> [i \in 1..Window |-> 0]]
  /\ UNCHANGED rows

\* Time goes on.
Tick ==
  /\ windows' = Older(windows)
  /\ recent' = [k \in Keys |->
       [i \in 1..Window |-> IF i = 1 THEN 0 ELSE recent[k][i - 1]]]
  /\ UNCHANGED rows

Next ==
  \/ \E k \in Keys, g \in Grants, n \in Limits :
       CreateApiClient(k, g, n) \/ UpdateApiClient(k, g, n)
  \/ \E k \in Keys : RevokeApiClient(k)
  \/ \E a \in Admins, k \in Keys : RotateRead(a, k) \/ RotateWrite(a, k)
  \/ \E a \in Admins : RotateFails(a)
  \/ \E k \in Keys, scope \in Scopes : PublicApiKeyAuth(k, scope)
  \/ Restart
  \/ Tick

Spec == Init /\ [][Next]_vars

----------------------------------------------------------------------------
(* Properties.                                                             *)

(* A successor belongs to a client whose first key exists; a rotation holds *)
(* a row that was active when it read it.                                   *)
TypeOK ==
  /\ row \in [Keys -> Row \cup {None}]
  /\ \A k \in Keys : row[k] # None => row[row[k].first] # None
  /\ change \in [Admins -> Rotation \cup {None}]
  /\ \A a \in Admins : change[a] # None =>
       change[a].was.active /\ row[change[a].key] # None
  /\ \A k \in DOMAIN windows : windows[k].left \in 0..Window
  /\ word \in [Keys -> Grants \cup {None, {}}]

(* A client whose rotations nothing overlapped has one live key at most,    *)
(* with the scopes the last edit gave it, and none after a revocation,      *)
(* however often it was rotated: a request let in has the scope it needs.   *)
TheLastWordCounts ==
  \A k \in Keys : Live(k) /\ row[k].first \notin crossed =>
    /\ row[k].grant = word[row[k].first]
    /\ \A j \in Keys \ {k} : ~(Live(j) /\ row[j].first = row[k].first)

(* Over no stretch as long as a window does a key get more than two budgets *)
(* through one gateway process, whatever sweeps of the map, edits of its    *)
(* limit and rotations of other keys happen meanwhile.                      *)
BurstsAreBounded ==
  \A k \in Keys : \E m, n \in Limits : recent[k][Window] <= m + n

=============================================================================
