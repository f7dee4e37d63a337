---------------------------- MODULE ApiKeysProofs ----------------------------
(***************************************************************************)
(* Theorems of ApiKeys, for any number of keys, grants and rotations in    *)
(* flight, any limits and any window.                                      *)
(***************************************************************************)
EXTENDS ApiKeys, TLAPS

\* The rows and the rotations are what they say.
Typed ==
  /\ row \in [Keys -> Row \cup {None}]
  /\ change \in [Admins -> Rotation \cup {None}]
  /\ word \in [Keys -> Grants \cup {None, {}}]

\* A client's first key is a row.
FirstsExist == \A k \in Keys : row[k] # None => row[row[k].first] # None

\* Nobody has touched the row of a rotation that nothing crossed.
RotationsAreFresh ==
  \A a \in Admins : change[a] # None =>
    /\ row[change[a].key] # None
    /\ change[a].was.active
    /\ change[a].was.first = row[change[a].key].first
    /\ change[a].was.first \in crossed \/ row[change[a].key] = change[a].was

\* Two rotations of one key cross each other.
RotationsCross ==
  \A a, b \in Admins :
    a # b /\ change[a] # None /\ change[b] # None /\ change[a].key = change[b].key
      => change[a].was.first \in crossed

IInv == /\ Typed /\ FirstsExist /\ RotationsAreFresh /\ RotationsCross
        /\ TheLastWordCounts

(* A row and a rotation have their fields.                                  *)
LEMMA Fields ==
  /\ \A r \in Row : /\ r # None /\ r.grant \in Grants /\ r.limit \in Limits
                    /\ r.active \in BOOLEAN /\ r.first \in Keys
  /\ \A c \in Rotation : c # None /\ c.key \in Keys /\ c.was \in Row
BY KeysAssumption DEF Row, Rotation

(* There are no rows and no rotations.                                      *)
LEMMA InitIInv == Init => IInv
BY DEF Init, IInv, Typed, FirstsExist, RotationsAreFresh, RotationsCross,
       TheLastWordCounts, Live

(* A new key is the first of its client: nobody else's first, since those   *)
(* are rows.                                                                *)
LEMMA CreateKeepsIInv ==
  ASSUME IInv, NEW k \in Keys, NEW g \in Grants, NEW n \in Limits,
         CreateApiClient(k, g, n)
  PROVE  IInv'
<1> DEFINE new == [grant |-> g, limit |-> n, active |-> TRUE, first |-> k]
<1>1. /\ row[k] = None /\ row' = [row EXCEPT ![k] = new]
      /\ word' = [word EXCEPT ![k] = g]
      /\ change' = change /\ crossed' = crossed
  BY DEF CreateApiClient
<1>2. new \in Row /\ new.first = k /\ new.grant = g
  BY DEF Row
<1> HIDE DEF new
<1>3. new # None
  BY <1>2, Fields
<1>4. Typed'
  BY <1>1, <1>2 DEF IInv, Typed
<1>5. /\ row'[k] = new
      /\ \A j \in Keys \ {k} : row'[j] = row[j] /\ word'[j] = word[j]
      /\ word'[k] = g
  BY <1>1 DEF IInv, Typed
<1>6. \A j \in Keys : row[j] # None => row[j].first \in Keys \ {k}
  <2> SUFFICES ASSUME NEW j \in Keys, row[j] # None
               PROVE  row[j].first \in Keys \ {k}
    OBVIOUS
  <2>1. row[j] \in Row
    BY DEF IInv, Typed
  <2> QED
    BY <2>1, <1>1, Fields DEF IInv, FirstsExist
<1>7. FirstsExist'
  BY <1>2, <1>3, <1>5, <1>6 DEF IInv, FirstsExist
<1>8. RotationsAreFresh'
  <2> SUFFICES ASSUME NEW a \in Admins, change[a] # None
               PROVE  /\ row'[change[a].key] # None
                      /\ change[a].was.active
                      /\ change[a].was.first = row'[change[a].key].first
                      /\ change[a].was.first \in crossed \/ row'[change[a].key] = change[a].was
    BY <1>1 DEF RotationsAreFresh
  <2>1. change[a].key \in Keys \ {k}
    <3>1. change[a] \in Rotation
      BY DEF IInv, Typed
    <3> QED
      BY <3>1, <1>1, Fields DEF IInv, RotationsAreFresh
  <2> QED
    BY <2>1, <1>5 DEF IInv, RotationsAreFresh
<1>9. RotationsCross'
  BY <1>1 DEF IInv, RotationsCross
<1>10. TheLastWordCounts'
  <2> SUFFICES ASSUME NEW j \in Keys, row'[j] # None, row'[j].active,
                      row'[j].first \notin crossed
               PROVE  /\ row'[j].grant = word'[row'[j].first]
                      /\ \A i \in Keys \ {j} :
                           ~(row'[i] # None /\ row'[i].active /\ row'[i].first = row'[j].first)
    BY <1>1 DEF TheLastWordCounts, Live
  <2>1. CASE j = k
    BY <2>1, <1>2, <1>5, <1>6
  <2>2. CASE j # k
    <3>1. row'[j] = row[j] /\ row[j].first \in Keys \ {k}
      BY <2>2, <1>5, <1>6
    <3> QED
      BY <2>2, <3>1, <1>2, <1>5 DEF IInv, TheLastWordCounts, Live
  <2> QED
    BY <2>1, <2>2
<1> QED
  BY <1>4, <1>7, <1>8, <1>9, <1>10 DEF IInv

(* An edit or a revocation of a row: it crosses the rotations of the row,   *)
(* and it is the last word if the row is live.                              *)
LEMMA ChangeKeepsIInv ==
  ASSUME IInv, NEW k \in Keys, row[k] # None, NEW new \in Row,
         new.first = row[k].first, new.active => row[k].active,
         NEW said \in Grants \cup {{}},
         new.active => new.grant = said,
         row' = [row EXCEPT ![k] = new],
         word' = IF Live(k) THEN [word EXCEPT ![row[k].first] = said] ELSE word,
         crossed' = IF Rotating(k) THEN crossed \cup {row[k].first} ELSE crossed,
         change' = change
  PROVE  IInv'
<1>1. /\ row[k] \in Row /\ row[k].first \in Keys
      /\ new # None
  BY Fields DEF IInv, Typed
<1>2. Typed'
  BY <1>1 DEF IInv, Typed
<1>3. row'[k] = new /\ \A j \in Keys \ {k} : row'[j] = row[j]
  BY DEF IInv, Typed
<1>4. \A j \in Keys : /\ row'[j] # None <=> row[j] # None
                      /\ row[j] # None => row'[j].first = row[j].first
  BY <1>1, <1>3
<1>5. \A j \in Keys : row[j] # None => row[j].first \in Keys
  BY Fields DEF IInv, Typed
<1>6. FirstsExist'
  BY <1>4, <1>5 DEF IInv, FirstsExist
<1>7. crossed \subseteq crossed'
  OBVIOUS
<1>8. RotationsAreFresh'
  <2> SUFFICES ASSUME NEW a \in Admins, change[a] # None
               PROVE  /\ row'[change[a].key] # None
                      /\ change[a].was.active
                      /\ change[a].was.first = row'[change[a].key].first
                      /\ change[a].was.first \in crossed' \/ row'[change[a].key] = change[a].was
    BY DEF RotationsAreFresh
  <2>1. change[a].key \in Keys
    BY Fields DEF IInv, Typed
  <2>2. /\ row[change[a].key] # None /\ change[a].was.active
        /\ change[a].was.first = row[change[a].key].first
        /\ change[a].was.first \in crossed \/ row[change[a].key] = change[a].was
    BY DEF IInv, RotationsAreFresh
  <2>3. CASE change[a].key = k
    <3>1. row[k].first \in crossed'
      BY <2>3 DEF Rotating
    <3> QED
      BY <2>2, <2>3, <3>1, <1>1, <1>3
  <2>4. CASE change[a].key # k
    BY <2>1, <2>2, <2>4, <1>3, <1>7
  <2> QED
    BY <2>3, <2>4
<1>9. RotationsCross'
  BY <1>7 DEF IInv, RotationsCross
<1>10. TheLastWordCounts'
  <2> SUFFICES ASSUME NEW j \in Keys, row'[j] # None, row'[j].active,
                      row'[j].first \notin crossed'
               PROVE  /\ row'[j].grant = word'[row'[j].first]
                      /\ \A i \in Keys \ {j} :
                           ~(row'[i] # None /\ row'[i].active /\ row'[i].first = row'[j].first)
    BY DEF TheLastWordCounts, Live
  <2>1. /\ row[j] # None /\ row[j].active /\ row'[j].first = row[j].first
        /\ row[j].first \notin crossed
    BY <1>3, <1>4, <1>7
  <2>2. /\ row[j].grant = word[row[j].first]
        /\ \A i \in Keys \ {j} : ~(row[i] # None /\ row[i].active /\ row[i].first = row[j].first)
    BY <2>1 DEF IInv, TheLastWordCounts, Live
  <2>3. \A i \in Keys \ {j} :
          ~(row'[i] # None /\ row'[i].active /\ row'[i].first = row'[j].first)
    BY <2>1, <2>2, <1>3, <1>4
  <2>4. row'[j].grant = word'[row'[j].first]
    <3>1. CASE j = k
      BY <2>1, <3>1, <1>1, <1>3 DEF Live, IInv, Typed
    <3>2. CASE j # k /\ ~Live(k)
      BY <2>1, <2>2, <3>2, <1>3
    <3>3. CASE j # k /\ Live(k)
      <4>1. row[k].first # row[j].first
        BY <2>2, <3>3 DEF Live
      <4> QED
        BY <2>1, <2>2, <3>3, <4>1, <1>1, <1>3, <1>5 DEF IInv, Typed
    <3> QED
      BY <3>1, <3>2, <3>3
  <2> QED
    BY <2>3, <2>4
<1> QED
  BY <1>2, <1>6, <1>8, <1>9, <1>10 DEF IInv

(* A rotation reads a live row; if another has read it, they cross.         *)
LEMMA RotateReadKeepsIInv ==
  ASSUME IInv, NEW a \in Admins, NEW k \in Keys, RotateRead(a, k)
  PROVE  IInv'
<1> DEFINE new == [key |-> k, was |-> row[k]]
<1>1. /\ change[a] = None /\ row[k] # None /\ row[k].active
      /\ change' = [change EXCEPT ![a] = new]
      /\ crossed' = IF Rotating(k) THEN crossed \cup {row[k].first} ELSE crossed
      /\ row' = row /\ word' = word
  BY DEF RotateRead, Rotatable, Live
<1>2. new \in Rotation /\ new.key = k /\ new.was = row[k]
  BY <1>1 DEF IInv, Typed, Rotation
<1> HIDE DEF new
<1>3. Typed'
  BY <1>1, <1>2 DEF IInv, Typed
<1>4. /\ change'[a] = new /\ new # None
      /\ \A b \in Admins \ {a} : change'[b] = change[b]
  BY <1>1, <1>2, Fields DEF IInv, Typed
<1>5. crossed \subseteq crossed'
  BY <1>1
<1>6. RotationsAreFresh'
  BY <1>1, <1>2, <1>4, <1>5 DEF IInv, RotationsAreFresh
<1>7. RotationsCross'
  <2> SUFFICES ASSUME NEW b \in Admins, NEW c \in Admins, b # c,
                      change'[b] # None, change'[c] # None,
                      change'[b].key = change'[c].key
               PROVE  change'[b].was.first \in crossed'
    BY DEF RotationsCross
  <2>1. CASE b # a /\ c # a
    BY <2>1, <1>4, <1>5 DEF IInv, RotationsCross
  <2>2. CASE b = a \/ c = a
    <3>1. Rotating(k) /\ row[k].first \in crossed'
      BY <2>2, <1>1, <1>2, <1>4 DEF Rotating
    <3>2. change'[b].was.first = row[k].first
      BY <2>2, <1>2, <1>4 DEF IInv, RotationsAreFresh
    <3> QED
      BY <3>1, <3>2
  <2> QED
    BY <2>1, <2>2
<1>8. TheLastWordCounts'
  BY <1>1, <1>5 DEF IInv, TheLastWordCounts, Live
<1> QED
  BY <1>1, <1>3, <1>6, <1>7, <1>8 DEF IInv, FirstsExist

(* The successor takes the place of the row that was read: if nothing has   *)
(* crossed the rotation it was live, so that it was the only live one.      *)
LEMMA RotateWriteKeepsIInv ==
  ASSUME IInv, NEW a \in Admins, NEW new \in Keys, RotateWrite(a, new)
  PROVE  IInv'
<1> DEFINE k == change[a].key
           was == change[a].was
           off == [row[k] EXCEPT !.active = FALSE]
<1>1. /\ change[a] # None /\ row[new] = None
      /\ row' = [row EXCEPT ![k].active = FALSE, ![new] = was]
      /\ change' = [change EXCEPT ![a] = None]
      /\ word' = word /\ crossed' = crossed
  BY DEF RotateWrite, Successor
<1>2. /\ k \in Keys /\ was \in Row /\ was # None
      /\ row[k] # None /\ row[k] \in Row /\ was.active
      /\ was.first = row[k].first
      /\ was.first \in crossed \/ row[k] = was
  BY <1>1, Fields DEF IInv, Typed, RotationsAreFresh
<1>3. /\ off \in Row /\ off # None /\ ~off.active
      /\ off.first = row[k].first
  <2>1. off \in Row /\ ~off.active /\ off.first = row[k].first
    BY <1>2 DEF Row
  <2> QED
    BY <2>1, Fields
<1>4. k # new
  BY <1>1, <1>2
<1>5. /\ row'[k] = off /\ row'[new] = was
      /\ \A j \in Keys \ {k, new} : row'[j] = row[j]
  BY <1>1, <1>2, <1>4 DEF IInv, Typed
<1>6. row' \in [Keys -> Row \cup {None}]
  BY <1>1, <1>2, <1>3, <1>5 DEF IInv, Typed
<1> HIDE DEF k, was, off
<1>7. Typed'
  BY <1>1, <1>6 DEF IInv, Typed
<1>8. \A j \in Keys : row[j] # None => row'[j] # None /\ row'[j].first = row[j].first
  BY <1>1, <1>2, <1>3, <1>5
<1>9. \A j \in Keys : row[j] # None => row[j].first \in Keys
  BY Fields DEF IInv, Typed
<1>10. FirstsExist'
  <2> SUFFICES ASSUME NEW j \in Keys, row'[j] # None
               PROVE  row'[row'[j].first] # None
    BY DEF FirstsExist
  <2>1. CASE j = new
    BY <2>1, <1>2, <1>5, <1>8, <1>9 DEF IInv, FirstsExist
  <2>2. CASE j # new
    <3>1. row[j] # None
      BY <2>2, <1>2, <1>5
    <3> QED
      BY <3>1, <1>8, <1>9 DEF IInv, FirstsExist
  <2> QED
    BY <2>1, <2>2
<1>11. \A b \in Admins : change'[b] # None => b # a /\ change'[b] = change[b]
  BY <1>1 DEF IInv, Typed
<1>12. RotationsAreFresh'
  <2> SUFFICES ASSUME NEW b \in Admins, change'[b] # None
               PROVE  /\ row'[change'[b].key] # None
                      /\ change'[b].was.active
                      /\ change'[b].was.first = row'[change'[b].key].first
                      /\ change'[b].was.first \in crossed' \/ row'[change'[b].key] = change'[b].was
    BY DEF RotationsAreFresh
  <2> DEFINE j == change[b].key
             c == change[b].was
  <2>1. b # a /\ change[b] # None /\ change'[b] = change[b]
    BY <1>11
  <2>2. change'[b].key = j /\ change'[b].was = c
    BY <2>1
  <2>3. /\ j \in Keys /\ row[j] # None
        /\ c.active /\ c.first = row[j].first
        /\ c.first \in crossed \/ row[j] = c
    BY <2>1, Fields DEF IInv, Typed, RotationsAreFresh
  <2>4. j = k => c.first \in crossed
    BY <2>1, <1>1 DEF IInv, RotationsCross, k
  <2> HIDE DEF j, c
  <2>5. row'[j] # None /\ c.first = row'[j].first
    BY <2>3, <1>8
  <2>6. c.first \in crossed' \/ row'[j] = c
    BY <2>3, <2>4, <1>1, <1>5
  <2> QED
    BY <2>2, <2>3, <2>5, <2>6
<1>13. RotationsCross'
  BY <1>1, <1>11 DEF IInv, RotationsCross
<1>14. TheLastWordCounts'
  <2> SUFFICES ASSUME NEW j \in Keys, row'[j] # None, row'[j].active,
                      row'[j].first \notin crossed
               PROVE  /\ row'[j].grant = word[row'[j].first]
                      /\ \A i \in Keys \ {j} :
                           ~(row'[i] # None /\ row'[i].active /\ row'[i].first = row'[j].first)
    BY <1>1 DEF TheLastWordCounts, Live
  <2>1. j # k
    BY <1>3, <1>5
  <2>2. CASE j = new
    <3>1. row[k] = was /\ row[k].first \notin crossed
      BY <2>2, <1>2, <1>5
    <3>2. /\ row[k].grant = word[row[k].first]
          /\ \A i \in Keys \ {k} :
               ~(row[i] # None /\ row[i].active /\ row[i].first = row[k].first)
      BY <3>1, <1>2 DEF IInv, TheLastWordCounts, Live
    <3> QED
      BY <2>2, <3>1, <3>2, <1>2, <1>3, <1>5
  <2>3. CASE j # new
    <3>1. row'[j] = row[j]
      BY <2>1, <2>3, <1>5
    <3>2. /\ row[j].grant = word[row[j].first]
          /\ \A i \in Keys \ {j} :
               ~(row[i] # None /\ row[i].active /\ row[i].first = row[j].first)
      BY <3>1 DEF IInv, TheLastWordCounts, Live
    <3>3. was.first # row[j].first
      BY <2>1, <3>1, <3>2, <1>2
    <3> QED
      BY <2>1, <2>3, <3>1, <3>2, <3>3, <1>3, <1>5
  <2> QED
    BY <2>2, <2>3
<1> QED
  BY <1>7, <1>10, <1>12, <1>13, <1>14 DEF IInv

(* Every step keeps the invariant.                                          *)
LEMMA NextIInv == IInv /\ [Next]_vars => IInv'
<1> SUFFICES ASSUME IInv, [Next]_vars
             PROVE  IInv'
  OBVIOUS
<1>1. ASSUME NEW k \in Keys, NEW g \in Grants, NEW n \in Limits,
             UpdateApiClient(k, g, n)
      PROVE  IInv'
  <2> DEFINE new == [row[k] EXCEPT !.grant = g, !.limit = n]
  <2>1. row[k] # None /\ row[k] \in Row
    BY <1>1 DEF UpdateApiClient, IInv, Typed
  <2>2. /\ new \in Row /\ new.grant = g
        /\ new.first = row[k].first /\ new.active = row[k].active
    BY <2>1 DEF Row
  <2>3. row' = [row EXCEPT ![k] = new]
    BY <1>1, <2>1 DEF UpdateApiClient, IInv, Typed, Row
  <2>4. /\ word' = IF Live(k) THEN [word EXCEPT ![row[k].first] = g] ELSE word
        /\ crossed' = IF Rotating(k) THEN crossed \cup {row[k].first} ELSE crossed
        /\ change' = change
    BY <1>1 DEF UpdateApiClient
  <2> HIDE DEF new
  <2> QED
    BY <2>1, <2>2, <2>3, <2>4, ChangeKeepsIInv
<1>2. ASSUME NEW k \in Keys, RevokeApiClient(k)
      PROVE  IInv'
  <2> DEFINE new == [row[k] EXCEPT !.active = FALSE]
  <2>1. row[k] # None /\ row[k] \in Row
    BY <1>2 DEF RevokeApiClient, IInv, Typed
  <2>2. new \in Row /\ new.first = row[k].first /\ ~new.active
    BY <2>1 DEF Row
  <2>3. row' = [row EXCEPT ![k] = new]
    BY <1>2 DEF RevokeApiClient
  <2>4. /\ word' = IF Live(k) THEN [word EXCEPT ![row[k].first] = {}] ELSE word
        /\ crossed' = IF Rotating(k) THEN crossed \cup {row[k].first} ELSE crossed
        /\ change' = change
    BY <1>2 DEF RevokeApiClient
  <2> HIDE DEF new
  <2> QED
    BY <2>1, <2>2, <2>3, <2>4, ChangeKeepsIInv
<1>3. ASSUME NEW a \in Admins, RotateFails(a)
      PROVE  IInv'
  BY <1>3 DEF RotateFails, IInv, Typed, FirstsExist, RotationsAreFresh,
              RotationsCross, TheLastWordCounts, Live
<1>4. CASE UNCHANGED rows
  BY <1>4 DEF rows, IInv, Typed, FirstsExist, RotationsAreFresh,
              RotationsCross, TheLastWordCounts, Live
<1>5. ASSUME NEW k \in Keys, NEW scope \in Scopes, PublicApiKeyAuth(k, scope)
      PROVE  UNCHANGED rows
  BY <1>5 DEF PublicApiKeyAuth
<1>6. Restart \/ Tick \/ UNCHANGED vars => UNCHANGED rows
  BY DEF Restart, Tick, vars
<1> QED
  BY <1>1, <1>2, <1>3, <1>4, <1>5, <1>6, CreateKeepsIInv, RotateReadKeepsIInv,
     RotateWriteKeepsIInv DEF Next

(* A client whose rotations nothing overlapped has one live key at most,    *)
(* with the scopes the last edit gave it, and none after a revocation,      *)
(* through any chain of rotations.                                          *)
THEOREM OneLiveKeyWithTheLastScopes == Spec => []TheLastWordCounts
<1>1. IInv => TheLastWordCounts
  BY DEF IInv
<1> QED
  BY <1>1, InitIInv, NextIInv, PTL DEF Spec

----------------------------------------------------------------------------
(* The gateway's windows.                                                   *)

Gauged ==
  /\ recent \in [Keys -> [1..Window -> Nat]]
  /\ DOMAIN windows \subseteq Keys
  /\ \A k \in DOMAIN windows : windows[k] \in [count: Nat, left: 0..Window]

Resting(k) == k \notin DOMAIN windows \/ windows[k].left = 0

\* Of a key without a window, or with one that has reset, nothing was let in
\* this tick, and no more than one budget over the last ticks.
RestingIsFresh ==
  \A k \in Keys : Resting(k) =>
    /\ recent[k][1] = 0
    /\ \E m \in Limits : \A i \in 1..Window : recent[k][i] <= m

\* Since a window began it has let in no more than it has counted, and than the
\* limit at the last of them; before, within the last ticks, one budget.
Spent(counts, w, m, n, a) ==
  /\ a \in Nat /\ a <= n /\ a <= w.count
  /\ \A i \in 1..Window : /\ counts[i] <= m + a
                          /\ i + w.left <= Window + 1 => counts[i] <= a

RunningIsBounded ==
  \A k \in Keys : ~Resting(k) =>
    \E m, n \in Limits, a \in Nat : Spent(recent[k], windows[k], m, n, a)

BurstInv == Gauged /\ RestingIsFresh /\ RunningIsBounded

LEMMA BurstBound == BurstInv => BurstsAreBounded
<1> SUFFICES ASSUME BurstInv, NEW k \in Keys
             PROVE  \E m, n \in Limits : recent[k][Window] <= m + n
  BY DEF BurstsAreBounded
<1>1. Window \in 1..Window /\ Limits \subseteq Nat /\ recent[k][Window] \in Nat
  BY KeysAssumption DEF BurstInv, Gauged
<1>2. CASE Resting(k)
  <2>1. PICK m \in Limits : recent[k][Window] <= m
    BY <1>1, <1>2 DEF BurstInv, RestingIsFresh
  <2>2. recent[k][Window] <= m + m
    BY <1>1, <2>1
  <2> QED BY <2>2
<1>3. CASE ~Resting(k)
  <2>1. PICK m \in Limits, n \in Limits, a \in Nat : Spent(recent[k], windows[k], m, n, a)
    BY <1>3 DEF BurstInv, RunningIsBounded
  <2>2. recent[k][Window] <= m + n
    BY <1>1, <2>1 DEF Spent
  <2> QED BY <2>2
<1> QED BY <1>2, <1>3

(* No time has passed and no window runs.                                   *)
LEMMA BurstInit ==
  ASSUME windows = [k \in {} |-> None],
         recent = [k \in Keys |-> [i \in 1..Window |-> 0]]
  PROVE  BurstInv
<1>1. DOMAIN windows = {} /\ 1 \in 1..Window
  BY KeysAssumption
<1>2. \A k \in Keys : recent[k] \in [1..Window -> Nat] /\ \A i \in 1..Window : recent[k][i] = 0
  OBVIOUS
<1>3. \E m \in Limits : m \in Nat
  BY KeysAssumption
<1>4. Gauged
  BY <1>1, <1>2 DEF Gauged
<1> QED
  BY <1>1, <1>2, <1>3, <1>4 DEF BurstInv, RestingIsFresh, RunningIsBounded, Resting

(* A restart forgets both.                                                  *)
LEMMA BurstRestart ==
  ASSUME windows' = [k \in {} |-> None],
         recent' = [k \in Keys |-> [i \in 1..Window |-> 0]]
  PROVE  BurstInv'
<1>1. DOMAIN windows' = {} /\ 1 \in 1..Window
  BY KeysAssumption
<1>2. \A k \in Keys : recent'[k] \in [1..Window -> Nat] /\ \A i \in 1..Window : recent'[k][i] = 0
  OBVIOUS
<1>3. \E m \in Limits : m \in Nat
  BY KeysAssumption
<1>4. Gauged'
  BY <1>1, <1>2 DEF Gauged
<1> QED
  BY <1>1, <1>2, <1>3, <1>4 DEF BurstInv, RestingIsFresh, RunningIsBounded, Resting

(* What a hit does to the windows: the caller's starts or counts, the others *)
(* stay, unless a sweep drops one that has reset.                           *)
LEMMA HitWindows ==
  ASSUME Gauged, NEW k \in Keys, NEW max \in Nat,
         windows' = Hit(windows, k, Window, Crowd, max)
  PROVE  /\ k \in DOMAIN windows' /\ DOMAIN windows' \subseteq DOMAIN windows \cup {k}
         /\ windows'[k] = IF Resting(k) THEN [count |-> 1, left |-> Window]
                          ELSE [windows[k] EXCEPT !.count = IF @ > max THEN @ ELSE @ + 1]
         /\ \A j \in DOMAIN windows' \ {k} : windows'[j] = windows[j]
         /\ \A j \in DOMAIN windows \ DOMAIN windows' : windows[j].left = 0
<1> DEFINE starts == k \notin DOMAIN windows \/ windows[k].left = 0
           w == IF starts THEN [count |-> 1, left |-> Window]
                ELSE [windows[k] EXCEPT !.count = IF @ > max THEN @ ELSE @ + 1]
           kept == IF starts /\ Cardinality(DOMAIN windows \cup {k}) >= Crowd
                   THEN Swept(windows) ELSE DOMAIN windows
<1>1. windows' = [j \in kept \cup {k} |-> IF j = k THEN w ELSE windows[j]]
  BY DEF Hit
<1>2. kept \subseteq DOMAIN windows
  BY DEF Swept
<1>3. \A j \in DOMAIN windows \ kept : windows[j].left = 0
  BY DEF Swept, Gauged
<1>4. starts <=> Resting(k)
  BY DEF Resting
<1> HIDE DEF kept
<1> QED BY <1>1, <1>2, <1>3, <1>4

LEMMA OneMore ==
  ASSUME NEW f \in [1..Window -> Nat]
  PROVE  /\ [i \in 1..Window |-> f[i] + 1] \in [1..Window -> Nat]
         /\ \A i \in 1..Window : [j \in 1..Window |-> f[j] + 1][i] = f[i] + 1
OBVIOUS

(* A request of k is answered; what the others have had is as before.       *)
LEMMA BurstHit ==
  ASSUME BurstInv, NEW k \in Keys, NEW max \in Limits,
         windows' = Hit(windows, k, Window, Crowd, max),
         recent' = IF Over(windows', k, max) THEN recent
                   ELSE [recent EXCEPT ![k] = [i \in 1..Window |-> @[i] + 1]]
  PROVE  BurstInv'
<1>1. max \in Nat /\ max >= 1 /\ Limits \subseteq Nat /\ Window \in Nat /\ Window >= 1
  BY KeysAssumption
<1>2. /\ k \in DOMAIN windows' /\ DOMAIN windows' \subseteq DOMAIN windows \cup {k}
      /\ windows'[k] = IF Resting(k) THEN [count |-> 1, left |-> Window]
                       ELSE [windows[k] EXCEPT !.count = IF @ > max THEN @ ELSE @ + 1]
      /\ \A j \in DOMAIN windows' \ {k} : windows'[j] = windows[j]
      /\ \A j \in DOMAIN windows \ DOMAIN windows' : windows[j].left = 0
  BY <1>1, HitWindows DEF BurstInv
<1>3. /\ recent' \in [Keys -> [1..Window -> Nat]]
      /\ \A j \in Keys \ {k} : recent'[j] = recent[j]
      /\ IF Over(windows', k, max) THEN recent'[k] = recent[k]
         ELSE \A i \in 1..Window : recent'[k][i] = recent[k][i] + 1
  <2> DEFINE more == [i \in 1..Window |-> recent[k][i] + 1]
  <2>1. recent' = IF Over(windows', k, max) THEN recent ELSE [recent EXCEPT ![k] = more]
    OBVIOUS
  <2>2. recent \in [Keys -> [1..Window -> Nat]]
    BY DEF BurstInv, Gauged
  <2>3. more \in [1..Window -> Nat] /\ \A i \in 1..Window : more[i] = recent[k][i] + 1
    <3>1. recent[k] \in [1..Window -> Nat]
      BY <2>2
    <3> QED BY <3>1, OneMore
  <2> HIDE DEF more
  <2>4. CASE Over(windows', k, max)
    BY <2>1, <2>2, <2>4
  <2>5. CASE ~Over(windows', k, max)
    <3>1. recent' = [recent EXCEPT ![k] = more]
      BY <2>1, <2>5
    <3> QED BY <2>2, <2>3, <2>5, <3>1
  <2> QED BY <2>4, <2>5
<1>4. windows'[k] \in [count: Nat, left: 0..Window] /\ windows'[k].left > 0
  <2>1. CASE Resting(k)
    BY <1>1, <1>2, <2>1
  <2>2. CASE ~Resting(k)
    <3>1. windows[k] \in [count: Nat, left: 0..Window] /\ windows[k].left > 0
      BY <2>2 DEF Resting, BurstInv, Gauged
    <3> QED BY <1>1, <1>2, <2>2, <3>1
  <2> QED BY <2>1, <2>2
<1>5. Gauged'
  <2>1. \A j \in DOMAIN windows' : windows'[j] \in [count: Nat, left: 0..Window]
    BY <1>2, <1>4 DEF BurstInv, Gauged
  <2> QED BY <1>2, <1>3, <2>1 DEF BurstInv, Gauged
<1>6. ~Resting(k)'
  BY <1>2, <1>4 DEF Resting
<1>7. \A j \in Keys \ {k} : Resting(j)' => Resting(j)
  BY <1>2 DEF Resting
<1>8. \A j \in Keys \ {k} : ~Resting(j)' => ~Resting(j) /\ windows'[j] = windows[j]
  BY <1>2 DEF Resting
<1>9. \E m, n \in Limits, a \in Nat : Spent(recent'[k], windows'[k], m, n, a)
  <2>1. CASE Resting(k)
    <3>1. PICK m \in Limits : \A i \in 1..Window : recent[k][i] <= m
      BY <2>1 DEF BurstInv, RestingIsFresh
    <3>2. recent[k][1] = 0 /\ \A i \in 1..Window : recent[k][i] \in Nat
      BY <2>1 DEF BurstInv, RestingIsFresh, Gauged
    <3>3. windows'[k].count = 1 /\ windows'[k].left = Window /\ ~Over(windows', k, max)
      BY <1>1, <1>2, <2>1 DEF Over
    <3>4. \A i \in 1..Window : recent'[k][i] = recent[k][i] + 1
      BY <1>3, <3>3
    <3>5. Spent(recent'[k], windows'[k], m, max, 1)
      <4>1. ASSUME NEW i \in 1..Window, i + windows'[k].left <= Window + 1
            PROVE  recent'[k][i] <= 1
        <5>1. i = 1
          BY <1>1, <3>3, <4>1
        <5> QED BY <3>2, <3>4, <5>1
      <4>2. ASSUME NEW i \in 1..Window
            PROVE  recent'[k][i] <= m + 1
        BY <1>1, <3>1, <3>2, <3>4
      <4> QED BY <1>1, <3>3, <4>1, <4>2 DEF Spent
    <3> QED BY <3>5
  <2>2. CASE ~Resting(k)
    <3>1. PICK m \in Limits, n \in Limits, a \in Nat : Spent(recent[k], windows[k], m, n, a)
      BY <2>2 DEF BurstInv, RunningIsBounded
    <3>2. windows[k] \in [count: Nat, left: 0..Window] /\ \A i \in 1..Window : recent[k][i] \in Nat
      BY <2>2 DEF Resting, BurstInv, Gauged
    <3>3. /\ windows'[k].left = windows[k].left
          /\ windows'[k].count = IF windows[k].count > max THEN windows[k].count
                                 ELSE windows[k].count + 1
      BY <1>2, <2>2, <3>2
    <3>4. CASE Over(windows', k, max)
      <4>1. recent'[k] = recent[k] /\ windows'[k].count >= windows[k].count
        BY <1>3, <3>2, <3>3, <3>4
      <4>2. Spent(recent'[k], windows'[k], m, n, a)
        BY <1>1, <3>1, <3>2, <3>3, <4>1 DEF Spent
      <4> QED BY <4>2
    <3>5. CASE ~Over(windows', k, max)
      <4>1. windows'[k].count = windows[k].count + 1 /\ windows'[k].count <= max
        BY <1>1, <1>4, <3>2, <3>3, <3>5 DEF Over
      <4>2. \A i \in 1..Window : recent'[k][i] = recent[k][i] + 1
        BY <1>3, <3>5
      <4>3. Spent(recent'[k], windows'[k], m, max, a + 1)
        <5>1. m \in Nat /\ n \in Nat /\ a + 1 \in Nat /\ a + 1 <= windows'[k].count /\ a + 1 <= max
          BY <1>1, <3>1, <3>2, <4>1 DEF Spent
        <5>2. ASSUME NEW i \in 1..Window
              PROVE  /\ recent'[k][i] <= m + (a + 1)
                     /\ i + windows'[k].left <= Window + 1 => recent'[k][i] <= a + 1
          BY <3>1, <3>2, <3>3, <4>2, <5>1 DEF Spent
        <5> QED BY <5>1, <5>2 DEF Spent
      <4>4. a + 1 \in Nat
        OBVIOUS
      <4> QED BY <4>3, <4>4
    <3> QED BY <3>4, <3>5
  <2> QED BY <2>1, <2>2
<1>10. RestingIsFresh'
  BY <1>3, <1>6, <1>7 DEF BurstInv, RestingIsFresh
<1>11. RunningIsBounded'
  <2> SUFFICES ASSUME NEW j \in Keys, ~Resting(j)'
               PROVE  \E m, n \in Limits, a \in Nat : Spent(recent'[j], windows'[j], m, n, a)
    BY DEF RunningIsBounded, Spent
  <2> QED BY <1>3, <1>8, <1>9 DEF BurstInv, RunningIsBounded
<1> QED BY <1>5, <1>10, <1>11 DEF BurstInv

(* A window that resets leaves one budget behind.                           *)
LEMMA BurstTick ==
  ASSUME BurstInv, Tick
  PROVE  BurstInv'
<1>1. Limits \subseteq Nat /\ Window \in Nat /\ Window >= 1 /\ 1 \in 1..Window
  BY KeysAssumption
<1>2. /\ DOMAIN windows' = DOMAIN windows
      /\ \A k \in DOMAIN windows :
           windows'[k] = [windows[k] EXCEPT !.left = IF @ = 0 THEN 0 ELSE @ - 1]
  BY DEF Tick, Older
<1>3. \A k \in DOMAIN windows : windows[k] \in [count: Nat, left: 0..Window]
  BY DEF BurstInv, Gauged
<1>4. \A k \in DOMAIN windows :
        /\ windows'[k] \in [count: Nat, left: 0..Window]
        /\ windows'[k].count = windows[k].count
        /\ windows'[k].left = IF windows[k].left = 0 THEN 0 ELSE windows[k].left - 1
  BY <1>1, <1>2, <1>3
<1>5. \A k \in Keys : recent[k] \in [1..Window -> Nat]
  BY DEF BurstInv, Gauged
<1>6. \A i \in 1..Window : i # 1 => i - 1 \in 1..Window
  BY <1>1
<1>7. /\ recent' = [k \in Keys |-> [i \in 1..Window |->
                      IF i = 1 THEN 0 ELSE recent[k][i - 1]]]
  BY DEF Tick
<1>8. /\ \A k \in Keys : recent'[k] \in [1..Window -> Nat]
      /\ \A k \in Keys, i \in 1..Window :
           recent'[k][i] = IF i = 1 THEN 0 ELSE recent[k][i - 1]
  BY <1>5, <1>6, <1>7
<1>9. Gauged'
  BY <1>2, <1>4, <1>7, <1>8 DEF BurstInv, Gauged
<1>10. ASSUME NEW k \in Keys, Resting(k)'
       PROVE  \E m \in Limits : \A i \in 1..Window : recent'[k][i] <= m
  <2>1. CASE Resting(k)
    <3>1. PICK m \in Limits : \A i \in 1..Window : recent[k][i] <= m
      BY <2>1 DEF BurstInv, RestingIsFresh
    <3>2. ASSUME NEW i \in 1..Window PROVE recent'[k][i] <= m
      <4>1. CASE i = 1
        BY <1>1, <1>8, <4>1
      <4>2. CASE i # 1
        BY <1>6, <1>8, <3>1, <4>2
      <4> QED BY <4>1, <4>2
    <3> QED BY <3>2
  <2>2. CASE ~Resting(k)
    <3>1. PICK m \in Limits, n \in Limits, a \in Nat : Spent(recent[k], windows[k], m, n, a)
      BY <2>2 DEF BurstInv, RunningIsBounded
    <3>2. k \in DOMAIN windows /\ windows[k].left = 1
      BY <1>2, <1>3, <1>4, <1>10, <2>2 DEF Resting
    <3>3. \A i \in 1..Window : recent[k][i] <= n
      BY <1>1, <1>3, <1>5, <3>1, <3>2 DEF Spent
    <3>4. ASSUME NEW i \in 1..Window PROVE recent'[k][i] <= n
      <4>1. CASE i = 1
        BY <1>1, <1>8, <4>1
      <4>2. CASE i # 1
        BY <1>6, <1>8, <3>3, <4>2
      <4> QED BY <4>1, <4>2
    <3> QED BY <3>4
  <2> QED BY <2>1, <2>2
<1>11. RestingIsFresh'
  BY <1>1, <1>8, <1>10 DEF RestingIsFresh
<1>12. ASSUME NEW k \in Keys, ~Resting(k)'
       PROVE  \E m, n \in Limits, a \in Nat : Spent(recent'[k], windows'[k], m, n, a)
  <2>1. k \in DOMAIN windows /\ windows[k].left > 0 /\ ~Resting(k)
    BY <1>2, <1>3, <1>4, <1>12 DEF Resting
  <2>2. PICK m \in Limits, n \in Limits, a \in Nat : Spent(recent[k], windows[k], m, n, a)
    BY <2>1 DEF BurstInv, RunningIsBounded
  <2>3. ASSUME NEW i \in 1..Window
        PROVE  /\ recent'[k][i] <= m + a
               /\ i + windows'[k].left <= Window + 1 => recent'[k][i] <= a
    <3>1. CASE i = 1
      BY <1>1, <1>8, <2>2, <3>1
    <3>2. CASE i # 1
      <4>1. i - 1 \in 1..Window /\ recent'[k][i] = recent[k][i - 1]
        BY <1>6, <1>8, <3>2
      <4>2. windows'[k].left = windows[k].left - 1 /\ windows[k].left \in Nat
        BY <1>3, <1>4, <2>1
      <4> QED BY <1>1, <2>2, <4>1, <4>2 DEF Spent
    <3> QED BY <3>1, <3>2
  <2>4. Spent(recent'[k], windows'[k], m, n, a)
    BY <1>4, <2>1, <2>2, <2>3 DEF Spent
  <2> QED BY <2>4
<1>13. RunningIsBounded'
  <2> SUFFICES ASSUME NEW j \in Keys, ~Resting(j)'
               PROVE  \E m, n \in Limits, a \in Nat : Spent(recent'[j], windows'[j], m, n, a)
    BY DEF RunningIsBounded, Spent
  <2> QED BY <1>12
<1> QED BY <1>9, <1>11, <1>13 DEF BurstInv

LEMMA BurstNext == IInv /\ BurstInv /\ [Next]_vars => BurstInv'
<1> SUFFICES ASSUME IInv, BurstInv, [Next]_vars PROVE BurstInv'
  OBVIOUS
<1>1. CASE UNCHANGED gateway
  <2>1. windows' = windows /\ recent' = recent
    BY <1>1 DEF gateway
  <2> QED BY <2>1 DEF BurstInv, Gauged, RestingIsFresh, RunningIsBounded, Resting, Spent
<1>2. ASSUME NEW k \in Keys, NEW scope \in Scopes, PublicApiKeyAuth(k, scope)
      PROVE  BurstInv'
  <2>1. row[k].limit \in Limits
    BY <1>2, Fields DEF PublicApiKeyAuth, Live, IInv, Typed
  <2> QED BY <1>2, <2>1, BurstHit DEF PublicApiKeyAuth
<1>3. CASE Restart
  <2>1. /\ windows' = [k \in {} |-> None]
        /\ recent' = [k \in Keys |-> [i \in 1..Window |-> 0]]
    BY <1>3 DEF Restart
  <2> QED BY <2>1, BurstRestart
<1>4. CASE Tick
  BY <1>4, BurstTick
<1>5. ASSUME NEW k \in Keys, NEW g \in Grants, NEW n \in Limits,
             CreateApiClient(k, g, n) \/ UpdateApiClient(k, g, n) \/ RevokeApiClient(k)
      PROVE  UNCHANGED gateway
  BY <1>5 DEF CreateApiClient, UpdateApiClient, RevokeApiClient
<1>6. ASSUME NEW a \in Admins, NEW k \in Keys, RotateRead(a, k) \/ RotateWrite(a, k)
      PROVE  UNCHANGED gateway
  BY <1>6 DEF RotateRead, RotateWrite
<1>7. ASSUME NEW a \in Admins, RotateFails(a) PROVE UNCHANGED gateway
  BY <1>7 DEF RotateFails
<1>8. ASSUME NEW k \in Keys, RevokeApiClient(k) PROVE UNCHANGED gateway
  BY <1>8 DEF RevokeApiClient
<1>9. UNCHANGED vars => UNCHANGED gateway
  BY DEF vars
<1> QED
  BY <1>1, <1>2, <1>3, <1>4, <1>5, <1>6, <1>7, <1>8, <1>9 DEF Next

(* A fixed window lets twice its limit through around its edge, and never   *)
(* more: through edits of the limit, sweeps of the map and restarts.        *)
THEOREM BurstsStayWithinTwoBudgets == Spec => []BurstsAreBounded
<1>1. Init => IInv /\ BurstInv
  BY InitIInv, BurstInit DEF Init
<1>2. IInv /\ BurstInv /\ [Next]_vars => IInv' /\ BurstInv'
  BY NextIInv, BurstNext
<1>3. BurstInv => BurstsAreBounded
  BY BurstBound
<1> QED
  BY <1>1, <1>2, <1>3, PTL DEF Spec

(* The rows, the rotations and the windows are what they say; a successor   *)
(* belongs to a client whose first key is a row, and a rotation in flight   *)
(* holds a row that was active.                                             *)
THEOREM TypeCorrect == Spec => []TypeOK
<1>1. Init => IInv /\ BurstInv
  BY InitIInv, BurstInit DEF Init
<1>2. IInv /\ BurstInv /\ [Next]_vars => IInv' /\ BurstInv'
  BY NextIInv, BurstNext
<1>3. IInv /\ BurstInv => TypeOK
  BY DEF IInv, Typed, FirstsExist, RotationsAreFresh, BurstInv, Gauged, TypeOK
<1> QED
  BY <1>1, <1>2, <1>3, PTL DEF Spec

=============================================================================
