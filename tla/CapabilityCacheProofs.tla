------------------------ MODULE CapabilityCacheProofs ------------------------
(***************************************************************************)
(* Theorems of CapabilityCache, for every set of tenants and checks, every *)
(* TTL and every bound on the running time of a query.                     *)
(***************************************************************************)
EXTENDS CapabilityCache, TLAPS

\* Versions the database has not replaced are not gone.
GoneOnlyReplaced ==
  \A t \in Tenants, v \in Versions : v >= db[t] => gone[t][v] = 0

\* What a load has read was replaced while it was on its way, if at all.
LoadsAreRecent ==
  \A t \in Tenants :
    inFlight[t] # None /\ inFlight[t].stage = "read"
      => gone[t][inFlight[t].version] <= inFlight[t].lag

\* An entry is older than the replacement of its version, but for the load.
EntriesAreRecent ==
  \A t \in Tenants :
    cache[t] # None => gone[t][cache[t].version] <= cache[t].age + MaxLoad

Inner == GoneOnlyReplaced /\ LoadsAreRecent /\ EntriesAreRecent
IInv == TypeOK /\ Inner /\ StalenessIsBounded

(* None is not an entry, a load or an answer: records have fields.          *)
LEMMA Bounds == /\ TTL \in Nat \ {0} /\ MaxLoad \in Nat /\ MaxVersion \in Nat
                /\ 0 \in Versions /\ Versions \subseteq Nat
                /\ 0 \in Ages /\ Ages \subseteq Nat
BY CacheAssumption DEF Versions, Ages

(* The queue of notifications may be empty.                                 *)
LEMMA NoNotices == <<>> \in Seq(Notice)
OBVIOUS

(* Getting older stays within the ages, and adds at most one.               *)
LEMMA OlderByOne ==
  ASSUME NEW age \in Ages
  PROVE  /\ Older(age) \in Ages
         /\ Older(age) <= age + 1
         /\ Older(age) = age + 1 \/ (Older(age) = age /\ age = TTL + MaxLoad + 1)
BY Bounds DEF Older, Ages

(* A version that is not gone longer than n is not stale longer than n.     *)
LEMMA StaleOnlyIfGone ==
  ASSUME TypeOK, NEW t \in Tenants, NEW v \in Versions
  PROVE  /\ Staleness(t, v) \in Ages
         /\ Staleness(t, v) <= gone[t][v]
BY Bounds DEF Staleness, TypeOK, Ages

(* A process starts with nothing held and nothing on its way.               *)
LEMMA InitIInv == Init => IInv
<1> SUFFICES ASSUME Init
             PROVE  IInv
  OBVIOUS
<1>1. TypeOK
  BY Bounds, NoNotices DEF Init, TypeOK
<1>2. Inner
  BY Bounds DEF Init, Inner, GoneOnlyReplaced, LoadsAreRecent, EntriesAreRecent
<1> QED
  BY <1>1, <1>2 DEF Init, IInv, StalenessIsBounded

(* A check decided on an entry inherits the entry's bound.                  *)
LEMMA CacheHitKeepsIInv ==
  ASSUME IInv, NEW c \in Calls, NEW t \in Tenants, AnswerFromCache(c, t)
  PROVE  IInv'
<1>1. cache[t] \in Entry /\ cache[t] # None /\ cache[t].age < TTL
  BY DEF AnswerFromCache, Usable, IInv, TypeOK
<1>2. cache[t].version \in Versions /\ cache[t].age \in Ages
  BY <1>1 DEF Entry
<1> DEFINE stale == Staleness(t, cache[t].version)
<1>3. stale \in Ages /\ stale <= gone[t][cache[t].version]
  BY <1>2, StaleOnlyIfGone DEF IInv
<1>4. gone[t][cache[t].version] \in Ages
  BY <1>2 DEF IInv, TypeOK
<1>5. gone[t][cache[t].version] <= cache[t].age + MaxLoad
  BY <1>1 DEF IInv, Inner, EntriesAreRecent
<1>6. stale < TTL + MaxLoad
  <2> HIDE DEF stale
  <2> QED
    BY <1>1, <1>2, <1>3, <1>4, <1>5, Bounds DEF Ages
<1>7. answer' = [tenant |-> t, version |-> cache[t].version, stale |-> stale]
  BY DEF AnswerFromCache, Decide
<1>8. answer' \in Answer /\ StalenessIsBounded'
  BY <1>2, <1>3, <1>6, <1>7 DEF Answer, StalenessIsBounded
<1>9. UNCHANGED <<db, listening, notices, cache, inFlight, calls, gone>>
  BY DEF AnswerFromCache, process
<1>10. TypeOK'
  BY <1>8, <1>9 DEF IInv, TypeOK
<1>11. Inner'
  BY <1>9 DEF IInv, Inner, GoneOnlyReplaced, LoadsAreRecent, EntriesAreRecent
<1> QED
  BY <1>8, <1>10, <1>11 DEF IInv

(* The rows are as old as their way was long when the entry is made.        *)
LEMMA LoadDoneKeepsIInv ==
  ASSUME IInv, NEW t \in Tenants, LoadDone(t)
  PROVE  IInv'
<1> DEFINE v == inFlight[t].version
<1>1. inFlight[t] \in Load /\ inFlight[t] # None /\ inFlight[t].stage = "read"
  BY DEF LoadDone, IInv, TypeOK
<1>2. v \in Versions /\ inFlight[t].lag \in 0..MaxLoad
  BY <1>1 DEF Load
<1>3. gone[t][v] \in Ages /\ gone[t][v] <= inFlight[t].lag
  BY <1>1, <1>2 DEF IInv, TypeOK, Inner, LoadsAreRecent
<1>4. Staleness(t, v) \in Ages /\ Staleness(t, v) <= gone[t][v]
  BY <1>2, StaleOnlyIfGone DEF IInv
<1>5. gone[t][v] <= MaxLoad /\ Staleness(t, v) < TTL + MaxLoad
  <2> HIDE DEF v
  <2> QED
    BY <1>2, <1>3, <1>4, Bounds DEF Ages
<1>6. answer' \in Answer \cup {None} /\ StalenessIsBounded'
  <2>1. CASE UNCHANGED answer
    BY <2>1 DEF IInv, TypeOK, StalenessIsBounded
  <2>2. CASE Decide(t, v)
    BY <2>2, <1>2, <1>4, <1>5 DEF Decide, Answer, StalenessIsBounded
  <2> QED
    BY <2>1, <2>2 DEF LoadDone
<1>7. [version |-> v, age |-> 0] \in Entry
  BY <1>2, Bounds DEF Entry
<1>8. /\ cache' = [cache EXCEPT ![t] = [version |-> v, age |-> 0]]
      /\ inFlight' = [inFlight EXCEPT ![t] = None]
      /\ calls' = [c \in Calls |-> IF calls[c] = t THEN None ELSE calls[c]]
      /\ UNCHANGED <<db, listening, notices, gone>>
  BY DEF LoadDone
<1>9. TypeOK'
  BY <1>6, <1>7, <1>8 DEF IInv, TypeOK
<1>10. Inner'
  <2>1. GoneOnlyReplaced'
    BY <1>8 DEF IInv, Inner, GoneOnlyReplaced
  <2>2. LoadsAreRecent'
    BY <1>8 DEF IInv, TypeOK, Inner, LoadsAreRecent
  <2>3. ASSUME NEW s \in Tenants, cache'[s] # None
        PROVE  gone[s][cache'[s].version] <= cache'[s].age + MaxLoad
    <3>1. CASE s = t
      <4>1. cache'[s].version = v /\ cache'[s].age = 0
        BY <1>8, <3>1 DEF IInv, TypeOK
      <4> QED
        BY <4>1, <3>1, <1>5, Bounds
    <3>2. CASE s # t
      BY <1>8, <2>3, <3>2 DEF IInv, TypeOK, Inner, EntriesAreRecent
    <3> QED
      BY <3>1, <3>2
  <2> QED
    BY <1>8, <2>1, <2>2, <2>3 DEF Inner, EntriesAreRecent
<1> QED
  BY <1>6, <1>9, <1>10 DEF IInv

(* What the query reads stands at that moment.                              *)
LEMMA ReadMatrixKeepsIInv ==
  ASSUME IInv, NEW t \in Tenants, ReadMatrix(t)
  PROVE  IInv'
<1>1. /\ inFlight' = [inFlight EXCEPT ![t] = [stage |-> "read", version |-> db[t], lag |-> 0]]
      /\ UNCHANGED <<db, listening, notices, cache, calls, gone, answer>>
  BY DEF ReadMatrix
<1>2. db[t] \in Versions /\ gone[t][db[t]] = 0
  <2>1. db[t] \in Versions /\ db[t] >= db[t]
    <3>1. db[t] \in Versions
      BY DEF IInv, TypeOK
    <3>2. \A n \in Versions : n >= n
      BY Bounds DEF Versions
    <3> QED
      BY <3>1, <3>2
  <2> QED
    BY <2>1 DEF IInv, Inner, GoneOnlyReplaced
<1>3. [stage |-> "read", version |-> db[t], lag |-> 0] \in Load
  BY <1>2, Bounds DEF Load
<1>4. TypeOK'
  BY <1>1, <1>3 DEF IInv, TypeOK
<1>5. LoadsAreRecent'
  BY <1>1, <1>2 DEF IInv, TypeOK, Inner, LoadsAreRecent
<1> QED
  BY <1>1, <1>4, <1>5
  DEF IInv, Inner, GoneOnlyReplaced, EntriesAreRecent, StalenessIsBounded

(* A version that is replaced now is gone for no time yet.                  *)
LEMMA ChangeMatrixKeepsIInv ==
  ASSUME IInv, NEW t \in Tenants, ChangeMatrix(t)
  PROVE  IInv'
<1>1. /\ db[t] < MaxVersion /\ db' = [db EXCEPT ![t] = @ + 1]
      /\ UNCHANGED <<listening, cache, inFlight, calls, gone, answer>>
  BY DEF ChangeMatrix
<1>2. db[t] \in Versions /\ db[t] + 1 \in Versions
  BY <1>1, Bounds DEF IInv, TypeOK, Versions
<1>3. notices' \in Seq(Notice)
  <2>1. [tenant |-> t, version |-> db[t] + 1] \in Notice
    BY <1>2 DEF Notice
  <2> QED
    BY <2>1 DEF ChangeMatrix, IInv, TypeOK
<1>4. TypeOK'
  BY <1>1, <1>2, <1>3 DEF IInv, TypeOK
<1>5. GoneOnlyReplaced'
  <2> SUFFICES ASSUME NEW s \in Tenants, NEW v \in Versions, v >= db'[s]
               PROVE  gone[s][v] = 0
    BY <1>1 DEF GoneOnlyReplaced
  <2>1. db[s] \in Nat /\ v \in Nat /\ db'[s] \in {db[s], db[s] + 1}
    BY <1>1, Bounds DEF IInv, TypeOK
  <2>2. v >= db[s]
    BY <2>1
  <2> QED
    BY <2>2 DEF IInv, Inner, GoneOnlyReplaced
<1> QED
  BY <1>1, <1>4, <1>5 DEF IInv, Inner, LoadsAreRecent, EntriesAreRecent, StalenessIsBounded

(* Entries and loads age as fast as the versions they hold.                 *)
LEMMA TickKeepsIInv ==
  ASSUME IInv, Tick
  PROVE  IInv'
<1>1. /\ \A t \in Tenants : inFlight[t] # None => inFlight[t].lag < MaxLoad
      /\ cache' = [t \in Tenants |-> IF cache[t] = None THEN None
                                     ELSE [cache[t] EXCEPT !.age = Older(@)]]
      /\ inFlight' = [t \in Tenants |->
           IF inFlight[t] # None /\ inFlight[t].stage = "read"
           THEN [inFlight[t] EXCEPT !.lag = @ + 1] ELSE inFlight[t]]
      /\ gone' = [t \in Tenants |-> [v \in Versions |->
           IF v < db[t] THEN Older(gone[t][v]) ELSE 0]]
      /\ UNCHANGED <<db, listening, notices, calls, answer>>
  BY DEF Tick
<1>2. \A t \in Tenants, v \in Versions :
        /\ gone[t][v] \in Ages /\ gone'[t][v] \in Ages
        /\ gone'[t][v] <= gone[t][v] + 1
  BY <1>1, OlderByOne, Bounds DEF IInv, TypeOK, Ages
<1>3. ASSUME NEW t \in Tenants, cache[t] # None
      PROVE  /\ cache[t].version \in Versions /\ cache[t].age \in Ages
             /\ cache'[t] = [version |-> cache[t].version, age |-> Older(cache[t].age)]
             /\ cache'[t] \in Entry
  <2>1. cache[t] \in Entry
    BY <1>3 DEF IInv, TypeOK
  <2>2. cache'[t] = [version |-> cache[t].version, age |-> Older(cache[t].age)]
    BY <1>1, <1>3, <2>1 DEF Entry
  <2> QED
    BY <2>1, <2>2, OlderByOne DEF Entry
<1>4. ASSUME NEW t \in Tenants, inFlight[t] # None, inFlight[t].stage = "read"
      PROVE  /\ inFlight[t].version \in Versions /\ inFlight[t].lag \in 0..MaxLoad
             /\ inFlight'[t] = [stage |-> "read", version |-> inFlight[t].version,
                                lag |-> inFlight[t].lag + 1]
             /\ inFlight'[t] \in Load
  <2>1. inFlight[t] \in Load
    BY <1>4 DEF IInv, TypeOK
  <2>2. inFlight'[t] = [stage |-> "read", version |-> inFlight[t].version,
                        lag |-> inFlight[t].lag + 1]
    BY <1>1, <1>4, <2>1 DEF Load
  <2>3. inFlight[t].lag + 1 \in 0..MaxLoad
    BY <1>1, <1>4, <2>1, Bounds DEF Load
  <2> QED
    BY <2>1, <2>2, <2>3 DEF Load
<1>5. TypeOK'
  <2>1. cache' \in [Tenants -> Entry \cup {None}]
    BY <1>1, <1>3
  <2>2. inFlight' \in [Tenants -> Load \cup {None}]
    BY <1>1, <1>4 DEF IInv, TypeOK
  <2>3. gone' \in [Tenants -> [Versions -> Ages]]
    BY <1>1, <1>2
  <2> QED
    BY <1>1, <2>1, <2>2, <2>3 DEF IInv, TypeOK
<1>6. GoneOnlyReplaced'
  BY <1>1, Bounds DEF IInv, TypeOK, GoneOnlyReplaced, Versions
<1>7. LoadsAreRecent'
  <2> SUFFICES ASSUME NEW t \in Tenants, inFlight'[t] # None, inFlight'[t].stage = "read"
               PROVE  gone'[t][inFlight'[t].version] <= inFlight'[t].lag
    BY DEF LoadsAreRecent
  <2>1. inFlight[t] # None /\ inFlight[t].stage = "read"
    BY <1>1
  <2>2. /\ inFlight[t].version \in Versions /\ inFlight[t].lag \in 0..MaxLoad
        /\ inFlight'[t].version = inFlight[t].version
        /\ inFlight'[t].lag = inFlight[t].lag + 1
    <3>1. /\ inFlight[t].version \in Versions /\ inFlight[t].lag \in 0..MaxLoad
          /\ inFlight'[t] = [stage |-> "read", version |-> inFlight[t].version,
                             lag |-> inFlight[t].lag + 1]
      BY <1>4, <2>1
    <3> QED
      BY <3>1
  <2>3. gone[t][inFlight[t].version] <= inFlight[t].lag
    BY <2>1 DEF IInv, Inner, LoadsAreRecent
  <2> DEFINE version == inFlight[t].version
             lag == inFlight[t].lag
  <2>4. /\ gone[t][version] \in Nat /\ gone'[t][version] \in Nat /\ lag \in Nat
        /\ gone'[t][version] <= gone[t][version] + 1
    <3>1. /\ gone[t][version] \in Ages /\ gone'[t][version] \in Ages
          /\ gone'[t][version] <= gone[t][version] + 1
      BY <1>2, <2>2
    <3>2. lag \in Nat
      BY <2>2, Bounds
    <3> HIDE DEF version, lag
    <3> QED
      BY <3>1, <3>2, Bounds
  <2>5. gone[t][version] <= lag
    BY <2>3
  <2> HIDE DEF version, lag
  <2>6. gone'[t][version] <= lag + 1
    BY <2>4, <2>5
  <2> QED
    BY <2>2, <2>6 DEF version, lag
<1>8. EntriesAreRecent'
  <2> SUFFICES ASSUME NEW t \in Tenants, cache'[t] # None
               PROVE  gone'[t][cache'[t].version] <= cache'[t].age + MaxLoad
    BY DEF EntriesAreRecent
  <2>1. cache[t] # None
    BY <1>1
  <2> DEFINE version == cache[t].version
             age == cache[t].age
  <2>2. /\ version \in Versions /\ age \in Ages
        /\ cache'[t].version = version /\ cache'[t].age = Older(age)
    <3>1. /\ version \in Versions /\ age \in Ages
          /\ cache'[t] = [version |-> version, age |-> Older(age)]
      BY <1>3, <2>1
    <3> HIDE DEF version, age
    <3> QED
      BY <3>1
  <2>3. gone[t][version] <= age + MaxLoad
    BY <2>1 DEF IInv, Inner, EntriesAreRecent
  <2>4. /\ Older(age) \in Ages
        /\ Older(age) = age + 1 \/ (Older(age) = age /\ age = TTL + MaxLoad + 1)
    BY <2>2, OlderByOne
  <2>5. /\ gone[t][version] \in Ages /\ gone'[t][version] \in Ages
        /\ gone'[t][version] <= gone[t][version] + 1
    BY <1>2, <2>2
  <2> HIDE DEF version, age
  <2>6. gone'[t][version] <= Older(age) + MaxLoad
    BY <2>2, <2>3, <2>4, <2>5, Bounds DEF Ages
  <2> QED
    BY <2>2, <2>6
<1>9. StalenessIsBounded'
  BY <1>1 DEF IInv, StalenessIsBounded
<1> QED
  BY <1>5, <1>6, <1>7, <1>8, <1>9 DEF IInv, Inner

(* The other steps start a load, drop what is held, or touch only the       *)
(* connection.                                                              *)
LEMMA OthersKeepIInv ==
  ASSUME IInv, UNCHANGED <<db, gone, answer>>, TypeOK',
         \A t \in Tenants : cache'[t] \in {cache[t], None},
         \A t \in Tenants : \/ inFlight'[t] \in {inFlight[t], None}
                            \/ inFlight'[t].stage = "asked"
  PROVE  IInv'
<1>1. GoneOnlyReplaced' /\ StalenessIsBounded'
  BY DEF IInv, Inner, GoneOnlyReplaced, StalenessIsBounded
<1>2. LoadsAreRecent'
  BY DEF IInv, Inner, LoadsAreRecent
<1>3. EntriesAreRecent'
  BY DEF IInv, Inner, EntriesAreRecent
<1> QED
  BY <1>1, <1>2, <1>3 DEF IInv, Inner

(* Every step keeps the invariant.                                          *)
LEMMA NextIInv == IInv /\ [Next]_vars => IInv'
<1> SUFFICES ASSUME IInv, [Next]_vars
             PROVE  IInv'
  OBVIOUS
<1>1. ASSUME NEW c \in Calls, NEW t \in Tenants, JoinLoad(c, t)
      PROVE  IInv'
  BY <1>1, OthersKeepIInv DEF JoinLoad, IInv, TypeOK
<1>2. ASSUME NEW c \in Calls, NEW t \in Tenants, StartLoad(c, t)
      PROVE  IInv'
  <2>1. [stage |-> "asked", version |-> 0, lag |-> 0] \in Load
    BY Bounds DEF Load
  <2>2. TypeOK'
    BY <1>2, <2>1 DEF StartLoad, IInv, TypeOK
  <2>3. \A s \in Tenants : inFlight'[s] = inFlight[s] \/ inFlight'[s].stage = "asked"
    BY <1>2 DEF StartLoad, IInv, TypeOK
  <2> QED
    BY <1>2, <2>2, <2>3, OthersKeepIInv DEF StartLoad
<1>3. ASSUME NEW t \in Tenants, LoadFails(t)
      PROVE  IInv'
  BY <1>3, OthersKeepIInv DEF LoadFails, IInv, TypeOK
<1>4. CASE Invalidate
  BY <1>4, OthersKeepIInv DEF Invalidate, IInv, TypeOK
<1>5. CASE Listen
  BY <1>5, OthersKeepIInv DEF Listen, IInv, TypeOK
<1>6. CASE ConnectionLost
  BY <1>6, OthersKeepIInv, NoNotices DEF ConnectionLost, IInv, TypeOK
<1>7. CASE Restart
  BY <1>7, OthersKeepIInv, NoNotices DEF Restart, IInv, TypeOK
<1>8. CASE UNCHANGED vars
  BY <1>8, OthersKeepIInv DEF vars, process, IInv, TypeOK
<1> QED
  BY <1>1, <1>2, <1>3, <1>4, <1>5, <1>6, <1>7, <1>8, CacheHitKeepsIInv,
     ReadMatrixKeepsIInv, LoadDoneKeepsIInv, ChangeMatrixKeepsIInv, TickKeepsIInv
  DEF Next

(* What a process holds is a version the tenant's matrix has had.           *)
THEOREM TypeCorrect == Spec => []TypeOK
<1>1. IInv => TypeOK
  BY DEF IInv
<1> QED
  BY <1>1, InitIInv, NextIInv, PTL DEF Spec

(* "The TTL still bounds staleness": whatever happens to the notifications, *)
(* the connection and the process, no check is decided on a matrix that was *)
(* replaced longer ago than the TTL plus the running time of a query.       *)
THEOREM StaleNoLongerThanTheTTL == Spec => []StalenessIsBounded
<1>1. IInv => StalenessIsBounded
  BY DEF IInv
<1> QED
  BY <1>1, InitIInv, NextIInv, PTL DEF Spec

=============================================================================
