-------------------------- MODULE CapabilityCache --------------------------
(***************************************************************************)
(* The capability matrix cache of one service process                      *)
(* (@platform/db, capability-cache.ts).  Who may do what is decided by the *)
(* database; a process holds each tenant's matrix for CACHE_TTL_MS, drops  *)
(* everything it holds when a NOTIFY arrives, and joins concurrent loads   *)
(* of one tenant into one query.                                           *)
(*                                                                         *)
(* A tenant's matrix is its version.  Time is kept as ages, so behaviours  *)
(* are unbounded.  The listening connection is external: postgres.js       *)
(* subscribes again after a lost connection, what was notified meanwhile   *)
(* is gone.                                                                *)
(***************************************************************************)
EXTENDS Naturals, Sequences, FiniteSets

CONSTANTS
  Tenants,
  Calls,        \* permission checks a process handles at the same time
  None,
  TTL,          \* CACHE_TTL_MS, in ticks
  MaxLoad,      \* ticks after which a running matrix query has ended
  MaxVersion    \* bound on the changes to a tenant's matrix

ASSUME CacheAssumption ==
  /\ TTL \in Nat \ {0}
  /\ MaxLoad \in Nat
  /\ MaxVersion \in Nat
  /\ None \notin Nat \cup Tenants

Versions == 0..MaxVersion
Ages == 0..TTL + MaxLoad + 1

VARIABLES
  db,          \* each tenant's matrix in the database
  listening,   \* the LISTEN connection is up
  notices,     \* notifications on their way, in commit order
  cache,       \* per tenant, the matrix held and its age
  inFlight,    \* per tenant, the load that is running
  calls,       \* per check, the tenant whose load it awaits
  gone,        \* history: per version, how long ago it was replaced
  answer       \* history: what the last check was decided on

process == <<listening, notices, cache, inFlight, calls>>
vars == <<db, process, gone, answer>>

Entry == [version: Versions, age: Ages]
Load == [stage: {"asked", "read"}, version: Versions, lag: 0..MaxLoad]
Notice == [tenant: Tenants, version: Versions]
Answer == [tenant: Tenants, version: Versions, stale: Ages]

\* How long ago the database replaced this version; 0 while it stands.
Staleness(t, v) == IF v = db[t] THEN 0 ELSE gone[t][v]

Decide(t, v) ==
  answer' = [tenant |-> t, version |-> v, stale |-> Staleness(t, v)]

\* Mutant: entries never expire.
UsableForever(t) == cache[t] # None

\* Date.now() - loadedAt < CACHE_TTL_MS.
Usable(t) == cache[t] # None /\ cache[t].age < TTL

Init ==
  /\ db = [t \in Tenants |-> 0]
  /\ listening = FALSE
  /\ notices = <<>>
  /\ cache = [t \in Tenants |-> None]
  /\ inFlight = [t \in Tenants |-> None]
  /\ calls = [c \in Calls |-> None]
  /\ gone = [t \in Tenants |-> [v \in Versions |-> 0]]
  /\ answer = None

----------------------------------------------------------------------------
(* getMatrix.                                                              *)

\* Mutant: a hit renews the entry.
AnswerFromCacheSliding(c, t) ==
  /\ calls[c] = None
  /\ Usable(t)
  /\ Decide(t, cache[t].version)
  /\ cache' = [cache EXCEPT ![t].age = 0]
  /\ UNCHANGED <<db, listening, notices, inFlight, calls, gone>>

AnswerFromCache(c, t) ==
  /\ calls[c] = None
  /\ Usable(t)
  /\ Decide(t, cache[t].version)
  /\ UNCHANGED <<db, process, gone>>

JoinLoad(c, t) ==
  /\ calls[c] = None
  /\ ~Usable(t)
  /\ inFlight[t] # None
  /\ calls' = [calls EXCEPT ![c] = t]
  /\ UNCHANGED <<db, listening, notices, cache, inFlight, gone, answer>>

StartLoad(c, t) ==
  /\ calls[c] = None
  /\ ~Usable(t)
  /\ inFlight[t] = None
  /\ inFlight' = [inFlight EXCEPT ![t] = [stage |-> "asked", version |-> 0,
                                          lag |-> 0]]
  /\ calls' = [calls EXCEPT ![c] = t]
  /\ UNCHANGED <<db, listening, notices, cache, gone, answer>>

\* The query's snapshot.
ReadMatrix(t) ==
  /\ inFlight[t] # None /\ inFlight[t].stage = "asked"
  /\ inFlight' = [inFlight EXCEPT ![t] = [stage |-> "read",
                                          version |-> db[t], lag |-> 0]]
  /\ UNCHANGED <<db, listening, notices, cache, calls, gone, answer>>

\* loadedAt is taken when the rows have arrived; everyone who waits is told.
LoadDone(t) ==
  LET v == inFlight[t].version IN
  /\ inFlight[t] # None /\ inFlight[t].stage = "read"
  /\ cache' = [cache EXCEPT ![t] = [version |-> v, age |-> 0]]
  /\ inFlight' = [inFlight EXCEPT ![t] = None]
  /\ calls' = [c \in Calls |-> IF calls[c] = t THEN None ELSE calls[c]]
  /\ IF \E c \in Calls : calls[c] = t THEN Decide(t, v) ELSE UNCHANGED answer
  /\ UNCHANGED <<db, listening, notices, gone>>

\* Mutant: the failure reaches nobody but the check that started the load.
LoadFailsSilently(t) ==
  /\ inFlight[t] # None
  /\ inFlight' = [inFlight EXCEPT ![t] = None]
  /\ \E c \in Calls : calls' = [calls EXCEPT ![c] = None]
  /\ UNCHANGED <<db, listening, notices, cache, gone, answer>>

\* The query throws: the waiting checks fail, nothing is held.
LoadFails(t) ==
  /\ inFlight[t] # None
  /\ inFlight' = [inFlight EXCEPT ![t] = None]
  /\ calls' = [c \in Calls |-> IF calls[c] = t THEN None ELSE calls[c]]
  /\ UNCHANGED <<db, listening, notices, cache, gone, answer>>

----------------------------------------------------------------------------
(* The database and its notifications.                                     *)

\* A statement on capabilities, role_capabilities or user_roles commits.
ChangeMatrix(t) ==
  /\ db[t] < MaxVersion
  /\ db' = [db EXCEPT ![t] = @ + 1]
  /\ notices' = IF listening
                THEN Append(notices, [tenant |-> t, version |-> db[t] + 1])
                ELSE notices
  /\ UNCHANGED <<listening, cache, inFlight, calls, gone, answer>>

\* invalidateCapabilityCache() without a tenant clears every tenant.
Invalidate ==
  /\ notices # <<>>
  /\ notices' = Tail(notices)
  /\ cache' = [t \in Tenants |-> None]
  /\ UNCHANGED <<db, listening, inFlight, calls, gone, answer>>

\* startCapabilityCache, or the driver's own new subscription: nothing is
\* dropped then.
Listen ==
  /\ ~listening
  /\ listening' = TRUE
  /\ UNCHANGED <<db, notices, cache, inFlight, calls, gone, answer>>

ConnectionLost ==
  /\ listening
  /\ listening' = FALSE
  /\ notices' = <<>>
  /\ UNCHANGED <<db, cache, inFlight, calls, gone, answer>>

Restart ==
  /\ listening' = FALSE
  /\ notices' = <<>>
  /\ cache' = [t \in Tenants |-> None]
  /\ inFlight' = [t \in Tenants |-> None]
  /\ calls' = [c \in Calls |-> None]
  /\ UNCHANGED <<db, gone, answer>>

Older(age) == IF age < TTL + MaxLoad + 1 THEN age + 1 ELSE age

Tick ==
  /\ \A t \in Tenants : inFlight[t] # None => inFlight[t].lag < MaxLoad
  /\ cache' = [t \in Tenants |->
       IF cache[t] = None THEN None
       ELSE [cache[t] EXCEPT !.age = Older(@)]]
  /\ inFlight' = [t \in Tenants |->
       IF inFlight[t] # None /\ inFlight[t].stage = "read"
       THEN [inFlight[t] EXCEPT !.lag = @ + 1] ELSE inFlight[t]]
  /\ gone' = [t \in Tenants |-> [v \in Versions |->
       IF v < db[t] THEN Older(gone[t][v]) ELSE 0]]
  /\ UNCHANGED <<db, listening, notices, calls, answer>>

Next ==
  \/ \E c \in Calls, t \in Tenants :
       AnswerFromCache(c, t) \/ JoinLoad(c, t) \/ StartLoad(c, t)
  \/ \E t \in Tenants :
       ReadMatrix(t) \/ LoadDone(t) \/ LoadFails(t) \/ ChangeMatrix(t)
  \/ Invalidate \/ Listen \/ ConnectionLost \/ Restart
  \/ Tick

(* Time passes, and a query that was sent comes back or fails.              *)
Fairness ==
  /\ WF_vars(Tick)
  /\ \A t \in Tenants : WF_vars(ReadMatrix(t)) /\ WF_vars(LoadDone(t))

Spec == Init /\ [][Next]_vars /\ Fairness

----------------------------------------------------------------------------
(* Properties.                                                             *)

(* What a process holds is a version the tenant's matrix has had.           *)
TypeOK ==
  /\ db \in [Tenants -> Versions]
  /\ listening \in BOOLEAN
  /\ notices \in Seq(Notice)
  /\ cache \in [Tenants -> Entry \cup {None}]
  /\ inFlight \in [Tenants -> Load \cup {None}]
  /\ calls \in [Calls -> Tenants \cup {None}]
  /\ gone \in [Tenants -> [Versions -> Ages]]
  /\ answer \in Answer \cup {None}

(* "The TTL still bounds staleness": with or without the subscription, and  *)
(* whichever notification is lost or late, no check is decided on a matrix  *)
(* that was replaced longer ago than the TTL plus the running time of the   *)
(* query that fetched it.                                                   *)
StalenessIsBounded ==
  answer # None => answer.stale < TTL + MaxLoad

(* Every check that waits for a load is decided or fails, whoever started   *)
(* the load.                                                                *)
EveryCheckEnds ==
  \A c \in Calls : calls[c] # None ~> calls[c] = None

(* Once the matrix of a tenant stays as it is, the process in the end holds *)
(* no other version as usable, even if no notification ever arrives.        *)
RevocationsTakeEffect ==
  \A t \in Tenants, v \in Versions :
    []<>(db[t] # v) \/ <>[](Usable(t) => cache[t].version = v)

============================================================================
