------------------------- MODULE LoginLockoutProofs -------------------------
(***************************************************************************)
(* Theorems of LoginLockout, for every number of requests in flight and    *)
(* every setting of the lockout.  The two facts about locks do not hold    *)
(* for every setting: the window must be no shorter than the lock for the  *)
(* one, and no longer for the other.  The shipped defaults make them equal.*)
(***************************************************************************)
EXTENDS LoginLockout, FiniteSetTheorems, TLAPS

\* What a lock says about the failures behind it.
LockIsBacked ==
  lockedUntil # None =>
    /\ lockoutEnabled
    /\ lastFailed \in Nat
    /\ lastFailed <= now
    /\ lockedUntil = lastFailed + Lockout
    /\ attempts >= MaxFailed

IInv == TypeOK /\ LockIsBacked

(* The next count is a positive number whatever the row holds.              *)
LEMMA NextAttemptsType ==
  ASSUME TypeOK
  PROVE  NextAttempts \in Nat /\ NextAttempts >= 1
BY LockoutAssumption DEF TypeOK, NextAttempts

(* A fresh account is typed and not locked.                                 *)
LEMMA InitIInv == Init => IInv
<1>1. Init => calls \in [Calls -> Call]
  BY DEF Init, Idle, Call
<1>2. Init => log \in Seq(Nat)
  BY DEF Init
<1> QED
  BY <1>1, <1>2, LockoutAssumption DEF Init, IInv, TypeOK, LockIsBacked

(* A failure keeps the invariant: the lock it writes is the lock its own    *)
(* count and its own time call for.                                         *)
LEMMA FailureKeepsIInv ==
  ASSUME IInv, NEW c \in Calls, RecordFailedLogin(c)
  PROVE  IInv'
<1>1. calls' \in [Calls -> Call]
  BY DEF IInv, TypeOK, RecordFailedLogin, Finish, Idle, Call
<1>2. CASE lockoutEnabled
  <2>1. /\ attempts' = NextAttempts /\ lastFailed' = now /\ now' = now
        /\ lockedUntil' = IF NextAttempts >= MaxFailed THEN now + Lockout ELSE None
        /\ log' = Append(log, now)
    BY <1>2 DEF RecordFailedLogin
  <2>2. NextAttempts \in Nat
    BY NextAttemptsType DEF IInv
  <2>3. log' \in Seq(Nat)
    BY <2>1 DEF IInv, TypeOK
  <2>4. TypeOK'
    BY <1>1, <2>1, <2>2, <2>3, LockoutAssumption DEF IInv, TypeOK
  <2>5. ASSUME lockedUntil' # None
        PROVE  /\ attempts' >= MaxFailed
               /\ lockedUntil' = lastFailed' + Lockout
               /\ lastFailed' \in Nat /\ lastFailed' <= now'
    <3>1. NextAttempts >= MaxFailed
      BY <2>1, <2>5
    <3>2. now \in Nat
      BY DEF IInv, TypeOK
    <3> QED
      BY <2>1, <3>1, <3>2
  <2>6. LockIsBacked'
    BY <1>2, <2>5 DEF LockIsBacked, lockoutEnabled
  <2> QED
    BY <2>4, <2>6 DEF IInv
<1>3. CASE ~lockoutEnabled
  BY <1>1, <1>3 DEF IInv, TypeOK, LockIsBacked, RecordFailedLogin, row, lockoutEnabled
<1> QED
  BY <1>2, <1>3

(* Every step keeps the invariant.                                          *)
LEMMA NextIInv == IInv /\ [Next]_vars => IInv'
<1> SUFFICES ASSUME IInv, [Next]_vars
             PROVE  IInv'
  OBVIOUS
<1> USE LockoutAssumption
<1>1. ASSUME NEW c \in Calls, NEW right \in BOOLEAN, LoginRead(c, right)
      PROVE  IInv'
  <2>1. calls' \in [Calls -> Call]
    BY <1>1 DEF IInv, TypeOK, LoginRead, Call
  <2> QED
    BY <1>1, <2>1 DEF IInv, TypeOK, LockIsBacked, LoginRead, row, lockoutEnabled
<1>2. ASSUME NEW c \in Calls, RecordFailedLogin(c)
      PROVE  IInv'
  BY <1>2, FailureKeepsIInv
<1>3. ASSUME NEW c \in Calls, UpdateLastLogin(c)
      PROVE  IInv'
  <2>1. calls' \in [Calls -> Call]
    BY <1>3 DEF IInv, TypeOK, UpdateLastLogin, Finish, Idle, Call
  <2> QED
    BY <1>3, <2>1 DEF IInv, TypeOK, LockIsBacked, UpdateLastLogin, ClearRow
<1>4. ASSUME NEW c \in Calls, LoginFails(c)
      PROVE  IInv'
  <2>1. calls' \in [Calls -> Call]
    BY <1>4 DEF IInv, TypeOK, LoginFails, Finish, Idle, Call
  <2> QED
    BY <1>4, <2>1 DEF IInv, TypeOK, LockIsBacked, LoginFails, row, lockoutEnabled
<1>5. CASE ClearLockout
  BY <1>5 DEF IInv, TypeOK, LockIsBacked, ClearLockout, ClearRow
<1>6. CASE Tick
  BY <1>6 DEF IInv, TypeOK, LockIsBacked, Tick, row, lockoutEnabled
<1>7. CASE UNCHANGED vars
  BY <1>7 DEF IInv, TypeOK, LockIsBacked, vars, row, lockoutEnabled
<1> QED
  BY <1>1, <1>2, <1>3, <1>4, <1>5, <1>6, <1>7 DEF Next

(* Only a recorded failure leaves a count behind and touches the row.       *)
LEMMA RowChangesByFailure ==
  ASSUME IInv, [Next]_vars, attempts' > 0
  PROVE  UNCHANGED <<attempts, lastFailed, lockedUntil, log>>
         \/ \E c \in Calls : lockoutEnabled /\ RecordFailedLogin(c)
BY DEF Next, vars, row, LoginRead, LoginFails, UpdateLastLogin, ClearLockout,
       ClearRow, Tick, RecordFailedLogin

(* The lockout's row is always a count, a time or NULL, and a time or NULL. *)
THEOREM TypeCorrect == Spec => []TypeOK
<1>1. IInv => TypeOK
  BY DEF IInv
<1> QED
  BY <1>1, InitIInv, NextIInv, PTL DEF Spec

(* A wrong password that reaches the row while it is locked, because its    *)
(* request passed the lock check earlier, never lifts or shortens the lock, *)
(* for every setting in which the streak outlives the lock.                 *)
THEOREM FailuresNeverUnlock ==
  ASSUME Window >= Lockout
  PROVE  Spec => FailureNeverUnlocks
<1> DEFINE P == Locked /\ attempts' > 0 =>
                  lockedUntil' # None /\ lockedUntil' >= lockedUntil
<1>1. ASSUME IInv, [Next]_vars
      PROVE  P
  <2> SUFFICES ASSUME Locked, attempts' > 0
               PROVE  lockedUntil' # None /\ lockedUntil' >= lockedUntil
    OBVIOUS
  <2>1. /\ lastFailed \in Nat /\ lastFailed <= now /\ attempts \in Nat
        /\ lockedUntil = lastFailed + Lockout /\ lockedUntil > now
        /\ attempts >= MaxFailed /\ now \in Nat /\ lockedUntil # None
    BY <1>1 DEF IInv, TypeOK, LockIsBacked, Locked
  <2>2. CASE UNCHANGED <<attempts, lastFailed, lockedUntil, log>>
    BY <2>1, <2>2, LockoutAssumption
  <2>3. CASE \E c \in Calls : lockoutEnabled /\ RecordFailedLogin(c)
    <3>1. NextAttempts = attempts + 1
      BY <2>1, LockoutAssumption DEF NextAttempts
    <3>2. lockedUntil' = now + Lockout
      BY <2>1, <2>3, <3>1, LockoutAssumption DEF RecordFailedLogin
    <3> QED
      BY <2>1, <3>2, LockoutAssumption
  <2> QED
    BY <1>1, <2>2, <2>3, RowChangesByFailure
<1>2. IInv /\ [Next]_vars => [P]_vars
  BY <1>1
<1> QED
  BY <1>2, InitIInv, NextIInv, PTL DEF Spec, FailureNeverUnlocks

(* After a lock has run out the first new failure starts a streak of one    *)
(* and does not lock again, for every setting in which the lock outlives    *)
(* the streak.                                                              *)
THEOREM ExpiredLocksGiveFullBudget ==
  ASSUME Window <= Lockout
  PROVE  Spec => ExpiredLockGivesFullBudget
<1> DEFINE P == /\ MaxFailed >= 2
                /\ lockedUntil # None /\ now > lockedUntil
                /\ Len(log') > Len(log)
                => lockedUntil' = None
<1>1. ASSUME IInv, [Next]_vars
      PROVE  P
  <2> SUFFICES ASSUME MaxFailed >= 2, lockedUntil # None, now > lockedUntil,
                      Len(log') > Len(log)
               PROVE  lockedUntil' = None
    OBVIOUS
  <2>1. /\ lastFailed \in Nat /\ now \in Nat
        /\ lockedUntil = lastFailed + Lockout
    BY <1>1 DEF IInv, TypeOK, LockIsBacked
  <2>2. NextAttempts = 1
    BY <2>1, LockoutAssumption DEF NextAttempts
  <2>3. log \in Seq(Nat)
    BY <1>1 DEF IInv, TypeOK
  <2>4. \E c \in Calls : lockoutEnabled /\ RecordFailedLogin(c)
    <3>1. Len(log) \in Nat /\ Len(<<>>) = 0
      BY <2>3
    <3>2. log' # log /\ log' # <<>>
      BY <3>1
    <3> QED
      BY <1>1, <3>2 DEF Next, vars, row, LoginRead, LoginFails, UpdateLastLogin,
                        ClearLockout, ClearRow, Tick, RecordFailedLogin
  <2> QED
    BY <2>2, <2>4, LockoutAssumption DEF RecordFailedLogin
<1>2. IInv /\ [Next]_vars => [P]_vars
  BY <1>1
<1> QED
  BY <1>2, InitIInv, NextIInv, PTL DEF Spec, ExpiredLockGivesFullBudget

----------------------------------------------------------------------------
(* Counting: the row against the log of failures, and how many failures a   *)
(* stretch as long as the lock can hold.                                    *)

\* The failures of the current streak; those of the stretch that begins at t.
Starts(s) == {i \in 1..Len(s) : \A k \in i+1..Len(s) : s[k] - s[k-1] <= Window}
Within(s, t) == {i \in 1..Len(s) : t <= s[i] /\ s[i] < t + Lockout}

Comparing == {c \in Calls : calls[c].pc = "comparing"}

LogIsInOrder ==
  \A i \in 1..Len(log) : log[i] <= now /\ \A k \in i..Len(log) : log[i] <= log[k]

NoLogNoFailure == log = <<>> => lastFailed = None

\* In a stretch that is not over, every failure recorded so far, and every one
\* that may still be recorded by a request past the lock check, has its place.
RoomIsLeft ==
  lockoutEnabled =>
    \A t \in 0..now : now < t + Lockout =>
      Cardinality(Within(log, t)) + Cardinality(Comparing)
        <= MaxFailed + Cardinality(Calls) - 1

RowInv == IInv /\ LogIsInOrder /\ NoLogNoFailure /\ RowFollowsTheLog

(* Sets of positions in the log are finite.                                 *)
LEMMA PositionsAreFinite ==
  ASSUME NEW s \in Seq(Nat), NEW t
  PROVE  /\ IsFiniteSet(Starts(s)) /\ Cardinality(Starts(s)) \in Nat
         /\ IsFiniteSet(Within(s, t)) /\ Cardinality(Within(s, t)) \in Nat
<1>1. IsFiniteSet(1..Len(s))
  BY FS_Interval
<1>2. Starts(s) \in SUBSET (1..Len(s)) /\ Within(s, t) \in SUBSET (1..Len(s))
  BY DEF Starts, Within
<1> QED
  BY <1>1, <1>2, FS_Subset, FS_CardinalityType

(* One more failure joins the streak if it comes soon enough, and is a new  *)
(* streak by itself if not.                                                 *)
LEMMA StreakGrows ==
  ASSUME NEW s \in Seq(Nat), NEW n \in Nat
  PROVE  Starts(Append(s, n)) =
           IF s # <<>> /\ n - s[Len(s)] <= Window
           THEN Starts(s) \cup {Len(s) + 1} ELSE {Len(s) + 1}
<1> DEFINE e == Append(s, n)
<1>1. /\ Len(s) \in Nat /\ Len(e) = Len(s) + 1 /\ e[Len(s) + 1] = n
      /\ \A i \in 1..Len(s) : e[i] = s[i]
  OBVIOUS
<1>2. s # <<>> <=> Len(s) >= 1
  BY <1>1
<1>3. ASSUME NEW i \in 1..Len(s) + 1
      PROVE  i \in Starts(e) <=>
               \/ i = Len(s) + 1
               \/ i \in Starts(s) /\ n - s[Len(s)] <= Window
  <2>1. CASE i = Len(s) + 1
    BY <1>1, <2>1 DEF Starts
  <2>2. CASE i \in 1..Len(s)
    <3>1. \A k \in i+1..Len(s) : e[k] - e[k-1] = s[k] - s[k-1]
      BY <1>1, <2>2
    <3>2. e[Len(s) + 1] - e[Len(s) + 1 - 1] = n - s[Len(s)]
      BY <1>1, <2>2
    <3>3. i+1..Len(s) + 1 = (i+1..Len(s)) \cup {Len(s) + 1}
      BY <1>1, <2>2
    <3>4. i \in Starts(e) <=> \A k \in i+1..Len(s) + 1 : e[k] - e[k-1] <= Window
      BY <1>1 DEF Starts
    <3>5. i \in Starts(s) <=> \A k \in i+1..Len(s) : s[k] - s[k-1] <= Window
      BY <2>2 DEF Starts
    <3>6. i \in Starts(e) <=> /\ \A k \in i+1..Len(s) : e[k] - e[k-1] <= Window
                              /\ e[Len(s) + 1] - e[Len(s) + 1 - 1] <= Window
      BY <3>3, <3>4
    <3>7. i # Len(s) + 1
      BY <1>1, <2>2
    <3> QED
      BY <3>1, <3>2, <3>5, <3>6, <3>7
  <2> QED
    BY <1>1, <2>1, <2>2
<1>4. Starts(e) \subseteq 1..Len(s) + 1 /\ Starts(s) \subseteq 1..Len(s)
  BY <1>1 DEF Starts
<1>5. Starts(s) # {} => Len(s) >= 1
  BY <1>1, <1>4
<1> QED
  BY <1>1, <1>2, <1>3, <1>4, <1>5

(* And in a stretch it counts if it falls into it.                          *)
LEMMA StretchGrows ==
  ASSUME NEW s \in Seq(Nat), NEW n \in Nat, NEW t \in Nat
  PROVE  Within(Append(s, n), t) =
           IF t <= n /\ n < t + Lockout
           THEN Within(s, t) \cup {Len(s) + 1} ELSE Within(s, t)
<1>1. /\ Len(s) \in Nat /\ Len(Append(s, n)) = Len(s) + 1
      /\ Append(s, n)[Len(s) + 1] = n
      /\ \A i \in 1..Len(s) : Append(s, n)[i] = s[i]
  OBVIOUS
<1> QED
  BY <1>1 DEF Within

(* Whoever clears the row starts the log anew.                              *)
LEMMA ClearedRow ==
  ASSUME IInv', ClearRow
  PROVE  RowInv'
<1>1. Starts(<<>>) = {}
  BY DEF Starts
<1>2. Streak' = 0
  BY <1>1, FS_EmptySet DEF ClearRow, Streak, Starts
<1>3. LogIsInOrder'
  BY DEF ClearRow, LogIsInOrder
<1> QED
  BY <1>2, <1>3, LockoutAssumption
  DEF ClearRow, RowInv, NoLogNoFailure, RowFollowsTheLog, lockoutEnabled

(* A step that leaves row and log alone, and the clock or one tick on.      *)
LEMMA RowStays ==
  ASSUME RowInv, IInv', UNCHANGED <<row, log>>, now' = now \/ now' = now + 1
  PROVE  RowInv'
<1>1. LogIsInOrder'
  BY DEF RowInv, IInv, TypeOK, LogIsInOrder
<1> QED
  BY <1>1 DEF RowInv, NoLogNoFailure, RowFollowsTheLog, row, Streak

(* The UPDATE of a failure counts what the log counts.                      *)
LEMMA FailureCounts ==
  ASSUME RowInv, IInv', NEW c \in Calls, RecordFailedLogin(c), lockoutEnabled
  PROVE  RowInv'
<1>1. /\ attempts' = NextAttempts /\ lastFailed' = now /\ now' = now
      /\ lockedUntil' = IF NextAttempts >= MaxFailed THEN now + Lockout ELSE None
      /\ log' = Append(log, now)
  BY DEF RecordFailedLogin
<1>2. log \in Seq(Nat) /\ now \in Nat /\ Len(log) \in Nat /\ attempts \in Nat
  BY DEF RowInv, IInv, TypeOK
<1>3. /\ Len(log') = Len(log) + 1 /\ log'[Len(log) + 1] = now
      /\ \A i \in 1..Len(log) : log'[i] = log[i]
  BY <1>1, <1>2
<1>4. log' # <<>>
  BY <1>2, <1>3
<1>5. LogIsInOrder'
  <2> SUFFICES ASSUME NEW i \in 1..Len(log) + 1, NEW k \in i..Len(log) + 1
               PROVE  log'[i] <= now /\ log'[i] <= log'[k]
    BY <1>1, <1>2, <1>3 DEF LogIsInOrder
  <2>1. CASE k \in 1..Len(log)
    <3>1. i \in 1..Len(log) /\ k \in i..Len(log)
      BY <1>2, <2>1
    <3> QED
      BY <1>3, <2>1, <3>1 DEF RowInv, LogIsInOrder
  <2>2. CASE k = Len(log) + 1 /\ i \in 1..Len(log)
    BY <1>3, <2>2 DEF RowInv, LogIsInOrder
  <2>3. CASE k = Len(log) + 1 /\ i = Len(log) + 1
    BY <1>2, <1>3, <2>3
  <2> QED
    BY <1>2, <2>1, <2>2, <2>3
<1>6. Streak' = attempts'
  <2>1. Streak = Cardinality(Starts(log)) /\ Streak' = Cardinality(Starts(log'))
    BY DEF Streak, Starts
  <2>2. Len(log) + 1 \notin Starts(log)
    BY <1>2 DEF Starts
  <2>3. CASE log # <<>> /\ now - log[Len(log)] <= Window
    <3>1. Starts(log') = Starts(log) \cup {Len(log) + 1}
      BY <1>1, <1>2, <2>3, StreakGrows
    <3>2. Cardinality(Starts(log')) = Cardinality(Starts(log)) + 1
      BY <1>2, <2>2, <3>1, PositionsAreFinite, FS_AddElement
    <3>3. lastFailed = log[Len(log)] /\ lastFailed \in Nat
      BY <1>2, <2>3 DEF RowInv, RowFollowsTheLog
    <3>4. NextAttempts = attempts + 1
      BY <1>2, <2>3, <3>3, LockoutAssumption DEF NextAttempts
    <3> QED
      BY <1>1, <2>1, <3>2, <3>4 DEF RowInv, RowFollowsTheLog
  <2>4. CASE ~(log # <<>> /\ now - log[Len(log)] <= Window)
    <3>1. Starts(log') = {Len(log) + 1}
      BY <1>1, <1>2, <2>4, StreakGrows
    <3>2. Cardinality(Starts(log')) = 1
      BY <3>1, FS_Singleton
    <3>3. CASE log = <<>>
      BY <1>1, <2>1, <3>2, <3>3 DEF RowInv, NoLogNoFailure, NextAttempts
    <3>4. CASE log # <<>>
      <4>1. lastFailed = log[Len(log)] /\ lastFailed \in Nat
        BY <1>2, <3>4 DEF RowInv, RowFollowsTheLog
      <4>2. lastFailed < now - Window
        BY <1>2, <2>4, <3>4, <4>1, LockoutAssumption
      <4> QED
        BY <1>1, <2>1, <3>2, <4>2 DEF NextAttempts
    <3> QED
      BY <3>3, <3>4
  <2> QED
    BY <2>3, <2>4
<1>7. RowFollowsTheLog'
  BY <1>1, <1>2, <1>3, <1>6 DEF RowFollowsTheLog, lockoutEnabled
<1> QED
  BY <1>4, <1>5, <1>7 DEF RowInv, NoLogNoFailure

LEMMA InitRowInv == Init => RowInv
<1>1. Starts(<<>>) = {}
  BY DEF Starts
<1>2. Init => Streak = 0
  BY <1>1, FS_EmptySet DEF Init, Streak, Starts
<1> QED
  BY <1>2, InitIInv, LockoutAssumption
  DEF Init, RowInv, LogIsInOrder, NoLogNoFailure, RowFollowsTheLog, lockoutEnabled

LEMMA NextRowInv == RowInv /\ [Next]_vars => RowInv'
<1> SUFFICES ASSUME RowInv, [Next]_vars
             PROVE  RowInv'
  OBVIOUS
<1>0. IInv'
  BY NextIInv DEF RowInv
<1>1. CASE UNCHANGED <<row, log>> /\ (now' = now \/ now' = now + 1)
  BY <1>0, <1>1, RowStays
<1>2. CASE ClearRow
  BY <1>0, <1>2, ClearedRow
<1>3. CASE \E c \in Calls : RecordFailedLogin(c) /\ lockoutEnabled
  BY <1>0, <1>3, FailureCounts
<1> QED
  BY <1>1, <1>2, <1>3 DEF Next, vars, row, LoginRead, LoginFails, UpdateLastLogin,
     ClearLockout, Tick, RecordFailedLogin

(* recordFailedLogin: however requests overlap, no failure is lost and none *)
(* counted twice, and the lock is the one the streak calls for.             *)
THEOREM NoFailureIsLost == Spec => []RowFollowsTheLog
<1>1. RowInv => RowFollowsTheLog
  BY DEF RowInv
<1> QED
  BY <1>1, InitRowInv, NextRowInv, PTL DEF Spec

\* Failures past the lock check find room, and what is recorded is bounded.
CountInv == RowInv /\ (Window >= Lockout => RoomIsLeft /\ GuessesAreBounded)

(* Who is comparing is among the requests.                                  *)
LEMMA ComparingIsFinite ==
  ASSUME NEW S \in SUBSET Calls
  PROVE  /\ IsFiniteSet(S) /\ Cardinality(S) \in Nat
         /\ Cardinality(Calls) \in Nat /\ Cardinality(S) <= Cardinality(Calls)
BY LockoutAssumption, FS_Subset, FS_CardinalityType

(* While a stretch is not over, the failures in it are of one streak.       *)
LEMMA OneStreak ==
  ASSUME RowInv, Window >= Lockout, NEW t \in 0..now, now < t + Lockout
  PROVE  Cardinality(Within(log, t)) <= attempts
<1>1. now \in Nat /\ log \in Seq(Nat) /\ Len(log) \in Nat
  BY DEF RowInv, IInv, TypeOK
<1>2. ASSUME NEW i \in Within(log, t)
      PROVE  i \in Starts(log)
  <2>1. i \in 1..Len(log) /\ t <= log[i]
    BY <1>2 DEF Within
  <2>2. ASSUME NEW k \in i+1..Len(log)
        PROVE  log[k] - log[k-1] <= Window
    <3>1. k \in 1..Len(log) /\ k - 1 \in 1..Len(log) /\ k - 1 \in i..Len(log)
      BY <1>1, <2>1
    <3>2. log[k] \in Nat /\ log[k-1] \in Nat /\ log[i] \in Nat
      BY <1>1, <2>1, <3>1, SMTT(30)
    <3>3. log[k] <= now /\ log[i] <= log[k-1]
      BY <2>1, <3>1 DEF RowInv, LogIsInOrder
    <3> QED
      BY <1>1, <2>1, <3>2, <3>3, LockoutAssumption, SMTT(30)
  <2> QED
    BY <2>1, <2>2 DEF Starts
<1>3. Within(log, t) \in SUBSET Starts(log)
  BY <1>2
<1>4. Cardinality(Within(log, t)) <= Cardinality(Starts(log))
  BY <1>1, <1>3, PositionsAreFinite, FS_Subset
<1> QED
  BY <1>4 DEF RowInv, RowFollowsTheLog, Streak, Starts

(* Once a stretch holds MaxFailed failures, no login passes the check.      *)
LEMMA FullStretchIsLocked ==
  ASSUME RowInv, Window >= Lockout, lockoutEnabled, NEW t \in 0..now, now < t + Lockout,
         Cardinality(Within(log, t)) >= MaxFailed
  PROVE  Locked
<1>1. now \in Nat /\ log \in Seq(Nat) /\ Len(log) \in Nat /\ attempts \in Nat
  BY DEF RowInv, IInv, TypeOK
<1>2. Cardinality(Within(log, t)) \in Nat
  BY <1>1, PositionsAreFinite
<1>3. attempts >= MaxFailed
  BY <1>1, <1>2, OneStreak, LockoutAssumption
<1>4. lockedUntil = lastFailed + Lockout
  BY <1>3 DEF RowInv, RowFollowsTheLog
<1>5. PICK i : i \in Within(log, t)
  <2>1. Within(log, t) # {}
    BY <1>2, FS_EmptySet, LockoutAssumption DEF lockoutEnabled
  <2> QED
    BY <2>1
<1>6. i \in 1..Len(log) /\ t <= log[i] /\ log[i] <= log[Len(log)] /\ log[i] \in Nat
  BY <1>1, <1>5 DEF Within, RowInv, LogIsInOrder
<1>7. lastFailed = log[Len(log)] /\ lastFailed \in Nat
  BY <1>1, <1>6 DEF RowInv, RowFollowsTheLog
<1> QED
  BY <1>1, <1>4, <1>6, <1>7, LockoutAssumption, SMTT(30) DEF Locked

(* Nobody new is comparing and the log is the same.                         *)
LEMMA CountStays ==
  ASSUME CountInv, RowInv', UNCHANGED <<now, row, log>>, Comparing' \subseteq Comparing
  PROVE  CountInv'
<1> SUFFICES ASSUME Window >= Lockout
             PROVE  RoomIsLeft' /\ GuessesAreBounded'
  BY DEF CountInv
<1>1. Cardinality(Comparing') <= Cardinality(Comparing)
      /\ Cardinality(Comparing') \in Nat /\ Cardinality(Comparing) \in Nat
  <2>1. Comparing \in SUBSET Calls /\ Comparing' \in SUBSET Comparing
    BY DEF Comparing
  <2> QED
    BY <2>1, ComparingIsFinite, FS_Subset, FS_CardinalityType
<1>2. now \in Nat /\ log \in Seq(Nat)
  BY DEF CountInv, RowInv, IInv, TypeOK
<1>3. \A t : Cardinality(Within(log, t)) \in Nat
  BY <1>2, PositionsAreFinite
<1>4. Cardinality(Calls) \in Nat
  BY ComparingIsFinite
<1>5. RoomIsLeft'
  <2> SUFFICES ASSUME lockoutEnabled, NEW t \in 0..now, now < t + Lockout
               PROVE  Cardinality(Within(log, t)) + Cardinality(Comparing')
                        <= MaxFailed + Cardinality(Calls) - 1
    BY DEF RoomIsLeft, lockoutEnabled, Within
  <2>1. Cardinality(Within(log, t)) + Cardinality(Comparing) <= MaxFailed + Cardinality(Calls) - 1
    BY DEF CountInv, RoomIsLeft
  <2>2. Cardinality(Within(log, t)) \in Nat
    BY <1>3
  <2> QED
    BY <1>1, <1>4, <2>1, <2>2, LockoutAssumption
<1>6. GuessesAreBounded'
  BY DEF CountInv, GuessesAreBounded, lockoutEnabled
<1> QED
  BY <1>5, <1>6

(* A stretch with room for all requests.                                    *)
LEMMA RoomForAll ==
  ASSUME NEW n \in Nat, NEW S \in SUBSET Calls, n + 1 <= MaxFailed
  PROVE  n + Cardinality(S) <= MaxFailed + Cardinality(Calls) - 1
BY ComparingIsFinite, LockoutAssumption

LEMMA ReadCounts ==
  ASSUME CountInv, RowInv', NEW c \in Calls, NEW right \in BOOLEAN, LoginRead(c, right)
  PROVE  CountInv'
<1> SUFFICES ASSUME Window >= Lockout
             PROVE  RoomIsLeft' /\ GuessesAreBounded'
  BY DEF CountInv
<1>0. UNCHANGED <<now, row, log>>
  BY DEF LoginRead
<1>1. ASSUME lockoutEnabled, NEW t \in 0..now, now < t + Lockout
      PROVE  Cardinality(Within(log, t)) + Cardinality(Comparing')
               <= MaxFailed + Cardinality(Calls) - 1
  <2>1. ~Locked
    BY <1>1 DEF LoginRead
  <2>2. Cardinality(Within(log, t)) \in Nat
    BY PositionsAreFinite DEF CountInv, RowInv, IInv, TypeOK
  <2>3. ~(Cardinality(Within(log, t)) >= MaxFailed)
    BY <1>1, <2>1, FullStretchIsLocked DEF CountInv
  <2>4. Comparing' \in SUBSET Calls
    BY DEF Comparing
  <2> QED
    BY <2>2, <2>3, <2>4, RoomForAll, LockoutAssumption
<1>2. RoomIsLeft'
  BY <1>0, <1>1 DEF RoomIsLeft, lockoutEnabled, Within
<1>3. GuessesAreBounded'
  BY <1>0 DEF CountInv, GuessesAreBounded, lockoutEnabled
<1> QED
  BY <1>2, <1>3

(* A failure takes the place its request had.                               *)
LEMMA FailureTakesItsPlace ==
  ASSUME CountInv, RowInv', NEW c \in Calls, RecordFailedLogin(c), lockoutEnabled
  PROVE  CountInv'
<1> SUFFICES ASSUME Window >= Lockout
             PROVE  RoomIsLeft' /\ GuessesAreBounded'
  BY DEF CountInv
<1> DEFINE B == MaxFailed + Cardinality(Calls) - 1
<1>1. log' = Append(log, now) /\ now' = now /\ now \in Nat /\ log \in Seq(Nat)
  BY DEF RecordFailedLogin, CountInv, RowInv, IInv, TypeOK
<1>2. c \in Comparing /\ Comparing \in SUBSET Calls /\ Comparing' = Comparing \ {c}
  BY DEF RecordFailedLogin, Finish, Comparing, Idle, CountInv, RowInv, IInv, TypeOK
<1>3. /\ Cardinality(Comparing') = Cardinality(Comparing) - 1
      /\ Cardinality(Comparing) \in Nat /\ Cardinality(Comparing') \in Nat
      /\ Cardinality(Calls) \in Nat
  BY <1>2, ComparingIsFinite, FS_RemoveElement, FS_CardinalityType
<1>4. ASSUME NEW t \in 0..now
      PROVE  /\ Cardinality(Within(log', t)) \in Nat
             /\ now < t + Lockout =>
                  /\ Cardinality(Within(log', t)) + Cardinality(Comparing') <= B
                  /\ Cardinality(Within(log', t)) <= B
             /\ ~(now < t + Lockout) => Within(log', t) = Within(log, t)
  <2>1. /\ IsFiniteSet(Within(log, t)) /\ Cardinality(Within(log, t)) \in Nat
    BY <1>1, PositionsAreFinite
  <2>2. Within(log', t) = IF now < t + Lockout THEN Within(log, t) \cup {Len(log) + 1}
                          ELSE Within(log, t)
    BY <1>1, <1>4, StretchGrows
  <2>3. Len(log) + 1 \notin Within(log, t)
    BY <1>1 DEF Within
  <2>4. CASE ~(now < t + Lockout)
    BY <2>1, <2>2, <2>4
  <2>5. CASE now < t + Lockout
    <3>1. Cardinality(Within(log', t)) = Cardinality(Within(log, t)) + 1
      BY <2>1, <2>2, <2>3, <2>5, FS_AddElement
    <3>2. Cardinality(Within(log, t)) + Cardinality(Comparing) <= B
      BY <1>4, <2>5 DEF CountInv, RoomIsLeft
    <3> QED
      BY <1>3, <2>1, <2>5, <3>1, <3>2, LockoutAssumption
  <2> QED
    BY <2>4, <2>5
<1>5. RoomIsLeft'
  BY <1>1, <1>4 DEF RoomIsLeft
<1>6. GuessesAreBounded'
  <2> SUFFICES ASSUME NEW t \in 0..now
               PROVE  Cardinality(Within(log', t)) <= B
    BY <1>1 DEF GuessesAreBounded, Within
  <2>1. Cardinality(Within(log, t)) <= B
    BY DEF CountInv, GuessesAreBounded, Within
  <2> QED
    BY <1>4, <2>1
<1> QED
  BY <1>5, <1>6

(* Where nothing is recorded there is room for everybody.                   *)
LEMMA EmptyLogCounts ==
  ASSUME RowInv, log = <<>>
  PROVE  CountInv
<1>1. \A t : Within(<<>>, t) = {}
  BY DEF Within
<1>2. \A t : Cardinality(Within(log, t)) = 0
  BY <1>1, FS_EmptySet
<1>3. Comparing \in SUBSET Calls
  BY DEF Comparing
<1>4. lockoutEnabled => 0 + Cardinality(Comparing) <= MaxFailed + Cardinality(Calls) - 1
                        /\ 0 <= MaxFailed + Cardinality(Calls) - 1
  BY <1>3, RoomForAll, ComparingIsFinite, LockoutAssumption DEF lockoutEnabled
<1> QED
  BY <1>2, <1>4 DEF CountInv, RoomIsLeft, GuessesAreBounded, Within

(* The stretch that begins now is empty, the others go on or are over.      *)
LEMMA TickCounts ==
  ASSUME CountInv, RowInv', Tick
  PROVE  CountInv'
<1> SUFFICES ASSUME Window >= Lockout, lockoutEnabled
             PROVE  RoomIsLeft' /\ GuessesAreBounded'
  BY DEF CountInv, RoomIsLeft, GuessesAreBounded, lockoutEnabled
<1>1. /\ now' = now + 1 /\ log' = log /\ Comparing' = Comparing
      /\ now \in Nat /\ log \in Seq(Nat)
  BY DEF Tick, Comparing, CountInv, RowInv, IInv, TypeOK
<1>2. Within(log, now + 1) = {}
  <2> SUFFICES ASSUME NEW i \in Within(log, now + 1)
               PROVE  FALSE
    OBVIOUS
  <2>1. i \in 1..Len(log) /\ now + 1 <= log[i] /\ log[i] \in Nat
    BY <1>1 DEF Within
  <2>2. log[i] <= now
    BY <2>1 DEF CountInv, RowInv, LogIsInOrder
  <2> QED
    BY <1>1, <2>1, <2>2
<1>3. Cardinality(Within(log, now + 1)) = 0
  BY <1>2, FS_EmptySet
<1>4. Comparing \in SUBSET Calls
  BY DEF Comparing
<1>5. /\ 0 + Cardinality(Comparing) <= MaxFailed + Cardinality(Calls) - 1
      /\ 0 <= MaxFailed + Cardinality(Calls) - 1
  BY <1>4, RoomForAll, ComparingIsFinite, LockoutAssumption DEF lockoutEnabled
<1>6. RoomIsLeft'
  <2> SUFFICES ASSUME NEW t \in 0..now + 1, now + 1 < t + Lockout
               PROVE  Cardinality(Within(log, t)) + Cardinality(Comparing)
                        <= MaxFailed + Cardinality(Calls) - 1
    BY <1>1 DEF RoomIsLeft, lockoutEnabled, Within
  <2>1. CASE t = now + 1
    BY <1>3, <1>5, <2>1
  <2>2. CASE t \in 0..now
    BY <1>1, <2>2, LockoutAssumption DEF CountInv, RoomIsLeft
  <2> QED
    BY <1>1, <2>1, <2>2
<1>7. GuessesAreBounded'
  <2> SUFFICES ASSUME NEW t \in 0..now + 1
               PROVE  Cardinality(Within(log, t)) <= MaxFailed + Cardinality(Calls) - 1
    BY <1>1 DEF GuessesAreBounded, Within
  <2>1. CASE t = now + 1
    BY <1>3, <1>5, <2>1
  <2>2. CASE t \in 0..now
    BY <2>2 DEF CountInv, GuessesAreBounded, Within
  <2> QED
    BY <1>1, <2>1, <2>2
<1> QED
  BY <1>6, <1>7

LEMMA NextCountInv == CountInv /\ [Next]_vars => CountInv'
<1> SUFFICES ASSUME CountInv, [Next]_vars
             PROVE  CountInv'
  OBVIOUS
<1>0. RowInv'
  BY NextRowInv DEF CountInv
<1>1. ASSUME NEW c \in Calls, NEW right \in BOOLEAN, LoginRead(c, right)
      PROVE  CountInv'
  BY <1>0, <1>1, ReadCounts
<1>2. ASSUME NEW c \in Calls, RecordFailedLogin(c)
      PROVE  CountInv'
  <2>1. CASE lockoutEnabled
    BY <1>0, <1>2, <2>1, FailureTakesItsPlace
  <2>2. CASE ~lockoutEnabled
    <3>1. UNCHANGED <<now, row, log>>
      BY <1>2, <2>2 DEF RecordFailedLogin
    <3>2. Comparing' \subseteq Comparing
      BY <1>2 DEF RecordFailedLogin, Finish, Comparing, Idle, CountInv, RowInv, IInv, TypeOK
    <3> QED
      BY <1>0, <3>1, <3>2, CountStays
  <2> QED
    BY <2>1, <2>2
<1>3. ASSUME NEW c \in Calls, UpdateLastLogin(c)
      PROVE  CountInv'
  <2>1. log' = <<>>
    BY <1>3 DEF UpdateLastLogin, ClearRow
  <2>2. (RowInv /\ log = <<>> => CountInv)'
    BY EmptyLogCounts, PTL
  <2> QED
    BY <1>0, <2>1, <2>2
<1>4. ASSUME NEW c \in Calls, LoginFails(c)
      PROVE  CountInv'
  <2>1. Comparing' \subseteq Comparing
    BY <1>4 DEF LoginFails, Finish, Comparing, Idle, CountInv, RowInv, IInv, TypeOK
  <2> QED
    BY <1>0, <1>4, <2>1, CountStays DEF LoginFails
<1>5. CASE ClearLockout
  <2>1. log' = <<>>
    BY <1>5 DEF ClearLockout, ClearRow
  <2>2. (RowInv /\ log = <<>> => CountInv)'
    BY EmptyLogCounts, PTL
  <2> QED
    BY <1>0, <2>1, <2>2
<1>6. CASE Tick
  BY <1>0, <1>6, TickCounts
<1>7. CASE UNCHANGED vars
  BY <1>0, <1>7, CountStays DEF vars, Comparing
<1> QED
  BY <1>1, <1>2, <1>3, <1>4, <1>5, <1>6, <1>7 DEF Next

(* What the lockout is for: with a streak that outlives the lock, and for   *)
(* every number of requests that race, the wrong passwords tried in any     *)
(* stretch as long as the lock are at most MaxFailed and one for each other *)
(* request.                                                                 *)
THEOREM GuessingIsBounded ==
  ASSUME Window >= Lockout
  PROVE  Spec => []GuessesAreBounded
<1>1. Init => CountInv
  <2>1. Init => log = <<>>
    BY DEF Init
  <2> QED
    BY <2>1, InitRowInv, EmptyLogCounts
<1>2. CountInv => GuessesAreBounded
  BY DEF CountInv
<1> QED
  BY <1>1, <1>2, NextCountInv, PTL DEF Spec

=============================================================================
