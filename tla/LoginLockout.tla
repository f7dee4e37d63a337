---------------------------- MODULE LoginLockout ----------------------------
(***************************************************************************)
(* The failed-login lockout of one account (identity-service, login and    *)
(* the auth repository).  A login request reads the user's row, refuses a  *)
(* locked account, spends a bcrypt comparison on the password, and only    *)
(* then writes the row again: the failure in one UPDATE that counts,       *)
(* decays and locks, the success in one that clears.  Requests overlap, so *)
(* a verdict may reach the row long after the lock it should have met.     *)
(*                                                                         *)
(* Left out: whether the account exists and is active and what a success   *)
(* is given (module Sessions), the identifier, the activity log.  One      *)
(* clock serves the service and the database.                              *)
(***************************************************************************)
EXTENDS Integers, Sequences, FiniteSets

CONSTANTS
  Calls,          \* login requests in flight at the same time
  None,           \* SQL NULL
  MaxFailed,      \* LOGIN_MAX_FAILED_ATTEMPTS, 0 to disable the lockout
  Lockout,        \* LOGIN_LOCKOUT_MINUTES, in ticks
  Window,         \* LOGIN_ATTEMPT_WINDOW_MINUTES, in ticks
  MaxTime,        \* bound on the clock
  MaxLog          \* bound on the failures recorded between two clears

ASSUME LockoutAssumption ==
  /\ IsFiniteSet(Calls)
  /\ MaxFailed \in Nat
  /\ Lockout \in Nat \ {0}
  /\ Window \in Nat \ {0}
  /\ MaxTime \in Nat
  /\ MaxLog \in Nat
  /\ None \notin Nat

VARIABLES
  now,
  attempts,       \* iam.users.failed_login_attempts
  lastFailed,     \* iam.users.last_failed_login_at
  lockedUntil,    \* iam.users.locked_until
  calls,          \* the logins between their read and their verdict
  log             \* history: when failures were recorded since the last clear

row == <<attempts, lastFailed, lockedUntil>>
vars == <<now, row, calls, log>>

Idle == [pc |-> "idle", right |-> FALSE]
Call == [pc: {"idle", "comparing"}, right: BOOLEAN]

lockoutEnabled == MaxFailed > 0

\* locked_until, if it is set, lies in the future.
Locked == lockedUntil # None /\ lockedUntil > now

\* The count after one more failure: a streak older than the window restarts.
NextAttempts ==
  IF lastFailed = None \/ lastFailed < now - Window THEN 1 ELSE attempts + 1

Finish(c) == calls' = [calls EXCEPT ![c] = Idle]

Init ==
  /\ now = 0
  /\ attempts = 0
  /\ lastFailed = None
  /\ lockedUntil = None
  /\ calls = [c \in Calls |-> Idle]
  /\ log = <<>>

\* Mutant: the lock is not checked.
LoginReadUnchecked(c, right) ==
  /\ calls[c] = Idle
  /\ calls' = [calls EXCEPT ![c] = [pc |-> "comparing", right |-> right]]
  /\ UNCHANGED <<now, row, log>>

\* The row is read, the lock is checked, the comparison begins.
LoginRead(c, right) ==
  /\ calls[c] = Idle
  /\ ~(lockoutEnabled /\ Locked)
  /\ calls' = [calls EXCEPT ![c] = [pc |-> "comparing", right |-> right]]
  /\ UNCHANGED <<now, row, log>>

\* Mutant: below the threshold locked_until keeps its old value.
RecordFailedLoginKeepsLock(c) ==
  /\ calls[c].pc = "comparing" /\ ~calls[c].right
  /\ Len(log) < MaxLog
  /\ Finish(c)
  /\ IF lockoutEnabled
     THEN /\ attempts' = NextAttempts
          /\ lastFailed' = now
          /\ lockedUntil' = IF NextAttempts >= MaxFailed
                            THEN now + Lockout ELSE lockedUntil
          /\ log' = Append(log, now)
     ELSE UNCHANGED <<row, log>>
  /\ UNCHANGED now

\* The wrong password: one UPDATE, every SET expression on the old row.
RecordFailedLogin(c) ==
  /\ calls[c].pc = "comparing" /\ ~calls[c].right
  /\ Len(log) < MaxLog
  /\ Finish(c)
  /\ IF lockoutEnabled
     THEN /\ attempts' = NextAttempts
          /\ lastFailed' = now
          /\ lockedUntil' = IF NextAttempts >= MaxFailed
                            THEN now + Lockout ELSE None
          /\ log' = Append(log, now)
     ELSE UNCHANGED <<row, log>>
  /\ UNCHANGED now

ClearRow ==
  /\ attempts' = 0
  /\ lastFailed' = None
  /\ lockedUntil' = None
  /\ log' = <<>>

\* The right password: updateLastLogin clears before the session is made.
UpdateLastLogin(c) ==
  /\ calls[c].pc = "comparing" /\ calls[c].right
  /\ Finish(c)
  /\ ClearRow
  /\ UNCHANGED now

\* clearLockout after a password change or an administrator's reset.
ClearLockout ==
  /\ attempts > 0
  /\ ClearRow
  /\ UNCHANGED <<now, calls>>

\* The query throws or the process dies: no verdict is written.
LoginFails(c) ==
  /\ calls[c] # Idle
  /\ Finish(c)
  /\ UNCHANGED <<now, row, log>>

Tick ==
  /\ now < MaxTime
  /\ now' = now + 1
  /\ UNCHANGED <<row, calls, log>>

Next ==
  \/ \E c \in Calls, right \in BOOLEAN : LoginRead(c, right)
  \/ \E c \in Calls : RecordFailedLogin(c) \/ UpdateLastLogin(c) \/ LoginFails(c)
  \/ ClearLockout
  \/ Tick

Spec == Init /\ [][Next]_vars

----------------------------------------------------------------------------
(* Properties.                                                             *)

(* The three lockout columns of the account: the count is NOT NULL, the two *)
(* timestamps are NULL or a time.                                           *)
TypeOK ==
  /\ now \in Nat
  /\ attempts \in Nat
  /\ lastFailed \in Nat \cup {None}
  /\ lockedUntil \in Nat \cup {None}
  /\ calls \in [Calls -> Call]
  /\ log \in Seq(Nat)

\* The current streak: the longest tail of the log without a gap above Window.
Streak ==
  LET starts == {i \in 1..Len(log) :
                   \A k \in i+1..Len(log) : log[k] - log[k-1] <= Window}
  IN  Cardinality(starts)

(* recordFailedLogin: "concurrent login attempts cannot interleave a        *)
(* read-modify-write and undercount".  However requests overlap, the row    *)
(* counts exactly the failures of the current streak and is locked for the  *)
(* lockout period from the last one once there are enough of them.          *)
RowFollowsTheLog ==
  /\ attempts = Streak
  /\ log # <<>> => lastFailed = log[Len(log)]
  /\ lockedUntil = IF lockoutEnabled /\ Streak >= MaxFailed
                   THEN lastFailed + Lockout ELSE None

(* What the lockout is for: between two clears, in any stretch as long as   *)
(* the lock and however many requests race, at most MaxFailed wrong         *)
(* passwords are tried, plus one for each other request that was past the   *)
(* lock check when the lock fell.                                           *)
GuessesAreBounded ==
  lockoutEnabled =>
    \A t \in 0..now :
      Cardinality({i \in 1..Len(log) : t <= log[i] /\ log[i] < t + Lockout})
        <= MaxFailed + Cardinality(Calls) - 1

(* A failure that was in flight when the lock fell may lengthen it and      *)
(* never shortens or lifts it, although its own UPDATE writes locked_until. *)
FailureNeverUnlocks ==
  [][Locked /\ attempts' > 0 =>
       lockedUntil' # None /\ lockedUntil' >= lockedUntil]_vars

(* config: "an expired lock hands back a full budget, rather than           *)
(* re-locking on the user's very next typo": with the default Window =      *)
(* Lockout, the first failure recorded after a lock ran out does not lock.  *)
ExpiredLockGivesFullBudget ==
  [][/\ MaxFailed >= 2
     /\ lockedUntil # None /\ now > lockedUntil
     /\ Len(log') > Len(log)
     => lockedUntil' = None]_vars

============================================================================
