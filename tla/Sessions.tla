------------------------------ MODULE Sessions ------------------------------
(***************************************************************************)
(* Session tokens of the platform: identity-service mints JWTs on login,   *)
(* branch switch and password change and writes revocations to             *)
(* iam.token_blocklist; the api-gateway admits a request on the token and  *)
(* the blocklist alone (verifyJwtEdge); identity-service's own session     *)
(* routes also check the account, the branch and the password watermark    *)
(* (resolveSession).                                                       *)
(*                                                                         *)
(* Every await of a handler that separates a read from a later write is a  *)
(* step boundary here, so handlers of concurrent requests interleave.      *)
(* Time is counted in ticks, TicksPerSecond of them per second: JWT claims *)
(* carry whole seconds, database timestamps do not.                        *)
(*                                                                         *)
(* Left out: failed logins and account lockout (module LoginLockout), what *)
(* a token's role may do, the audit log, cookies other than who holds a    *)
(* token.  One clock serves the services and the database.                 *)
(***************************************************************************)
EXTENDS Naturals, FiniteSets

CONSTANTS
  Users, Orgs, Tenants,
  HomeOrg,         \* iam.users.org_id
  TenantOf,        \* entity.organizations.tenant_id
  PlatformRole,    \* iam.users.platform_role
  Jti,             \* the UUIDs signJwt may draw
  Calls,           \* requests identity-service handles at the same time
  None,            \* SQL NULL
  AdminKinds,      \* the administrative changes a run exercises
  TicksPerSecond,
  MaxAge,          \* JWT_MAX_AGE_SECONDS, in ticks
  MaxTime,         \* bound on the clock
  MaxEpoch,        \* bound on the number of passwords a user ever has
  MaxBulk          \* bound: an administrator acts while the blocklist holds
                   \* fewer bulk rows than this

Roles == {"member", "tenant_admin", "super_admin"}
MappingStates == {"none", "inactive", "active"}
Kinds == {"reset", "deactivate", "delete", "unmap", "role"}

ASSUME ScopeAssumption ==
  /\ HomeOrg \in [Users -> Orgs]
  /\ TenantOf \in [Orgs -> Tenants]
  /\ PlatformRole \in [Users -> Roles]
  /\ AdminKinds \subseteq Kinds

ASSUME TimeAssumption ==
  /\ TicksPerSecond \in Nat \ {0}
  /\ MaxAge \in Nat \ {0}
  /\ MaxTime \in Nat
  /\ MaxEpoch \in Nat
  /\ MaxBulk \in Nat

VARIABLES
  now,        \* the clock
  account,    \* iam.users: what the session code reads of a user's row
  mapping,    \* iam.user_org_mapping: each user's row per branch
  claims,     \* the claims signed under each jti, None before it is drawn
  held,       \* the jtis that reached a client in a cookie
  blocklist,  \* iam.token_blocklist
  calls,      \* the requests in flight
  retired,    \* history: jtis whose own revocation has been written
  cutoff,     \* history: per user, the latest bulk revocation written
  shutOut     \* history: per user, the password in force at that write

history == <<retired, cutoff, shutOut>>
vars == <<now, account, mapping, claims, held, blocklist, calls, history>>

----------------------------------------------------------------------------
(* Data.                                                                   *)

\* epoch (which password is current) and setAt (since when) are history.
Account == [epoch: Nat, setAt: Nat, changedAt: Nat, active: BOOLEAN,
            deleted: BOOLEAN]

\* epoch (which password) and session (the login a token descends
\* from) are history: no code reads them.
Claims == [user: Users, org: Orgs, iat: Nat, exp: Nat, pwdIat: Nat,
           epoch: Nat, session: Jti]

ASSUME NoneAssumption ==
  None \notin Users \cup Orgs \cup Tenants \cup Jti \cup Claims

Row == [jti: Jti \cup {None}, user: Users \cup {None}, org: Orgs \cup {None},
        tenant: Tenants \cup {None}, revokedAt: Nat, expiresAt: Nat]

Pcs == {"idle", "login_read",
        "switch_verified", "switch_loaded", "switch_resolved", "switch_minted",
        "change_admitted", "change_read", "change_persisted", "change_minted",
        "role_stamped", "admin_written"}

Call == [pc: Pcs, user: Users \cup {None}, org: Orgs \cup {None},
         old: Jti \cup {None}, new: Jti \cup {None},
         epoch: Nat, stamp: Nat, kind: Kinds \cup {None}]

Idle == [pc |-> "idle", user |-> None, org |-> None, old |-> None,
         new |-> None, epoch |-> 0, stamp |-> 0, kind |-> None]

Minted == {j \in Jti : claims[j] # None}

\* Math.floor(getTime() / 1000), and the iat jsonwebtoken stamps.
FloorSec(t) == t - (t % TicksPerSecond)

----------------------------------------------------------------------------
(* What the services read.                                                 *)

\* findUser's access predicate: home branch, active mapping, a tenant-wide role
\* inside its tenant when the caller passed the actor's role, or super_admin.
CanAccess(u, o, tenantWideActor) ==
  \/ o = HomeOrg[u]
  \/ mapping[u][o] = "active"
  \/ tenantWideActor /\ TenantOf[o] = TenantOf[HomeOrg[u]]
  \/ PlatformRole[u] = "super_admin"

\* isTenantWideRole of the platform_role a token of u carries.
TenantWide(u) == PlatformRole[u] # "member"

\* The user's row is found, in the context of a branch.
FindUser(u, o, tenantWideActor) ==
  ~account[u].deleted /\ CanAccess(u, o, tenantWideActor)

\* The EXISTS query over the blocklist.
IsTokenRevoked(j) ==
  LET t == claims[j] IN
  \E r \in blocklist :
    /\ r.expiresAt > now
    /\ \/ r.jti = j
       \/ /\ r.jti = None
          /\ r.revokedAt > t.iat
          /\ \/ r.user = t.user
             \/ r.org = t.org
             \/ r.tenant = TenantOf[t.org]

Expired(j) == now >= claims[j].exp

\* The gateway's whole verdict on a token.
VerifyJwtEdge(j) == ~Expired(j) /\ ~IsTokenRevoked(j)

\* Mutant: the password watermark is not compared.
SessionUserValidNoWatermark(j) ==
  LET t == claims[j] IN
  /\ FindUser(t.user, t.org, TenantWide(t.user))
  /\ account[t.user].active

\* resolveSession after the blocklist: account, branch, password watermark.
SessionUserValid(j) ==
  LET t == claims[j] IN
  /\ FindUser(t.user, t.org, TenantWide(t.user))
  /\ account[t.user].active
  /\ t.pwdIat >= FloorSec(account[t.user].changedAt)

\* What /auth/me, /auth/my-orgs and /auth/switch-org accept.
ResolveSession(j) == VerifyJwtEdge(j) /\ SessionUserValid(j)

----------------------------------------------------------------------------
(* What they write.                                                        *)

\* Mutant: the new token keeps the jti of the session it continues.
SignJwtReusing(j, u, o, changedAt, epoch, session) ==
  /\ session = j \/ claims[j] = None
  /\ claims' = [claims EXCEPT ![session] =
       [user |-> u, org |-> o, iat |-> FloorSec(now),
        exp |-> FloorSec(now) + MaxAge, pwdIat |-> FloorSec(changedAt),
        epoch |-> epoch, session |-> session]]

\* Signs under a jti never drawn before.
SignJwt(j, u, o, changedAt, epoch, session) ==
  /\ claims[j] = None
  /\ claims' = [claims EXCEPT ![j] =
       [user |-> u, org |-> o, iat |-> FloorSec(now),
        exp |-> FloorSec(now) + MaxAge, pwdIat |-> FloorSec(changedAt),
        epoch |-> epoch, session |-> session]]

\* Mutant: two rows without a jti conflict with each other.
RevokeTokenNullsConflict(row) ==
  blocklist' = IF \E r \in blocklist : r.jti = row.jti
               THEN blocklist
               ELSE blocklist \cup {row}

\* INSERT ... ON CONFLICT (jti) WHERE jti IS NOT NULL DO NOTHING.
RevokeToken(row) ==
  blocklist' = IF row.jti # None /\ \E r \in blocklist : r.jti = row.jti
               THEN blocklist
               ELSE blocklist \cup {row}

\* One token's revocation; user, branch and tenant are audit context.
RevokeJti(j) ==
  /\ RevokeToken([jti |-> j, user |-> claims[j].user, org |-> claims[j].org,
                  tenant |-> TenantOf[claims[j].org],
                  revokedAt |-> now, expiresAt |-> claims[j].exp])
  /\ retired' = retired \cup {j}
  /\ UNCHANGED <<cutoff, shutOut>>

\* A jti-less row that names the user only.
RevokeAllUserSessions(u, at) ==
  /\ RevokeToken([jti |-> None, user |-> u, org |-> None, tenant |-> None,
                  revokedAt |-> at, expiresAt |-> now + MaxAge])
  /\ cutoff' = [cutoff EXCEPT ![u] = IF at > @ THEN at ELSE @]
  /\ shutOut' = [shutOut EXCEPT ![u] = account[u].epoch]
  /\ UNCHANGED retired

\* UPDATE iam.users SET password_hash, password_changed_at.
SetPassword(u) ==
  /\ account[u].epoch < MaxEpoch
  /\ account' = [account EXCEPT ![u].epoch = @ + 1, ![u].setAt = now,
                                ![u].changedAt = now]

BulkBound == Cardinality({r \in blocklist : r.jti = None}) < MaxBulk

Begin(c, call) == calls[c] = Idle /\ calls' = [calls EXCEPT ![c] = call]
Goto(c, call) == calls' = [calls EXCEPT ![c] = call]
Finish(c) == calls' = [calls EXCEPT ![c] = Idle]
At(c, pc) == calls[c].pc = pc

----------------------------------------------------------------------------
Init ==
  /\ now = 0
  /\ account = [u \in Users |->
                  [epoch |-> 0, setAt |-> 0, changedAt |-> 0, active |-> TRUE,
                   deleted |-> FALSE]]
  /\ mapping = [u \in Users |-> [o \in Orgs |->
                  IF \/ o = HomeOrg[u]
                     \/ /\ PlatformRole[u] = "tenant_admin"
                        /\ TenantOf[o] = TenantOf[HomeOrg[u]]
                  THEN "active" ELSE "none"]]
  /\ claims = [j \in Jti |-> None]
  /\ held = {}
  /\ blocklist = {}
  /\ calls = [c \in Calls |-> Idle]
  /\ retired = {}
  /\ cutoff = [u \in Users |-> 0]
  /\ shutOut = [u \in Users |-> 0]

(* POST /auth/login with the right password: one read of the user's row     *)
(* (branch given or home), then bcrypt and the licence query, then signJwt  *)
(* from that row.                                                           *)
LoginRead(c, u, o) ==
  /\ FindUser(u, o, FALSE)
  /\ account[u].active
  /\ Begin(c, [Idle EXCEPT !.pc = "login_read", !.user = u, !.org = o,
                            !.epoch = account[u].epoch,
                            !.stamp = account[u].changedAt])
  /\ UNCHANGED <<now, account, mapping, claims, held, blocklist, history>>

LoginIssue(c, j) ==
  LET call == calls[c] IN
  /\ At(c, "login_read")
  /\ SignJwt(j, call.user, call.org, call.stamp, call.epoch, j)
  /\ held' = held \cup {j}
  /\ Finish(c)
  /\ UNCHANGED <<now, account, mapping, blocklist, history>>

(* POST /auth/switch-org: verify the cookie's token, load the session user, *)
(* load the user in the target branch, sign the new token, retire the old.  *)
SwitchVerify(c, j, o) ==
  /\ j \in held
  /\ VerifyJwtEdge(j)
  /\ Begin(c, [Idle EXCEPT !.pc = "switch_verified", !.user = claims[j].user,
                            !.org = o, !.old = j])
  /\ UNCHANGED <<now, account, mapping, claims, held, blocklist, history>>

SwitchLoad(c) ==
  /\ At(c, "switch_verified")
  /\ IF SessionUserValid(calls[c].old)
     THEN Goto(c, [calls[c] EXCEPT !.pc = "switch_loaded"])
     ELSE Finish(c)
  /\ UNCHANGED <<now, account, mapping, claims, held, blocklist, history>>

SwitchTarget(c) ==
  LET call == calls[c] IN
  /\ At(c, "switch_loaded")
  /\ IF FindUser(call.user, call.org, TenantWide(call.user))
     THEN Goto(c, [call EXCEPT !.pc = "switch_resolved",
                               !.epoch = claims[call.old].epoch,
                               !.stamp = account[call.user].changedAt])
     ELSE Finish(c)
  /\ UNCHANGED <<now, account, mapping, claims, held, blocklist, history>>

SwitchMint(c, j) ==
  LET call == calls[c] IN
  /\ At(c, "switch_resolved")
  /\ SignJwt(j, call.user, call.org, call.stamp, call.epoch,
             claims[call.old].session)
  /\ Goto(c, [call EXCEPT !.pc = "switch_minted", !.new = j])
  /\ UNCHANGED <<now, account, mapping, held, blocklist, history>>

SwitchRetire(c) ==
  /\ At(c, "switch_minted")
  /\ RevokeJti(calls[c].old)
  /\ held' = held \cup {calls[c].new}
  /\ Finish(c)
  /\ UNCHANGED <<now, account, mapping, claims>>

(* POST /auth/change-password: the gateway admits the token, the handler    *)
(* reads the row and compares the current password, then persists, signs    *)
(* and revokes.  The last step is best effort: its failure is swallowed.    *)
ChangeAdmit(c, j) ==
  /\ j \in held
  /\ VerifyJwtEdge(j)
  /\ Begin(c, [Idle EXCEPT !.pc = "change_admitted", !.user = claims[j].user])
  /\ UNCHANGED <<now, account, mapping, claims, held, blocklist, history>>

ChangeRead(c) ==
  LET u == calls[c].user IN
  /\ At(c, "change_admitted")
  /\ IF account[u].deleted
     THEN Finish(c)
     ELSE Goto(c, [calls[c] EXCEPT !.pc = "change_read"])
  /\ UNCHANGED <<now, account, mapping, claims, held, blocklist, history>>

\* The UPDATE has no condition on the hash that was compared.
ChangePersist(c) ==
  LET u == calls[c].user IN
  /\ At(c, "change_read")
  /\ SetPassword(u)
  /\ Goto(c, [calls[c] EXCEPT !.pc = "change_persisted",
                               !.epoch = account[u].epoch + 1, !.stamp = now])
  /\ UNCHANGED <<now, mapping, claims, held, blocklist, history>>

ChangeMint(c, j) ==
  LET call == calls[c] IN
  /\ At(c, "change_persisted")
  /\ SignJwt(j, call.user, HomeOrg[call.user], call.stamp, call.epoch, j)
  /\ Goto(c, [call EXCEPT !.pc = "change_minted", !.new = j])
  /\ UNCHANGED <<now, account, mapping, held, blocklist, history>>

\* Mutant: the revocation takes effect at NOW().
ChangeRevokeNow(c) ==
  LET call == calls[c] IN
  /\ At(c, "change_minted")
  /\ RevokeAllUserSessions(call.user, now)
  /\ held' = held \cup {call.new}
  /\ Finish(c)
  /\ UNCHANGED <<now, account, mapping, claims>>

\* revokedAt is the new token's own iat.
ChangeRevoke(c) ==
  LET call == calls[c] IN
  /\ At(c, "change_minted")
  /\ RevokeAllUserSessions(call.user, claims[call.new].iat)
  /\ held' = held \cup {call.new}
  /\ Finish(c)
  /\ UNCHANGED <<now, account, mapping, claims>>

ChangeRevokeFails(c) ==
  /\ At(c, "change_minted")
  /\ held' = held \cup {calls[c].new}
  /\ Finish(c)
  /\ UNCHANGED <<now, account, mapping, claims, blocklist, history>>

(* POST /auth/logout: the gateway and then identity-service insert the same *)
(* row, each tolerating the other's and each other's failure.               *)
Logout(j) ==
  /\ j \in held
  /\ ~Expired(j)
  /\ RevokeJti(j)
  /\ UNCHANGED <<now, account, mapping, claims, held, calls>>

(* updateUser, deleteUser, resetPassword, removeOrgMapping: the change is   *)
(* committed first, the bulk revocation is a second transaction.  A delete  *)
(* by an administrator whose session is in another branch than the user's   *)
(* home matches no user row and goes on; an unmap repeated on an inactive   *)
(* mapping succeeds again.                                                  *)
AdminWrite(c, kind, u, o) ==
  /\ kind \in AdminKinds \ {"role"}
  /\ BulkBound
  /\ ~account[u].deleted
  /\ Begin(c, [Idle EXCEPT !.pc = "admin_written", !.user = u, !.kind = kind])
  /\ \/ /\ kind = "reset"
        /\ SetPassword(u)
        /\ UNCHANGED mapping
     \/ /\ kind = "deactivate"
        /\ account' = [account EXCEPT ![u].active = FALSE]
        /\ UNCHANGED mapping
     \/ /\ kind = "delete"
        /\ \/ account' = [account EXCEPT ![u].active = FALSE, ![u].deleted = TRUE]
           \/ UNCHANGED account
        /\ mapping' = [mapping EXCEPT ![u] = [p \in Orgs |->
             IF @[p] = "active" THEN "inactive" ELSE @[p]]]
     \/ /\ kind = "unmap"
        /\ mapping[u][o] # "none"
        /\ mapping' = [mapping EXCEPT ![u][o] = "inactive"]
        /\ UNCHANGED account
  /\ UNCHANGED <<now, claims, held, blocklist, history>>

\* A role change takes password_changed_at from the service's clock when the
\* request starts and writes it several awaits later.
RoleStamp(c, u) ==
  /\ "role" \in AdminKinds
  /\ BulkBound
  /\ ~account[u].deleted
  /\ Begin(c, [Idle EXCEPT !.pc = "role_stamped", !.user = u, !.kind = "role",
                            !.stamp = now])
  /\ UNCHANGED <<now, account, mapping, claims, held, blocklist, history>>

RoleWrite(c) ==
  LET call == calls[c] IN
  /\ At(c, "role_stamped")
  /\ IF account[call.user].deleted
     THEN Finish(c) /\ UNCHANGED account
     ELSE /\ account' = [account EXCEPT ![call.user].changedAt = call.stamp]
          /\ Goto(c, [call EXCEPT !.pc = "admin_written"])
  /\ UNCHANGED <<now, mapping, claims, held, blocklist, history>>

AdminRevoke(c) ==
  /\ At(c, "admin_written")
  /\ RevokeAllUserSessions(calls[c].user, now)
  /\ Finish(c)
  /\ UNCHANGED <<now, account, mapping, claims, held>>

\* updateUser with is_active = true, and addOrgMapping: nothing is revoked.
Reactivate(u) ==
  /\ ~account[u].deleted /\ ~account[u].active
  /\ account' = [account EXCEPT ![u].active = TRUE]
  /\ UNCHANGED <<now, mapping, claims, held, blocklist, calls, history>>

AddOrgMapping(u, o) ==
  /\ ~account[u].deleted
  /\ mapping[u][o] # "active"
  /\ mapping' = [mapping EXCEPT ![u][o] = "active"]
  /\ UNCHANGED <<now, account, claims, held, blocklist, calls, history>>

(* A query throws or the process dies between two steps of a request: the   *)
(* client gets no token, what was committed stays.                          *)
CallFails(c) ==
  /\ calls[c] # Idle
  /\ Finish(c)
  /\ UNCHANGED <<now, account, mapping, claims, held, blocklist, history>>

\* iam.purge_expired_token_blocklist.
PurgeExpiredTokenBlocklist ==
  /\ \E r \in blocklist : r.expiresAt < now
  /\ blocklist' = {r \in blocklist : r.expiresAt >= now}
  /\ UNCHANGED <<now, account, mapping, claims, held, calls, history>>

Tick ==
  /\ now < MaxTime
  /\ now' = now + 1
  /\ UNCHANGED <<account, mapping, claims, held, blocklist, calls, history>>

CallStep(c) ==
  \/ \E u \in Users, o \in Orgs : LoginRead(c, u, o)
  \/ \E j \in Jti : LoginIssue(c, j) \/ SwitchMint(c, j) \/ ChangeMint(c, j)
  \/ \E j \in Jti, o \in Orgs : SwitchVerify(c, j, o)
  \/ SwitchLoad(c) \/ SwitchTarget(c) \/ SwitchRetire(c)
  \/ \E j \in Jti : ChangeAdmit(c, j)
  \/ ChangeRead(c) \/ ChangePersist(c) \/ ChangeRevoke(c) \/ ChangeRevokeFails(c)
  \/ \E kind \in Kinds, u \in Users, o \in Orgs : AdminWrite(c, kind, u, o)
  \/ \E u \in Users : RoleStamp(c, u)
  \/ RoleWrite(c) \/ AdminRevoke(c)
  \/ CallFails(c)

Next ==
  \/ \E c \in Calls : CallStep(c)
  \/ \E j \in Jti : Logout(j)
  \/ \E u \in Users : Reactivate(u)
  \/ \E u \in Users, o \in Orgs : AddOrgMapping(u, o)
  \/ PurgeExpiredTokenBlocklist
  \/ Tick

Spec == Init /\ [][Next]_vars

----------------------------------------------------------------------------
(* Properties.                                                             *)

(* The password watermark is never NULL, so floor(password_changed_at) can  *)
(* be compared for every user; a token is held by a client only after it    *)
(* was signed, and only tokens a client held are retired.                   *)
TypeOK ==
  /\ now \in Nat
  /\ account \in [Users -> Account]
  /\ mapping \in [Users -> [Orgs -> MappingStates]]
  /\ claims \in [Jti -> Claims \cup {None}]
  /\ held \in SUBSET Minted
  /\ blocklist \in SUBSET Row
  /\ calls \in [Calls -> Call]
  /\ retired \in SUBSET held
  /\ cutoff \in [Users -> Nat]
  /\ shutOut \in [Users -> Nat]

(* The blocklist query refuses exactly the unexpired tokens that were       *)
(* retired themselves or were issued in a second before the latest bulk     *)
(* revocation of their own user: rows expire and are purged no earlier than *)
(* the tokens they refuse, one session's logout row (which carries user,    *)
(* branch and tenant as audit context) never ends another session, and one  *)
(* user's bulk row never reaches another user of the branch or tenant.      *)
RevocationIsExact ==
  \A j \in Minted :
    ~Expired(j) =>
      (IsTokenRevoked(j) <=> \/ j \in retired
                             \/ claims[j].iat < cutoff[claims[j].user])

(* A token the gateway refuses is refused for ever: neither the purge job   *)
(* nor the clock, a reactivation, a new mapping or a later revocation of    *)
(* anything brings a session back.                                          *)
EdgeRefusalIsFinal ==
  [][\A j \in Minted : ~VerifyJwtEdge(j) => ~VerifyJwtEdge(j)']_vars

(* A self-service password change does not log out its own caller: if the   *)
(* replacement token was acceptable when changePassword came to revoke the  *)
(* other sessions, it still is after that revocation.                       *)
ReplacementSurvivesItsOwnRevocation ==
  [][\A c \in Calls, j \in Minted :
       /\ At(c, "change_minted") /\ calls[c].new = j
       /\ VerifyJwtEdge(j)
       /\ j \in held'
       => VerifyJwtEdge(j)']_vars

(* The password watermark: identity-service honours a token that a login    *)
(* minted under an earlier password only if it was minted from a row        *)
(* written in the very second the watermark stands at.  A role change that  *)
(* overtook a password change may have moved the watermark back behind the  *)
(* moment the password was set; then it guards nothing.                     *)
WatermarkEndsEarlierLogins ==
  \A j \in Minted :
    LET t == claims[j]
        a == account[t.user] IN
    /\ ResolveSession(j)
    /\ t.session = j
    /\ t.epoch < a.epoch
    /\ a.changedAt >= a.setAt
    => t.pwdIat = FloorSec(a.changedAt)

(* The whole of it: seen through the gateway's verdict, every step of every *)
(* request, of an administrator, the purge job and the clock is a step of   *)
(* TokenRegistry or changes nothing.                                        *)
Registry == INSTANCE TokenRegistry WITH
  Tokens <- Jti,
  issued <- [j \in Jti |->
               IF claims[j] = None THEN None
               ELSE [user |-> claims[j].user, iat |-> claims[j].iat]],
  live <- {j \in Minted : VerifyJwtEdge(j)}

ImplementsTokenRegistry == Registry!Spec

(* A comment's promise that the code does not keep; a run refutes it.       *)

(* resetPassword: "Force the target's existing sessions to end immediately  *)
(* so a reset ... actually locks the user out everywhere".  A token that    *)
(* descends, by branch switches, from a login under a password a reset      *)
(* replaced is not honoured once the reset's bulk revocation is written     *)
(* (off a second boundary, where one tick decides).                         *)
ResetEndsExistingSessions ==
  \A j \in Minted :
    LET t == claims[j] IN
    /\ t.session # j
    /\ t.epoch < shutOut[t.user]
    /\ cutoff[t.user] # FloorSec(cutoff[t.user])
    => ~ResolveSession(j)

============================================================================
