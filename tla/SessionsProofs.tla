--------------------------- MODULE SessionsProofs ---------------------------
(***************************************************************************)
(* Theorems about Sessions, for any users, branches, tokens and requests.  *)
(***************************************************************************)
EXTENDS Sessions, TLAPS

LEMMA FloorSecBound ==
  ASSUME NEW t \in Nat
  PROVE  FloorSec(t) \in Nat /\ FloorSec(t) <= t
  <1>1. t % TicksPerSecond \in Nat /\ t % TicksPerSecond <= t
    BY TimeAssumption, SMT
  <1> QED BY <1>1 DEF FloorSec

Switching == {"switch_verified", "switch_loaded", "switch_resolved",
              "switch_minted"}

(* What a request that waits at a step remembers.                          *)
FieldsOK(call, H, M) ==
  /\ call.pc # "idle" => call.user \in Users
  /\ call.pc \in Switching \cup {"login_read"} => call.org \in Orgs
  /\ call.pc \in Switching => call.old \in H
  /\ call.pc \in {"switch_minted", "change_minted"} => call.new \in M

CallFields == \A c \in Calls : FieldsOK(calls[c], held, Minted)

Types == TypeOK /\ CallFields

LEMMA TypesInit == Init => Types
  BY TimeAssumption, ScopeAssumption
  DEF Init, Types, TypeOK, CallFields, FieldsOK, Account, MappingStates,
      Minted, Idle, Call, Pcs, Switching

(* One request's record changes, tokens are only added.                     *)
LEMMA CallChanged ==
  ASSUME Types, NEW c \in Calls, NEW call \in Call,
         calls' = [calls EXCEPT ![c] = call],
         FieldsOK(call, held', Minted'), Minted \subseteq Minted', held \subseteq held'
  PROVE  calls' \in [Calls -> Call] /\ CallFields'
  <1>1. calls \in [Calls -> Call] /\ CallFields
    BY DEF Types, TypeOK
  <1>2. ASSUME NEW d \in Calls, d # c PROVE FieldsOK(calls[d], held, Minted)'
    BY <1>1, <1>2 DEF CallFields, FieldsOK
  <1>3. FieldsOK(calls[c], held, Minted)'
    BY <1>1 DEF FieldsOK
  <1> QED BY <1>1, <1>2, <1>3 DEF CallFields

LEMMA CallDone ==
  ASSUME Types, NEW c \in Calls, Finish(c),
         Minted \subseteq Minted', held \subseteq held'
  PROVE  calls' \in [Calls -> Call] /\ CallFields'
  <1>1. Idle \in Call /\ FieldsOK(Idle, held', Minted')
    BY DEF Idle, Call, Pcs, FieldsOK, Switching
  <1> QED BY <1>1, CallChanged DEF Finish

LEMMA CallsKept ==
  ASSUME Types, UNCHANGED calls,
         Minted \subseteq Minted', held \subseteq held'
  PROVE  calls' \in [Calls -> Call] /\ CallFields'
  BY DEF Types, TypeOK, CallFields, FieldsOK

LEMMA CallType ==
  ASSUME Types, NEW c \in Calls
  PROVE  /\ calls[c] \in Call /\ FieldsOK(calls[c], held, Minted)
         /\ calls = [calls EXCEPT ![c] = calls[c]]
  BY DEF Types, TypeOK, CallFields

LEMMA SignJwtTypes ==
  ASSUME Types, NEW j \in Jti, NEW u \in Users, NEW o \in Orgs,
         NEW t \in Nat, NEW e \in Nat, NEW s \in Jti,
         SignJwt(j, u, o, t, e, s)
  PROVE  /\ claims' \in [Jti -> Claims \cup {None}]
         /\ Minted' = Minted \cup {j}
         /\ claims'[j] = [user |-> u, org |-> o, iat |-> FloorSec(now),
                          exp |-> FloorSec(now) + MaxAge,
                          pwdIat |-> FloorSec(t), epoch |-> e, session |-> s]
         /\ j \notin Minted
         /\ \A k \in Minted : claims'[k] = claims[k]
  <1> DEFINE new == [user |-> u, org |-> o, iat |-> FloorSec(now),
                     exp |-> FloorSec(now) + MaxAge,
                     pwdIat |-> FloorSec(t), epoch |-> e, session |-> s]
  <1>1. now \in Nat /\ claims \in [Jti -> Claims \cup {None}]
    BY DEF Types, TypeOK
  <1>2. FloorSec(now) \in Nat /\ FloorSec(t) \in Nat
    BY <1>1, FloorSecBound
  <1>3. new \in Claims
    BY <1>2, TimeAssumption DEF Claims
  <1>4. new # None
    BY <1>3, NoneAssumption
  <1> HIDE DEF new
  <1>5. claims[j] = None /\ claims' = [claims EXCEPT ![j] = new]
    BY DEF SignJwt, new
  <1>6. QED
    BY <1>1, <1>3, <1>4, <1>5 DEF Minted, new

LEMMA RevokeJtiTypes ==
  ASSUME Types, NEW j \in held, RevokeJti(j)
  PROVE  /\ blocklist' \in SUBSET Row
         /\ retired' = retired \cup {j}
         /\ UNCHANGED <<cutoff, shutOut>>
  <1>1. /\ now \in Nat /\ j \in Jti /\ claims[j] \in Claims
        /\ blocklist \in SUBSET Row
    BY DEF Types, TypeOK, Minted
  <1>2. [jti |-> j, user |-> claims[j].user, org |-> claims[j].org,
         tenant |-> TenantOf[claims[j].org],
         revokedAt |-> now, expiresAt |-> claims[j].exp] \in Row
    BY <1>1, ScopeAssumption DEF Row, Claims
  <1> QED BY <1>1, <1>2 DEF RevokeJti, RevokeToken

LEMMA RevokeAllTypes ==
  ASSUME Types, NEW u \in Users, NEW at \in Nat, RevokeAllUserSessions(u, at)
  PROVE  /\ blocklist' = blocklist \cup
              {[jti |-> None, user |-> u, org |-> None, tenant |-> None,
                revokedAt |-> at, expiresAt |-> now + MaxAge]}
         /\ blocklist' \in SUBSET Row
         /\ cutoff' \in [Users -> Nat] /\ shutOut' \in [Users -> Nat]
         /\ retired' = retired
  <1> DEFINE row == [jti |-> None, user |-> u, org |-> None, tenant |-> None,
                     revokedAt |-> at, expiresAt |-> now + MaxAge]
  <1>1. /\ now \in Nat /\ blocklist \in SUBSET Row
        /\ cutoff \in [Users -> Nat] /\ shutOut \in [Users -> Nat]
        /\ account[u].epoch \in Nat
    BY DEF Types, TypeOK, Account
  <1>2. row \in Row
    BY <1>1, TimeAssumption DEF Row
  <1>3. blocklist' = blocklist \cup {row}
    BY DEF RevokeAllUserSessions, RevokeToken
  <1>4. cutoff' \in [Users -> Nat] /\ shutOut' \in [Users -> Nat] /\ retired' = retired
    BY <1>1 DEF RevokeAllUserSessions
  <1> QED BY <1>1, <1>2, <1>3, <1>4

LEMMA SetPasswordTypes ==
  ASSUME Types, NEW u \in Users, SetPassword(u)
  PROVE  account' \in [Users -> Account]
  <1>1. account \in [Users -> Account] /\ now \in Nat
    BY DEF Types, TypeOK
  <1>2. account[u].epoch + 1 \in Nat
    BY <1>1 DEF Account
  <1> QED BY <1>1, <1>2, ZenonT(40) DEF SetPassword, Account

LEMMA TypesStep ==
  ASSUME Types, [Next]_vars
  PROVE  Types'
  <1>1. ASSUME NEW c \in Calls, NEW u \in Users, NEW o \in Orgs, LoginRead(c, u, o)
       PROVE  Types'
    <2> DEFINE call == [Idle EXCEPT !.pc = "login_read", !.user = u, !.org = o,
                              !.epoch = account[u].epoch,
                              !.stamp = account[u].changedAt]
    <2>1. call \in Call /\ FieldsOK(call, held', Minted')
      BY <1>1 DEF LoginRead, Types, TypeOK, Account, Idle, Call, Pcs, Kinds,
         FieldsOK, Switching, Minted
    <2>2. calls' = [calls EXCEPT ![c] = call]
      BY <1>1 DEF LoginRead, Begin, Goto
    <2> HIDE DEF call
    <2>3. calls' \in [Calls -> Call] /\ CallFields'
      BY <1>1, <2>1, <2>2, CallChanged DEF LoginRead, Minted
    <2> QED
      BY <1>1, <2>3 DEF LoginRead, Types, TypeOK, Minted, history
  <1>2. ASSUME NEW c \in Calls, NEW j \in Jti, LoginIssue(c, j)
       PROVE  Types'
    <2>1. /\ calls[c].user \in Users /\ calls[c].org \in Orgs
          /\ calls[c].stamp \in Nat /\ calls[c].epoch \in Nat
      BY <1>2, CallType DEF LoginIssue, At, FieldsOK, Call
    <2>2. SignJwt(j, calls[c].user, calls[c].org, calls[c].stamp,
                  calls[c].epoch, j)
      BY <1>2 DEF LoginIssue
    <2>3. /\ claims' \in [Jti -> Claims \cup {None}]
          /\ Minted' = Minted \cup {j}
      BY <2>1, <2>2, SignJwtTypes
    <2>4. calls' \in [Calls -> Call] /\ CallFields'
      BY <1>2, <2>3, CallDone DEF LoginIssue
    <2> QED
      BY <1>2, <2>3, <2>4 DEF LoginIssue, Types, TypeOK, history
  <1>3. ASSUME NEW c \in Calls, NEW j \in Jti, NEW o \in Orgs, SwitchVerify(c, j, o)
       PROVE  Types'
    <2> DEFINE call == [Idle EXCEPT !.pc = "switch_verified", !.user = claims[j].user,
                              !.org = o, !.old = j]
    <2>1. call \in Call /\ FieldsOK(call, held', Minted')
      BY <1>3 DEF SwitchVerify, Types, TypeOK, Account, Idle, Call, Pcs, Kinds,
         FieldsOK, Switching, Minted, Claims
    <2>2. calls' = [calls EXCEPT ![c] = call]
      BY <1>3 DEF SwitchVerify, Begin, Goto
    <2> HIDE DEF call
    <2>3. calls' \in [Calls -> Call] /\ CallFields'
      BY <1>3, <2>1, <2>2, CallChanged DEF SwitchVerify, Minted
    <2> QED
      BY <1>3, <2>3 DEF SwitchVerify, Types, TypeOK, Minted, history
  <1>4. ASSUME NEW c \in Calls, SwitchLoad(c)
       PROVE  Types'
    <2> DEFINE call == [calls[c] EXCEPT !.pc = "switch_loaded"]
    <2>1. held' = held /\ Minted' = Minted
      BY <1>4 DEF SwitchLoad, Minted
    <2>2. call \in Call /\ FieldsOK(call, held', Minted')
      BY <1>4, <2>1, CallType DEF SwitchLoad, At, Types, TypeOK, Account, Claims,
         Call, Pcs, FieldsOK, Switching, Minted
    <2>3. calls' = [calls EXCEPT ![c] = call] \/ Finish(c)
      BY <1>4 DEF SwitchLoad, Goto
    <2> HIDE DEF call
    <2>4. calls' \in [Calls -> Call] /\ CallFields'
      BY <2>1, <2>2, <2>3, CallChanged, CallDone
    <2> QED
      BY <1>4, <2>4 DEF SwitchLoad, Types, TypeOK, Minted, history
  <1>5. ASSUME NEW c \in Calls, SwitchTarget(c)
       PROVE  Types'
    <2> DEFINE call == [calls[c] EXCEPT !.pc = "switch_resolved",
                    !.epoch = claims[calls[c].old].epoch,
                    !.stamp = account[calls[c].user].changedAt]
    <2>1. held' = held /\ Minted' = Minted
      BY <1>5 DEF SwitchTarget, Minted
    <2>2. call \in Call /\ FieldsOK(call, held', Minted')
      <3>1. /\ calls[c].user \in Users /\ calls[c].org \in Orgs
            /\ calls[c].old \in held /\ calls[c] \in Call
        BY <1>5, CallType DEF SwitchTarget, At, FieldsOK, Switching
      <3>2. /\ account[calls[c].user] \in Account
            /\ claims[calls[c].old] \in Claims
        BY <3>1 DEF Types, TypeOK, Minted
      <3>3. /\ account[calls[c].user].changedAt \in Nat
            /\ claims[calls[c].old].epoch \in Nat
        BY <3>2 DEF Account, Claims
      <3> QED
        BY <2>1, <3>1, <3>3 DEF Call, Pcs, FieldsOK, Switching
    <2>3. calls' = [calls EXCEPT ![c] = call] \/ Finish(c)
      BY <1>5 DEF SwitchTarget, Goto
    <2> HIDE DEF call
    <2>4. calls' \in [Calls -> Call] /\ CallFields'
      BY <2>1, <2>2, <2>3, CallChanged, CallDone
    <2> QED
      BY <1>5, <2>4 DEF SwitchTarget, Types, TypeOK, Minted, history
  <1>6. ASSUME NEW c \in Calls, NEW j \in Jti, SwitchMint(c, j)
       PROVE  Types'
    <2> DEFINE call == [calls[c] EXCEPT !.pc = "switch_minted", !.new = j]
    <2>1. /\ calls[c].user \in Users /\ calls[c].org \in Orgs
          /\ calls[c].stamp \in Nat /\ calls[c].epoch \in Nat
          /\ calls[c].old \in held /\ calls[c] \in Call
      BY <1>6, CallType DEF SwitchMint, At, FieldsOK, Switching, Call
    <2>2. claims[calls[c].old].session \in Jti
      BY <2>1 DEF Types, TypeOK, Minted, Claims
    <2>3. SignJwt(j, calls[c].user, calls[c].org, calls[c].stamp,
                  calls[c].epoch, claims[calls[c].old].session)
      BY <1>6 DEF SwitchMint
    <2>4. /\ claims' \in [Jti -> Claims \cup {None}]
          /\ Minted' = Minted \cup {j}
      BY <2>1, <2>2, <2>3, SignJwtTypes
    <2>5. call \in Call /\ FieldsOK(call, held', Minted')
      BY <1>6, <2>1, <2>4 DEF SwitchMint, Call, Pcs, FieldsOK, Switching
    <2>6. calls' = [calls EXCEPT ![c] = call]
      BY <1>6 DEF SwitchMint, Goto
    <2> HIDE DEF call
    <2>7. calls' \in [Calls -> Call] /\ CallFields'
      BY <1>6, <2>4, <2>5, <2>6, CallChanged DEF SwitchMint
    <2> QED
      BY <1>6, <2>4, <2>7 DEF SwitchMint, Types, TypeOK, history
  <1>7. ASSUME NEW c \in Calls, SwitchRetire(c)
       PROVE  Types'
    <2>1. /\ calls[c].old \in held /\ calls[c].new \in Minted
          /\ RevokeJti(calls[c].old) /\ held' = held \cup {calls[c].new}
      BY <1>7, CallType DEF SwitchRetire, At, FieldsOK, Switching
    <2>2. /\ blocklist' \in SUBSET Row
          /\ retired' = retired \cup {calls[c].old}
          /\ UNCHANGED <<cutoff, shutOut>>
      BY <2>1, RevokeJtiTypes
    <2>3. calls' \in [Calls -> Call] /\ CallFields'
      BY <1>7, <2>1, CallDone DEF SwitchRetire, Minted
    <2> QED
      BY <1>7, <2>1, <2>2, <2>3 DEF SwitchRetire, Types, TypeOK, Minted
  <1>8. ASSUME NEW c \in Calls, NEW j \in Jti, ChangeAdmit(c, j)
       PROVE  Types'
    <2> DEFINE call == [Idle EXCEPT !.pc = "change_admitted", !.user = claims[j].user]
    <2>1. call \in Call /\ FieldsOK(call, held', Minted')
      BY <1>8 DEF ChangeAdmit, Types, TypeOK, Account, Idle, Call, Pcs, Kinds,
         FieldsOK, Switching, Minted, Claims
    <2>2. calls' = [calls EXCEPT ![c] = call]
      BY <1>8 DEF ChangeAdmit, Begin, Goto
    <2> HIDE DEF call
    <2>3. calls' \in [Calls -> Call] /\ CallFields'
      BY <1>8, <2>1, <2>2, CallChanged DEF ChangeAdmit, Minted
    <2> QED
      BY <1>8, <2>3 DEF ChangeAdmit, Types, TypeOK, Minted, history
  <1>9. ASSUME NEW c \in Calls, ChangeRead(c)
       PROVE  Types'
    <2> DEFINE call == [calls[c] EXCEPT !.pc = "change_read"]
    <2>1. held' = held /\ Minted' = Minted
      BY <1>9 DEF ChangeRead, Minted
    <2>2. call \in Call /\ FieldsOK(call, held', Minted')
      BY <1>9, <2>1, CallType DEF ChangeRead, At, Types, TypeOK, Account, Claims,
         Call, Pcs, FieldsOK, Switching, Minted
    <2>3. calls' = [calls EXCEPT ![c] = call] \/ Finish(c)
      BY <1>9 DEF ChangeRead, Goto
    <2> HIDE DEF call
    <2>4. calls' \in [Calls -> Call] /\ CallFields'
      BY <2>1, <2>2, <2>3, CallChanged, CallDone
    <2> QED
      BY <1>9, <2>4 DEF ChangeRead, Types, TypeOK, Minted, history
  <1>10. ASSUME NEW c \in Calls, ChangePersist(c)
        PROVE  Types'
    <2> DEFINE u == calls[c].user
               call == [calls[c] EXCEPT !.pc = "change_persisted",
                          !.epoch = account[u].epoch + 1, !.stamp = now]
    <2>1. u \in Users /\ calls[c] \in Call
      BY <1>10, CallType DEF ChangePersist, At, FieldsOK
    <2>2. call \in Call /\ FieldsOK(call, held', Minted')
      <3>1. now \in Nat /\ account[u] \in Account
        BY <2>1 DEF Types, TypeOK
      <3>2. account[u].epoch + 1 \in Nat
        BY <3>1 DEF Account
      <3> QED BY <2>1, <3>1, <3>2 DEF Call, Pcs, FieldsOK, Switching
    <2>3. account' \in [Users -> Account]
      BY <1>10, <2>1, SetPasswordTypes DEF ChangePersist
    <2>4. calls' = [calls EXCEPT ![c] = call]
      BY <1>10 DEF ChangePersist, Goto
    <2> HIDE DEF call
    <2>5. calls' \in [Calls -> Call] /\ CallFields'
      BY <1>10, <2>2, <2>4, CallChanged DEF ChangePersist, Minted
    <2> QED
      BY <1>10, <2>3, <2>5 DEF ChangePersist, Types, TypeOK, Minted, history
  <1>11. ASSUME NEW c \in Calls, NEW j \in Jti, ChangeMint(c, j)
        PROVE  Types'
    <2> DEFINE u == calls[c].user
               call == [calls[c] EXCEPT !.pc = "change_minted", !.new = j]
    <2>1. /\ u \in Users /\ HomeOrg[u] \in Orgs /\ calls[c] \in Call
          /\ calls[c].stamp \in Nat /\ calls[c].epoch \in Nat
      BY <1>11, CallType, ScopeAssumption DEF ChangeMint, At, FieldsOK, Call
    <2>2. SignJwt(j, u, HomeOrg[u], calls[c].stamp, calls[c].epoch, j)
      BY <1>11 DEF ChangeMint
    <2>3. /\ claims' \in [Jti -> Claims \cup {None}]
          /\ Minted' = Minted \cup {j}
      BY <2>1, <2>2, SignJwtTypes
    <2>4. call \in Call /\ FieldsOK(call, held', Minted')
      BY <1>11, <2>1, <2>3 DEF ChangeMint, Call, Pcs, FieldsOK, Switching
    <2>5. calls' = [calls EXCEPT ![c] = call]
      BY <1>11 DEF ChangeMint, Goto
    <2> HIDE DEF call
    <2>6. calls' \in [Calls -> Call] /\ CallFields'
      BY <1>11, <2>3, <2>4, <2>5, CallChanged DEF ChangeMint
    <2> QED
      BY <1>11, <2>3, <2>6 DEF ChangeMint, Types, TypeOK, history
  <1>12. ASSUME NEW c \in Calls, ChangeRevoke(c)
        PROVE  Types'
    <2> DEFINE n == calls[c].new
    <2>1. calls[c].user \in Users /\ n \in Minted /\ claims[n].iat \in Nat
      BY <1>12, CallType DEF ChangeRevoke, At, FieldsOK, Minted, Types, TypeOK, Claims
    <2>2. RevokeAllUserSessions(calls[c].user, claims[n].iat)
      BY <1>12 DEF ChangeRevoke
    <2>3. /\ blocklist' \in SUBSET Row /\ retired' = retired
          /\ cutoff' \in [Users -> Nat] /\ shutOut' \in [Users -> Nat]
      BY <2>1, <2>2, RevokeAllTypes
    <2>4. calls' \in [Calls -> Call] /\ CallFields'
      BY <1>12, CallDone DEF ChangeRevoke, Minted
    <2> QED
      BY <1>12, <2>1, <2>3, <2>4 DEF ChangeRevoke, Types, TypeOK, Minted
  <1>13. ASSUME NEW c \in Calls, ChangeRevokeFails(c)
        PROVE  Types'
    <2>1. calls[c].new \in Minted
      BY <1>13, CallType DEF ChangeRevokeFails, At, FieldsOK
    <2>2. calls' \in [Calls -> Call] /\ CallFields'
      BY <1>13, CallDone DEF ChangeRevokeFails, Minted
    <2> QED
      BY <1>13, <2>1, <2>2 DEF ChangeRevokeFails, Types, TypeOK, Minted, history
  <1>14. ASSUME NEW j \in Jti, Logout(j)
        PROVE  Types'
    <2>1. /\ blocklist' \in SUBSET Row /\ retired' = retired \cup {j}
          /\ UNCHANGED <<cutoff, shutOut>>
      BY <1>14, RevokeJtiTypes DEF Logout
    <2>2. calls' \in [Calls -> Call] /\ CallFields'
      BY <1>14, CallsKept DEF Logout, Minted
    <2> QED
      BY <1>14, <2>1, <2>2 DEF Logout, Types, TypeOK, Minted
  <1>15. ASSUME NEW c \in Calls, NEW kind \in Kinds, NEW u \in Users,
               NEW o \in Orgs, AdminWrite(c, kind, u, o)
        PROVE  Types'
    <2> DEFINE call == [Idle EXCEPT !.pc = "admin_written", !.user = u,
                                    !.kind = kind]
    <2>1. call \in Call /\ FieldsOK(call, held', Minted')
      BY DEF Idle, Call, Pcs, FieldsOK, Switching
    <2>2. calls' = [calls EXCEPT ![c] = call]
      BY <1>15 DEF AdminWrite, Begin
    <2>3. account' \in [Users -> Account]
      <3>1. account \in [Users -> Account]
        BY DEF Types, TypeOK
      <3>2. CASE kind = "reset"
        BY <1>15, <3>2, SetPasswordTypes DEF AdminWrite
      <3>3. CASE kind = "deactivate"
        <4>1. account' = [account EXCEPT ![u].active = FALSE]
          BY <1>15, <3>3 DEF AdminWrite
        <4> QED BY <3>1, <4>1 DEF Account
      <3>4. CASE kind = "delete"
        <4>1. \/ account' = [account EXCEPT ![u].active = FALSE,
                                           ![u].deleted = TRUE]
              \/ account' = account
          BY <1>15, <3>4 DEF AdminWrite
        <4>2. CASE account' = [account EXCEPT ![u].active = FALSE,
                                            ![u].deleted = TRUE]
          BY <3>1, <4>2 DEF Account
        <4> QED BY <3>1, <4>1, <4>2
      <3>5. CASE kind = "unmap"
        BY <1>15, <3>1, <3>5 DEF AdminWrite
      <3> QED BY <1>15, <3>2, <3>3, <3>4, <3>5 DEF AdminWrite
    <2>4. mapping' \in [Users -> [Orgs -> MappingStates]]
      <3>1. mapping \in [Users -> [Orgs -> MappingStates]]
        BY DEF Types, TypeOK
      <3>2. CASE kind = "delete"
        <4>1. mapping' = [mapping EXCEPT ![u] = [p \in Orgs |->
                IF @[p] = "active" THEN "inactive" ELSE @[p]]]
          BY <1>15, <3>2 DEF AdminWrite
        <4> QED BY <3>1, <4>1 DEF MappingStates
      <3>3. CASE kind = "unmap"
        BY <1>15, <3>1, <3>3 DEF AdminWrite, MappingStates
      <3> QED BY <1>15, <3>1, <3>2, <3>3 DEF AdminWrite
    <2> HIDE DEF call
    <2>5. calls' \in [Calls -> Call] /\ CallFields'
      BY <1>15, <2>1, <2>2, CallChanged DEF AdminWrite, Minted
    <2> QED
      BY <1>15, <2>3, <2>4, <2>5 DEF AdminWrite, Types, TypeOK, Minted, history
  <1>16. ASSUME NEW c \in Calls, NEW u \in Users, RoleStamp(c, u)
        PROVE  Types'
    <2> DEFINE call == [Idle EXCEPT !.pc = "role_stamped", !.user = u,
                              !.kind = "role", !.stamp = now]
    <2>1. call \in Call /\ FieldsOK(call, held', Minted')
      BY <1>16 DEF RoleStamp, Types, TypeOK, Account, Idle, Call, Pcs, Kinds,
         FieldsOK, Switching, Minted
    <2>2. calls' = [calls EXCEPT ![c] = call]
      BY <1>16 DEF RoleStamp, Begin, Goto
    <2> HIDE DEF call
    <2>3. calls' \in [Calls -> Call] /\ CallFields'
      BY <1>16, <2>1, <2>2, CallChanged DEF RoleStamp, Minted
    <2> QED
      BY <1>16, <2>3 DEF RoleStamp, Types, TypeOK, Minted, history
  <1>17. ASSUME NEW c \in Calls, RoleWrite(c)
        PROVE  Types'
    <2> DEFINE call == [calls[c] EXCEPT !.pc = "admin_written"]
    <2>1. /\ calls[c].user \in Users /\ calls[c] \in Call
          /\ calls[c].stamp \in Nat
      BY <1>17, CallType DEF RoleWrite, At, FieldsOK, Call
    <2>2. call \in Call /\ FieldsOK(call, held', Minted')
      BY <2>1 DEF Call, Pcs, FieldsOK, Switching
    <2>3. held' = held /\ Minted' = Minted
      BY <1>17 DEF RoleWrite, Minted
    <2>4. calls' = [calls EXCEPT ![c] = call] \/ Finish(c)
      BY <1>17 DEF RoleWrite, Goto
    <2> HIDE DEF call
    <2>5. calls' \in [Calls -> Call] /\ CallFields'
      BY <2>2, <2>3, <2>4, CallChanged, CallDone
    <2>6. account' \in [Users -> Account]
      <3>1. account \in [Users -> Account]
        BY DEF Types, TypeOK
      <3>2. \/ account' = account
            \/ account' = [account EXCEPT ![calls[c].user].changedAt
                             = calls[c].stamp]
        BY <1>17 DEF RoleWrite
      <3> QED BY <2>1, <3>1, <3>2 DEF Account
    <2> QED
      BY <1>17, <2>5, <2>6 DEF RoleWrite, Types, TypeOK, Minted, history
  <1>18. ASSUME NEW c \in Calls, AdminRevoke(c)
        PROVE  Types'
    <2>1. calls[c].user \in Users /\ now \in Nat
      BY <1>18, CallType DEF AdminRevoke, At, FieldsOK, Types, TypeOK
    <2>2. RevokeAllUserSessions(calls[c].user, now)
      BY <1>18 DEF AdminRevoke
    <2>3. /\ blocklist' \in SUBSET Row /\ retired' = retired
          /\ cutoff' \in [Users -> Nat] /\ shutOut' \in [Users -> Nat]
      BY <2>1, <2>2, RevokeAllTypes
    <2>4. calls' \in [Calls -> Call] /\ CallFields'
      BY <1>18, CallDone DEF AdminRevoke, Minted
    <2> QED
      BY <1>18, <2>3, <2>4 DEF AdminRevoke, Types, TypeOK, Minted
  <1>19. ASSUME NEW u \in Users, Reactivate(u)
        PROVE  Types'
    <2>1. calls' \in [Calls -> Call] /\ CallFields'
      BY <1>19, CallsKept DEF Reactivate, Minted
    <2> QED
      BY <1>19, <2>1 DEF Reactivate, Types, TypeOK, Account, Minted, history
  <1>20. ASSUME NEW u \in Users, NEW o \in Orgs, AddOrgMapping(u, o)
        PROVE  Types'
    <2>1. calls' \in [Calls -> Call] /\ CallFields'
      BY <1>20, CallsKept DEF AddOrgMapping, Minted
    <2>2. mapping' \in [Users -> [Orgs -> MappingStates]]
      BY <1>20 DEF AddOrgMapping, Types, TypeOK, MappingStates
    <2> QED
      BY <1>20, <2>1, <2>2 DEF AddOrgMapping, Types, TypeOK, Minted, history
  <1>21. ASSUME NEW c \in Calls, CallFails(c)
        PROVE  Types'
    <2>1. calls' \in [Calls -> Call] /\ CallFields'
      BY <1>21, CallDone DEF CallFails, Minted
    <2> QED
      BY <1>21, <2>1 DEF CallFails, Types, TypeOK, Minted, history
  <1>22. CASE PurgeExpiredTokenBlocklist
    <2>1. calls' \in [Calls -> Call] /\ CallFields'
      BY <1>22, CallsKept DEF PurgeExpiredTokenBlocklist, Minted
    <2> QED
      BY <1>22, <2>1 DEF PurgeExpiredTokenBlocklist, Types, TypeOK, Minted, history
  <1>23. CASE Tick
    <2>1. calls' \in [Calls -> Call] /\ CallFields'
      BY <1>23, CallsKept DEF Tick, Minted
    <2> QED
      BY <1>23, <2>1 DEF Tick, Types, TypeOK, Minted, history
  <1>24. CASE UNCHANGED vars
    <2>1. calls' \in [Calls -> Call] /\ CallFields'
      BY <1>24, CallsKept DEF vars, Minted
    <2> QED
      BY <1>24, <2>1 DEF vars, history, Types, TypeOK, Minted
  <1> QED
    BY <1>1, <1>2, <1>3, <1>4, <1>5, <1>6, <1>7, <1>8, <1>9, <1>10, <1>11, <1>12,
       <1>13, <1>14, <1>15, <1>16, <1>17, <1>18, <1>19, <1>20, <1>21, <1>22,
       <1>23, <1>24
    DEF Next, CallStep

(* Every reachable state is well typed, and a request that waits at a step  *)
(* remembers a user, a branch and tokens that exist.                        *)
THEOREM TypeCorrect == Spec => []TypeOK
  <1>1. Init => Types
    BY TypesInit
  <1>2. Types /\ [Next]_vars => Types'
    BY TypesStep
  <1>3. Types => TypeOK
    BY DEF Types
  <1> QED BY <1>1, <1>2, <1>3, PTL DEF Spec

----------------------------------------------------------------------------
(* The blocklist.  A row is kept as long as a token it refuses can be       *)
(* presented: this is what makes the query exact.                           *)

ClaimsHonest ==
  \A j \in Minted : /\ claims[j].exp = claims[j].iat + MaxAge
                    /\ claims[j].iat <= now

RowsHonest ==
  \A r \in blocklist :
    /\ r.jti = None => /\ r.user \in Users /\ r.org = None /\ r.tenant = None
                       /\ r.revokedAt <= cutoff[r.user]
    /\ r.jti # None => r.jti \in retired /\ r.expiresAt = claims[r.jti].exp

RetiredKept ==
  \A j \in retired :
    claims[j].exp > now => \E r \in blocklist : r.jti = j

CutoffKept ==
  \A u \in Users :
    /\ cutoff[u] <= now
    /\ cutoff[u] > 0 /\ cutoff[u] + MaxAge > now =>
         \E r \in blocklist : /\ r.jti = None /\ r.user = u
                              /\ r.revokedAt = cutoff[u]
                              /\ r.expiresAt >= cutoff[u] + MaxAge

Kept == ClaimsHonest /\ RowsHonest /\ RetiredKept /\ CutoffKept

LEMMA KeptInit == Init => Kept
  <1> SUFFICES ASSUME Init PROVE Kept
    OBVIOUS
  <1>1. Minted = {} /\ blocklist = {} /\ retired = {} /\ now = 0
    BY DEF Init, Minted
  <1>2. \A u \in Users : cutoff[u] = 0
    BY DEF Init
  <1> QED
    BY <1>1, <1>2 DEF Kept, ClaimsHonest, RowsHonest, RetiredKept, CutoffKept

LEMMA KeptExact ==
  ASSUME Types, Kept
  PROVE  RevocationIsExact
  <1> SUFFICES ASSUME NEW j \in Minted, ~Expired(j)
               PROVE  IsTokenRevoked(j) <=>
                        \/ j \in retired
                        \/ claims[j].iat < cutoff[claims[j].user]
    BY DEF RevocationIsExact
  <1> DEFINE t == claims[j]
  <1>1. /\ j \in Jti /\ t \in Claims /\ now \in Nat
        /\ cutoff \in [Users -> Nat] /\ blocklist \in SUBSET Row
        /\ retired \in SUBSET held
    BY DEF Types, TypeOK, Minted
  <1>2. /\ t.user \in Users /\ t.org \in Orgs /\ t.iat \in Nat /\ t.exp \in Nat
        /\ TenantOf[t.org] \in Tenants /\ cutoff[t.user] \in Nat
    BY <1>1, ScopeAssumption DEF Claims
  <1>3. t.exp = t.iat + MaxAge /\ t.exp > now
    BY <1>1, <1>2 DEF Kept, ClaimsHonest, Expired
  <1>4. j # None /\ None \notin Orgs /\ None \notin Tenants
    BY <1>1, NoneAssumption
  <1>5. ASSUME IsTokenRevoked(j)
        PROVE  j \in retired \/ t.iat < cutoff[t.user]
    <2>1. PICK r \in blocklist :
            /\ r.expiresAt > now
            /\ \/ r.jti = j
               \/ /\ r.jti = None
                  /\ r.revokedAt > t.iat
                  /\ \/ r.user = t.user
                     \/ r.org = t.org
                     \/ r.tenant = TenantOf[t.org]
      BY <1>5 DEF IsTokenRevoked
    <2>2. CASE r.jti = j
      BY <1>4, <2>1, <2>2 DEF Kept, RowsHonest
    <2>3. CASE r.jti = None /\ r.revokedAt > t.iat
      <3>1. r.user \in Users /\ r.user = t.user /\ r.revokedAt <= cutoff[t.user]
        BY <1>2, <1>4, <2>1, <2>3 DEF Kept, RowsHonest
      <3>2. r.revokedAt \in Nat
        BY <1>1 DEF Row
      <3> QED BY <1>2, <2>3, <3>1, <3>2
    <2> QED BY <2>1, <2>2, <2>3
  <1>6. ASSUME j \in retired PROVE IsTokenRevoked(j)
    <2>1. PICK r \in blocklist : r.jti = j
      BY <1>3, <1>6 DEF Kept, RetiredKept
    <2>2. r.expiresAt = t.exp
      BY <1>4, <2>1 DEF Kept, RowsHonest
    <2> QED BY <1>3, <2>1, <2>2 DEF IsTokenRevoked
  <1>7. ASSUME t.iat < cutoff[t.user] PROVE IsTokenRevoked(j)
    <2>1. cutoff[t.user] > 0 /\ cutoff[t.user] + MaxAge > now
      BY <1>1, <1>2, <1>3, <1>7, TimeAssumption
    <2>2. PICK r \in blocklist : /\ r.jti = None /\ r.user = t.user
                                 /\ r.revokedAt = cutoff[t.user]
                                 /\ r.expiresAt >= cutoff[t.user] + MaxAge
      BY <1>2, <2>1 DEF Kept, CutoffKept
    <2>3. r.expiresAt > now /\ r.revokedAt > t.iat
      <3>1. r.expiresAt \in Nat /\ r.revokedAt \in Nat
        BY <1>1 DEF Row
      <3> QED BY <1>1, <1>2, <1>7, <2>1, <2>2, <3>1, TimeAssumption
    <2> QED BY <2>2, <2>3 DEF IsTokenRevoked
  <1> QED BY <1>5, <1>6, <1>7

(* Nothing the query reads is taken back: claims stay as signed, what was   *)
(* retired stays retired, cutoffs and the clock only move forward.          *)
Grows ==
  /\ now <= now'
  /\ \A j \in Minted : j \in Minted' /\ claims'[j] = claims[j]
  /\ retired \subseteq retired'
  /\ \A u \in Users : cutoff[u] <= cutoff'[u]

(* The shapes of the steps.                                                 *)

LEMMA KeptUnchanged ==
  ASSUME Types, Kept, UNCHANGED <<now, claims, blocklist, retired, cutoff>>
  PROVE  Kept' /\ Grows
  <1>1. Kept'
    BY DEF Kept, ClaimsHonest, RowsHonest, RetiredKept, CutoffKept, Minted
  <1>2. Grows
    BY DEF Grows, Types, TypeOK, Minted
  <1> QED BY <1>1, <1>2

LEMMA KeptMint ==
  ASSUME Types, Kept, NEW j \in Jti, NEW u \in Users, NEW o \in Orgs,
         NEW t \in Nat, NEW e \in Nat, NEW s \in Jti,
         SignJwt(j, u, o, t, e, s),
         UNCHANGED <<now, blocklist, retired, cutoff>>
  PROVE  Kept' /\ Grows
  <1>1. /\ Minted' = Minted \cup {j}
        /\ claims'[j] = [user |-> u, org |-> o, iat |-> FloorSec(now),
                         exp |-> FloorSec(now) + MaxAge,
                         pwdIat |-> FloorSec(t), epoch |-> e, session |-> s]
        /\ \A k \in Minted : claims'[k] = claims[k]
    BY SignJwtTypes
  <1>2. FloorSec(now) <= now
    BY FloorSecBound DEF Types, TypeOK
  <1>3. ClaimsHonest'
    BY <1>1, <1>2 DEF Kept, ClaimsHonest
  <1>4. retired \subseteq Minted
    BY DEF Types, TypeOK
  <1>5. RowsHonest'
    BY <1>1, <1>4 DEF Kept, RowsHonest
  <1>6. RetiredKept' /\ CutoffKept'
    BY <1>1, <1>4 DEF Kept, RetiredKept, CutoffKept
  <1>7. Grows
    BY <1>1 DEF Grows, Types, TypeOK
  <1> QED BY <1>3, <1>5, <1>6, <1>7 DEF Kept

LEMMA KeptRevokeJti ==
  ASSUME Types, Kept, NEW j \in held, RevokeJti(j), UNCHANGED <<now, claims>>
  PROVE  Kept' /\ Grows
  <1> DEFINE row == [jti |-> j, user |-> claims[j].user, org |-> claims[j].org,
                     tenant |-> TenantOf[claims[j].org],
                     revokedAt |-> now, expiresAt |-> claims[j].exp]
  <1>1. j \in Jti /\ j # None
    BY NoneAssumption DEF Types, TypeOK, Minted
  <1>2. /\ retired' = retired \cup {j} /\ cutoff' = cutoff
        /\ \/ blocklist' = blocklist /\ \E r \in blocklist : r.jti = j
           \/ blocklist' = blocklist \cup {row}
    BY DEF RevokeJti, RevokeToken
  <1>3. row.jti = j /\ row.expiresAt = claims[j].exp
    OBVIOUS
  <1> HIDE DEF row
  <1>4. ClaimsHonest' /\ CutoffKept'
    BY <1>2 DEF Kept, ClaimsHonest, CutoffKept, Minted
  <1>5. RowsHonest'
    BY <1>1, <1>2, <1>3 DEF Kept, RowsHonest
  <1>6. RetiredKept'
    BY <1>2, <1>3 DEF Kept, RetiredKept
  <1>7. Grows
    BY <1>2 DEF Grows, Types, TypeOK, Minted
  <1> QED BY <1>4, <1>5, <1>6, <1>7 DEF Kept

LEMMA KeptRevokeAll ==
  ASSUME Types, Kept, NEW u \in Users, NEW at \in Nat, at <= now,
         RevokeAllUserSessions(u, at), UNCHANGED <<now, claims>>
  PROVE  Kept' /\ Grows
  <1> DEFINE row == [jti |-> None, user |-> u, org |-> None, tenant |-> None,
                     revokedAt |-> at, expiresAt |-> now + MaxAge]
  <1>1. retired' = retired /\ blocklist' = blocklist \cup {row}
    BY RevokeAllTypes
  <1>2. /\ row.jti = None /\ row.user = u /\ row.org = None
        /\ row.tenant = None /\ row.revokedAt = at
        /\ row.expiresAt = now + MaxAge
    OBVIOUS
  <1>3. now \in Nat /\ cutoff \in [Users -> Nat] /\ blocklist \in SUBSET Row
    BY DEF Types, TypeOK
  <1>4. /\ \A v \in Users : v # u => cutoff'[v] = cutoff[v]
        /\ \/ at > cutoff[u] /\ cutoff'[u] = at
           \/ at <= cutoff[u] /\ cutoff'[u] = cutoff[u]
    BY <1>3 DEF RevokeAllUserSessions
  <1>5. \A v \in Users : cutoff[v] <= cutoff'[v] /\ cutoff'[v] \in Nat
                         /\ cutoff[v] \in Nat
    BY <1>3, <1>4
  <1> HIDE DEF row
  <1>6. ClaimsHonest' /\ RetiredKept'
    BY <1>1 DEF Kept, ClaimsHonest, RetiredKept, Minted
  <1>7. RowsHonest'
    <2>1. ASSUME NEW r \in blocklist, r.jti = None
          PROVE  r.user \in Users /\ r.org = None /\ r.tenant = None
                 /\ r.revokedAt <= cutoff'[r.user]
      <3>1. r.revokedAt \in Nat
        BY <1>3 DEF Row
      <3>2. r.user \in Users /\ r.org = None /\ r.tenant = None
            /\ r.revokedAt <= cutoff[r.user]
        BY <2>1 DEF Kept, RowsHonest
      <3> QED BY <1>5, <3>1, <3>2
    <2>2. at <= cutoff'[u]
      BY <1>3, <1>4
    <2> QED BY <1>1, <1>2, <2>1, <2>2 DEF Kept, RowsHonest
  <1>8. CutoffKept'
    <2> SUFFICES ASSUME NEW v \in Users
                 PROVE  /\ cutoff'[v] <= now
                        /\ cutoff'[v] > 0 /\ cutoff'[v] + MaxAge > now =>
                             \E r \in blocklist' :
                               /\ r.jti = None /\ r.user = v
                               /\ r.revokedAt = cutoff'[v]
                               /\ r.expiresAt >= cutoff'[v] + MaxAge
      BY DEF CutoffKept
    <2>1. CASE cutoff'[v] = cutoff[v]
      BY <1>1, <2>1 DEF Kept, CutoffKept
    <2>2. CASE v = u /\ cutoff'[u] = at
      <3>1. at + MaxAge <= now + MaxAge
        BY <1>3, TimeAssumption
      <3> QED BY <1>1, <1>2, <2>2, <3>1, TimeAssumption
    <2> QED BY <1>4, <2>1, <2>2
  <1>9. Grows
    BY <1>1, <1>3, <1>5 DEF Grows, Minted
  <1> QED BY <1>6, <1>7, <1>8, <1>9 DEF Kept

LEMMA KeptPurge ==
  ASSUME Types, Kept, PurgeExpiredTokenBlocklist
  PROVE  Kept' /\ Grows
  <1>1. /\ UNCHANGED <<now, claims, retired, cutoff>>
        /\ blocklist' = {r \in blocklist : r.expiresAt >= now}
    BY DEF PurgeExpiredTokenBlocklist, history
  <1>2. /\ now \in Nat /\ blocklist \in SUBSET Row
        /\ cutoff \in [Users -> Nat]
        /\ \A j \in retired : j \in Minted /\ claims[j].exp \in Nat /\ j # None
    BY NoneAssumption DEF Types, TypeOK, Minted, Claims
  <1>3. \A r \in blocklist : r.expiresAt \in Nat
    BY <1>2 DEF Row
  <1>4. ClaimsHonest' /\ RowsHonest'
    BY <1>1 DEF Kept, ClaimsHonest, RowsHonest, Minted
  <1>5. RetiredKept'
    <2> SUFFICES ASSUME NEW j \in retired, claims[j].exp > now
                 PROVE  \E r \in blocklist' : r.jti = j
      BY <1>1 DEF RetiredKept
    <2>1. PICK r \in blocklist : r.jti = j
      BY DEF Kept, RetiredKept
    <2>2. r.expiresAt = claims[j].exp
      BY <1>2, <2>1 DEF Kept, RowsHonest
    <2> QED BY <1>1, <1>2, <2>1, <2>2
  <1>6. CutoffKept'
    <2> SUFFICES ASSUME NEW u \in Users
                 PROVE  /\ cutoff[u] <= now
                        /\ cutoff[u] > 0 /\ cutoff[u] + MaxAge > now =>
                             \E r \in blocklist' :
                               /\ r.jti = None /\ r.user = u
                               /\ r.revokedAt = cutoff[u]
                               /\ r.expiresAt >= cutoff[u] + MaxAge
      BY <1>1 DEF CutoffKept
    <2>1. cutoff[u] <= now
      BY DEF Kept, CutoffKept
    <2>2. ASSUME cutoff[u] > 0, cutoff[u] + MaxAge > now
          PROVE  \E r \in blocklist' : /\ r.jti = None /\ r.user = u
                                       /\ r.revokedAt = cutoff[u]
                                       /\ r.expiresAt >= cutoff[u] + MaxAge
      <3>1. PICK r \in blocklist : /\ r.jti = None /\ r.user = u
                                   /\ r.revokedAt = cutoff[u]
                                   /\ r.expiresAt >= cutoff[u] + MaxAge
        BY <2>2 DEF Kept, CutoffKept
      <3>2. r.expiresAt >= now
        BY <1>2, <1>3, <2>2, <3>1, TimeAssumption
      <3> QED BY <1>1, <3>1, <3>2
    <2> QED BY <2>1, <2>2
  <1>7. Grows
    BY <1>1, <1>2 DEF Grows, Minted
  <1> QED BY <1>4, <1>5, <1>6, <1>7 DEF Kept

LEMMA KeptTick ==
  ASSUME Types, Kept, Tick
  PROVE  Kept' /\ Grows
  <1>1. /\ UNCHANGED <<claims, blocklist, retired, cutoff>> /\ now' = now + 1
    BY DEF Tick, history
  <1>2. /\ now \in Nat /\ cutoff \in [Users -> Nat]
        /\ \A j \in Minted : claims[j].exp \in Nat /\ claims[j].iat \in Nat
        /\ retired \subseteq Minted
    BY DEF Types, TypeOK, Minted, Claims
  <1>3. ClaimsHonest'
    BY <1>1, <1>2 DEF Kept, ClaimsHonest, Minted
  <1>4. RowsHonest' /\ RetiredKept'
    BY <1>1, <1>2 DEF Kept, RowsHonest, RetiredKept
  <1>5. CutoffKept'
    BY <1>1, <1>2, TimeAssumption DEF Kept, CutoffKept
  <1>6. Grows
    BY <1>1, <1>2 DEF Grows, Minted
  <1> QED BY <1>3, <1>4, <1>5, <1>6 DEF Kept

LEMMA KeptStep ==
  ASSUME Types, Kept, [Next]_vars
  PROVE  Kept' /\ Grows
  <1>1. ASSUME NEW c \in Calls, NEW u \in Users, NEW o \in Orgs,
         LoginRead(c, u, o)
       PROVE  Kept' /\ Grows
    BY <1>1, KeptUnchanged DEF LoginRead, history
  <1>2. ASSUME NEW c \in Calls, NEW j \in Jti, NEW o \in Orgs,
         SwitchVerify(c, j, o)
       PROVE  Kept' /\ Grows
    BY <1>2, KeptUnchanged DEF SwitchVerify, history
  <1>3. ASSUME NEW c \in Calls, SwitchLoad(c) PROVE Kept' /\ Grows
    BY <1>3, KeptUnchanged DEF SwitchLoad, history
  <1>4. ASSUME NEW c \in Calls, SwitchTarget(c) PROVE Kept' /\ Grows
    BY <1>4, KeptUnchanged DEF SwitchTarget, history
  <1>5. ASSUME NEW c \in Calls, NEW j \in Jti,
         ChangeAdmit(c, j)
       PROVE  Kept' /\ Grows
    BY <1>5, KeptUnchanged DEF ChangeAdmit, history
  <1>6. ASSUME NEW c \in Calls, ChangeRead(c) PROVE Kept' /\ Grows
    BY <1>6, KeptUnchanged DEF ChangeRead, history
  <1>7. ASSUME NEW c \in Calls, ChangePersist(c) PROVE Kept' /\ Grows
    BY <1>7, KeptUnchanged DEF ChangePersist, history
  <1>8. ASSUME NEW c \in Calls, ChangeRevokeFails(c) PROVE Kept' /\ Grows
    BY <1>8, KeptUnchanged DEF ChangeRevokeFails, history
  <1>9. ASSUME NEW c \in Calls, NEW kind \in Kinds, NEW u \in Users, NEW o \in Orgs,
         AdminWrite(c, kind, u, o)
       PROVE  Kept' /\ Grows
    BY <1>9, KeptUnchanged DEF AdminWrite, history
  <1>10. ASSUME NEW c \in Calls, NEW u \in Users,
         RoleStamp(c, u)
       PROVE  Kept' /\ Grows
    BY <1>10, KeptUnchanged DEF RoleStamp, history
  <1>11. ASSUME NEW c \in Calls, RoleWrite(c) PROVE Kept' /\ Grows
    BY <1>11, KeptUnchanged DEF RoleWrite, history
  <1>12. ASSUME NEW c \in Calls, CallFails(c) PROVE Kept' /\ Grows
    BY <1>12, KeptUnchanged DEF CallFails, history
  <1>13. ASSUME NEW u \in Users, Reactivate(u) PROVE Kept' /\ Grows
    BY <1>13, KeptUnchanged DEF Reactivate, history
  <1>14. ASSUME NEW u \in Users, NEW o \in Orgs,
         AddOrgMapping(u, o)
       PROVE  Kept' /\ Grows
    BY <1>14, KeptUnchanged DEF AddOrgMapping, history
  <1>15. ASSUME NEW c \in Calls, NEW j \in Jti, LoginIssue(c, j)
        PROVE  Kept' /\ Grows
    <2>1. /\ calls[c].user \in Users /\ calls[c].org \in Orgs
          /\ calls[c].stamp \in Nat /\ calls[c].epoch \in Nat
      BY <1>15, CallType DEF LoginIssue, At, FieldsOK, Call
    <2>2. /\ SignJwt(j, calls[c].user, calls[c].org, calls[c].stamp,
                     calls[c].epoch, j)
          /\ UNCHANGED <<now, blocklist, retired, cutoff>>
      BY <1>15 DEF LoginIssue, history
    <2> QED BY <2>1, <2>2, KeptMint
  <1>16. ASSUME NEW c \in Calls, NEW j \in Jti, SwitchMint(c, j)
        PROVE  Kept' /\ Grows
    <2>1. /\ calls[c].user \in Users /\ calls[c].org \in Orgs
          /\ calls[c].stamp \in Nat /\ calls[c].epoch \in Nat
          /\ calls[c].old \in held
      BY <1>16, CallType DEF SwitchMint, At, FieldsOK, Switching, Call
    <2>2. claims[calls[c].old].session \in Jti
      BY <2>1 DEF Types, TypeOK, Minted, Claims
    <2>3. /\ SignJwt(j, calls[c].user, calls[c].org, calls[c].stamp,
                     calls[c].epoch, claims[calls[c].old].session)
          /\ UNCHANGED <<now, blocklist, retired, cutoff>>
      BY <1>16 DEF SwitchMint, history
    <2> QED BY <2>1, <2>2, <2>3, KeptMint
  <1>17. ASSUME NEW c \in Calls, NEW j \in Jti, ChangeMint(c, j)
        PROVE  Kept' /\ Grows
    <2>1. /\ calls[c].user \in Users /\ HomeOrg[calls[c].user] \in Orgs
          /\ calls[c].stamp \in Nat /\ calls[c].epoch \in Nat
      BY <1>17, CallType, ScopeAssumption DEF ChangeMint, At, FieldsOK, Call
    <2>2. /\ SignJwt(j, calls[c].user, HomeOrg[calls[c].user],
                     calls[c].stamp, calls[c].epoch, j)
          /\ UNCHANGED <<now, blocklist, retired, cutoff>>
      BY <1>17 DEF ChangeMint, history
    <2> QED BY <2>1, <2>2, KeptMint
  <1>18. ASSUME NEW c \in Calls, SwitchRetire(c)
        PROVE  Kept' /\ Grows
    <2>1. calls[c].old \in held
      BY <1>18, CallType DEF SwitchRetire, At, FieldsOK, Switching
    <2> QED BY <1>18, <2>1, KeptRevokeJti DEF SwitchRetire
  <1>19. ASSUME NEW j \in Jti, Logout(j)
        PROVE  Kept' /\ Grows
    BY <1>19, KeptRevokeJti DEF Logout
  <1>20. ASSUME NEW c \in Calls, ChangeRevoke(c)
        PROVE  Kept' /\ Grows
    <2>1. calls[c].user \in Users /\ calls[c].new \in Minted
      BY <1>20, CallType DEF ChangeRevoke, At, FieldsOK
    <2>2. claims[calls[c].new].iat \in Nat /\ claims[calls[c].new].iat <= now
      BY <2>1 DEF Kept, ClaimsHonest, Types, TypeOK, Minted, Claims
    <2>3. /\ RevokeAllUserSessions(calls[c].user, claims[calls[c].new].iat)
          /\ UNCHANGED <<now, claims>>
      BY <1>20 DEF ChangeRevoke
    <2> QED BY <2>1, <2>2, <2>3, KeptRevokeAll
  <1>21. ASSUME NEW c \in Calls, AdminRevoke(c)
        PROVE  Kept' /\ Grows
    <2>1. calls[c].user \in Users /\ now \in Nat /\ now <= now
      BY <1>21, CallType DEF AdminRevoke, At, FieldsOK, Types, TypeOK
    <2>2. RevokeAllUserSessions(calls[c].user, now) /\ UNCHANGED <<now, claims>>
      BY <1>21 DEF AdminRevoke
    <2> QED BY <2>1, <2>2, KeptRevokeAll
  <1>22. CASE PurgeExpiredTokenBlocklist
    BY <1>22, KeptPurge
  <1>23. CASE Tick
    BY <1>23, KeptTick
  <1>24. CASE UNCHANGED vars
    BY <1>24, KeptUnchanged DEF vars, history
  <1> QED
    BY <1>1, <1>2, <1>3, <1>4, <1>5, <1>6, <1>7, <1>8, <1>9, <1>10, <1>11, <1>12,
       <1>13, <1>14, <1>15, <1>16, <1>17, <1>18, <1>19, <1>20, <1>21, <1>22,
       <1>23, <1>24
    DEF Next, CallStep

IInv == Types /\ Kept

LEMMA IInvInductive == (Init => IInv) /\ (IInv /\ [Next]_vars => IInv')
  BY TypesInit, TypesStep, KeptInit, KeptStep DEF IInv

(* The blocklist query refuses exactly the unexpired tokens that were       *)
(* retired or predate their user's latest bulk revocation.                  *)
THEOREM ExactRevocation == Spec => []RevocationIsExact
  <1>1. (Init => IInv) /\ (IInv /\ [Next]_vars => IInv')
    BY IInvInductive
  <1>2. IInv => RevocationIsExact
    BY KeptExact DEF IInv
  <1> QED BY <1>1, <1>2, PTL DEF Spec

(* One step never lets in a token the gateway refused before it.            *)
LEMMA RefusalStep ==
  ASSUME IInv, IInv', [Next]_vars, NEW j \in Minted, ~VerifyJwtEdge(j)
  PROVE  ~VerifyJwtEdge(j)'
  <1>1. Grows /\ RevocationIsExact /\ RevocationIsExact'
    <2>1. Grows
      BY KeptStep DEF IInv
    <2>2. RevocationIsExact
      BY KeptExact DEF IInv
    <2>3. (Types /\ Kept => RevocationIsExact)'
      BY KeptExact, PTL
    <2> QED BY <2>1, <2>2, <2>3 DEF IInv
  <1>2. /\ j \in Minted' /\ claims'[j] = claims[j] /\ now <= now'
        /\ retired \subseteq retired' /\ claims[j] \in Claims
        /\ cutoff[claims[j].user] <= cutoff'[claims[j].user]
    BY <1>1 DEF Grows, IInv, Types, TypeOK, Minted, Claims
  <1>3. /\ now \in Nat /\ now' \in Nat /\ claims[j].exp \in Nat
        /\ claims[j].iat \in Nat /\ cutoff[claims[j].user] \in Nat
        /\ cutoff'[claims[j].user] \in Nat
    BY <1>2 DEF IInv, Types, TypeOK, Claims
  <1>4. CASE Expired(j)
    <2>1. Expired(j)'
      BY <1>2, <1>3, <1>4 DEF Expired
    <2> QED BY <2>1 DEF VerifyJwtEdge
  <1>5. CASE ~Expired(j) /\ IsTokenRevoked(j)
    <2>1. j \in retired \/ claims[j].iat < cutoff[claims[j].user]
      BY <1>1, <1>5 DEF RevocationIsExact
    <2>2. j \in retired' \/ claims'[j].iat < cutoff'[claims'[j].user]
      BY <1>2, <1>3, <2>1
    <2>3. Expired(j)' \/ IsTokenRevoked(j)'
      BY <1>1, <1>2, <2>2 DEF RevocationIsExact
    <2> QED BY <2>3 DEF VerifyJwtEdge
  <1> QED BY <1>4, <1>5 DEF VerifyJwtEdge

(* No step brings back a session the gateway refuses.                       *)
THEOREM RefusalIsFinal == Spec => EdgeRefusalIsFinal
  <1>1. (Init => IInv) /\ (IInv /\ [Next]_vars => IInv')
    BY IInvInductive
  <1>2. IInv /\ IInv' /\ [Next]_vars =>
          [\A j \in Minted : ~VerifyJwtEdge(j) => ~VerifyJwtEdge(j)']_vars
    BY RefusalStep
  <1> QED BY <1>1, <1>2, PTL DEF Spec, EdgeRefusalIsFinal

----------------------------------------------------------------------------
(* The refinement.  What is live follows from the clock and the history, so *)
(* each step is judged by what it does to those.                            *)

Live == {j \in Minted : VerifyJwtEdge(j)}

Issued ==
  [j \in Jti |-> IF claims[j] = None THEN None
                 ELSE [user |-> claims[j].user, iat |-> claims[j].iat]]

Over(j) == \/ now >= claims[j].exp
           \/ j \in retired
           \/ claims[j].iat < cutoff[claims[j].user]

LiveExact == Live = {j \in Minted : ~Over(j)}

LEMMA LiveIsNotOver ==
  ASSUME Types, Kept
  PROVE  LiveExact
  <1>1. RevocationIsExact
    BY KeptExact
  <1> QED BY <1>1
    DEF RevocationIsExact, LiveExact, Live, Over, VerifyJwtEdge, Expired

Refined == [Registry!Next]_(Registry!registry)

LEMMA RefinedByStutter ==
  ASSUME IInv, IInv', UNCHANGED <<now, claims, retired, cutoff>>
  PROVE  Refined
  <1>1. LiveExact
    BY LiveIsNotOver DEF IInv
  <1>2. (Types /\ Kept => LiveExact)'
    BY LiveIsNotOver, PTL
  <1>3. Live' = Live
    BY <1>1, <1>2 DEF IInv, LiveExact, Over, Minted
  <1> QED BY <1>3 DEF Refined, Registry!registry, Live

LEMMA RefinedByMint ==
  ASSUME IInv, IInv', NEW j \in Jti, NEW u \in Users, NEW o \in Orgs,
         NEW t \in Nat, NEW e \in Nat, NEW s \in Jti,
         SignJwt(j, u, o, t, e, s),
         UNCHANGED <<now, retired, cutoff>>
  PROVE  Refined
  <1>1. LiveExact
    BY LiveIsNotOver DEF IInv
  <1>2. (Types /\ Kept => LiveExact)'
    BY LiveIsNotOver, PTL
  <1>3. /\ Minted' = Minted \cup {j} /\ j \notin Minted
        /\ claims'[j].user = u /\ claims'[j].iat = FloorSec(now)
        /\ \A k \in Minted : claims'[k] = claims[k]
    <2>1. Types
      BY DEF IInv
    <2>2. /\ Minted' = Minted \cup {j} /\ j \notin Minted
          /\ claims'[j] = [user |-> u, org |-> o, iat |-> FloorSec(now),
                           exp |-> FloorSec(now) + MaxAge,
                           pwdIat |-> FloorSec(t), epoch |-> e, session |-> s]
          /\ \A k \in Minted : claims'[k] = claims[k]
      BY <2>1, SignJwtTypes
    <2> QED BY <2>2
  <1>4. Live' \in {Live, Live \cup {j}}
    <2>1. \A k \in Minted : k \in Live' <=> k \in Live
      BY <1>1, <1>2, <1>3 DEF IInv, LiveExact, Over
    <2>2. Live' \subseteq Minted \cup {j} /\ j \notin Live /\ Live \subseteq Minted
      BY <1>3 DEF Live
    <2> QED BY <2>1, <2>2
  <1>5. PICK at \in 0..now : at = FloorSec(now)
    BY FloorSecBound DEF IInv, Types, TypeOK
  <1>6. claims[j] = None /\ claims'[j] # None
    BY <1>3 DEF Minted
  <1>7. Issued[j] = None /\ Issued' = [Issued EXCEPT ![j] = [user |-> u, iat |-> at]]
    <2>1. Issued' = [k \in Jti |-> IF k = j THEN [user |-> u, iat |-> at]
                                   ELSE Issued[k]]
      BY <1>3, <1>5, <1>6 DEF Issued, SignJwt
    <2>2. Issued = [k \in Jti |-> Issued[k]]
      BY DEF Issued
    <2> HIDE DEF Issued
    <2>3. Issued' = [Issued EXCEPT ![j] = [user |-> u, iat |-> at]]
      BY <2>1, <2>2
    <2> QED BY <1>6, <2>3 DEF Issued
  <1>8. Registry!Issue(j, u, at)
    BY <1>4, <1>7 DEF Registry!Issue, Live, Issued
  <1>9. Registry!Next
    BY <1>5, <1>8 DEF Registry!Next
  <1> QED BY <1>9 DEF Refined

LEMMA RefinedByRevokeJti ==
  ASSUME IInv, IInv', NEW j \in held, RevokeJti(j), UNCHANGED <<now, claims>>
  PROVE  Refined
  <1>1. LiveExact
    BY LiveIsNotOver DEF IInv
  <1>2. (Types /\ Kept => LiveExact)'
    BY LiveIsNotOver, PTL
  <1>3. retired' = retired \cup {j} /\ cutoff' = cutoff /\ j \in Jti
    BY RevokeJtiTypes DEF IInv, Types, TypeOK, Minted
  <1>4. Live' = Live \ {j}
    BY <1>1, <1>2, <1>3 DEF IInv, LiveExact, Over, Minted
  <1>5. Registry!EndToken(j)
    BY <1>4 DEF Registry!EndToken, Live
  <1> QED BY <1>3, <1>5 DEF Refined, Registry!Next

LEMMA RefinedByRevokeAll ==
  ASSUME IInv, IInv', NEW u \in Users, NEW at \in Nat, at <= now,
         RevokeAllUserSessions(u, at), UNCHANGED <<now, claims>>
  PROVE  Refined
  <1>1. LiveExact
    BY LiveIsNotOver DEF IInv
  <1>2. (Types /\ Kept => LiveExact)'
    BY LiveIsNotOver, PTL
  <1>3. /\ retired' = retired
        /\ cutoff' = [cutoff EXCEPT ![u] = IF at > @ THEN at ELSE @]
        /\ cutoff \in [Users -> Nat] /\ now \in Nat
    BY RevokeAllTypes DEF IInv, Types, TypeOK, RevokeAllUserSessions
  <1>4. ASSUME NEW k \in Minted
        PROVE  Over(k)' <=> Over(k) \/ (claims[k].user = u /\ claims[k].iat < at)
    <2>1. /\ claims[k].user \in Users /\ claims[k].iat \in Nat
          /\ cutoff[claims[k].user] \in Nat
      BY <1>3 DEF IInv, Types, TypeOK, Minted, Claims
    <2>2. CASE claims[k].user = u
      <3>1. claims[k].iat < cutoff'[u] <=> claims[k].iat < cutoff[u] \/ claims[k].iat < at
        BY <1>3, <2>1, <2>2
      <3> QED BY <1>3, <2>2, <3>1 DEF Over
    <2>3. CASE claims[k].user # u
      <3>1. cutoff'[claims[k].user] = cutoff[claims[k].user]
        BY <1>3, <2>1, <2>3
      <3> QED BY <1>3, <2>3, <3>1 DEF Over
    <2> QED BY <2>2, <2>3
  <1>5. Live' = {k \in Live : ~(claims[k].user = u /\ claims[k].iat < at)}
    <2>1. Minted' = Minted
      BY DEF Minted
    <2> QED BY <1>1, <1>2, <1>4, <2>1 DEF IInv, LiveExact
  <1>6. \A k \in Live : Issued[k].user = claims[k].user /\ Issued[k].iat = claims[k].iat
    BY DEF Live, Minted, Issued
  <1>7. Live' = {k \in Live : ~(Issued[k].user = u /\ Issued[k].iat < at)}
    BY <1>5, <1>6
  <1>8. Registry!EndUser(u, at)
    BY <1>7 DEF Registry!EndUser, Live, Issued
  <1>9. at \in 0..now
    BY <1>3
  <1> QED BY <1>8, <1>9 DEF Refined, Registry!Next

LEMMA RefinedByTick ==
  ASSUME IInv, IInv', Tick
  PROVE  Refined
  <1>1. LiveExact
    BY LiveIsNotOver DEF IInv
  <1>2. (Types /\ Kept => LiveExact)'
    BY LiveIsNotOver, PTL
  <1>3. /\ now' = now + 1 /\ UNCHANGED <<claims, retired, cutoff>>
        /\ now \in Nat /\ Minted' = Minted
    BY DEF Tick, history, IInv, Types, TypeOK, Minted
  <1>4. ASSUME NEW k \in Minted
        PROVE  Over(k)' <=> Over(k) \/ ~(now' < Issued[k].iat + MaxAge)
    <2>1. /\ claims[k].exp \in Nat /\ claims[k].iat \in Nat
          /\ claims[k].exp = claims[k].iat + MaxAge
          /\ Issued[k].iat = claims[k].iat
      BY DEF IInv, Types, TypeOK, Minted, Claims, Kept, ClaimsHonest, Issued
    <2>2. now' >= claims[k].exp <=> now >= claims[k].exp \/ ~(now' < claims[k].exp)
      BY <1>3, <2>1
    <2> QED BY <1>3, <2>1, <2>2 DEF Over
  <1>5. Live' = {k \in Live : now' < Issued[k].iat + MaxAge}
    BY <1>1, <1>2, <1>3, <1>4 DEF IInv, LiveExact
  <1>6. Registry!Advance
    BY <1>3, <1>5 DEF Registry!Advance, Live, Issued
  <1> QED BY <1>6 DEF Refined, Registry!Next

LEMMA RefinementStep ==
  ASSUME IInv, IInv', [Next]_vars
  PROVE  Refined
  <1>1. ASSUME NEW c \in Calls, NEW j \in Jti, LoginIssue(c, j)
        PROVE  Refined
    <2>1. /\ calls[c].user \in Users /\ calls[c].org \in Orgs
          /\ calls[c].stamp \in Nat /\ calls[c].epoch \in Nat
      BY <1>1, CallType DEF IInv, LoginIssue, At, FieldsOK, Call
    <2> QED BY <1>1, <2>1, RefinedByMint DEF LoginIssue, history
  <1>2. ASSUME NEW c \in Calls, NEW j \in Jti, SwitchMint(c, j)
        PROVE  Refined
    <2>1. /\ calls[c].user \in Users /\ calls[c].org \in Orgs
          /\ calls[c].stamp \in Nat /\ calls[c].epoch \in Nat
          /\ calls[c].old \in held
      BY <1>2, CallType DEF IInv, SwitchMint, At, FieldsOK, Switching, Call
    <2>2. claims[calls[c].old].session \in Jti
      BY <2>1 DEF IInv, Types, TypeOK, Minted, Claims
    <2>3. /\ SignJwt(j, calls[c].user, calls[c].org, calls[c].stamp,
                     calls[c].epoch, claims[calls[c].old].session)
          /\ UNCHANGED <<now, retired, cutoff>>
      BY <1>2 DEF SwitchMint, history
    <2> QED BY <2>1, <2>2, <2>3, RefinedByMint
  <1>3. ASSUME NEW c \in Calls, NEW j \in Jti, ChangeMint(c, j)
        PROVE  Refined
    <2>1. /\ calls[c].user \in Users /\ HomeOrg[calls[c].user] \in Orgs
          /\ calls[c].stamp \in Nat /\ calls[c].epoch \in Nat
      BY <1>3, CallType, ScopeAssumption DEF IInv, ChangeMint, At, FieldsOK, Call
    <2> QED BY <1>3, <2>1, RefinedByMint DEF ChangeMint, history
  <1>4. ASSUME NEW c \in Calls, SwitchRetire(c)
        PROVE  Refined
    <2>1. calls[c].old \in held
      BY <1>4, CallType DEF IInv, SwitchRetire, At, FieldsOK, Switching
    <2> QED BY <1>4, <2>1, RefinedByRevokeJti DEF SwitchRetire
  <1>5. ASSUME NEW j \in Jti, Logout(j)
        PROVE  Refined
    BY <1>5, RefinedByRevokeJti DEF Logout
  <1>6. ASSUME NEW c \in Calls, ChangeRevoke(c)
        PROVE  Refined
    <2>1. calls[c].user \in Users /\ calls[c].new \in Minted
      BY <1>6, CallType DEF IInv, ChangeRevoke, At, FieldsOK
    <2>2. claims[calls[c].new].iat \in Nat /\ claims[calls[c].new].iat <= now
      BY <2>1 DEF IInv, Kept, ClaimsHonest, Types, TypeOK, Minted, Claims
    <2> QED BY <1>6, <2>1, <2>2, RefinedByRevokeAll DEF ChangeRevoke
  <1>7. ASSUME NEW c \in Calls, AdminRevoke(c)
        PROVE  Refined
    <2>1. calls[c].user \in Users /\ now \in Nat /\ now <= now
      BY <1>7, CallType DEF IInv, AdminRevoke, At, FieldsOK, Types, TypeOK
    <2> QED BY <1>7, <2>1, RefinedByRevokeAll DEF AdminRevoke
  <1>8. CASE Tick
    BY <1>8, RefinedByTick
  <1>9. ASSUME NEW c \in Calls,
                \/ \E u \in Users, o \in Orgs : LoginRead(c, u, o)
                \/ \E j \in Jti, o \in Orgs : SwitchVerify(c, j, o)
                \/ SwitchLoad(c) \/ SwitchTarget(c)
                \/ \E j \in Jti : ChangeAdmit(c, j)
                \/ ChangeRead(c) \/ ChangePersist(c) \/ ChangeRevokeFails(c)
                \/ \E kind \in Kinds, u \in Users, o \in Orgs : AdminWrite(c, kind, u, o)
                \/ \E u \in Users : RoleStamp(c, u)
                \/ RoleWrite(c) \/ CallFails(c)
         PROVE  Refined
    <2>1. UNCHANGED <<now, claims, retired, cutoff>>
      BY <1>9
      DEF history, LoginRead, SwitchVerify, SwitchLoad, SwitchTarget, ChangeAdmit,
          ChangeRead, ChangePersist, ChangeRevokeFails, AdminWrite, RoleStamp,
          RoleWrite, CallFails
    <2> QED BY <2>1, RefinedByStutter
  <1>10. CASE \/ \E u \in Users : Reactivate(u)
              \/ \E u \in Users, o \in Orgs : AddOrgMapping(u, o)
              \/ PurgeExpiredTokenBlocklist
              \/ UNCHANGED vars
    <2>1. UNCHANGED <<now, claims, retired, cutoff>>
      BY <1>10 DEF Reactivate, AddOrgMapping, PurgeExpiredTokenBlocklist, vars, history
    <2> QED BY <2>1, RefinedByStutter
  <1> QED
    BY <1>1, <1>2, <1>3, <1>4, <1>5, <1>6, <1>7, <1>8, <1>9, <1>10
    DEF Next, CallStep

(* Seen through the gateway's verdict, the token code implements the        *)
(* registry: tokens live once, end alone, with earlier ones of their own    *)
(* user or by their age, and never come back.                               *)
THEOREM TokenRegistryImplemented == Spec => ImplementsTokenRegistry
  <1>1. (Init => IInv) /\ (IInv /\ [Next]_vars => IInv')
    BY IInvInductive
  <1>2. Init => Registry!Init
    BY DEF Init, Registry!Init, Minted
  <1>3. IInv /\ IInv' /\ [Next]_vars => [Registry!Next]_(Registry!registry)
    BY RefinementStep DEF Refined
  <1> QED
    BY <1>1, <1>2, <1>3, PTL DEF Spec, ImplementsTokenRegistry, Registry!Spec

(* The registry alone makes an end final: a token enters once, when it is    *)
(* issued, and every other step takes tokens away.  So whatever implements   *)
(* it keeps a logout, a revocation and an expiry for good.                   *)
THEOREM TheRegistryIsFinal == ImplementsTokenRegistry => Registry!GoneForGood
  <1>1. [Registry!Next]_(Registry!registry)
          => \A t \in Jti : Issued[t] # None /\ t \notin Live => t \notin Live'
    <2> SUFFICES ASSUME [Registry!Next]_(Registry!registry), NEW t \in Jti,
                        Issued[t] # None, t \notin Live
                 PROVE  t \notin Live'
      OBVIOUS
    <2>1. ASSUME NEW j \in Jti, NEW u \in Users, NEW at, Registry!Issue(j, u, at)
          PROVE  t \notin Live'
      <3>1. Issued[j] = None /\ Live' \in {Live, Live \cup {j}}
        BY <2>1 DEF Registry!Issue, Issued, Live
      <3> QED BY <3>1
    <2>2. ASSUME NEW j \in Jti, Registry!EndToken(j)
          PROVE  t \notin Live'
      <3>1. Live' = Live \ {j}
        BY <2>2 DEF Registry!EndToken, Live
      <3> QED BY <3>1
    <2>3. ASSUME NEW u \in Users, NEW at, Registry!EndUser(u, at)
          PROVE  t \notin Live'
      <3>1. Live' \subseteq Live
        BY <2>3 DEF Registry!EndUser, Live
      <3> QED BY <3>1
    <2>4. CASE Registry!Advance
      <3>1. Live' \subseteq Live
        BY <2>4 DEF Registry!Advance, Live
      <3> QED BY <3>1
    <2>5. CASE UNCHANGED Registry!registry
      <3>1. Live' = Live
        BY <2>5 DEF Registry!registry, Live
      <3> QED BY <3>1
    <2> QED
      BY <2>1, <2>2, <2>3, <2>4, <2>5 DEF Registry!Next
  <1> QED
    BY <1>1, PTL DEF ImplementsTokenRegistry, Registry!Spec, Registry!GoneForGood,
                     Issued, Live

----------------------------------------------------------------------------
(* The replacement token of a password change is its own request's until    *)
(* that request ends: nobody holds it, and no other request will hand it    *)
(* out.  What the revocation does to it is then what exactness says.        *)

Waiting == {"switch_minted", "change_minted"}

Undelivered == \A c \in Calls : calls[c].pc \in Waiting => calls[c].new \notin held

OneOwner ==
  \A c, d \in Calls : c # d /\ calls[c].pc \in Waiting /\ calls[d].pc \in Waiting
                        => calls[c].new # calls[d].new

Owned == Undelivered /\ OneOwner

(* One request moves; what clients come to hold is new or was its own.      *)
LEMMA OwnedCall ==
  ASSUME Types, Owned, NEW c \in Calls,
         \A d \in Calls \ {c} : calls'[d] = calls[d],
         \A j \in held' : \/ j \in held \/ j \notin Minted
                          \/ calls[c].pc \in Waiting /\ j = calls[c].new,
         calls'[c].pc \in Waiting => held' = held /\ calls'[c].new \notin Minted
  PROVE  Owned'
  <1>1. \A d \in Calls : calls[d].pc \in Waiting => calls[d].new \in Minted
    BY DEF Types, CallFields, FieldsOK, Waiting
  <1>2. held \subseteq Minted
    BY DEF Types, TypeOK
  <1>3. Undelivered'
    BY <1>1, <1>2 DEF Owned, Undelivered, OneOwner
  <1>4. OneOwner'
    BY <1>1 DEF Owned, OneOwner
  <1> QED BY <1>3, <1>4 DEF Owned

LEMMA OwnedStep ==
  ASSUME Types, Owned, [Next]_vars
  PROVE  Owned'
  <1> USE DEF Waiting
  <1>0. calls \in [Calls -> Call]
    BY DEF Types, TypeOK
  <1>1. ASSUME NEW c \in Calls, NEW call, call.pc \notin Waiting,
               calls' = [calls EXCEPT ![c] = call], held' = held
        PROVE  Owned'
    <2>1. calls'[c].pc \notin Waiting /\ \A d \in Calls \ {c} : calls'[d] = calls[d]
      BY <1>0, <1>1
    <2> QED BY <1>1, <2>1, OwnedCall
  <1>2. ASSUME NEW c \in Calls, Finish(c), held' = held
        PROVE  Owned'
    BY <1>1, <1>2 DEF Finish, Idle
  <1>7. ASSUME NEW c \in Calls, NEW u \in Users, NEW o \in Orgs, LoginRead(c, u, o)
        PROVE  Owned'
    BY <1>1, <1>7 DEF LoginRead, Begin, Idle
  <1>8. ASSUME NEW c \in Calls, NEW j \in Jti, NEW o \in Orgs, SwitchVerify(c, j, o)
        PROVE  Owned'
    BY <1>1, <1>8 DEF SwitchVerify, Begin, Idle
  <1>9. ASSUME NEW c \in Calls, NEW j \in Jti, ChangeAdmit(c, j)
        PROVE  Owned'
    BY <1>1, <1>9 DEF ChangeAdmit, Begin, Idle
  <1>10. ASSUME NEW c \in Calls, NEW kind \in Kinds, NEW u \in Users, NEW o \in Orgs,
                AdminWrite(c, kind, u, o)
         PROVE  Owned'
    BY <1>1, <1>10 DEF AdminWrite, Begin, Idle
  <1>11. ASSUME NEW c \in Calls, NEW u \in Users, RoleStamp(c, u)
         PROVE  Owned'
    BY <1>1, <1>11 DEF RoleStamp, Begin, Idle
  <1>12. ASSUME NEW c \in Calls, SwitchLoad(c)
         PROVE  Owned'
    <2> DEFINE call == [calls[c] EXCEPT !.pc = "switch_loaded"]
    <2>1. call.pc \notin Waiting
      BY <1>0 DEF Call
    <2> QED BY <1>1, <1>2, <1>12, <2>1 DEF SwitchLoad, Goto
  <1>13. ASSUME NEW c \in Calls, SwitchTarget(c)
         PROVE  Owned'
    <2> DEFINE call == [calls[c] EXCEPT !.pc = "switch_resolved",
                          !.epoch = claims[calls[c].old].epoch,
                          !.stamp = account[calls[c].user].changedAt]
    <2>1. call.pc \notin Waiting
      BY <1>0 DEF Call
    <2>2. held' = held /\ (Finish(c) \/ calls' = [calls EXCEPT ![c] = call])
      BY <1>13 DEF SwitchTarget, Goto
    <2> HIDE DEF call
    <2> QED BY <1>1, <1>2, <2>1, <2>2
  <1>14. ASSUME NEW c \in Calls, ChangeRead(c)
         PROVE  Owned'
    <2> DEFINE call == [calls[c] EXCEPT !.pc = "change_read"]
    <2>1. call.pc \notin Waiting
      BY <1>0 DEF Call
    <2> QED BY <1>1, <1>2, <1>14, <2>1 DEF ChangeRead, Goto
  <1>15. ASSUME NEW c \in Calls, ChangePersist(c)
         PROVE  Owned'
    <2> DEFINE call == [calls[c] EXCEPT !.pc = "change_persisted",
                          !.epoch = account[calls[c].user].epoch + 1, !.stamp = now]
    <2>1. call.pc \notin Waiting
      BY <1>0 DEF Call
    <2>2. held' = held /\ calls' = [calls EXCEPT ![c] = call]
      BY <1>15 DEF ChangePersist, Goto
    <2> HIDE DEF call
    <2> QED BY <1>1, <2>1, <2>2
  <1>16. ASSUME NEW c \in Calls, RoleWrite(c)
         PROVE  Owned'
    <2> DEFINE call == [calls[c] EXCEPT !.pc = "admin_written"]
    <2>1. call.pc \notin Waiting
      BY <1>0 DEF Call
    <2>2. held' = held /\ (Finish(c) \/ calls' = [calls EXCEPT ![c] = call])
      BY <1>16 DEF RoleWrite, Goto
    <2> HIDE DEF call
    <2> QED BY <1>1, <1>2, <2>1, <2>2
  <1>17. ASSUME NEW c \in Calls, AdminRevoke(c) \/ CallFails(c)
         PROVE  Owned'
    BY <1>2, <1>17 DEF AdminRevoke, CallFails
  <1>3. ASSUME NEW c \in Calls, NEW j \in Jti, LoginIssue(c, j)
        PROVE  Owned'
    <2>1. held' = held \cup {j} /\ j \notin Minted
      BY <1>3 DEF LoginIssue, SignJwt, Minted
    <2>2. calls'[c].pc \notin Waiting /\ \A d \in Calls \ {c} : calls'[d] = calls[d]
      BY <1>0, <1>3 DEF LoginIssue, Finish, Idle
    <2> QED BY <2>1, <2>2, OwnedCall
  <1>4. ASSUME NEW c \in Calls, NEW j \in Jti, SwitchMint(c, j) \/ ChangeMint(c, j)
        PROVE  Owned'
    <2>1. held' = held /\ j \notin Minted
      BY <1>4 DEF SwitchMint, ChangeMint, SignJwt, Minted
    <2>2. calls'[c].new = j /\ \A d \in Calls \ {c} : calls'[d] = calls[d]
      BY <1>0, <1>4 DEF SwitchMint, ChangeMint, Goto, Call
    <2> QED BY <2>1, <2>2, OwnedCall
  <1>5. ASSUME NEW c \in Calls, SwitchRetire(c) \/ ChangeRevoke(c) \/ ChangeRevokeFails(c)
        PROVE  Owned'
    <2>1. held' = held \cup {calls[c].new} /\ calls[c].pc \in Waiting
      BY <1>5 DEF SwitchRetire, ChangeRevoke, ChangeRevokeFails, At
    <2>2. calls'[c].pc \notin Waiting /\ \A d \in Calls \ {c} : calls'[d] = calls[d]
      BY <1>0, <1>5 DEF SwitchRetire, ChangeRevoke, ChangeRevokeFails, Finish, Idle
    <2> QED BY <2>1, <2>2, OwnedCall
  <1>6. CASE UNCHANGED <<held, calls>>
    BY <1>6 DEF Owned, Undelivered, OneOwner
  <1> QED
    BY <1>3, <1>4, <1>5, <1>6, <1>7, <1>8, <1>9, <1>10, <1>11, <1>12, <1>13, <1>14,
       <1>15, <1>16, <1>17
    DEF Next, CallStep, Logout, Reactivate, AddOrgMapping, PurgeExpiredTokenBlocklist,
        Tick, vars

(* Only the end of its own request gives the replacement to a client.       *)
LEMMA DeliveredByItsRequest ==
  ASSUME Types, Owned, [Next]_vars, NEW c \in Calls, NEW j \in Minted,
         At(c, "change_minted"), calls[c].new = j, j \in held'
  PROVE  ChangeRevoke(c) \/ ChangeRevokeFails(c)
  <1>1. j \notin held
    BY DEF Owned, Undelivered, Waiting, At
  <1>2. ASSUME NEW d \in Calls, NEW k \in Jti, LoginIssue(d, k)
        PROVE  FALSE
    <2>1. held' = held \cup {k} /\ k \notin Minted
      BY <1>2 DEF LoginIssue, SignJwt, Minted
    <2> QED BY <1>1, <2>1
  <1>3. ASSUME NEW d \in Calls, SwitchRetire(d)
        PROVE  FALSE
    <2>1. held' = held \cup {calls[d].new} /\ calls[d].pc = "switch_minted"
      BY <1>3 DEF SwitchRetire, At
    <2>2. d # c
      BY <2>1 DEF At
    <2>3. calls[d].new # j
      BY <2>1, <2>2 DEF Owned, OneOwner, Waiting, At
    <2> QED BY <1>1, <2>1, <2>3
  <1>4. ASSUME NEW d \in Calls, ChangeRevoke(d) \/ ChangeRevokeFails(d)
        PROVE  d = c
    <2>1. held' = held \cup {calls[d].new} /\ calls[d].pc = "change_minted"
      BY <1>4 DEF ChangeRevoke, ChangeRevokeFails, At
    <2>2. calls[d].new = j
      BY <1>1, <2>1
    <2> QED BY <2>1, <2>2 DEF Owned, OneOwner, Waiting, At
  <1>5. held' # held
    BY <1>1
  <1> QED
    BY <1>2, <1>3, <1>4, <1>5, ZenonT(40)
    DEF Next, CallStep, vars, LoginRead, SwitchVerify, SwitchLoad, SwitchTarget, SwitchMint,
        ChangeAdmit, ChangeRead, ChangePersist, ChangeMint, AdminWrite, RoleStamp,
        RoleWrite, AdminRevoke, CallFails, Logout, Reactivate, AddOrgMapping,
        PurgeExpiredTokenBlocklist, Tick

LEMMA ReplacementStep ==
  ASSUME IInv, IInv', Owned, [Next]_vars, NEW c \in Calls, NEW j \in Minted,
         At(c, "change_minted"), calls[c].new = j, VerifyJwtEdge(j), j \in held'
  PROVE  VerifyJwtEdge(j)'
  <1>1. RevocationIsExact /\ RevocationIsExact'
    <2>1. RevocationIsExact
      BY KeptExact DEF IInv
    <2>2. (Types /\ Kept => RevocationIsExact)'
      BY KeptExact, PTL
    <2> QED BY <2>1, <2>2 DEF IInv
  <1>2. /\ j \in Jti /\ claims[j] \in Claims
        /\ claims[j].user \in Users /\ claims[j].iat \in Nat
        /\ cutoff \in [Users -> Nat] /\ calls[c].user \in Users
    BY CallType DEF IInv, Types, TypeOK, Minted, Claims, At, FieldsOK
  <1>3. ~Expired(j) /\ j \notin retired /\ ~(claims[j].iat < cutoff[claims[j].user])
    BY <1>1 DEF VerifyJwtEdge, RevocationIsExact
  <1>4. ChangeRevoke(c) \/ ChangeRevokeFails(c)
    BY DeliveredByItsRequest DEF IInv
  <1>5. UNCHANGED <<now, claims, retired>>
    BY <1>4 DEF ChangeRevoke, ChangeRevokeFails, RevokeAllUserSessions, history
  <1>6. ~(claims[j].iat < cutoff'[claims[j].user])
    <2>1. CASE ChangeRevoke(c)
      <3>1. cutoff' = [cutoff EXCEPT ![calls[c].user] =
                         IF claims[j].iat > @ THEN claims[j].iat ELSE @]
        BY <2>1 DEF ChangeRevoke, RevokeAllUserSessions
      <3> QED BY <1>2, <1>3, <3>1
    <2>2. CASE ChangeRevokeFails(c)
      BY <1>3, <2>2 DEF ChangeRevokeFails, history
    <2> QED BY <1>4, <2>1, <2>2
  <1>7. j \in Minted' /\ ~Expired(j)'
    BY <1>2, <1>3, <1>5 DEF Minted, Expired
  <1>8. ~IsTokenRevoked(j)'
    BY <1>1, <1>3, <1>5, <1>6, <1>7 DEF RevocationIsExact
  <1> QED BY <1>7, <1>8 DEF VerifyJwtEdge

(* changePassword does not log out its own caller, whatever is revoked,     *)
(* minted or handed out between its steps.                                  *)
THEOREM ReplacementSurvives == Spec => ReplacementSurvivesItsOwnRevocation
  <1>1. (Init => IInv) /\ (IInv /\ [Next]_vars => IInv')
    BY IInvInductive
  <1>2. Init => Owned
    BY DEF Init, Owned, Undelivered, OneOwner, Idle, Waiting
  <1>3. IInv /\ Owned /\ [Next]_vars => Owned'
    BY OwnedStep DEF IInv
  <1>4. IInv /\ IInv' /\ Owned /\ [Next]_vars =>
          [\A c \in Calls, j \in Minted :
             /\ At(c, "change_minted") /\ calls[c].new = j
             /\ VerifyJwtEdge(j)
             /\ j \in held'
             => VerifyJwtEdge(j)']_vars
    BY ReplacementStep
  <1> QED BY <1>1, <1>2, <1>3, <1>4, PTL DEF Spec, ReplacementSurvivesItsOwnRevocation

----------------------------------------------------------------------------
(* The password watermark.  Whole seconds keep the order of the times they  *)
(* are taken from.                                                          *)

LEMMA Product ==
  ASSUME NEW k \in Nat, NEW p \in Nat
  PROVE  k * p \in Nat
  OBVIOUS

LEMMA SecondOf ==
  ASSUME NEW t \in Nat
  PROVE  /\ t \div TicksPerSecond \in Nat
         /\ FloorSec(t) = TicksPerSecond * (t \div TicksPerSecond)
         /\ FloorSec(t) \in Nat
         /\ FloorSec(t) <= t /\ t < FloorSec(t) + TicksPerSecond
  <1>1. /\ t \div TicksPerSecond \in Nat /\ t % TicksPerSecond \in 0..TicksPerSecond - 1
        /\ t = TicksPerSecond * (t \div TicksPerSecond) + (t % TicksPerSecond)
    BY TimeAssumption, Z3
  <1>2. TicksPerSecond * (t \div TicksPerSecond) \in Nat
    BY <1>1, TimeAssumption, Product
  <1> QED BY <1>1, <1>2, TimeAssumption DEF FloorSec

LEMMA LaterSecond ==
  ASSUME NEW p \in Nat, NEW q \in Nat, p < q
  PROVE  TicksPerSecond * p + TicksPerSecond <= TicksPerSecond * q
  <1>1. TicksPerSecond * q = TicksPerSecond * p + TicksPerSecond + TicksPerSecond * (q - p - 1)
    BY TimeAssumption, Z3
  <1>2. q - p - 1 \in Nat
    OBVIOUS
  <1>3. TicksPerSecond * (q - p - 1) \in Nat /\ TicksPerSecond * p \in Nat
    BY TimeAssumption, <1>2, Product
  <1> QED BY <1>1, <1>3, TimeAssumption

LEMMA FloorSecIsMonotone ==
  ASSUME NEW a \in Nat, NEW b \in Nat, a <= b
  PROVE  FloorSec(a) <= FloorSec(b)
  <1> DEFINE p == a \div TicksPerSecond
             q == b \div TicksPerSecond
  <1>1. /\ p \in Nat /\ q \in Nat
        /\ FloorSec(a) = TicksPerSecond * p /\ FloorSec(b) = TicksPerSecond * q
        /\ FloorSec(a) \in Nat /\ FloorSec(b) \in Nat
        /\ FloorSec(a) <= a /\ b < FloorSec(b) + TicksPerSecond
    BY SecondOf
  <1> HIDE DEF p, q
  <1>2. CASE q < p
    <2>1. FloorSec(b) + TicksPerSecond <= FloorSec(a)
      BY <1>1, <1>2, LaterSecond
    <2> QED BY <1>1, <2>1, TimeAssumption
  <1>3. CASE p = q
    BY <1>1, <1>3
  <1>4. CASE p < q
    <2>1. FloorSec(a) + TicksPerSecond <= FloorSec(b)
      BY <1>1, <1>4, LaterSecond
    <2> QED BY <1>1, <2>1, TimeAssumption
  <1> QED BY <1>1, <1>2, <1>3, <1>4

(* What was read under an earlier password was written before that password *)
(* was replaced, in requests that will mint a first token and in the first  *)
(* tokens themselves.                                                       *)
Earlier(u, epoch, at) == epoch < account[u].epoch => at <= account[u].setAt

CallIsDated(call) ==
  /\ call.stamp <= now
  /\ call.pc \in {"login_read", "change_persisted"} =>
       Earlier(call.user, call.epoch, call.stamp)

TokenIsDated(j) ==
  LET t == claims[j] IN
  /\ t.session \in Minted
  /\ t.pwdIat <= FloorSec(now)
  /\ t.session = j /\ t.epoch < account[t.user].epoch =>
       t.pwdIat <= FloorSec(account[t.user].setAt)

Dated ==
  /\ \A u \in Users : account[u].setAt <= now /\ account[u].changedAt <= now
  /\ \A c \in Calls : CallIsDated(calls[c])
  /\ \A j \in Minted : TokenIsDated(j)

LEMMA DatedWatermark ==
  ASSUME Types, Dated
  PROVE  WatermarkEndsEarlierLogins
  <1> SUFFICES ASSUME NEW j \in Minted, ResolveSession(j), claims[j].session = j,
                      claims[j].epoch < account[claims[j].user].epoch,
                      account[claims[j].user].changedAt >= account[claims[j].user].setAt
               PROVE  claims[j].pwdIat = FloorSec(account[claims[j].user].changedAt)
    BY DEF WatermarkEndsEarlierLogins
  <1> DEFINE a == account[claims[j].user]
  <1>1. claims[j].pwdIat \in Nat /\ a.setAt \in Nat /\ a.changedAt \in Nat
    BY DEF Types, TypeOK, Minted, Claims, Account
  <1>2. claims[j].pwdIat <= FloorSec(a.setAt)
    BY DEF Dated, TokenIsDated
  <1>3. FloorSec(a.setAt) <= FloorSec(a.changedAt)
    BY <1>1, FloorSecIsMonotone
  <1>4. claims[j].pwdIat >= FloorSec(a.changedAt)
    BY DEF ResolveSession, SessionUserValid
  <1>5. FloorSec(a.setAt) \in Nat /\ FloorSec(a.changedAt) \in Nat
    BY <1>1, SecondOf
  <1> QED BY <1>1, <1>2, <1>3, <1>4, <1>5

(* One request moves on.                                                    *)
LEMMA DatedCall ==
  ASSUME Types, Dated, NEW c \in Calls, NEW call,
         calls' = [calls EXCEPT ![c] = call], UNCHANGED <<now, account, claims>>,
         CallIsDated(call)
  PROVE  Dated'
  <1>1. \A d \in Calls : calls'[d] = IF d = c THEN call ELSE calls[d]
    BY DEF Types, TypeOK
  <1>2. \A d \in Calls : CallIsDated(calls[d])'
    BY <1>1 DEF Dated, CallIsDated, Earlier
  <1>3. \A j \in Minted' : TokenIsDated(j)'
    BY DEF Dated, TokenIsDated, Minted
  <1> QED BY <1>2, <1>3 DEF Dated

LEMMA DatedIdle ==
  ASSUME Types PROVE CallIsDated(Idle)
  BY DEF CallIsDated, Idle, Types, TypeOK

(* It ends.                                                                 *)
LEMMA DatedEnd ==
  ASSUME Types, Dated, NEW c \in Calls, Finish(c), UNCHANGED <<now, account, claims>>
  PROVE  Dated'
  BY DatedCall, DatedIdle DEF Finish

(* A token is signed from what its request remembers.                       *)
LEMMA DatedMint ==
  ASSUME Types, Dated, NEW c \in Calls, NEW call, NEW j \in Jti,
         calls' = [calls EXCEPT ![c] = call], CallIsDated(call),
         NEW u \in Users, NEW o \in Orgs, NEW stamp \in Nat, NEW epoch \in Nat,
         NEW session \in Minted \cup {j},
         SignJwt(j, u, o, stamp, epoch, session), UNCHANGED <<now, account>>,
         stamp <= now, session = j => Earlier(u, epoch, stamp)
  PROVE  Dated'
  <1>1. /\ j \notin Minted /\ Minted' = Minted \cup {j}
        /\ \A k \in Minted : claims'[k] = claims[k]
    <2>1. claims \in [Jti -> Claims \cup {None}] /\ session \in Jti
      BY DEF Types, TypeOK, Minted
    <2> QED BY <2>1, SignJwtTypes DEF SignJwt, Minted
  <1>2. /\ claims'[j].session = session /\ claims'[j].pwdIat = FloorSec(stamp)
        /\ claims'[j].epoch = epoch /\ claims'[j].user = u
    BY DEF SignJwt, Types, TypeOK
  <1>3. now \in Nat /\ account[u].setAt \in Nat
    BY DEF Types, TypeOK, Account
  <1>4. TokenIsDated(j)'
    <2>1. FloorSec(stamp) <= FloorSec(now)
      BY <1>3, FloorSecIsMonotone
    <2>2. ASSUME session = j, epoch < account[u].epoch
          PROVE  FloorSec(stamp) <= FloorSec(account[u].setAt)
      BY <1>3, <2>2, FloorSecIsMonotone DEF Earlier
    <2>3. UNCHANGED <<now, account>>
      OBVIOUS
    <2>4. FloorSec(now)' = FloorSec(now) /\ FloorSec(account[u].setAt)' = FloorSec(account[u].setAt)
      BY <2>3
    <2> QED BY <1>1, <1>2, <2>1, <2>2, <2>3, <2>4 DEF TokenIsDated, FloorSec
  <1>5. \A k \in Minted : TokenIsDated(k)'
    BY <1>1 DEF Dated, TokenIsDated, FloorSec
  <1>6. \A d \in Calls : calls'[d] = IF d = c THEN call ELSE calls[d]
    BY DEF Types, TypeOK
  <1>7. \A d \in Calls : CallIsDated(calls[d])'
    BY <1>6 DEF Dated, CallIsDated, Earlier
  <1> QED BY <1>1, <1>4, <1>5, <1>7 DEF Dated

(* A password is set now: whatever was read or signed before is no younger. *)
LEMMA DatedPassword ==
  ASSUME Types, Dated, NEW u \in Users, SetPassword(u), UNCHANGED <<now, claims>>,
         NEW c \in Calls, NEW call, calls' = [calls EXCEPT ![c] = call],
         call.stamp <= now, call.user = u
  PROVE  Dated'
  <1>1. /\ \A v \in Users \ {u} : account'[v] = account[v]
        /\ account'[u].setAt = now /\ account'[u].changedAt = now
        /\ now \in Nat
    BY DEF SetPassword, Types, TypeOK, Account
  <1>2. \A v \in Users : (account[v].setAt <= now /\ account[v].changedAt <= now)'
    BY <1>1 DEF Dated
  <1>3. \A d \in Calls : calls'[d] = IF d = c THEN call ELSE calls[d]
    BY DEF Types, TypeOK
  <1>4. \A d \in Calls : calls[d].pc \in {"login_read", "change_persisted"} => calls[d].user \in Users
    BY DEF Types, CallFields, FieldsOK
  <1>5. ASSUME NEW d \in Calls
        PROVE  CallIsDated(calls[d])'
    <2>1. calls'[d].stamp <= now
      BY <1>3 DEF Dated, CallIsDated
    <2>2. ASSUME calls'[d].pc \in {"login_read", "change_persisted"}, calls'[d].user # u
          PROVE  calls'[d] = calls[d] /\ account'[calls[d].user] = account[calls[d].user]
      BY <1>1, <1>3, <1>4, <2>2
    <2>3. calls[d].pc \in {"login_read", "change_persisted"} =>
            Earlier(calls[d].user, calls[d].epoch, calls[d].stamp)
      BY DEF Dated, CallIsDated
    <2> QED BY <1>1, <2>1, <2>2, <2>3 DEF CallIsDated, Earlier
  <1>6. ASSUME NEW j \in Minted
        PROVE  TokenIsDated(j)'
    <2>1. claims[j].user \in Users /\ TokenIsDated(j)
      BY DEF Types, TypeOK, Minted, Claims, Dated
    <2>2. CASE claims[j].user = u
      BY <1>1, <2>1, <2>2 DEF TokenIsDated, Minted, FloorSec
    <2>3. CASE claims[j].user # u
      <3>1. account'[claims[j].user] = account[claims[j].user]
        BY <1>1, <2>1, <2>3
      <3> QED BY <2>1, <3>1 DEF TokenIsDated, Minted, FloorSec
    <2> QED BY <2>2, <2>3
  <1>7. Minted' = Minted
    BY DEF Minted
  <1> QED BY <1>2, <1>5, <1>6, <1>7 DEF Dated

(* A row is written without a new password.                                 *)
LEMMA DatedRow ==
  ASSUME Types, Dated, UNCHANGED <<now, claims>>,
         \A u \in Users : /\ account'[u].epoch = account[u].epoch
                          /\ account'[u].setAt = account[u].setAt
                          /\ account'[u].changedAt <= now,
         \A d \in Calls : \/ calls'[d] = calls[d]
                          \/ /\ calls'[d].stamp <= now
                             /\ calls'[d].pc \notin {"login_read", "change_persisted"}
  PROVE  Dated'
  <1>1. \A u \in Users : (account[u].setAt <= now /\ account[u].changedAt <= now)'
    BY DEF Dated
  <1>2. \A d \in Calls : CallIsDated(calls[d])'
    BY DEF Dated, CallIsDated, Earlier, Types, CallFields, FieldsOK
  <1>3. ASSUME NEW j \in Minted
        PROVE  TokenIsDated(j)'
    <2>1. claims[j].user \in Users /\ TokenIsDated(j)
      BY DEF Types, TypeOK, Minted, Claims, Dated
    <2> QED BY <2>1 DEF TokenIsDated, Minted, FloorSec
  <1>4. Minted' = Minted
    BY DEF Minted
  <1> QED BY <1>1, <1>2, <1>3, <1>4 DEF Dated

LEMMA DatedTick ==
  ASSUME Types, Dated, Tick
  PROVE  Dated'
  <1>1. now' = now + 1 /\ now \in Nat /\ UNCHANGED <<account, calls, claims>>
    BY DEF Tick, Types, TypeOK
  <1>2. \A u \in Users : account[u].setAt \in Nat /\ account[u].changedAt \in Nat
    BY DEF Types, TypeOK, Account
  <1>3. \A c \in Calls : calls[c].stamp \in Nat
    BY DEF Types, TypeOK, Call
  <1>4. ASSUME NEW j \in Minted
        PROVE  TokenIsDated(j)'
    <2>1. claims[j].pwdIat \in Nat /\ TokenIsDated(j)
      BY DEF Types, TypeOK, Minted, Claims, Dated
    <2>2. FloorSec(now) <= FloorSec(now + 1) /\ FloorSec(now) \in Nat /\ FloorSec(now + 1) \in Nat
      BY <1>1, FloorSecIsMonotone, SecondOf
    <2>3. claims[j].pwdIat <= FloorSec(now + 1)
      BY <2>1, <2>2 DEF TokenIsDated
    <2>4. FloorSec(now') = FloorSec(now + 1)
      BY <1>1
    <2> QED BY <1>1, <2>1, <2>3, <2>4 DEF TokenIsDated, Minted, FloorSec
  <1>5. Minted' = Minted
    BY <1>1 DEF Minted
  <1>6. \A u \in Users : (account[u].setAt <= now /\ account[u].changedAt <= now)'
    BY <1>1, <1>2 DEF Dated
  <1>7. \A c \in Calls : CallIsDated(calls[c])'
    BY <1>1, <1>3 DEF Dated, CallIsDated, Earlier
  <1> QED BY <1>4, <1>5, <1>6, <1>7 DEF Dated

(* A request goes on without a password of its own.                         *)
LEMMA DatedPlain ==
  ASSUME Types, Dated, NEW c \in Calls, NEW call,
         calls' = [calls EXCEPT ![c] = call], UNCHANGED <<now, account, claims>>,
         call.stamp <= now, call.pc \notin {"login_read", "change_persisted"}
  PROVE  Dated'
  <1>1. CallIsDated(call)
    BY DEF CallIsDated
  <1> QED BY <1>1, DatedCall

LEMMA DatedStep ==
  ASSUME Types, Dated, [Next]_vars
  PROVE  Dated'
  <1>0. /\ now \in Nat /\ account \in [Users -> Account] /\ calls \in [Calls -> Call]
        /\ \A c \in Calls : calls[c].stamp \in Nat /\ calls[c].stamp <= now
        /\ \A u \in Users : /\ account[u].changedAt \in Nat /\ account[u].changedAt <= now
                            /\ account[u].setAt <= now /\ account[u].epoch \in Nat
    BY DEF Types, TypeOK, Account, Call, Dated, CallIsDated
  <1>1. ASSUME NEW c \in Calls, NEW u \in Users, NEW o \in Orgs, LoginRead(c, u, o)
        PROVE  Dated'
    <2> DEFINE call == [Idle EXCEPT !.pc = "login_read", !.user = u, !.org = o,
                                    !.epoch = account[u].epoch,
                                    !.stamp = account[u].changedAt]
    <2>1. CallIsDated(call)
      BY <1>0 DEF CallIsDated, Earlier, Idle
    <2>2. calls' = [calls EXCEPT ![c] = call] /\ UNCHANGED <<now, account, claims>>
      BY <1>1 DEF LoginRead, Begin
    <2> HIDE DEF call
    <2> QED BY <2>1, <2>2, DatedCall
  <1>2. ASSUME NEW c \in Calls, NEW j \in Jti, LoginIssue(c, j)
        PROVE  Dated'
    <2> DEFINE t == calls[c]
    <2>1. /\ t.user \in Users /\ t.org \in Orgs /\ t.stamp \in Nat /\ t.epoch \in Nat
          /\ t.stamp <= now /\ Earlier(t.user, t.epoch, t.stamp)
      BY <1>0, <1>2 DEF LoginIssue, At, Types, CallFields, FieldsOK, Call, Dated, CallIsDated
    <2>2. /\ SignJwt(j, t.user, t.org, t.stamp, t.epoch, j)
          /\ calls' = [calls EXCEPT ![c] = Idle] /\ UNCHANGED <<now, account>>
      BY <1>2 DEF LoginIssue, Finish
    <2>3. CallIsDated(Idle)
      BY DatedIdle
    <2> HIDE DEF t
    <2> QED BY <2>1, <2>2, <2>3, DatedMint
  <1>3. ASSUME NEW c \in Calls, NEW j \in Jti, SwitchMint(c, j)
        PROVE  Dated'
    <2> DEFINE t == calls[c]
               call == [t EXCEPT !.pc = "switch_minted", !.new = j]
               session == claims[t.old].session
    <2>1. /\ t.user \in Users /\ t.org \in Orgs /\ t.stamp \in Nat /\ t.epoch \in Nat
          /\ t.stamp <= now /\ t.old \in Minted
      BY <1>0, <1>3 DEF SwitchMint, At, Types, TypeOK, CallFields, FieldsOK, Call, Switching
    <2>2. session \in Minted
      BY <2>1 DEF Dated, TokenIsDated
    <2>3. /\ SignJwt(j, t.user, t.org, t.stamp, t.epoch, session)
          /\ calls' = [calls EXCEPT ![c] = call] /\ UNCHANGED <<now, account>>
      BY <1>3 DEF SwitchMint, Goto
    <2>4. session # j
      BY <2>2, <2>3 DEF SignJwt, Minted
    <2>5. CallIsDated(call)
      BY <1>0 DEF CallIsDated, Call
    <2> HIDE DEF t, call, session
    <2> QED BY <2>1, <2>2, <2>3, <2>4, <2>5, DatedMint
  <1>4. ASSUME NEW c \in Calls, NEW j \in Jti, ChangeMint(c, j)
        PROVE  Dated'
    <2> DEFINE t == calls[c]
               call == [t EXCEPT !.pc = "change_minted", !.new = j]
    <2>1. /\ t.user \in Users /\ t.stamp \in Nat /\ t.epoch \in Nat
          /\ t.stamp <= now /\ Earlier(t.user, t.epoch, t.stamp)
      BY <1>0, <1>4 DEF ChangeMint, At, Types, CallFields, FieldsOK, Call, Dated, CallIsDated
    <2>2. HomeOrg[t.user] \in Orgs
      BY <2>1, ScopeAssumption
    <2>3. /\ SignJwt(j, t.user, HomeOrg[t.user], t.stamp, t.epoch, j)
          /\ calls' = [calls EXCEPT ![c] = call] /\ UNCHANGED <<now, account>>
      BY <1>4 DEF ChangeMint, Goto
    <2>4. CallIsDated(call)
      BY <1>0 DEF CallIsDated, Call
    <2> HIDE DEF t, call
    <2> QED BY <2>1, <2>2, <2>3, <2>4, DatedMint
  <1>5. ASSUME NEW c \in Calls, NEW j \in Jti, NEW o \in Orgs, SwitchVerify(c, j, o)
        PROVE  Dated'
    <2> DEFINE call == [Idle EXCEPT !.pc = "switch_verified", !.user = claims[j].user,
                                    !.org = o, !.old = j]
    <2>1. call.stamp <= now /\ call.pc \notin {"login_read", "change_persisted"}
      BY <1>0 DEF Idle
    <2>2. calls' = [calls EXCEPT ![c] = call] /\ UNCHANGED <<now, account, claims>>
      BY <1>5 DEF SwitchVerify, Begin
    <2> HIDE DEF call
    <2> QED BY <2>1, <2>2, DatedPlain
  <1>6. ASSUME NEW c \in Calls, NEW j \in Jti, ChangeAdmit(c, j)
        PROVE  Dated'
    <2> DEFINE call == [Idle EXCEPT !.pc = "change_admitted", !.user = claims[j].user]
    <2>1. call.stamp <= now /\ call.pc \notin {"login_read", "change_persisted"}
      BY <1>0 DEF Idle
    <2>2. calls' = [calls EXCEPT ![c] = call] /\ UNCHANGED <<now, account, claims>>
      BY <1>6 DEF ChangeAdmit, Begin
    <2> HIDE DEF call
    <2> QED BY <2>1, <2>2, DatedPlain
  <1>7. ASSUME NEW c \in Calls, NEW u \in Users, RoleStamp(c, u)
        PROVE  Dated'
    <2> DEFINE call == [Idle EXCEPT !.pc = "role_stamped", !.user = u, !.kind = "role",
                                    !.stamp = now]
    <2>1. call.stamp <= now /\ call.pc \notin {"login_read", "change_persisted"}
      BY <1>0 DEF Idle
    <2>2. calls' = [calls EXCEPT ![c] = call] /\ UNCHANGED <<now, account, claims>>
      BY <1>7 DEF RoleStamp, Begin
    <2> HIDE DEF call
    <2> QED BY <2>1, <2>2, DatedPlain
  <1>8. ASSUME NEW c \in Calls, SwitchLoad(c)
        PROVE  Dated'
    <2> DEFINE call == [calls[c] EXCEPT !.pc = "switch_loaded"]
    <2>1. call.stamp <= now /\ call.pc \notin {"login_read", "change_persisted"}
      BY <1>0 DEF Call
    <2>2. (Finish(c) \/ calls' = [calls EXCEPT ![c] = call]) /\ UNCHANGED <<now, account, claims>>
      BY <1>8 DEF SwitchLoad, Goto
    <2> HIDE DEF call
    <2> QED BY <2>1, <2>2, DatedPlain, DatedEnd
  <1>9. ASSUME NEW c \in Calls, SwitchTarget(c)
        PROVE  Dated'
    <2> DEFINE call == [calls[c] EXCEPT !.pc = "switch_resolved",
                          !.epoch = claims[calls[c].old].epoch,
                          !.stamp = account[calls[c].user].changedAt]
    <2>1. calls[c].user \in Users
      BY <1>9 DEF SwitchTarget, At, Types, CallFields, FieldsOK
    <2>2. call.stamp <= now /\ call.pc \notin {"login_read", "change_persisted"}
      BY <1>0, <2>1 DEF Call
    <2>3. (Finish(c) \/ calls' = [calls EXCEPT ![c] = call]) /\ UNCHANGED <<now, account, claims>>
      BY <1>9 DEF SwitchTarget, Goto
    <2> HIDE DEF call
    <2> QED BY <2>2, <2>3, DatedPlain, DatedEnd
  <1>10. ASSUME NEW c \in Calls, ChangeRead(c)
         PROVE  Dated'
    <2> DEFINE call == [calls[c] EXCEPT !.pc = "change_read"]
    <2>1. call.stamp <= now /\ call.pc \notin {"login_read", "change_persisted"}
      BY <1>0 DEF Call
    <2>2. (Finish(c) \/ calls' = [calls EXCEPT ![c] = call]) /\ UNCHANGED <<now, account, claims>>
      BY <1>10 DEF ChangeRead, Goto
    <2> HIDE DEF call
    <2> QED BY <2>1, <2>2, DatedPlain, DatedEnd
  <1>11. ASSUME NEW c \in Calls, ChangePersist(c)
         PROVE  Dated'
    <2> DEFINE call == [calls[c] EXCEPT !.pc = "change_persisted",
                          !.epoch = account[calls[c].user].epoch + 1, !.stamp = now]
    <2>1. calls[c].user \in Users
      BY <1>11 DEF ChangePersist, At, Types, CallFields, FieldsOK
    <2>2. call.stamp <= now /\ call.user = calls[c].user
      BY <1>0 DEF Call
    <2>3. /\ calls' = [calls EXCEPT ![c] = call] /\ SetPassword(calls[c].user)
          /\ UNCHANGED <<now, claims>>
      BY <1>11 DEF ChangePersist, Goto
    <2> HIDE DEF call
    <2> QED BY <2>1, <2>2, <2>3, DatedPassword
  <1>12. ASSUME NEW c \in Calls, SwitchRetire(c) \/ ChangeRevoke(c) \/ ChangeRevokeFails(c)
                                 \/ AdminRevoke(c) \/ CallFails(c)
         PROVE  Dated'
    BY <1>12, DatedEnd DEF SwitchRetire, ChangeRevoke, ChangeRevokeFails, AdminRevoke, CallFails
  <1>13. ASSUME NEW c \in Calls, NEW kind \in Kinds, NEW u \in Users, NEW o \in Orgs,
                AdminWrite(c, kind, u, o)
         PROVE  Dated'
    <2> DEFINE call == [Idle EXCEPT !.pc = "admin_written", !.user = u, !.kind = kind]
    <2>1. calls' = [calls EXCEPT ![c] = call] /\ UNCHANGED <<now, claims>>
      BY <1>13 DEF AdminWrite, Begin
    <2>2. call.stamp <= now /\ call.user = u /\ call.pc = "admin_written"
      BY <1>0 DEF Idle
    <2>3. CASE SetPassword(u)
      BY <2>1, <2>2, <2>3, DatedPassword
    <2>4. CASE ~SetPassword(u)
      <3>1. \A v \in Users : /\ account'[v].epoch = account[v].epoch
                            /\ account'[v].setAt = account[v].setAt
                            /\ account'[v].changedAt <= now
        BY <1>0, <1>13, <2>4 DEF AdminWrite, Account
      <3>2. \A d \in Calls : \/ calls'[d] = calls[d]
                             \/ /\ calls'[d].stamp <= now
                                /\ calls'[d].pc \notin {"login_read", "change_persisted"}
        BY <1>0, <2>1, <2>2
      <3> QED BY <2>1, <3>1, <3>2, DatedRow
    <2> QED BY <2>3, <2>4
  <1>14. ASSUME NEW c \in Calls, RoleWrite(c)
         PROVE  Dated'
    <2> DEFINE call == [calls[c] EXCEPT !.pc = "admin_written"]
    <2>1. CASE account[calls[c].user].deleted
      BY <1>14, <2>1, DatedEnd DEF RoleWrite
    <2>2. CASE ~account[calls[c].user].deleted
      <3>1. /\ calls' = [calls EXCEPT ![c] = call] /\ UNCHANGED <<now, claims>>
            /\ account' = [account EXCEPT ![calls[c].user].changedAt = calls[c].stamp]
        BY <1>14, <2>2 DEF RoleWrite, Goto
      <3>2. call.stamp <= now /\ call.pc = "admin_written"
        BY <1>0 DEF Call
      <3>3. \A v \in Users : /\ account'[v].epoch = account[v].epoch
                            /\ account'[v].setAt = account[v].setAt
                            /\ account'[v].changedAt <= now
        BY <1>0, <3>1 DEF Account
      <3> HIDE DEF call
      <3>4. \A d \in Calls : \/ calls'[d] = calls[d]
                             \/ /\ calls'[d].stamp <= now
                                /\ calls'[d].pc \notin {"login_read", "change_persisted"}
        BY <1>0, <3>1, <3>2
      <3> QED BY <3>1, <3>3, <3>4, DatedRow
    <2> QED BY <2>1, <2>2
  <1>15. ASSUME NEW u \in Users, Reactivate(u)
         PROVE  Dated'
    <2>1. \A v \in Users : /\ account'[v].epoch = account[v].epoch
                          /\ account'[v].setAt = account[v].setAt
                          /\ account'[v].changedAt <= now
      BY <1>0, <1>15 DEF Reactivate, Account
    <2>2. \A d \in Calls : \/ calls'[d] = calls[d]
                           \/ /\ calls'[d].stamp <= now
                              /\ calls'[d].pc \notin {"login_read", "change_persisted"}
      BY <1>15 DEF Reactivate
    <2> QED BY <1>15, <2>1, <2>2, DatedRow DEF Reactivate
  <1>16. CASE Tick
    BY <1>16, DatedTick
  <1>17. CASE UNCHANGED <<now, account, claims, calls>>
    BY <1>17 DEF Dated, CallIsDated, TokenIsDated, Earlier, Minted, FloorSec
  <1> QED
    BY <1>1, <1>2, <1>3, <1>4, <1>5, <1>6, <1>7, <1>8, <1>9, <1>10, <1>11, <1>12, <1>13,
       <1>14, <1>15, <1>16, <1>17
    DEF Next, CallStep, Logout, AddOrgMapping, PurgeExpiredTokenBlocklist, vars

(* A login minted under an earlier password is honoured only when its row   *)
(* was read in the watermark's own second, provided no late role change put *)
(* the watermark back behind the password.                                  *)
THEOREM EarlierLoginsEnd == Spec => []WatermarkEndsEarlierLogins
  <1>1. Init => Types /\ Dated
    BY TypesInit DEF Init, Dated, CallIsDated, Idle, Minted
  <1>2. Types /\ Dated /\ [Next]_vars => Types' /\ Dated'
    BY TypesStep, DatedStep
  <1>3. Types /\ Dated => WatermarkEndsEarlierLogins
    BY DatedWatermark
  <1> QED BY <1>1, <1>2, <1>3, PTL DEF Spec

=============================================================================
