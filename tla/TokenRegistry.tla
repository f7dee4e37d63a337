---------------------------- MODULE TokenRegistry ----------------------------
(***************************************************************************)
(* What the token code promises, without the blocklist: a set of live      *)
(* tokens.  A token enters it once, when it is issued, and leaves it for   *)
(* good: alone, with all earlier tokens of its own user, or when its       *)
(* lifetime is over.  Nothing else changes the set, and nobody else's      *)
(* token is touched.                                                       *)
(***************************************************************************)
EXTENDS Naturals

CONSTANTS Users, Tokens, None, MaxAge

VARIABLES
  now,      \* the clock
  issued,   \* each token's user and time of issue, None before
  live      \* the tokens that admit their bearer

registry == <<now, issued, live>>

Init ==
  /\ now = 0
  /\ issued = [t \in Tokens |-> None]
  /\ live = {}

(* A token may be refused from the start: its time of issue is rounded      *)
(* down, possibly behind a revocation of its user in the same second.       *)
Issue(t, u, at) ==
  /\ issued[t] = None
  /\ issued' = [issued EXCEPT ![t] = [user |-> u, iat |-> at]]
  /\ live' \in {live, live \cup {t}}
  /\ UNCHANGED now

EndToken(t) ==
  /\ live' = live \ {t}
  /\ UNCHANGED <<now, issued>>

(* The tokens of one user that were issued before a moment that has come.   *)
EndUser(u, at) ==
  /\ live' = {t \in live : ~(issued[t].user = u /\ issued[t].iat < at)}
  /\ UNCHANGED <<now, issued>>

(* Time ends exactly the tokens whose lifetime is over.                     *)
Advance ==
  /\ now' = now + 1
  /\ live' = {t \in live : now' < issued[t].iat + MaxAge}
  /\ UNCHANGED issued

Next ==
  \/ \E t \in Tokens, u \in Users, at \in 0..now : Issue(t, u, at)
  \/ \E t \in Tokens : EndToken(t)
  \/ \E u \in Users, at \in 0..now : EndUser(u, at)
  \/ Advance

Spec == Init /\ [][Next]_registry

----------------------------------------------------------------------------
(* What the registry is for: a token that was issued and admits its bearer   *)
(* no longer never does again (logout, revocation, expiry are final).        *)
GoneForGood ==
  [][\A t \in Tokens : issued[t] # None /\ t \notin live => t \notin live']_registry

=============================================================================
