---------------------------- MODULE FixedWindow ----------------------------
(***************************************************************************)
(* The in-memory fixed-window limiter of the gateway, written twice in the *)
(* code: per client address (lib/rate-limit.ts) and per API key            *)
(* (lib/public-auth.ts).  A window is [count, left]: the hits so far and   *)
(* the ticks until it resets.                                              *)
(***************************************************************************)
EXTENDS Integers, FiniteSets

\* Mutant: the sweep of a large map keeps nobody's window.
SweptEmpty(windows) == {}

\* The sweep of a large map keeps the windows that have not reset.
Swept(windows) == {k \in DOMAIN windows : windows[k].left > 0}

\* A hit by caller: a window that has reset starts again, and only then a map
\* of `crowd` entries is swept.  Hits above max are not told apart.
Hit(windows, caller, length, crowd, max) ==
  LET starts == caller \notin DOMAIN windows \/ windows[caller].left = 0
      w == IF starts THEN [count |-> 1, left |-> length]
           ELSE [windows[caller] EXCEPT !.count = IF @ > max THEN @ ELSE @ + 1]
      kept == IF starts /\ Cardinality(DOMAIN windows \cup {caller}) >= crowd
              THEN Swept(windows) ELSE DOMAIN windows
  IN [k \in kept \cup {caller} |-> IF k = caller THEN w ELSE windows[k]]

Over(windows, caller, max) == windows[caller].count > max

\* One tick later.
Older(windows) ==
  [k \in DOMAIN windows |->
     [windows[k] EXCEPT !.left = IF @ = 0 THEN 0 ELSE @ - 1]]

============================================================================
