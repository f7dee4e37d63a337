-------------------------- MODULE MCCapabilityGrants --------------------------
(* Two roles, a tool with a page and an operation on it, and a console of   *)
(* the platform that no tenant may grant.                                   *)
EXTENDS CapabilityGrants, TLC

CONSTANTS r1, r2, tool, page, op, console

MCKind == tool :> "tool" @@ page :> "page" @@ op :> "op" @@ console :> "tool"
MCParent == tool :> None @@ page :> tool @@ op :> page @@ console :> None
MCDefaults ==
  r1 :> [c \in Caps |-> IF c \in {console, page} THEN "none" ELSE "on"] @@
  r2 :> [c \in Caps |-> IF c = op THEN "on" ELSE "none"]
=============================================================================
