----------------------------- MODULE MCApiKeys ------------------------------
(* A small instance of ApiKeys: room for a client and its successors, two   *)
(* scopes, and grants of one or both.                                       *)
EXTENDS ApiKeys, TLC

MCGrants == {{"read"}, {"read", "write"}}
MCSymmetry == Permutations(Admins) \cup Permutations(Keys)
=============================================================================
