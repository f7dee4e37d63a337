------------------------- MODULE MCCapabilityCache -------------------------
(* Small instances of CapabilityCache.                                      *)
EXTENDS CapabilityCache, TLC

=============================================================================
