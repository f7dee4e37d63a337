----------------------------- MODULE MCSessions -----------------------------
(* Small instances of Sessions: ordinary users of one tenant, at home in    *)
(* one branch.                                                              *)
EXTENDS Sessions, TLC

CONSTANTS h, t1   \* the home branch of every user, the tenant

MCTenants == {t1}
MCHomeOrg == [u \in Users |-> h]
MCTenantOf == [o \in Orgs |-> t1]
MCPlatformRole == [u \in Users |-> "member"]

Symmetry == Permutations(Users) \cup Permutations(Jti) \cup Permutations(Calls)

=============================================================================
