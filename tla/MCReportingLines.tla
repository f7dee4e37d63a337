-------------------------- MODULE MCReportingLines --------------------------
(* Small instances of ReportingLines: ordinary users, or one tenant_admin.  *)
EXTENDS ReportingLines, TLC

Symmetry == Permutations(Users \ TenantWide) \cup Permutations(Orgs)

=============================================================================
