---------------------------- MODULE MCPlanAccess ----------------------------
EXTENDS PlanAccess, TLC

\* Rows and requests do not differ.
Alike == Permutations(Plans) \cup Permutations(Guarded)
=============================================================================
