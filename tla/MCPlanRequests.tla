---------------------------- MODULE MCPlanRequests ----------------------------
(* The values of MCPlanListing; symmetry of readers and requests.          *)
EXTENDS MCPlanListing, PlanRequests

PlansSymmetry == Symmetry \cup Permutations(Requests)
=============================================================================
