--------------------------- MODULE MCDashboardFeed ---------------------------
(* An instance of DashboardFeed for TLC: two payments, alike.                *)
EXTENDS DashboardFeed

CONSTANTS p1, p2

Alike == Permutations(Payments)
=============================================================================
