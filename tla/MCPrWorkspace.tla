--------------------------- MODULE MCPrWorkspace ---------------------------
(* An instance of PrWorkspace for TLC: jobs 1 and 2 ask for the same.      *)
EXTENDS PrWorkspace

CONSTANTS code, image, bump, fix, v1, v2

MCRequests == {bump, fix}
MCRequest == [j \in Jobs |-> IF j = 3 THEN fix ELSE bump]
MCBaseTree == [p \in Paths |-> IF p = code THEN v1 ELSE Absent]
=============================================================================
