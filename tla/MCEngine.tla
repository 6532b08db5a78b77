------------------------------ MODULE MCEngine ------------------------------
(* Engine with a hash for each load balancer and, for the claim of its     *)
(* header, with every remainder of a hash by the number of workers.        *)
EXTENDS Engine

MCHashes == {1, 2}
EveryHash == 0 .. NumLBs * FpsPerLB - 1
=============================================================================
