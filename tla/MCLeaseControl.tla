--------------------------- MODULE MCLeaseControl ---------------------------
(* Small instances of LeaseControl for TLC. *)
EXTENDS LeaseControl, TLC

\* Ids are only compared for equality.
MCSymmetry == Permutations(Tenants) \cup Permutations(Attempts) \cup Permutations(Threads)
=============================================================================
