--------------------------- MODULE MCTunnelEngine ---------------------------
(* Small instances of TunnelEngine for TLC. *)
EXTENDS TunnelEngine, TLC

\* The engine never orders or compares these values, so permuting them is sound
\* for the safety runs.
MCSymmetry == Permutations(Nodes) \cup Permutations(Tunnels) \cup Permutations(Ports)
                \cup Permutations(Workers)
=============================================================================
