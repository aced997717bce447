--------------------------- MODULE MCLiveStreams ---------------------------
(* Small instances of LiveStreams for TLC. *)
EXTENDS LiveStreams, TLC

Symmetry == Permutations(Streams)
=============================================================================
