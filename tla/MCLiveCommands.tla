-------------------------- MODULE MCLiveCommands --------------------------
(* Small instances of LiveCommands for TLC.                                 *)
EXTENDS LiveCommands

SkewSet == {0, 2}
NoSkew == {0}
=============================================================================
