------------------------ MODULE MCPlaybackSupervision ------------------------
(* The instances of PlaybackSupervision: every constant is a number that the *)
(* configurations give, so that the code's bounds of 512 lines, 64 events    *)
(* and 32 waiting events are reached within a few steps.                     *)
EXTENDS PlaybackSupervision
=============================================================================
