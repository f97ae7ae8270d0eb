---------------------------- MODULE MCObsPlayback ----------------------------
(* ObsPlayback with two tracks.  The liveness check forbids to take them   *)
(* for alike.                                                              *)
EXTENDS ObsPlayback

CONSTANTS t1, t2
=============================================================================
