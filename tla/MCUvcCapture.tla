---------------------------- MODULE MCUvcCapture ----------------------------
(* Small instances of UvcCapture for TLC. *)
EXTENDS UvcCapture

Works == {TRUE}
Either == BOOLEAN

\* Commands come only while the stream runs.
RunningSpec == Init /\ [][Next /\ (Resize => streamingState = "on")]_vars
=============================================================================
