---------------------------- MODULE MCFrameRelay ----------------------------
(* Small instances of FrameRelay for TLC. *)
EXTENDS FrameRelay

CONSTANT w1     \* the worker of output_file

FileAndHttp == <<w1, NoWorker>>
Http == <<NoWorker>>
=============================================================================
