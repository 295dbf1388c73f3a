---------------------------- MODULE MCTelemetry -----------------------------
(* An instance of SerialSync and Telemetry, with frames of the length of the code's. *)
EXTENDS Telemetry

Len21 == 21

\* Up to two bytes 255 anywhere, a run of them, every other byte, and all.
MCPatterns ==
    {{}} \cup {{i, j} : i, j \in 1 .. Len21}
         \cup {4 .. 9, {i \in 1 .. Len21 : i % 2 = 0}, 1 .. Len21}

MCBusy == {{}}
=============================================================================
