------------------------------ MODULE Plugins -------------------------------
(***************************************************************************)
(* mjpg_streamer loads the plugins its command line names.  The three      *)
(* modelled here share no state but the picture buffer and its mutex,      *)
(* which FrameRelay models with several users, so each is run by itself:   *)
(* the first state chooses the plugin.                                     *)
(***************************************************************************)
EXTENDS HttpServer, RingBuffer, FileInput

VARIABLE plugin

pluginVars == <<plugin, httpVars, ringVars, fileVars>>

Init ==
    /\ plugin \in {"output_http", "output_file", "input_file"}
    /\ HttpInit /\ RingInit /\ FileInit
    /\ plugin = "output_http" \/ text = CHOOSE f \in Sessions : TRUE
    /\ plugin = "output_file" \/ ring = CHOOSE r \in Rings : TRUE
    /\ plugin = "input_file" \/ opts = CHOOSE o \in Options : TRUE

Next ==
    /\ UNCHANGED plugin
    /\ \/ plugin = "output_http" /\ HttpNext /\ UNCHANGED <<ringVars, fileVars>>
       \/ plugin = "output_file" /\ RingNext /\ UNCHANGED <<httpVars, fileVars>>
       \/ plugin = "input_file" /\ FileNext /\ UNCHANGED <<httpVars, ringVars>>

\* The scheduler runs the threads that have to get something done.
Fairness ==
    /\ WF_fileVars(plugin = "input_file" /\ Worker)
    /\ WF_fileVars(plugin = "input_file" /\ Output)

Spec == Init /\ [][Next]_pluginVars /\ Fairness
=============================================================================
