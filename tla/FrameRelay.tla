----------------------------- MODULE FrameRelay -----------------------------
(***************************************************************************)
(* How mjpg-streamer hands the pictures of a camera to its consumers: the  *)
(* camera thread (cam_thread, plugins/input_uvc/input_uvc.c) publishes in  *)
(* the global buffer in[0] under the mutex db and broadcasts db_update;    *)
(* HTTP streams and snapshots (plugins/output_http/httpd.c) and the        *)
(* workers of output_file and output_udp wait for the broadcast, copy the  *)
(* picture and pass it on; signal_handler (mjpg_streamer.c) shuts the      *)
(* whole down.                                                             *)
(*                                                                         *)
(* A picture is a number, given in the order of capture.  The picture, its *)
(* size and its timestamp are three stores and three loads, and each       *)
(* carries the number of the picture it belongs to; the size is 0 when     *)
(* memcpy_picture finds no start-of-frame marker and copies nothing.       *)
(***************************************************************************)
EXTENDS Integers, Sequences, FiniteSets

CONSTANTS
    Streams,        \* HTTP clients in send_stream
    Snapshots,      \* HTTP clients in send_snapshot
    Workers,        \* worker threads of output_file and output_udp
    Out,            \* the output plugins: the worker of each, or NoWorker
    NoWorker,
    DropSmall,      \* option -m: frames below minimum_size are dropped
    LowFps,         \* fps < 5: the camera thread sleeps after a frame
    MaxSignals,     \* bound: 1 if the shutdown signal may come, else 0
    MaxFrames       \* bound: later frames all bear this number

Consumers == Streams \cup Snapshots \cup Workers
Frame == 0 .. MaxFrames

ASSUME RelayAssumption ==
    /\ Streams \cap Snapshots = {} /\ Workers \cap (Streams \cup Snapshots) = {}
    /\ {"cam", "free"} \cap Consumers = {}
    /\ NoWorker \notin Consumers
    /\ Out \in Seq(Workers \cup {NoWorker})
    /\ DropSmall \in BOOLEAN
    /\ LowFps \in BOOLEAN
    /\ MaxSignals \in {0, 1}
    /\ MaxFrames \in Nat \ {0}

VARIABLES
    stop,           \* global.stop
    db,             \* owner of the mutex in[0].db, or "free"
    waiting,        \* consumers blocked in pthread_cond_wait
    data, size, stamp,  \* in[0].buf, in[0].size and in[0].timestamp
    camPc,          \* cam_thread
    seq,            \* the number of the last picture captured
    tmp, whole,     \* tmpbuffer: its picture, and whether it has a marker
    pc, got,        \* each consumer and what it has copied
    sigPc, outIdx,  \* signal_handler and the next output plugin it stops
    cancelled,      \* threads pthread_cancel was called on
    freed,          \* cam_cleanup has freed in[0].buf
    destroyed,      \* db and db_update have been destroyed
    exited          \* the process has ended

bufVars == <<data, size, stamp>>
camVars == <<camPc, seq, tmp, whole>>
sigVars == <<stop, sigPc, outIdx, cancelled, destroyed, exited>>
conVars == <<pc, got, waiting>>
vars == <<bufVars, camVars, sigVars, conVars, db, freed>>

Nothing == [size |-> 0, stamp |-> 0, data |-> 0]

Init ==
    /\ stop = FALSE /\ db = "free" /\ waiting = {}
    /\ data = 0 /\ size = 0 /\ stamp = 0
    /\ camPc = "top" /\ seq = 0 /\ tmp = 0 /\ whole = FALSE
    /\ pc = [c \in Consumers |-> IF c \in Snapshots THEN "lock" ELSE "top"]
    /\ got = [c \in Consumers |-> Nothing]
    /\ sigPc = "pause" /\ outIdx = 1 /\ cancelled = {}
    /\ freed = FALSE /\ destroyed = FALSE /\ exited = FALSE

\* pthread_mutex_lock on a mutex that was destroyed fails, and nobody looks.
Acquire(t) == (db = "free" \/ destroyed) /\ db' = t

Release == db' = "free"

-----------------------------------------------------------------------------
(* cam_thread *)

camOthers == <<sigVars, conVars>>

CamGoto(from, to) == camPc = from /\ camPc' = to

CamTop ==
    /\ CamGoto("top", IF stop THEN "cleanup" ELSE "grab")
    /\ UNCHANGED <<seq, tmp, whole, bufVars, db, freed, camOthers>>

\* uvcGrab copies a picture to tmpbuffer.
Capture == IF seq < MaxFrames THEN seq + 1 ELSE seq

\* Mutant: the picture is taken from another of the driver's buffers.
CamGrabOther(marker) ==
    /\ CamGoto("grab", "lock")
    /\ seq' = Capture
    /\ tmp' \in 1 .. seq'
    /\ whole' = marker
    /\ UNCHANGED <<bufVars, db, freed, camOthers>>

CamGrab(marker) ==
    /\ CamGoto("grab", "lock")
    /\ seq' = Capture
    /\ tmp' = seq'
    /\ whole' = marker
    /\ UNCHANGED <<bufVars, db, freed, camOthers>>

\* A picture below minimum_size is copied to tmpbuffer and dropped.
CamGrabSmall ==
    /\ DropSmall
    /\ CamGoto("grab", "top")
    /\ seq' = Capture
    /\ tmp' = seq'
    /\ whole' \in BOOLEAN
    /\ UNCHANGED <<bufVars, db, freed, camOthers>>

\* "Ignoring empty buffer ...": uvcGrab returns 0 and leaves tmpbuffer as it
\* was; without -m the old picture is published once more.
CamGrabEmpty ==
    /\ CamGoto("grab", IF DropSmall THEN "top" ELSE "lock")
    /\ UNCHANGED <<seq, tmp, whole, bufVars, db, freed, camOthers>>

\* "Error grabbing frames": exit(EXIT_FAILURE)
CamGrabFails ==
    /\ camPc = "grab"
    /\ exited' = TRUE
    /\ UNCHANGED <<camVars, bufVars, db, freed, conVars, stop, sigPc, outIdx,
                   cancelled, destroyed>>

\* Mutant: publishes without the lock.
CamLockNot ==
    /\ CamGoto("lock", "data")
    /\ UNCHANGED <<seq, tmp, whole, bufVars, db, freed, camOthers>>

CamLock ==
    /\ CamGoto("lock", "data")
    /\ Acquire("cam")
    /\ UNCHANGED <<seq, tmp, whole, bufVars, freed, camOthers>>

\* memcpy_picture, or compress_yuyv_to_jpeg
CamData ==
    /\ CamGoto("data", "size")
    /\ data' = IF whole THEN tmp ELSE data
    /\ UNCHANGED <<seq, tmp, whole, size, stamp, db, freed, camOthers>>

\* Mutant: the size counts one byte too many.
CamSizeOff ==
    /\ CamGoto("size", "stamp")
    /\ size' = IF whole THEN tmp + 1 ELSE 0
    /\ UNCHANGED <<seq, tmp, whole, data, stamp, db, freed, camOthers>>

CamSize ==
    /\ CamGoto("size", "stamp")
    /\ size' = IF whole THEN tmp ELSE 0
    /\ UNCHANGED <<seq, tmp, whole, data, stamp, db, freed, camOthers>>

\* Mutant: the timestamp is not copied.
CamStampForgets ==
    /\ CamGoto("stamp", "broadcast")
    /\ UNCHANGED <<seq, tmp, whole, bufVars, db, freed, camOthers>>

CamStamp ==
    /\ CamGoto("stamp", "broadcast")
    /\ stamp' = tmp
    /\ UNCHANGED <<seq, tmp, whole, data, size, db, freed, camOthers>>

CamBroadcast ==
    /\ CamGoto("broadcast", "unlock")
    /\ waiting' = {}
    /\ UNCHANGED <<seq, tmp, whole, bufVars, db, freed, sigVars, pc, got>>

CamUnlock ==
    /\ CamGoto("unlock", IF LowFps THEN "nap" ELSE "top")
    /\ Release
    /\ UNCHANGED <<seq, tmp, whole, bufVars, freed, camOthers>>

\* usleep, the only call of the loop that acts on pthread_cancel.
CamNap ==
    /\ CamGoto("nap", IF "cam" \in cancelled THEN "cleanup" ELSE "top")
    /\ UNCHANGED <<seq, tmp, whole, bufVars, db, freed, camOthers>>

\* cam_cleanup frees the global buffer, without the lock.
CamCleanup ==
    /\ CamGoto("cleanup", "dead")
    /\ freed' = TRUE
    /\ UNCHANGED <<seq, tmp, whole, bufVars, db, camOthers>>

CamSteps ==
    \/ CamTop \/ (\E marker \in BOOLEAN : CamGrab(marker)) \/ CamGrabSmall
    \/ CamGrabEmpty \/ CamLock \/ CamData \/ CamSize \/ CamStamp \/ CamBroadcast
    \/ CamUnlock \/ CamNap \/ CamCleanup

CamThread == CamSteps \/ CamGrabFails

-----------------------------------------------------------------------------
(* send_stream, send_snapshot and worker_thread *)

conOthers == <<bufVars, camVars, sigVars, freed>>

ConGoto(c, from, to) == pc[c] = from /\ pc' = [pc EXCEPT ![c] = to]

ConTop(c) ==
    /\ ConGoto(c, "top", IF stop THEN "done" ELSE "lock")
    /\ UNCHANGED <<got, waiting, db, conOthers>>

\* The wait follows the lock without a look at any predicate.
ConLock(c) ==
    /\ ConGoto(c, "lock", "enter")
    /\ Acquire(c)
    /\ UNCHANGED <<got, waiting, conOthers>>

ConWait(c) ==
    /\ ConGoto(c, "enter", "wait")
    /\ waiting' = waiting \cup {c}
    /\ Release
    /\ UNCHANGED <<got, conOthers>>

\* pthread_cond_wait may return without a broadcast.
ConSpurious(c) ==
    /\ pc[c] = "wait" /\ c \in waiting
    /\ waiting' = waiting \ {c}
    /\ UNCHANGED <<pc, got, db, conOthers>>

ConWake(c) ==
    /\ c \notin waiting \cup cancelled
    /\ ConGoto(c, "wait", "size")
    /\ Acquire(c)
    /\ UNCHANGED <<got, waiting, conOthers>>

\* Only the HTTP clients copy the timestamp.
ConSize(c) ==
    /\ ConGoto(c, "size", IF c \in Workers THEN "data" ELSE "stamp")
    /\ got' = [got EXCEPT ![c].size = size]
    /\ UNCHANGED <<waiting, db, conOthers>>

\* Mutant: returns without the unlock.
ConNoMemoryLocked(c) ==
    /\ ConGoto(c, "size", "done")
    /\ UNCHANGED <<got, waiting, db, conOthers>>

\* malloc or realloc fails: "not enough memory"
ConNoMemory(c) ==
    /\ ConGoto(c, "size", "done")
    /\ Release
    /\ UNCHANGED <<got, waiting, conOthers>>

ConStamp(c) ==
    /\ ConGoto(c, "stamp", "data")
    /\ got' = [got EXCEPT ![c].stamp = stamp]
    /\ UNCHANGED <<waiting, db, conOthers>>

\* memcpy of size bytes, which may be none; from a buffer that was freed,
\* anything.
ConData(c) ==
    /\ ConGoto(c, "data", "unlock")
    /\ \E d \in Frame :
          /\ IF got[c].size = 0 THEN d = got[c].data ELSE freed \/ d = data
          /\ got' = [got EXCEPT ![c].data = d]
    /\ UNCHANGED <<waiting, db, conOthers>>

ConUnlock(c) ==
    /\ ConGoto(c, "unlock", "deliver")
    /\ Release
    /\ UNCHANGED <<got, waiting, conOthers>>

\* The picture is written to the client or the file; the write may fail.  Its
\* size and timestamp are not used again.
ConDeliver(c, ok) ==
    /\ c \notin cancelled
    /\ ConGoto(c, "deliver", IF ok /\ c \notin Snapshots THEN "top" ELSE "done")
    /\ got' = [got EXCEPT ![c] = [size |-> 0, stamp |-> 0, data |-> got[c].data]]
    /\ UNCHANGED <<waiting, db, conOthers>>

\* A cancelled worker dies in pthread_cond_wait, with the mutex locked again, or
\* while it writes.  worker_cleanup does not unlock.
ConDie(c) ==
    /\ c \in cancelled
    /\ \/ /\ pc[c] = "wait"
          /\ Acquire(c)
       \/ /\ pc[c] = "deliver"
          /\ UNCHANGED db
    /\ pc' = [pc EXCEPT ![c] = "done"]
    /\ waiting' = waiting \ {c}
    /\ UNCHANGED <<got, conOthers>>

ConSteps(c) ==
    \/ ConTop(c) \/ ConWait(c) \/ ConSize(c) \/ ConStamp(c) \/ ConData(c)
    \/ ConUnlock(c) \/ ConDie(c)

Consumer(c) ==
    \/ ConSteps(c) \/ ConLock(c) \/ ConWake(c) \/ ConSpurious(c)
    \/ ConNoMemory(c)
    \/ \E ok \in BOOLEAN : ConDeliver(c, ok)

-----------------------------------------------------------------------------
(* signal_handler, on the main thread.  It gives the threads a second after  *)
(* each phase, and waits for none of them.                                   *)

sigOthers == <<bufVars, camVars, conVars, db, freed>>

Signal ==
    /\ sigPc = "pause" /\ MaxSignals = 1
    /\ stop' = TRUE
    /\ sigPc' = "input"
    /\ UNCHANGED <<outIdx, cancelled, destroyed, exited, sigOthers>>

StopInput ==
    /\ sigPc = "input"
    /\ cancelled' = cancelled \cup {"cam"}
    /\ sigPc' = "output"
    /\ UNCHANGED <<stop, outIdx, destroyed, exited, sigOthers>>

\* output_stop of the next output plugin.  The HTTP server's does not touch its clients.
StopOutput ==
    /\ sigPc = "output" /\ outIdx <= Len(Out)
    /\ cancelled' = cancelled \cup ({Out[outIdx]} \ {NoWorker})
    /\ sigPc' = "destroy"
    /\ UNCHANGED <<stop, outIdx, destroyed, exited, sigOthers>>

\* The same index picks the input whose mutex and condition variable are destroyed: those
\* of in[0] go with the first output, right after the cancellation of its worker.
Destroy ==
    /\ sigPc = "destroy"
    /\ destroyed' = TRUE
    /\ outIdx' = outIdx + 1
    /\ sigPc' = "output"
    /\ UNCHANGED <<stop, cancelled, exited, sigOthers>>

Exit ==
    /\ sigPc = "output" /\ outIdx > Len(Out)
    /\ exited' = TRUE
    /\ UNCHANGED <<stop, sigPc, outIdx, cancelled, destroyed, sigOthers>>

Handler == StopInput \/ StopOutput \/ Destroy \/ Exit

-----------------------------------------------------------------------------
Next ==
    /\ ~exited
    /\ \/ CamThread
       \/ \E c \in Consumers : Consumer(c)
       \/ Signal \/ Handler

Spec == Init /\ [][Next]_vars

\* The camera delivers pictures, threads that are ready run, and a thread that
\* wants the mutex gets it when it is free often enough.  Clients need not read
\* what is written to them, and no signal need come.
Fairness ==
    /\ WF_vars(~exited /\ CamSteps)
    /\ SF_vars(~exited /\ CamLock)
    /\ WF_vars(~exited /\ Handler)
    /\ \A c \in Consumers :
          /\ WF_vars(~exited /\ ConSteps(c))
          /\ SF_vars(~exited /\ ConLock(c))
          /\ SF_vars(~exited /\ ConWake(c))

FairSpec == Spec /\ Fairness

-----------------------------------------------------------------------------
CamPcs == {"top", "grab", "lock", "data", "size", "stamp", "broadcast", "unlock",
           "nap", "cleanup", "dead"}
ConPcs == {"top", "lock", "enter", "wait", "size", "stamp", "data", "unlock",
           "deliver", "done"}

TypeBuf ==
    /\ data \in Frame /\ size \in Frame /\ stamp \in Frame
    /\ db \in Consumers \cup {"cam", "free"}
    /\ freed \in BOOLEAN

TypeCam == camPc \in CamPcs /\ seq \in Frame /\ tmp \in Frame /\ whole \in BOOLEAN

TypeCon ==
    /\ pc \in [Consumers -> ConPcs]
    /\ got \in [Consumers -> [size : Frame, stamp : Frame, data : Frame]]
    /\ waiting \in SUBSET Consumers

TypeSig ==
    /\ stop \in BOOLEAN /\ sigPc \in {"pause", "input", "output", "destroy"}
    /\ outIdx \in 1 .. Len(Out) + 1
    /\ sigPc = "destroy" => outIdx <= Len(Out)
    /\ cancelled \in SUBSET (Workers \cup {"cam"})
    /\ destroyed \in BOOLEAN /\ exited \in BOOLEAN

\* Type invariant.
TypeOK == TypeBuf /\ TypeCam /\ TypeCon /\ TypeSig

\* A size, a timestamp and a picture that belong together, or no picture.
Consistent(c) ==
    \/ got[c].size = 0
    \/ /\ got[c].data = got[c].size
       /\ c \in Workers \/ got[c].stamp = got[c].size

\* What a consumer passes on is one picture with the size and the timestamp of
\* that picture, whatever the camera publishes meanwhile and however the waits
\* return, as long as shutdown has not taken the buffer or the mutex away.
WholeFrames ==
    ~freed /\ ~destroyed =>
        \A c \in Consumers : pc[c] = "deliver" => Consistent(c)

\* A stream or a directory of pictures never goes back in time.
InOrder(c) == got'[c].data >= got[c].data
FramesInOrder == [][freed \/ \A c \in Consumers : InOrder(c)]_vars

\* The program counters between lock and unlock.
CamInside == {"data", "size", "stamp", "broadcast", "unlock"}
ConInside == {"enter", "size", "stamp", "data", "unlock"}

\* Until shutdown destroys it, no thread leaves the mutex locked behind it: not a
\* consumer that is out of memory, whose client is gone or that returns because of stop,
\* nor a camera thread that is told to stop or cancelled.  The one exception is a worker
\* that pthread_cancel finds in pthread_cond_wait: it gets the mutex back and dies with it.
LockGivenBack ==
    ~destroyed =>
        \/ db = "free"
        \/ db = "cam" /\ camPc \in CamInside
        \/ db \in Consumers /\ pc[db] \in ConInside
        \/ db \in cancelled \ {"cam"} /\ pc[db] = "done"

\* A consumer that asks for a picture copies one, or learns that there is no
\* memory for it, unless the server is being shut down or the camera failed.
ServedEventually ==
    \A c \in Consumers :
        pc[c] = "lock" ~> (pc[c] \in {"deliver", "done"} \/ stop \/ exited)

\* "plugins can tidily shutdown and free allocated resources": nobody copies
\* from the global buffer once it has been freed.
FreedUnused == \A c \in Consumers : pc[c] = "data" => ~freed
=============================================================================
