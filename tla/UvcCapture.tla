----------------------------- MODULE UvcCapture -----------------------------
(***************************************************************************)
(* The camera side of mjpg-streamer: cam_thread (input_uvc.c) takes filled *)
(* buffers from the V4L2 driver and gives them back (uvcGrab, v4l2uvc.c),  *)
(* while a client's command to change the resolution (input_cmd and        *)
(* setResolution) stops the stream, closes the device and opens it again.  *)
(* The two threads share struct vdIn, without a lock.                      *)
(*                                                                         *)
(* One command runs at a time.  The driver is modelled by what its calls   *)
(* return: VIDIOC_DQBUF waits for a filled buffer and fails when the       *)
(* stream is off; VIDIOC_QBUF fails for a buffer the driver already has;   *)
(* VIDIOC_STREAMON fails without buffers, and succeeds on a running stream.*)
(***************************************************************************)
EXTENDS Integers, FiniteSets

CONSTANTS
    NB,             \* NB_BUFFER, 4
    MaxEmpties,     \* bound: buffers of at most HEADERFRAME1 bytes
    MaxResizes,     \* bound: commands to change the resolution
    DeviceOk        \* the outcomes of the command's calls to the device

Buffers == 1 .. NB

ASSUME CaptureAssumption ==
    /\ NB \in Nat \ {0}
    /\ MaxEmpties \in Nat
    /\ MaxResizes \in Nat
    /\ DeviceOk \subseteq BOOLEAN

VARIABLES
    streamingState, \* vd->streamingState: "off", "on" or "paused"
    streaming,      \* the driver is filling buffers
    open,           \* vd->fd is an open device
    allocated,      \* the device has buffers
    mapped,         \* the buffers b with vd->mem[b] in the address space
    queued,         \* the buffers the driver has
    index,          \* vd->buf.index, written by both threads
    camPc, fresh,   \* cam_thread, and whether tmpbuffer is a new picture
    cmdPc, i,       \* the client's thread, and init_v4l2's loop variable
    failed,         \* a command could not do its work
    alive,          \* the process has neither exited nor crashed
    empties, resizes

devVars == <<streaming, open, allocated, mapped, queued>>
cmdVars == <<cmdPc, i, failed, resizes>>
vars == <<streamingState, devVars, index, camPc, fresh, cmdVars, alive, empties>>

\* init_videoIn has opened the device and queued its buffers.
Init ==
    /\ streamingState = "off" /\ streaming = FALSE
    /\ open = TRUE /\ allocated = TRUE /\ mapped = Buffers
    /\ queued = Buffers /\ index = NB
    /\ camPc = "test" /\ fresh = FALSE
    /\ cmdPc = "idle" /\ i = 1 /\ failed = FALSE
    /\ alive = TRUE
    /\ empties = 0 /\ resizes = 0

-----------------------------------------------------------------------------
(* cam_thread *)

CamGoto(from, to) == camPc = from /\ camPc' = to

\* "Error grabbing frames", or a read of memory that is no longer mapped.
Die == alive' = FALSE

\* while (streamingState == STREAMING_PAUSED) usleep(1)
CamTest ==
    /\ streamingState # "paused"
    /\ CamGoto("test", "grab")
    /\ UNCHANGED <<streamingState, devVars, index, fresh, cmdVars, alive, empties>>

\* if (streamingState == STREAMING_OFF)
CamGrab ==
    /\ CamGoto("grab", IF streamingState = "off" THEN "streamon" ELSE "clear")
    /\ fresh' = FALSE
    /\ UNCHANGED <<streamingState, devVars, index, cmdVars, alive, empties>>

\* video_enable: VIDIOC_STREAMON, or "Unable to start capture" ...
CamStreamOn ==
    /\ CamGoto("streamon", "on")
    /\ IF open /\ allocated THEN streaming' = TRUE /\ UNCHANGED alive
                            ELSE Die /\ UNCHANGED streaming
    /\ UNCHANGED <<streamingState, open, allocated, mapped, queued, index, fresh,
                   cmdVars, empties>>

\* ... and the store that follows it.
CamOn ==
    /\ CamGoto("on", "clear")
    /\ streamingState' = "on"
    /\ UNCHANGED <<devVars, index, fresh, cmdVars, alive, empties>>

\* memset(&vd->buf, 0, ...)
CamClear ==
    /\ CamGoto("clear", "dequeue")
    /\ index' = 1
    /\ UNCHANGED <<streamingState, devVars, fresh, cmdVars, alive, empties>>

CamDequeue(b) ==
    /\ open /\ streaming
    /\ b \in queued
    /\ CamGoto("dequeue", "copy")
    /\ queued' = queued \ {b}
    /\ index' = b
    /\ UNCHANGED <<streamingState, streaming, open, allocated, mapped, fresh, cmdVars,
                   alive, empties>>

\* "Ignoring empty buffer ...": the function returns before VIDIOC_QBUF.
CamDequeueEmpty(b) ==
    /\ open /\ streaming
    /\ b \in queued
    /\ empties < MaxEmpties
    /\ empties' = empties + 1
    /\ CamGoto("dequeue", "publish")
    /\ queued' = queued \ {b}
    /\ index' = b
    /\ UNCHANGED <<streamingState, streaming, open, allocated, mapped, fresh, cmdVars,
                   alive>>

\* "Unable to dequeue buffer"
CamDequeueFails ==
    /\ camPc = "dequeue"
    /\ ~(open /\ streaming)
    /\ Die
    /\ UNCHANGED <<streamingState, devVars, index, camPc, fresh, cmdVars, empties>>

\* memcpy to tmpbuffer, from the buffer that vd->buf now names
CamCopy ==
    /\ CamGoto("copy", "enqueue")
    /\ fresh' = TRUE
    /\ alive' = (index \in mapped)
    /\ UNCHANGED <<streamingState, devVars, index, cmdVars, empties>>

\* Mutant: the buffer is kept.
CamEnqueueNot ==
    /\ CamGoto("enqueue", "publish")
    /\ UNCHANGED <<streamingState, devVars, index, fresh, cmdVars, alive, empties>>

\* VIDIOC_QBUF, or "Unable to requeue buffer"
CamEnqueue ==
    /\ CamGoto("enqueue", "publish")
    /\ IF open /\ allocated /\ index \notin queued
       THEN queued' = queued \cup {index} /\ UNCHANGED alive
       ELSE Die /\ UNCHANGED queued
    /\ UNCHANGED <<streamingState, streaming, open, allocated, mapped, index, fresh,
                   cmdVars, empties>>

\* The rest of the loop, FrameRelay's CamLock to CamUnlock.
CamPublish ==
    /\ CamGoto("publish", "test")
    /\ UNCHANGED <<streamingState, devVars, index, fresh, cmdVars, alive, empties>>

CamThread ==
    \/ CamTest
    \/ CamGrab
    \/ CamStreamOn
    \/ CamOn
    \/ CamClear
    \/ \E b \in Buffers : CamDequeue(b) \/ CamDequeueEmpty(b)
    \/ CamDequeueFails
    \/ CamCopy
    \/ CamEnqueue
    \/ CamPublish

-----------------------------------------------------------------------------
(* setResolution, on the thread of an HTTP client *)

camVars == <<camPc, fresh, alive, empties>>

\* A call of the command either works and the command goes on, or it gives up.
Proceed(ok, from, to) ==
    /\ cmdPc = from
    /\ cmdPc' = IF ok THEN to ELSE "idle"
    /\ failed' = (failed \/ ~ok)

Resize ==
    /\ resizes < MaxResizes
    /\ resizes' = resizes + 1
    /\ Proceed(TRUE, "idle", "streamoff")
    /\ streamingState' = "paused"
    /\ UNCHANGED <<devVars, index, i, camVars>>

\* video_disable: VIDIOC_STREAMOFF takes every buffer back from the driver.  A
\* descriptor that an earlier command left closed is an error.
Disable(ok) ==
    /\ ok => open
    /\ Proceed(ok, "streamoff", "unmap")
    /\ streaming' = (streaming /\ ~ok)
    /\ queued' = IF ok THEN {} ELSE queued
    /\ UNCHANGED <<streamingState, open, allocated, mapped, index, i, resizes, camVars>>

\* The store at the end of video_disable, and munmap.
Unmap ==
    /\ Proceed(TRUE, "unmap", "close")
    /\ streamingState' = "paused"
    /\ mapped' = {}
    /\ UNCHANGED <<streaming, open, allocated, queued, index, i, resizes, camVars>>

Close ==
    /\ Proceed(TRUE, "close", "open")
    /\ open' = FALSE /\ streaming' = FALSE /\ allocated' = FALSE /\ queued' = {}
    /\ UNCHANGED <<streamingState, mapped, index, i, resizes, camVars>>

\* init_v4l2: the device is opened and set up; it stays open if only the setting up
\* fails ...
Open(ok) ==
    /\ Proceed(ok, "open", "request")
    /\ open' \in {TRUE, ok}
    /\ UNCHANGED <<streamingState, streaming, allocated, mapped, queued, index, i,
                   resizes, camVars>>

\* ... buffers are requested ...
Request(ok) ==
    /\ Proceed(ok, "request", "mapIndex")
    /\ allocated' = ok
    /\ i' = 1
    /\ UNCHANGED <<streamingState, streaming, open, mapped, queued, index, resizes,
                   camVars>>

\* Mutant: the buffers are numbered from one too many.
IndexPast(from, to) ==
    /\ Proceed(TRUE, from, to)
    /\ index' = i + 1
    /\ UNCHANGED <<streamingState, devVars, i, resizes, camVars>>

\* The head of both loops over the buffers: memset, and vd->buf.index = i.
Index(from, to) ==
    /\ Proceed(TRUE, from, to)
    /\ index' = i
    /\ UNCHANGED <<streamingState, devVars, i, resizes, camVars>>

\* The next buffer of a loop, or what follows the loop.
Step(ok, from, head, after) ==
    /\ Proceed(ok, from, IF i < NB THEN head ELSE after)
    /\ i' = IF i < NB THEN i + 1 ELSE 1

\* ... mapped: mem[i] gets the memory of the buffer that vd->buf names by now, i or the
\* one that cam_thread's memset has put there ...
Map(ok) ==
    /\ Step(ok, "map", "mapIndex", "queueIndex")
    /\ mapped' = IF ok THEN mapped \cup {i} ELSE mapped
    /\ UNCHANGED <<streamingState, streaming, open, allocated, queued, index, resizes,
                   camVars>>

\* ... and queued, unless the driver already has the buffer that vd->buf names.
Queue(ok) ==
    /\ Step(ok /\ index \notin queued, "queue", "queueIndex", "streamon")
    /\ queued' = IF ok THEN queued \cup {index} ELSE queued
    /\ UNCHANGED <<streamingState, streaming, open, allocated, mapped, index, resizes,
                   camVars>>

\* video_enable.  setResolution returns 0 even if it fails; the model notes the
\* failure all the same.
Enable(ok) ==
    /\ Proceed(ok, "streamon", "on")
    /\ streaming' = (streaming \/ ok)
    /\ UNCHANGED <<streamingState, open, allocated, mapped, queued, index, i, resizes,
                   camVars>>

\* Mutant: the stream runs, but the camera thread stays paused.
OnQuietly ==
    /\ Proceed(TRUE, "on", "idle")
    /\ UNCHANGED <<streamingState, devVars, index, i, resizes, camVars>>

\* The store at the end of video_enable.
On ==
    /\ Proceed(TRUE, "on", "idle")
    /\ streamingState' = "on"
    /\ UNCHANGED <<devVars, index, i, resizes, camVars>>

\* VIDIOC_QUERYBUF, mmap and VIDIOC_QBUF of init_v4l2 go through vd->buf, and fail without
\* its type or length if the memset of cam_thread has just come between.
BufOk == DeviceOk \cup {ok \in {FALSE} : camPc = "dequeue"}

CmdThread ==
    \/ \E ok \in DeviceOk : Disable(ok) \/ Open(ok) \/ Request(ok) \/ Enable(ok)
    \/ \E ok \in BufOk : Map(ok) \/ Queue(ok)
    \/ Unmap
    \/ Close
    \/ Index("mapIndex", "map")
    \/ Index("queueIndex", "queue")
    \/ On

-----------------------------------------------------------------------------
Next == alive /\ (CamThread \/ Resize \/ CmdThread)

Spec == Init /\ [][Next]_vars

\* The camera fills the buffers it has, and not for ever with empty pictures (they
\* are bounded); a command that has begun is carried out.
FairSpec ==
    /\ Spec
    /\ WF_vars(alive /\ CamThread)
    /\ WF_vars(alive /\ CmdThread)

-----------------------------------------------------------------------------
\* Type invariant.
TypeOK ==
    /\ streamingState \in {"off", "on", "paused"}
    /\ streaming \in BOOLEAN /\ open \in BOOLEAN /\ allocated \in BOOLEAN
    /\ mapped \subseteq Buffers /\ queued \subseteq Buffers /\ index \in Buffers
    /\ camPc \in {"test", "grab", "streamon", "on", "clear", "dequeue",
                  "copy", "enqueue", "publish"}
    /\ cmdPc \in {"idle", "streamoff", "unmap", "close", "open", "request",
                  "mapIndex", "map", "queueIndex", "queue", "streamon", "on"}
    /\ i \in Buffers
    /\ fresh \in BOOLEAN /\ failed \in BOOLEAN /\ alive \in BOOLEAN
    /\ empties \in 0 .. MaxEmpties /\ resizes \in 0 .. MaxResizes

Held == IF camPc \in {"copy", "enqueue"} THEN 1 ELSE 0

\* When the stream runs, no change of resolution is under way and none has failed,
\* the driver and the camera thread have all the buffers between them but for one
\* per empty picture, whatever a change of resolution did in the middle of uvcGrab.
BuffersAccounted ==
    alive /\ streaming /\ cmdPc = "idle" /\ ~failed =>
        Cardinality(queued) + Held + empties >= NB

\* As long as there were fewer empty pictures than buffers, new pictures keep
\* coming, unless a change of resolution failed or ended the process.
KeepsCapturing ==
    []<>(camPc = "publish" /\ fresh) \/ <>failed \/ <>~alive

\* uvcGrab says of an empty picture that it is "Ignoring empty buffer ...": the
\* thread that waits for a picture waits for one that can come.
EmptyIgnored == camPc = "dequeue" /\ streaming => queued # {}

\* setResolution "should set the capture resolution": a change of resolution that
\* the device goes along with does not end the process.
ResizeSurvives == alive
=============================================================================
