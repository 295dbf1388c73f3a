------------------------------ MODULE Telemetry ------------------------------
(***************************************************************************)
(* What happens to a telemetry frame once SerialSync has found it: the     *)
(* serial thread copies it to buffso_Raw_Data_Out, which                   *)
(* Thread_TCP_Trooper_Out clears before every request and completes with a *)
(* crc of its own, and from which it and Thread_TCP answer the operator    *)
(* (raw_server/simple_server_main.c).  No lock protects the buffer from    *)
(* the two threads that write it.                                          *)
(*                                                                         *)
(* The 21 bytes are the data, copied and cleared in one step, and the two  *)
(* of the crc; the content of each is described by its age.                *)
(***************************************************************************)
EXTENDS SerialSync

CONSTANTS
    MaxAsks,        \* bound: requests of UDP clients
    BusyPatterns    \* the patterns for which there are such requests

ASSUME TelemetryAssumption == MaxAsks \in Nat /\ BusyPatterns \subseteq Patterns

VARIABLES
    rawOut,         \* buffso_Raw_Data_Out
    copyTodo,       \* the fields that memcpy has still to copy
    outPc, outTodo, \* Thread_TCP_Trooper_Out, and the fields it has still to write
    asks            \* requests still to come

outVars == <<outPc, outTodo, asks>>
telemetryVars == <<vars, rawOut, copyTodo, outVars>>

Crc == {"low", "high"}
Fields == Crc \cup {"data"}

\* "new" is of the frame accepted last, "old" of the one before, "stale" older;
\* "short" is of the crc that Thread_TCP_Trooper_Out computed, of whatever data.
Ages == {"zero", "new", "old", "stale", "short"}
Older(age) == CASE age = "new" -> "old" [] age = "old" -> "stale" [] OTHER -> age

\* The serial thread sleeps for eight seconds before it reads the first byte; by then
\* Thread_TCP_Trooper_Out has cleared the buffer and waits.
TelemetryInit ==
    /\ Init
    /\ rawOut = [f \in Fields |-> "zero"]
    /\ copyTodo = {}
    /\ outPc = "recvfrom" /\ outTodo = {}
    /\ asks \in 0 .. MaxAsks
    /\ asks > 0 => marks \in BusyPatterns

-----------------------------------------------------------------------------
(* The serial thread *)

\* A step of the parser.  With the crc of a whole frame memcpy begins.
Parse(step) ==
    /\ copyTodo = {}
    /\ step
    /\ IF pc = "read" /\ pc' = "sync"
       THEN copyTodo' = Fields /\ rawOut' = [f \in Fields |-> Older(rawOut[f])]
       ELSE UNCHANGED <<copyTodo, rawOut>>
    /\ UNCHANGED outVars

\* Mutant: only the bytes before the crc are copied.
CopyFieldsOnly(f) ==
    /\ f \in copyTodo
    /\ copyTodo' = copyTodo \ {f}
    /\ rawOut' = IF f \in Crc THEN rawOut ELSE [rawOut EXCEPT ![f] = "new"]
    /\ UNCHANGED <<vars, outVars>>

\* Mutant: a frame that is in the buffer already stays there.
CopyFieldOnce(f) ==
    /\ f \in copyTodo
    /\ copyTodo' = copyTodo \ {f}
    /\ rawOut' = IF rawOut[f] = "zero" THEN [rawOut EXCEPT ![f] = "new"] ELSE rawOut
    /\ UNCHANGED <<vars, outVars>>

CopyField(f) ==
    /\ f \in copyTodo
    /\ copyTodo' = copyTodo \ {f}
    /\ rawOut' = [rawOut EXCEPT ![f] = "new"]
    /\ UNCHANGED <<vars, outVars>>

SerialThread ==
    \/ Parse(ReadByte)
    \/ \E f \in Fields : CopyField(f)

Line == Parse(Garbled) \/ Parse(Lost)

-----------------------------------------------------------------------------
(* Thread_TCP_Trooper_Out *)

outOthers == <<vars, copyTodo>>
OutGoto(from, to) == outPc = from /\ outPc' = to

OutMemset(f) ==
    /\ f \in outTodo
    /\ OutGoto("memset", IF outTodo = {f} THEN "recvfrom" ELSE "memset")
    /\ rawOut' = [rawOut EXCEPT ![f] = "zero"]
    /\ outTodo' = outTodo \ {f}
    /\ UNCHANGED <<asks, outOthers>>

\* "init" is answered with "ok", anything but "data" not at all; the loop then clears
\* the buffer.
OutRecvfrom(isData) ==
    /\ asks > 0
    /\ asks' = asks - 1
    /\ OutGoto("recvfrom", IF isData THEN "crc" ELSE "memset")
    /\ outTodo' = IF isData THEN {} ELSE Fields
    /\ UNCHANGED <<rawOut, outOthers>>

\* mycrcsend, a local variable, is the crc of the first 18 bytes ...
OutCrc ==
    /\ OutGoto("crc", "store")
    /\ outTodo' = Crc
    /\ UNCHANGED <<rawOut, asks, outOthers>>

\* ... and replaces the controller's, which covers 19.  By then the serial thread may
\* have copied other frames.
OutStore(f) ==
    /\ f \in outTodo
    /\ OutGoto("store", IF outTodo = {f} THEN "sendto" ELSE "store")
    /\ rawOut' = [rawOut EXCEPT ![f] = "short"]
    /\ outTodo' = outTodo \ {f}
    /\ UNCHANGED <<asks, outOthers>>

OutSendto ==
    /\ OutGoto("sendto", "memset")
    /\ outTodo' = Fields
    /\ UNCHANGED <<rawOut, asks, outOthers>>

OutThread ==
    \/ \E f \in Fields : OutMemset(f)
    \/ \E isData \in BOOLEAN : OutRecvfrom(isData)
    \/ OutCrc
    \/ \E f \in Crc : OutStore(f)
    \/ OutSendto

-----------------------------------------------------------------------------
TelemetryNext == SerialThread \/ Line \/ OutThread

TelemetrySpec == TelemetryInit /\ [][TelemetryNext]_telemetryVars

\* The controller keeps sending, and both threads run; requests need not come.
TelemetryFairSpec ==
    /\ TelemetrySpec
    /\ WF_telemetryVars(SerialThread)
    /\ WF_telemetryVars(OutCrc \/ OutSendto \/ \E f \in Fields : OutMemset(f) \/ OutStore(f))

\* Type invariant of the buffer and of Thread_TCP_Trooper_Out.
TelemetryTypeOK ==
    /\ TypeOK
    /\ rawOut \in [Fields -> Ages]
    /\ copyTodo \subseteq Fields /\ outTodo \subseteq Fields
    /\ outPc \in {"memset", "recvfrom", "crc", "store", "sendto"}
    /\ asks \in 0 .. MaxAsks

\* Whoever answers an operator, at whatever moment, sends bytes of the controller's last
\* frame, of the one before it while memcpy runs, or cleared ones, but none older.  The
\* exception is the server's own crc, which can be that of any earlier frame: it is in
\* the buffer, for Thread_TCP too, only until the request it was computed for is over
\* and memset has come to it.
NothingStale ==
    \A f \in Fields :
        /\ rawOut[f] # "stale"
        /\ rawOut[f] = "old" => copyTodo # {}
        /\ rawOut[f] = "short" => outPc \in {"store", "sendto"} \/ f \in outTodo

\* A request leaves the buffer cleared, torn or with the wrong crc, but the damage
\* does not last: with a clean line and no more requests, the buffer is a whole frame
\* (or the next one is being copied over it) for good.
TelemetryReturns == <>[](\A f \in Fields : rawOut[f] \in {"new", "old"})
=============================================================================
