--------------------------- MODULE FileInputProofs ---------------------------
(***************************************************************************)
(* Proofs about FileInput, for every set of names and settings and every   *)
(* length of the inotify queue: no output copies a buffer that was freed,  *)
(* and the thread does not run into a file that is not there by itself.    *)
(* The last theorem joins the plugins' proofs to Plugins.                  *)
(***************************************************************************)
EXTENDS Plugins, TLAPS

Events == Names \cup {"overflow", "ignored"}
Buffers == [ver : Nat, whole : BOOLEAN, freed : BOOLEAN]
Handles == [name : Names \cup {"none"}, ver : Nat, whole : BOOLEAN, linked : BOOLEAN]

\* The types of what the invariant speaks of.
Typed ==
    /\ opts \in Options
    /\ fs \in [Names -> [ver : Nat, whole : BOOLEAN]] /\ writing \subseteq Names
    /\ queue \in Seq(Events)
    /\ nver \in Nat /\ buf \in Buffers
    /\ file \in Handles /\ stats \in Handles
    /\ deleted \in BOOLEAN /\ reused \in BOOLEAN
    /\ mutex \in {"free", "worker", "reader"}

\* While the thread runs, the buffer is freed only between its malloc and its read, in
\* which the thread has the mutex.
BufInv == buf.freed /\ cause = "none" => wpc = "copy"

\* From an event to its file: the thread handles the event of a name, the queue holds
\* one, a program is about to cause one.
Handled(n) == wpc \in {"open", "fstat", "lock", "copy", "close"} /\ ev = n
Queued(n) == \E k \in 1 .. Len(queue) : queue[k] = n
Excused == deleted \/ (opts.rm /\ reused)

\* A name of which an event is under way has a file, unless that is excused; and two
\* events of one name are under way only if the name was written twice or its file
\* deleted.  The second is what the first needs when the thread unlinks the name.
NameInv ==
    \A n \in Names :
        /\ n \in writing \/ Queued(n) \/ Handled(n) => fs[n].ver # 0 \/ Excused
        /\ \/ n \in writing /\ Queued(n)
           \/ n \in writing /\ Handled(n)
           \/ Queued(n) /\ Handled(n)
           => deleted \/ reused

\* The thread handles events of files only.
EvInv == wpc \in {"open", "fstat", "lock", "copy", "close"} => ev \in Names

FileInv == Typed /\ FileTypeOK /\ BufInv /\ EvInv /\ NameInv /\ KeepsGoing
-----------------------------------------------------------------------------
(* Records and the inotify queue *)

\* The values that the actions give the buffer and the open file.
LEMMA Records ==
    /\ Null \in Buffers /\ NoFile \in Handles
    /\ \A b \in Buffers : [b EXCEPT !.freed = TRUE] \in Buffers
    /\ \A h \in Handles, v \in Nat :
          /\ [h EXCEPT !.linked = FALSE] \in Handles
          /\ [h EXCEPT !.whole = TRUE] \in Handles
          /\ [h EXCEPT !.ver = v, !.whole = FALSE] \in Handles
<1>1. Null \in Buffers /\ NoFile \in Handles
  BY DEF Null, Buffers, NoFile, Handles
<1>2. ASSUME NEW b \in Buffers PROVE [b EXCEPT !.freed = TRUE] \in Buffers
  BY DEF Buffers
<1>3. ASSUME NEW h \in Handles, NEW v \in Nat
      PROVE  /\ [h EXCEPT !.linked = FALSE] \in Handles
             /\ [h EXCEPT !.whole = TRUE] \in Handles
             /\ [h EXCEPT !.ver = v, !.whole = FALSE] \in Handles
  BY DEF Handles
<1> QED BY <1>1, <1>2, <1>3

\* What Notify does to the queue: at most the event, or an overflow, is new.
LEMMA NotifyQueue ==
    ASSUME queue \in Seq(Events), Len(queue) <= MaxQueue + 1,
           NEW e \in Events, NEW v, Notify(e, v)
    PROVE  /\ queue' \in Seq(Events) /\ Len(queue') <= MaxQueue + 1
           /\ \A n \in Names : Queued(n)' => Queued(n) \/ n = e
<1>1. MaxQueue \in Nat /\ "overflow" \notin Names
  BY FileAssumption
<1>2. queue' \in {queue, Append(queue, e), Append(queue, "overflow")}
  BY <1>1 DEF Notify, Events
<1>3. Len(queue') <= MaxQueue + 1
  <2>1. queue' # queue => Len(queue) <= MaxQueue
    BY <1>1 DEF Notify
  <2> QED BY <1>1, <1>2, <2>1 DEF Events
<1>4. queue' \in Seq(Events)
  BY <1>2 DEF Events
<1>5. ASSUME NEW n \in Names, Queued(n)' PROVE Queued(n) \/ n = e
  <2>1. PICK k \in 1 .. Len(queue') : queue'[k] = n
    BY <1>5 DEF Queued
  <2>2. CASE queue' = queue
    BY <2>1, <2>2 DEF Queued
  <2>3. ASSUME NEW x \in {e, "overflow"}, queue' = Append(queue, x)
        PROVE  Queued(n) \/ n = e
    <3>1. /\ Len(queue') = Len(queue) + 1 /\ queue'[Len(queue) + 1] = x
          /\ \A j \in 1 .. Len(queue) : queue'[j] = queue[j]
      BY <2>3 DEF Events
    <3>2. CASE k = Len(queue) + 1
      BY <1>1, <2>1, <2>3, <3>1, <3>2
    <3>3. CASE k \in 1 .. Len(queue)
      BY <2>1, <3>1, <3>3 DEF Queued
    <3> QED BY <2>1, <3>1, <3>2, <3>3
  <2> QED BY <1>2, <2>2, <2>3
<1> QED BY <1>3, <1>4, <1>5

-----------------------------------------------------------------------------
(* What each step keeps *)

\* The programs that write, move and delete files.
LEMMA FolderKeeps == ASSUME FileInv, Folder PROVE FileInv'
<1> USE DEF extOthers
<1>a. /\ Typed /\ FileTypeOK /\ BufInv /\ EvInv /\ NameInv /\ KeepsGoing
      /\ MaxVer \in Nat /\ MaxQueue \in Nat
  BY FileAssumption DEF FileInv
<1>1. ASSUME NEW n \in Names, WriteBegin(n) PROVE FileInv'
  <2>1. Typed'
    <3>0. nver' \in Nat /\ file \in Handles
      BY <1>a, <1>1 DEF WriteBegin, Typed
    <3>1. file' \in Handles
      BY <1>1, <3>0, Records, Zenon DEF WriteBegin
    <3>2. fs' \in [Names -> [ver : Nat, whole : BOOLEAN]] /\ nver' \in Nat
      BY <1>a, <1>1 DEF WriteBegin, Typed
    <3> QED BY <1>a, <1>1, <3>1, <3>2 DEF Typed, WriteBegin
  <2>2. FileTypeOK' /\ BufInv' /\ EvInv' /\ KeepsGoing'
    BY <1>a, <1>1 DEF WriteBegin, Typed, FileTypeOK, BufInv, EvInv, KeepsGoing
  <2>3. /\ fs' = [fs EXCEPT ![n] = [ver |-> nver + 1, whole |-> FALSE]]
        /\ nver + 1 # 0 /\ writing' = writing \cup {n}
        /\ reused' = (reused \/ fs[n].ver # 0)
        /\ UNCHANGED <<queue, wpc, ev, deleted, opts>>
    BY <1>a, <1>1 DEF WriteBegin, Typed
  <2>4. NameInv'
    <3> SUFFICES ASSUME NEW m \in Names
                 PROVE  /\ m \in writing' \/ Queued(m)' \/ Handled(m)' => fs'[m].ver # 0 \/ Excused'
                        /\ \/ m \in writing' /\ Queued(m)'
                           \/ m \in writing' /\ Handled(m)'
                           \/ Queued(m)' /\ Handled(m)'
                           => deleted' \/ reused'
      BY DEF NameInv
    <3>1. (Queued(m)' <=> Queued(m)) /\ (Handled(m)' <=> Handled(m)) /\ (Excused => Excused')
      BY <2>3 DEF Queued, Handled, Excused
    <3>2. CASE m = n
      BY <1>a, <2>3, <3>1, <3>2 DEF NameInv, Typed, Excused
    <3>3. CASE m # n
      BY <1>a, <2>3, <3>1, <3>3 DEF NameInv, Typed
    <3> QED BY <3>2, <3>3
  <2> QED BY <2>1, <2>2, <2>4 DEF FileInv
<1>2. ASSUME NEW n \in Names, WriteEnd(n) PROVE FileInv'
  <2>0. /\ queue' \in Seq(Events) /\ Len(queue') <= MaxQueue + 1
        /\ \A m \in Names : Queued(m)' => Queued(m) \/ m = n
    BY <1>a, <1>2, NotifyQueue DEF WriteEnd, Typed, FileTypeOK, Events
  <2>1. Typed'
    BY <1>a, <1>2, <2>0 DEF Typed, WriteEnd, Handles
  <2>2. FileTypeOK' /\ BufInv' /\ EvInv' /\ KeepsGoing'
    BY <1>a, <1>2, <2>0 DEF WriteEnd, FileTypeOK, BufInv, EvInv, KeepsGoing
  <2>3. /\ \A m \in Names : fs'[m].ver = fs[m].ver
        /\ n \in writing /\ writing' = writing \ {n}
        /\ UNCHANGED <<wpc, ev, deleted, reused, opts>>
    BY <1>a, <1>2 DEF WriteEnd, Typed
  <2>4. NameInv'
    BY <1>a, <2>0, <2>3 DEF NameInv, Handled, Excused
  <2> QED BY <2>1, <2>2, <2>4 DEF FileInv
<1>3. ASSUME NEW n \in Names, MoveIn(n) PROVE FileInv'
  <2>0. /\ queue' \in Seq(Events) /\ Len(queue') <= MaxQueue + 1
        /\ \A m \in Names : Queued(m)' => Queued(m) \/ m = n
    BY <1>a, <1>3, NotifyQueue DEF MoveIn, Typed, FileTypeOK, Events
  <2>1. Typed'
    <3>1. file' \in Handles
      BY <1>a, <1>3, Records DEF MoveIn, Typed
    <3>2. fs' \in [Names -> [ver : Nat, whole : BOOLEAN]] /\ nver' \in Nat
      BY <1>a, <1>3 DEF MoveIn, Typed
    <3> QED BY <1>a, <1>3, <2>0, <3>1, <3>2 DEF Typed, MoveIn
  <2>2. FileTypeOK' /\ BufInv' /\ EvInv' /\ KeepsGoing'
    BY <1>a, <1>3, <2>0 DEF MoveIn, Typed, FileTypeOK, BufInv, EvInv, KeepsGoing
  <2>3. /\ fs' = [fs EXCEPT ![n] = [ver |-> nver + 1, whole |-> TRUE]]
        /\ nver + 1 # 0 /\ n \notin writing
        /\ reused' = (reused \/ fs[n].ver # 0)
        /\ UNCHANGED <<writing, wpc, ev, deleted, opts>>
    BY <1>a, <1>3 DEF MoveIn, Typed
  <2>4. NameInv'
    <3> SUFFICES ASSUME NEW m \in Names
                 PROVE  /\ m \in writing' \/ Queued(m)' \/ Handled(m)' => fs'[m].ver # 0 \/ Excused'
                        /\ \/ m \in writing' /\ Queued(m)'
                           \/ m \in writing' /\ Handled(m)'
                           \/ Queued(m)' /\ Handled(m)'
                           => deleted' \/ reused'
      BY DEF NameInv
    <3>1. (Handled(m)' <=> Handled(m)) /\ (Excused => Excused')
      BY <2>3 DEF Handled, Excused
    <3>2. CASE m = n
      BY <1>a, <2>3, <3>1, <3>2 DEF NameInv, Typed, Excused
    <3>3. CASE m # n
      BY <1>a, <2>0, <2>3, <3>1, <3>3 DEF NameInv, Typed
    <3> QED BY <3>2, <3>3
  <2> QED BY <2>1, <2>2, <2>4 DEF FileInv
<1>4. ASSUME NEW n \in Names, DeleteFile(n) PROVE FileInv'
  <2>1. Typed'
    BY <1>a, <1>4 DEF Typed, DeleteFile, Gone, Handles
  <2>2. FileTypeOK' /\ BufInv' /\ EvInv' /\ KeepsGoing'
    BY <1>a, <1>4 DEF DeleteFile, FileTypeOK, BufInv, EvInv, KeepsGoing
  <2>3. NameInv'
    BY <1>4 DEF DeleteFile, NameInv, Excused
  <2> QED BY <2>1, <2>2, <2>3 DEF FileInv
<1>5. CASE Unmount
  <2>0. /\ queue' \in Seq(Events) /\ Len(queue') <= MaxQueue + 1
        /\ \A m \in Names : Queued(m)' => Queued(m)
    BY <1>a, <1>5, NotifyQueue, FileAssumption DEF Unmount, Typed, FileTypeOK, Events
  <2>1. Typed'
    BY <1>a, <1>5, <2>0 DEF Typed, Unmount
  <2>2. FileTypeOK' /\ BufInv' /\ EvInv' /\ KeepsGoing'
    BY <1>a, <1>5, <2>0 DEF Unmount, FileTypeOK, BufInv, EvInv, KeepsGoing
  <2>3. UNCHANGED <<fs, writing, wpc, ev, deleted, reused, opts>>
    BY <1>5 DEF Unmount
  <2>4. NameInv'
    BY <1>a, <2>0, <2>3 DEF NameInv, Handled, Excused
  <2> QED BY <2>1, <2>2, <2>4 DEF FileInv
<1> QED BY <1>1, <1>2, <1>3, <1>4, <1>5 DEF Folder

\* The loop of worker_thread is left.
LEMMA EndsKeeps ==
    ASSUME FileInv, NEW why \in {"gone", "error", "stop"}, Ends(why), queue' \in {queue, <<>>},
           UNCHANGED <<opts, fs, writing, nver, deleted, reused, stats, mutex, reader>>
    PROVE  FileInv'
<1>a. Typed /\ FileTypeOK /\ BufInv /\ EvInv /\ NameInv /\ KeepsGoing /\ MaxQueue \in Nat
  BY FileAssumption DEF FileInv
<1>1. Typed'
  <2>1. file' \in Handles /\ buf' \in Buffers
    BY <1>a, Records DEF Ends, Typed
  <2>2. queue' \in Seq(Events)
    <3>1. <<>> \in Seq(Events)
      OBVIOUS
    <3> QED BY <1>a, <3>1 DEF Typed
  <2> QED BY <1>a, <2>1, <2>2 DEF Typed
<1>2. FileTypeOK' /\ BufInv' /\ EvInv' /\ KeepsGoing'
  BY <1>a DEF Ends, Typed, FileTypeOK, BufInv, EvInv, KeepsGoing
<1>3. \A n \in Names : (Queued(n)' => Queued(n)) /\ ~Handled(n)'
  BY DEF Queued, Handled, Ends
<1>4. NameInv'
  BY <1>a, <1>3 DEF NameInv, Excused
<1> QED BY <1>1, <1>2, <1>4 DEF FileInv

\* worker_thread, when nothing fails.
LEMMA WorkerKeeps == ASSUME FileInv, Worker PROVE FileInv'
<1> USE DEF extVars
<1>a. Typed /\ FileTypeOK /\ BufInv /\ EvInv /\ NameInv /\ KeepsGoing /\ MaxQueue \in Nat
  BY FileAssumption DEF FileInv
<1>1. CASE ReadEvent
  <2>1. CASE Head(queue) = "ignored"
    BY <1>1, <2>1, EndsKeeps DEF ReadEvent
  <2>2. CASE Head(queue) # "ignored"
    <3>1. /\ wpc = "event" /\ queue # <<>> /\ queue' = <<>> /\ ev' = Head(queue)
          /\ wpc' = IF Matches(ev') THEN "open" ELSE "event"
          /\ UNCHANGED <<file, buf, cause, opts, fs, writing, nver, reused, deleted, stats,
                         mutex, reader>>
      BY <1>1, <2>2 DEF ReadEvent
    <3>2. Head(queue) = queue[1] /\ 1 \in 1 .. Len(queue)
      BY <1>a, <3>1 DEF Typed
    <3>3. wpc' \in {"open", "event"} /\ (wpc' = "open" => ev' \in Names)
      BY <3>1 DEF Matches
    <3>4. Typed'
      BY <1>a, <3>1 DEF Typed
    <3>5. FileTypeOK' /\ BufInv' /\ EvInv' /\ KeepsGoing'
      BY <1>a, <3>1, <3>3 DEF FileTypeOK, BufInv, EvInv, KeepsGoing
    <3>6. \A n \in Names : ~Queued(n)' /\ (Handled(n)' => Queued(n))
      BY <3>1, <3>2 DEF Queued, Handled
    <3>7. NameInv'
      BY <1>a, <3>1, <3>6 DEF NameInv, Excused
    <3> QED BY <3>4, <3>5, <3>7 DEF FileInv
  <2> QED BY <2>1, <2>2
<1>2. CASE Open
  <2>0. ev \in Names /\ wpc = "open"
    BY <1>a, <1>2 DEF Open, EvInv
  <2>1. CASE fs[ev].ver = 0
    <3>1. Ends("nofile") /\ UNCHANGED <<opts, extVars, ev, stats, mutex, reader, failures>>
      BY <1>2, <2>1 DEF Open
    <3>2. Excused
      BY <1>a, <2>0, <2>1 DEF NameInv, Handled
    <3>3. Typed'
      BY <1>a, <3>1, Records DEF Typed, Ends
    <3>4. FileTypeOK' /\ BufInv' /\ EvInv' /\ KeepsGoing'
      BY <1>a, <3>1, <3>2 DEF Ends, Typed, FileTypeOK, BufInv, EvInv, KeepsGoing, Excused
    <3>5. \A n \in Names : (Queued(n)' <=> Queued(n)) /\ ~Handled(n)'
      BY <3>1 DEF Queued, Handled, Ends
    <3>6. NameInv'
      BY <1>a, <3>1, <3>5 DEF NameInv, Excused
    <3> QED BY <3>3, <3>4, <3>6 DEF FileInv
  <2>2. CASE fs[ev].ver # 0
    <3>1. /\ file' = [name |-> ev, ver |-> fs[ev].ver, whole |-> fs[ev].whole, linked |-> TRUE]
          /\ wpc' = "fstat"
          /\ UNCHANGED <<buf, cause, opts, extVars, ev, stats, mutex, reader, failures>>
      BY <1>2, <2>2 DEF Open
    <3>2. Typed'
      BY <1>a, <2>0, <3>1 DEF Typed, Handles
    <3>3. FileTypeOK' /\ BufInv' /\ EvInv' /\ KeepsGoing'
      BY <1>a, <2>0, <3>1 DEF FileTypeOK, BufInv, EvInv, KeepsGoing
    <3>4. NameInv'
      BY <1>a, <2>0, <3>1 DEF NameInv, Queued, Handled, Excused
    <3> QED BY <3>2, <3>3, <3>4 DEF FileInv
  <2> QED BY <2>1, <2>2
<1>3. CASE Fstat
  <2>1. Typed'
    BY <1>a, <1>3 DEF Typed, Fstat
  <2>2. FileTypeOK' /\ BufInv' /\ EvInv' /\ KeepsGoing'
    BY <1>a, <1>3 DEF Fstat, FileTypeOK, BufInv, EvInv, KeepsGoing
  <2>3. NameInv'
    BY <1>a, <1>3 DEF Fstat, NameInv, Queued, Handled, Excused
  <2> QED BY <2>1, <2>2, <2>3 DEF FileInv
<1>4. CASE Lock
  <2>1. Typed'
    BY <1>a, <1>4 DEF Typed, Lock, Null, Buffers
  <2>2. FileTypeOK' /\ BufInv' /\ EvInv' /\ KeepsGoing'
    BY <1>a, <1>4 DEF Lock, FileTypeOK, BufInv, EvInv, KeepsGoing
  <2>3. NameInv'
    BY <1>a, <1>4 DEF Lock, NameInv, Queued, Handled, Excused
  <2> QED BY <2>1, <2>2, <2>3 DEF FileInv
<1>5. CASE Copy
  <2>1. Typed'
    BY <1>a, <1>5 DEF Typed, Copy, Buffers, Handles
  <2>2. FileTypeOK' /\ BufInv' /\ EvInv' /\ KeepsGoing'
    BY <1>a, <1>5 DEF Copy, FileTypeOK, BufInv, EvInv, KeepsGoing
  <2>3. NameInv'
    BY <1>a, <1>5 DEF Copy, NameInv, Queued, Handled, Excused
  <2> QED BY <2>1, <2>2, <2>3 DEF FileInv
<1>6. CASE CloseFile
  <2>0. /\ ev \in Names /\ wpc = "close" /\ wpc' = "event" /\ Handled(ev)
        /\ UNCHANGED <<opts, writing, queue, reused, deleted, ev>>
        /\ fs' = IF opts.rm THEN [fs EXCEPT ![ev] = [ver |-> 0, whole |-> FALSE]] ELSE fs
    BY <1>a, <1>6 DEF CloseFile, EvInv, Handled
  <2>1. Typed'
    BY <1>a, <1>6, <2>0 DEF Typed, CloseFile, NoFile, Handles
  <2>2. FileTypeOK' /\ BufInv' /\ EvInv' /\ KeepsGoing'
    BY <1>a, <1>6 DEF CloseFile, FileTypeOK, BufInv, EvInv, KeepsGoing
  <2>3. ASSUME NEW n \in Names
        PROVE  /\ n \in writing' \/ Queued(n)' \/ Handled(n)' => fs'[n].ver # 0 \/ Excused'
               /\ \/ n \in writing' /\ Queued(n)'
                  \/ n \in writing' /\ Handled(n)'
                  \/ Queued(n)' /\ Handled(n)'
                  => deleted' \/ reused'
    <3>1. (Queued(n)' <=> Queued(n)) /\ ~Handled(n)' /\ (Excused' <=> Excused)
      BY <2>0 DEF Queued, Handled, Excused
    <3>2. CASE n = ev /\ opts.rm
      BY <1>a, <2>0, <3>1, <3>2 DEF NameInv, Excused
    <3>3. CASE ~(n = ev /\ opts.rm)
      <4>1. fs'[n] = fs[n]
        BY <1>a, <2>0, <3>3 DEF Typed
      <4> QED BY <1>a, <2>0, <3>1, <4>1 DEF NameInv
    <3> QED BY <3>2, <3>3
  <2>4. NameInv'
    BY <2>3 DEF NameInv
  <2> QED BY <2>1, <2>2, <2>4 DEF FileInv
<1> QED BY <1>1, <1>2, <1>3, <1>4, <1>5, <1>6 DEF Worker

\* worker_thread, when a call fails or the plugin is stopped, and the outputs.
LEMMA OtherKeeps ==
    ASSUME FileInv, CopyFails \/ MallocFails \/ Fails \/ Cancel \/ Output
    PROVE  FileInv'
<1> USE DEF extVars
<1>a. Typed /\ FileTypeOK /\ BufInv /\ EvInv /\ NameInv /\ KeepsGoing /\ MaxQueue \in Nat
  BY FileAssumption DEF FileInv
<1>1. CASE CopyFails \/ MallocFails
  <2>1. Typed'
    BY <1>a, <1>1, Records DEF Typed, CopyFails, MallocFails
  <2>2. FileTypeOK' /\ BufInv' /\ EvInv' /\ KeepsGoing'
    BY <1>a, <1>1 DEF CopyFails, MallocFails, FileTypeOK, BufInv, EvInv, KeepsGoing
  <2>3. NameInv'
    BY <1>a, <1>1 DEF CopyFails, MallocFails, NameInv, Queued, Handled, Excused
  <2> QED BY <2>1, <2>2, <2>3 DEF FileInv
<1>2. CASE Fails \/ Cancel
  <2>1. \E why \in {"gone", "error", "stop"} : Ends(why)
    BY <1>2 DEF Fails, Cancel
  <2>2. UNCHANGED <<opts, extVars, stats, mutex, reader>>
    BY <1>2 DEF Fails, Cancel
  <2> QED BY <2>1, <2>2, EndsKeeps
<1>3. CASE Output
  <2>1. Typed'
    BY <1>a, <1>3 DEF Typed, Output
  <2>2. FileTypeOK' /\ BufInv' /\ EvInv' /\ KeepsGoing'
    BY <1>a, <1>3 DEF Output, FileTypeOK, BufInv, EvInv, KeepsGoing
  <2>3. NameInv'
    BY <1>a, <1>3 DEF Output, NameInv, Queued, Handled, Excused
  <2> QED BY <2>1, <2>2, <2>3 DEF FileInv
<1> QED BY <1>1, <1>2, <1>3

LEMMA FileInitInv == FileInit => FileInv
<1> SUFFICES ASSUME FileInit PROVE FileInv
  OBVIOUS
<1> USE FileAssumption DEF FileInit
<1>1. Typed
  <2>1. queue \in Seq(Events) /\ fs \in [Names -> [ver : Nat, whole : BOOLEAN]]
    OBVIOUS
  <2> QED BY <2>1, Records DEF Typed
<1>2. FileTypeOK /\ BufInv /\ EvInv /\ KeepsGoing
  BY DEF FileTypeOK, BufInv, EvInv, KeepsGoing, Null
<1>3. NameInv
  <2>1. \A n \in Names : ~Queued(n)
    <3>1. Len(queue) = 0
      OBVIOUS
    <3> HIDE FileAssumption DEF FileInit
    <3> QED BY <3>1 DEF Queued
  <2>2. \A n \in Names : ~Handled(n) /\ n \notin writing
    BY DEF Handled
  <2> QED BY <2>1, <2>2 DEF NameInv
<1> QED BY <1>1, <1>2, <1>3 DEF FileInv

LEMMA FileNextInv == FileInv /\ [FileNext]_fileVars => FileInv'
<1> SUFFICES ASSUME FileInv, [FileNext]_fileVars PROVE FileInv'
  OBVIOUS
<1>1. CASE UNCHANGED fileVars
  BY <1>1 DEF fileVars, extVars, FileInv, Typed, FileTypeOK, BufInv, EvInv, NameInv, KeepsGoing,
              Queued, Handled, Excused
<1> QED BY <1>1, FolderKeeps, WorkerKeeps, OtherKeeps DEF FileNext

\* The inductive invariant of the folder input holds in every reachable state.
THEOREM FileInvariance == FileSpec => []FileInv
BY FileInitInv, FileNextInv, PTL DEF FileSpec

\* Every reachable state is well typed, the inotify queue is at most one event longer
\* than its limit (the overflow), and the mutex has the owner the code's places say.
THEOREM FileTypeCorrect == FileSpec => []FileTypeOK
BY FileInvariance, PTL DEF FileInv

\* Why NeverFreed holds: an output that copies has the mutex, and the thread has it
\* for as long as the buffer is freed.
LEMMA InvNeverFreed == FileInv => NeverFreed
BY DEF FileInv, FileTypeOK, BufInv, NeverFreed

\* No output copies a buffer that worker_thread has freed, while the thread runs.
THEOREM BufferNeverFreedInUse == FileSpec => []NeverFreed
BY FileInvariance, InvNeverFreed, PTL

\* worker_thread ends because a reported file is not there only if another program
\* deleted a file or, with -r, a name was written twice; the other ways in which open can
\* fail are failures of their own.
THEOREM ThreadKeepsGoing == FileSpec => []KeepsGoing
BY FileInvariance, PTL DEF FileInv

-----------------------------------------------------------------------------
\* Plugins, which the run checks, runs each of the three plugins as its own module
\* specifies it, or not at all: what is proved of a plugin by itself holds of the run.
THEOREM PluginsRunEach == Spec => HttpSpec /\ RingSpec /\ FileSpec
<1>1. Init => HttpInit /\ RingInit /\ FileInit
  BY DEF Init
<1>2. [Next]_pluginVars => [HttpNext]_httpVars /\ [RingNext]_ringVars /\ [FileNext]_fileVars
  BY DEF Next, pluginVars
<1> QED BY <1>1, <1>2, PTL DEF Spec, HttpSpec, RingSpec, FileSpec
=============================================================================
