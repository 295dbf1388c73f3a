------------------------------ MODULE FileInput ------------------------------
(***************************************************************************)
(* Pictures from a watched folder, plugins/input_file/input_file.c:        *)
(* worker_thread waits for inotify to report a file, copies the file into  *)
(* the global buffer under the mutex db and wakes the outputs.  Other      *)
(* programs write, rename and delete the files meanwhile.                  *)
(***************************************************************************)
EXTENDS Integers, Sequences

CONSTANTS
    Names,          \* file names
    Options,        \* the settings [rm, filename] to choose from
    AnyName,        \* filename = NULL: no filter
    MaxQueue,       \* bound: events the kernel queues before it reports an overflow
    MaxVer,         \* bound: files written
    MaxFailures     \* bound: failures, deletions by others, the stop

ASSUME FileAssumption ==
    /\ \A o \in Options : o.rm \in BOOLEAN /\ o.filename \in Names \cup {AnyName}
    /\ {MaxQueue, MaxVer, MaxFailures} \subseteq Nat
    /\ {"overflow", "ignored"} \cap Names = {}

VARIABLES
    opts,           \* rm and filename
    fs, writing,    \* each file [ver, whole], ver 0: none; the files open for writing
    queue,          \* the events inotify holds
    wpc, ev, file,  \* worker_thread, the event it handles, the file it has open
    stats,          \* what fstat saw of it
    mutex, buf,     \* db's owner; the global buffer
    reader,         \* an output plugin (external)
    cause,          \* why the thread ended
    nver, failures, \* versions written, failures so far
    last, missed,   \* history: the last picture reported; its event was thrown away
    reused, deleted \* history: a name was written twice; a file was deleted by others

extVars == <<fs, writing, queue, nver, last, missed, reused, deleted>>
fileVars == <<opts, extVars, wpc, ev, file, stats, mutex, buf, reader, cause, failures>>

NoFile == [name |-> "none", ver |-> 0, whole |-> FALSE, linked |-> FALSE]
Null == [ver |-> 0, whole |-> FALSE, freed |-> FALSE]
Matches(e) == e \in Names /\ opts.filename \in {AnyName, e}

FileInit ==
    /\ opts \in Options
    /\ fs = [n \in Names |-> [ver |-> 0, whole |-> FALSE]] /\ writing = {}
    /\ queue = <<>> /\ wpc = "event" /\ ev = "none" /\ file = NoFile /\ stats = NoFile
    /\ mutex = "free" /\ buf = Null /\ reader = "waiting" /\ cause = "none"
    /\ nver = 0 /\ failures = 0
    /\ last = 0 /\ missed = FALSE /\ reused = FALSE /\ deleted = FALSE

-----------------------------------------------------------------------------
(* Other programs and inotify *)

extOthers == <<opts, wpc, ev, stats, mutex, buf, reader, cause>>

\* An event like the last in the queue is merged with it; a full queue overflows.
Notify(e, v) ==
    /\ queue' = CASE queue # <<>> /\ queue[Len(queue)] = e -> queue
                  [] Len(queue) < MaxQueue -> Append(queue, e)
                  [] Len(queue) = MaxQueue -> Append(queue, "overflow")
                  [] OTHER -> queue
    /\ IF Matches(e)
       THEN last' = v /\ missed' = (queue'[Len(queue')] # e)
       ELSE UNCHANGED <<last, missed>>

\* A program opens a file for writing in place: the thread may have it open.
WriteBegin(n) ==
    /\ nver < MaxVer /\ n \notin writing
    /\ nver' = nver + 1
    /\ fs' = [fs EXCEPT ![n] = [ver |-> nver', whole |-> FALSE]]
    /\ file' = IF file.name = n /\ file.linked THEN [file EXCEPT !.ver = nver', !.whole = FALSE] ELSE file
    /\ writing' = writing \cup {n}
    /\ reused' = (reused \/ fs[n].ver # 0)
    /\ UNCHANGED <<queue, last, missed, deleted, failures, extOthers>>

\* IN_CLOSE_WRITE, also for a file that is no longer there.
WriteEnd(n) ==
    /\ n \in writing
    /\ writing' = writing \ {n}
    /\ fs' = [fs EXCEPT ![n].whole = @ \/ fs[n].ver # 0]
    /\ file' = IF file.name = n /\ file.linked THEN [file EXCEPT !.whole = TRUE] ELSE file
    /\ Notify(n, fs[n].ver)
    /\ UNCHANGED <<nver, reused, deleted, failures, extOthers>>

\* IN_MOVED_TO: a whole file takes the name, what the thread has open is unlinked.
MoveIn(n) ==
    /\ nver < MaxVer /\ n \notin writing
    /\ nver' = nver + 1
    /\ fs' = [fs EXCEPT ![n] = [ver |-> nver', whole |-> TRUE]]
    /\ file' = IF file.name = n THEN [file EXCEPT !.linked = FALSE] ELSE file
    /\ Notify(n, nver')
    /\ reused' = (reused \/ fs[n].ver # 0)
    /\ UNCHANGED <<writing, deleted, failures, extOthers>>

Gone(n) ==
    /\ fs' = [fs EXCEPT ![n] = [ver |-> 0, whole |-> FALSE]]
    /\ file' = IF file.name = n THEN [file EXCEPT !.linked = FALSE] ELSE file

DeleteFile(n) ==
    /\ failures < MaxFailures /\ fs[n].ver # 0
    /\ failures' = failures + 1 /\ deleted' = TRUE
    /\ Gone(n)
    /\ UNCHANGED <<writing, queue, nver, last, missed, reused, extOthers>>

\* The folder is unmounted: IN_UNMOUNT or IN_IGNORED.
Unmount ==
    /\ failures < MaxFailures
    /\ failures' = failures + 1
    /\ Notify("ignored", 0)
    /\ UNCHANGED <<fs, writing, nver, reused, deleted, file, extOthers>>

Folder ==
    \/ \E n \in Names : WriteBegin(n) \/ WriteEnd(n) \/ MoveIn(n) \/ DeleteFile(n)
    \/ Unmount

-----------------------------------------------------------------------------
(* worker_thread *)

\* The loop is left: worker_cleanup frees the buffer, whoever reads it.
Ends(why) ==
    /\ wpc' = "ended" /\ cause' = why
    /\ file' = NoFile
    /\ buf' = IF buf = Null THEN Null ELSE [buf EXCEPT !.freed = TRUE]

\* read returns every event that is queued; only the first is looked at.  An overflow
\* has no watch descriptor and is skipped before the test that would stop the thread.
ReadEvent ==
    /\ wpc = "event" /\ queue # <<>>
    /\ queue' = <<>>
    /\ ev' = Head(queue)
    /\ missed' = (missed \/ \E i \in 2 .. Len(queue) : Matches(queue[i]))
    /\ IF ev' = "ignored" THEN Ends("gone")
       ELSE /\ wpc' = IF Matches(ev') THEN "open" ELSE "event"
            /\ UNCHANGED <<file, buf, cause>>
    /\ UNCHANGED <<opts, fs, writing, nver, last, reused, deleted, stats, mutex, reader, failures>>

\* The cause "nofile" stands for ENOENT; an open that fails otherwise is one of Fails.
Open ==
    /\ wpc = "open"
    /\ IF fs[ev].ver = 0 THEN Ends("nofile")
       ELSE /\ file' = [name |-> ev, ver |-> fs[ev].ver, whole |-> fs[ev].whole, linked |-> TRUE]
            /\ wpc' = "fstat"
            /\ UNCHANGED <<buf, cause>>
    /\ UNCHANGED <<opts, extVars, ev, stats, mutex, reader, failures>>

\* Mutant: the size is asked for once.
FstatOnce ==
    /\ wpc = "fstat"
    /\ stats' = IF stats = NoFile THEN file ELSE stats
    /\ wpc' = "lock"
    /\ UNCHANGED <<opts, extVars, ev, file, mutex, buf, reader, cause, failures>>

Fstat ==
    /\ wpc = "fstat"
    /\ stats' = file
    /\ wpc' = "lock"
    /\ UNCHANGED <<opts, extVars, ev, file, mutex, buf, reader, cause, failures>>

\* Mutant: the old buffer is freed before the mutex is taken.
LockLate ==
    /\ wpc = "lock"
    /\ buf' = [buf EXCEPT !.freed = TRUE]
    /\ IF mutex = "free" THEN mutex' = "worker" /\ wpc' = "copy" ELSE UNCHANGED <<mutex, wpc>>
    /\ UNCHANGED <<opts, extVars, ev, file, stats, reader, cause, failures>>

\* Mutant: without the mutex.
LockNot ==
    /\ wpc = "lock"
    /\ wpc' = "copy"
    /\ buf' = [Null EXCEPT !.freed = TRUE]
    /\ UNCHANGED <<opts, extVars, ev, file, stats, mutex, reader, cause, failures>>

\* pthread_mutex_lock; free and malloc.
Lock ==
    /\ wpc = "lock" /\ mutex = "free"
    /\ mutex' = "worker" /\ wpc' = "copy"
    /\ buf' = [Null EXCEPT !.freed = TRUE]
    /\ UNCHANGED <<opts, extVars, ev, file, stats, reader, cause, failures>>

\* read of as many bytes as fstat saw, broadcast, unlock.
Copy ==
    /\ wpc = "copy"
    /\ buf' = [ver |-> file.ver, freed |-> FALSE,
               whole |-> file.whole /\ stats.whole /\ stats.ver = file.ver]
    /\ reader' = IF reader = "waiting" THEN "woken" ELSE reader
    /\ mutex' = "free" /\ wpc' = "close"
    /\ UNCHANGED <<opts, extVars, ev, file, stats, cause, failures>>

\* Mutant: the file is deleted in any case.
CloseFileRemoves ==
    /\ wpc = "close"
    /\ fs' = [fs EXCEPT ![ev] = [ver |-> 0, whole |-> FALSE]]
    /\ file' = NoFile /\ wpc' = "event"
    /\ UNCHANGED <<opts, writing, queue, nver, last, missed, reused, deleted, ev, stats,
                   mutex, buf, reader, cause, failures>>

\* close and, with -r, unlink of whatever has the name now.
CloseFile ==
    /\ wpc = "close"
    /\ fs' = IF opts.rm THEN [fs EXCEPT ![ev] = [ver |-> 0, whole |-> FALSE]] ELSE fs
    /\ file' = NoFile /\ wpc' = "event"
    /\ UNCHANGED <<opts, writing, queue, nver, last, missed, reused, deleted, ev, stats,
                   mutex, buf, reader, cause, failures>>

\* Mutant: a failed read leaves without unlocking.
CopyFailsLocked ==
    /\ wpc = "copy" /\ failures < MaxFailures
    /\ failures' = failures + 1
    /\ buf' = Null
    /\ wpc' = "ended" /\ cause' = "error" /\ file' = NoFile
    /\ UNCHANGED <<opts, extVars, ev, stats, mutex, reader>>

\* read fails: buf = NULL, unlock, leave.
CopyFails ==
    /\ wpc = "copy" /\ failures < MaxFailures
    /\ failures' = failures + 1
    /\ buf' = Null
    /\ mutex' = "free"
    /\ wpc' = "ended" /\ cause' = "error" /\ file' = NoFile
    /\ UNCHANGED <<opts, extVars, ev, stats, reader>>

\* malloc fails: the thread leaves with the mutex.
MallocFails ==
    /\ wpc = "lock" /\ mutex = "free" /\ failures < MaxFailures
    /\ failures' = failures + 1
    /\ buf' = Null
    /\ mutex' = "worker"
    /\ wpc' = "ended" /\ cause' = "oom" /\ file' = NoFile
    /\ UNCHANGED <<opts, extVars, ev, stats, reader>>

\* Reading events, fstat, or open of a file that is there (EACCES, EMFILE) fails.
Fails ==
    /\ wpc \in {"event", "open", "fstat"} /\ failures < MaxFailures
    /\ failures' = failures + 1
    /\ Ends("error")
    /\ UNCHANGED <<opts, extVars, ev, stats, mutex, reader>>

\* input_stop cancels the thread where it reads, opens or closes, with what it has locked.
Cancel ==
    /\ wpc \in {"event", "open", "copy", "close"} /\ failures < MaxFailures
    /\ failures' = failures + 1
    /\ Ends("stop")
    /\ UNCHANGED <<opts, extVars, ev, stats, mutex, reader>>

Worker == ReadEvent \/ Open \/ Fstat \/ Lock \/ Copy \/ CloseFile

-----------------------------------------------------------------------------
\* An output: woken, it copies the buffer under the mutex and is busy with it.
Output ==
    /\ \/ reader = "woken" /\ mutex = "free" /\ reader' = "copying" /\ mutex' = "reader"
       \/ reader = "copying" /\ reader' = "busy" /\ mutex' = "free"
       \/ reader = "busy" /\ reader' = "waiting" /\ UNCHANGED mutex
    /\ UNCHANGED <<opts, extVars, wpc, ev, file, stats, buf, cause, failures>>

FileNext ==
    Worker \/ CopyFails \/ MallocFails \/ Fails \/ Cancel \/ Folder \/ Output

\* The plugin by itself.
FileSpec == FileInit /\ [][FileNext]_fileVars

-----------------------------------------------------------------------------
\* Type invariant; db has the owner its holder's place in the code says.
FileTypeOK ==
    /\ wpc \in {"event", "open", "fstat", "lock", "copy", "close", "ended"}
    /\ Len(queue) <= MaxQueue + 1
    /\ wpc = "copy" => mutex = "worker"
    /\ reader = "copying" <=> mutex = "reader"
    /\ cause = "none" <=> wpc # "ended"

\* No output copies a buffer that was freed while the thread runs: it replaces the buffer
\* only when no output reads it.  (When it ends, worker_cleanup does.)
NeverFreed ==
    reader = "copying" /\ cause = "none" => ~buf.freed

\* A reported file that is gone when the thread opens it ends the thread.  That happens
\* only if another program deleted a file or, with -r, a name was written again: the
\* thread, done with the earlier file, may then unlink the new one.
KeepsGoing ==
    cause = "nofile" => deleted \/ (opts.rm /\ reused)

\* When the files are left alone the buffer comes to hold the last picture reported, and
\* all of it, even if it was being written or replaced while the thread read it; unless
\* the thread ended, or its event came in one read with an earlier one or was lost in an
\* overflow.
ShowsLast ==
    <>[](\/ last = 0 \/ cause # "none" \/ missed \/ writing # {}
         \/ buf.ver = last /\ buf.whole)

\* An output that was woken gets the mutex, unless the thread left with it.
OutputServed ==
    reader = "woken" ~> reader = "copying" \/ cause \in {"oom", "stop"}
==============================================================================
