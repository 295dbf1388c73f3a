# Formal models of the Wifibot software

The repository holds the software of a Wifibot, a small wheeled robot with a
camera that is driven over Wi-Fi. This directory holds TLA+ models of the parts
with their own concurrent logic, the TLC configurations that check them on small
instances, and TLAPS proofs of the main results for every value of the constants.

## 1. The system

| Part | Source | State | Operations |
|---|---|---|---|
| Robot server | `raw_server/simple_server_main.c`, `wifibot.h` | the shared command frame, watchdog count and limit, console speeds, telemetry buffer, sockets, serial port | TCP and UDP command threads, UDP telemetry thread, watchdog thread, serial thread, console loop, signal handler |
| mjpg-streamer core | `mjpg-streamer/mjpg_streamer.c` | `global`: one buffer, mutex and condition variable per input, stop flag | plugin loading, shutdown by `signal_handler` |
| Camera input | `plugins/input_uvc/` | four driver buffers, `tmpbuffer`, `streamingState` | `cam_thread`, `uvcGrab`, `setResolution`, `cam_cleanup` |
| HTTP output | `plugins/output_http/` | server sockets, one thread per client | `server_thread`, `client_thread`, `send_stream`, `send_snapshot`, commands |
| File and UDP output | `plugins/output_file/`, `plugins/output_udp/` | a worker each, files in a ring | `worker_thread`, `maintain_ringbuffer` |
| File input | `plugins/input_file/` | the watch on a folder, the global buffer | `worker_thread`, `worker_cleanup` |
| Video relay | `jsmpeg-master/stream-server.js` | the list of WebSocket clients | relays one HTTP POST to all |
| Web client | `www/wifibot/js/websocket.js`, `www/wifibot/server/GPS_server.js` | the command to send | sends command frames, relays GPS |
| Third-party | `node-v0.12.9/`, `jsmpg.js`, input_gspcav1, ... | | not part of this project |

How they interact. An operator's program sends nine-byte command frames to the
robot server, by UDP (checked with a crc) or by TCP (not checked). The server's
threads share everything through global variables; of the lock calls around them
only one pair, around the TCP answer, is not commented out. The serial thread
copies the command frame to the motor controller and reads telemetry back, which
the TCP thread and the UDP output thread send to the operator. The watchdog thread
stops the robot when no command arrives and restarts the TCP thread. Beside it,
mjpg-streamer publishes camera pictures in a global buffer under a mutex, wakes
its consumers with a condition variable, and every consumer copies the picture.

What is hard: unprotected loads and stores of shared variables, thread
cancellation at arbitrary calls, partial reads and short datagrams, a byte stream
without framing, condition waits without a predicate, and shutdown that frees and
destroys objects in use. `PROJECT.json` lists the hazards with their lines.

What makes each part correct:

* Robot server: a robot whose operator falls silent stops, in bounded time, and
  nothing but an operator sets it in motion; the server goes on serving.
* Telemetry parser: it finds the frames again after any fault and stays in step.
* Telemetry output: an operator is never sent bytes of an old frame, and requests do
  the buffer no lasting harm.
* Descriptors: the number a thread has kept still means what it meant.
* Frame relay: consumers pass on whole pictures, in order, are not starved, and
  shutdown takes nothing away from under them.
* Camera input: every buffer the driver hands out goes back to it, and a change of
  resolution leaves the camera running.
* HTTP server: every connection has one thread, which answers what was asked, however
  the network cuts it up, and lets go of it.
* Pictures on disk: at most as many as were asked for, and the newest.
* Watched folder: the last picture comes through whole, and nobody is left waiting.

## 2. The modules

| Module | What it is |
|---|---|
| `DeadMan` | abstract specification of a dead-man's switch |
| `RobotServer` | command path of the robot server, store by store |
| `MCRobotServer`, `MCRobotServer_*.cfg` | its instances |
| `RobotServerProofs` | its proofs |
| `SerialSync` | telemetry parser over a faulty line |
| `Telemetry` | `SerialSync` composed with the telemetry buffer and its UDP thread |
| `MCTelemetry`, `MCTelemetry.cfg` | their instance |
| `TelemetryProofs` | proofs about both |
| `Descriptors`, `MCDescriptors`, `DescriptorsProofs` | the robot server's file descriptors |
| `FrameRelay` | mjpg-streamer's global buffer, its users and shutdown |
| `MCFrameRelay`, `MCFrameRelay_*.cfg` | its instances |
| `FrameRelayProofs` | its proofs |
| `UvcCapture` | the camera thread against a change of resolution |
| `MCUvcCapture`, `MCUvcCapture_*.cfg` | its instances |
| `UvcCaptureProofs` | its proofs |
| `HttpServer`, `HttpServerProofs` | accepting, reading and dispatching HTTP requests |
| `RingBuffer`, `RingBufferProofs` | the pictures that output_file keeps on disk |
| `FileInput`, `FileInputProofs` | the folder that input_file watches |
| `Plugins`, `MCPlugins` | the three, one chosen in the first state, and their instance |

Operators whose comment begins with "Mutant" are deliberate errors; each is put in
the place of the definition after it to see that a property notices
(`PROJECT.json`, "mutants").

### RobotServer

The variables have the source's names where that is possible (`watchdog`, `cycles`,
`speed1`, `rawIn` for `buffso_Raw_Data_In`, `rcvIN`, `connected`). Every thread has a program
counter, and every load or store of a shared variable is an action, because
nothing in the code makes two of them atomic. The nine bytes of a frame are
grouped into three fields: header and left speed, right speed, flags and crc. The
grouping loses no interleaving that the properties tell apart: the watchdog writes
the speeds and not the crc, and memcpy, recv and driveraw move bytes in between.
`recv` on the TCP stream takes any number of fields, so frames shift as they do
in the code. `Crc` is a constant operator: the proofs hold for every function.

`Thread_TCP` has incarnations, since the watchdog cancels one and creates the next;
a cancelled incarnation runs until its next cancellation point (accept, recv, send,
close, sleep; not `pthread_mutex_lock`) and dies there, with what it has locked. When
`pthread_create` fails the process ends (`DogCreateFails`).
`send` to a closed peer draws a reset and `send` after it SIGPIPE, which kills
the process. A failed open of the serial port leaves the thread spinning, because
`readrs232` returns -1 and the loop takes that for success.

`quiet` is a history variable: how many watchdog periods have ended since a command
thread or the console last stored anything.

Properties: `WatchdogBounded`, `StopWithinLimit`, `ImplementsDeadMan` (refinement of
`DeadMan` with `age <- quiet`, `moving <- Moving(rawIn)`), `StopsEventually`,
`LockOwnerRuns`, and `AnswersAlone`, which says what is left of `LockOwnerRuns`: a cancelled
`Thread_TCP` that runs on and the one that replaces it never answer at the same time, and only
a thread that dies in `send` keeps `mutex_raw_out`. Two threads come to the lock together when
the operator connects again: the old thread is cancelled between `recv` and the unlock and runs
on, the new one serves the next connection. The passing runs have one TCP session, in which
that cannot happen, so `AnswersAlone` is no property of theirs: it is proved, for any number of
sessions (`ThreadsAnswerAlone`).

### SerialSync

The controller sends frames of a byte 255 and 21 bytes that end in a crc.
`GetRS232Motor33f` looks for a 255, reads 21 bytes, and after a crc error looks
for another 255, which it drops. The model keeps the position in the stream, the
loop that is reading, and whether what has been read is still the start of a real
payload. The robot stands still, so the stream is periodic and the positions of
255 in the payload are fixed; with data that changes from frame to frame a false
255 is only less likely to recur. `RecoversInTime` bounds the failed calls by the
number of bytes 255 in the payload plus one; `StaysInSync` says that every frame is
accepted once the line is clean. `KeepsStep` is its safety half, of any line: an accepted frame
leaves the parser in step (`InStep`), and until the line's next fault no frame is missed.

### Telemetry

`Telemetry` extends `SerialSync`: when the parser accepts a frame, `memcpy` copies it to
`buffso_Raw_Data_Out` field by field, and `Thread_TCP_Trooper_Out` clears, changes and sends
the same buffer. The first 19 bytes are one field, the two bytes of the crc one each. A field
is described by its age (of the last frame, of the one before, older, cleared) or, in the
crc, as computed by the server. The server computes its crc in one step (`OutCrc`: the value is a
local variable) and stores it byte by byte (`OutStore`); in between the serial thread may copy
any number of frames, so this crc may be of any earlier frame. `Parse` is every step of
`SerialSync` with what it does to the buffer, so the properties of the parser are checked
of the composition. `NothingStale` is about any moment, because `Thread_TCP` may send at any;
of the server's crc it says only that `memset` clears it after the answer, unless a frame does
first. Two findings that are no disagreement with a doc: an answer to "data" carries
a crc of 18 bytes where the controller's covers 19, and that crc can belong to an older frame
than the data beside it.

### Descriptors

`fd` is the process's descriptor table; `open`, `socket` and `accept` give the lowest free number.
Only calls that open, close or name a descriptor are kept, in the order of the threads that
make them. The watchdog may expire at any time. The restart closes `clntSock`, descriptor 0
(`servSock` is never assigned) and `socket_tcp`, so that after the first restart the
listening socket is descriptor 0.

The properties hold for orderly restarts (`Orderly`): the cancelled thread was serving a
client, the port was open by then, and there was no Ctrl-C. TLC shows that none of the
three conditions can be dropped:

* the first open of the port fails: `close(hUSB1)` is `close(0)`, the second open
  succeeds and returns 0, which `readrs232` and `writers232` take for "not open", and the robot
  is never driven, although the port is there;
* a restart while the thread is not serving: the cancelled thread goes on to its next
  cancellation point, opens or accepts a socket that nobody closes, and the next `bind`
  fails; or `clntSock` is closed a second time, by then as somebody else's number;
* Ctrl-C: the handler closes `hUSB1` and descriptor 0 and returns. The threads go on
  with the closed number, and after a restart descriptor 0 was the listening socket.

The constraint `Excused` of the run only cuts off what follows such an event, about which
the properties say nothing.

### FrameRelay

A picture is a number in the order of capture. `in[0].buf`, `size` and `timestamp`
are three variables, each holding the number of the picture it belongs to, so
that a mixture is visible. The camera thread's loop is modelled call by call;
`uvcGrab` by its outcomes: a picture, a picture without start-of-frame marker
(`memcpy_picture` then returns 0 and copies nothing), a picture that is too small, an
empty buffer (`tmpbuffer` unchanged), an error (the process exits). A consumer is
an HTTP stream, a snapshot, or a worker of output_file or output_udp; they differ in
the timestamp, in the loop and in cancellation. Condition waits may return
spuriously. `signal_handler` runs on the main thread, as it does when that is the
thread in `pause()`. After `pthread_mutex_destroy` a lock call succeeds or
fails without anyone noticing, so exclusion is gone; after `free` a copy reads
anything.

`signal_handler` stops an output (`StopOutput`) and then destroys a mutex and a condition variable
(`Destroy`). In between a worker that was cancelled in `pthread_cond_wait` can get the mutex back
and die with it, because `worker_cleanup` does not unlock. The instance of `relay_shutdown` has
the file output first, so that this happens.

Properties: `WholeFrames`, `FramesInOrder`, `LockGivenBack` (no thread ends or sends with the
mutex locked, until shutdown destroys it; that worker is the one exception), `ServedEventually`,
`FreedUnused`.

### UvcCapture

What `FrameRelay` takes for one step, a call of `uvcGrab`, is here the protocol with the
V4L2 driver: `queued` is the set of buffers the driver has, `mapped` those that can be
read, and `index` is `vd->buf.index`. Both the camera thread and the thread of the
client that changes the resolution write `vd->buf`, `vd->fd` and
`vd->streamingState`, without a lock, so each store and each driver call is an action
of its own. The driver is external and modelled by what its calls return. Any call
of the command may fail (`DeviceOk`); `failed` records that one did. The loops of `init_v4l2` go
through `vd->buf` and also fail when the `memset` of `uvcGrab` has just cleared its type
or length (`BufOk`); when it has cleared the index, buffer 1 is named in place of `i`. Indices are
1 to `NB` where the code has 0 to `NB_BUFFER - 1`. The rest of `cam_thread`'s loop is the
single step `CamPublish`. One command runs at a time; nothing in the code says so, and two
at once are left to the plan, as are the sizes of the picture buffers.

Properties: `BuffersAccounted`, `KeepsCapturing`, `EmptyIgnored`, `ResizeSurvives`.

### HttpServer

A request is a sequence of tokens that stand for bytes: one that says what the line is,
any other byte, CR and LF. `_read` returns as many bytes as have arrived, so a request is
cut anywhere; a client may fall silent anywhere. `iobuf` is the real buffer with its
right-aligned rest; the bytes that `_readline` takes until the buffer is empty or the line ends
are one step, since only that thread sees them. `AnswersAsAsked` compares the answer with
`Owed`, a definition over the whole text and not byte by byte: the set of places where lines
end (`LineEnds`), the line that ends at one, the headers after the first. `heap` has the blocks that `server_thread`
allocates, one per `select`, and their `freed` flags. When two listening sockets (IPv4
and IPv6) are ready in one `select`, both threads get the same block: it is freed twice, and
one connection can have two threads and the other none. The properties excuse that case
(`doubled`); TLC finds it at once when they do not. `Disabled` is what the configuration
does not offer (commands, files), which is answered with 501. The opening of the sockets and
what the answers contain are left out.

Properties: `OneThreadEach`, `AnswersAsAsked`, `NobodyForgotten`.

### RingBuffer

A file is its name, time and counter, with a serial number of when it was saved. Names sort
by time and then by digits, where the tenth digit of a counter breaks the order. The
program may be killed at any point and started with other settings; local time may be set
back; open, write, `scandir` and `unlink` may fail. `spared` records what could not be deleted,
`misnamed` that names and age may disagree. With `-s 0` the plugin announces "no
ringbuffer" and then deletes every picture, so `LatestKept` leaves out size 0.

Properties: `RingHolds`, `NewestKept`, `LatestKept`.

### FileInput

Other programs write files in place (opening and closing are separate steps), move them
in, and delete them; inotify merges equal events and overflows. `read` returns every
event that is queued and the thread looks at the first only. A file is its version and
whether it is whole; `file` follows the open inode, so in-place writes change it and
moves do not. `reader` stands for any output, with the locking of `FrameRelay`. The overflow
event has no watch descriptor, so the thread skips it, and the test that would stop the
thread on an overflow is never reached. Any failure to open ends the thread. The model tells a
file that is gone (`cause` "nofile", about which `KeepsGoing` is) from one that is there
and cannot be opened ("error"), which nothing in the code prevents.

Properties: `NeverFreed`, `KeepsGoing`, `ShowsLast`, `OutputServed`.

### Plugins

The three plugins share only the picture buffer, whose use by several threads is
`FrameRelay`'s subject. `Plugins` chooses one in the first state and runs it, so that one run
covers the sum of their states and not the product. Each plugin also has a specification
of its own (`HttpSpec`, `RingSpec`, `FileSpec`), which the theorems are about;
`PluginsRunEach` proves that `Plugins` implements all three.

## 3. The runs

| Run | Shows | Bounds |
|---|---|---|
| `udp_operator` | the watchdog against UDP and TCP commands and a console key, debug 1 | limit 2, 2 messages of 2 contents and lengths, 1 connection, 1 key, 4 incarnations |
| `tcp_stops` | the watchdog against TCP, cancellation and restart; from the last message to the motor wires | limit 2, 1 message, 1 connection, 5 incarnations, port opens or not |
| `lock_after_cancel` | **violated**: a dead thread holds `mutex_raw_out` | limit 1, 2 connections |
| `telemetry` | resynchronisation from any position, and no loss of it without a fault; the buffer under requests | frames of the real length, 2 faults, up to 21 bytes 255; 2 requests, for the pattern without 255 |
| `descriptors` | numbers keep their meaning over restarts | 3 incarnations, 3 clients |
| `relay` | whole pictures in order for a stream and a snapshot, neither starved | 2 picture numbers, the last one reused |
| `relay_shutdown` | whole pictures in order and the mutex given back, for a stream and a file worker, with `-m` and shutdown | 2 picture numbers; the file output is stopped first, then the HTTP output |
| `freed_in_use` | **violated**: the buffer is freed during a copy | 1 stream |
| `capture` | no buffer is lost but to empty pictures, capture goes on | 4 buffers as in the code, 3 empty pictures, 2 changes of resolution, any call of which may fail |
| `empty_buffers` | **violated**: the driver runs out of buffers | 4 buffers, 4 empty pictures |
| `resize_exits` | **violated**: a change of resolution ends the process | 1 change, while the stream runs; the device works |
| `plugins` | `HttpServer`: 2 connections on 2 sockets | 3 pairs of texts, buffer of 3 bytes, lines of 3, 1 failure |
| | `RingBuffer`: 4 settings | 6 pictures, 3 seconds, 2 faults, counters outgrow their digits at 4 |
| | `FileInput`: 3 settings | 2 names, 3 versions, queue of 2 events, 1 failure or deletion |

`tcp_stops` does not repeat `StopWithinLimit`, which `ImplementsDeadMan` contains, nor
`WatchdogBounded`: the resets of the two command threads race with the watchdog alike.
The watchdog properties relate one command to one iteration of the watchdog; a further
message repeats the situation of the second, and the proofs remove the bounds, the
limit included. Two faults suffice in `telemetry` because a fault can only put
the parser at some position in the stream, and the initial states already contain
all of them; requests do not touch the parser, so one pattern is enough for
them. In `descriptors` the second restart is the first that finds the listener at
descriptor 0, and a third incarnation is needed to see what it left. Two picture numbers suffice
to tell old from new. In `capture` the empty
pictures stay one below the number of buffers because with as many the property is
known to fail (`empty_buffers`); a second change of resolution is there to start from
what a failed first one leaves. In `plugins` a text is longer than two
buffers and a line longer than a line may be; six pictures pass the largest ring twice;
three versions of two files cover a file rewritten while it is read and another one after.

Deadlock is not checked where inputs are bounded (the model stops when the client has
nothing more to send) or where the process may end; it is checked in
`telemetry`, where it may not.

Fairness. `RobotServer`: weak fairness of the watchdog thread, which only sleeps, and
of the serial thread, which includes that the controller keeps sending telemetry;
without it the serial thread blocks in `read` and no stop reaches the motors.
Nothing is assumed of clients or of the TCP and UDP threads. `Telemetry`: the
controller keeps sending, and both threads run; nobody need ask. `FileInput`: weak fairness
of the thread and of the output; none of the programs that write files. `FrameRelay`: weak fairness of the camera thread and of ready
consumers, strong fairness of lock acquisition (the camera holds the mutex for a
copy and then waits for the next picture without it); none of writing to a
client, which may never read, and none of the shutdown signal. `UvcCapture`: weak
fairness of the camera thread, which includes that the camera fills the buffers the
driver has, and of a command that has begun, which only makes driver calls; none that a
command arrives.

## 4. What the checks found

* **A cancelled TCP thread keeps the mutex** (`lock_after_cancel`). The watchdog cancels
  `Thread_TCP` when the operator is silent, and a silent operator that does not read
  either is just the one in whose `send` the thread sits. It dies with `mutex_raw_out`
  locked; each replacement accepts a client, reads one message, and blocks for ever.
  The robot still stops (the watchdog needs no lock), but TCP service is gone.
* **Shutdown frees the picture under its readers** (`freed_in_use`). `cam_cleanup` frees
  `in[0].buf` without the mutex while a stream that the last broadcast woke copies it.
* **Empty pictures use up the driver's buffers** (`empty_buffers`). `uvcGrab` "ignores" a
  buffer of at most 175 bytes by returning before `VIDIOC_QBUF`. After four of them,
  however far apart, the camera thread waits for ever.
* **A change of resolution can end the process** (`resize_exits`). `setResolution` sets
  `STREAMING_PAUSED` and turns the stream off at once; a camera thread that has passed
  its test of the flag gets an error from `VIDIOC_DQBUF` and calls `exit`. The run uses
  `RunningSpec`, in which commands come only while the stream runs. Without it TLC shows
  a shorter way, before the first picture, which waiting for the camera thread would not
  mend: `STREAMING_PAUSED` is stored over `STREAMING_OFF` just before `uvcGrab` tests for it,
  and the stream is never turned on.

Confirmed: although no shared variable of the command path is protected, the
dead-man's switch works in every interleaving, with a deadline of limit + 2 periods.
Increments race with resets, but the only racing stores are "0" and "old value + 1"
with the old value below the limit. `_read` and `_readline` get every way of cutting a request
right. The ring keeps its bound over crashes, restarts and failed deletions.

Not violations of anything the repository says, but excused in the properties, each by
a history variable: the three cases under Descriptors above, a block shared by two
client threads (`doubled`), pictures lost to a clock that goes back or a restart within a
second (`misnamed`), files reported together (`missed`), a folder input that ends for good when
`-r` deletes a name that was written again, and one that dies with the mutex when
`malloc` fails.

## 5. What is proved

All theorems hold for every value of the constants that the named assumptions allow. These
give types, say that names differ, that sets of connections and sockets are finite and that
clients send tokens. Two say more: `RingAssumption` that the exceed option is not negative
(the code treats a negative one as 0), and `DescriptorsAssumption` that the descriptor table has room for
what the bounded restarts and clients can open (a process may have 1024). Bounds such as
`MaxConns` or `MaxSaves` are arbitrary numbers in the proofs.

Every type invariant is proved, every safety invariant of a passing run, and `AnswersAlone`. Almost
none is inductive; each proof module states the strengthening it needs, which TLC has
checked as an invariant first.

* `RobotServerProofs`: `TypeCorrect`, `WatchdogStaysBounded`, `SilenceStops`,
  `WatchdogIsDeadMan` and `ThreadsAnswerAlone`. None of the properties is inductive: the invariant `IInv` adds
  what one watchdog iteration has done so far, as long as no operator store
  intervened. `CountInv` bounds the count and the loaded copy; `SilenceInv` says that
  in silence every period was counted until the limit; `ZeroInv` says which of the
  speeds have been zeroed. A lemma reduces the steps of the other threads to two
  shapes (an operator store, which makes `quiet` 0, or a step that leaves the watched
  state alone), so that only the watchdog's actions need an argument of their own.
  `AnswersAlone` needs besides that the numbers above `thread0` are `Unborn`, so that a new
  `Thread_TCP` is none that has the lock.
* `TelemetryProofs`: `ParserRecovers`, `TelemetryRecovers`, `ParserKeepsStep`,
  `TelemetryKeepsStep`, `TelemetryNothingStale`, `TelemetryTypeCorrect`, for frames of any length with bytes 255 anywhere. `RecoversInTime` bounds a
  count, so the invariant must say what each failed call was spent on: `SyncInv` charges
  it to a byte 255 that the parser has left behind for good. A read that began at a false
  255 ends at the same place one frame later, since it takes exactly the payload's
  length, and the second loop then drops that byte; so no byte 255 costs two calls.
  `KeepsStep` needs only `AlignInv`: while what is read is intact, it lines up with the frame.
  `TelemetryImplementsSerialSync` carries the result to the composition. `AgeInv` relates the age of a
  field to whether `memcpy` has still to copy it, `TodoInv` what the output thread has
  still to store or clear to its place.
* `DescriptorsProofs`: `TypeCorrect`, `PortStays`, `ListenerStaysUp`, `NothingLeaks`, over any
  number of restarts and clients. `Room` bounds the descriptors in use by those ever
  opened, so that the kernel always has a lowest free one, in orderly runs or not. While
  restarts are orderly, `Good` says of every open descriptor which variable names it: `Port`,
  `Listener` and `Client` for the serial port, the listening socket and the one connection,
  `Threads` that a cancelled thread can only die, `UdpFew` that there are two UDP sockets at most.
  The delicate place is `socket_tcp` while the watchdog closes: after a first restart the
  listener is descriptor 0, `close(0)` has closed it already, and a UDP thread that
  starts late may have got the number.
* `FrameRelayProofs`: `TypeCorrect`, `FramesAreWhole`, `FramesStayInOrder`, `LockIsGivenBack`, for any
  number of consumers. The invariant adds exclusion (whoever is between lock and unlock
  owns the mutex, until it is destroyed), what the camera has stored so far, and
  that a half-finished copy agrees with what is published. Order needs only
  that picture numbers never grow along the line from driver to consumer. That the lock is
  given back needs that a dead consumer that has it was a cancelled worker.
* `UvcCaptureProofs`: `TypeCorrect`, `BuffersStayAccounted`, `CameraNeverStarved`, for any number of
  buffers. `CountInv` counts what the driver has, what the camera thread holds and what
  was lost to empty pictures. It is an inequality: a camera thread that meets
  `setResolution` may hold a buffer that the driver has been given again. In the loop of `init_v4l2`
  it holds up to the loop's counter, though the camera thread may change
  `vd->buf.index` in between. `CameraNeverStarved` is the safety half of `KeepsCapturing`.
* `HttpServerProofs`: `HttpTypeCorrect`, `EachHasItsThread`, `NobodyIsForgotten`,
  `AnsweredAsAsked`, for any connections, texts, buffer sizes and failures. `BlockInv` follows a block
  from `malloc` to one thread's `free`, `ConnInv` a connection from the backlog to the thread that
  closes it; both hold until one `select` reports two sockets. That the copy of a block
  happens in the new thread, after `server_thread` may have gone on, is why the
  thread's argument (`arg`) has to be distinct from the current block. `HttpTypeOK`
  includes that `_readline` never fills more than its line. For the answers, `TextInv` places
  what a thread holds in the text: the bytes in `iobuf` are the last it has taken, the bytes
  in `buffer` the ones before, and these begin where a line of the text does (`Reads`);
  `Heard` says what the lines before have told it. `NextEnd` relates the count from the start
  of a line, which `_readline` keeps, to `LineEnds`, which looks at the whole text, and
  `HeaderLine` the running credentials to the last ones given. That nobody else reads the
  same text is `ConnInv` again.
* `RingBufferProofs`: `RingTypeCorrect`, `FolderStaysSmall`, `OldestDeleted`, `LatestStaysThere`, for any settings,
  also over restarts that change them. The order of the names is shown to be total, also
  where a counter has outgrown its digits, so that ranks are distinct and `maintain_ringbuffer`
  leaves at most `size` pictures (`Leaves`, by an injection into the ranks that stay).
  `HoldInv` refines the bound by the place in the cycle of `exceed`, `ListInv` says that
  what is not in the list comes after it, and `AgeInv` that names sort by age.
* `FileInputProofs`: `FileTypeCorrect`, `BufferNeverFreedInUse`, `ThreadKeepsGoing`, for any names, settings and
  length of the queue. `BufInv` says that the buffer is freed only between `malloc` and
  `read`, where the thread has the mutex. `NameInv` says that a name with an event under
  way has a file, which needs that two events of one name are under way only if
  the name was written twice. `PluginsRunEach` joins the three plugins' proofs to `Plugins`.

Only model-checked: the liveness properties (`StopsEventually`, `StaysInSync`,
`TelemetryReturns`, `ServedEventually`, `KeepsCapturing`, `ShowsLast`, `OutputServed`), because they need
fairness, which is out of this prover's reach. Of three of them what safety they rest on is a
property of its own, and proved: `KeepsStep` of `StaysInSync`, `LockGivenBack` of `ServedEventually`
and `CameraNeverStarved` of `KeepsCapturing`. The violated properties of section
3 are violated.

## 6. Plan

In this order:

1. `UvcCapture`: two commands at once, and the sizes of the picture buffers.
2. `HttpServer`: the opening of the sockets, and `command()` as the source of the commands
   in `UvcCapture`.

## 7. Not modelled

The video relay and the web client: the relay is part of the jsmpeg distribution, and to the
robot server the client is any sequence of frames, which `RobotServer` allows. The bits of
`crc16`: `RobotServer` is proved for every crc, and the parser needs only that a wrong payload is
noticed. What the controller does with a frame whose speeds the watchdog changed and
whose crc it did not. Sizes of pictures when the resolution grows. Two changes of resolution
at once. The other plugins, which the robot does not start and whose locking is that
of `FrameRelay`.

Timing in milliseconds (a watchdog period is a step), memory ordering weaker than
sequential consistency, the motor controller, JPEG compression and camera control tables,
option parsing, the older copies of the server, third-party code. The status of every
part is in `PROJECT.json`, "components".
