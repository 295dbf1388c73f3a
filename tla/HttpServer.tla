----------------------------- MODULE HttpServer -----------------------------
(***************************************************************************)
(* The HTTP server of mjpg-streamer, plugins/output_http/httpd.c:          *)
(* server_thread accepts connections on one socket per address family and  *)
(* hands each, in a block it has allocated, to a client_thread of its own, *)
(* which reads the request line by line through _read and _readline,       *)
(* answers and closes.  Bytes arrive in pieces of any size.                *)
(*                                                                         *)
(* A byte of a request is a token: the one token in a line that says what  *)
(* the line is ("stream", "auth", ...), "x" for any other byte, and the    *)
(* line end CR LF.  A connection stands for its descriptor: that a number  *)
(* is used again is in Descriptors.  The pictures are in FrameRelay.       *)
(***************************************************************************)
EXTENDS Integers, Sequences, FiniteSets, FiniteSetsExt, SequencesExt

CONSTANTS
    Conns,          \* connections
    Sessions,       \* what the clients may send: functions from Conns to texts
    Sockets,        \* the listening sockets, as indices of sd[]
    Asked,          \* conf.credentials # NULL: requests need credentials
    Disabled,       \* "command" with conf.nocommands, "file" without conf.www_folder
    IO_BUFFER,      \* the bytes that one read takes
    LineMax,        \* BUFFER_SIZE - 1: the longest line _readline returns
    MaxFails,       \* bound: failures of accept and pthread_create
    NoConn          \* descriptor -1

CR == "CR"
LF == "LF"
Kinds == {"snapshot", "stream", "command", "badcommand", "file", "badinput"}
Tokens == Kinds \cup {"auth", "badauth", "x", CR, LF}
Threads == 1 .. Cardinality(Conns) + MaxFails

ASSUME HttpAssumption ==
    /\ IsFiniteSet(Conns) /\ Sockets \subseteq Nat /\ IsFiniteSet(Sockets)
    /\ Asked \in BOOLEAN /\ Disabled \subseteq {"command", "file"}
    /\ IO_BUFFER \in Nat \ {0} /\ LineMax \in Nat \ {0, 1}
    /\ MaxFails \in Nat
    /\ NoConn \notin Conns
    /\ Sessions \subseteq [Conns -> Seq(Tokens)]

VARIABLES
    conn,           \* each connection: "away", "backlog", "open", "closed"
    backlog,        \* the connections that wait at each socket
    text,           \* what each client sends
    taken,          \* how much of that was read
    srvPc, ready,   \* server_thread and the sockets select reported
    pcfd, heap,     \* its current block; each block's connection and whether freed
    pc, arg, lcfd,  \* each client_thread, its argument and its copy of it
    iobuf, buffer,  \* its iobuffer and the line it is reading
    req,            \* its request: kind, and whether the credentials match
    answer,         \* what it answered
    nthreads, fails,
    doubled,        \* history: one select reported two sockets
    alive           \* false: the allocator noticed a double free, or exit was called

srvVars == <<backlog, srvPc, ready, pcfd, nthreads, fails, doubled>>
thrVars == <<pc, arg, lcfd, iobuf, buffer, req, answer>>
httpVars == <<conn, text, taken, srvVars, heap, thrVars, alive>>

Empty == [level |-> 0, bytes |-> [i \in 0 .. IO_BUFFER - 1 |-> "NUL"]]
NoRequest == [kind |-> "unknown", cred |-> FALSE]

HttpInit ==
    /\ conn = [c \in Conns |-> "away"]
    /\ text \in Sessions
    /\ backlog = [s \in Sockets |-> {}]
    /\ taken = [c \in Conns |-> 0]
    /\ srvPc = "malloc" /\ ready = {} /\ pcfd = 0
    /\ heap = [b \in Threads |-> [fd |-> NoConn, freed |-> FALSE]]
    /\ pc = [t \in Threads |-> "unborn"] /\ arg = [t \in Threads |-> 0]
    /\ lcfd = [t \in Threads |-> NoConn]
    /\ iobuf = [t \in Threads |-> Empty] /\ buffer = [t \in Threads |-> <<>>]
    /\ req = [t \in Threads |-> NoRequest]
    /\ answer = [t \in Threads |-> "none"]
    /\ nthreads = 0 /\ fails = 0 /\ doubled = FALSE /\ alive = TRUE

-----------------------------------------------------------------------------
(* server_thread *)

srvOthers == <<text, taken, alive>>
Close(c) == conn' = [d \in Conns |-> IF d = c THEN "closed" ELSE conn[d]]

\* Mutant: the block is allocated once, before the loop.
SrvMallocOnce ==
    /\ srvPc = "malloc"
    /\ pcfd' = 1
    /\ heap' = [heap EXCEPT ![1] = [fd |-> @.fd, freed |-> FALSE]]
    /\ srvPc' = "select"
    /\ UNCHANGED <<conn, backlog, ready, nthreads, fails, doubled, thrVars, srvOthers>>

\* malloc: a new block, for one iteration.
SrvMalloc ==
    /\ srvPc = "malloc" /\ pcfd < Cardinality(Threads)
    /\ pcfd' = pcfd + 1
    /\ srvPc' = "select"
    /\ UNCHANGED <<conn, backlog, ready, heap, nthreads, fails, doubled, thrVars, srvOthers>>

SrvSelect ==
    /\ srvPc = "select"
    /\ ready' = {s \in Sockets : backlog[s] # {}}
    /\ ready' # {}
    /\ srvPc' = "accept"
    /\ doubled' = (doubled \/ Cardinality(ready') > 1)
    /\ UNCHANGED <<conn, backlog, pcfd, heap, nthreads, fails, thrVars, srvOthers>>

First == Min(ready)

SrvAccept(c) ==
    /\ srvPc = "accept"
    /\ c \in backlog[First]
    /\ backlog' = [backlog EXCEPT ![First] = @ \ {c}]
    /\ conn' = [conn EXCEPT ![c] = "open"]
    /\ heap' = [heap EXCEPT ![pcfd].fd = c]
    /\ srvPc' = "create"
    /\ UNCHANGED <<ready, pcfd, nthreads, fails, doubled, thrVars, srvOthers>>

\* A failed accept is not noticed: the thread gets descriptor -1.
SrvAcceptFails ==
    /\ srvPc = "accept" /\ fails < MaxFails
    /\ fails' = fails + 1
    /\ heap' = [heap EXCEPT ![pcfd].fd = NoConn]
    /\ srvPc' = "create"
    /\ UNCHANGED <<conn, backlog, ready, pcfd, nthreads, doubled, thrVars, srvOthers>>

\* The next socket that select reported uses the same block.
NextSocket ==
    /\ srvPc = "create"
    /\ ready' = ready \ {First}
    /\ srvPc' = IF ready' = {} THEN "malloc" ELSE "accept"

SrvCreate ==
    /\ nthreads < Cardinality(Threads)
    /\ NextSocket
    /\ nthreads' = nthreads + 1
    /\ pc' = [pc EXCEPT ![nthreads'] = "start"]
    /\ arg' = [arg EXCEPT ![nthreads'] = pcfd]
    /\ UNCHANGED <<conn, backlog, pcfd, heap, fails, doubled, lcfd, iobuf, buffer, req, answer,
                   srvOthers>>

SrvCreateFails ==
    /\ fails < MaxFails
    /\ NextSocket
    /\ fails' = fails + 1
    /\ Close(heap[pcfd].fd)
    /\ heap' = [heap EXCEPT ![pcfd].freed = TRUE]
    /\ UNCHANGED <<backlog, pcfd, nthreads, doubled, thrVars, srvOthers>>

\* output_stop cancels the thread in select or accept; server_cleanup closes the
\* listening sockets.  The client threads are detached and go on.
SrvStop ==
    /\ srvPc \in {"select", "accept"}
    /\ srvPc' = "stopped"
    /\ ready' = {} /\ backlog' = [s \in Sockets |-> {}]
    /\ conn' = [c \in Conns |-> IF conn[c] = "backlog" THEN "closed" ELSE conn[c]]
    /\ UNCHANGED <<pcfd, heap, nthreads, fails, doubled, thrVars, srvOthers>>

SrvThread ==
    \/ SrvMalloc \/ SrvSelect \/ (\E c \in Conns : SrvAccept(c)) \/ SrvAcceptFails
    \/ SrvCreate \/ SrvCreateFails

-----------------------------------------------------------------------------
(* client_thread *)

thrOthers == <<text, srvVars>>
Reading(t) == pc[t] \in {"request", "header"}
Usable(c) == c \in {NoConn} \cup {d \in Conns : conn[d] = "open"}
Unread(c) == IF c = NoConn THEN <<>> ELSE SubSeq(text[c], taken[c] + 1, Len(text[c]))

\* memcpy(&lcfd, arg), free(arg): freeing twice may be noticed.
ThrStart(t) ==
    /\ pc[t] = "start"
    /\ lcfd' = [lcfd EXCEPT ![t] = heap[arg[t]].fd]
    /\ alive' \in {TRUE, ~heap[arg[t]].freed}
    /\ heap' = [heap EXCEPT ![arg[t]].freed = TRUE]
    /\ pc' = [pc EXCEPT ![t] = "request"]
    /\ UNCHANGED <<conn, taken, arg, iobuf, buffer, req, answer, thrOthers>>

\* Mutant: what was read stays at the start of the buffer.
FillUnaligned(bytes) ==
    [level |-> Len(bytes),
     bytes |-> [i \in 0 .. IO_BUFFER - 1 |-> IF i < Len(bytes) THEN bytes[i + 1] ELSE "NUL"]]

\* What was read is moved to the end of the buffer.
Fill(bytes) ==
    [level |-> Len(bytes),
     bytes |-> [i \in 0 .. IO_BUFFER - 1 |->
                  IF i < IO_BUFFER - Len(bytes) THEN "NUL"
                  ELSE bytes[i - (IO_BUFFER - Len(bytes)) + 1]]]

\* _read, when the buffer is empty: select, then read the n bytes that have arrived.
ThrFill(t, n) ==
    /\ Reading(t) /\ iobuf[t].level = 0 /\ Usable(lcfd[t])
    /\ n <= Len(Unread(lcfd[t]))
    /\ iobuf' = [iobuf EXCEPT ![t] = Fill(SubSeq(Unread(lcfd[t]), 1, n))]
    /\ taken' = [taken EXCEPT ![lcfd[t]] = @ + n]
    /\ UNCHANGED <<conn, heap, pc, arg, lcfd, buffer, req, answer, alive, thrOthers>>

\* The request line: a request, or 400 "Malformed HTTP request", or 500 if the
\* parameter cannot be unescaped.
ParseRequest(t, line) ==
    LET kinds == ToSet(line) \cap Kinds
    IN  IF kinds = {} \/ "badcommand" \in kinds
        THEN /\ pc' = [pc EXCEPT ![t] = "close"]
             /\ answer' = [answer EXCEPT ![t] = IF kinds = {} THEN "400" ELSE "500"]
             /\ UNCHANGED req
        ELSE /\ pc' = [pc EXCEPT ![t] = "header"]
             /\ req' = [req EXCEPT ![t].kind = CHOOSE k \in kinds : TRUE]
             /\ UNCHANGED answer

\* while (cnt > 2 && !(buffer[0] == '\r' && buffer[1] == '\n'))
LastHeader(line) == Len(line) <= 2 \/ SubSeq(line, 1, 2) = <<CR, LF>>

ParseHeader(t, line) ==
    /\ req' = [req EXCEPT ![t].cred = "auth" \in ToSet(line) \/ (@ /\ "badauth" \notin ToSet(line))]
    /\ pc' = [pc EXCEPT ![t] = IF LastHeader(line) THEN "answer" ELSE "header"]
    /\ UNCHANGED answer

\* Mutant: one byte too many.
LineFullLate(n) == n > LineMax

\* for (i = 0; i < len ...)
LineFull(n) == n = LineMax

\* _readline takes bytes from the buffer up to a line end or until the line is full, when
\* client_thread looks at the line, or the buffer is empty and _read has to fill it.
ThrTake(t) ==
    /\ Reading(t) /\ iobuf[t].level > 0
    /\ LET held == [i \in 1 .. iobuf[t].level |-> iobuf[t].bytes[IO_BUFFER - iobuf[t].level + i - 1]]
           ends == {i \in DOMAIN held : held[i] = LF \/ LineFull(Len(buffer[t]) + i)}
           n    == IF ends = {} THEN Len(held) ELSE Min(ends)
           line == buffer[t] \o SubSeq(held, 1, n)
       IN  /\ iobuf' = [iobuf EXCEPT ![t].level = @ - n]
           /\ IF ends # {}
              THEN /\ buffer' = [buffer EXCEPT ![t] = <<>>]
                   /\ \/ pc[t] = "request" /\ ParseRequest(t, line)
                      \/ pc[t] = "header" /\ ParseHeader(t, line)
              ELSE /\ buffer' = [buffer EXCEPT ![t] = line]
                   /\ UNCHANGED <<pc, req, answer>>
    /\ UNCHANGED <<conn, heap, taken, arg, lcfd, alive, thrOthers>>

\* The thread's iobuffer and line go with it.
Returns(t) ==
    /\ pc' = [pc EXCEPT ![t] = "done"]
    /\ iobuf' = [iobuf EXCEPT ![t] = Empty] /\ buffer' = [buffer EXCEPT ![t] = <<>>]

\* Mutant: the connection is left open.
ThrGivesUpOpen(t) ==
    /\ Reading(t) /\ iobuf[t].level = 0 /\ Usable(lcfd[t])
    /\ Returns(t)
    /\ UNCHANGED <<conn, heap, taken, arg, lcfd, req, answer, alive, thrOthers>>

\* Five seconds without a byte, the end of the stream, or an error, wherever in its
\* text the client fell silent.
ThrGivesUp(t) ==
    /\ Reading(t) /\ iobuf[t].level = 0 /\ Usable(lcfd[t])
    /\ Returns(t)
    /\ Close(lcfd[t])
    /\ UNCHANGED <<heap, taken, arg, lcfd, req, answer, alive, thrOthers>>

\* select fails on a descriptor that another thread has closed: exit(EXIT_FAILURE).
ThrSelectFails(t) ==
    /\ Reading(t) /\ iobuf[t].level = 0 /\ ~Usable(lcfd[t])
    /\ alive' = FALSE
    /\ UNCHANGED <<conn, taken, heap, thrVars, thrOthers>>

\* 401 without the credentials, 404 without the camera, 501 for what the configuration
\* does not offer; otherwise the request is carried out.
Answer(r) ==
    IF Asked /\ ~r.cred THEN "401"
    ELSE IF r.kind = "badinput" THEN "404"
    ELSE IF r.kind \in Disabled THEN "501" ELSE r.kind

ThrAnswer(t) ==
    /\ pc[t] = "answer"
    /\ answer' = [answer EXCEPT ![t] = Answer(req[t])]
    /\ pc' = [pc EXCEPT ![t] = "close"]
    /\ UNCHANGED <<conn, heap, taken, arg, lcfd, iobuf, buffer, req, alive, thrOthers>>

\* After the answer, which for a stream ends when the client hangs up.
ThrClose(t) ==
    /\ pc[t] = "close"
    /\ Returns(t)
    /\ Close(lcfd[t])
    /\ UNCHANGED <<heap, taken, arg, lcfd, req, answer, alive, thrOthers>>

ClientThread(t) ==
    \/ ThrStart(t) \/ (\E n \in 1 .. IO_BUFFER : ThrFill(t, n)) \/ ThrTake(t) \/ ThrGivesUp(t)
    \/ ThrSelectFails(t) \/ ThrAnswer(t) \/ ThrClose(t)

-----------------------------------------------------------------------------
ClientConnects(c, s) ==
    /\ conn[c] = "away" /\ srvPc # "stopped"
    /\ conn' = [conn EXCEPT ![c] = "backlog"]
    /\ backlog' = [backlog EXCEPT ![s] = @ \cup {c}]
    /\ UNCHANGED <<text, taken, srvPc, ready, pcfd, nthreads, fails, doubled, heap, thrVars, alive>>

HttpNext ==
    /\ alive
    /\ \/ SrvThread
       \/ SrvStop
       \/ \E t \in Threads : ClientThread(t)
       \/ \E c \in Conns, s \in Sockets : ClientConnects(c, s)

\* The server by itself.
HttpSpec == HttpInit /\ [][HttpNext]_httpVars

-----------------------------------------------------------------------------
\* Type invariant.
HttpTypeOK ==
    /\ conn \in [Conns -> {"away", "backlog", "open", "closed"}]
    /\ \A c \in Conns : taken[c] \in 0 .. Len(text[c])
    /\ srvPc \in {"malloc", "select", "accept", "create", "stopped"}
    /\ ready \subseteq Sockets
    /\ \A t \in Threads : iobuf[t].level \in 0 .. IO_BUFFER /\ Len(buffer[t]) < LineMax
    /\ lcfd \in [Threads -> Conns \cup {NoConn}]
    /\ answer \in [Threads -> Kinds \cup {"none", "400", "401", "404", "500", "501"}]

\* "start a new thread for each accepted connection": no two threads have the same
\* connection and no block is freed twice, however late a thread copies its block,
\* unless two sockets were ready at once, which then share a block.
OneThreadEach ==
    ~doubled =>
        /\ alive
        /\ \A t, u \in Threads : t # u => lcfd[t] # lcfd[u] \/ lcfd[t] = NoConn

\* Where the lines of a text end: at a line end, and every LineMax bytes after one.
LineEnds(s) ==
    {j \in 1 .. Len(s) :
        \/ s[j] = LF
        \/ \E p \in 0 .. j - 1 : /\ p = 0 \/ s[p] = LF
                                 /\ \A k \in p + 1 .. j - 1 : s[k] # LF
                                 /\ (j - p) % LineMax = 0}
LineAt(s, e) == SubSeq(s, Max({0} \cup {f \in LineEnds(s) : f < e}) + 1, e)

\* The credentials in the headers up to a line: the last that are given count.
Credentials(s, upto) ==
    LET headers == {e \in LineEnds(s) : Min(LineEnds(s)) < e /\ e <= upto}
    IN  \E e \in headers :
            /\ "auth" \in ToSet(LineAt(s, e))
            /\ \A f \in headers : e < f => ToSet(LineAt(s, f)) \cap {"auth", "badauth"} = {}

\* What the server owes a client that sent a text: the first line decides the request,
\* the lines after it, up to the first of at most two bytes, hold the credentials.
Owed(s) ==
    LET first == Min(LineEnds(s))
        kinds == ToSet(LineAt(s, first)) \cap Kinds
        kind  == CHOOSE k \in kinds : TRUE
        last  == {e \in LineEnds(s) : first < e /\ Len(LineAt(s, e)) <= 2}
    IN  IF LineEnds(s) = {} THEN "none"
        ELSE IF kinds = {} THEN "400"
        ELSE IF "badcommand" \in kinds THEN "500"
        ELSE IF last = {} THEN "none"
        ELSE IF Asked /\ ~Credentials(s, Min(last)) THEN "401"
        ELSE IF kind = "badinput" THEN "404"
        ELSE IF kind \in Disabled THEN "501" ELSE kind

\* An answer depends on what the client sent and not on how the network cut it up:
\* _read and _readline lose, repeat and misplace no byte at the edges of their buffers.
AnswersAsAsked ==
    ~doubled =>
        \A t \in Threads : answer[t] # "none" => answer[t] = Owed(text[lcfd[t]])

\* No connection is forgotten: as long as it is open, server_thread is about to start a
\* thread for it or a client_thread has it and has not returned, on every path through
\* either, a failed pthread_create and a client that falls silent included; unless two
\* sockets were ready at once.
Holds(t) == IF pc[t] = "start" THEN heap[arg[t]].fd ELSE lcfd[t]
NobodyForgotten ==
    ~doubled =>
        \A c \in Conns : conn[c] = "open" =>
            \/ srvPc = "create" /\ heap[pcfd].fd = c
            \/ \E t \in Threads : pc[t] \notin {"unborn", "done"} /\ Holds(t) = c
=============================================================================
