-------------------------- MODULE HttpServerProofs --------------------------
(***************************************************************************)
(* Proofs about HttpServer, for every set of connections, every text the   *)
(* clients send and every size of the buffers: no two threads have the     *)
(* same connection, no block is freed twice, and no open connection is     *)
(* forgotten; _readline never writes past its line, and every client gets  *)
(* the answer to what it sent however the network cuts it up.              *)
(***************************************************************************)
EXTENDS HttpServer, FiniteSetTheorems, WellFoundedInduction, TLAPS

MaxThreads == Cardinality(Conns) + MaxFails
Fd == Conns \cup {NoConn}
Bytes == Tokens \cup {"NUL"}
Blocks == [fd : Fd, freed : BOOLEAN]
Buffers == [level : 0 .. IO_BUFFER, bytes : [0 .. IO_BUFFER - 1 -> Bytes]]
Requests == [kind : Kinds \cup {"unknown"}, cred : BOOLEAN]

\* The types of all of the state, of which HttpTypeOK has the part that could fail.
ServerTyped ==
    /\ conn \in [Conns -> {"away", "backlog", "open", "closed"}]
    /\ backlog \in [Sockets -> SUBSET Conns]
    /\ srvPc \in {"malloc", "select", "accept", "create", "stopped"}
    /\ ready \in SUBSET Sockets
    /\ pcfd \in 0 .. MaxThreads /\ nthreads \in 0 .. MaxThreads
    /\ heap \in [Threads -> Blocks]
    /\ alive \in BOOLEAN /\ doubled \in BOOLEAN

ThreadsTyped ==
    /\ pc \in [Threads -> {"unborn", "start", "request", "header", "answer", "close", "done"}]
    /\ arg \in [Threads -> 0 .. MaxThreads]
    /\ lcfd \in [Threads -> Fd]
    /\ req \in [Threads -> Requests]
    /\ answer \in [Threads -> Kinds \cup {"none", "400", "401", "404", "500", "501"}]

BuffersTyped ==
    /\ text \in [Conns -> Seq(Bytes)] /\ taken \in [Conns -> Nat]
    /\ \A c \in Conns : taken[c] <= Len(text[c])
    /\ iobuf \in [Threads -> Buffers]
    /\ buffer \in [Threads -> Seq(Bytes)]
    /\ \A t \in Threads : Len(buffer[t]) < LineMax

\* server_thread has a block from its malloc on and sockets from its select on; a
\* thread that has started has a block, and one that has read its first line a request.
Owns == srvPc \in {"select", "accept", "create"}
Order ==
    /\ Owns => pcfd \in Threads
    /\ srvPc \in {"accept", "create"} => ready # {}
    /\ \A t \in Threads :
          /\ t > nthreads <=> pc[t] = "unborn"
          /\ pc[t] = "start" => arg[t] \in Threads
          /\ pc[t] \in {"header", "answer"} => req[t].kind \in Kinds

(***************************************************************************)
(* What holds until one select reports two sockets.  Then server_thread    *)
(* uses a block for one thread, which frees it and alone has its           *)
(* connection.                                                             *)
(***************************************************************************)

\* A block is with server_thread or was passed to one thread, which frees it.
BlockInv ==
    /\ \A s, r \in ready : s = r
    /\ Owns => ~heap[pcfd].freed
    /\ \A b \in Threads : b > pcfd => ~heap[b].freed
    /\ \A t \in Threads : pc[t] # "unborn" =>
          arg[t] \in 1 .. pcfd /\ (Owns => arg[t] # pcfd)
    /\ \A t, u \in Threads : pc[t] # "unborn" /\ pc[u] # "unborn" /\ t # u => arg[t] # arg[u]
    /\ \A t \in Threads : pc[t] = "start" => ~heap[arg[t]].freed

\* A connection waits at one socket, then it is server_thread's, then one thread's,
\* which has it to its end and closes it.
ConnInv ==
    /\ \A s \in Sockets, c \in Conns : c \in backlog[s] => conn[c] = "backlog"
    /\ \A s, r \in Sockets : s # r => backlog[s] \cap backlog[r] = {}
    /\ \A t \in Threads : pc[t] \in {"unborn", "start"} => lcfd[t] = NoConn
    /\ \A t \in Threads : Holds(t) # NoConn =>
          conn[Holds(t)] = IF pc[t] = "done" THEN "closed" ELSE "open"
    /\ \A t, u \in Threads : t # u => Holds(t) # Holds(u) \/ Holds(t) = NoConn
    /\ srvPc = "create" /\ heap[pcfd].fd # NoConn =>
          conn[heap[pcfd].fd] = "open" /\ \A t \in Threads : Holds(t) # heap[pcfd].fd

Alone == alive /\ BlockInv /\ ConnInv /\ NobodyForgotten

IInv ==
    /\ ServerTyped /\ ThreadsTyped /\ BuffersTyped /\ Order
    /\ ~doubled => Alone
-----------------------------------------------------------------------------
(* The types. *)

LEMMA ThreadCount ==
    /\ MaxThreads \in Nat /\ Threads = 1 .. MaxThreads /\ Cardinality(Threads) = MaxThreads
<1>1. Cardinality(Conns) \in Nat
  BY HttpAssumption, FS_CardinalityType
<1>2. MaxThreads \in Nat /\ Threads = 1 .. MaxThreads
  BY <1>1, HttpAssumption DEF MaxThreads, Threads
<1>3. Cardinality(1 .. MaxThreads) = MaxThreads
  BY <1>2, FS_Interval
<1> QED BY <1>2, <1>3

\* The least of a set of numbers, as FiniteSetsExt defines it, is one of them, and the
\* greatest is the one that is not less than any.
LEMMA LeastNumber ==
    ASSUME NEW S \in SUBSET Nat, S # {}
    PROVE  Min(S) \in S /\ \A y \in S : Min(S) <= y
<1>1. PICK x \in S : \A y \in S : ~(<<y, x>> \in OpToRel(<, Nat))
  BY NatLessThanWellFounded, WFMin
<1>2. ASSUME NEW y \in S PROVE x <= y
  <2>1. <<y, x>> \in Nat \X Nat
    OBVIOUS
  <2>2. ~(<<y, x>>[1] < <<y, x>>[2])
    BY <1>1, <2>1 DEF OpToRel
  <2> QED BY <2>2
<1> QED BY <1>2 DEF Min

LEMMA Greatest ==
    ASSUME NEW S \in SUBSET Nat, NEW x \in S, \A y \in S : y <= x
    PROVE  Max(S) = x
<1>1. Max(S) \in S /\ \A y \in S : Max(S) >= y
  BY DEF Max
<1>2. Max(S) >= x /\ Max(S) <= x /\ Max(S) \in Nat
  BY <1>1
<1> QED BY <1>2

LEMMA FirstIsReady == ASSUME ServerTyped, ready # {} PROVE First \in ready
<1>1. ready \in SUBSET Nat
  BY HttpAssumption DEF ServerTyped
<1> QED BY <1>1, LeastNumber DEF First

\* Storing to and freeing a block.
LEMMA HeapTyped ==
    ASSUME heap \in [Threads -> Blocks], NEW b \in Threads, NEW c \in Fd
    PROVE  /\ [heap EXCEPT ![b].fd = c] \in [Threads -> Blocks]
           /\ [heap EXCEPT ![b].freed = TRUE] \in [Threads -> Blocks]
<1>1. [heap[b] EXCEPT !.fd = c] \in Blocks /\ [heap[b] EXCEPT !.freed = TRUE] \in Blocks
  BY DEF Blocks
<1> QED BY <1>1

\* What server_thread and the clients' arrival leave alone.
LEMMA ServerFrame ==
    ASSUME SrvThread \/ SrvStop \/ \E c \in Conns, s \in Sockets : ClientConnects(c, s)
    PROVE  UNCHANGED <<text, taken, alive, lcfd, iobuf, buffer, req, answer>>
BY DEF SrvThread, SrvMalloc, SrvSelect, SrvAccept, SrvAcceptFails, SrvCreate, SrvCreateFails,
       SrvStop, ClientConnects, thrVars, srvOthers

Typed == ServerTyped /\ ThreadsTyped /\ BuffersTyped /\ Order

LEMMA ServerTypes ==
    ASSUME Typed, SrvThread \/ SrvStop \/ \E c \in Conns, s \in Sockets : ClientConnects(c, s)
    PROVE  ServerTyped' /\ ThreadsTyped' /\ Order'
<1> USE ThreadCount DEF Typed, ServerTyped, ThreadsTyped, Order, Owns, thrVars, srvOthers
<1>a. UNCHANGED <<alive, lcfd, req, answer>>
  BY ServerFrame
<1>1. CASE SrvMalloc
  BY <1>1, <1>a DEF SrvMalloc
<1>2. CASE SrvSelect
  <2>1. doubled' \in BOOLEAN
    BY <1>2 DEF SrvSelect
  <2> QED BY <1>2, <1>a, <2>1 DEF SrvSelect
<1>3. ASSUME NEW c \in Conns, SrvAccept(c) PROVE ServerTyped' /\ ThreadsTyped' /\ Order'
  <2>1. heap' \in [Threads -> Blocks]
    BY <1>3, HeapTyped DEF SrvAccept, Fd
  <2> QED BY <1>3, <1>a, <2>1 DEF SrvAccept
<1>4. CASE SrvAcceptFails
  <2>1. heap' \in [Threads -> Blocks]
    BY <1>4, HeapTyped DEF SrvAcceptFails, Fd
  <2> QED BY <1>4, <1>a, <2>1 DEF SrvAcceptFails
<1>5. CASE SrvCreate
  BY <1>5, <1>a DEF SrvCreate, NextSocket
<1>6. CASE SrvCreateFails
  <2>1. heap' \in [Threads -> Blocks]
    BY <1>6, HeapTyped DEF SrvCreateFails, NextSocket, Fd
  <2> QED BY <1>6, <1>a, <2>1 DEF SrvCreateFails, NextSocket, Close
<1>7. CASE SrvStop
  BY <1>7, <1>a DEF SrvStop
<1>8. ASSUME NEW c \in Conns, NEW s \in Sockets, ClientConnects(c, s)
      PROVE  ServerTyped' /\ ThreadsTyped' /\ Order'
  BY <1>8, <1>a DEF ClientConnects
<1> QED BY <1>1, <1>2, <1>3, <1>4, <1>5, <1>6, <1>7, <1>8 DEF SrvThread

\* A read of n bytes.
LEMMA FillTyped ==
    ASSUME NEW s \in Seq(Bytes), Len(s) <= IO_BUFFER
    PROVE  Fill(s) \in Buffers
<1>1. Len(s) \in 0 .. IO_BUFFER
  BY HttpAssumption
<1>2. ASSUME NEW i \in 0 .. IO_BUFFER - 1, ~(i < IO_BUFFER - Len(s))
      PROVE  s[i - (IO_BUFFER - Len(s)) + 1] \in Bytes
  <2>1. i - (IO_BUFFER - Len(s)) + 1 \in 1 .. Len(s)
    BY <1>1, <1>2, HttpAssumption
  <2> QED BY <2>1
<1>3. "NUL" \in Bytes
  BY DEF Bytes
<1>4. [i \in 0 .. IO_BUFFER - 1 |->
          IF i < IO_BUFFER - Len(s) THEN "NUL" ELSE s[i - (IO_BUFFER - Len(s)) + 1]]
      \in [0 .. IO_BUFFER - 1 -> Bytes]
  BY <1>2, <1>3
<1> QED BY <1>1, <1>4 DEF Fill, Buffers

LEMMA UnreadTyped ==
    ASSUME BuffersTyped, NEW c \in Fd
    PROVE  /\ Unread(c) \in Seq(Bytes)
           /\ c \in Conns => Len(Unread(c)) = Len(text[c]) - taken[c]
           /\ Len(Unread(c)) > 0 => c \in Conns
<1>1. CASE c \in Conns
  <2>1. /\ text[c] \in Seq(Bytes) /\ Len(text[c]) \in Nat
        /\ taken[c] \in Nat /\ taken[c] <= Len(text[c])
    BY <1>1 DEF BuffersTyped
  <2>2. Unread(c) = SubSeq(text[c], taken[c] + 1, Len(text[c]))
    BY <1>1, HttpAssumption DEF Unread
  <2>3. /\ SubSeq(text[c], taken[c] + 1, Len(text[c])) \in Seq(Bytes)
        /\ Len(SubSeq(text[c], taken[c] + 1, Len(text[c]))) = Len(text[c]) - taken[c]
    BY <2>1
  <2> QED BY <1>1, <2>2, <2>3
<1>2. CASE c = NoConn
  <2>1. Unread(c) = <<>> /\ Len(<<>>) = 0 /\ <<>> \in Seq(Bytes)
    BY <1>2 DEF Unread
  <2> QED BY <1>2, <2>1, HttpAssumption
<1> QED BY <1>1, <1>2 DEF Fd

\* One call of _readline on what the buffer holds, with the names of ThrTake.
Held(b) == [i \in 1 .. b.level |-> b.bytes[IO_BUFFER - b.level + i - 1]]
Ends(b, s) == {i \in DOMAIN Held(b) : Held(b)[i] = LF \/ LineFull(Len(s) + i)}
Count(b, s) == IF Ends(b, s) = {} THEN Len(Held(b)) ELSE Min(Ends(b, s))
Line(b, s) == s \o SubSeq(Held(b), 1, Count(b, s))

\* It takes at least one byte, no more than there are, and what it keeps for the next
\* call is shorter than a line may be.
LEMMA TakeTyped ==
    ASSUME NEW b \in Buffers, b.level > 0, NEW s \in Seq(Bytes), Len(s) < LineMax
    PROVE  /\ Count(b, s) \in 1 .. b.level
           /\ Line(b, s) \in Seq(Bytes)
           /\ Ends(b, s) = {} => Len(Line(b, s)) < LineMax
<1>1. b.level \in 1 .. IO_BUFFER /\ b.bytes \in [0 .. IO_BUFFER - 1 -> Bytes] /\ b.level \in Nat
  BY HttpAssumption DEF Buffers
<1>2. \A i \in 1 .. b.level : IO_BUFFER - b.level + i - 1 \in 0 .. IO_BUFFER - 1
  BY <1>1, HttpAssumption
<1>3. \A i \in 1 .. b.level : b.bytes[IO_BUFFER - b.level + i - 1] \in Bytes
  BY <1>1, <1>2
<1>4. Held(b) \in [1 .. b.level -> Bytes] /\ DOMAIN Held(b) = 1 .. b.level
  BY <1>3 DEF Held
<1>5. Held(b) \in Seq(Bytes) /\ Len(Held(b)) = b.level
  BY <1>1, <1>4
<1>6. Ends(b, s) \in SUBSET (1 .. b.level)
  BY <1>4 DEF Ends
<1>7. Count(b, s) \in 1 .. b.level
  <2>1. CASE Ends(b, s) = {}
    BY <1>1, <1>5, <2>1 DEF Count
  <2>2. CASE Ends(b, s) # {}
    <3>1. Ends(b, s) \in SUBSET Nat
      BY <1>6
    <3>2. Min(Ends(b, s)) \in Ends(b, s)
      BY <2>2, <3>1, LeastNumber
    <3> QED BY <1>6, <2>2, <3>2 DEF Count
  <2> QED BY <2>1, <2>2
<1>8. /\ SubSeq(Held(b), 1, Count(b, s)) \in Seq(Bytes)
      /\ Len(SubSeq(Held(b), 1, Count(b, s))) = Count(b, s)
  BY <1>1, <1>5, <1>7
<1>9. Line(b, s) \in Seq(Bytes) /\ Len(Line(b, s)) = Len(s) + Count(b, s)
  BY <1>8 DEF Line
<1>10. ASSUME Ends(b, s) = {} PROVE Len(s) + Count(b, s) < LineMax
  <2>1. Count(b, s) = b.level
    BY <1>5, <1>10 DEF Count
  <2>2. \A i \in 1 .. b.level : Len(s) + i # LineMax
    BY <1>4, <1>10 DEF Ends, LineFull
  <2>3. Len(s) \in Nat /\ LineMax \in Nat
    BY HttpAssumption
  <2>4. LineMax - Len(s) \notin 1 .. b.level
    BY <2>2, <2>3
  <2> QED BY <1>1, <2>1, <2>3, <2>4
<1> QED BY <1>7, <1>9, <1>10

\* A step of a thread's buffers.
LEMMA LevelTyped ==
    ASSUME iobuf \in [Threads -> Buffers], NEW t \in Threads, NEW n \in 1 .. iobuf[t].level
    PROVE  [iobuf EXCEPT ![t].level = @ - n] \in [Threads -> Buffers]
<1>1. iobuf[t].level \in 0 .. IO_BUFFER
  BY DEF Buffers
<1>2. iobuf[t].level - n \in 0 .. IO_BUFFER
  BY <1>1, HttpAssumption
<1>3. [iobuf[t] EXCEPT !.level = iobuf[t].level - n] \in Buffers
  BY <1>2 DEF Buffers
<1> QED BY <1>3

LEMMA RequestTyped ==
    ASSUME req \in [Threads -> Requests], NEW t \in Threads,
           NEW k \in Kinds, NEW c \in BOOLEAN
    PROVE  /\ [req EXCEPT ![t].kind = k] \in [Threads -> Requests]
           /\ [req EXCEPT ![t].cred = c] \in [Threads -> Requests]
<1>1. [req[t] EXCEPT !.kind = k] \in Requests /\ [req[t] EXCEPT !.cred = c] \in Requests
  BY DEF Requests
<1> QED BY <1>1

\* What a thread takes from its buffer and what it makes of a line.
LEMMA TakeStep ==
    ASSUME NEW t \in Threads, ThrTake(t)
    PROVE  /\ Reading(t) /\ iobuf[t].level > 0
           /\ iobuf' = [iobuf EXCEPT ![t].level = @ - Count(iobuf[t], buffer[t])]
           /\ \/ /\ Ends(iobuf[t], buffer[t]) # {}
                 /\ buffer' = [buffer EXCEPT ![t] = <<>>]
                 /\ \/ pc[t] = "request" /\ ParseRequest(t, Line(iobuf[t], buffer[t]))
                    \/ pc[t] = "header" /\ ParseHeader(t, Line(iobuf[t], buffer[t]))
              \/ /\ Ends(iobuf[t], buffer[t]) = {}
                 /\ buffer' = [buffer EXCEPT ![t] = Line(iobuf[t], buffer[t])]
                 /\ UNCHANGED <<pc, req, answer>>
           /\ UNCHANGED <<conn, heap, taken, arg, lcfd, alive, thrOthers>>
BY DEF ThrTake, Held, Ends, Count, Line

LEMMA ParseTypes ==
    ASSUME ThreadsTyped, NEW t \in Threads, NEW line,
           \/ pc[t] = "request" /\ ParseRequest(t, line)
           \/ pc[t] = "header" /\ ParseHeader(t, line) /\ req[t].kind \in Kinds
    PROVE  /\ pc' \in [Threads -> {"unborn", "start", "request", "header", "answer", "close", "done"}]
           /\ pc'[t] \in {"header", "answer", "close"} /\ \A u \in Threads \ {t} : pc'[u] = pc[u]
           /\ req' \in [Threads -> Requests] /\ \A u \in Threads \ {t} : req'[u] = req[u]
           /\ pc'[t] \in {"header", "answer"} => req'[t].kind \in Kinds
           /\ answer' \in [Threads -> Kinds \cup {"none", "400", "401", "404", "500", "501"}]
<1> USE DEF ThreadsTyped
<1>1. CASE pc[t] = "request" /\ ParseRequest(t, line)
  <2> DEFINE kinds == ToSet(line) \cap Kinds
  <2>1. CASE kinds = {} \/ "badcommand" \in kinds
    BY <1>1, <2>1 DEF ParseRequest
  <2>2. CASE ~(kinds = {} \/ "badcommand" \in kinds)
    <3>1. PICK k \in Kinds : k = CHOOSE j \in kinds : TRUE
      BY <2>2
    <3>2. req' = [req EXCEPT ![t].kind = k]
      BY <1>1, <2>2, <3>1 DEF ParseRequest
    <3>3. req' \in [Threads -> Requests]
      BY <3>1, <3>2, RequestTyped
    <3>4. req'[t].kind = k /\ \A u \in Threads \ {t} : req'[u] = req[u]
      BY <3>2 DEF Requests
    <3> QED BY <1>1, <2>2, <3>1, <3>3, <3>4 DEF ParseRequest
  <2> QED BY <2>1, <2>2
<1>2. CASE pc[t] = "header" /\ ParseHeader(t, line) /\ req[t].kind \in Kinds
  <2> DEFINE c == "auth" \in ToSet(line) \/ (req[t].cred /\ "badauth" \notin ToSet(line))
  <2>1. c \in BOOLEAN /\ req' = [req EXCEPT ![t].cred = c]
    BY <1>2 DEF ParseHeader
  <2> HIDE DEF c
  <2>2. req' \in [Threads -> Requests]
    BY <1>2, <2>1, RequestTyped
  <2>3. req'[t].kind = req[t].kind /\ \A u \in Threads \ {t} : req'[u] = req[u]
    BY <2>1 DEF Requests
  <2>4. /\ pc' = [pc EXCEPT ![t] = IF LastHeader(line) THEN "answer" ELSE "header"]
        /\ UNCHANGED answer
    BY <1>2 DEF ParseHeader
  <2> QED BY <1>2, <2>2, <2>3, <2>4
<1> QED BY <1>1, <1>2

LEMMA ClientTypes ==
    ASSUME Typed, NEW t \in Threads, ClientThread(t)
    PROVE  Typed'
<1> USE DEF Typed, ServerTyped, ThreadsTyped, BuffersTyped, Order, Owns, thrOthers, srvVars
<1> USE ThreadCount
<1>0. Empty \in Buffers /\ <<>> \in Seq(Bytes) /\ Len(<<>>) = 0
  BY HttpAssumption DEF Empty, Buffers, Bytes
<1>1. CASE ThrStart(t)
  <2>1. arg[t] \in Threads /\ heap[arg[t]] \in Blocks
    BY <1>1 DEF ThrStart
  <2>2. heap' \in [Threads -> Blocks]
    BY <1>1, <2>1, HeapTyped DEF ThrStart, Blocks
  <2>3. alive' \in BOOLEAN
    BY <1>1 DEF ThrStart
  <2>4. lcfd' \in [Threads -> Fd]
    BY <1>1, <2>1 DEF ThrStart, Blocks
  <2> QED BY <1>1, <2>2, <2>3, <2>4 DEF ThrStart
<1>2. ASSUME NEW n \in 1 .. IO_BUFFER, ThrFill(t, n) PROVE Typed'
  <2>1. lcfd[t] \in Conns
    BY <1>2, UnreadTyped DEF ThrFill
  <2>2. n <= Len(text[lcfd[t]]) - taken[lcfd[t]] /\ n <= Len(Unread(lcfd[t]))
    BY <1>2, <2>1, UnreadTyped DEF ThrFill, Fd
  <2>3. /\ SubSeq(Unread(lcfd[t]), 1, n) \in Seq(Bytes)
        /\ Len(SubSeq(Unread(lcfd[t]), 1, n)) = n
    BY <2>2, UnreadTyped, HttpAssumption
  <2>4. iobuf' \in [Threads -> Buffers]
    <3>0. n <= IO_BUFFER
      BY HttpAssumption
    <3>1. PICK s \in Seq(Bytes) : s = SubSeq(Unread(lcfd[t]), 1, n) /\ Len(s) <= IO_BUFFER
      BY <2>3, <3>0, Zenon
    <3>2. Fill(s) \in Buffers
      BY <3>1, FillTyped
    <3> QED BY <1>2, <3>1, <3>2 DEF ThrFill
  <2>5. taken' \in [Conns -> Nat] /\ \A c \in Conns : taken'[c] <= Len(text[c])
    BY <1>2, <2>1, <2>2 DEF ThrFill
  <2> QED BY <1>2, <2>4, <2>5 DEF ThrFill
<1>3. CASE ThrTake(t)
  <2>1. iobuf[t] \in Buffers /\ iobuf[t].level > 0
    BY <1>3, TakeStep
  <2>2. /\ Count(iobuf[t], buffer[t]) \in 1 .. iobuf[t].level
        /\ Line(iobuf[t], buffer[t]) \in Seq(Bytes)
        /\ Ends(iobuf[t], buffer[t]) = {} => Len(Line(iobuf[t], buffer[t])) < LineMax
    BY <2>1, TakeTyped
  <2>3. iobuf' \in [Threads -> Buffers]
    <3>1. iobuf' = [iobuf EXCEPT ![t].level = @ - Count(iobuf[t], buffer[t])]
      BY <1>3, TakeStep
    <3>2. [iobuf EXCEPT ![t].level = @ - Count(iobuf[t], buffer[t])] \in [Threads -> Buffers]
      BY <2>2, LevelTyped
    <3> QED BY <3>1, <3>2
  <2>4. UNCHANGED <<conn, heap, text, taken, arg, lcfd, alive, srvVars>>
    BY <1>3, TakeStep
  <2>5. CASE buffer' = [buffer EXCEPT ![t] = <<>>]
             /\ \/ pc[t] = "request" /\ ParseRequest(t, Line(iobuf[t], buffer[t]))
                \/ pc[t] = "header" /\ ParseHeader(t, Line(iobuf[t], buffer[t]))
    <3>1. /\ pc' \in [Threads -> {"unborn", "start", "request", "header", "answer", "close", "done"}]
          /\ pc'[t] \in {"header", "answer", "close"} /\ \A u \in Threads \ {t} : pc'[u] = pc[u]
          /\ req' \in [Threads -> Requests] /\ \A u \in Threads \ {t} : req'[u] = req[u]
          /\ pc'[t] \in {"header", "answer"} => req'[t].kind \in Kinds
          /\ answer' \in [Threads -> Kinds \cup {"none", "400", "401", "404", "500", "501"}]
      BY <2>5, ParseTypes
    <3>2. buffer' \in [Threads -> Seq(Bytes)] /\ \A u \in Threads : Len(buffer'[u]) < LineMax
      BY <1>0, <2>5, HttpAssumption
    <3>3. pc[t] # "unborn"
      BY <2>5
    <3> QED BY <2>3, <2>4, <3>1, <3>2, <3>3
  <2>6. CASE /\ Ends(iobuf[t], buffer[t]) = {}
             /\ buffer' = [buffer EXCEPT ![t] = Line(iobuf[t], buffer[t])]
             /\ UNCHANGED <<pc, req, answer>>
    BY <2>2, <2>3, <2>4, <2>6
  <2> QED BY <1>3, <2>5, <2>6, TakeStep
<1>4. CASE ThrGivesUp(t)
  BY <1>0, <1>4, HttpAssumption DEF ThrGivesUp, Returns, Close, Reading
<1>5. CASE ThrSelectFails(t)
  BY <1>5 DEF ThrSelectFails, thrVars
<1>6. CASE ThrAnswer(t)
  <2>1. Answer(req[t]) \in Kinds \cup {"401", "404", "501"}
    BY <1>6 DEF ThrAnswer, Answer
  <2> QED BY <1>6, <2>1 DEF ThrAnswer
<1>7. CASE ThrClose(t)
  BY <1>0, <1>7, HttpAssumption DEF ThrClose, Returns, Close
<1> QED BY <1>1, <1>2, <1>3, <1>4, <1>5, <1>6, <1>7 DEF ClientThread

LEMMA NextTypes == ASSUME Typed, [HttpNext]_httpVars PROVE Typed'
<1>1. ASSUME SrvThread \/ SrvStop \/ \E c \in Conns, s \in Sockets : ClientConnects(c, s)
      PROVE  Typed'
  <2>1. BuffersTyped'
    BY <1>1, ServerFrame DEF Typed, BuffersTyped
  <2> QED BY <1>1, <2>1, ServerTypes DEF Typed
<1>2. CASE UNCHANGED httpVars
  BY <1>2 DEF httpVars, srvVars, thrVars, Typed, ServerTyped, ThreadsTyped, BuffersTyped, Order,
              Owns
<1> QED BY <1>1, <1>2, ClientTypes DEF HttpNext

-----------------------------------------------------------------------------
(* One thread for each connection. *)

\* A set that has not more than one element.
LEMMA NotTwo ==
    ASSUME NEW S, IsFiniteSet(S), ~(Cardinality(S) > 1), NEW s \in S, NEW r \in S
    PROVE  s = r
<1> SUFFICES ASSUME s # r PROVE FALSE
  OBVIOUS
<1>1. IsFiniteSet({s}) /\ Cardinality({s}) = 1
  BY FS_Singleton
<1>2. IsFiniteSet({s} \cup {r}) /\ Cardinality({s} \cup {r}) = 1 + 1
  <2>1. r \notin {s}
    OBVIOUS
  <2>2. Cardinality({s} \cup {r}) = Cardinality({s}) + 1 /\ IsFiniteSet({s} \cup {r})
    BY <1>1, <2>1, FS_AddElement
  <2> QED BY <1>1, <2>2
<1>3. {s} \cup {r} \in SUBSET S
  OBVIOUS
<1>4. Cardinality({s} \cup {r}) <= Cardinality(S) /\ Cardinality(S) \in Nat
  BY <1>3, FS_Subset, FS_CardinalityType
<1> QED BY <1>2, <1>4

LEMMA MallocAlone == ASSUME Typed, Alone, ~doubled, SrvMalloc PROVE Alone'
<1>1. pcfd + 1 \in Threads /\ pcfd' = pcfd + 1 /\ srvPc = "malloc" /\ srvPc' = "select"
  BY ThreadCount DEF SrvMalloc, Typed, ServerTyped
<1>2. UNCHANGED <<conn, backlog, ready, heap, pc, arg, lcfd, alive, doubled>>
  BY DEF SrvMalloc, thrVars, srvOthers
<1>3. BlockInv'
  BY <1>1, <1>2, ThreadCount DEF Alone, BlockInv, Owns, Typed, ServerTyped
<1>4. ConnInv'
  BY <1>1, <1>2 DEF Alone, ConnInv, Holds
<1>5. NobodyForgotten'
  BY <1>1, <1>2 DEF Alone, NobodyForgotten, Holds
<1> QED BY <1>2, <1>3, <1>4, <1>5 DEF Alone

LEMMA SelectAlone == ASSUME Typed, Alone, ~doubled, ~doubled', SrvSelect PROVE Alone'
<1>1. srvPc = "select" /\ srvPc' = "accept" /\ ready' \in SUBSET Sockets
  BY DEF SrvSelect
<1>2. UNCHANGED <<conn, backlog, pcfd, heap, pc, arg, lcfd, alive>>
  BY DEF SrvSelect, thrVars, srvOthers
<1>3. \A s, r \in ready' : s = r
  <2>1. ~(Cardinality(ready') > 1)
    BY DEF SrvSelect
  <2>2. IsFiniteSet(ready')
    BY <1>1, HttpAssumption, FS_Subset
  <2> QED BY <2>1, <2>2, NotTwo
<1>4. BlockInv'
  BY <1>1, <1>2, <1>3 DEF Alone, BlockInv, Owns
<1>5. ConnInv'
  BY <1>1, <1>2 DEF Alone, ConnInv, Holds
<1>6. NobodyForgotten'
  BY <1>1, <1>2 DEF Alone, NobodyForgotten, Holds
<1> QED BY <1>2, <1>4, <1>5, <1>6 DEF Alone

\* The thread in whose block server_thread stores has not been started.
LEMMA AcceptAlone ==
    ASSUME Typed, Alone, ~doubled, (\E c \in Conns : SrvAccept(c)) \/ SrvAcceptFails
    PROVE  Alone'
<1> USE DEF Typed, Alone, ServerTyped, ThreadsTyped
<1>1. /\ srvPc = "accept" /\ srvPc' = "create" /\ pcfd \in Threads
      /\ UNCHANGED <<ready, pcfd, pc, arg, lcfd, alive, doubled>>
  BY DEF SrvAccept, SrvAcceptFails, thrVars, srvOthers, Order, Owns
<1>2. \A b \in Threads : /\ heap'[b].freed = heap[b].freed
                         /\ b # pcfd => heap'[b].fd = heap[b].fd
  BY <1>1 DEF SrvAccept, SrvAcceptFails, Blocks
<1>3. \A t \in Threads : pc[t] = "start" => arg[t] \in Threads /\ arg[t] # pcfd
  BY <1>1 DEF BlockInv, Owns, Order
<1>4. \A t \in Threads : Holds(t)' = Holds(t)
  BY <1>1, <1>2, <1>3 DEF Holds
<1>5. BlockInv'
  <2>1. \A t \in Threads : pc[t] = "start" => ~heap'[arg[t]].freed
    BY <1>2, <1>3 DEF BlockInv
  <2> QED BY <1>1, <1>2, <2>1 DEF BlockInv, Owns
<1>6. ASSUME NEW c \in Conns, SrvAccept(c) PROVE ConnInv' /\ NobodyForgotten'
  <2>1. First \in Sockets
    BY <1>1, FirstIsReady DEF Order
  <2>2. /\ c \in backlog[First] /\ backlog' = [backlog EXCEPT ![First] = @ \ {c}]
        /\ conn' = [conn EXCEPT ![c] = "open"]
    BY <1>6 DEF SrvAccept
  <2>3. heap'[pcfd].fd = c
    BY <1>1, <1>6 DEF SrvAccept, Blocks
  <2>4. conn[c] = "backlog" /\ c # NoConn
    BY <2>1, <2>2, HttpAssumption DEF ConnInv
  <2>5. \A t \in Threads : Holds(t) # c
    BY <2>4 DEF ConnInv
  <2>6. /\ \A s \in Sockets, d \in Conns : d \in backlog'[s] => d # c /\ d \in backlog[s]
        /\ \A d \in Conns \ {c} : conn'[d] = conn[d]
        /\ conn'[c] = "open"
    BY <2>1, <2>2 DEF ConnInv
  <2>7. ConnInv'
    <3>1. \A s \in Sockets, d \in Conns : d \in backlog'[s] => conn'[d] = "backlog"
      BY <2>6 DEF ConnInv
    <3>2. \A s, r \in Sockets : s # r => backlog'[s] \cap backlog'[r] = {}
      BY <2>2 DEF ConnInv
    <3>3. \A t \in Threads : Holds(t)' \in Fd
      BY <1>3, <1>4 DEF Holds, Blocks
    <3>4. \A t \in Threads : Holds(t)' # NoConn =>
             conn'[Holds(t)'] = IF pc'[t] = "done" THEN "closed" ELSE "open"
      BY <1>1, <1>4, <2>5, <2>6, <3>3 DEF ConnInv, Fd
    <3> QED BY <1>1, <1>4, <2>3, <2>5, <2>6, <3>1, <3>2, <3>4 DEF ConnInv
  <2>8. NobodyForgotten'
    BY <1>1, <1>4, <2>3, <2>6 DEF NobodyForgotten
  <2> QED BY <2>7, <2>8
<1>7. ASSUME SrvAcceptFails PROVE ConnInv' /\ NobodyForgotten'
  <2>1. UNCHANGED <<conn, backlog>> /\ heap'[pcfd].fd = NoConn
    BY <1>1, <1>7 DEF SrvAcceptFails, Blocks
  <2>2. ConnInv'
    BY <1>1, <1>4, <2>1 DEF ConnInv
  <2>3. NobodyForgotten'
    BY <1>1, <1>4, <2>1 DEF NobodyForgotten
  <2> QED BY <2>2, <2>3
<1> QED BY <1>1, <1>5, <1>6, <1>7

LEMMA CreateAlone == ASSUME Typed, Alone, ~doubled, SrvCreate PROVE Alone'
<1> USE DEF Typed, Alone, ServerTyped, ThreadsTyped
<1>0. PICK t0 \in Threads : t0 = nthreads + 1
  BY ThreadCount DEF SrvCreate
<1>1. /\ srvPc = "create" /\ pcfd \in Threads /\ pc[t0] = "unborn"
      /\ UNCHANGED <<conn, backlog, pcfd, heap, lcfd, alive, doubled>>
  BY <1>0, ThreadCount DEF SrvCreate, NextSocket, srvOthers, Order, Owns
<1>2. pc' = [pc EXCEPT ![t0] = "start"] /\ arg' = [arg EXCEPT ![t0] = pcfd]
  BY <1>0 DEF SrvCreate
<1>3. ready' = {} /\ srvPc' = "malloc"
  <2>1. First \in ready
    BY <1>1, FirstIsReady DEF Order
  <2> QED BY <2>1 DEF SrvCreate, NextSocket, BlockInv
<1>4. Holds(t0)' = heap[pcfd].fd /\ Holds(t0) = NoConn
  BY <1>1, <1>2 DEF Holds, ConnInv
<1>5. \A t \in Threads \ {t0} : Holds(t)' = Holds(t) /\ pc'[t] = pc[t] /\ arg'[t] = arg[t]
  BY <1>1, <1>2 DEF Holds
<1>6. pc'[t0] = "start" /\ arg'[t0] = pcfd
  BY <1>1, <1>2
<1>7. BlockInv'
  <2>1. pcfd \in 1 .. pcfd
    BY <1>1, ThreadCount
  <2> QED BY <1>1, <1>3, <1>5, <1>6, <2>1 DEF BlockInv, Owns
<1>8. ConnInv'
  BY <1>1, <1>3, <1>4, <1>5, <1>6 DEF ConnInv
<1>9. NobodyForgotten'
  <2> SUFFICES ASSUME NEW c \in Conns, conn[c] = "open"
               PROVE  \E t \in Threads : pc'[t] \notin {"unborn", "done"} /\ Holds(t)' = c
    BY <1>1 DEF NobodyForgotten
  <2>1. CASE heap[pcfd].fd = c
    BY <1>1, <1>4, <1>6, <2>1
  <2>2. CASE heap[pcfd].fd # c
    <3>1. PICK t \in Threads : pc[t] \notin {"unborn", "done"} /\ Holds(t) = c
      BY <2>2 DEF NobodyForgotten
    <3> QED BY <1>1, <1>5, <3>1
  <2> QED BY <2>1, <2>2
<1> QED BY <1>1, <1>7, <1>8, <1>9

LEMMA CreateFailsAlone == ASSUME Typed, Alone, ~doubled, SrvCreateFails PROVE Alone'
<1> USE DEF Typed, Alone, ServerTyped, ThreadsTyped
<1> DEFINE c0 == heap[pcfd].fd
<1>1. /\ srvPc = "create" /\ pcfd \in Threads /\ c0 \in Fd
      /\ UNCHANGED <<backlog, pcfd, pc, arg, lcfd, alive, doubled>>
  BY DEF SrvCreateFails, NextSocket, thrVars, srvOthers, Order, Owns, Blocks
<1>2. ready' = {} /\ srvPc' = "malloc"
  <2>1. First \in ready
    BY <1>1, FirstIsReady DEF Order
  <2> QED BY <2>1 DEF SrvCreateFails, NextSocket, BlockInv
<1>3. \A d \in Conns : conn'[d] = IF d = c0 THEN "closed" ELSE conn[d]
  BY DEF SrvCreateFails, Close
<1>4. \A b \in Threads : /\ heap'[b].fd = heap[b].fd
                         /\ b # pcfd => heap'[b].freed = heap[b].freed
  BY <1>1 DEF SrvCreateFails, Blocks
<1>5. \A t \in Threads : pc[t] = "start" => arg[t] \in Threads /\ arg[t] # pcfd
  BY <1>1 DEF BlockInv, Owns, Order
<1>6. \A t \in Threads : Holds(t)' = Holds(t) /\ Holds(t) \in Fd
  BY <1>1, <1>4, <1>5 DEF Holds, Blocks
<1>7. c0 # NoConn => conn[c0] = "open" /\ \A t \in Threads : Holds(t) # c0
  BY <1>1 DEF ConnInv
<1> HIDE DEF c0
<1>8. BlockInv'
  <2>1. \A t \in Threads : pc[t] = "start" => ~heap'[arg[t]].freed
    BY <1>4, <1>5 DEF BlockInv
  <2>2. \A b \in Threads : b > pcfd => ~heap'[b].freed
    <3>1. pcfd \in Nat /\ \A b \in Threads : b \in Nat
      BY ThreadCount
    <3>2. \A b \in Threads : b > pcfd => b # pcfd
      BY <3>1
    <3> QED BY <1>4, <3>2 DEF BlockInv
  <2> QED BY <1>1, <1>2, <2>1, <2>2 DEF BlockInv, Owns
<1>9. ConnInv'
  <2>1. \A s \in Sockets, c \in Conns : c \in backlog[s] => conn'[c] = "backlog"
    BY <1>3, <1>7, HttpAssumption DEF ConnInv
  <2>2. \A t \in Threads : Holds(t) # NoConn =>
           conn'[Holds(t)] = IF pc[t] = "done" THEN "closed" ELSE "open"
    BY <1>3, <1>6, <1>7 DEF ConnInv, Fd
  <2> QED BY <1>1, <1>2, <1>6, <2>1, <2>2 DEF ConnInv
<1>10. NobodyForgotten'
  <2>1. \A c \in Conns : conn'[c] = "open" => conn[c] = "open" /\ c # c0
    BY <1>3
  <2> QED BY <1>1, <1>6, <2>1 DEF NobodyForgotten, c0
<1> QED BY <1>1, <1>8, <1>9, <1>10

LEMMA StopAlone == ASSUME Typed, Alone, ~doubled, SrvStop PROVE Alone'
<1> USE DEF Typed, Alone, ServerTyped, ThreadsTyped
<1>1. /\ srvPc \in {"select", "accept"} /\ srvPc' = "stopped" /\ ready' = {}
      /\ UNCHANGED <<pcfd, heap, pc, arg, lcfd, alive, doubled>>
  BY DEF SrvStop, thrVars, srvOthers
<1>2. /\ \A s \in Sockets : backlog'[s] = {}
      /\ \A c \in Conns : conn'[c] = IF conn[c] = "backlog" THEN "closed" ELSE conn[c]
  BY DEF SrvStop
<1>3. \A t \in Threads : Holds(t)' = Holds(t) /\ Holds(t) \in Fd
  BY <1>1 DEF Holds, Order, Blocks
<1>4. BlockInv'
  BY <1>1 DEF BlockInv, Owns
<1>5. ConnInv'
  BY <1>1, <1>2, <1>3 DEF ConnInv, Fd
<1>6. NobodyForgotten'
  BY <1>1, <1>2, <1>3 DEF NobodyForgotten
<1> QED BY <1>1, <1>4, <1>5, <1>6

LEMMA ConnectAlone ==
    ASSUME Typed, Alone, ~doubled, NEW c \in Conns, NEW s \in Sockets, ClientConnects(c, s)
    PROVE  Alone'
<1> USE DEF Typed, Alone, ServerTyped, ThreadsTyped
<1>1. /\ conn[c] = "away" /\ conn' = [conn EXCEPT ![c] = "backlog"]
      /\ backlog' = [backlog EXCEPT ![s] = @ \cup {c}]
      /\ UNCHANGED <<srvPc, ready, pcfd, heap, pc, arg, lcfd, alive, doubled>>
  BY DEF ClientConnects, thrVars
<1>2. \A t \in Threads : Holds(t)' = Holds(t) /\ Holds(t) \in Fd
  BY <1>1 DEF Holds, Order, Blocks
<1>3. BlockInv'
  BY <1>1 DEF BlockInv, Owns
<1>4. ConnInv'
  <2>1. \A r \in Sockets : c \notin backlog[r]
    BY <1>1 DEF ConnInv
  <2>2. \A r \in Sockets, d \in Conns : d \in backlog'[r] => conn'[d] = "backlog"
    BY <1>1 DEF ConnInv
  <2>3. \A q, r \in Sockets : q # r => backlog'[q] \cap backlog'[r] = {}
    BY <1>1, <2>1 DEF ConnInv
  <2>4. \A t \in Threads : Holds(t) # NoConn => Holds(t) # c /\ conn'[Holds(t)] = conn[Holds(t)]
    BY <1>1, <1>2 DEF ConnInv, Fd
  <2>5. srvPc = "create" /\ heap[pcfd].fd # NoConn =>
           conn'[heap[pcfd].fd] = "open" /\ \A t \in Threads : Holds(t) # heap[pcfd].fd
    BY <1>1 DEF ConnInv, Order, Owns, Blocks, Fd
  <2> QED BY <1>1, <1>2, <2>2, <2>3, <2>4, <2>5 DEF ConnInv
<1>5. NobodyForgotten'
  BY <1>1, <1>2 DEF NobodyForgotten
<1> QED BY <1>1, <1>3, <1>4, <1>5

\* The thread frees its block, which nobody else has, and takes over the connection.
LEMMA StartAlone ==
    ASSUME Typed, Alone, ~doubled, NEW t \in Threads, ThrStart(t)
    PROVE  Alone'
<1> USE DEF Typed, Alone, ServerTyped, ThreadsTyped
<1>1. pc[t] = "start" /\ arg[t] \in Threads /\ ~heap[arg[t]].freed /\ arg[t] \in 1 .. pcfd
  BY DEF ThrStart, Order, BlockInv
<1>2. /\ lcfd' = [lcfd EXCEPT ![t] = heap[arg[t]].fd]
      /\ pc' = [pc EXCEPT ![t] = "request"]
      /\ UNCHANGED <<conn, backlog, srvPc, ready, pcfd, arg, doubled>>
  BY DEF ThrStart, thrOthers, srvVars
<1>3. alive'
  BY <1>1 DEF ThrStart
<1>4. \A b \in Threads : /\ heap'[b].fd = heap[b].fd
                         /\ b # arg[t] => heap'[b].freed = heap[b].freed
  BY <1>1 DEF ThrStart, Blocks
<1>5. \A u \in Threads : Holds(u)' = Holds(u)
  BY <1>1, <1>2, <1>4 DEF Holds, Order
<1>6. \A u \in Threads \ {t} : pc'[u] = pc[u] /\ lcfd'[u] = lcfd[u]
  BY <1>2
<1>7. pc'[t] = "request"
  BY <1>2
<1>8. BlockInv'
  <2>1. Owns' = Owns /\ (Owns => arg[t] # pcfd /\ pcfd \in Threads)
    BY <1>1, <1>2 DEF Owns, BlockInv, Order
  <2>2. \A b \in Threads : b > pcfd => b # arg[t]
    BY <1>1, ThreadCount
  <2>3. \A u \in Threads : pc'[u] = "start" => ~heap'[arg[u]].freed
    BY <1>1, <1>4, <1>6, <1>7 DEF BlockInv, Order
  <2>4. \A u \in Threads : pc'[u] # "unborn" => pc[u] # "unborn"
    BY <1>1, <1>6
  <2> QED BY <1>2, <1>4, <2>1, <2>2, <2>3, <2>4 DEF BlockInv
<1>9. ConnInv'
  <2>1. srvPc = "create" => pcfd \in Threads
    BY DEF Order, Owns
  <2> QED BY <1>1, <1>2, <1>4, <1>5, <1>6, <1>7, <2>1 DEF ConnInv
<1>10. NobodyForgotten'
  <2>1. srvPc = "create" => pcfd \in Threads
    BY DEF Order, Owns
  <2>2. \A u \in Threads : pc[u] \notin {"unborn", "done"} => pc'[u] \notin {"unborn", "done"}
    BY <1>6, <1>7
  <2> QED BY <1>2, <1>4, <1>5, <2>1, <2>2 DEF NobodyForgotten
<1> QED BY <1>3, <1>8, <1>9, <1>10

\* Reading and answering change neither blocks nor connections.
Going == {"request", "header", "answer", "close"}
LEMMA GoingAlone ==
    ASSUME Typed, Alone, ~doubled, NEW t \in Threads,
           (\E n \in 1 .. IO_BUFFER : ThrFill(t, n)) \/ ThrTake(t) \/ ThrAnswer(t)
    PROVE  Alone'
<1> USE DEF Typed, Alone
<1>1. UNCHANGED <<conn, heap, arg, lcfd, alive, backlog, srvPc, ready, pcfd, doubled>>
  BY TakeStep DEF ThrFill, ThrAnswer, thrOthers, srvVars
<1>2. pc[t] \in Going /\ pc'[t] \in Going /\ \A u \in Threads \ {t} : pc'[u] = pc[u]
  <2>1. ASSUME NEW n \in 1 .. IO_BUFFER, ThrFill(t, n)
        PROVE  pc[t] \in Going /\ pc'[t] \in Going /\ \A u \in Threads \ {t} : pc'[u] = pc[u]
    BY <2>1 DEF ThrFill, Reading, Going
  <2>2. CASE ThrTake(t)
    <3>1. Reading(t)
      BY <2>2, TakeStep
    <3>2. CASE UNCHANGED pc
      BY <3>1, <3>2 DEF Reading, Going
    <3>3. CASE \/ pc[t] = "request" /\ ParseRequest(t, Line(iobuf[t], buffer[t]))
               \/ pc[t] = "header" /\ ParseHeader(t, Line(iobuf[t], buffer[t]))
      <4>1. pc[t] = "header" => req[t].kind \in Kinds
        BY DEF Order
      <4> QED BY <3>1, <3>3, <4>1, ParseTypes DEF Reading, Going
    <3> QED BY <2>2, <3>2, <3>3, TakeStep
  <2>3. CASE ThrAnswer(t)
    BY <2>3 DEF ThrAnswer, Going, ThreadsTyped
  <2> QED BY <2>1, <2>2, <2>3
<1>3. \A u \in Threads : Holds(u)' = Holds(u)
  BY <1>1, <1>2 DEF Holds, Going
<1>4. \A u \in Threads : \A p \in {"unborn", "start", "done"} : pc'[u] = p <=> pc[u] = p
  BY <1>2 DEF Going
<1>5. BlockInv'
  BY <1>1, <1>4 DEF BlockInv, Owns
<1>6. ConnInv'
  BY <1>1, <1>3, <1>4 DEF ConnInv
<1>7. NobodyForgotten'
  BY <1>1, <1>3, <1>4 DEF NobodyForgotten
<1> QED BY <1>1, <1>5, <1>6, <1>7

\* The connection that a thread closes is nobody else's.
LEMMA ReturnAlone ==
    ASSUME Typed, Alone, ~doubled, NEW t \in Threads, ThrGivesUp(t) \/ ThrClose(t)
    PROVE  Alone'
<1> USE DEF Typed, Alone, ServerTyped, ThreadsTyped
<1>1. /\ UNCHANGED <<heap, arg, lcfd, alive, backlog, srvPc, ready, pcfd, doubled>>
      /\ pc[t] \in Going
  BY DEF ThrGivesUp, ThrClose, thrOthers, srvVars, Reading, Going
<1>2. pc'[t] = "done" /\ \A u \in Threads \ {t} : pc'[u] = pc[u]
  BY DEF ThrGivesUp, ThrClose, Returns
<1>3. \A d \in Conns : conn'[d] = IF d = lcfd[t] THEN "closed" ELSE conn[d]
  BY DEF ThrGivesUp, ThrClose, Close
<1>4. Holds(t) = lcfd[t]
  BY <1>1 DEF Holds, Going
<1>5. \A u \in Threads : Holds(u)' = Holds(u) /\ Holds(u) \in Fd
  BY <1>1, <1>2 DEF Holds, Going, Order, Blocks
<1>6. lcfd[t] \in Conns => conn[lcfd[t]] = "open"
  <2>1. lcfd[t] \in Conns => Holds(t) # NoConn
    BY <1>4, HttpAssumption
  <2> QED BY <1>1, <1>4, <2>1 DEF ConnInv, Going
<1>7. BlockInv'
  BY <1>1, <1>2 DEF BlockInv, Owns, Going
<1>8. ConnInv'
  <2>1. \A s \in Sockets, d \in Conns : d \in backlog[s] => conn'[d] = "backlog"
    BY <1>3, <1>6 DEF ConnInv
  <2>2. \A u \in Threads : Holds(u) # NoConn =>
           conn'[Holds(u)] = IF pc'[u] = "done" THEN "closed" ELSE "open"
    <3> SUFFICES ASSUME NEW u \in Threads, Holds(u) # NoConn
                 PROVE  conn'[Holds(u)] = IF pc'[u] = "done" THEN "closed" ELSE "open"
      OBVIOUS
    <3>1. CASE u = t
      BY <1>2, <1>3, <1>4, <1>5, <3>1 DEF Fd
    <3>2. CASE u # t
      BY <1>2, <1>3, <1>4, <1>5, <3>2 DEF Fd, ConnInv
    <3> QED BY <3>1, <3>2
  <2>3. srvPc = "create" /\ heap[pcfd].fd # NoConn =>
           conn'[heap[pcfd].fd] = "open" /\ \A u \in Threads : Holds(u) # heap[pcfd].fd
    BY <1>3, <1>4 DEF ConnInv, Order, Owns, Blocks, Fd
  <2>4. \A u \in Threads : pc'[u] \in {"unborn", "start"} => pc[u] \in {"unborn", "start"}
    BY <1>2
  <2> QED BY <1>1, <1>5, <2>1, <2>2, <2>3, <2>4 DEF ConnInv
<1>9. NobodyForgotten'
  <2>1. \A c \in Conns : conn'[c] = "open" => conn[c] = "open" /\ c # Holds(t)
    BY <1>3, <1>4
  <2> QED BY <1>1, <1>2, <1>5, <2>1 DEF NobodyForgotten
<1> QED BY <1>1, <1>7, <1>8, <1>9

\* So select never finds that another thread closed the connection.
LEMMA SelectWorks == ASSUME Typed, Alone, NEW t \in Threads PROVE ~ThrSelectFails(t)
<1>1. ASSUME Reading(t) PROVE Usable(lcfd[t])
  <2>1. Holds(t) = lcfd[t] /\ lcfd[t] \in Fd
    BY <1>1 DEF Reading, Holds, Typed, ThreadsTyped
  <2> QED BY <1>1, <2>1 DEF Reading, Usable, Alone, ConnInv, Fd
<1> QED BY <1>1 DEF ThrSelectFails

\* Once select has reported two sockets, that is remembered.
LEMMA StaysDoubled == ASSUME [HttpNext]_httpVars, ~doubled' PROVE ~doubled
<1>1. ASSUME SrvSelect PROVE ~doubled
  BY <1>1 DEF SrvSelect
<1>2. ASSUME NEW t \in Threads, ClientThread(t) PROVE doubled' = doubled
  BY <1>2 DEF ClientThread, ThrStart, ThrFill, ThrTake, ThrGivesUp, ThrSelectFails, ThrAnswer,
              ThrClose, thrOthers, srvVars
<1>3. ASSUME SrvThread \/ SrvStop \/ \E c \in Conns, s \in Sockets : ClientConnects(c, s),
             ~SrvSelect
      PROVE  doubled' = doubled
  BY <1>3 DEF SrvThread, SrvMalloc, SrvAccept, SrvAcceptFails, SrvCreate, SrvCreateFails,
              SrvStop, ClientConnects
<1>4. CASE UNCHANGED httpVars
  BY <1>4 DEF httpVars, srvVars
<1> QED BY <1>1, <1>2, <1>3, <1>4 DEF HttpNext

LEMMA NextAlone == ASSUME IInv, [HttpNext]_httpVars, ~doubled' PROVE Alone'
<1>1. ~doubled
  BY StaysDoubled
<1>2. Typed /\ Alone
  BY <1>1 DEF IInv, Typed
<1>3. ASSUME NEW t \in Threads, ClientThread(t) PROVE Alone'
  BY <1>1, <1>2, <1>3, StartAlone, GoingAlone, ReturnAlone, SelectWorks DEF ClientThread
<1>4. ASSUME SrvThread PROVE Alone'
  BY <1>1, <1>2, <1>4, MallocAlone, SelectAlone, AcceptAlone, CreateAlone, CreateFailsAlone
  DEF SrvThread
<1>5. CASE UNCHANGED httpVars
  BY <1>2, <1>5 DEF httpVars, srvVars, thrVars, Alone, BlockInv, ConnInv, NobodyForgotten, Holds,
                    Owns
<1> QED BY <1>1, <1>2, <1>3, <1>4, <1>5, StopAlone, ConnectAlone DEF HttpNext

-----------------------------------------------------------------------------
LEMMA InitIInv == ASSUME HttpInit PROVE IInv
<1> USE ThreadCount DEF HttpInit
<1>1. ServerTyped
  <2>1. heap \in [Threads -> Blocks]
    BY DEF Blocks, Fd
  <2>2. 0 \in 0 .. MaxThreads
    OBVIOUS
  <2>3. backlog \in [Sockets -> SUBSET Conns] /\ ready \in SUBSET Sockets
    OBVIOUS
  <2> QED BY <2>1, <2>2, <2>3 DEF ServerTyped
<1>2. ThreadsTyped
  <2>1. NoRequest \in Requests
    BY DEF NoRequest, Requests
  <2> QED BY <2>1 DEF ThreadsTyped, Fd
<1>3. BuffersTyped
  <2>1. Empty \in Buffers /\ <<>> \in Seq(Bytes) /\ Len(<<>>) = 0
    BY HttpAssumption DEF Empty, Buffers, Bytes
  <2>2. text \in [Conns -> Seq(Tokens)]
    BY HttpAssumption
  <2>3. \A c \in Conns : text[c] \in Seq(Bytes) /\ Len(text[c]) \in Nat
    BY <2>2 DEF Bytes
  <2>4. text \in [Conns -> Seq(Bytes)]
    BY <2>2, <2>3
  <2> QED BY <2>1, <2>3, <2>4, HttpAssumption DEF BuffersTyped
<1>4. Order
  BY DEF Order, Owns
<1>5. Alone
  <2>1. \A t \in Threads : Holds(t) = NoConn
    BY DEF Holds
  <2> QED BY <2>1 DEF Alone, BlockInv, ConnInv, NobodyForgotten, Owns
<1> QED BY <1>1, <1>2, <1>3, <1>4, <1>5 DEF IInv

\* The inductive invariant.
THEOREM HttpInvariance == HttpSpec => []IInv
<1>1. HttpInit => IInv
  BY InitIInv
<1>2. IInv /\ [HttpNext]_httpVars => IInv'
  BY NextTypes, NextAlone DEF IInv, Typed
<1> QED BY <1>1, <1>2, PTL DEF HttpSpec

\* The type invariant: _read never holds more than its buffer, and _readline never
\* writes past its line, however long the lines are that the clients send.
THEOREM HttpTypeCorrect == HttpSpec => []HttpTypeOK
<1>1. IInv => HttpTypeOK
  <2> SUFFICES ASSUME IInv PROVE HttpTypeOK
    OBVIOUS
  <2>1. \A c \in Conns : taken[c] \in 0 .. Len(text[c])
    BY DEF IInv, BuffersTyped
  <2>2. \A t \in Threads : iobuf[t].level \in 0 .. IO_BUFFER /\ Len(buffer[t]) < LineMax
    BY DEF IInv, BuffersTyped, Buffers
  <2> QED BY <2>1, <2>2 DEF IInv, ServerTyped, ThreadsTyped, HttpTypeOK, Fd
<1> QED BY <1>1, HttpInvariance, PTL

\* Until one select reports two sockets, every connection has a thread of its own and
\* every block is freed once, however late the threads get to copy their blocks.
THEOREM EachHasItsThread == HttpSpec => []OneThreadEach
<1>1. IInv => OneThreadEach
  <2> SUFFICES ASSUME IInv, ~doubled,
                      NEW t \in Threads, NEW u \in Threads, t # u, lcfd[t] = lcfd[u]
               PROVE  lcfd[t] = NoConn
    BY DEF OneThreadEach, IInv, Alone
  <2>1. CASE pc[t] = "start" \/ pc[u] = "start"
    BY <2>1 DEF IInv, Alone, ConnInv
  <2>2. CASE pc[t] # "start" /\ pc[u] # "start"
    BY <2>2 DEF IInv, Alone, ConnInv, Holds
  <2> QED BY <2>1, <2>2
<1> QED BY <1>1, HttpInvariance, PTL

\* As long as a connection is open, somebody is going to close it.
THEOREM NobodyIsForgotten == HttpSpec => []NobodyForgotten
<1>1. IInv => NobodyForgotten
  BY DEF IInv, Alone, NobodyForgotten
<1> QED BY <1>1, HttpInvariance, PTL
-----------------------------------------------------------------------------
(***************************************************************************)
(* What the threads make of the texts.  A thread has taken some of its     *)
(* client's text, of which the last bytes are in iobuf and the ones before *)
(* in the line it is reading; that line begins where a line of the text    *)
(* does, and no line has ended since.                                      *)
(***************************************************************************)
Piece(s, p, h) == p + Len(h) <= Len(s) /\ \A i \in 1 .. Len(h) : h[i] = s[p + i]
Begins(s, b) == b # 0 => b \in LineEnds(s)
Partial(s, b, p) == Begins(s, b) /\ \A j \in b + 1 .. p : j \notin LineEnds(s)
LineFrom(s, b, q) ==
    b < q /\ q \in LineEnds(s) /\ Begins(s, b) /\ \A j \in b + 1 .. q - 1 : j \notin LineEnds(s)

Reads(s, took, io, line) ==
    LET p == took - io.level
        b == p - Len(line)
    IN  /\ b \in Nat /\ took <= Len(s)
        /\ Piece(s, p, Held(io)) /\ Piece(s, b, line)
        /\ Partial(s, b, p)

\* What it has made of the lines up to b: the first is a request, no other was the last
\* header, and it knows the credentials among them.
FirstKinds(s) == ToSet(LineAt(s, Min(LineEnds(s)))) \cap Kinds
Heard(s, b, place, r) ==
    /\ place = "request" => b = 0 /\ ~r.cred
    /\ place = "header" =>
          /\ b \in LineEnds(s)
          /\ FirstKinds(s) # {} /\ "badcommand" \notin FirstKinds(s)
          /\ r.kind = CHOOSE k \in FirstKinds(s) : TRUE
          /\ \A e \in LineEnds(s) : Min(LineEnds(s)) < e /\ e <= b => ~(Len(LineAt(s, e)) <= 2)
          /\ r.cred <=> Credentials(s, b)

Begun(t) == taken[lcfd[t]] - iobuf[t].level - Len(buffer[t])
ReadInv(t) ==
    /\ Reads(text[lcfd[t]], taken[lcfd[t]], iobuf[t], buffer[t])
    /\ Heard(text[lcfd[t]], Begun(t), pc[t], req[t])

\* A thread without a connection reads nothing, and one that has not begun has not
\* read anything.
Fresh(t) == iobuf[t].level = 0 /\ buffer[t] = <<>> /\ ~req[t].cred /\ answer[t] = "none"

ThreadText(t) ==
    /\ pc[t] \in {"unborn", "start"} => Fresh(t)
    /\ lcfd[t] = NoConn => Fresh(t) /\ pc[t] \in {"unborn", "start", "request", "done"}
    /\ Reading(t) => answer[t] = "none" /\ (lcfd[t] # NoConn => ReadInv(t))
    /\ pc[t] = "answer" => answer[t] = "none" /\ Answer(req[t]) = Owed(text[lcfd[t]])
    /\ answer[t] # "none" => answer[t] = Owed(text[lcfd[t]])

TextInv ==
    /\ \A c \in Conns : taken[c] # 0 => \E t \in Threads : lcfd[t] = c
    /\ \A t \in Threads : ThreadText(t)
-----------------------------------------------------------------------------
(* The lines of a text *)

\* Adding a multiple of n does not change the remainder.
LEMMA Remainder ==
    ASSUME NEW n \in Nat \ {0}, NEW m \in Int, NEW r \in 0 .. n - 1
    PROVE  (n * m + r) % n = r
OBVIOUS

LEMMA Multiples ==
    ASSUME NEW a \in Nat, NEW d \in Nat, NEW n \in Nat \ {0}, a % n = 0
    PROVE  (a + d) % n = d % n
<1>1. n \in Int /\ n > 0 /\ a \in Int /\ d \in Int
  OBVIOUS
<1>2. PICK k \in Int : a = n * k
  BY <1>1
<1>3. PICK q \in Int, r \in Int : q = d \div n /\ r = d % n
  BY <1>1
<1>4. d = n * q + r
  BY <1>1, <1>3
<1>5. r \in 0 .. n - 1
  BY <1>1, <1>3
<1>6. a + d = n * (k + q) + r
  BY <1>1, <1>2, <1>4, <1>5
<1>7. PICK m \in Int : m = k + q
  OBVIOUS
<1>8. (n * m + r) % n = r
  BY <1>5, Remainder
<1> QED BY <1>3, <1>6, <1>7, <1>8

LEMMA Below ==
    ASSUME NEW d \in Nat, NEW n \in Nat \ {0}, 0 < d, d <= n
    PROVE  d % n = 0 <=> d = n
OBVIOUS

\* The first line end after another, or after the start of the text, is a LF or LineMax
\* bytes away: how _readline, which counts from where it started, finds it.
LEMMA NextEnd ==
    ASSUME NEW s \in Seq(Bytes), NEW b \in Nat, b # 0 => b \in LineEnds(s),
           NEW q \in 1 .. Len(s), b < q, \A j \in b + 1 .. q - 1 : j \notin LineEnds(s)
    PROVE  q \in LineEnds(s) <=> s[q] = LF \/ q - b = LineMax
<1> DEFINE From(l, j) == /\ l = 0 \/ s[l] = LF
                         /\ \A k \in l + 1 .. j - 1 : s[k] # LF
<1>a. LineMax \in Nat \ {0} /\ Len(s) \in Nat /\ q \in Nat
  BY HttpAssumption
<1>b. \A j \in 1 .. Len(s) : j \in LineEnds(s) <=>
         s[j] = LF \/ \E l \in 0 .. j - 1 : From(l, j) /\ (j - l) % LineMax = 0
  BY DEF LineEnds
<1>1. \A k \in b + 1 .. q - 1 : s[k] # LF
  BY <1>a, <1>b
<1>2. PICK l \in 0 .. b : From(l, q) /\ (b - l) % LineMax = 0
  <2>1. CASE b = 0
    <3>1. From(0, q) /\ (b - 0) % LineMax = 0
      BY <1>1, <1>a, <2>1
    <3> QED BY <2>1, <3>1
  <2>2. CASE b # 0 /\ s[b] = LF
    <3>1. From(b, q) /\ (b - b) % LineMax = 0
      BY <1>1, <1>a, <2>2
    <3> QED BY <3>1
  <2>3. CASE b # 0 /\ s[b] # LF
    <3>1. b \in 1 .. Len(s)
      BY <1>a, <2>3
    <3>2. PICK l \in 0 .. b - 1 : From(l, b) /\ (b - l) % LineMax = 0
      BY <1>b, <2>3, <3>1
    <3>3. From(l, q)
      BY <1>1, <1>a, <2>3, <3>2
    <3> QED BY <3>2, <3>3
  <2> QED BY <2>1, <2>2, <2>3
<1>3. \A m \in 0 .. q - 1 : From(m, q) => m = l
  <2> SUFFICES ASSUME NEW m \in 0 .. q - 1, From(m, q), m # l PROVE FALSE
    OBVIOUS
  <2>1. CASE m < l
    BY <1>a, <1>2, <2>1
  <2>2. CASE l < m
    BY <1>a, <1>2, <2>2
  <2> QED BY <1>a, <1>2, <2>1, <2>2
<1> HIDE DEF From
<1>4. q \in LineEnds(s) <=> s[q] = LF \/ (q - l) % LineMax = 0
  <2>1. l \in 0 .. q - 1
    BY <1>a, <1>2
  <2> QED BY <1>b, <1>2, <1>3, <2>1
<1>5. \A j \in Nat : j >= b => (j - l) % LineMax = (j - b) % LineMax
  <2> SUFFICES ASSUME NEW j \in Nat, j >= b PROVE (j - l) % LineMax = (j - b) % LineMax
    OBVIOUS
  <2>1. PICK a \in Nat, d \in Nat : a = b - l /\ d = j - b
    BY <1>2
  <2>2. a % LineMax = 0
    BY <1>2, <2>1
  <2>3. (a + d) % LineMax = d % LineMax
    BY <1>a, <2>2, Multiples
  <2>4. a + d = j - l
    BY <1>2, <2>1
  <2> QED BY <2>1, <2>3, <2>4
<1>6. q - b <= LineMax
  <2> SUFFICES ASSUME q - b > LineMax PROVE FALSE
    BY <1>a
  <2>1. PICK j \in Nat : j = b + LineMax /\ j \in b + 1 .. q - 1 /\ j \in 1 .. Len(s)
    BY <1>a
  <2>2. (j - l) % LineMax = 0
    <3>1. j >= b /\ j - b = LineMax
      BY <1>a, <2>1
    <3>2. LineMax % LineMax = 0
      BY <1>a
    <3>3. (j - l) % LineMax = (j - b) % LineMax
      BY <1>5, <3>1
    <3> QED BY <3>1, <3>2, <3>3
  <2>3. From(l, j) /\ l \in 0 .. j - 1
    BY <1>a, <1>2, <2>1 DEF From
  <2>4. j \in LineEnds(s)
    BY <1>b, <2>1, <2>2, <2>3
  <2> QED BY <2>1, <2>4
<1>7. (q - l) % LineMax = 0 <=> q - b = LineMax
  <2>1. PICK d \in Nat : d = q - b /\ 0 < d /\ d <= LineMax
    BY <1>a, <1>6
  <2>2. (q - l) % LineMax = d % LineMax
    BY <1>a, <1>5, <2>1
  <2>3. d % LineMax = 0 <=> d = LineMax
    BY <1>a, <2>1, Below
  <2> QED BY <2>1, <2>2, <2>3
<1> QED BY <1>4, <1>7

\* Bytes that end no line, seen from where the line began.
LEMMA NoEnd ==
    ASSUME NEW s \in Seq(Bytes), NEW b \in Nat, b # 0 => b \in LineEnds(s),
           NEW m \in Nat, m <= Len(s), \A j \in b + 1 .. m : s[j] # LF /\ j - b # LineMax
    PROVE  \A j \in b + 1 .. m : j \notin LineEnds(s)
<1> DEFINE S == {j \in b + 1 .. m : j \in LineEnds(s)}
<1> SUFFICES ASSUME S # {} PROVE FALSE
  OBVIOUS
<1>1. S \in SUBSET Nat
  OBVIOUS
<1>2. Min(S) \in S /\ \A j \in S : Min(S) <= j
  BY <1>1, LeastNumber
<1>3. PICK q \in S : \A j \in S : q <= j
  BY <1>2
<1>4. q \in 1 .. Len(s) /\ b < q /\ q \in b + 1 .. m
  BY <1>3
<1>5. \A j \in b + 1 .. q - 1 : j \notin LineEnds(s)
  BY <1>3, <1>4
<1>6. q \in LineEnds(s) <=> s[q] = LF \/ q - b = LineMax
  BY <1>4, <1>5, NextEnd
<1> QED BY <1>3, <1>4, <1>6

\* The line that ends at q began at the line end before q.
LEMMA LineIs ==
    ASSUME NEW s \in Seq(Bytes), NEW b \in Nat, NEW q \in Nat, LineFrom(s, b, q)
    PROVE  LineAt(s, q) = SubSeq(s, b + 1, q)
<1> DEFINE B == {0} \cup {f \in LineEnds(s) : f < q}
<1>1. LineEnds(s) \in SUBSET Nat
  BY DEF LineEnds
<1>2. B \in SUBSET Nat /\ b \in B /\ \A f \in B : f <= b
  BY <1>1 DEF LineFrom, Begins
<1>3. Max(B) = b
  BY <1>2, Greatest
<1> QED BY <1>3 DEF LineAt


-----------------------------------------------------------------------------
(* Reading a text *)

LEMMA HeldTyped ==
    ASSUME NEW io \in Buffers
    PROVE  /\ io.level \in Nat /\ io.level <= IO_BUFFER
           /\ Held(io) \in Seq(Bytes) /\ Len(Held(io)) = io.level /\ DOMAIN Held(io) = 1 .. io.level
<1>1. io.level \in 0 .. IO_BUFFER /\ io.bytes \in [0 .. IO_BUFFER - 1 -> Bytes] /\ io.level \in Nat
  BY HttpAssumption DEF Buffers
<1>2. \A i \in 1 .. io.level : IO_BUFFER - io.level + i - 1 \in 0 .. IO_BUFFER - 1
  BY <1>1, HttpAssumption
<1>3. Held(io) \in [1 .. io.level -> Bytes]
  BY <1>1, <1>2 DEF Held
<1> QED BY <1>1, <1>3, HttpAssumption

\* What is left in the buffer is what follows.
LEMMA HeldRest ==
    ASSUME NEW io \in Buffers, NEW n \in Nat, n <= io.level
    PROVE  /\ [io EXCEPT !.level = io.level - n].level = io.level - n
           /\ \A i \in 1 .. io.level - n :
                 Held([io EXCEPT !.level = io.level - n])[i] = Held(io)[n + i]
<1>1. io.level \in Nat /\ IO_BUFFER \in Nat
  BY HeldTyped, HttpAssumption
<1>2. /\ [io EXCEPT !.level = io.level - n].level = io.level - n
      /\ [io EXCEPT !.level = io.level - n].bytes = io.bytes
  BY DEF Buffers
<1>3. ASSUME NEW i \in 1 .. io.level - n
      PROVE  Held([io EXCEPT !.level = io.level - n])[i] = Held(io)[n + i]
  <2>1. n + i \in 1 .. io.level
    BY <1>1
  <2>2. Held(io)[n + i] = io.bytes[IO_BUFFER - io.level + (n + i) - 1]
    BY <2>1 DEF Held
  <2>3. Held([io EXCEPT !.level = io.level - n])[i] = io.bytes[IO_BUFFER - (io.level - n) + i - 1]
    BY <1>2 DEF Held
  <2>4. IO_BUFFER - (io.level - n) + i - 1 = IO_BUFFER - io.level + (n + i) - 1
    BY <1>1
  <2> QED BY <2>2, <2>3, <2>4
<1> QED BY <1>2, <1>3

\* Bytes h that follow the m bytes of a line that has begun: the first that ends a line
\* is a LF or makes it full.
EndsAt(h, m, i) == h[i] = LF \/ m + i = LineMax
NoneBefore(h, m, n) == \A i \in 1 .. n - 1 : ~EndsAt(h, m, i)

LEMMA NextByte ==
    ASSUME NEW b \in Nat, NEW p \in Nat, NEW m \in Nat, NEW l \in Nat, NEW n \in 1 .. l,
           NEW k \in Nat, p = b + m, p + l <= k
    PROVE  /\ p + n \in 1 .. k /\ b < p + n /\ (p + n) - b = m + n
           /\ p + n - 1 \in Nat /\ p + n - 1 <= k
OBVIOUS

LEMMA Scan ==
    ASSUME NEW s \in Seq(Bytes), NEW h \in Seq(Bytes), NEW b \in Nat, NEW p \in Nat,
           NEW m \in Nat, p = b + m, m < LineMax, Piece(s, p, h), Partial(s, b, p),
           NEW n \in 1 .. Len(h), NoneBefore(h, m, n)
    PROVE  /\ EndsAt(h, m, n) => LineFrom(s, b, p + n)
           /\ ~EndsAt(h, m, n) => Partial(s, b, p + n)
<1>0. /\ b <= p /\ p + Len(h) <= Len(s) /\ p - b = m /\ m < LineMax
      /\ \A i \in 1 .. Len(h) : h[i] = s[p + i]
      /\ b # 0 => b \in LineEnds(s)
      /\ \A j \in b + 1 .. p : j \notin LineEnds(s)
      /\ \A i \in 1 .. n - 1 : h[i] # LF /\ m + i # LineMax
      /\ EndsAt(h, m, n) <=> h[n] = LF \/ m + n = LineMax
  BY DEF Piece, Partial, Begins, NoneBefore, EndsAt
<1>1. n \in Nat /\ Len(h) \in Nat /\ Len(s) \in Nat /\ LineMax \in Nat
  BY HttpAssumption
<1>a. /\ p + n \in 1 .. Len(s) /\ b < p + n /\ (p + n) - b = m + n
      /\ p + n - 1 \in Nat /\ p + n - 1 <= Len(s)
  BY <1>0, <1>1, NextByte
<1>2. PICK k \in Nat : k = p + n - 1 /\ k <= Len(s)
  BY <1>a
<1>3. \A j \in b + 1 .. k : s[j] # LF /\ j - b # LineMax
  <2> SUFFICES ASSUME NEW j \in b + 1 .. k PROVE s[j] # LF /\ j - b # LineMax
    OBVIOUS
  <2>1. CASE j <= p
    <3>1. j \in 1 .. Len(s) /\ j - b < LineMax /\ j \notin LineEnds(s)
      BY <1>0, <1>1, <1>2, <2>1
    <3> QED BY <1>1, <3>1 DEF LineEnds
  <2>2. CASE j > p
    <3>1. PICK i \in 1 .. n - 1 : i = j - p
      BY <1>1, <1>2, <2>2
    <3>2. i \in 1 .. Len(h) /\ p + i = j /\ m + i = j - b
      BY <1>0, <1>1, <3>1
    <3> QED BY <1>0, <3>2
  <2> QED BY <2>1, <2>2
<1>4. \A j \in b + 1 .. k : j \notin LineEnds(s)
  BY <1>0, <1>2, <1>3, NoEnd
<1>5. PICK q \in 1 .. Len(s) : q = p + n /\ q - 1 = k /\ b < q /\ q - b = m + n
  BY <1>2, <1>a
<1>6. q \in LineEnds(s) <=> s[q] = LF \/ q - b = LineMax
  BY <1>0, <1>4, <1>5, NextEnd
<1>7. s[q] = h[n]
  BY <1>0, <1>5
<1>8. q \in LineEnds(s) <=> EndsAt(h, m, n)
  BY <1>0, <1>5, <1>6, <1>7
<1>9. \A j \in b + 1 .. q : j \in b + 1 .. k \/ j = q
  BY <1>5
<1> QED BY <1>0, <1>4, <1>5, <1>8, <1>9 DEF LineFrom, Partial, Begins

LEMMA SameBytes ==
    ASSUME NEW f \in Seq(Bytes), NEW g \in Seq(Bytes), Len(f) = Len(g),
           \A i \in 1 .. Len(f) : f[i] = g[i]
    PROVE  f = g
OBVIOUS

LEMMA PieceOf ==
    ASSUME NEW s \in Seq(Bytes), NEW b \in Nat, NEW k \in Nat, b <= k, k <= Len(s)
    PROVE  /\ SubSeq(s, b + 1, k) \in Seq(Bytes) /\ Len(SubSeq(s, b + 1, k)) = k - b
           /\ \A i \in 1 .. k - b : SubSeq(s, b + 1, k)[i] = s[b + i]
OBVIOUS

\* A line and the n bytes that follow it are one piece of the text.
LEMMA Joined ==
    ASSUME NEW s \in Seq(Bytes), NEW line \in Seq(Bytes), NEW h \in Seq(Bytes),
           NEW b \in Nat, NEW p \in Nat, p = b + Len(line), Piece(s, p, h), Piece(s, b, line),
           NEW n \in 1 .. Len(h)
    PROVE  line \o SubSeq(h, 1, n) = SubSeq(s, b + 1, p + n)
<1>0. /\ p + Len(h) <= Len(s)
      /\ \A i \in 1 .. Len(h) : h[i] = s[p + i]
      /\ \A i \in 1 .. Len(line) : line[i] = s[b + i]
  BY DEF Piece
<1>1. n \in Nat /\ Len(h) \in Nat /\ Len(s) \in Nat /\ Len(line) \in Nat
  OBVIOUS
<1>2. PICK g \in Seq(Bytes) : g = SubSeq(h, 1, n) /\ Len(g) = n /\ \A i \in 1 .. n : g[i] = h[i]
  <2>1. /\ SubSeq(h, 1, n) \in Seq(Bytes) /\ Len(SubSeq(h, 1, n)) = n
        /\ \A i \in 1 .. n : SubSeq(h, 1, n)[i] = h[i]
    OBVIOUS
  <2> QED BY <2>1
<1>3. PICK k \in Nat : k = p + n /\ k <= Len(s) /\ k - b = Len(line) + n /\ b <= k
  BY <1>0, <1>1
<1>4. PICK f \in Seq(Bytes) : /\ f = SubSeq(s, b + 1, k) /\ Len(f) = k - b
                              /\ \A i \in 1 .. k - b : f[i] = s[b + i]
  <2>1. /\ SubSeq(s, b + 1, k) \in Seq(Bytes) /\ Len(SubSeq(s, b + 1, k)) = k - b
        /\ \A i \in 1 .. k - b : SubSeq(s, b + 1, k)[i] = s[b + i]
    BY <1>3, PieceOf
  <2> QED BY <2>1
<1>a. PICK l \in Nat : l = Len(line)
  BY <1>1
<1>5. PICK e \in Seq(Bytes) :
         /\ e = line \o g /\ Len(e) = l + n
         /\ \A i \in 1 .. l + n : e[i] = IF i <= l THEN line[i] ELSE g[i - l]
  <2>1. /\ line \o g \in Seq(Bytes) /\ Len(line \o g) = Len(line) + n
        /\ \A i \in 1 .. Len(line) + n :
              (line \o g)[i] = IF i <= Len(line) THEN line[i] ELSE g[i - Len(line)]
    BY <1>1, <1>2
  <2> QED BY <1>a, <2>1
<1>6. ASSUME NEW i \in 1 .. l + n PROVE e[i] = f[i]
  <2>a. k - b = l + n
    BY <1>a, <1>3
  <2>0. f[i] = s[b + i] /\ i \in Nat
    BY <1>4, <2>a
  <2>1. CASE i <= l
    <3>1. e[i] = line[i]
      BY <1>5, <2>1
    <3>2. i \in 1 .. Len(line)
      BY <1>a, <2>0, <2>1
    <3> QED BY <1>0, <2>0, <3>1, <3>2
  <2>2. CASE i > l
    <3>1. PICK j \in 1 .. n : j = i - l
      BY <1>1, <1>a, <2>0, <2>2
    <3>2. e[i] = g[j]
      <4>1. ~(i <= l)
        BY <1>a, <2>0, <2>2
      <4> QED BY <1>5, <3>1, <4>1
    <3>3. j \in 1 .. Len(h) /\ p + j = b + i
      BY <1>1, <1>a, <2>0, <3>1
    <3>4. g[j] = h[j] /\ h[j] = s[p + j]
      BY <1>0, <1>2, <3>1, <3>3
    <3> QED BY <2>0, <3>2, <3>3, <3>4
  <2> QED BY <1>a, <2>0, <2>1, <2>2
<1>7. e = f
  <2>1. Len(e) = l + n /\ Len(f) = l + n
    BY <1>a, <1>3, <1>4, <1>5
  <2> QED BY <1>6, <2>1, SameBytes
<1> QED BY <1>2, <1>3, <1>4, <1>5, <1>7


LEMMA Taken ==
    ASSUME NEW took \in Nat, NEW l \in Nat, NEW b \in Nat, NEW m \in Nat, NEW p \in Nat,
           NEW n \in 1 .. l, b = took - l - m, p = b + m
    PROVE  /\ took = p + l /\ took - l = p /\ took - (l - n) = p + n
           /\ b < p + n /\ p + n <= took /\ p + n \in Nat
OBVIOUS

\* One call of _readline takes the text up to q: as much as the buffer has, or up to
\* the end of the line.
LEMMA TakeReads ==
    ASSUME NEW s \in Seq(Bytes), NEW took \in Nat,
           NEW io \in Buffers, io.level > 0, NEW line \in Seq(Bytes), Len(line) < LineMax,
           Reads(s, took, io, line)
    PROVE  \E b \in Nat, q \in Nat :
              /\ b = took - io.level - Len(line) /\ q = took - (io.level - Count(io, line))
              /\ b < q /\ q <= took /\ took <= Len(s)
              /\ Ends(io, line) # {} => LineFrom(s, b, q)
              /\ Ends(io, line) = {} => Partial(s, b, q)
              /\ Line(io, line) = SubSeq(s, b + 1, q)
<1>1. PICK h \in Seq(Bytes) : h = Held(io) /\ Len(h) = io.level /\ DOMAIN h = 1 .. io.level
  BY HeldTyped
<1>2. PICK l \in Nat, m \in Nat : l = io.level /\ m = Len(line) /\ Len(h) = l /\ m < LineMax
  BY <1>1, HeldTyped
<1>3. PICK n \in 1 .. l : n = Count(io, line)
  BY <1>2, TakeTyped
<1>4. PICK b \in Nat : b = took - l - m
  BY <1>2 DEF Reads
<1>5. PICK p \in Nat : p = b + m
  OBVIOUS
<1>a. /\ took = p + l /\ took - l = p /\ took - (l - n) = p + n
      /\ b < p + n /\ p + n <= took /\ p + n \in Nat
  BY <1>4, <1>5, Taken
<1>6. took <= Len(s) /\ Piece(s, p, h) /\ Piece(s, b, line) /\ Partial(s, b, p)
  <2>1. io.level = l /\ Len(line) = m /\ Held(io) = h /\ took - l = p /\ p - m = b
    BY <1>1, <1>2, <1>4, <1>a
  <2> QED BY <2>1 DEF Reads
<1>7. \A i \in 1 .. l : i \in Ends(io, line) <=> EndsAt(h, m, i)
  BY <1>1, <1>2 DEF Ends, LineFull, EndsAt
<1>8. Ends(io, line) \in SUBSET (1 .. l) /\ Ends(io, line) \in SUBSET Nat
  BY <1>1, <1>2 DEF Ends
<1>9. /\ Ends(io, line) = {} => n = l
      /\ Ends(io, line) # {} => n \in Ends(io, line) /\ \A i \in Ends(io, line) : n <= i
  BY <1>1, <1>2, <1>3, <1>8, LeastNumber DEF Count
<1>10. NoneBefore(h, m, n)
  <2> SUFFICES ASSUME NEW i \in 1 .. n - 1 PROVE ~EndsAt(h, m, i)
    BY DEF NoneBefore
  <2>1. i \in 1 .. l /\ ~(n <= i)
    BY <1>3
  <2>2. i \notin Ends(io, line)
    BY <1>9, <2>1
  <2> QED BY <1>7, <2>1, <2>2
<1>11. EndsAt(h, m, n) <=> Ends(io, line) # {}
  BY <1>3, <1>7, <1>9
<1>b. n \in 1 .. Len(h) /\ p = b + Len(line)
  BY <1>2, <1>3, <1>5
<1>12. /\ EndsAt(h, m, n) => LineFrom(s, b, p + n)
       /\ ~EndsAt(h, m, n) => Partial(s, b, p + n)
  BY <1>2, <1>5, <1>6, <1>10, <1>b, Scan
<1>13. line \o SubSeq(h, 1, n) = SubSeq(s, b + 1, p + n)
  BY <1>6, <1>b, Joined
<1>14. Line(io, line) = SubSeq(s, b + 1, p + n)
  BY <1>1, <1>3, <1>13 DEF Line
<1>15. b = took - io.level - Len(line) /\ p + n = took - (io.level - Count(io, line))
  BY <1>2, <1>3, <1>4, <1>a
<1>16. PICK q \in Nat : q = p + n
  BY <1>a
<1>17. /\ b = took - io.level - Len(line) /\ q = took - (io.level - Count(io, line))
       /\ b < q /\ q <= took /\ took <= Len(s)
       /\ Ends(io, line) # {} => LineFrom(s, b, q)
       /\ Ends(io, line) = {} => Partial(s, b, q)
       /\ Line(io, line) = SubSeq(s, b + 1, q)
  BY <1>a, <1>6, <1>11, <1>12, <1>14, <1>15, <1>16
<1> QED BY <1>17

LEMMA Shifted ==
    ASSUME NEW s \in Seq(Bytes), NEW h \in Seq(Bytes), NEW g \in Seq(Bytes),
           NEW took \in Nat, NEW l \in Nat, NEW n \in Nat, n <= l, l <= took, took <= Len(s),
           Len(h) = l, Len(g) = l - n, \A i \in 1 .. l - n : g[i] = h[n + i],
           Piece(s, took - l, h)
    PROVE  Piece(s, took - (l - n), g)
<1>1. took - (l - n) + (l - n) <= Len(s)
  OBVIOUS
<1>2. ASSUME NEW i \in 1 .. l - n PROVE g[i] = s[took - (l - n) + i]
  <2>1. n + i \in 1 .. l /\ took - l + (n + i) = took - (l - n) + i
    OBVIOUS
  <2>2. h[n + i] = s[took - l + (n + i)]
    BY <2>1 DEF Piece
  <2> QED BY <2>1, <2>2
<1> QED BY <1>1, <1>2 DEF Piece

\* What the buffer still has then are the bytes that follow.
LEMMA RestReads ==
    ASSUME NEW s \in Seq(Bytes), NEW took \in Nat,
           NEW io \in Buffers, NEW line \in Seq(Bytes), Reads(s, took, io, line),
           NEW n \in Nat, n <= io.level, NEW rest \in Buffers, rest = [io EXCEPT !.level = io.level - n]
    PROVE  rest.level = io.level - n /\ Piece(s, took - rest.level, Held(rest))
<1>1. PICK l \in Nat : l = io.level /\ n <= l
  BY HeldTyped
<1>2. rest.level = l - n /\ \A i \in 1 .. l - n : Held(rest)[i] = Held(io)[n + i]
  BY <1>1, HeldRest
<1>3. l <= took /\ took <= Len(s) /\ Piece(s, took - l, Held(io))
  <2>1. took - l - Len(line) \in Nat /\ took <= Len(s) /\ Piece(s, took - l, Held(io))
    BY <1>1 DEF Reads
  <2>2. Len(line) \in Nat
    OBVIOUS
  <2> QED BY <2>1, <2>2
<1>4. PICK h \in Seq(Bytes) : h = Held(io) /\ Len(h) = l
  BY <1>1, HeldTyped
<1>5. PICK g \in Seq(Bytes) : g = Held(rest) /\ Len(g) = l - n
  BY <1>2, HeldTyped
<1>6. Piece(s, took - (l - n), g)
  BY <1>1, <1>2, <1>3, <1>4, <1>5, Shifted
<1> QED BY <1>1, <1>2, <1>5, <1>6

-----------------------------------------------------------------------------
(* What the lines say *)

LEMMA LeastIs ==
    ASSUME NEW S \in SUBSET Nat, NEW x \in S, \A y \in S : x <= y
    PROVE  Min(S) = x
<1>1. PICK m \in Nat : m = Min(S) /\ m \in S /\ m <= x
  BY LeastNumber
<1>2. x <= m /\ x \in Nat
  BY <1>1
<1> QED BY <1>1, <1>2

LEMMA EndsTyped ==
    ASSUME NEW s \in Seq(Bytes)
    PROVE  LineEnds(s) \in SUBSET Nat /\ \A e \in LineEnds(s) : 0 < e /\ e <= Len(s)
BY DEF LineEnds

\* The request line decides, or a request has been heard.
Decides(s, q, kinds) ==
    /\ kinds = {} => Owed(s) = "400"
    /\ "badcommand" \in kinds => Owed(s) = "500"
    /\ kinds # {} /\ "badcommand" \notin kinds =>
          \A r : r.kind = (CHOOSE k \in kinds : TRUE) /\ r.cred = FALSE => Heard(s, q, "header", r)

LEMMA RequestLine ==
    ASSUME NEW s \in Seq(Bytes), NEW q \in Nat, LineFrom(s, 0, q),
           NEW line, line = SubSeq(s, 1, q), NEW kinds, kinds = ToSet(line) \cap Kinds
    PROVE  Decides(s, q, kinds)
<1>1. LineEnds(s) \in SUBSET Nat /\ \A e \in LineEnds(s) : 0 < e /\ e <= Len(s)
  BY EndsTyped
<1>2. q \in LineEnds(s) /\ \A j \in 1 .. q - 1 : j \notin LineEnds(s)
  BY DEF LineFrom
<1>3. \A e \in LineEnds(s) : q <= e
  BY <1>1, <1>2
<1>4. Min(LineEnds(s)) = q
  BY <1>1, <1>2, <1>3, LeastIs
<1>5. LineAt(s, q) = line
  <2>1. LineAt(s, q) = SubSeq(s, 0 + 1, q)
    BY LineIs
  <2> QED BY <2>1
<1>6. FirstKinds(s) = kinds
  BY <1>4, <1>5 DEF FirstKinds
<1>7. kinds = {} => Owed(s) = "400"
  BY <1>2, <1>4, <1>5 DEF Owed
<1>8. "badcommand" \in kinds => Owed(s) = "500"
  BY <1>2, <1>4, <1>5 DEF Owed
<1>9. ~Credentials(s, q)
  <2>1. {e \in LineEnds(s) : q < e /\ e <= q} = {}
    BY <1>1
  <2> QED BY <1>4, <2>1 DEF Credentials
<1>10. \A e \in LineEnds(s) : ~(Min(LineEnds(s)) < e /\ e <= q)
  BY <1>1, <1>4
<1>11. ASSUME kinds # {}, "badcommand" \notin kinds, NEW r,
              r.kind = (CHOOSE k \in kinds : TRUE), r.cred = FALSE
       PROVE  Heard(s, q, "header", r)
  BY <1>2, <1>6, <1>9, <1>10, <1>11 DEF Heard
<1> QED BY <1>7, <1>8, <1>11 DEF Decides

\* "while (cnt > 2 && ...)": a line that starts with a line end is not longer.
LEMMA LastIsShort ==
    ASSUME NEW s \in Seq(Bytes), NEW b \in Nat, NEW q \in Nat, LineFrom(s, b, q),
           NEW line \in Seq(Bytes), line = SubSeq(s, b + 1, q)
    PROVE  LastHeader(line) <=> Len(line) <= 2
<1> SUFFICES ASSUME SubSeq(line, 1, 2) = <<CR, LF>>, ~(Len(line) <= 2) PROVE FALSE
  BY DEF LastHeader
<1>1. b < q /\ q <= Len(s) /\ q \in LineEnds(s) /\ \A j \in b + 1 .. q - 1 : j \notin LineEnds(s)
  BY EndsTyped DEF LineFrom
<1>2. /\ Len(line) = q - b /\ \A i \in 1 .. q - b : line[i] = s[b + i]
  BY <1>1, PieceOf
<1>3. PICK j \in 1 .. Len(s) : j = b + 2 /\ j \in b + 1 .. q - 1
  BY <1>1, <1>2
<1>4. s[j] = LF
  <2>1. line[2] = LF
    <3>1. SubSeq(line, 1, 2)[2] = line[2]
      BY <1>2
    <3>a. \A x, y : <<x, y>>[2] = y
      OBVIOUS
    <3>2. SubSeq(line, 1, 2)[2] = LF
      BY <3>a
    <3> QED BY <3>1, <3>2
  <2>2. 2 \in 1 .. q - b
    BY <1>1, <1>2
  <2>3. line[2] = s[b + 2]
    BY <1>2, <2>2
  <2> QED BY <1>3, <2>1, <2>3
<1>5. j \in LineEnds(s)
  BY <1>3, <1>4 DEF LineEnds
<1> QED BY <1>1, <1>3, <1>5

\* The last credentials count, line by line.
LEMMA NextCredentials ==
    ASSUME NEW s \in Seq(Bytes), NEW b \in Nat, NEW q \in Nat, LineFrom(s, b, q), b # 0,
           NEW said, said = ToSet(LineAt(s, q))
    PROVE  Credentials(s, q) <=> "auth" \in said \/ (Credentials(s, b) /\ "badauth" \notin said)
<1> DEFINE E == LineEnds(s)
           H(u) == {e \in E : Min(E) < e /\ e <= u}
           Said(e) == ToSet(LineAt(s, e))
           Cred(u) == \E e \in H(u) : /\ "auth" \in Said(e)
                                      /\ \A f \in H(u) : e < f => Said(f) \cap {"auth", "badauth"} = {}
<1>1. E \in SUBSET Nat /\ b < q /\ q \in E /\ b \in E /\ \A j \in b + 1 .. q - 1 : j \notin E
  BY EndsTyped DEF LineFrom, Begins
<1>2. Min(E) \in Nat /\ Min(E) <= b
  <2>1. Min(E) \in E /\ \A y \in E : Min(E) <= y
    BY <1>1, LeastNumber
  <2> QED BY <1>1, <2>1
<1>3. H(q) = H(b) \cup {q}
  <2>1. \A e \in E : e <= q <=> e <= b \/ e = q
    BY <1>1
  <2>2. Min(E) < q
    BY <1>1, <1>2
  <2> QED BY <1>1, <2>1, <2>2
<1>4. \A e \in H(b) : e < q /\ ~(q < e)
  BY <1>1
<1>a. ~(q < q)
  BY <1>1
<1>5. Credentials(s, q) = Cred(q) /\ Credentials(s, b) = Cred(b)
  BY DEF Credentials
<1>6. said = Said(q)
  OBVIOUS
<1> HIDE DEF Said, H
<1>7. CASE "auth" \in said
  <2>1. \A f \in H(q) : ~(q < f)
    BY <1>3, <1>4, <1>a
  <2>2. q \in H(q)
    BY <1>3
  <2>3. Cred(q)
    BY <1>6, <1>7, <2>1, <2>2
  <2> QED BY <1>5, <1>7, <2>3
<1>8. CASE "auth" \notin said
  <2>1. ASSUME Cred(q) PROVE Cred(b) /\ "badauth" \notin said
    <3>1. PICK e \in H(q) : "auth" \in Said(e)
                            /\ \A f \in H(q) : e < f => Said(f) \cap {"auth", "badauth"} = {}
      BY <2>1
    <3>2. e \in H(b)
      BY <1>3, <1>6, <1>8, <3>1
    <3>3. e < q /\ q \in H(q)
      BY <1>3, <1>4, <3>2
    <3>4. Said(q) \cap {"auth", "badauth"} = {}
      BY <3>1, <3>3
    <3>5. Cred(b)
      BY <1>3, <3>1, <3>2
    <3> QED BY <1>6, <3>4, <3>5
  <2>2. ASSUME Cred(b), "badauth" \notin said PROVE Cred(q)
    <3>1. PICK e \in H(b) : "auth" \in Said(e)
                            /\ \A f \in H(b) : e < f => Said(f) \cap {"auth", "badauth"} = {}
      BY <2>2
    <3>2. Said(q) \cap {"auth", "badauth"} = {}
      BY <1>6, <1>8, <2>2
    <3>3. e \in H(q) /\ \A f \in H(q) : e < f => Said(f) \cap {"auth", "badauth"} = {}
      BY <1>3, <3>1, <3>2
    <3> QED BY <3>1, <3>3
  <2> QED BY <1>5, <1>8, <2>1, <2>2
<1> QED BY <1>7, <1>8

\* What a header changes in a request.
Notes(r, line, h) ==
    /\ h.kind = r.kind
    /\ h.cred <=> "auth" \in ToSet(line) \/ (r.cred /\ "badauth" \notin ToSet(line))

\* The next line has to be read, or the request gets what is owed.
Heeded(s, q, line, h) ==
    /\ ~LastHeader(line) => Heard(s, q, "header", h)
    /\ LastHeader(line) => Answer(h) = Owed(s)

LEMMA HeaderLine ==
    ASSUME NEW s \in Seq(Bytes), NEW b \in Nat, NEW q \in Nat, LineFrom(s, b, q),
           NEW line \in Seq(Bytes), line = SubSeq(s, b + 1, q),
           NEW r, Heard(s, b, "header", r), NEW h, Notes(r, line, h)
    PROVE  Heeded(s, q, line, h)
<1>1. /\ b \in LineEnds(s)
      /\ FirstKinds(s) # {} /\ "badcommand" \notin FirstKinds(s)
      /\ r.kind = CHOOSE k \in FirstKinds(s) : TRUE
      /\ \A e \in LineEnds(s) : Min(LineEnds(s)) < e /\ e <= b => ~(Len(LineAt(s, e)) <= 2)
      /\ r.cred <=> Credentials(s, b)
  BY DEF Heard
<1>2. LineEnds(s) \in SUBSET Nat /\ \A e \in LineEnds(s) : 0 < e /\ e <= Len(s)
  BY EndsTyped
<1>3. b < q /\ q \in LineEnds(s) /\ \A j \in b + 1 .. q - 1 : j \notin LineEnds(s)
  BY DEF LineFrom
<1>4. LineAt(s, q) = line
  BY LineIs
<1>5. h.cred <=> Credentials(s, q)
  <2>1. PICK said : said = ToSet(LineAt(s, q))
    OBVIOUS
  <2>2. b # 0
    BY <1>1, <1>2
  <2>3. Credentials(s, q) <=> "auth" \in said \/ (Credentials(s, b) /\ "badauth" \notin said)
    BY <2>1, <2>2, NextCredentials
  <2> QED BY <1>1, <1>4, <2>1, <2>3 DEF Notes
<1>6. LastHeader(line) <=> Len(line) <= 2
  BY LastIsShort
<1>7. \A e \in LineEnds(s) : e <= q => e <= b \/ e = q
  BY <1>2, <1>3
<1>8. Min(LineEnds(s)) \in Nat /\ Min(LineEnds(s)) \in LineEnds(s) /\ Min(LineEnds(s)) < q
  <2>1. Min(LineEnds(s)) \in LineEnds(s) /\ \A y \in LineEnds(s) : Min(LineEnds(s)) <= y
    BY <1>1, <1>2, LeastNumber
  <2> QED BY <1>1, <1>2, <1>3, <2>1
<1>9. ASSUME ~LastHeader(line) PROVE Heard(s, q, "header", h)
  <2>1. ~(Len(LineAt(s, q)) <= 2)
    BY <1>4, <1>6, <1>9
  <2>2. \A e \in LineEnds(s) : Min(LineEnds(s)) < e /\ e <= q => ~(Len(LineAt(s, e)) <= 2)
    BY <1>1, <1>7, <2>1
  <2> QED BY <1>1, <1>3, <1>5, <2>2 DEF Heard, Notes
<1>10. ASSUME LastHeader(line) PROVE Answer(h) = Owed(s)
  <2> DEFINE last == {e \in LineEnds(s) : Min(LineEnds(s)) < e /\ Len(LineAt(s, e)) <= 2}
  <2>1. last \in SUBSET Nat /\ q \in last
    BY <1>2, <1>3, <1>4, <1>6, <1>8, <1>10
  <2>2. \A e \in last : q <= e
    <3> SUFFICES ASSUME NEW e \in last, ~(q <= e) PROVE FALSE
      OBVIOUS
    <3>1. e <= b
      BY <1>2, <1>3, <1>7
    <3> QED BY <1>1, <3>1
  <2>3. Min(last) = q
    BY <2>1, <2>2, LeastIs
  <2>4. LineEnds(s) # {} /\ last # {}
    BY <1>1, <2>1
  <2>5. Owed(s) = IF Asked /\ ~Credentials(s, Min(last)) THEN "401"
                  ELSE IF (CHOOSE k \in FirstKinds(s) : TRUE) = "badinput" THEN "404"
                  ELSE IF (CHOOSE k \in FirstKinds(s) : TRUE) \in Disabled THEN "501"
                  ELSE CHOOSE k \in FirstKinds(s) : TRUE
    BY <1>1, <2>4 DEF Owed, FirstKinds
  <2>6. Owed(s) = IF Asked /\ ~h.cred THEN "401"
                  ELSE IF h.kind = "badinput" THEN "404"
                  ELSE IF h.kind \in Disabled THEN "501" ELSE h.kind
    BY <1>1, <1>5, <2>3, <2>5 DEF Notes
  <2> QED BY <2>6 DEF Answer
<1> QED BY <1>9, <1>10 DEF Heeded

-----------------------------------------------------------------------------
(* What a thread has read *)

LEMMA ReadsNothing ==
    ASSUME NEW s \in Seq(Bytes), NEW io \in Buffers, io.level = 0
    PROVE  Reads(s, 0, io, <<>>)
<1>1. Len(Held(io)) = 0 /\ Len(s) \in Nat /\ Len(<<>>) = 0
  BY HeldTyped
<1>2. Piece(s, 0, Held(io)) /\ Piece(s, 0, <<>>)
  BY <1>1 DEF Piece
<1>3. Partial(s, 0, 0)
  BY DEF Partial, Begins
<1>4. 0 - 0 = 0 /\ 0 \in Nat /\ 0 <= Len(s)
  BY <1>1
<1> QED BY <1>1, <1>2, <1>3, <1>4 DEF Reads

\* What was read and moved to the end of the buffer.
LEMMA FillHolds ==
    ASSUME NEW g \in Seq(Bytes), Len(g) <= IO_BUFFER
    PROVE  Fill(g).level = Len(g) /\ \A i \in 1 .. Len(g) : Held(Fill(g))[i] = g[i]
<1>1. /\ Fill(g).level = Len(g)
      /\ Fill(g).bytes = [i \in 0 .. IO_BUFFER - 1 |->
                            IF i < IO_BUFFER - Len(g) THEN "NUL" ELSE g[i - (IO_BUFFER - Len(g)) + 1]]
  BY DEF Fill
<1>2. PICK n \in Nat, m \in Nat : n = Len(g) /\ m = IO_BUFFER /\ n <= m
  BY HttpAssumption
<1>3. ASSUME NEW i \in 1 .. n PROVE Held(Fill(g))[i] = g[i]
  <2>1. m - n + i - 1 \in 0 .. m - 1 /\ ~(m - n + i - 1 < m - n) /\ (m - n + i - 1) - (m - n) + 1 = i
    BY <1>2
  <2>2. Held(Fill(g))[i] = Fill(g).bytes[m - n + i - 1]
    BY <1>1, <1>2 DEF Held
  <2>3. Fill(g).bytes[m - n + i - 1] = g[(m - n + i - 1) - (m - n) + 1]
    BY <1>1, <1>2, <2>1
  <2> QED BY <2>1, <2>2, <2>3
<1> QED BY <1>1, <1>2, <1>3

LEMMA NextBytes ==
    ASSUME NEW s \in Seq(Bytes), NEW took \in Nat, NEW n \in Nat, took + n <= Len(s),
           NEW g, g = SubSeq(SubSeq(s, took + 1, Len(s)), 1, n)
    PROVE  g \in Seq(Bytes) /\ Len(g) = n /\ \A i \in 1 .. n : g[i] = s[took + i]
<1>1. PICK k \in Nat : k = Len(s) /\ took <= k /\ n <= k - took
  OBVIOUS
<1>2. PICK u \in Seq(Bytes) : u = SubSeq(s, took + 1, k) /\ Len(u) = k - took
                              /\ \A i \in 1 .. k - took : u[i] = s[took + i]
  <2>1. k <= Len(s)
    BY <1>1
  <2> QED BY <1>1, <2>1, PieceOf
<1>3. g = SubSeq(u, 1, n)
  BY <1>1, <1>2
<1>4. g \in Seq(Bytes) /\ Len(g) = n /\ \A i \in 1 .. n : g[i] = u[i]
  BY <1>1, <1>2, <1>3
<1> QED BY <1>1, <1>2, <1>4

LEMMA FillReads ==
    ASSUME NEW s \in Seq(Bytes), NEW took \in Nat, NEW io \in Buffers, io.level = 0,
           NEW line \in Seq(Bytes), Reads(s, took, io, line),
           NEW n \in Nat, n <= IO_BUFFER, took + n <= Len(s),
           NEW new, new = Fill(SubSeq(SubSeq(s, took + 1, Len(s)), 1, n))
    PROVE  Reads(s, took + n, new, line) /\ new.level = n
<1>0. PICK g : g = SubSeq(SubSeq(s, took + 1, Len(s)), 1, n)
  OBVIOUS
<1>1. g \in Seq(Bytes) /\ Len(g) = n /\ \A i \in 1 .. n : g[i] = s[took + i]
  BY <1>0, NextBytes
<1>a. Len(g) <= IO_BUFFER
  BY <1>1
<1>2. new = Fill(g) /\ new \in Buffers
  BY <1>0, <1>1, <1>a, FillTyped
<1>3. new.level = n /\ \A i \in 1 .. n : Held(new)[i] = g[i]
  <2>1. Fill(g).level = Len(g) /\ \A i \in 1 .. Len(g) : Held(Fill(g))[i] = g[i]
    BY <1>1, <1>a, FillHolds
  <2> QED BY <1>1, <1>2, <2>1
<1>4. Len(Held(new)) = n
  BY <1>2, <1>3, HeldTyped
<1>5. Piece(s, took, Held(new))
  BY <1>1, <1>3, <1>4 DEF Piece
<1>6. PICK m \in Nat : m = Len(line)
  OBVIOUS
<1>7. took + n - n = took /\ took - 0 = took
  OBVIOUS
<1>8. took - m \in Nat /\ Piece(s, took - m, line) /\ Partial(s, took - m, took)
  BY <1>6, <1>7 DEF Reads
<1>9. took + n - new.level = took /\ took - io.level = took /\ Len(line) = m
  BY <1>3, <1>6, <1>7
<1>10. PICK k \in Nat : k = took + n
  OBVIOUS
<1>11. k <= Len(s) /\ k - new.level = took
  <2>1. k - n = took
    BY <1>10
  <2> QED BY <1>3, <1>10, <2>1
<1>12. Reads(s, k, new, line)
  BY <1>5, <1>8, <1>9, <1>11 DEF Reads
<1> QED BY <1>3, <1>10, <1>12

\* One call of _readline: the line goes on, or another has been read and the next begins.
Took(s, took, io, line, rest) ==
    \E b \in Nat, q \in Nat :
       /\ b = took - io.level - Len(line)
       /\ Line(io, line) = SubSeq(s, b + 1, q)
       /\ Ends(io, line) = {} => /\ Reads(s, took, rest, Line(io, line))
                                 /\ took - rest.level - Len(Line(io, line)) = b
       /\ Ends(io, line) # {} => /\ LineFrom(s, b, q)
                                 /\ Reads(s, took, rest, <<>>)
                                 /\ took - rest.level - Len(<<>>) = q

LEMMA TakeMore ==
    ASSUME NEW s \in Seq(Bytes), NEW took \in Nat,
           NEW io \in Buffers, io.level > 0, NEW line \in Seq(Bytes), Len(line) < LineMax,
           Reads(s, took, io, line),
           NEW rest \in Buffers, rest = [io EXCEPT !.level = io.level - Count(io, line)]
    PROVE  Took(s, took, io, line, rest)
<1>1. PICK b \in Nat, q \in Nat :
         /\ b = took - io.level - Len(line) /\ q = took - (io.level - Count(io, line))
         /\ b < q /\ q <= took /\ took <= Len(s)
         /\ Ends(io, line) # {} => LineFrom(s, b, q)
         /\ Ends(io, line) = {} => Partial(s, b, q)
         /\ Line(io, line) = SubSeq(s, b + 1, q)
  BY TakeReads
<1>2. Count(io, line) \in Nat /\ Count(io, line) <= io.level
  BY TakeTyped, HeldTyped
<1>3. rest.level = io.level - Count(io, line) /\ Piece(s, took - rest.level, Held(rest))
  <2>1. PICK n \in Nat : n = Count(io, line) /\ n <= io.level
    BY <1>2
  <2>2. rest = [io EXCEPT !.level = io.level - n]
    BY <2>1
  <2>3. rest.level = io.level - n /\ Piece(s, took - rest.level, Held(rest))
    BY <2>1, <2>2, RestReads
  <2> QED BY <2>1, <2>3
<1>4. took - rest.level = q
  BY <1>1, <1>3
<1>5. PICK g \in Seq(Bytes) : /\ g = Line(io, line) /\ Len(g) = q - b
                              /\ \A i \in 1 .. q - b : g[i] = s[b + i]
  <2>1. b <= q /\ q <= Len(s)
    BY <1>1
  <2>2. /\ SubSeq(s, b + 1, q) \in Seq(Bytes) /\ Len(SubSeq(s, b + 1, q)) = q - b
        /\ \A i \in 1 .. q - b : SubSeq(s, b + 1, q)[i] = s[b + i]
    BY <2>1, PieceOf
  <2>3. PICK g : g = SubSeq(s, b + 1, q) /\ g = Line(io, line)
    BY <1>1
  <2>4. g \in Seq(Bytes) /\ Len(g) = q - b /\ \A i \in 1 .. q - b : g[i] = s[b + i]
    BY <2>2, <2>3
  <2> QED BY <2>3, <2>4
<1>6. Piece(s, b, g)
  <2>1. b + (q - b) <= Len(s)
    BY <1>1
  <2> QED BY <1>5, <2>1 DEF Piece
<1>7. q - (q - b) = b /\ q - 0 = q /\ Len(<<>>) = 0
  BY <1>1
<1>8. ASSUME Ends(io, line) = {}
      PROVE  Reads(s, took, rest, g) /\ took - rest.level - Len(g) = b
  BY <1>1, <1>3, <1>4, <1>5, <1>6, <1>7, <1>8 DEF Reads
<1>9. ASSUME Ends(io, line) # {}
      PROVE  Reads(s, took, rest, <<>>) /\ took - rest.level - Len(<<>>) = q
  <2>1. Partial(s, q, q)
    BY <1>1, <1>9 DEF LineFrom, Partial, Begins
  <2>2. Piece(s, q, <<>>)
    BY <1>1, <1>7 DEF Piece
  <2> QED BY <1>1, <1>3, <1>4, <1>7, <2>1, <2>2 DEF Reads
<1> QED BY <1>1, <1>5, <1>8, <1>9 DEF Took

-----------------------------------------------------------------------------
(* Every thread answers what was asked. *)

\* Two threads never read the same text.
LEMMA OwnText ==
    ASSUME Alone, NEW t \in Threads, NEW u \in Threads, t # u, lcfd[t] # NoConn
    PROVE  lcfd[u] # lcfd[t]
<1>1. CASE pc[t] = "start" \/ pc[u] = "start"
  BY <1>1 DEF Alone, ConnInv
<1>2. CASE pc[t] # "start" /\ pc[u] # "start"
  BY <1>2 DEF Alone, ConnInv, Holds
<1> QED BY <1>1, <1>2

\* A thread that does nothing, and whose text is not read by another.
LEMMA IdleText ==
    ASSUME ThreadsTyped, NEW u \in Threads, ThreadText(u), text' = text,
           pc'[u] = pc[u], lcfd'[u] = lcfd[u], iobuf'[u] = iobuf[u], buffer'[u] = buffer[u],
           req'[u] = req[u], answer'[u] = answer[u],
           lcfd[u] # NoConn => taken'[lcfd[u]] = taken[lcfd[u]]
    PROVE  ThreadText(u)'
BY DEF ThreadText, Fresh, Reading, ReadInv, Begun

LEMMA ServerText ==
    ASSUME Typed, TextInv, SrvThread \/ SrvStop \/ \E c \in Conns, s \in Sockets : ClientConnects(c, s)
    PROVE  TextInv'
<1>1. /\ text' = text /\ taken' = taken /\ lcfd' = lcfd /\ iobuf' = iobuf /\ buffer' = buffer
      /\ req' = req /\ answer' = answer
  BY ServerFrame
<1>2. \A u \in Threads : pc'[u] = pc[u] \/ (pc[u] = "unborn" /\ pc'[u] = "start")
  <2>1. CASE SrvCreate
    <3>1. nthreads + 1 \in Threads /\ nthreads + 1 > nthreads
      BY <2>1, ThreadCount DEF SrvCreate, Typed, ServerTyped
    <3>2. pc[nthreads + 1] = "unborn"
      BY <3>1 DEF Typed, Order
    <3>3. pc' = [pc EXCEPT ![nthreads + 1] = "start"]
      BY <2>1 DEF SrvCreate
    <3> QED BY <3>1, <3>2, <3>3 DEF Typed, ThreadsTyped
  <2>2. CASE ~SrvCreate
    <3>1. pc' = pc
      BY <2>2 DEF SrvThread, SrvMalloc, SrvSelect, SrvAccept, SrvAcceptFails, SrvCreateFails,
                  SrvStop, ClientConnects, thrVars
    <3> QED BY <3>1
  <2> QED BY <2>1, <2>2
<1>3. ASSUME NEW u \in Threads PROVE ThreadText(u)'
  <2>0. ThreadText(u)
    BY DEF TextInv
  <2>1. CASE pc'[u] = pc[u]
    BY <1>1, <2>0, <2>1, IdleText DEF Typed
  <2>2. CASE pc[u] = "unborn" /\ pc'[u] = "start"
    <3>1. Fresh(u)
      BY <2>0, <2>2 DEF ThreadText
    <3>2. Fresh(u)'
      BY <1>1, <3>1 DEF Fresh
    <3> QED BY <2>2, <3>2 DEF ThreadText, Reading, Fresh
  <2> QED BY <1>2, <2>1, <2>2
<1>4. \A c \in Conns : taken'[c] # 0 => \E t \in Threads : lcfd'[t] = c
  BY <1>1 DEF TextInv
<1> QED BY <1>3, <1>4 DEF TextInv

\* Nobody has read anything of the connection a thread starts with.
LEMMA StartText ==
    ASSUME Typed, Alone, TextInv, NEW t \in Threads, ThrStart(t)
    PROVE  TextInv'
<1>1. /\ pc[t] = "start" /\ arg[t] \in Threads /\ lcfd[t] = NoConn
      /\ Holds(t) = heap[arg[t]].fd /\ Holds(t) \in Fd
  BY DEF ThrStart, Typed, ServerTyped, Order, Alone, ConnInv, Holds, Blocks
<1>2. /\ lcfd' = [lcfd EXCEPT ![t] = Holds(t)] /\ pc' = [pc EXCEPT ![t] = "request"]
      /\ text' = text /\ taken' = taken /\ iobuf' = iobuf /\ buffer' = buffer
      /\ req' = req /\ answer' = answer
  BY <1>1 DEF ThrStart, thrOthers
<1>3. PICK c \in Fd : c = Holds(t)
  BY <1>1
<1>4. /\ lcfd'[t] = c /\ pc'[t] = "request"
      /\ \A u \in Threads \ {t} : pc'[u] = pc[u] /\ lcfd'[u] = lcfd[u]
  BY <1>2, <1>3 DEF Typed, ThreadsTyped
<1>5. ThreadText(t) /\ Fresh(t) /\ Fresh(t)'
  BY <1>1, <1>2 DEF TextInv, ThreadText, Fresh
<1>6. \A u \in Threads \ {t} : ThreadText(u)'
  BY <1>2, <1>4, IdleText DEF Typed, TextInv
<1>7. c # NoConn => taken[c] = 0
  <2> SUFFICES ASSUME c # NoConn, NEW u \in Threads, lcfd[u] = c PROVE FALSE
    BY <1>3 DEF TextInv, Fd
  <2>1. u # t
    BY <1>1
  <2>2. pc[u] # "start" /\ Holds(u) = c
    BY DEF Alone, ConnInv, Holds
  <2> QED BY <1>3, <2>1, <2>2 DEF Alone, ConnInv
<1>8. c # NoConn => ReadInv(t)'
  <2> SUFFICES ASSUME c # NoConn PROVE ReadInv(t)'
    OBVIOUS
  <2>1. c \in Conns /\ text[c] \in Seq(Bytes) /\ iobuf[t] \in Buffers
    BY <1>3 DEF Fd, Typed, BuffersTyped
  <2>2. iobuf[t].level = 0 /\ buffer[t] = <<>> /\ ~req[t].cred
    BY <1>5 DEF Fresh
  <2>3. Reads(text[c], 0, iobuf[t], <<>>)
    BY <2>1, <2>2, ReadsNothing
  <2>4. Len(<<>>) = 0 /\ 0 - 0 - 0 = 0
    BY SMT
  <2>5. Heard(text[c], 0, "request", req[t])
    BY <2>2 DEF Heard
  <2>6. /\ text'[lcfd'[t]] = text[c] /\ taken'[lcfd'[t]] = 0
        /\ iobuf'[t] = iobuf[t] /\ buffer'[t] = <<>> /\ req'[t] = req[t] /\ pc'[t] = "request"
    BY <1>2, <1>4, <1>7, <2>2
  <2>7. Begun(t)' = 0
    BY <2>2, <2>4, <2>6 DEF Begun
  <2> QED BY <2>3, <2>5, <2>6, <2>7 DEF ReadInv
<1>9. ThreadText(t)'
  BY <1>4, <1>5, <1>8 DEF ThreadText, Fresh, Reading
<1>10. \A d \in Conns : taken'[d] # 0 => \E u \in Threads : lcfd'[u] = d
  <2> SUFFICES ASSUME NEW d \in Conns, taken[d] # 0 PROVE \E u \in Threads : lcfd'[u] = d
    BY <1>2
  <2>1. PICK u \in Threads : lcfd[u] = d
    BY DEF TextInv
  <2>2. u # t
    BY <1>1, <2>1, HttpAssumption
  <2> QED BY <1>4, <2>1, <2>2
<1> QED BY <1>6, <1>9, <1>10 DEF TextInv

LEMMA FillText ==
    ASSUME Typed, Alone, TextInv, NEW t \in Threads, NEW n \in 1 .. IO_BUFFER, ThrFill(t, n)
    PROVE  TextInv'
<1>1. /\ Reading(t) /\ iobuf[t].level = 0 /\ n <= Len(Unread(lcfd[t]))
      /\ iobuf' = [iobuf EXCEPT ![t] = Fill(SubSeq(Unread(lcfd[t]), 1, n))]
      /\ taken' = [taken EXCEPT ![lcfd[t]] = @ + n]
      /\ text' = text /\ pc' = pc /\ lcfd' = lcfd /\ buffer' = buffer /\ req' = req
      /\ answer' = answer
  BY DEF ThrFill, thrOthers
<1>2. n \in Nat /\ n <= IO_BUFFER /\ n > 0
  BY HttpAssumption
<1>3. PICK c \in Conns : c = lcfd[t]
  <2>1. lcfd[t] \in Fd
    BY DEF Typed, ThreadsTyped
  <2>2. Unread(lcfd[t]) \in Seq(Bytes) /\ (Len(Unread(lcfd[t])) > 0 => lcfd[t] \in Conns)
    BY <2>1, UnreadTyped DEF Typed
  <2>3. Len(Unread(lcfd[t])) > 0
    BY <1>1, <1>2, <2>2
  <2> QED BY <2>2, <2>3
<1>4. c # NoConn
  BY HttpAssumption
<1>5. PICK s \in Seq(Bytes), took \in Nat : s = text[c] /\ took = taken[c] /\ took <= Len(s)
  BY DEF Typed, BuffersTyped
<1>6. Unread(c) = SubSeq(s, took + 1, Len(s)) /\ took + n <= Len(s)
  <2>1. Unread(c) = SubSeq(s, took + 1, Len(s))
    BY <1>4, <1>5 DEF Unread
  <2>2. Len(Unread(c)) = Len(s) - took
    BY <1>5, UnreadTyped DEF Typed, Fd
  <2> QED BY <1>1, <1>2, <1>3, <1>5, <2>1, <2>2
<1>7. PICK new : new = Fill(SubSeq(SubSeq(s, took + 1, Len(s)), 1, n))
  OBVIOUS
<1>8. /\ iobuf'[t] = new /\ taken'[c] = took + n
      /\ \A u \in Threads \ {t} : iobuf'[u] = iobuf[u]
      /\ \A d \in Conns \ {c} : taken'[d] = taken[d]
  BY <1>1, <1>3, <1>5, <1>6, <1>7 DEF Typed, BuffersTyped
<1>9. ThreadText(t) /\ ReadInv(t)
  BY <1>1, <1>3, <1>4 DEF TextInv, ThreadText
<1>10. iobuf[t] \in Buffers /\ buffer[t] \in Seq(Bytes)
  BY DEF Typed, BuffersTyped
<1>11. Reads(s, took, iobuf[t], buffer[t]) /\ Heard(s, Begun(t), pc[t], req[t])
  BY <1>3, <1>5, <1>9 DEF ReadInv
<1>12. Reads(s, took + n, new, buffer[t]) /\ new.level = n
  BY <1>1, <1>2, <1>6, <1>7, <1>10, <1>11, FillReads
<1>13. Begun(t)' = Begun(t)
  <2>1. PICK m \in Nat, k \in Nat : m = Len(buffer[t]) /\ k = took + n
    BY <1>10
  <2>2. taken'[lcfd'[t]] = k /\ iobuf'[t].level = n /\ Len(buffer'[t]) = m
    BY <1>1, <1>3, <1>8, <1>12, <2>1
  <2>3. Begun(t)' = k - n - m
    BY <2>2 DEF Begun
  <2>4. Begun(t) = took - 0 - m
    BY <1>1, <1>3, <1>5, <2>1 DEF Begun
  <2>5. k - n - m = took - 0 - m
    BY <2>1
  <2> QED BY <2>3, <2>4, <2>5
<1>14. ReadInv(t)'
  BY <1>1, <1>3, <1>5, <1>8, <1>11, <1>12, <1>13 DEF ReadInv
<1>15. ThreadText(t)'
  BY <1>1, <1>3, <1>4, <1>9, <1>14 DEF ThreadText, Reading
<1>16. ASSUME NEW u \in Threads \ {t} PROVE ThreadText(u)'
  <2>1. lcfd[u] # c /\ lcfd[u] \in Fd
    BY <1>3, <1>4, OwnText DEF Typed, ThreadsTyped
  <2>2. lcfd[u] # NoConn => taken'[lcfd[u]] = taken[lcfd[u]]
    BY <1>8, <2>1 DEF Fd
  <2> QED BY <1>1, <1>8, <2>2, IdleText DEF TextInv, Typed
<1>17. \A d \in Conns : taken'[d] # 0 => \E u \in Threads : lcfd'[u] = d
  BY <1>1, <1>3, <1>8 DEF TextInv
<1> QED BY <1>15, <1>16, <1>17 DEF TextInv

\* What a thread makes of a line that it has read.
LEMMA ParseReads ==
    ASSUME ThreadsTyped, NEW t \in Threads, NEW s \in Seq(Bytes), NEW b \in Nat, NEW q \in Nat,
           LineFrom(s, b, q), NEW line \in Seq(Bytes), line = SubSeq(s, b + 1, q),
           Heard(s, b, pc[t], req[t]), answer[t] = "none",
           \/ pc[t] = "request" /\ ParseRequest(t, line)
           \/ pc[t] = "header" /\ ParseHeader(t, line)
    PROVE  /\ pc'[t] \in {"header", "answer", "close"}
           /\ pc'[t] # "close" => answer'[t] = "none"
           /\ pc'[t] = "header" => Heard(s, q, "header", req'[t])
           /\ pc'[t] = "answer" => Answer(req'[t]) = Owed(s)
           /\ answer'[t] # "none" => answer'[t] = Owed(s)
           /\ \A u \in Threads \ {t} : pc'[u] = pc[u] /\ req'[u] = req[u] /\ answer'[u] = answer[u]
<1> USE DEF ThreadsTyped
<1>1. CASE pc[t] = "request" /\ ParseRequest(t, line)
  <2>1. b = 0 /\ req[t].cred = FALSE
    <3>1. b = 0 /\ ~req[t].cred
      BY <1>1 DEF Heard
    <3>2. req[t].cred \in BOOLEAN
      BY DEF Requests
    <3> QED BY <3>1, <3>2
  <2>2. PICK kinds : kinds = ToSet(line) \cap Kinds
    OBVIOUS
  <2>3. LineFrom(s, 0, q) /\ line = SubSeq(s, 1, q)
    <3>1. 0 + 1 = 1
      OBVIOUS
    <3> QED BY <2>1, <3>1
  <2>a. Decides(s, q, kinds)
    BY <2>2, <2>3, RequestLine
  <2>4. /\ kinds = {} => Owed(s) = "400"
        /\ "badcommand" \in kinds => Owed(s) = "500"
        /\ kinds # {} /\ "badcommand" \notin kinds =>
              \A r : r.kind = (CHOOSE k \in kinds : TRUE) /\ r.cred = FALSE =>
                         Heard(s, q, "header", r)
    BY <2>a DEF Decides
  <2>5. CASE kinds = {} \/ "badcommand" \in kinds
    <3>1. /\ pc' = [pc EXCEPT ![t] = "close"] /\ req' = req
          /\ answer' = [answer EXCEPT ![t] = IF kinds = {} THEN "400" ELSE "500"]
      BY <1>1, <2>2, <2>5 DEF ParseRequest
    <3> QED BY <2>4, <2>5, <3>1
  <2>6. CASE ~(kinds = {} \/ "badcommand" \in kinds)
    <3>1. /\ pc' = [pc EXCEPT ![t] = "header"] /\ answer' = answer
          /\ req' = [req EXCEPT ![t].kind = CHOOSE k \in kinds : TRUE]
      BY <1>1, <2>2, <2>6 DEF ParseRequest
    <3>2. /\ req'[t].kind = (CHOOSE k \in kinds : TRUE) /\ req'[t].cred = req[t].cred
          /\ \A u \in Threads \ {t} : req'[u] = req[u]
      BY <3>1 DEF Requests
    <3>3. Heard(s, q, "header", req'[t])
      BY <2>1, <2>4, <2>6, <3>2
    <3> QED BY <3>1, <3>2, <3>3
  <2> QED BY <2>5, <2>6
<1>2. CASE pc[t] = "header" /\ ParseHeader(t, line)
  <2>1. /\ pc' = [pc EXCEPT ![t] = IF LastHeader(line) THEN "answer" ELSE "header"]
        /\ answer' = answer
    BY <1>2 DEF ParseHeader
  <2>2. PICK r, h : r = req[t] /\ h = req'[t]
    OBVIOUS
  <2>3. Notes(r, line, h) /\ \A u \in Threads \ {t} : req'[u] = req[u]
    BY <1>2, <2>2 DEF ParseHeader, Requests, Notes
  <2>4. Heard(s, b, "header", r)
    BY <1>2, <2>2
  <2>5. /\ ~LastHeader(line) => Heard(s, q, "header", h)
        /\ LastHeader(line) => Answer(h) = Owed(s)
    <3>1. Heeded(s, q, line, h)
      BY <2>3, <2>4, HeaderLine
    <3> QED BY <3>1 DEF Heeded
  <2> QED BY <2>1, <2>2, <2>3, <2>5
<1> QED BY <1>1, <1>2

LEMMA TakeText ==
    ASSUME Typed, Alone, TextInv, NEW t \in Threads, ThrTake(t)
    PROVE  TextInv'
<1>1. PICK io \in Buffers, old \in Seq(Bytes) :
         io = iobuf[t] /\ old = buffer[t] /\ Len(old) < LineMax
  BY DEF Typed, BuffersTyped
<1>2. /\ Reading(t) /\ io.level > 0
      /\ iobuf' = [iobuf EXCEPT ![t].level = @ - Count(io, old)]
      /\ \/ /\ Ends(io, old) # {}
            /\ buffer' = [buffer EXCEPT ![t] = <<>>]
            /\ \/ pc[t] = "request" /\ ParseRequest(t, Line(io, old))
               \/ pc[t] = "header" /\ ParseHeader(t, Line(io, old))
         \/ /\ Ends(io, old) = {}
            /\ buffer' = [buffer EXCEPT ![t] = Line(io, old)]
            /\ pc' = pc /\ req' = req /\ answer' = answer
      /\ taken' = taken /\ lcfd' = lcfd /\ text' = text
  BY <1>1, TakeStep DEF thrOthers
<1>3. ThreadText(t)
  BY DEF TextInv
<1>4. lcfd[t] # NoConn
  <2>1. io.level \in Nat
    BY HeldTyped
  <2> QED BY <1>1, <1>2, <1>3, <2>1 DEF ThreadText, Fresh
<1>5. PICK s \in Seq(Bytes), took \in Nat : s = text[lcfd[t]] /\ took = taken[lcfd[t]]
  <2>1. lcfd[t] \in Conns
    BY <1>4 DEF Typed, ThreadsTyped, Fd
  <2> QED BY <2>1 DEF Typed, BuffersTyped
<1>6. Reads(s, took, io, old) /\ Heard(s, Begun(t), pc[t], req[t]) /\ answer[t] = "none"
  BY <1>1, <1>2, <1>3, <1>4, <1>5 DEF ThreadText, ReadInv
<1>7. PICK rest : rest = [io EXCEPT !.level = io.level - Count(io, old)]
  OBVIOUS
<1>8. /\ iobuf'[t] = rest /\ rest \in Buffers
      /\ \A u \in Threads \ {t} : iobuf'[u] = iobuf[u]
  <2>1. iobuf'[t] = rest
    BY <1>1, <1>2, <1>7 DEF Typed, BuffersTyped
  <2>2. iobuf' \in [Threads -> Buffers]
    <3>1. Count(iobuf[t], buffer[t]) \in 1 .. iobuf[t].level
      BY <1>1, <1>2, TakeTyped
    <3>2. [iobuf EXCEPT ![t].level = @ - Count(iobuf[t], buffer[t])] \in [Threads -> Buffers]
      BY <3>1, LevelTyped DEF Typed, BuffersTyped
    <3> QED BY <1>1, <1>2, <3>2
  <2> QED BY <1>2, <2>1, <2>2 DEF Typed, BuffersTyped
<1>9. PICK b \in Nat, q \in Nat :
         /\ b = took - io.level - Len(old)
         /\ Line(io, old) = SubSeq(s, b + 1, q)
         /\ Ends(io, old) = {} => /\ Reads(s, took, rest, Line(io, old))
                                  /\ took - rest.level - Len(Line(io, old)) = b
         /\ Ends(io, old) # {} => /\ LineFrom(s, b, q)
                                  /\ Reads(s, took, rest, <<>>)
                                  /\ took - rest.level - Len(<<>>) = q
  <2>1. io.level > 0 /\ Len(old) < LineMax /\ Reads(s, took, io, old) /\ rest \in Buffers
    BY <1>1, <1>2, <1>6, <1>8
  <2>2. Took(s, took, io, old, rest)
    BY <1>7, <2>1, TakeMore
  <2> QED BY <2>2 DEF Took
<1>10. Begun(t) = b
  BY <1>1, <1>5, <1>9 DEF Begun
<1>11. Line(io, old) \in Seq(Bytes)
  BY <1>1, <1>2, TakeTyped
<1>12. PICK line \in Seq(Bytes) : line = Line(io, old)
  BY <1>11
<1>13. /\ \A c \in Conns : taken'[c] # 0 => \E u \in Threads : lcfd'[u] = c
       /\ \A u \in Threads \ {t} : buffer'[u] = buffer[u]
  BY <1>2 DEF TextInv, Typed, BuffersTyped
<1>14. taken'[lcfd'[t]] = took /\ text'[lcfd'[t]] = s /\ lcfd'[t] # NoConn
  BY <1>2, <1>4, <1>5
<1>15. CASE Ends(io, old) = {}
  <2>1. buffer'[t] = line /\ pc' = pc /\ req' = req /\ answer' = answer
    BY <1>2, <1>12, <1>15 DEF Typed, BuffersTyped
  <2>2. Begun(t)' = b
    BY <1>8, <1>9, <1>12, <1>14, <1>15, <2>1 DEF Begun
  <2>3. ReadInv(t)'
    BY <1>6, <1>8, <1>9, <1>10, <1>12, <1>14, <1>15, <2>1, <2>2 DEF ReadInv
  <2>4. ThreadText(t)'
    BY <1>2, <1>3, <1>14, <2>1, <2>3 DEF ThreadText, Reading
  <2>5. \A u \in Threads \ {t} : ThreadText(u)'
    BY <1>2, <1>8, <1>13, <2>1, IdleText DEF TextInv, Typed
  <2> QED BY <1>13, <2>4, <2>5 DEF TextInv
<1>16. CASE Ends(io, old) # {}
  <2>1. /\ buffer'[t] = <<>>
        /\ \/ pc[t] = "request" /\ ParseRequest(t, line)
           \/ pc[t] = "header" /\ ParseHeader(t, line)
    BY <1>2, <1>12, <1>16 DEF Typed, BuffersTyped
  <2>2. LineFrom(s, b, q) /\ line = SubSeq(s, b + 1, q) /\ Heard(s, b, pc[t], req[t])
    BY <1>6, <1>9, <1>10, <1>12, <1>16
  <2>3. /\ pc'[t] \in {"header", "answer", "close"}
        /\ pc'[t] # "close" => answer'[t] = "none"
        /\ pc'[t] = "header" => Heard(s, q, "header", req'[t])
        /\ pc'[t] = "answer" => Answer(req'[t]) = Owed(s)
        /\ answer'[t] # "none" => answer'[t] = Owed(s)
        /\ \A u \in Threads \ {t} : pc'[u] = pc[u] /\ req'[u] = req[u] /\ answer'[u] = answer[u]
    BY <1>6, <2>1, <2>2, ParseReads DEF Typed
  <2>4. Begun(t)' = q
    BY <1>8, <1>9, <1>14, <1>16, <2>1 DEF Begun
  <2>5. pc'[t] = "header" => ReadInv(t)'
    BY <1>8, <1>9, <1>14, <1>16, <2>1, <2>3, <2>4 DEF ReadInv
  <2>6. ThreadText(t)'
    BY <1>14, <2>3, <2>5 DEF ThreadText, Reading
  <2>7. \A u \in Threads \ {t} : ThreadText(u)'
    BY <1>2, <1>8, <1>13, <2>3, IdleText DEF TextInv, Typed
  <2> QED BY <1>13, <2>6, <2>7 DEF TextInv
<1> QED BY <1>15, <1>16

\* A thread that answers or returns.
LEMMA EndText ==
    ASSUME Typed, TextInv, NEW t \in Threads, ThrAnswer(t) \/ ThrGivesUp(t) \/ ThrClose(t)
    PROVE  TextInv'
<1>1. /\ text' = text /\ taken' = taken /\ lcfd' = lcfd /\ req' = req
      /\ \A u \in Threads \ {t} : /\ pc'[u] = pc[u] /\ iobuf'[u] = iobuf[u]
                                  /\ buffer'[u] = buffer[u] /\ answer'[u] = answer[u]
  BY DEF ThrAnswer, ThrGivesUp, ThrClose, Returns, thrOthers, Typed, ThreadsTyped, BuffersTyped
<1>2. \A u \in Threads \ {t} : ThreadText(u)'
  BY <1>1, IdleText DEF Typed, TextInv
<1>3. ThreadText(t)
  BY DEF TextInv
<1>4. ThreadText(t)'
  <2>1. CASE ThrAnswer(t)
    <3>1. pc[t] = "answer" /\ pc'[t] = "close" /\ answer'[t] = Answer(req[t])
      BY <2>1 DEF ThrAnswer, Typed, ThreadsTyped
    <3> QED BY <1>1, <1>3, <3>1 DEF ThreadText, Reading
  <2>2. CASE ThrGivesUp(t) \/ ThrClose(t)
    <3>1. /\ pc[t] \in {"request", "header", "close"} /\ pc'[t] = "done" /\ answer' = answer
          /\ iobuf'[t] = Empty /\ buffer'[t] = <<>>
      BY <2>2 DEF ThrGivesUp, ThrClose, Returns, Reading, Typed, ThreadsTyped, BuffersTyped
    <3>2. Empty.level = 0
      BY DEF Empty
    <3> QED BY <1>1, <1>3, <3>1, <3>2 DEF ThreadText, Reading, Fresh
  <2> QED BY <2>1, <2>2
<1>5. \A c \in Conns : taken'[c] # 0 => \E u \in Threads : lcfd'[u] = c
  BY <1>1 DEF TextInv
<1> QED BY <1>2, <1>4, <1>5 DEF TextInv

LEMMA InitText == ASSUME HttpInit PROVE TextInv
<1>1. \A t \in Threads : Fresh(t) /\ pc[t] = "unborn" /\ answer[t] = "none"
  BY DEF HttpInit, Fresh, Empty, NoRequest
<1>2. \A c \in Conns : taken[c] = 0
  BY DEF HttpInit
<1> QED BY <1>1, <1>2 DEF TextInv, ThreadText, Reading

LEMMA NextText == ASSUME IInv, TextInv, [HttpNext]_httpVars, ~doubled PROVE TextInv'
<1>1. Typed /\ Alone
  BY DEF IInv, Typed
<1>2. ASSUME NEW t \in Threads, ClientThread(t) PROVE TextInv'
  BY <1>1, <1>2, StartText, FillText, TakeText, EndText, SelectWorks DEF ClientThread
<1>3. CASE UNCHANGED httpVars
  BY <1>3 DEF httpVars, srvVars, thrVars, TextInv, ThreadText, Fresh, Reading, ReadInv, Begun
<1> QED BY <1>1, <1>2, <1>3, ServerText DEF HttpNext

\* The inductive invariant of what the threads read: until one select reports two
\* sockets, whatever pieces the network cut the texts into.
THEOREM TextInvariance == HttpSpec => [](~doubled => TextInv)
<1> DEFINE Both == IInv /\ (~doubled => TextInv)
<1>1. HttpInit => Both
  BY InitIInv, InitText
<1>2. Both /\ [HttpNext]_httpVars => Both'
  <2> SUFFICES ASSUME Both, [HttpNext]_httpVars PROVE Both'
    OBVIOUS
  <2>1. IInv'
    BY NextTypes, NextAlone DEF IInv, Typed
  <2>2. ASSUME ~doubled' PROVE TextInv'
    BY <2>2, NextText, StaysDoubled
  <2> QED BY <2>1, <2>2
<1>3. Both => (~doubled => TextInv)
  OBVIOUS
<1> QED BY <1>1, <1>2, <1>3, PTL DEF HttpSpec

\* Every client gets the answer to what it sent, however the bytes arrive: _read and
\* _readline lose, repeat and misplace none, whatever the lengths of the lines, of the
\* reads and of the buffers.
THEOREM AnsweredAsAsked == HttpSpec => []AnswersAsAsked
<1>1. (~doubled => TextInv) => AnswersAsAsked
  BY DEF TextInv, ThreadText, AnswersAsAsked
<1> QED BY <1>1, TextInvariance, PTL
=============================================================================
