------------------------------ MODULE Network ------------------------------
(***************************************************************************)
(* One connection, byte by byte: the client's commands, cut anywhere by    *)
(* TCP, are put together by the KEY_RECV handler (SERVER/MainServer.cpp),  *)
(* which answers through DoSend (SERVER/Player.cpp) and the pool of send   *)
(* buffers (SendPool); the client puts the server's packets together in    *)
(* ProcessData (CLIENT/client/GameManager.cpp).  Other workers send to the *)
(* client at any time.                                                     *)
(*                                                                         *)
(* A byte is its place in a packet, <<packet, place>>; the first two hold  *)
(* the packet's size.  What a command does is the subject of the other     *)
(* modules: here every command is answered with one packet.                *)
(***************************************************************************)
EXTENDS SendPool, SequencesExt

CONSTANTS
    BufSize,        \* BUF_SIZE
    Command,        \* the sequence of the commands the client sends
    SizeOf,         \* the size field of a packet
    Answer,         \* the packet that answers a command
    News,           \* the packets that other workers send to the client
    PerPlayer,      \* pool objects per player, 20
    SizesWhole,     \* no segment the client gets ends in a size field
    NoSize          \* what two bytes that are not a size field read as

Packet == Range(Command) \union Range(Answer) \union News

\* A packet the server sends has a size field and a type; what a client's size
\* field says is its own (protocol.h).
ASSUME SizeAssumption ==
    /\ BufSize \in Nat /\ BufSize >= 3 /\ PerPlayer \in Nat /\ NoSize \in Nat
    /\ SizeOf \in [Packet -> Nat \ {0}]
    /\ \A p \in Range(Answer) \union News : SizeOf[p] >= 3
ASSUME PacketAssumption ==
    /\ None \notin Packet
    /\ News \intersect Range(Answer) = {}
    /\ Command \in Seq(Range(Command))
    /\ Answer \in [Range(Command) -> Range(Answer)]
\* MainServer.cpp:309-319
ASSUME TrimAssumption == {0, PerPlayer} \subseteq MaxSizes

VARIABLES
    conn,       \* "up", "reset" by the client or the network, "closed" by the server
    toServer,   \* the bytes on their way to the server
    recvBuf,    \* recv_over_.send_buf_: the prev_size_ bytes in it
    armed,      \* a WSARecv is outstanding
    work,       \* worker: the handler it is in
    handled,    \* history: the commands processed
    news,       \* the packets that other workers have yet to send
    buf,        \* send buffer: the packet in it
    posted,     \* the send buffers the kernel has yet to send
    sent,       \* history: the packets given to WSASend
    toClient,   \* the bytes on their way to the client
    segment,    \* client: net_buf, what is left of it
    inSize,     \* client: in_packet_size
    saved,      \* client: packet_buffer, the saved_packet_size bytes in it
    shown       \* history: the packets the client has processed

serverVars == <<recvBuf, armed, handled, news>>
wireVars   == <<buf, posted, sent>>
clientVars == <<segment, inSize, saved, shown>>
vars == <<poolVars, conn, toServer, serverVars, work, wireVars, toClient, clientVars>>

Bytes(p, size) == [k \in 1 .. size |-> <<p, k>>]
Leading(s, n) == SubSeq(s, 1, n)
After(s, n)   == SubSeq(s, n + 1, Len(s))

Idle == [pc |-> "idle", packet |-> None]

\* All the client will send is on its way; a size field may claim more than the
\* server's buffer holds, then BufSize bytes come.
Stream[k \in 0 .. Len(Command)] ==
    IF k = 0 THEN <<>>
    ELSE Stream[k - 1] \o
         Bytes(Command[k], IF SizeOf[Command[k]] > BufSize THEN BufSize ELSE SizeOf[Command[k]])

Init ==
    /\ InitPool
    /\ conn = "up"
    /\ toServer = Stream[Len(Command)]
    /\ recvBuf = <<>>
    /\ armed = TRUE
    /\ work = [w \in Worker |-> Idle]
    /\ handled = <<>>
    /\ news = News
    /\ buf = [o \in Over |-> None]
    /\ posted = <<>>
    /\ sent = <<>>
    /\ toClient = <<>>
    /\ segment = <<>>
    /\ inSize = 0
    /\ saved = <<>>
    /\ shown = <<>>

\* The size that two bytes read as.
SizeAt(s) == IF s[1][2] = 1 THEN SizeOf[s[1][1]] ELSE NoSize

Goto(w, pc) == work' = [work EXCEPT ![w].pc = pc]
Finish(w)   == work' = [work EXCEPT ![w] = Idle]

----------------------------------------------------------------------------
(* KEY_RECV.                                                               *)

\* Variant: the length of a receive is not lessened.
WholeBuffer == BufSize

\* DoReceive: behind what is left of the last one.
Room == BufSize - Len(recvBuf)

\* A receive completes with some of the bytes that have come.
Recv(w) ==
    /\ work[w].pc = "idle"
    /\ armed
    /\ conn = "up"
    /\ \E n \in 1 .. Room :
         /\ n <= Len(toServer)
         /\ recvBuf' = recvBuf \o Leading(toServer, n)
         /\ toServer' = After(toServer, n)
    /\ armed' = FALSE
    /\ Goto(w, "parse")
    /\ UNCHANGED <<poolVars, conn, handled, news, wireVars, toClient, clientVars>>

\* A receive completes without bytes, or fails: disconnect().
RecvFails(w) ==
    /\ work[w].pc = "idle"
    /\ armed
    /\ conn # "up"
    /\ armed' = FALSE
    /\ conn' = "closed"
    /\ UNCHANGED <<poolVars, toServer, recvBuf, work, handled, news, wireVars,
                   toClient, clientVars>>

\* Variant: whatever is left is taken for a packet.
ParseAnyway(w) ==
    /\ work[w].pc = "parse"
    /\ Len(recvBuf) >= 3
    /\ LET p == recvBuf[1][1] IN
         /\ handled' = Append(handled, p)
         /\ recvBuf' = After(recvBuf, SizeOf[p])
         /\ work' = [work EXCEPT ![w] = [pc |-> "send", packet |-> Answer[p]]]
    /\ UNCHANGED <<poolVars, conn, toServer, armed, news, wireVars, toClient, clientVars>>

\* A whole packet: ProcessPacket.
Parse(w) ==
    /\ work[w].pc = "parse"
    /\ Len(recvBuf) >= 3
    /\ SizeAt(recvBuf) \in 3 .. BufSize
    /\ SizeAt(recvBuf) <= Len(recvBuf)
    /\ LET p == recvBuf[1][1] IN
         /\ handled' = Append(handled, IF SizeOf[p] = SizeAt(recvBuf) THEN p ELSE None)
         /\ recvBuf' = After(recvBuf, SizeAt(recvBuf))
         /\ work' = [work EXCEPT ![w] = [pc |-> "send", packet |-> Answer[p]]]
    /\ UNCHANGED <<poolVars, conn, toServer, armed, news, wireVars, toClient, clientVars>>

\* A size no client sends: the limits of the packets are lost.
ParseBroken(w) ==
    /\ work[w].pc = "parse"
    /\ Len(recvBuf) >= 3
    /\ SizeAt(recvBuf) \notin 3 .. BufSize
    /\ conn' = "closed"
    /\ Finish(w)
    /\ UNCHANGED <<poolVars, toServer, serverVars, wireVars, toClient, clientVars>>

\* Variant: a packet that has just come whole is waited for.
ParseEndEarly(w) ==
    /\ work[w].pc = "parse"
    /\ Len(recvBuf) >= 3 => SizeAt(recvBuf) \in Len(recvBuf) .. BufSize
    /\ armed' = TRUE
    /\ Finish(w)
    /\ UNCHANGED <<poolVars, conn, toServer, recvBuf, handled, news, wireVars,
                   toClient, clientVars>>

\* What is left waits for the next receive.
ParseEnd(w) ==
    /\ work[w].pc = "parse"
    /\ Len(recvBuf) >= 3 => SizeAt(recvBuf) \in (Len(recvBuf) + 1) .. BufSize
    /\ armed' = TRUE
    /\ Finish(w)
    /\ UNCHANGED <<poolVars, conn, toServer, recvBuf, handled, news, wireVars,
                   toClient, clientVars>>

----------------------------------------------------------------------------
(* DoSend.                                                                 *)

\* After an answer the handler goes on with the buffer.
Resume(w) ==
    work' = [work EXCEPT ![w] =
        IF work[w].packet \in News THEN Idle ELSE [pc |-> "parse", packet |-> None]]

\* Another worker has something to send.
Tell(w) ==
    /\ work[w].pc = "idle"
    /\ \E p \in news :
         /\ news' = news \ {p}
         /\ work' = [work EXCEPT ![w] = [pc |-> "send", packet |-> p]]
    /\ UNCHANGED <<poolVars, conn, toServer, recvBuf, armed, handled, wireVars,
                   toClient, clientVars>>

\* A packet that is too large is not sent; another one waits for a buffer.
DoSend(w) ==
    /\ work[w].pc = "send"
    /\ \/ /\ SizeOf[work[w].packet] > BufSize
          /\ Resume(w)
          /\ UNCHANGED <<poolVars, buf>>
       \/ /\ SizeOf[work[w].packet] <= BufSize
          /\ Miss(w)
          /\ UNCHANGED <<buf, work>>
       \/ /\ SizeOf[work[w].packet] <= BufSize
          /\ Take(w) \/ Make(w)
          /\ buf' = [buf EXCEPT ![held'[w]] = work[w].packet]
          /\ Goto(w, "post")
    /\ UNCHANGED <<conn, toServer, serverVars, posted, sent, toClient, clientVars>>

\* WSASend: it takes the buffer, or fails at once on a socket that is not up.
Post(w) ==
    /\ work[w].pc = "post"
    /\ HandOver(w)
    /\ posted' = Append(posted, held[w])
    /\ sent' = Append(sent, work[w].packet)
    /\ Resume(w)
    /\ UNCHANGED <<conn, toServer, serverVars, buf, toClient, clientVars>>

PostFails(w) ==
    /\ work[w].pc = "post"
    /\ conn # "up"
    /\ GiveBack(w)
    /\ Goto(w, "release")
    /\ UNCHANGED <<conn, toServer, serverVars, wireVars, toClient, clientVars>>

\* After the failure of a send the handler goes on, after a completion the worker
\* is done.
ReleaseEnd(w) ==
    /\ work[w].pc = "release"
    /\ Release(w)
    /\ IF work[w].packet = None THEN Finish(w) ELSE Resume(w)
    /\ UNCHANGED <<conn, toServer, serverVars, wireVars, toClient, clientVars>>

\* The kernel sends what is in the buffer by then.
Transmit ==
    /\ posted # <<>>
    /\ conn = "up"
    /\ posted' = Tail(posted)
    /\ toClient' = toClient \o Bytes(buf[Head(posted)], SizeOf[buf[Head(posted)]])
    /\ UNCHANGED <<poolVars, conn, toServer, serverVars, work, buf, sent, clientVars>>

\* KEY_SEND: it has been sent, or has failed, then disconnect().
Sent(w) ==
    /\ work[w].pc = "idle"
    /\ \E o \in flight :
         /\ Complete(w, o)
         /\ \/ /\ o \notin Range(posted)
               /\ UNCHANGED <<conn, posted>>
            \/ \E k \in 1 .. Len(posted) :
                 /\ posted[k] = o
                 /\ conn # "up"
                 /\ conn' = "closed"
                 /\ posted' = RemoveAt(posted, k)
    /\ Goto(w, "release")
    /\ UNCHANGED <<toServer, serverVars, buf, sent, toClient, clientVars>>

----------------------------------------------------------------------------
(* The client: ProcessData, one turn of its loop a step.                   *)

Receive ==
    /\ segment = <<>>
    /\ \E n \in 1 .. BufSize :
         /\ n <= Len(toClient)
         /\ SizesWhole => toClient[n][2] # 1
         /\ segment' = Leading(toClient, n)
         /\ toClient' = After(toClient, n)
    /\ UNCHANGED <<poolVars, conn, toServer, serverVars, work, wireVars, inSize,
                   saved, shown>>

\* Less than a size field in all.
TooShort == inSize = 0 /\ Len(segment) + Len(saved) < 2

\* The size is read from where the segment stands, not from what is kept.
ReadSize == IF inSize # 0 THEN inSize ELSE SizeAt(segment)

Whole == ~TooShort /\ Len(segment) + Len(saved) >= ReadSize

\* The packet a whole buffer is, None if it is no packet.
PacketIn(s) == IF s = Bytes(s[1][1], SizeOf[s[1][1]]) THEN s[1][1] ELSE None

\* Variant: saved_packet_size is not set back.
FrameKept ==
    /\ segment # <<>>
    /\ LET n == ReadSize - Len(saved) IN
         \/ /\ Whole
            /\ shown' = Append(shown, PacketIn(saved \o Leading(segment, n)))
            /\ segment' = After(segment, n)
            /\ inSize' = 0
            /\ UNCHANGED saved
         \/ /\ ~Whole
            /\ inSize' = IF TooShort THEN 0 ELSE ReadSize
            /\ saved' = saved \o segment
            /\ segment' = <<>>
            /\ UNCHANGED shown
    /\ UNCHANGED <<poolVars, conn, toServer, serverVars, work, wireVars, toClient>>

\* A packet is processed when it is whole; till then its bytes are kept.
Frame ==
    /\ segment # <<>>
    /\ LET n == ReadSize - Len(saved) IN
         \/ /\ Whole
            /\ shown' = Append(shown, PacketIn(saved \o Leading(segment, n)))
            /\ segment' = After(segment, n)
            /\ inSize' = 0
            /\ saved' = <<>>
         \/ /\ ~Whole
            /\ inSize' = IF TooShort THEN 0 ELSE ReadSize
            /\ saved' = saved \o segment
            /\ segment' = <<>>
            /\ UNCHANGED shown
    /\ UNCHANGED <<poolVars, conn, toServer, serverVars, work, wireVars, toClient>>

----------------------------------------------------------------------------
\* The client ends, or the network does.
Reset ==
    /\ conn = "up"
    /\ conn' = "reset"
    /\ UNCHANGED <<poolVars, toServer, serverVars, work, wireVars, toClient, clientVars>>

\* PoolManagerThread.
Trim ==
    /\ \/ SetMaxSize(IF conn = "closed" THEN 0 ELSE PerPlayer)
       \/ TrimCheck
       \/ TrimPop
       \/ TrimDelete
    /\ UNCHANGED <<conn, toServer, serverVars, work, wireVars, toClient, clientVars>>

ServerStep(w) ==
    \/ Recv(w) \/ RecvFails(w) \/ Parse(w) \/ ParseBroken(w) \/ ParseEnd(w)
    \/ Tell(w) \/ DoSend(w) \/ Post(w) \/ PostFails(w) \/ ReleaseEnd(w) \/ Sent(w)

Next == \/ \E w \in Worker : ServerStep(w)
        \/ Transmit \/ Receive \/ Frame \/ Reset \/ Trim

Spec == Init /\ [][Next]_vars

----------------------------------------------------------------------------
Byte == Packet \X (1 .. BufSize)

\* Every variable has its type; the buffers hold no more than they can.
TypeOK ==
    /\ conn \in {"up", "reset", "closed"}
    /\ {toServer, toClient} \subseteq Seq(Byte)
    /\ recvBuf \in Seq(Byte) /\ Len(recvBuf) <= BufSize
    /\ armed \in BOOLEAN
    /\ work \in [Worker -> [pc : {"idle", "parse", "send", "post", "release"},
                            packet : Packet \union {None}]]
    /\ handled \in Seq(Range(Command) \union {None})
    /\ news \subseteq News
    /\ buf \in [Over -> Packet \union {None}]
    /\ posted \in Seq(Over)
    /\ sent \in Seq(Packet)
    /\ segment \in Seq(Byte) /\ Len(segment) <= BufSize
    /\ inSize \in Nat
    /\ saved \in Seq(Byte) /\ Len(saved) <= BufSize
    /\ shown \in Seq(Packet \union {None})

\* Wherever the stream is cut, the server handles the commands that were sent,
\* in order, each once (MainServer.cpp:141-185).
CommandsInOrder == IsPrefix(handled, Command)

\* When the server waits for more there is room for it, a packet of the largest
\* size being no exception: a receive of no bytes would end the session
\* (Player.cpp:36-46, MainServer.cpp:91-101).
RoomToReceive == armed => Room > 0

\* What the client processes is what the server gave to WSASend, in order, each
\* once and, when nothing is on its way, all of it: no buffer is taken from
\* under the kernel, and every packet is put together again
\* (Player.cpp:74-108, GameManager.cpp:549-580).
PacketsArrive ==
    /\ IsPrefix(shown, sent)
    /\ (conn = "up" /\ posted = <<>> /\ toClient = <<>> /\ segment = <<>>) => shown = sent
============================================================================
