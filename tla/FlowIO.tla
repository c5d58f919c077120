-------------------------------- MODULE FlowIO ------------------------------
(***************************************************************************)
(* The bytes of one TCP flow of the direct exit: ConnManager::service_tcp, *)
(* Pending and tcp_task of conn.rs, between the app's connection, which    *)
(* smoltcp terminates, and the egress connection.                          *)
(*                                                                         *)
(*   app -> rx -> (service) -> up   -> (writer) -> server                  *)
(*   app <- tx <- pending <- (service) <- down <- (reader) <- server       *)
(*                                                                         *)
(* A byte is its place in its stream.  The flow is serviced only when it   *)
(* is marked ready; the marks come from the two halves of the task and     *)
(* from the wakers of the socket, which smoltcp uses up when it fires one. *)
(* Admission, deadlines and the other flows are in ConnManager.            *)
(***************************************************************************)
EXTENDS Integers, Sequences, FiniteSets, SequencesExt

CONSTANTS
  TcpBuf,   \* TCP_BUF: rx, tx and the limit on pending_out, in bytes
  UpCap,    \* CHAN_CAP: chunks in app_to_out
  DownCap,  \* CHAN_CAP: chunks in out_to_app
  UpLen,    \* bound: bytes the app sends
  DownLen   \* bound: bytes the server sends

ASSUME FlowIOAssumption == {TcpBuf, UpCap, DownCap, UpLen, DownLen} \subseteq Nat \ {0}

VARIABLES
  sock,    \* the socket: state, rx, tx, and which wakers are armed
  conn,    \* the TcpConn, with live = FALSE once it is removed
  up,      \* app_to_out: chunks on their way to the writer
  down,    \* out_to_app: chunks on their way to the poll loop
  ready,   \* the flow is in the ready queue
  taken,   \* dispatch has taken it out and is about to service it
  reader,  \* the egress -> app half of the task, and the chunk in its hands
  writer,  \* the app -> egress half
  app,     \* history: what the app sent, received and was told
  server,  \* history: the same of the server
  aborted  \* history: the flow was reset, timed out or never connected

vars == <<sock, conn, up, down, ready, taken, reader, writer, app, server, aborted>>

-----------------------------------------------------------------------------
(* Pending                                                                 *)

Empty == [chunks |-> <<>>, head |-> 0, bytes |-> 0]

Push(p, chunk) ==
  [chunks |-> Append(p.chunks, chunk), head |-> p.head, bytes |-> p.bytes + Len(chunk)]

PendingFront(p) == SubSeq(p.chunks[1], p.head + 1, Len(p.chunks[1]))

Advance(p, n) ==
  IF p.head + n >= Len(p.chunks[1])
  THEN [chunks |-> Tail(p.chunks), head |-> 0, bytes |-> p.bytes - n]
  ELSE [chunks |-> p.chunks, head |-> p.head + n, bytes |-> p.bytes - n]

-----------------------------------------------------------------------------
(* The socket (smoltcp), which moves in iface.poll, between two dispatches *)

MaySend(s) == s.state \in {"Established", "CloseWait"}
MayRecv(s) == s.state \in {"Established", "FinWait1", "FinWait2"} \/ s.rx # <<>>

\* close: what the FIN makes of the state
Closing(state) == CASE state = "Established" -> "FinWait1"
                    [] state = "CloseWait" -> "LastAck"
                    [] OTHER -> state

\* A waker that fires is used up, and marks the flow.
Woken(s, wakers) ==
  /\ sock' = [s EXCEPT !.armed = @ \ wakers]
  /\ ready' = (ready \/ sock.armed \cap wakers # {})

Both == {"recv", "send"}

AppSends ==
  /\ ~taken /\ ~app.fin /\ app.sent < UpLen /\ Len(sock.rx) < TcpBuf
  /\ sock.state \in {"Established", "FinWait1", "FinWait2"}
  /\ app' = [app EXCEPT !.sent = @ + 1]
  /\ Woken([sock EXCEPT !.rx = Append(@, app.sent + 1)], {"recv"})
  /\ UNCHANGED <<conn, up, down, taken, reader, writer, server, aborted>>

AppCloses ==
  /\ ~taken /\ ~app.fin
  /\ \E to \in {<<"Established", "CloseWait">>, <<"FinWait1", "Closing">>,
                <<"FinWait2", "TimeWait">>} :
       /\ sock.state = to[1]
       /\ Woken([sock EXCEPT !.state = to[2]], Both)
  /\ app' = [app EXCEPT !.fin = TRUE]
  /\ UNCHANGED <<conn, up, down, taken, reader, writer, server, aborted>>

\* The app's kernel acknowledges the oldest byte, or our FIN once it has all.
AppAcks ==
  /\ ~taken /\ sock.tx # <<>>
  /\ app' = [app EXCEPT !.got = Append(@, Head(sock.tx))]
  /\ Woken([sock EXCEPT !.tx = Tail(@)], {"send"})
  /\ UNCHANGED <<conn, up, down, taken, reader, writer, server, aborted>>

AppAcksFin ==
  /\ ~taken /\ sock.tx = <<>>
  /\ \E to \in {<<"FinWait1", "FinWait2">>, <<"Closing", "TimeWait">>,
                <<"LastAck", "Closed">>} :
       /\ sock.state = to[1]
       /\ Woken([sock EXCEPT !.state = to[2]], Both)
  /\ app' = [app EXCEPT !.ended = TRUE]
  /\ UNCHANGED <<conn, up, down, taken, reader, writer, server, aborted>>

TimeWaitEnds ==
  /\ ~taken /\ sock.state = "TimeWait"
  /\ Woken([sock EXCEPT !.state = "Closed"], Both)
  /\ UNCHANGED <<conn, up, down, taken, reader, writer, app, server, aborted>>

\* A reset from the app, or a keepalive that nobody answered.
AppAborts ==
  /\ ~taken /\ sock.state # "Closed" /\ aborted' = TRUE
  /\ Woken([sock EXCEPT !.state = "Closed", !.tx = <<>>], Both)
  /\ UNCHANGED <<conn, up, down, taken, reader, writer, app, server>>

-----------------------------------------------------------------------------
(* dispatch                                                                *)

Take ==
  /\ ready /\ ~taken
  /\ ready' = FALSE /\ taken' = TRUE
  /\ UNCHANGED <<sock, conn, up, down, reader, writer, app, server, aborted>>

\* The sender of out_to_app and the receiver of app_to_out still exist.
OutTx == reader.pc \notin {"end", "done"}
AppRx == writer.pc # "done"

\* pending_out with the first k chunks of the channel behind it
Pulls[k \in 0 .. Len(down)] ==
  IF k = 0 THEN conn.pending ELSE Push(Pulls[k - 1], down[k])

\* The pulls after which the limit is reached.
Enough == {k \in 0 .. Len(down) : Pulls[k].bytes >= TcpBuf}

\* Mutant of Pulled: the end is noticed before the last chunk.
PulledEndsEarly ==
  LET k == IF Enough = {} THEN Len(down) ELSE Min(Enough)
  IN  [pending |-> Pulls[k], down |-> SubSeq(down, k + 1, Len(down)), out_eof |-> ~OutTx]

\* egress -> pending_out, up to the limit; the end is seen behind the last chunk
Pulled ==
  LET k == IF Enough = {} THEN Len(down) ELSE Min(Enough)
  IN  [pending |-> Pulls[k], down |-> SubSeq(down, k + 1, Len(down)),
       out_eof |-> conn.out_eof \/ (Enough = {} /\ ~OutTx)]

\* pending_out -> smoltcp tx: one send_slice of the front chunk, if it can
Slice(s) ==
  LET n == Min({Len(PendingFront(s.pending)), TcpBuf - Len(s.tx)})
  IN  IF s.pending.bytes = 0 \/ Len(s.tx) >= TcpBuf THEN s
      ELSE [pending |-> Advance(s.pending, n),
            tx |-> s.tx \o SubSeq(PendingFront(s.pending), 1, n)]

\* Each pass of the loop but the last empties a chunk.
Sent(pending) ==
  LET start == [pending |-> pending, tx |-> sock.tx]
      after[i \in 0 .. Len(pending.chunks)] == IF i = 0 THEN start ELSE Slice(after[i - 1])
  IN  IF MaySend(sock) THEN after[Len(pending.chunks)] ELSE start

\* The rx ring holds its bytes in one piece or, where it wraps, in two, of which the
\* first has n.
Pieces(n) ==
  IF n = Len(sock.rx) THEN <<sock.rx>>
  ELSE <<SubSeq(sock.rx, 1, n), SubSeq(sock.rx, n + 1, Len(sock.rx))>>

\* What is left in rx when k of the pieces are taken out.
Left(n, k) ==
  IF k = 0 THEN sock.rx ELSE IF k < Len(Pieces(n)) THEN Pieces(n)[2] ELSE <<>>

\* Mutant of Received: the bytes are taken out before there is room for them.
ReceivedFirst(n) ==
  LET room == Min({Len(Pieces(n)), UpCap - Len(up)})
  IN  IF sock.rx = <<>> \/ ~conn.app_to_out \/ ~AppRx
      THEN [rx |-> sock.rx, up |-> up]
      ELSE [rx |-> Left(n, room + 1), up |-> up \o SubSeq(Pieces(n), 1, room)]

\* smoltcp rx -> egress: a chunk for each reserved place
Received(n) ==
  LET room == Min({Len(Pieces(n)), UpCap - Len(up)})
  IN  IF sock.rx = <<>> \/ ~conn.app_to_out \/ ~AppRx
      THEN [rx |-> sock.rx, up |-> up]
      ELSE [rx |-> Left(n, room), up |-> up \o SubSeq(Pieces(n), 1, room)]

\* service_tcp
ServiceTcp(n) ==
  LET pulled == Pulled
      sent == Sent(pulled.pending)
      received == Received(n)
      established == conn.established \/ sock.state = "Established"
      moved == [sock EXCEPT !.tx = sent.tx, !.rx = received.rx]
      closes == pulled.out_eof /\ sent.pending.bytes = 0
      state == IF closes THEN Closing(sock.state) ELSE sock.state
  IN  /\ down' = pulled.down /\ up' = received.up
      /\ conn' = [live |-> state # "Closed", established |-> established,
                  app_to_out |-> conn.app_to_out /\ (established => MayRecv(moved)),
                  pending |-> sent.pending, out_eof |-> pulled.out_eof]
      /\ sock' = [moved EXCEPT !.state = state, !.armed = Both]
      /\ ready' = (ready \/ (state # sock.state /\ sock.armed # {}))

Service ==
  /\ taken /\ taken' = FALSE
  /\ IF conn.live
     THEN \E n \in 0 .. Len(sock.rx) : (n = 0 <=> sock.rx = <<>>) /\ ServiceTcp(n)
     ELSE UNCHANGED <<sock, conn, up, down, ready>>
  /\ UNCHANGED <<reader, writer, app, server, aborted>>

\* expire, for a flow that no service pass ever saw established
Reap ==
  /\ conn.live /\ ~conn.established /\ ~taken
  /\ conn' = [conn EXCEPT !.live = FALSE] /\ aborted' = TRUE
  /\ sock' = [sock EXCEPT !.state = "Closed", !.tx = <<>>, !.armed = {}]
  /\ UNCHANGED <<up, down, ready, taken, reader, writer, app, server>>

-----------------------------------------------------------------------------
(* tcp_task                                                                *)

Connect ==
  /\ reader.pc = "connect"
  /\ reader' = [reader EXCEPT !.pc = "read"] /\ writer' = [writer EXCEPT !.pc = "recv"]
  /\ UNCHANGED <<sock, conn, up, down, ready, taken, app, server, aborted>>

ConnectFails ==
  /\ reader.pc = "connect"
  /\ reader' = [reader EXCEPT !.pc = "drop"] /\ writer' = [writer EXCEPT !.pc = "done"]
  /\ aborted' = TRUE
  /\ UNCHANGED <<sock, conn, up, down, ready, taken, app, server>>

\* The server sends n bytes, or its FIN, or the connection breaks.
Read(n) ==
  /\ reader.pc = "read"
  /\ server.sent + n <= DownLen
  /\ server' = [server EXCEPT !.sent = @ + n]
  /\ reader' = [pc |-> "send", chunk |-> [i \in 1 .. n |-> server.sent + i]]
  /\ UNCHANGED <<sock, conn, up, down, ready, taken, writer, app, aborted>>

ReadEnds ==
  /\ reader.pc = "read"
  /\ reader' = [reader EXCEPT !.pc = "drop"]
  /\ \/ server' = [server EXCEPT !.fin = TRUE] /\ UNCHANGED aborted
     \/ aborted' = TRUE /\ UNCHANGED server
  /\ UNCHANGED <<sock, conn, up, down, ready, taken, writer, app>>

Deliver ==
  /\ reader.pc = "send"
  /\ IF conn.live
     THEN /\ Len(down) < DownCap
          /\ down' = Append(down, reader.chunk)
          /\ reader' = [pc |-> "mark", chunk |-> <<>>]
     ELSE reader' = [pc |-> "drop", chunk |-> <<>>] /\ UNCHANGED down
  /\ UNCHANGED <<sock, conn, up, ready, taken, writer, app, server, aborted>>

MarkDelivered ==
  /\ reader.pc = "mark"
  /\ reader' = [reader EXCEPT !.pc = "read"] /\ ready' = TRUE
  /\ UNCHANGED <<sock, conn, up, down, taken, writer, app, server, aborted>>

\* drop(out_tx), and then the mark; fail_flow does the same two.
DropOutTx ==
  /\ reader.pc = "drop"
  /\ reader' = [reader EXCEPT !.pc = "end"]
  /\ UNCHANGED <<sock, conn, up, down, ready, taken, writer, app, server, aborted>>

\* Mutant of MarkEnd: "a drop without a mark".
MarkEndNever ==
  /\ reader.pc = "end"
  /\ reader' = [reader EXCEPT !.pc = "done"]
  /\ UNCHANGED <<sock, conn, up, down, ready, taken, writer, app, server, aborted>>

MarkEnd ==
  /\ reader.pc = "end"
  /\ reader' = [reader EXCEPT !.pc = "done"] /\ ready' = TRUE
  /\ UNCHANGED <<sock, conn, up, down, taken, writer, app, server, aborted>>

\* app_rx.recv; once the channel is empty and its sender is gone, shutdown
Recv ==
  /\ writer.pc = "recv"
  /\ IF up # <<>>
     THEN /\ writer' = [pc |-> "write", chunk |-> Head(up)] /\ up' = Tail(up)
          /\ UNCHANGED server
     ELSE /\ ~(conn.live /\ conn.app_to_out)
          /\ writer' = [writer EXCEPT !.pc = "done"]
          /\ server' = [server EXCEPT !.ended = TRUE]
          /\ UNCHANGED up
  /\ UNCHANGED <<sock, conn, down, ready, taken, reader, app, aborted>>

\* write_all and the mark behind it
Write ==
  /\ writer.pc = "write"
  /\ server' = [server EXCEPT !.got = @ \o writer.chunk]
  /\ writer' = [pc |-> "recv", chunk |-> <<>>]
  /\ ready' = TRUE
  /\ UNCHANGED <<sock, conn, up, down, taken, reader, app, aborted>>

WriteFails ==
  /\ writer.pc = "write"
  /\ writer' = [pc |-> "done", chunk |-> <<>>]
  /\ aborted' = TRUE
  /\ UNCHANGED <<sock, conn, up, down, ready, taken, reader, app, server>>

-----------------------------------------------------------------------------

\* The handshake with the app is done, and open_tcp's own mark is pending.
Init ==
  /\ sock = [state |-> "Established", rx |-> <<>>, tx |-> <<>>, armed |-> Both]
  /\ conn = [live |-> TRUE, established |-> FALSE, app_to_out |-> TRUE,
             pending |-> Empty, out_eof |-> FALSE]
  /\ up = <<>> /\ down = <<>>
  /\ ready = TRUE /\ taken = FALSE
  /\ reader = [pc |-> "connect", chunk |-> <<>>]
  /\ writer = [pc |-> "connect", chunk |-> <<>>]
  /\ app = [sent |-> 0, fin |-> FALSE, got |-> <<>>, ended |-> FALSE]
  /\ server = [sent |-> 0, fin |-> FALSE, got |-> <<>>, ended |-> FALSE]
  /\ aborted = FALSE

Socket == AppAcks \/ AppAcksFin \/ TimeWaitEnds
Poll == Take \/ Service
Reading == Connect \/ Deliver \/ MarkDelivered \/ DropOutTx \/ MarkEnd
Writing == Recv \/ Write

Next ==
  \/ Socket \/ Poll \/ Reap \/ Reading \/ Writing
  \/ AppSends \/ AppCloses \/ AppAborts
  \/ ConnectFails \/ ReadEnds \/ WriteFails
  \/ \E n \in 1 .. TcpBuf : Read(n)

Spec == Init /\ [][Next]_vars

-----------------------------------------------------------------------------
(* Properties                                                              *)

Up == INSTANCE ByteStream WITH
  sent <- app.sent, fin <- app.fin, got <- server.got, ended <- server.ended,
  cut <- aborted \/ server.fin

Down == INSTANCE ByteStream WITH
  sent <- server.sent, fin <- server.fin, got <- app.got, ended <- app.ended,
  cut <- aborted

\* The app's bytes reach the server as a byte stream: what service_tcp takes from
\* the socket is in the channel, in order, and the server is told of the end
\* behind the last byte, unless the flow broke or the server closed first.
UpStream == Up!Spec

\* The server's bytes reach the app as a byte stream: through a channel, chunks
\* of any size, a queue that is left in the middle of a chunk and a tx buffer of
\* another size, and with our FIN behind the last byte.
DownStream == Down!Spec

\* None of Socket, Poll, Reap, Reading and Writing can do anything.
Waiting ==
  /\ ~ready /\ ~taken
  /\ sock.tx = <<>> /\ sock.state \in {"Established", "CloseWait", "FinWait2", "Closed"}
  /\ conn.live => conn.established
  /\ \/ reader.pc \in {"read", "done"}
     \/ reader.pc = "send" /\ conn.live /\ Len(down) = DownCap
  /\ \/ writer.pc = "done"
     \/ writer.pc = "recv" /\ up = <<>> /\ conn.live /\ conn.app_to_out

\* Nothing is stranded: when there is nothing left to do but wait for one of the
\* ends, everything either of them sent has arrived, and so has its end, unless
\* the flow broke or, for the app's bytes, the server closed first.  Whichever
\* buffer was full, something marks the flow once there is room in it; and the end
\* of the egress leg is dropped first and marked second, "the drop is what the
\* next service pass reads as EOF, the mark is what makes that pass happen".
NothingStranded ==
  Waiting =>
    \/ aborted
    \/ /\ Len(app.got) = server.sent /\ (server.fin => app.ended)
       /\ server.fin \/ (Len(server.got) = app.sent /\ (app.fin => server.ended))

\* "the bytes stay in the rx buffer, its window closes, and the app is
\* backpressured - no unbounded queue, no loss": a conversation that nobody broke
\* off, and whose end the server was told, has reached the server whole.
NoLoss ==
  server.ended /\ app.fin /\ ~aborted => Len(server.got) = app.sent
=============================================================================
