---------------------------- MODULE FlowIOProofs ----------------------------
(* That either direction of a flow is a byte stream, for every size of the  *)
(* buffers and the channels.                                                *)
EXTENDS FlowIO, Induction, SequenceTheorems, TLAPS

-----------------------------------------------------------------------------
(* Where the bytes are.                                                     *)

\* The bytes of a stream behind the first lo, up to hi.
Piece(lo, hi) == [i \in 1 .. hi - lo |-> lo + i]

\* The chunks of q, one after the other, are the bytes behind lo up to hi, and
\* none of them is empty; cut[k] is the end of the k-th.
Cuts(q, lo, hi, cut) ==
  /\ cut[0] = lo /\ cut[Len(q)] = hi
  /\ \A k \in 1 .. Len(q) : cut[k - 1] < cut[k] /\ q[k] = Piece(cut[k - 1], cut[k])

Chunks(q, lo, hi) == \E cut \in [0 .. Len(q) -> lo .. hi] : Cuts(q, lo, hi, cut)

\* The same of a Pending, whose first chunk is used up to head, but never whole.
Holds(p, lo, hi) ==
  /\ lo <= hi /\ p.bytes = hi - lo /\ p.head <= lo
  /\ Chunks(p.chunks, lo - p.head, hi)
  /\ IF p.chunks = <<>> THEN p.head = 0 ELSE p.head < Len(p.chunks[1])

\* From the app: what the server got, what the writer holds, the channel, and the
\* receive buffer, until the writer gives up.
UpChain ==
  writer.pc # "done" =>
    \E g, w, t \in 0 .. app.sent :
      /\ g <= w /\ w <= t
      /\ server.got = Piece(0, g) /\ writer.chunk = Piece(g, w)
      /\ Chunks(up, w, t) /\ sock.rx = Piece(t, app.sent)

\* From the server: what the app got, the send buffer, the pending output, the
\* channel, and what the reader holds, until the socket is closed.
DownChain ==
  sock.state # "Closed" =>
    \E a, b, c, d \in 0 .. server.sent :
      /\ a <= b /\ b <= c /\ c <= d
      /\ app.got = Piece(0, a) /\ sock.tx = Piece(a, b) /\ Holds(conn.pending, b, c)
      /\ Chunks(down, c, d) /\ reader.chunk = Piece(d, server.sent)

-----------------------------------------------------------------------------
(* Who has come how far.                                                    *)

PendingRec == [chunks : Seq(Seq(Nat)), head : Nat, bytes : Int]

States == {"Established", "FinWait1", "FinWait2", "CloseWait", "Closing", "LastAck",
           "TimeWait", "Closed"}

Types ==
  /\ sock = [state |-> sock.state, rx |-> sock.rx, tx |-> sock.tx, armed |-> sock.armed]
  /\ sock.state \in States /\ sock.rx \in Seq(Nat) /\ sock.tx \in Seq(Nat)
  /\ conn = [live |-> conn.live, established |-> conn.established,
             app_to_out |-> conn.app_to_out, pending |-> conn.pending, out_eof |-> conn.out_eof]
  /\ conn.pending \in PendingRec
  /\ up \in Seq(Seq(Nat)) /\ Len(up) <= UpCap /\ down \in Seq(Seq(Nat))
  /\ reader = [pc |-> reader.pc, chunk |-> reader.chunk] /\ reader.chunk \in Seq(Nat)
  /\ writer = [pc |-> writer.pc, chunk |-> writer.chunk] /\ writer.chunk \in Seq(Nat)
  /\ app = [sent |-> app.sent, fin |-> app.fin, got |-> app.got, ended |-> app.ended]
  /\ server = [sent |-> server.sent, fin |-> server.fin, got |-> server.got,
               ended |-> server.ended]
  /\ {app.sent, server.sent} \subseteq Nat /\ {app.got, server.got} \subseteq Seq(Nat)

\* The two halves of the task.
Halves ==
  /\ reader.pc = "send" <=> reader.chunk # <<>>
  /\ writer.pc # "write" => writer.chunk = <<>>
  /\ reader.pc = "connect" => writer.pc = "connect"
  /\ server.fin => reader.pc \in {"drop", "end", "done"}
  /\ reader.pc \in {"drop", "end", "done"} => aborted \/ server.fin
  /\ server.ended => writer.pc = "done"

\* Our FIN is sent when there is nothing left to send, and nothing can follow; the
\* app's is the end of what can be received.
Ends ==
  /\ conn.out_eof => down = <<>> /\ reader.pc \in {"end", "done"}
  /\ sock.state \in {"FinWait1", "FinWait2", "Closing", "LastAck", "TimeWait"} =>
       conn.out_eof /\ conn.pending.bytes = 0
  /\ sock.state \in {"FinWait2", "TimeWait", "Closed"} => sock.tx = <<>>
  /\ app.ended => sock.state \in {"FinWait2", "TimeWait", "Closed"}
  /\ sock.state \in {"CloseWait", "Closing", "LastAck", "TimeWait"} => app.fin
  /\ sock.state = "Closed" => aborted \/ server.fin
  /\ ~conn.live => sock.state = "Closed"
  /\ ~conn.app_to_out => aborted \/ server.fin \/ (app.fin /\ sock.rx = <<>>)

StreamInv == Types /\ Halves /\ Ends /\ UpChain /\ DownChain

-----------------------------------------------------------------------------
(* Pieces and chunks.                                                       *)

\* A piece is a sequence of the length of its span, and the piece behind 0 is what
\* a byte stream has delivered.
LEMMA PieceIs ==
  ASSUME NEW lo \in Nat, NEW hi \in Nat, lo <= hi
  PROVE  /\ Piece(lo, hi) \in Seq(Nat) /\ Len(Piece(lo, hi)) = hi - lo
         /\ DOMAIN Piece(lo, hi) = 1 .. hi - lo
         /\ \A i \in 1 .. hi - lo : Piece(lo, hi)[i] = lo + i
         /\ Piece(lo, hi) = <<>> <=> lo = hi
BY DEF Piece

\* A sequence with the bytes of a piece is the piece.
LEMMA IsPiece ==
  ASSUME NEW u \in Seq(Nat), NEW lo \in Nat, NEW hi \in Nat, Len(u) = hi - lo,
         \A i \in 1 .. hi - lo : u[i] = lo + i
  PROVE  u = Piece(lo, hi)
BY DEF Piece

\* Two pieces, one behind the other.
LEMMA PieceJoins ==
  ASSUME NEW lo \in Nat, NEW mid \in Nat, NEW hi \in Nat, lo <= mid, mid <= hi
  PROVE  Piece(lo, mid) \o Piece(mid, hi) = Piece(lo, hi)
<1> DEFINE s == Piece(lo, mid)
           t == Piece(mid, hi)
<1>1. /\ s \in Seq(Nat) /\ Len(s) = mid - lo /\ \A i \in 1 .. mid - lo : s[i] = lo + i
      /\ t \in Seq(Nat) /\ Len(t) = hi - mid /\ \A i \in 1 .. hi - mid : t[i] = mid + i
  BY PieceIs
<1> HIDE DEF s, t
<1>2. /\ s \o t \in Seq(Nat) /\ Len(s \o t) = hi - lo
      /\ \A i \in 1 .. hi - lo : (s \o t)[i] = lo + i
  BY <1>1
<1>3. s \o t = Piece(lo, hi)
  BY <1>2, IsPiece
<1> QED
  BY <1>3 DEF s, t

\* The front of a piece, and the rest.
LEMMA PieceSplits ==
  ASSUME NEW lo \in Nat, NEW hi \in Nat, NEW n \in 0 .. hi - lo
  PROVE  /\ SubSeq(Piece(lo, hi), 1, n) = Piece(lo, lo + n)
         /\ SubSeq(Piece(lo, hi), n + 1, hi - lo) = Piece(lo + n, hi)
<1>1. Piece(lo, hi) \in Seq(Nat) /\ Len(Piece(lo, hi)) = hi - lo
      /\ \A i \in 1 .. hi - lo : Piece(lo, hi)[i] = lo + i
  BY PieceIs
<1>2. SubSeq(Piece(lo, hi), 1, n) = Piece(lo, lo + n)
  BY <1>1 DEF Piece
<1>3. SubSeq(Piece(lo, hi), n + 1, hi - lo) = Piece(lo + n, hi)
  BY <1>1 DEF Piece
<1> QED
  BY <1>2, <1>3

\* A piece grows by the byte that follows it, and loses its first.
LEMMA PieceMoves ==
  ASSUME NEW lo \in Nat, NEW hi \in Nat, lo <= hi
  PROVE  /\ Append(Piece(lo, hi), hi + 1) = Piece(lo, hi + 1)
         /\ lo < hi => Head(Piece(lo, hi)) = lo + 1 /\ Tail(Piece(lo, hi)) = Piece(lo + 1, hi)
BY PieceIs DEF Piece

LEMMA ChunksEmpty ==
  ASSUME NEW lo \in Nat, NEW hi \in Nat
  PROVE  Chunks(<<>>, lo, hi) <=> lo = hi
<1>1. ASSUME lo = hi PROVE Chunks(<<>>, lo, hi)
  <2> DEFINE cut == [k \in 0 .. 0 |-> lo]
  <2>1. cut \in [0 .. 0 -> lo .. hi] /\ cut[0] = lo /\ Len(<<>>) = 0 /\ 1 .. 0 = {}
    BY <1>1
  <2> QED
    BY <1>1, <2>1 DEF Chunks, Cuts
<1>2. ASSUME Chunks(<<>>, lo, hi) PROVE lo = hi
  BY <1>2 DEF Chunks, Cuts
<1> QED
  BY <1>1, <1>2

\* A chunk goes in at the end.
LEMMA ChunksAppend ==
  ASSUME NEW q \in Seq(Seq(Nat)), NEW lo \in Nat, NEW mid \in Nat, NEW hi \in Nat,
         Chunks(q, lo, mid), mid < hi
  PROVE  Chunks(Append(q, Piece(mid, hi)), lo, hi)
<1>1. PICK cut \in [0 .. Len(q) -> lo .. mid] : Cuts(q, lo, mid, cut)
  BY DEF Chunks
<1> DEFINE q2 == Append(q, Piece(mid, hi))
           cut2 == [k \in 0 .. Len(q) + 1 |-> IF k <= Len(q) THEN cut[k] ELSE hi]
<1>2. Len(q2) = Len(q) + 1 /\ q2[Len(q) + 1] = Piece(mid, hi)
      /\ \A k \in 1 .. Len(q) : q2[k] = q[k]
  OBVIOUS
<1>3. cut2 \in [0 .. Len(q) + 1 -> lo .. hi]
  <2>1. \A k \in 0 .. Len(q) : cut[k] \in lo .. mid
    BY <1>1
  <2>2. lo <= mid
    BY <1>1, <2>1 DEF Cuts
  <2>3. \A k \in 0 .. Len(q) + 1 : cut2[k] \in lo .. hi
    BY <2>1, <2>2
  <2> QED
    BY <2>3
<1>4. cut2[0] = lo /\ cut2[Len(q) + 1] = hi
  BY <1>1 DEF Cuts
<1>5. ASSUME NEW k \in 1 .. Len(q) + 1
      PROVE  cut2[k - 1] < cut2[k] /\ q2[k] = Piece(cut2[k - 1], cut2[k])
  <2>1. CASE k <= Len(q)
    BY <1>1, <1>2, <2>1 DEF Cuts
  <2>2. CASE k = Len(q) + 1
    BY <1>1, <1>2, <2>2 DEF Cuts
  <2>3. k <= Len(q) \/ k = Len(q) + 1
    OBVIOUS
  <2> HIDE DEF q2, cut2
  <2> QED
    BY <2>1, <2>2, <2>3
<1> HIDE DEF q2, cut2
<1>6. Chunks(q2, lo, hi)
  BY <1>2, <1>3, <1>4, <1>5 DEF Chunks, Cuts
<1> QED
  BY <1>6 DEF q2

\* The chunks behind the first n, which end at mid.
LEMMA ChunksDrop ==
  ASSUME NEW q \in Seq(Seq(Nat)), NEW lo \in Nat, NEW hi \in Nat,
         NEW cut \in [0 .. Len(q) -> lo .. hi], Cuts(q, lo, hi, cut), NEW n \in 0 .. Len(q)
  PROVE  Chunks(SubSeq(q, n + 1, Len(q)), cut[n], hi)
<1> DEFINE q2 == SubSeq(q, n + 1, Len(q))
           cut2 == [k \in 0 .. Len(q) - n |-> cut[n + k]]
<1>1. Len(q2) = Len(q) - n /\ \A k \in 1 .. Len(q) - n : q2[k] = q[n + k]
  OBVIOUS
<1>2. \A k \in n .. Len(q) : cut[n] <= cut[k]
  <2> DEFINE S == {k \in Nat : n + k <= Len(q) => cut[n] <= cut[n + k]}
  <2>1. 0 \in S
    OBVIOUS
  <2>2. ASSUME NEW k \in 1 .. Len(q) - n, k - 1 \in S PROVE k \in S
    <3>1. cut[n] <= cut[n + k - 1]
      BY <2>2
    <3>2. n + k \in 1 .. Len(q)
      OBVIOUS
    <3>3. cut[n + k - 1] < cut[n + k]
      BY <3>2 DEF Cuts
    <3>4. {n, n + k - 1, n + k} \subseteq 0 .. Len(q)
      BY <3>2
    <3>5. {cut[n], cut[n + k - 1], cut[n + k]} \subseteq Nat
      <4>1. \A j \in 0 .. Len(q) : cut[j] \in lo .. hi
        OBVIOUS
      <4> QED
        BY <3>4, <4>1
    <3>6. cut[n] <= cut[n + k]
      BY <3>1, <3>3, <3>5
    <3> QED
      BY <3>6
  <2>3. Len(q) - n \in Nat
    OBVIOUS
  <2> HIDE DEF S
  <2>4. 0 .. Len(q) - n \subseteq S
    BY <2>1, <2>2, <2>3, UpTo
  <2>5. ASSUME NEW k \in n .. Len(q) PROVE cut[n] <= cut[k]
    <3>1. k - n \in S
      BY SMTT(30), <2>4
    <3> QED
      BY <3>1 DEF S
  <2> QED
    BY <2>5
<1>3. cut2 \in [0 .. Len(q) - n -> cut[n] .. hi]
  BY <1>2
<1>4. cut2[0] = cut[n] /\ cut2[Len(q) - n] = hi
  BY DEF Cuts
<1>5. ASSUME NEW k \in 1 .. Len(q) - n
      PROVE  cut2[k - 1] < cut2[k] /\ q2[k] = Piece(cut2[k - 1], cut2[k])
  <2>1. n + k \in 1 .. Len(q) /\ (n + k) - 1 = n + (k - 1)
    OBVIOUS
  <2>2. cut[n + k - 1] < cut[n + k] /\ q[n + k] = Piece(cut[n + k - 1], cut[n + k])
    BY <2>1 DEF Cuts
  <2>3. k - 1 \in 0 .. Len(q) - n /\ k \in 0 .. Len(q) - n
    OBVIOUS
  <2>4. cut2[k - 1] = cut[n + (k - 1)] /\ cut2[k] = cut[n + k]
    BY <2>3
  <2>5. q2[k] = q[n + k]
    BY <1>1
  <2> HIDE DEF q2, cut2
  <2> QED
    BY <2>1, <2>2, <2>4, <2>5
<1> HIDE DEF q2, cut2
<1>6. Chunks(q2, cut[n], hi)
  BY <1>1, <1>3, <1>4, <1>5 DEF Chunks, Cuts
<1> QED
  BY <1>6 DEF q2

LEMMA ChunksFirst ==
  ASSUME NEW q \in Seq(Seq(Nat)), NEW lo \in Nat, NEW hi \in Nat, Chunks(q, lo, hi), q # <<>>
  PROVE  /\ lo + Len(q[1]) <= hi /\ Len(q[1]) \in Nat \ {0}
         /\ q[1] = Piece(lo, lo + Len(q[1]))
         /\ Tail(q) \in Seq(Seq(Nat)) /\ Chunks(Tail(q), lo + Len(q[1]), hi)
<1>1. PICK cut \in [0 .. Len(q) -> lo .. hi] : Cuts(q, lo, hi, cut)
  BY DEF Chunks
<1>2. Len(q) \in Nat \ {0} /\ Tail(q) = SubSeq(q, 1 + 1, Len(q)) /\ Tail(q) \in Seq(Seq(Nat))
  OBVIOUS
<1>3. 1 \in 1 .. Len(q) /\ 1 \in 0 .. Len(q)
  BY <1>2
<1>4. cut[0] = lo /\ cut[0] < cut[1] /\ q[1] = Piece(cut[0], cut[1])
  BY <1>1, <1>3 DEF Cuts
<1>5. PICK end \in lo .. hi : end = cut[1]
  BY <1>3
<1>6. end \in Nat /\ lo < end /\ end <= hi /\ q[1] = Piece(lo, end)
  BY <1>4, <1>5
<1>7. Len(q[1]) = end - lo
  BY <1>6, PieceIs
<1>8. lo + Len(q[1]) = end /\ Len(q[1]) \in Nat \ {0}
  BY <1>6, <1>7
<1>9. Chunks(Tail(q), end, hi)
  BY <1>1, <1>2, <1>3, <1>5, ChunksDrop
<1> QED
  BY <1>2, <1>6, <1>8, <1>9

-----------------------------------------------------------------------------
(* Pending.                                                                 *)

LEMMA PendingIs ==
  ASSUME NEW p \in PendingRec
  PROVE  p.chunks \in Seq(Seq(Nat)) /\ p.head \in Nat /\ p.bytes \in Int
BY DEF PendingRec

LEMMA PushHolds ==
  ASSUME NEW p \in PendingRec, NEW lo \in Nat, NEW mid \in Nat, NEW hi \in Nat,
         Holds(p, lo, mid), mid < hi
  PROVE  Holds(Push(p, Piece(mid, hi)), lo, hi)
<1>0. mid <= hi /\ hi - mid \in Nat \ {0}
  OBVIOUS
<1>1. PICK c : c = Piece(mid, hi)
  OBVIOUS
<1>2. c \in Seq(Nat) /\ Len(c) = hi - mid
  BY <1>0, <1>1, PieceIs
<1>3. PICK q : q = p.chunks
  OBVIOUS
<1>4. /\ lo <= mid /\ p.bytes = mid - lo /\ p.head <= lo
      /\ Chunks(q, lo - p.head, mid)
      /\ IF q = <<>> THEN p.head = 0 ELSE p.head < Len(q[1])
  BY <1>3 DEF Holds
<1>5. q \in Seq(Seq(Nat)) /\ p.head \in Nat /\ p.bytes \in Int
  BY <1>3, PendingIs
<1>6. lo - p.head \in Nat
  BY <1>4, <1>5
<1>7. Chunks(Append(q, c), lo - p.head, hi)
  BY <1>1, <1>4, <1>5, <1>6, ChunksAppend
<1>8. /\ Push(p, c).chunks = Append(q, c) /\ Push(p, c).head = p.head
      /\ Push(p, c).bytes = p.bytes + Len(c)
  BY <1>3 DEF Push
<1>9. Append(q, c) # <<>> /\ p.head < Len(Append(q, c)[1])
  <2>1. CASE q = <<>>
    BY <1>0, <1>2, <1>4, <1>5, <2>1
  <2>2. CASE q # <<>>
    <3>1. Append(q, c)[1] = q[1] /\ Append(q, c) # <<>>
      BY SMTT(30), <1>2, <1>5, <2>2
    <3> QED
      BY <1>4, <2>2, <3>1
  <2> QED
    BY <2>1, <2>2
<1>10. lo <= hi /\ p.bytes + Len(c) = hi - lo
  BY <1>2, <1>4, <1>5
<1>11. Holds(Push(p, c), lo, hi)
  BY <1>4, <1>7, <1>8, <1>9, <1>10 DEF Holds
<1> QED
  BY <1>1, <1>11

\* A chunk keeps the record well-formed, whatever it holds.
LEMMA PushTyped ==
  ASSUME NEW p \in PendingRec, NEW c \in Seq(Nat)
  PROVE  Push(p, c) \in PendingRec
<1>1. Append(p.chunks, c) \in Seq(Seq(Nat)) /\ p.head \in Nat /\ p.bytes + Len(c) \in Int
  BY PendingIs
<1> QED
  BY <1>1 DEF Push, PendingRec

\* What is at the front, and what is left when n bytes of it have gone.
LEMMA FrontHolds ==
  ASSUME NEW p \in PendingRec, NEW lo \in Nat, NEW hi \in Nat, Holds(p, lo, hi), p.bytes # 0
  PROVE  LET front == PendingFront(p)
         IN  /\ Len(front) \in Nat \ {0} /\ lo + Len(front) <= hi
             /\ front = Piece(lo, lo + Len(front))
             /\ \A n \in 1 .. Len(front) :
                  Advance(p, n) \in PendingRec /\ Holds(Advance(p, n), lo + n, hi)
<1>1. PICK q : q = p.chunks
  OBVIOUS
<1>2. PICK head \in Nat : head = p.head
  BY PendingIs
<1>3. /\ lo <= hi /\ p.bytes = hi - lo /\ head <= lo
      /\ Chunks(q, lo - head, hi) /\ q \in Seq(Seq(Nat))
      /\ IF q = <<>> THEN head = 0 ELSE head < Len(q[1])
  BY <1>1, <1>2, PendingIs DEF Holds
<1>4. PICK at \in Nat : at = lo - head
  BY <1>3
<1>5. q # <<>>
  <2>1. ASSUME q = <<>> PROVE FALSE
    <3>1. head = 0 /\ at = lo /\ Chunks(<<>>, lo, hi)
      BY <1>3, <1>4, <2>1
    <3> QED
      BY <1>3, <3>1, ChunksEmpty
  <2> QED
    BY <2>1
<1>6. /\ at + Len(q[1]) <= hi /\ Len(q[1]) \in Nat \ {0}
      /\ q[1] = Piece(at, at + Len(q[1]))
      /\ Tail(q) \in Seq(Seq(Nat)) /\ Chunks(Tail(q), at + Len(q[1]), hi)
  BY <1>3, <1>4, <1>5, ChunksFirst
<1>7. PICK end \in Nat : end = at + Len(q[1])
  BY <1>6
<1>8. head < end - at /\ Len(q[1]) = end - at
  BY <1>3, <1>5, <1>6, <1>7
<1>9. at < end /\ head \in 0 .. end - at /\ at + head = lo /\ lo < end /\ end <= hi
  BY SMTT(30), <1>3, <1>4, <1>6, <1>7, <1>8
<1>10. PendingFront(p) = SubSeq(Piece(at, end), head + 1, end - at)
  BY <1>1, <1>2, <1>6, <1>7, <1>8 DEF PendingFront
<1>11. PICK front : front = PendingFront(p)
  OBVIOUS
<1>12. front = Piece(lo, end)
  BY <1>9, <1>10, <1>11, PieceSplits
<1>13. Len(front) = end - lo
  <2>1. lo <= end
    BY <1>9
  <2>2. Len(Piece(lo, end)) = end - lo
    BY <2>1, PieceIs
  <2> QED
    BY <1>12, <2>2
<1>14. ASSUME NEW n \in 1 .. end - lo
       PROVE  Advance(p, n) \in PendingRec /\ Holds(Advance(p, n), lo + n, hi)
  <2>0. p.bytes - n \in Int /\ head + n \in Nat /\ lo + n \in Nat
    BY <1>3
  <2>1. CASE head + n >= Len(q[1])
    <3>1. lo + n = end
      BY <1>8, <1>9, <2>1
    <3>2. Advance(p, n) = [chunks |-> Tail(q), head |-> 0, bytes |-> p.bytes - n]
      BY <1>1, <1>2, <2>1 DEF Advance
    <3>3. hi - end = p.bytes - n
      BY <1>3, <3>1
    <3>4. Advance(p, n) \in PendingRec
      BY <1>6, <2>0, <3>2 DEF PendingRec
    <3>5. Tail(q) # <<>> => 0 < Len(Tail(q)[1])
      <4>1. Tail(q) \in Seq(Seq(Nat)) /\ Chunks(Tail(q), end, hi)
        BY <1>6, <1>7
      <4>2. Tail(q) # <<>> => Len(Tail(q)[1]) \in Nat \ {0}
        BY <4>1, ChunksFirst
      <4> QED
        BY <4>2
    <3>6. Chunks(Tail(q), end - 0, hi) /\ end <= hi /\ 0 <= end
      BY <1>6, <1>7
    <3> QED
      BY SMTT(30), <3>1, <3>2, <3>3, <3>4, <3>5, <3>6 DEF Holds
  <2>2. CASE ~(head + n >= Len(q[1]))
    <3>1. Advance(p, n) = [chunks |-> q, head |-> head + n, bytes |-> p.bytes - n]
      BY <1>1, <1>2, <2>2 DEF Advance
    <3>2. Advance(p, n) \in PendingRec
      BY <1>3, <2>0, <3>1 DEF PendingRec
    <3>3. lo + n <= hi /\ p.bytes - n = hi - (lo + n) /\ (lo + n) - (head + n) = at
          /\ head + n <= lo + n
      BY <1>3, <1>4, <1>9
    <3>4. head + n < Len(q[1])
      BY <1>8, <2>2
    <3>5. Chunks(q, at, hi)
      BY <1>3, <1>4
    <3> QED
      BY <1>5, <3>1, <3>2, <3>3, <3>4, <3>5 DEF Holds
  <2> QED
    BY <2>1, <2>2
<1>15. Len(front) \in Nat \ {0} /\ lo + Len(front) = end
  BY <1>9, <1>13
<1> QED
  BY <1>9, <1>11, <1>12, <1>13, <1>14, <1>15

-----------------------------------------------------------------------------
(* The loops of service_tcp.                                                *)

LEMMA SizesAre == {TcpBuf, UpCap, DownCap} \subseteq Nat \ {0}
BY FlowIOAssumption

\* The smaller of two numbers.
LEMMA LesserOf ==
  ASSUME NEW a \in Int, NEW b \in Int
  PROVE  Min({a, b}) = IF a <= b THEN a ELSE b
<1>1. CASE a <= b
  BY <1>1 DEF Min
<1>2. CASE ~(a <= b)
  BY <1>2 DEF Min
<1> QED
  BY <1>1, <1>2

\* A send buffer and a pending output, on the way from a to c.
SliceRec == [pending : PendingRec, tx : Seq(Nat)]
SliceOk(s, a, c) ==
  s.tx = Piece(a, a + Len(s.tx)) /\ Holds(s.pending, a + Len(s.tx), c)

LEMMA SliceHolds ==
  ASSUME NEW a \in Nat, NEW c \in Nat, NEW s \in SliceRec, SliceOk(s, a, c)
  PROVE  Slice(s) \in SliceRec /\ SliceOk(Slice(s), a, c)
<1>1. PICK p \in PendingRec : p = s.pending
  BY DEF SliceRec
<1>2. PICK tx \in Seq(Nat) : tx = s.tx
  BY DEF SliceRec
<1>3. PICK b \in Nat : b = a + Len(tx)
  OBVIOUS
<1>4. tx = Piece(a, b) /\ Holds(p, b, c) /\ Len(tx) \in Nat /\ TcpBuf \in Nat \ {0}
  BY <1>1, <1>2, <1>3, SizesAre DEF SliceOk
<1>5. CASE p.bytes = 0 \/ Len(tx) >= TcpBuf
  <2>1. Slice(s) = s
    BY <1>1, <1>2, <1>5 DEF Slice
  <2> QED
    BY <2>1
<1>6. CASE ~(p.bytes = 0 \/ Len(tx) >= TcpBuf)
  <2>1. PICK front : front = PendingFront(p)
    OBVIOUS
  <2>2. /\ Len(front) \in Nat \ {0} /\ b + Len(front) <= c
        /\ front = Piece(b, b + Len(front))
        /\ \A n \in 1 .. Len(front) :
             Advance(p, n) \in PendingRec /\ Holds(Advance(p, n), b + n, c)
    BY <1>4, <1>6, <2>1, FrontHolds
  <2>3. PICK n : n = Min({Len(front), TcpBuf - Len(tx)})
    OBVIOUS
  <2>4. TcpBuf - Len(tx) \in Nat \ {0}
    BY <1>4, <1>6
  <2>5. n \in 1 .. Len(front)
    <3>1. n = IF Len(front) <= TcpBuf - Len(tx) THEN Len(front) ELSE TcpBuf - Len(tx)
      BY SMTT(30), <2>2, <2>3, <2>4, LesserOf
    <3> QED
      BY <2>2, <2>4, <3>1
  <2>6. Slice(s) = [pending |-> Advance(p, n), tx |-> tx \o SubSeq(front, 1, n)]
    BY <1>1, <1>2, <1>6, <2>1, <2>3 DEF Slice
  <2>7. PICK e \in Nat : e = b + Len(front)
    BY <2>2
  <2>8. n \in 0 .. e - b /\ b + n \in Nat /\ a <= b /\ b <= b + n /\ n \in Nat
    BY <1>3, <2>2, <2>5, <2>7
  <2>9. SubSeq(front, 1, n) = Piece(b, b + n)
    <3>1. front = Piece(b, e)
      BY <2>2, <2>7
    <3>2. SubSeq(Piece(b, e), 1, n) = Piece(b, b + n)
      BY <2>8, PieceSplits
    <3> QED
      BY <3>1, <3>2
  <2>10. tx \o SubSeq(front, 1, n) = Piece(a, b + n)
    <3>1. Piece(a, b) \o Piece(b, b + n) = Piece(a, b + n)
      BY <2>8, PieceJoins
    <3> QED
      BY <1>4, <2>9, <3>1
  <2>11. a <= b + n
    BY <2>8
  <2>12. Piece(a, b + n) \in Seq(Nat) /\ Len(Piece(a, b + n)) = (b + n) - a
    BY <2>8, <2>11, PieceIs
  <2>13. a + Len(Piece(a, b + n)) = b + n
    BY <2>8, <2>12
  <2>14. Slice(s) = [pending |-> Advance(p, n), tx |-> Piece(a, b + n)]
    BY <2>6, <2>10
  <2>15. Slice(s) \in SliceRec
    BY <2>2, <2>5, <2>12, <2>14 DEF SliceRec
  <2> QED
    BY <2>2, <2>5, <2>13, <2>14, <2>15 DEF SliceOk
<1> QED
  BY <1>5, <1>6

\* The passes of the loop that fills the send buffer.
Passes(f, pending, a, c) ==
  LET len == Len(pending.chunks)
  IN  /\ f[0] = [pending |-> pending, tx |-> sock.tx]
      /\ \A i \in 1 .. len : f[i] = Slice(f[i - 1])
      /\ \A i \in 0 .. len : f[i] \in SliceRec /\ SliceOk(f[i], a, c)
      /\ Sent(pending) = IF MaySend(sock) THEN f[len] ELSE f[0]

LEMMA SentPasses ==
  ASSUME NEW a \in Nat, NEW c \in Nat, NEW pending \in PendingRec, sock.tx \in Seq(Nat),
         SliceOk([pending |-> pending, tx |-> sock.tx], a, c)
  PROVE  \E f : Passes(f, pending, a, c)
<1> DEFINE start == [pending |-> pending, tx |-> sock.tx]
           len == Len(pending.chunks)
           after[i \in 0 .. len] == IF i = 0 THEN start ELSE Slice(after[i - 1])
           S == {s \in SliceRec : SliceOk(s, a, c)}
           step == [i \in 1 .. len |-> [s \in S |-> Slice(s)]]
<1>1. len \in Nat
  BY PendingIs
<1>2. start \in S
  BY DEF SliceRec
<1>3. \A s \in S : Slice(s) \in S
  BY SliceHolds
<1> HIDE DEF S, start, len, after
<1>4. step \in [1 .. len -> [S -> S]]
  BY <1>3
<1>5. \A i \in 1 .. len, s \in S : step[i][s] = Slice(s)
  OBVIOUS
<1> HIDE DEF step
<1>6. PICK f : Recursion(f, len, S, start, step)
  BY <1>1, <1>2, <1>4, RecursionExists
<1>7. \A i \in 0 .. len : f[i] \in S
  BY <1>6 DEF Recursion
<1>8. \A i \in 1 .. len : f[i] = Slice(f[i - 1])
  <2>1. \A i \in 1 .. len : i - 1 \in 0 .. len
    BY <1>1
  <2>2. \A i \in 1 .. len : f[i - 1] \in S
    BY <1>7, <2>1
  <2> QED
    BY <1>5, <1>6, <2>2 DEF Recursion
<1>9. f = [i \in 0 .. len |-> IF i = 0 THEN start ELSE Slice(f[i - 1])]
  <2>1. f \in [0 .. len -> S] /\ f[0] = start
    BY <1>6 DEF Recursion
  <2>2. \A i \in 0 .. len : f[i] = IF i = 0 THEN start ELSE Slice(f[i - 1])
    <3>1. \A i \in 0 .. len : i # 0 => i \in 1 .. len
      BY <1>1
    <3> QED
      BY <1>8, <2>1, <3>1
  <2> QED
    BY <2>1, <2>2
<1>10. after = [i \in 0 .. len |-> IF i = 0 THEN start ELSE Slice(after[i - 1])]
  BY <1>9 DEF after
<1>11. after[0] = start /\ \A i \in 1 .. len : after[i] = Slice(after[i - 1])
  BY <1>1, <1>10
<1>12. \A i \in 0 .. len : after[i] \in S
  <2> DEFINE good == {i \in 0 .. len : after[i] \in S}
  <2>1. 0 \in good
    BY <1>1, <1>2, <1>11
  <2>2. \A i \in 1 .. len : i - 1 \in good => i \in good
    BY <1>1, <1>3, <1>11
  <2> HIDE DEF good
  <2>3. 0 .. len \subseteq good
    BY <1>1, <2>1, <2>2, UpTo
  <2> QED
    BY <1>1, <2>3 DEF good
<1>13. Sent(pending) = IF MaySend(sock) THEN after[len] ELSE start
  BY DEF Sent, after, start, len
<1>14. \A i \in 0 .. len : after[i] \in SliceRec /\ SliceOk(after[i], a, c)
  BY <1>12 DEF S
<1>15. Sent(pending) = IF MaySend(sock) THEN after[len] ELSE after[0]
  BY <1>11, <1>13
<1> HIDE DEF after
<1>16. Passes(after, pending, a, c)
  BY <1>11, <1>14, <1>15 DEF Passes, start, len
<1> QED
  BY <1>16

\* Only what is at the front of the pending output goes into the send buffer.
LEMMA SentHolds ==
  ASSUME NEW a \in Nat, NEW c \in Nat, NEW pending \in PendingRec, sock.tx \in Seq(Nat),
         SliceOk([pending |-> pending, tx |-> sock.tx], a, c)
  PROVE  Sent(pending) \in SliceRec /\ SliceOk(Sent(pending), a, c)
<1>1. PICK f : Passes(f, pending, a, c)
  BY SentPasses
<1>2. Len(pending.chunks) \in Nat
  BY PendingIs
<1> QED
  BY <1>1, <1>2 DEF Passes

\* pending_out after each pull.
LEMMA PullsAre ==
  ASSUME conn.pending \in PendingRec, down \in Seq(Seq(Nat))
  PROVE  /\ Pulls[0] = conn.pending
         /\ \A k \in 1 .. Len(down) : Pulls[k] = Push(Pulls[k - 1], down[k])
         /\ \A k \in 0 .. Len(down) : Pulls[k] \in PendingRec
<1> DEFINE step == [k \in 1 .. Len(down) |-> [p \in PendingRec |-> Push(p, down[k])]]
<1>1. Len(down) \in Nat
  OBVIOUS
<1>2. \A k \in 1 .. Len(down) : down[k] \in Seq(Nat)
  OBVIOUS
<1>3. \A k \in 1 .. Len(down), p \in PendingRec : Push(p, down[k]) \in PendingRec
  BY <1>2, PushTyped
<1>4. step \in [1 .. Len(down) -> [PendingRec -> PendingRec]]
  BY <1>3
<1>5. \A k \in 1 .. Len(down), p \in PendingRec : step[k][p] = Push(p, down[k])
  OBVIOUS
<1> HIDE DEF step
<1>6. PICK f : Recursion(f, Len(down), PendingRec, conn.pending, step)
  BY <1>1, <1>4, RecursionExists
<1>7. \A k \in 1 .. Len(down) : f[k] = Push(f[k - 1], down[k])
  <2>1. \A k \in 1 .. Len(down) : k - 1 \in 0 .. Len(down)
    BY <1>1
  <2>2. \A k \in 1 .. Len(down) : f[k - 1] \in PendingRec
    BY <1>6, <2>1 DEF Recursion
  <2> QED
    BY <1>5, <1>6, <2>2 DEF Recursion
<1>8. f = [k \in 0 .. Len(down) |-> IF k = 0 THEN conn.pending ELSE Push(f[k - 1], down[k])]
  BY <1>1, <1>6, <1>7 DEF Recursion
<1>9. Pulls = [k \in 0 .. Len(down) |->
                 IF k = 0 THEN conn.pending ELSE Push(Pulls[k - 1], down[k])]
  BY <1>8 DEF Pulls
<1>10. /\ Pulls[0] = conn.pending
       /\ \A k \in 1 .. Len(down) : Pulls[k] = Push(Pulls[k - 1], down[k])
  <2>1. 0 \in 0 .. Len(down) /\ \A k \in 1 .. Len(down) : k \in 0 .. Len(down) /\ k # 0
    BY <1>1
  <2>2. Pulls[0] = conn.pending
    BY <1>9, <2>1
  <2>3. ASSUME NEW k \in 1 .. Len(down) PROVE Pulls[k] = Push(Pulls[k - 1], down[k])
    <3>1. k \in 0 .. Len(down) /\ k # 0
      BY <2>1
    <3> QED
      BY <1>9, <3>1
  <2> QED
    BY <2>2, <2>3
<1>11. \A k \in 0 .. Len(down) : Pulls[k] \in PendingRec
  <2> DEFINE good == {k \in 0 .. Len(down) : Pulls[k] \in PendingRec}
  <2>1. 0 \in good
    BY <1>1, <1>10
  <2>2. \A k \in 1 .. Len(down) : k - 1 \in good => k \in good
    BY <1>1, <1>3, <1>10
  <2> HIDE DEF good
  <2>3. 0 .. Len(down) \subseteq good
    BY <1>1, <2>1, <2>2, UpTo
  <2> QED
    BY <2>3 DEF good
<1> QED
  BY <1>10, <1>11

\* How many chunks a pass pulls.
LEMMA PulledIs ==
  ASSUME conn.pending \in PendingRec, down \in Seq(Seq(Nat))
  PROVE  \E k \in 0 .. Len(down) :
           /\ Pulled.pending = Pulls[k] /\ Pulled.down = SubSeq(down, k + 1, Len(down))
           /\ Pulled.out_eof <=> conn.out_eof \/ (Enough = {} /\ ~OutTx)
           /\ IF Enough = {} THEN k = Len(down) ELSE Pulls[k].bytes >= TcpBuf
<1> DEFINE k == IF Enough = {} THEN Len(down) ELSE Min(Enough)
<1>1. k \in 0 .. Len(down) /\ IF Enough = {} THEN k = Len(down) ELSE k \in Enough
  <2>1. CASE Enough = {}
    BY <2>1
  <2>2. CASE Enough # {}
    <3>1. Enough \in SUBSET Nat /\ Enough \subseteq 0 .. Len(down)
      BY DEF Enough
    <3>2. PICK least \in Enough : \A t \in Enough : least <= t
      BY <2>2, <3>1, LeastExists
    <3>3. Min(Enough) \in Enough
      BY <3>2 DEF Min
    <3> QED
      BY <2>2, <3>1, <3>3
  <2> QED
    BY <2>1, <2>2
<1>2. /\ Pulled.pending = Pulls[k] /\ Pulled.down = SubSeq(down, k + 1, Len(down))
      /\ Pulled.out_eof <=> conn.out_eof \/ (Enough = {} /\ ~OutTx)
  BY DEF Pulled
<1>3. IF Enough = {} THEN k = Len(down) ELSE Pulls[k].bytes >= TcpBuf
  BY <1>1 DEF Enough
<1> HIDE DEF k
<1> QED
  BY <1>1, <1>2, <1>3

\* A pass moves whole chunks from the channel to the pending output.
LEMMA PulledHolds ==
  ASSUME conn.pending \in PendingRec, down \in Seq(Seq(Nat)),
         NEW b \in Nat, NEW c \in Nat, NEW d \in Nat,
         Holds(conn.pending, b, c), Chunks(down, c, d)
  PROVE  \E e \in c .. d : Holds(Pulled.pending, b, e) /\ Chunks(Pulled.down, e, d)
<1>1. PICK cut \in [0 .. Len(down) -> c .. d] : Cuts(down, c, d, cut)
  BY DEF Chunks
<1>2. Len(down) \in Nat
  OBVIOUS
<1>3. \A k \in 0 .. Len(down) : Holds(Pulls[k], b, cut[k])
  <2> DEFINE good == {k \in 0 .. Len(down) : Holds(Pulls[k], b, cut[k])}
  <2>1. 0 \in good
    <3>1. Holds(Pulls[0], b, cut[0])
      BY <1>1, PullsAre DEF Cuts
    <3> QED
      BY <1>2, <3>1
  <2>2. ASSUME NEW k \in 1 .. Len(down), k - 1 \in good PROVE k \in good
    <3>1. k - 1 \in 0 .. Len(down) /\ k \in 0 .. Len(down)
      BY <1>2
    <3>2. cut[k - 1] \in Nat /\ cut[k] \in Nat
      <4>1. cut[k - 1] \in c .. d /\ cut[k] \in c .. d
        BY <3>1
      <4> QED
        BY <4>1
    <3>3. cut[k - 1] < cut[k] /\ down[k] = Piece(cut[k - 1], cut[k])
      BY <1>1 DEF Cuts
    <3>4. Pulls[k - 1] \in PendingRec /\ Pulls[k] = Push(Pulls[k - 1], Piece(cut[k - 1], cut[k]))
      BY <3>1, <3>3, PullsAre
    <3>5. Holds(Pulls[k - 1], b, cut[k - 1])
      BY <2>2
    <3>6. Holds(Pulls[k], b, cut[k])
      BY <3>2, <3>3, <3>4, <3>5, PushHolds
    <3> QED
      BY <3>1, <3>6
  <2> HIDE DEF good
  <2>3. \A k \in 1 .. Len(down) : k - 1 \in good => k \in good
    BY <2>2
  <2>4. 0 .. Len(down) \subseteq good
    BY <1>2, <2>1, <2>3, UpTo
  <2> QED
    BY <2>4 DEF good
<1>4. PICK k \in 0 .. Len(down) :
        Pulled.pending = Pulls[k] /\ Pulled.down = SubSeq(down, k + 1, Len(down))
  BY PulledIs
<1>5. Chunks(Pulled.down, cut[k], d)
  BY <1>1, <1>4, ChunksDrop
<1>6. Holds(Pulled.pending, b, cut[k]) /\ cut[k] \in c .. d
  BY <1>3, <1>4
<1> QED
  BY <1>5, <1>6

LEMMA PulledTyped ==
  ASSUME conn.pending \in PendingRec, down \in Seq(Seq(Nat))
  PROVE  Pulled.pending \in PendingRec /\ Pulled.down \in Seq(Seq(Nat))
<1>1. PICK k \in 0 .. Len(down) :
        Pulled.pending = Pulls[k] /\ Pulled.down = SubSeq(down, k + 1, Len(down))
  BY PulledIs
<1>2. SubSeq(down, k + 1, Len(down)) \in Seq(Seq(Nat))
  OBVIOUS
<1> QED
  BY <1>1, <1>2, PullsAre

LEMMA FrontOfTwo ==
  ASSUME NEW p \in Seq(Nat), NEW q \in Seq(Nat)
  PROVE  SubSeq(<<p, q>>, 1, 1) = <<p>> /\ SubSeq(<<p, q>>, 1, 2) = <<p, q>>
<1>0. <<p, q>> \in Seq(Seq(Nat)) /\ <<p>> \in Seq(Seq(Nat)) /\ Len(<<p>>) = 1 /\ <<p>>[1] = p
  OBVIOUS
<1>1. PICK s \in Seq(Seq(Nat)) : s = <<p, q>>
  BY <1>0
<1>2. Len(s) = 2 /\ s[1] = p /\ s[2] = q
  BY <1>1
<1>3. SubSeq(s, 1, 1) = <<p>>
  <2>1. /\ SubSeq(s, 1, 1) \in Seq(Seq(Nat)) /\ Len(SubSeq(s, 1, 1)) = 1
        /\ SubSeq(s, 1, 1)[1] = p
    BY <1>2
  <2>2. \A i \in 1 .. 1 : SubSeq(s, 1, 1)[i] = <<p>>[i]
    BY <1>0, <2>1
  <2> QED
    BY ZenonT(30), <1>0, <2>1, <2>2, SeqEqual
<1>4. SubSeq(s, 1, 2) = s
  <2>1. /\ SubSeq(s, 1, 2) \in Seq(Seq(Nat)) /\ Len(SubSeq(s, 1, 2)) = 2
        /\ \A i \in 1 .. 2 : SubSeq(s, 1, 2)[i] = s[i]
    BY <1>2
  <2> QED
    BY <1>2, <2>1, SeqEqual
<1> QED
  BY <1>1, <1>3, <1>4

\* A pass moves bytes from the front of the receive buffer into the channel.
LEMMA ReceivedHolds ==
  ASSUME sock.rx \in Seq(Nat), up \in Seq(Seq(Nat)), Len(up) <= UpCap,
         NEW w \in Nat, NEW t \in Nat, NEW e \in Nat, t <= e,
         Chunks(up, w, t), sock.rx = Piece(t, e),
         NEW n \in 0 .. Len(sock.rx), n = 0 <=> sock.rx = <<>>
  PROVE  \E m \in t .. e :
           /\ Chunks(Received(n).up, w, m) /\ Received(n).rx = Piece(m, e)
           /\ Received(n).up \in Seq(Seq(Nat)) /\ Len(Received(n).up) <= UpCap
<1>0. Len(sock.rx) = e - t /\ UpCap \in Nat /\ Len(up) \in Nat
  <2>1. Len(Piece(t, e)) = e - t
    BY PieceIs
  <2>2. UpCap \in Nat
    BY SizesAre
  <2> QED
    BY <2>1, <2>2
<1>1. CASE sock.rx = <<>> \/ ~conn.app_to_out \/ ~AppRx
  <2>1. Received(n).rx = sock.rx /\ Received(n).up = up
    BY <1>1 DEF Received
  <2> QED
    BY <2>1
<1>2. CASE ~(sock.rx = <<>> \/ ~conn.app_to_out \/ ~AppRx)
  <2>1. PICK room : room = Min({Len(Pieces(n)), UpCap - Len(up)})
    OBVIOUS
  <2>2. /\ Received(n).rx = Left(n, room)
        /\ Received(n).up = up \o SubSeq(Pieces(n), 1, room)
    BY <1>2, <2>1 DEF Received
  <2>3. PICK mid \in Nat : mid = t + n
    OBVIOUS
  <2>4. t < mid /\ mid <= e /\ n \in 0 .. e - t
    BY <1>0, <1>2, <2>3
  <2>5. ASSUME Pieces(n) = <<Piece(t, e)>>, mid = e
        PROVE  room \in {0, 1} /\ room <= UpCap - Len(up)
    <3>1. room = IF 1 <= UpCap - Len(up) THEN 1 ELSE UpCap - Len(up)
      BY SMTT(30), <1>0, <2>1, <2>5, LesserOf
    <3> QED
      BY <1>0, <3>1
  <2>6. CASE room = 0
    <3>1. Left(n, room) = sock.rx
      BY <2>6 DEF Left
    <3>2. up \o SubSeq(Pieces(n), 1, room) = up
      <4>1. SubSeq(Pieces(n), 1, 0) = <<>>
        BY DEF Pieces
      <4> QED
        BY <2>6, <4>1
    <3>3. Received(n).rx = Piece(t, e)
      BY <2>2, <3>1
    <3>4. Received(n).up = up
      BY <2>2, <3>2
    <3>5. t \in t .. e
      OBVIOUS
    <3> QED
      BY <3>3, <3>4, <3>5
  <2>7. CASE n = Len(sock.rx)
    <3>1. Pieces(n) = <<Piece(t, e)>> /\ mid = e
      BY <1>0, <2>3, <2>7 DEF Pieces
    <3>2. room \in {0, 1} /\ room <= UpCap - Len(up)
      BY <2>5, <3>1
    <3>3. CASE room = 1
      <4>1. up \o SubSeq(Pieces(n), 1, 1) = Append(up, Piece(t, e))
        BY <3>1
      <4>2. Left(n, 1) = <<>>
        BY <3>1 DEF Left
      <4>3. Piece(e, e) = <<>> /\ Piece(t, e) \in Seq(Nat)
        BY PieceIs
      <4>4. Chunks(Append(up, Piece(t, e)), w, e)
        BY <2>4, <3>1, ChunksAppend
      <4>5. /\ Append(up, Piece(t, e)) \in Seq(Seq(Nat))
            /\ Len(Append(up, Piece(t, e))) = Len(up) + 1
        BY <4>3
      <4>6. Len(up) + 1 <= UpCap /\ e \in t .. e
        BY <1>0, <3>2, <3>3
      <4> QED
        BY <2>2, <3>3, <4>1, <4>2, <4>3, <4>4, <4>5, <4>6
    <3> QED
      BY <2>6, <3>2, <3>3
  <2>8. CASE n # Len(sock.rx)
    <3>1. mid < e
      BY <1>0, <2>3, <2>8
    <3>2. SubSeq(sock.rx, 1, n) = Piece(t, mid) /\ SubSeq(sock.rx, n + 1, Len(sock.rx)) = Piece(mid, e)
      <4>1. /\ SubSeq(Piece(t, e), 1, n) = Piece(t, t + n)
            /\ SubSeq(Piece(t, e), n + 1, e - t) = Piece(t + n, e)
        BY <2>4, PieceSplits
      <4> QED
        BY <1>0, <2>3, <4>1
    <3>3. PICK p : p = Piece(t, mid)
      OBVIOUS
    <3>4. PICK q : q = Piece(mid, e)
      OBVIOUS
    <3>5. Pieces(n) = <<p, q>>
      BY <2>8, <3>2, <3>3, <3>4 DEF Pieces
    <3>6. p \in Seq(Nat) /\ q \in Seq(Nat) /\ Piece(e, e) = <<>>
      <4>1. t <= mid
        BY <2>4
      <4> QED
        BY SMTT(30), <2>4, <3>3, <3>4, <4>1, PieceIs
    <3>7. room \in {0, 1, 2} /\ room <= UpCap - Len(up)
      <4>1. room = IF 2 <= UpCap - Len(up) THEN 2 ELSE UpCap - Len(up)
        <5>1. Len(Pieces(n)) = 2
          BY <3>5
        <5> QED
          <6>1. 2 \in Int /\ UpCap - Len(up) \in Int
            BY <1>0
          <6>2. room = Min({2, UpCap - Len(up)})
            BY <2>1, <5>1
          <6> QED
            BY <6>1, <6>2, LesserOf, Zenon
      <4> QED
        BY SMTT(30), <1>0, <4>1
    <3>8. Chunks(Append(up, p), w, mid)
      BY <2>4, <3>3, ChunksAppend
    <3>9. Append(up, p) \in Seq(Seq(Nat)) /\ Len(Append(up, p)) = Len(up) + 1
      BY <3>6
    <3>10. CASE room = 1
      <4>1. up \o SubSeq(Pieces(n), 1, 1) = Append(up, p)
        <5>1. SubSeq(<<p, q>>, 1, 1) = <<p>>
          BY <3>6, FrontOfTwo
        <5>2. up \o <<p>> = Append(up, p)
          BY <3>6
        <5> QED
          BY <3>5, <5>1, <5>2
      <4>2. Left(n, 1) = q
        BY <3>5 DEF Left
      <4>3. Len(up) + 1 <= UpCap /\ mid \in t .. e
        BY <1>0, <2>4, <3>7, <3>10
      <4> QED
        BY <2>2, <3>4, <3>8, <3>9, <3>10, <4>1, <4>2, <4>3
    <3>11. CASE room = 2
      <4>1. up \o SubSeq(Pieces(n), 1, 2) = Append(Append(up, p), q)
        <5>1. SubSeq(<<p, q>>, 1, 2) = <<p, q>>
          BY <3>6, FrontOfTwo
        <5>2. up \o <<p, q>> = Append(Append(up, p), q)
          BY SMTT(30), <3>6
        <5> QED
          BY <3>5, <5>1, <5>2
      <4>2. Left(n, 2) = <<>>
        BY <3>5 DEF Left
      <4>3. Chunks(Append(Append(up, p), q), w, e)
        BY <3>1, <3>4, <3>8, <3>9, ChunksAppend
      <4>4. /\ Append(Append(up, p), q) \in Seq(Seq(Nat))
            /\ Len(Append(Append(up, p), q)) = Len(up) + 2
        BY <3>6, <3>9
      <4>5. Len(up) + 2 <= UpCap /\ e \in t .. e
        BY <1>0, <3>7, <3>11
      <4> QED
        BY <2>2, <3>6, <3>11, <4>1, <4>2, <4>3, <4>4, <4>5
    <3> QED
      BY <2>6, <3>7, <3>10, <3>11
  <2> QED
    BY <2>7, <2>8
<1> QED
  BY <1>1, <1>2

-----------------------------------------------------------------------------
(* The steps, one by one.                                                   *)

SockRec(s) == s = [state |-> s.state, rx |-> s.rx, tx |-> s.tx, armed |-> s.armed]
TaskRec(r) == r = [pc |-> r.pc, chunk |-> r.chunk]
EndRec(e) == e = [sent |-> e.sent, fin |-> e.fin, got |-> e.got, ended |-> e.ended]
ConnRec(c) ==
  c = [live |-> c.live, established |-> c.established, app_to_out |-> c.app_to_out,
       pending |-> c.pending, out_eof |-> c.out_eof]

\* A waker changes nothing else of the socket.
LEMMA WokenIs ==
  ASSUME NEW s, SockRec(s), NEW wakers, Woken(s, wakers)
  PROVE  SockRec(sock') /\ sock'.state = s.state /\ sock'.rx = s.rx /\ sock'.tx = s.tx
<1>1. PICK armed : sock' = [s EXCEPT !.armed = armed]
  BY DEF Woken
<1> QED
  BY <1>1 DEF SockRec

\* The bytes from the app stay where they are, or the writer gives up.
LEMMA UpKept ==
  ASSUME UpChain,
         \/ writer'.pc = "done"
         \/ /\ writer.pc # "done" /\ writer'.chunk = writer.chunk /\ server'.got = server.got
            /\ app'.sent = app.sent /\ sock'.rx = sock.rx /\ up' = up
  PROVE  UpChain'
BY DEF UpChain

\* The bytes from the server stay where they are, or the socket is closed.
LEMMA DownKept ==
  ASSUME DownChain,
         \/ sock'.state = "Closed"
         \/ /\ sock.state # "Closed" /\ app'.got = app.got
            /\ sock'.tx = sock.tx /\ conn'.pending = conn.pending
            /\ down' = down /\ server'.sent = server.sent /\ reader'.chunk = reader.chunk
  PROVE  DownChain'
BY DEF DownChain

LEMMA TypesAre ==
  ASSUME Types
  PROVE  /\ SockRec(sock) /\ ConnRec(conn) /\ TaskRec(reader) /\ TaskRec(writer)
         /\ EndRec(app) /\ EndRec(server)
BY DEF Types, SockRec, ConnRec, TaskRec, EndRec

LEMMA AppSendsKeeps ==
  ASSUME StreamInv, AppSends
  PROVE  StreamInv'
<1>0. Types /\ Halves /\ Ends /\ UpChain /\ DownChain
  BY DEF StreamInv
<1>1. /\ ~app.fin /\ sock.state \in {"Established", "FinWait1", "FinWait2"}
      /\ app' = [app EXCEPT !.sent = @ + 1]
      /\ Woken([sock EXCEPT !.rx = Append(@, app.sent + 1)], {"recv"})
      /\ UNCHANGED <<conn, up, down, taken, reader, writer, server, aborted>>
  BY DEF AppSends
<1>2. PICK s : s = [sock EXCEPT !.rx = Append(@, app.sent + 1)]
  OBVIOUS
<1>3. SockRec(s) /\ s.state = sock.state /\ s.rx = Append(sock.rx, app.sent + 1) /\ s.tx = sock.tx
  BY <1>0, <1>2 DEF Types, SockRec
<1>4. /\ SockRec(sock') /\ sock'.state = sock.state
      /\ sock'.rx = Append(sock.rx, app.sent + 1) /\ sock'.tx = sock.tx
  BY <1>1, <1>2, <1>3, WokenIs
<1>5. /\ EndRec(app') /\ app'.sent = app.sent + 1 /\ app'.fin = app.fin
      /\ app'.got = app.got /\ app'.ended = app.ended
  BY <1>0, <1>1 DEF Types, EndRec
<1>6. Types'
  <2>1. sock'.rx \in Seq(Nat) /\ app'.sent \in Nat
    BY <1>0, <1>4, <1>5 DEF Types
  <2> QED
    BY <1>0, <1>1, <1>4, <1>5, <2>1 DEF Types, SockRec, EndRec
<1>7. Halves' /\ Ends'
  BY <1>0, <1>1, <1>4, <1>5 DEF Halves, Ends
<1>8. UpChain'
  <2>1. CASE writer.pc = "done"
    BY <1>0, <1>1, <2>1 DEF UpChain
  <2>2. CASE writer.pc # "done"
    <3>1. PICK g, w, t \in 0 .. app.sent :
            /\ g <= w /\ w <= t
            /\ server.got = Piece(0, g) /\ writer.chunk = Piece(g, w)
            /\ Chunks(up, w, t) /\ sock.rx = Piece(t, app.sent)
      BY <1>0, <2>2 DEF UpChain
    <3>2. app.sent \in Nat /\ t \in Nat /\ t <= app.sent
      BY <1>0 DEF Types
    <3>3. sock'.rx = Piece(t, app.sent + 1)
      BY <1>4, <3>1, <3>2, PieceMoves
    <3>4. {g, w, t} \subseteq 0 .. app.sent + 1
      BY <3>2
    <3> QED
      BY <1>1, <1>5, <3>1, <3>3, <3>4 DEF UpChain
  <2> QED
    BY <2>1, <2>2
<1>9. DownChain'
  BY <1>0, <1>1, <1>4, <1>5, DownKept
<1> QED
  BY <1>6, <1>7, <1>8, <1>9 DEF StreamInv

LEMMA AppAcksKeeps ==
  ASSUME StreamInv, AppAcks
  PROVE  StreamInv'
<1>0. Types /\ Halves /\ Ends /\ UpChain /\ DownChain
  BY DEF StreamInv
<1>1. /\ sock.tx # <<>>
      /\ app' = [app EXCEPT !.got = Append(@, Head(sock.tx))]
      /\ Woken([sock EXCEPT !.tx = Tail(@)], {"send"})
      /\ UNCHANGED <<conn, up, down, taken, reader, writer, server, aborted>>
  BY DEF AppAcks
<1>2. PICK s : s = [sock EXCEPT !.tx = Tail(@)]
  OBVIOUS
<1>3. SockRec(s) /\ s.state = sock.state /\ s.rx = sock.rx /\ s.tx = Tail(sock.tx)
  BY <1>0, <1>2 DEF Types, SockRec
<1>4. /\ SockRec(sock') /\ sock'.state = sock.state
      /\ sock'.rx = sock.rx /\ sock'.tx = Tail(sock.tx)
  BY <1>1, <1>2, <1>3, WokenIs
<1>5. /\ EndRec(app') /\ app'.sent = app.sent /\ app'.fin = app.fin
      /\ app'.got = Append(app.got, Head(sock.tx)) /\ app'.ended = app.ended
  BY <1>0, <1>1 DEF Types, EndRec
<1>6. Types'
  <2>1. sock.tx \in Seq(Nat) /\ app.got \in Seq(Nat)
    BY <1>0 DEF Types
  <2>2. Tail(sock.tx) \in Seq(Nat) /\ Head(sock.tx) \in Nat
    BY <1>1, <2>1
  <2>3. sock'.tx \in Seq(Nat) /\ app'.got \in Seq(Nat)
    BY <1>4, <1>5, <2>1, <2>2
  <2> QED
    BY <1>0, <1>1, <1>4, <1>5, <2>3 DEF Types, SockRec, EndRec
<1>7. Halves' /\ Ends'
  BY <1>0, <1>1, <1>4, <1>5 DEF Halves, Ends
<1>8. UpChain'
  BY <1>0, <1>1, <1>4, <1>5, UpKept DEF UpChain
<1>9. DownChain'
  <2>1. sock.state # "Closed"
    BY <1>0, <1>1 DEF Ends
  <2>2. PICK a, b, c, d \in 0 .. server.sent :
          /\ a <= b /\ b <= c /\ c <= d
          /\ app.got = Piece(0, a) /\ sock.tx = Piece(a, b) /\ Holds(conn.pending, b, c)
          /\ Chunks(down, c, d) /\ reader.chunk = Piece(d, server.sent)
    BY <1>0, <2>1 DEF DownChain
  <2>3. {a, b} \subseteq Nat /\ 0 <= a /\ a # b /\ server.sent \in Nat
    BY <1>0, <1>1, <2>2, PieceIs DEF Types
  <2>4. a < b /\ a + 1 \in 0 .. server.sent
    BY <2>2, <2>3
  <2>5. Head(sock.tx) = a + 1 /\ Tail(sock.tx) = Piece(a + 1, b)
    BY <2>2, <2>3, <2>4, PieceMoves
  <2>6. Append(Piece(0, a), a + 1) = Piece(0, a + 1)
    BY <2>3, PieceMoves
  <2>7. app'.got = Piece(0, a + 1) /\ sock'.tx = Piece(a + 1, b) /\ a + 1 <= b
    BY <1>4, <1>5, <2>2, <2>3, <2>4, <2>5, <2>6
  <2> QED
    BY <1>1, <2>2, <2>4, <2>7 DEF DownChain
<1> QED
  BY <1>6, <1>7, <1>8, <1>9 DEF StreamInv

\* The steps in which the socket changes its state, and may lose what it was
\* sending.
LEMMA SocketKeeps ==
  ASSUME StreamInv, SockRec(sock'), sock'.state \in States, sock'.rx = sock.rx,
         sock'.tx = sock.tx \/ (sock'.tx = <<>> /\ sock'.state = "Closed"),
         sock'.state = "Closed" \/ sock.state # "Closed",
         EndRec(app'), app'.sent = app.sent, app'.got = app.got,
         UNCHANGED <<up, down, reader, writer, server>>,
         ConnRec(conn'), conn'.pending = conn.pending
  PROVE  Types' /\ UpChain' /\ DownChain'
<1>0. Types /\ UpChain /\ DownChain
  BY DEF StreamInv
<1>1. Types'
  <2>1. sock'.tx \in Seq(Nat)
    <3>1. sock.tx \in Seq(Nat) /\ <<>> \in Seq(Nat)
      BY <1>0 DEF Types
    <3> QED
      BY <3>1
  <2> QED
    BY <1>0, <2>1 DEF Types, SockRec, EndRec, ConnRec
<1>2. UpChain'
  BY <1>0, UpKept DEF UpChain
<1>3. DownChain'
  BY <1>0, DownKept DEF DownChain
<1> QED
  BY <1>1, <1>2, <1>3

LEMMA AppCloseKeeps ==
  ASSUME StreamInv, AppCloses \/ AppAcksFin \/ TimeWaitEnds \/ AppAborts
  PROVE  StreamInv'
<1>0. Types /\ Halves /\ Ends /\ SockRec(sock) /\ EndRec(app) /\ ConnRec(conn)
  BY TypesAre DEF StreamInv
<1>1. ASSUME NEW to, Woken([sock EXCEPT !.state = to], Both)
      PROVE  SockRec(sock') /\ sock'.state = to /\ sock'.rx = sock.rx /\ sock'.tx = sock.tx
  <2>1. PICK s : s = [sock EXCEPT !.state = to]
    OBVIOUS
  <2>2. SockRec(s) /\ s.state = to /\ s.rx = sock.rx /\ s.tx = sock.tx
    BY <1>0, <2>1 DEF SockRec
  <2> QED
    BY <1>1, <2>1, <2>2, WokenIs
<1>2. CASE AppCloses
  <2>1. PICK to \in {<<"Established", "CloseWait">>, <<"FinWait1", "Closing">>,
                     <<"FinWait2", "TimeWait">>} :
          sock.state = to[1] /\ Woken([sock EXCEPT !.state = to[2]], Both)
    BY <1>2 DEF AppCloses
  <2>2. /\ ~app.fin /\ app' = [app EXCEPT !.fin = TRUE]
        /\ UNCHANGED <<conn, up, down, taken, reader, writer, server, aborted>>
    BY <1>2 DEF AppCloses
  <2>3. /\ SockRec(sock') /\ sock'.state = to[2] /\ sock'.rx = sock.rx /\ sock'.tx = sock.tx
    BY <1>1, <2>1
  <2>4. /\ EndRec(app') /\ app'.sent = app.sent /\ app'.got = app.got
        /\ app'.fin /\ app'.ended = app.ended
    BY <1>0, <2>2 DEF EndRec
  <2>5. \/ sock.state = "Established" /\ sock'.state = "CloseWait"
        \/ sock.state = "FinWait1" /\ sock'.state = "Closing"
        \/ sock.state = "FinWait2" /\ sock'.state = "TimeWait"
    BY <2>1, <2>3
  <2>6. Types' /\ UpChain' /\ DownChain'
    BY <1>0, <2>2, <2>3, <2>4, <2>5, SocketKeeps DEF States
  <2>7. Halves' /\ Ends'
    BY <1>0, <2>2, <2>3, <2>4, <2>5 DEF Halves, Ends
  <2> QED
    BY <2>6, <2>7 DEF StreamInv
<1>3. CASE AppAcksFin
  <2>1. PICK to \in {<<"FinWait1", "FinWait2">>, <<"Closing", "TimeWait">>,
                     <<"LastAck", "Closed">>} :
          sock.state = to[1] /\ Woken([sock EXCEPT !.state = to[2]], Both)
    BY <1>3 DEF AppAcksFin
  <2>2. /\ sock.tx = <<>> /\ app' = [app EXCEPT !.ended = TRUE]
        /\ UNCHANGED <<conn, up, down, taken, reader, writer, server, aborted>>
    BY <1>3 DEF AppAcksFin
  <2>3. /\ SockRec(sock') /\ sock'.state = to[2] /\ sock'.rx = sock.rx /\ sock'.tx = sock.tx
    BY <1>1, <2>1
  <2>4. /\ EndRec(app') /\ app'.sent = app.sent /\ app'.got = app.got
        /\ app'.fin = app.fin /\ app'.ended
    BY <1>0, <2>2 DEF EndRec
  <2>5. \/ sock.state = "FinWait1" /\ sock'.state = "FinWait2"
        \/ sock.state = "Closing" /\ sock'.state = "TimeWait"
        \/ sock.state = "LastAck" /\ sock'.state = "Closed"
    BY <2>1, <2>3
  <2>6. Types' /\ UpChain' /\ DownChain'
    BY <1>0, <2>2, <2>3, <2>4, <2>5, SocketKeeps DEF States
  <2>7. Halves' /\ Ends'
    BY <1>0, <2>2, <2>3, <2>4, <2>5 DEF Halves, Ends
  <2> QED
    BY <2>6, <2>7 DEF StreamInv
<1>4. CASE TimeWaitEnds
  <2>1. /\ sock.state = "TimeWait" /\ Woken([sock EXCEPT !.state = "Closed"], Both)
        /\ UNCHANGED <<conn, up, down, taken, reader, writer, app, server, aborted>>
    BY <1>4 DEF TimeWaitEnds
  <2>2. SockRec(sock') /\ sock'.state = "Closed" /\ sock'.rx = sock.rx /\ sock'.tx = sock.tx
    BY <1>1, <2>1
  <2>3. Types' /\ UpChain' /\ DownChain'
    BY <1>0, <2>1, <2>2, SocketKeeps DEF States
  <2>4. Halves' /\ Ends'
    BY <1>0, <2>1, <2>2 DEF Halves, Ends
  <2> QED
    BY <2>3, <2>4 DEF StreamInv
<1>5. CASE AppAborts
  <2>1. /\ Woken([sock EXCEPT !.state = "Closed", !.tx = <<>>], Both) /\ aborted' = TRUE
        /\ UNCHANGED <<conn, up, down, taken, reader, writer, app, server>>
    BY <1>5 DEF AppAborts
  <2>2. PICK s : s = [sock EXCEPT !.state = "Closed", !.tx = <<>>]
    OBVIOUS
  <2>3. SockRec(s) /\ s.state = "Closed" /\ s.rx = sock.rx /\ s.tx = <<>>
    BY <1>0, <2>2 DEF SockRec
  <2>4. SockRec(sock') /\ sock'.state = "Closed" /\ sock'.rx = sock.rx /\ sock'.tx = <<>>
    BY <2>1, <2>2, <2>3, WokenIs
  <2>5. Types' /\ UpChain' /\ DownChain'
    BY <1>0, <2>1, <2>4, SocketKeeps DEF States
  <2>6. Halves' /\ Ends'
    BY <1>0, <2>1, <2>4 DEF Halves, Ends
  <2> QED
    BY <2>5, <2>6 DEF StreamInv
<1> QED
  BY <1>2, <1>3, <1>4, <1>5

LEMMA ReapKeeps ==
  ASSUME StreamInv, Reap
  PROVE  StreamInv'
<1>0. Types /\ Halves /\ Ends /\ SockRec(sock) /\ EndRec(app) /\ ConnRec(conn)
  BY TypesAre DEF StreamInv
<1>1. /\ conn' = [conn EXCEPT !.live = FALSE] /\ aborted' = TRUE
      /\ sock' = [sock EXCEPT !.state = "Closed", !.tx = <<>>, !.armed = {}]
      /\ UNCHANGED <<up, down, ready, taken, reader, writer, app, server>>
  BY DEF Reap
<1>2. SockRec(sock') /\ sock'.state = "Closed" /\ sock'.rx = sock.rx /\ sock'.tx = <<>>
  BY <1>0, <1>1 DEF SockRec
<1>3. /\ ConnRec(conn') /\ conn'.pending = conn.pending /\ conn'.out_eof = conn.out_eof
      /\ conn'.app_to_out = conn.app_to_out
  BY <1>0, <1>1 DEF ConnRec
<1>4. Types' /\ UpChain' /\ DownChain'
  BY <1>0, <1>1, <1>2, <1>3, SocketKeeps DEF States
<1>5. Halves' /\ Ends'
  BY <1>0, <1>1, <1>2, <1>3 DEF Halves, Ends
<1> QED
  BY <1>4, <1>5 DEF StreamInv

\* The steps of the task that move no bytes.
LEMMA TaskTurnsKeep ==
  ASSUME StreamInv,
         \/ Connect \/ ConnectFails \/ ReadEnds \/ MarkDelivered \/ DropOutTx \/ MarkEnd
         \/ WriteFails
  PROVE  StreamInv'
<1>0. /\ Types /\ Halves /\ Ends /\ UpChain /\ DownChain
      /\ TaskRec(reader) /\ TaskRec(writer) /\ EndRec(server)
  BY TypesAre DEF StreamInv
<1>1. /\ TaskRec(reader') /\ reader'.chunk = reader.chunk
      /\ TaskRec(writer') /\ writer'.chunk \in {writer.chunk, <<>>}
      /\ EndRec(server') /\ server'.sent = server.sent /\ server'.got = server.got
      /\ UNCHANGED <<sock, conn, up, down, app>>
      /\ writer'.pc = "done" \/ (writer.pc # "done" /\ writer'.chunk = writer.chunk)
           \/ UNCHANGED writer
  BY <1>0 DEF TaskRec, EndRec, Halves, Connect, ConnectFails, ReadEnds, MarkDelivered, DropOutTx,
              MarkEnd, WriteFails
<1>2. Types'
  <2>1. writer'.chunk \in Seq(Nat)
    <3>1. writer.chunk \in Seq(Nat) /\ <<>> \in Seq(Nat)
      BY <1>0 DEF Types
    <3> QED
      BY <1>1, <3>1
  <2> QED
    BY <1>0, <1>1, <2>1 DEF Types, TaskRec, EndRec
<1>3. UpChain'
  BY <1>0, <1>1, UpKept DEF UpChain
<1>4. DownChain'
  BY <1>0, <1>1, DownKept DEF DownChain
<1>5. Halves'
  BY <1>0, <1>1 DEF Halves, TaskRec, EndRec, Connect, ConnectFails, ReadEnds, MarkDelivered,
                    DropOutTx, MarkEnd, WriteFails
<1>6. Ends'
  BY <1>0, <1>1 DEF Ends, TaskRec, EndRec, Connect, ConnectFails, ReadEnds, MarkDelivered,
                    DropOutTx, MarkEnd, WriteFails
<1> QED
  BY <1>2, <1>3, <1>4, <1>5, <1>6 DEF StreamInv

LEMMA ReadKeeps ==
  ASSUME StreamInv, NEW n \in 1 .. TcpBuf, Read(n)
  PROVE  StreamInv'
<1>0. Types /\ Halves /\ Ends /\ UpChain /\ DownChain /\ TaskRec(reader) /\ EndRec(server)
  BY TypesAre DEF StreamInv
<1>1. /\ reader.pc = "read" /\ server' = [server EXCEPT !.sent = @ + n]
      /\ reader' = [pc |-> "send", chunk |-> [i \in 1 .. n |-> server.sent + i]]
      /\ UNCHANGED <<sock, conn, up, down, ready, taken, writer, app, aborted>>
  BY DEF Read
<1>2. n \in Nat \ {0} /\ server.sent \in Nat
  BY <1>0, SizesAre DEF Types
<1>3. PICK end \in Nat : end = server.sent + n
  BY <1>2
<1>4. server.sent < end /\ server.sent <= end /\ end - server.sent = n
  BY <1>2, <1>3
<1>5. reader'.pc = "send" /\ reader'.chunk = Piece(server.sent, end) /\ TaskRec(reader')
  BY <1>1, <1>4 DEF Piece, TaskRec
<1>6. reader'.chunk \in Seq(Nat) /\ reader'.chunk # <<>>
  <2>1. PICK old \in Nat : old = server.sent
    BY <1>2
  <2>2. old <= end /\ old # end
    BY <1>4, <2>1
  <2>3. Piece(old, end) \in Seq(Nat) /\ Piece(old, end) # <<>>
    BY <2>2, PieceIs
  <2> QED
    BY <1>5, <2>1, <2>3
<1>7. /\ EndRec(server') /\ server'.sent = end /\ server'.fin = server.fin
      /\ server'.got = server.got /\ server'.ended = server.ended
  BY <1>0, <1>1, <1>3 DEF EndRec
<1>8. Types'
  BY <1>0, <1>1, <1>5, <1>6, <1>7 DEF Types, TaskRec, EndRec
<1>9. Halves' /\ Ends'
  BY <1>0, <1>1, <1>5, <1>6, <1>7 DEF Halves, Ends
<1>10. UpChain'
  BY <1>0, <1>1, <1>7, UpKept DEF UpChain
<1>11. DownChain'
  <2>1. SUFFICES ASSUME sock.state # "Closed" PROVE DownChain'
    BY <1>1 DEF DownChain
  <2>2. PICK a, b, c, d \in 0 .. server.sent :
          /\ a <= b /\ b <= c /\ c <= d
          /\ app.got = Piece(0, a) /\ sock.tx = Piece(a, b) /\ Holds(conn.pending, b, c)
          /\ Chunks(down, c, d) /\ reader.chunk = Piece(d, server.sent)
    BY <1>0, <2>1 DEF DownChain
  <2>3. d = server.sent
    BY <1>0, <1>1, <1>2, <2>2, PieceIs DEF Halves
  <2>4. {a, b, c, d} \subseteq 0 .. end
    BY <1>2, <1>4, <2>2
  <2>5. a \in 0 .. end /\ b \in 0 .. end /\ c \in 0 .. end /\ d \in 0 .. end
    BY <2>4
  <2>6. /\ app'.got = Piece(0, a) /\ sock'.tx = Piece(a, b) /\ Holds(conn'.pending, b, c)
        /\ Chunks(down', c, d) /\ reader'.chunk = Piece(d, end) /\ server'.sent = end
    BY <1>1, <1>5, <1>7, <2>2, <2>3
  <2> QED
    BY <2>2, <2>5, <2>6 DEF DownChain
<1> QED
  BY <1>8, <1>9, <1>10, <1>11 DEF StreamInv

LEMMA DeliverKeeps ==
  ASSUME StreamInv, Deliver
  PROVE  StreamInv'
<1>0. Types /\ Halves /\ Ends /\ UpChain /\ DownChain
  BY DEF StreamInv
<1>1. /\ reader.pc = "send" /\ reader'.chunk = <<>> /\ TaskRec(reader')
      /\ IF conn.live THEN reader'.pc = "mark" /\ down' = Append(down, reader.chunk)
                      ELSE reader'.pc = "drop" /\ down' = down
      /\ UNCHANGED <<sock, conn, up, ready, taken, writer, app, server, aborted>>
  BY DEF Deliver, TaskRec
<1>2. Types'
  <2>1. down' \in Seq(Seq(Nat)) /\ reader'.chunk \in Seq(Nat)
    <3>1. down \in Seq(Seq(Nat)) /\ reader.chunk \in Seq(Nat) /\ <<>> \in Seq(Nat)
      BY <1>0 DEF Types
    <3>2. Append(down, reader.chunk) \in Seq(Seq(Nat))
      BY <3>1
    <3> QED
      BY <1>1, <3>1, <3>2
  <2> QED
    BY <1>0, <1>1, <2>1 DEF Types, TaskRec
<1>3. Halves' /\ Ends'
  BY <1>0, <1>1 DEF Halves, Ends
<1>4. UpChain'
  BY <1>0, <1>1, UpKept DEF UpChain
<1>5. DownChain'
  <2>1. SUFFICES ASSUME sock.state # "Closed" PROVE DownChain'
    BY <1>1 DEF DownChain
  <2>2. PICK a, b, c, d \in 0 .. server.sent :
          /\ a <= b /\ b <= c /\ c <= d
          /\ app.got = Piece(0, a) /\ sock.tx = Piece(a, b) /\ Holds(conn.pending, b, c)
          /\ Chunks(down, c, d) /\ reader.chunk = Piece(d, server.sent)
    BY <1>0, <2>1 DEF DownChain
  <2>3. server.sent \in Nat /\ {c, d} \subseteq Nat /\ d <= server.sent
    BY <1>0, <2>2 DEF Types
  <2>4. conn.live /\ down' = Append(down, Piece(d, server.sent))
    BY <1>0, <1>1, <2>1, <2>2 DEF Ends
  <2>5. d < server.sent
    BY <1>0, <1>1, <2>2, <2>3, PieceIs DEF Halves
  <2>6. Chunks(down', c, server.sent)
    BY <1>0, <2>2, <2>3, <2>4, <2>5, ChunksAppend DEF Types
  <2>7. reader'.chunk = Piece(server.sent, server.sent)
    BY <1>1, <2>3, PieceIs
  <2>8. server.sent \in 0 .. server.sent /\ c <= server.sent
    BY <2>2, <2>3
  <2> QED
    BY <1>1, <2>2, <2>6, <2>7, <2>8 DEF DownChain
<1> QED
  BY <1>2, <1>3, <1>4, <1>5 DEF StreamInv

LEMMA RecvKeeps ==
  ASSUME StreamInv, Recv
  PROVE  StreamInv'
<1>0. Types /\ Halves /\ Ends /\ UpChain /\ DownChain /\ TaskRec(writer) /\ EndRec(server)
  BY TypesAre DEF StreamInv
<1>1. writer.pc = "recv" /\ UNCHANGED <<sock, conn, down, ready, taken, reader, app, aborted>>
  BY DEF Recv
<1>2. CASE up # <<>>
  <2>1. /\ TaskRec(writer') /\ writer'.pc = "write" /\ writer'.chunk = Head(up)
        /\ up' = Tail(up) /\ UNCHANGED server
    BY <1>2 DEF Recv, TaskRec
  <2>2. PICK g, w, t \in 0 .. app.sent :
          /\ g <= w /\ w <= t
          /\ server.got = Piece(0, g) /\ writer.chunk = Piece(g, w)
          /\ Chunks(up, w, t) /\ sock.rx = Piece(t, app.sent)
    BY <1>0, <1>1 DEF UpChain
  <2>3. app.sent \in Nat /\ {g, w, t} \subseteq Nat /\ up \in Seq(Seq(Nat))
    BY <1>0, <2>2 DEF Types
  <2>4. g = w
    BY <1>0, <1>1, <2>2, <2>3, PieceIs DEF Halves
  <2>5. PICK q : q = up[1]
    OBVIOUS
  <2>6. /\ w + Len(q) <= t /\ Len(q) \in Nat /\ q = Piece(w, w + Len(q))
        /\ Tail(up) \in Seq(Seq(Nat)) /\ Chunks(Tail(up), w + Len(q), t)
    BY <1>2, <2>2, <2>3, <2>5, ChunksFirst
  <2>7. PICK e \in Nat : e = w + Len(q)
    BY <2>3, <2>6
  <2>8. e \in 0 .. app.sent /\ g <= e /\ e <= t
    BY <2>2, <2>3, <2>4, <2>6, <2>7
  <2>9. writer'.chunk = Piece(g, e) /\ Chunks(up', e, t)
    BY <1>2, <2>1, <2>3, <2>4, <2>5, <2>6, <2>7
  <2>10. UpChain'
    BY <1>1, <2>1, <2>2, <2>8, <2>9 DEF UpChain
  <2>11. Types'
    <3>1. writer'.chunk \in Seq(Nat) /\ Len(up') <= UpCap
      <4>1. Len(Tail(up)) = Len(up) - 1 /\ Len(up) \in Nat /\ Head(up) \in Seq(Nat)
        BY <1>2, <2>3
      <4> QED
        BY SMTT(30), <1>0, <2>1, <4>1, SizesAre DEF Types
    <3> QED
      BY <1>0, <1>1, <2>1, <2>6, <3>1 DEF Types, TaskRec
  <2>12. Halves' /\ Ends'
    BY <1>0, <1>1, <2>1 DEF Halves, Ends
  <2>13. DownChain'
    BY <1>0, <1>1, <2>1, DownKept DEF DownChain
  <2> QED
    BY <2>10, <2>11, <2>12, <2>13 DEF StreamInv
<1>3. CASE up = <<>>
  <2>1. /\ writer' = [writer EXCEPT !.pc = "done"] /\ up' = up
        /\ server' = [server EXCEPT !.ended = TRUE]
    BY <1>3 DEF Recv
  <2>2. /\ TaskRec(writer') /\ writer'.pc = "done" /\ writer'.chunk = writer.chunk
        /\ EndRec(server') /\ server'.sent = server.sent /\ server'.fin = server.fin
        /\ server'.got = server.got
    BY <1>0, <2>1 DEF TaskRec, EndRec
  <2>3. Types'
    BY <1>0, <1>1, <2>1, <2>2 DEF Types, TaskRec, EndRec
  <2>4. Halves' /\ Ends'
    BY <1>0, <1>1, <2>1, <2>2 DEF Halves, Ends
  <2>5. UpChain'
    BY <1>0, <2>2, UpKept
  <2>6. DownChain'
    BY <1>0, <1>1, <2>2, DownKept DEF DownChain
  <2> QED
    BY <2>3, <2>4, <2>5, <2>6 DEF StreamInv
<1> QED
  BY <1>2, <1>3

LEMMA WriteKeeps ==
  ASSUME StreamInv, Write
  PROVE  StreamInv'
<1>0. Types /\ Halves /\ Ends /\ UpChain /\ DownChain /\ EndRec(server)
  BY TypesAre DEF StreamInv
<1>1. /\ writer.pc = "write" /\ server' = [server EXCEPT !.got = @ \o writer.chunk]
      /\ writer'.pc = "recv" /\ writer'.chunk = <<>> /\ TaskRec(writer')
      /\ UNCHANGED <<sock, conn, up, down, taken, reader, app, aborted>>
  BY DEF Write, TaskRec
<1>2. /\ EndRec(server') /\ server'.sent = server.sent /\ server'.fin = server.fin
      /\ server'.got = server.got \o writer.chunk /\ server'.ended = server.ended
  BY <1>0, <1>1 DEF EndRec
<1>3. Types'
  <2>1. server'.got \in Seq(Nat) /\ writer'.chunk \in Seq(Nat)
    <3>1. server.got \in Seq(Nat) /\ writer.chunk \in Seq(Nat) /\ <<>> \in Seq(Nat)
      BY <1>0 DEF Types
    <3> QED
      BY <1>1, <1>2, <3>1
  <2> QED
    BY <1>0, <1>1, <1>2, <2>1 DEF Types, TaskRec, EndRec
<1>4. Halves' /\ Ends'
  BY <1>0, <1>1, <1>2 DEF Halves, Ends
<1>5. UpChain'
  <2>1. PICK g, w, t \in 0 .. app.sent :
          /\ g <= w /\ w <= t
          /\ server.got = Piece(0, g) /\ writer.chunk = Piece(g, w)
          /\ Chunks(up, w, t) /\ sock.rx = Piece(t, app.sent)
    BY <1>0, <1>1 DEF UpChain
  <2>2. {g, w} \subseteq Nat /\ 0 <= g /\ w <= w /\ 0 <= w
    BY <1>0, <2>1 DEF Types
  <2>3. server'.got = Piece(0, w)
    BY <1>2, <2>1, <2>2, PieceJoins
  <2>4. writer'.chunk = Piece(w, w)
    BY <1>1, <2>2, PieceIs
  <2> QED
    BY <1>1, <2>1, <2>2, <2>3, <2>4 DEF UpChain
<1>6. DownChain'
  BY <1>0, <1>1, <1>2, DownKept DEF DownChain
<1> QED
  BY <1>3, <1>4, <1>5, <1>6 DEF StreamInv

-----------------------------------------------------------------------------
(* service_tcp.                                                             *)

Fins == {"FinWait1", "FinWait2", "Closing", "LastAck", "TimeWait"}

\* What a pass leaves, by the part of the code that does it.
LEMMA ServiceIs ==
  ASSUME Types, NEW n, ServiceTcp(n)
  PROVE  LET sent == Sent(Pulled.pending)
             received == Received(n)
         IN  /\ down' = Pulled.down /\ up' = received.up
             /\ SockRec(sock') /\ sock'.rx = received.rx /\ sock'.tx = sent.tx
             /\ sock'.state = IF Pulled.out_eof /\ sent.pending.bytes = 0
                              THEN Closing(sock.state) ELSE sock.state
             /\ ConnRec(conn') /\ conn'.pending = sent.pending
             /\ conn'.out_eof <=> Pulled.out_eof
             /\ ~conn'.live => sock'.state = "Closed"
             /\ ~conn'.app_to_out =>
                  \/ ~conn.app_to_out
                  \/ received.rx = <<>>
                       /\ sock.state \notin {"Established", "FinWait1", "FinWait2"}
<1> DEFINE sent == Sent(Pulled.pending)
           received == Received(n)
           moved == [sock EXCEPT !.tx = sent.tx, !.rx = received.rx]
           state == IF Pulled.out_eof /\ sent.pending.bytes = 0
                    THEN Closing(sock.state) ELSE sock.state
           established == conn.established \/ sock.state = "Established"
<1>1. /\ down' = Pulled.down /\ up' = received.up
      /\ conn' = [live |-> state # "Closed", established |-> established,
                  app_to_out |-> conn.app_to_out /\ (established => MayRecv(moved)),
                  pending |-> sent.pending, out_eof |-> Pulled.out_eof]
      /\ sock' = [moved EXCEPT !.state = state, !.armed = Both]
  BY DEF ServiceTcp
<1> HIDE DEF state, established, sent, received
<1>2. SockRec(sock)
  BY TypesAre
<1>3. SockRec(moved) /\ moved.state = sock.state /\ moved.rx = received.rx /\ moved.tx = sent.tx
  <2>1. PICK rx : rx = received.rx
    OBVIOUS
  <2>2. PICK tx : tx = sent.tx
    OBVIOUS
  <2>3. PICK m : m = [sock EXCEPT !.tx = tx, !.rx = rx]
    OBVIOUS
  <2>4. SockRec(m) /\ m.state = sock.state /\ m.rx = rx /\ m.tx = tx
    BY <1>2, <2>3 DEF SockRec
  <2>5. m = moved
    BY <2>1, <2>2, <2>3
  <2> QED
    BY <2>1, <2>2, <2>4, <2>5
<1> HIDE DEF moved
<1>4. /\ SockRec(sock') /\ sock'.rx = received.rx /\ sock'.tx = sent.tx /\ sock'.state = state
  BY <1>1, <1>3 DEF SockRec
<1>5. /\ ConnRec(conn') /\ conn'.pending = sent.pending /\ conn'.out_eof = Pulled.out_eof
      /\ conn'.live = (state # "Closed")
      /\ conn'.app_to_out = (conn.app_to_out /\ (established => MayRecv(moved)))
  BY <1>1 DEF ConnRec
<1>6. ~MayRecv(moved) =>
        received.rx = <<>> /\ sock.state \notin {"Established", "FinWait1", "FinWait2"}
  BY <1>3 DEF MayRecv
<1>7. ~conn'.live => sock'.state = "Closed"
  BY <1>4, <1>5
<1>8. ~conn'.app_to_out => ~conn.app_to_out \/ ~MayRecv(moved)
  BY <1>5
<1> QED
  BY <1>1, <1>4, <1>5, <1>6, <1>7, <1>8 DEF state, sent, received

\* Without the end of the egress leg a pass does not close.
LEMMA PulledEnds ==
  ASSUME Types, Ends
  PROVE  /\ Pulled.out_eof => Pulled.down = <<>> /\ reader.pc \in {"end", "done"}
         /\ conn.out_eof => Pulled.out_eof /\ Pulled.pending = conn.pending
<1>1. conn.pending \in PendingRec /\ down \in Seq(Seq(Nat))
  BY DEF Types
<1>2. PICK k \in 0 .. Len(down) :
        /\ Pulled.pending = Pulls[k] /\ Pulled.down = SubSeq(down, k + 1, Len(down))
        /\ Pulled.out_eof <=> conn.out_eof \/ (Enough = {} /\ ~OutTx)
        /\ Enough = {} => k = Len(down)
  BY <1>1, PulledIs
<1>3. ASSUME conn.out_eof PROVE k = 0 /\ k = Len(down) /\ Pulled.pending = conn.pending
  <2>1. down = <<>>
    BY <1>3 DEF Ends
  <2>2. Len(down) = 0
    BY <2>1
  <2>3. k = 0
    BY <2>2
  <2> QED
    BY <1>1, <1>2, <2>2, <2>3, PullsAre
<1>4. k = Len(down) => Pulled.down = <<>>
  BY <1>1, <1>2
<1>5. Pulled.out_eof => k = Len(down) /\ reader.pc \in {"end", "done"}
  BY <1>2, <1>3 DEF Ends, OutTx
<1> QED
  BY <1>2, <1>3, <1>4, <1>5

\* What a pass does to the bytes for the app.
LEMMA ServiceDown ==
  ASSUME Types, DownChain, NEW n, ServiceTcp(n), UNCHANGED <<reader, app, server>>
  PROVE  /\ conn'.pending \in PendingRec /\ sock'.tx \in Seq(Nat)
         /\ down' \in Seq(Seq(Nat)) /\ DownChain'
<1> DEFINE sent == Sent(Pulled.pending)
<1>1. /\ down' = Pulled.down /\ sock'.tx = sent.tx /\ conn'.pending = sent.pending
      /\ sock'.state = "Closed" \/ sock.state # "Closed"
  BY ServiceIs DEF Closing
<1>2. /\ conn.pending \in PendingRec /\ down \in Seq(Seq(Nat)) /\ sock.tx \in Seq(Nat)
      /\ server.sent \in Nat
  BY DEF Types
<1>3. Pulled.pending \in PendingRec /\ Pulled.down \in Seq(Seq(Nat))
  BY <1>2, PulledTyped
<1>4. CASE sock.state = "Closed"
  <2>1. sent = [pending |-> Pulled.pending, tx |-> sock.tx]
    BY <1>4 DEF Sent, MaySend
  <2> HIDE DEF sent
  <2>2. DownChain'
    BY <1>1, <1>4, ServiceIs DEF DownChain, Closing
  <2> QED
    BY <1>1, <1>2, <1>3, <2>1, <2>2
<1>5. CASE sock.state # "Closed"
  <2>1. PICK a, b, c, d \in 0 .. server.sent :
          /\ a <= b /\ b <= c /\ c <= d
          /\ app.got = Piece(0, a) /\ sock.tx = Piece(a, b) /\ Holds(conn.pending, b, c)
          /\ Chunks(down, c, d) /\ reader.chunk = Piece(d, server.sent)
    BY <1>5 DEF DownChain
  <2>2. {a, b, c, d} \subseteq Nat
    BY <1>2, <2>1
  <2>3. PICK e \in c .. d : Holds(Pulled.pending, b, e) /\ Chunks(Pulled.down, e, d)
    BY <1>2, <2>1, <2>2, PulledHolds
  <2>4. e \in Nat /\ e <= d /\ e \in 0 .. server.sent
    BY <1>2, <2>1, <2>2, <2>3
  <2>5. Len(sock.tx) = b - a
    BY <2>1, <2>2, PieceIs
  <2>6. a + Len(sock.tx) = b
    BY <2>2, <2>5
  <2>7. SliceOk([pending |-> Pulled.pending, tx |-> sock.tx], a, e)
    BY <2>1, <2>3, <2>6 DEF SliceOk
  <2>8. sent \in SliceRec /\ SliceOk(sent, a, e)
    BY <1>2, <1>3, <2>2, <2>4, <2>7, SentHolds
  <2> HIDE DEF sent
  <2>9. sent.tx \in Seq(Nat) /\ sent.pending \in PendingRec
    BY <2>8 DEF SliceRec
  <2>10. PICK f \in Nat : f = a + Len(sent.tx)
    BY <2>2, <2>9
  <2>11. sent.tx = Piece(a, f) /\ Holds(sent.pending, f, e)
    BY <2>8, <2>10 DEF SliceOk
  <2>12. a <= f /\ f <= e
    BY <2>2, <2>9, <2>10, <2>11 DEF Holds
  <2>13. f \in 0 .. server.sent
    BY <1>2, <2>4, <2>12
  <2>14. /\ app'.got = Piece(0, a) /\ sock'.tx = Piece(a, f) /\ Holds(conn'.pending, f, e)
         /\ Chunks(down', e, d) /\ reader'.chunk = Piece(d, server.sent) /\ server'.sent = server.sent
    BY <1>1, <2>1, <2>3, <2>11
  <2>15. DownChain'
    BY <2>1, <2>4, <2>12, <2>13, <2>14 DEF DownChain
  <2> QED
    BY <1>1, <1>3, <2>9, <2>15
<1> QED
  BY <1>4, <1>5

\* What a pass does to the bytes from the app.
LEMMA ServiceUp ==
  ASSUME Types, UpChain, NEW n \in 0 .. Len(sock.rx), n = 0 <=> sock.rx = <<>>, ServiceTcp(n),
         UNCHANGED <<writer, app, server>>
  PROVE  /\ sock'.rx \in Seq(Nat) /\ up' \in Seq(Seq(Nat)) /\ Len(up') <= UpCap /\ UpChain'
<1>1. sock'.rx = Received(n).rx /\ up' = Received(n).up
  BY ServiceIs
<1>2. /\ sock.rx \in Seq(Nat) /\ up \in Seq(Seq(Nat)) /\ Len(up) <= UpCap /\ app.sent \in Nat
  BY DEF Types
<1>3. CASE writer.pc = "done"
  <2>1. Received(n).rx = sock.rx /\ Received(n).up = up
    BY <1>3 DEF Received, AppRx
  <2> QED
    BY <1>1, <1>2, <1>3, <2>1 DEF UpChain
<1>4. CASE writer.pc # "done"
  <2>1. PICK g, w, t \in 0 .. app.sent :
          /\ g <= w /\ w <= t
          /\ server.got = Piece(0, g) /\ writer.chunk = Piece(g, w)
          /\ Chunks(up, w, t) /\ sock.rx = Piece(t, app.sent)
    BY <1>4 DEF UpChain
  <2>2. {w, t} \subseteq Nat /\ t <= app.sent
    BY <1>2, <2>1
  <2>3. PICK m \in t .. app.sent :
          /\ Chunks(Received(n).up, w, m) /\ Received(n).rx = Piece(m, app.sent)
          /\ Received(n).up \in Seq(Seq(Nat)) /\ Len(Received(n).up) <= UpCap
    BY <1>2, <2>1, <2>2, ReceivedHolds
  <2>4. m \in 0 .. app.sent /\ w <= m /\ m \in Nat /\ m <= app.sent
    BY <1>2, <2>1, <2>2, <2>3
  <2>5. Piece(m, app.sent) \in Seq(Nat)
    BY <1>2, <2>4, PieceIs
  <2>6. UpChain'
    BY <1>1, <2>1, <2>3, <2>4 DEF UpChain
  <2> QED
    BY <1>1, <2>3, <2>5, <2>6
<1> QED
  BY <1>3, <1>4

LEMMA ServiceKeeps ==
  ASSUME StreamInv, Service
  PROVE  StreamInv'
<1>0. Types /\ Halves /\ Ends /\ UpChain /\ DownChain
  BY DEF StreamInv
<1>1. UNCHANGED <<reader, writer, app, server, aborted>>
  BY DEF Service
<1>2. CASE UNCHANGED <<sock, conn, up, down>>
  BY <1>0, <1>1, <1>2 DEF StreamInv, Types, Halves, Ends, UpChain, DownChain
<1>3. ASSUME NEW n \in 0 .. Len(sock.rx), n = 0 <=> sock.rx = <<>>, ServiceTcp(n)
      PROVE  StreamInv'
  <2> DEFINE sent == Sent(Pulled.pending)
             received == Received(n)
  <2>1. /\ down' = Pulled.down /\ up' = received.up
        /\ SockRec(sock') /\ sock'.rx = received.rx /\ sock'.tx = sent.tx
        /\ sock'.state = IF Pulled.out_eof /\ sent.pending.bytes = 0
                         THEN Closing(sock.state) ELSE sock.state
        /\ ConnRec(conn') /\ conn'.pending = sent.pending
        /\ conn'.out_eof <=> Pulled.out_eof
        /\ ~conn'.live => sock'.state = "Closed"
        /\ ~conn'.app_to_out =>
             \/ ~conn.app_to_out
             \/ received.rx = <<>>
                  /\ sock.state \notin {"Established", "FinWait1", "FinWait2"}
    BY <1>0, <1>3, ServiceIs
  <2>2. /\ Pulled.out_eof => Pulled.down = <<>> /\ reader.pc \in {"end", "done"}
        /\ conn.out_eof => Pulled.out_eof /\ Pulled.pending = conn.pending
    BY <1>0, PulledEnds
  <2>3. ~MaySend(sock) => sent.tx = sock.tx /\ sent.pending = Pulled.pending
    BY DEF Sent
  <2>4. ~conn.app_to_out => received.rx = sock.rx
    BY DEF Received
  <2> HIDE DEF sent, received
  <2>5. /\ conn'.pending \in PendingRec /\ sock'.tx \in Seq(Nat)
        /\ down' \in Seq(Seq(Nat)) /\ DownChain'
    BY <1>0, <1>1, <1>3, ServiceDown
  <2>6. /\ sock'.rx \in Seq(Nat) /\ up' \in Seq(Seq(Nat)) /\ Len(up') <= UpCap /\ UpChain'
    BY <1>0, <1>1, <1>3, ServiceUp
  <2>7. sock'.state \in States
        /\ \/ sock'.state = sock.state
           \/ /\ Pulled.out_eof /\ sent.pending.bytes = 0
              /\ \/ sock.state = "Established" /\ sock'.state = "FinWait1"
                 \/ sock.state = "CloseWait" /\ sock'.state = "LastAck"
    BY <1>0, <2>1 DEF Types, States, Closing
  <2>8. Types'
    BY <1>0, <1>1, <2>1, <2>5, <2>6, <2>7 DEF Types, SockRec, ConnRec
  <2>9. Halves'
    BY <1>0, <1>1 DEF Halves
  <2>10. Ends'
    <3>1. (conn.out_eof => down = <<>> /\ reader.pc \in {"end", "done"})'
      BY <1>1, <2>1, <2>2
    <3>2. (sock.state \in Fins => conn.out_eof /\ conn.pending.bytes = 0)'
      BY <1>0, <2>1, <2>2, <2>3, <2>7 DEF Ends, MaySend, Fins
    <3>3. (sock.state \in {"FinWait2", "TimeWait", "Closed"} => sock.tx = <<>>)'
      BY <1>0, <2>1, <2>3, <2>7 DEF Ends, MaySend
    <3>4. (app.ended => sock.state \in {"FinWait2", "TimeWait", "Closed"})'
      BY <1>0, <1>1, <2>7 DEF Ends
    <3>5. (sock.state \in {"CloseWait", "Closing", "LastAck", "TimeWait"} => app.fin)'
      BY <1>0, <1>1, <2>7 DEF Ends
    <3>6. (sock.state = "Closed" => aborted \/ server.fin)'
      BY <1>0, <1>1, <2>7 DEF Ends
    <3>7. (~conn.live => sock.state = "Closed")'
      BY <2>1
    <3>8. (~conn.app_to_out => aborted \/ server.fin \/ (app.fin /\ sock.rx = <<>>))'
      <4>1. CASE ~conn.app_to_out
        BY <1>0, <1>1, <2>1, <2>4, <4>1 DEF Ends
      <4>2. CASE received.rx = <<>> /\ sock.state \notin {"Established", "FinWait1", "FinWait2"}
        BY <1>0, <1>1, <2>1, <4>2 DEF Ends, Types, States
      <4> QED
        BY <2>1, <4>1, <4>2
    <3> QED
      BY <3>1, <3>2, <3>3, <3>4, <3>5, <3>6, <3>7, <3>8 DEF Ends, Fins
  <2> QED
    BY <2>5, <2>6, <2>8, <2>9, <2>10 DEF StreamInv
<1> QED
  BY <1>2, <1>3 DEF Service

-----------------------------------------------------------------------------
(* The invariant.                                                           *)

LEMMA StreamFirst == Init => StreamInv
<1> SUFFICES ASSUME Init PROVE StreamInv
  OBVIOUS
<1>1. /\ sock = [state |-> "Established", rx |-> <<>>, tx |-> <<>>, armed |-> Both]
      /\ conn = [live |-> TRUE, established |-> FALSE, app_to_out |-> TRUE,
                 pending |-> Empty, out_eof |-> FALSE]
      /\ up = <<>> /\ down = <<>>
      /\ reader = [pc |-> "connect", chunk |-> <<>>]
      /\ writer = [pc |-> "connect", chunk |-> <<>>]
      /\ app = [sent |-> 0, fin |-> FALSE, got |-> <<>>, ended |-> FALSE]
      /\ server = [sent |-> 0, fin |-> FALSE, got |-> <<>>, ended |-> FALSE]
  BY DEF Init
<1>2. Empty \in PendingRec /\ Empty.bytes = 0 /\ Empty.head = 0 /\ Empty.chunks = <<>>
  BY DEF Empty, PendingRec
<1>3. Types
  BY <1>1, <1>2, SizesAre DEF Types, States
<1>4. Halves /\ Ends
  BY <1>1 DEF Halves, Ends
<1>5. Piece(0, 0) = <<>> /\ Chunks(<<>>, 0, 0)
  BY PieceIs, ChunksEmpty
<1>6. Holds(Empty, 0, 0)
  BY <1>2, <1>5 DEF Holds
<1>7. UpChain
  BY <1>1, <1>5 DEF UpChain
<1>8. DownChain
  BY <1>1, <1>5, <1>6 DEF DownChain
<1> QED
  BY <1>3, <1>4, <1>7, <1>8 DEF StreamInv

LEMMA StreamKept == StreamInv /\ [Next]_vars => StreamInv'
<1> SUFFICES ASSUME StreamInv, [Next]_vars PROVE StreamInv'
  OBVIOUS
<1>1. CASE Take
  BY <1>1 DEF Take, StreamInv, Types, Halves, Ends, UpChain, DownChain
<1>2. CASE UNCHANGED vars
  BY <1>2 DEF vars, StreamInv, Types, Halves, Ends, UpChain, DownChain
<1>3. CASE AppSends \/ AppAcks \/ AppCloses \/ AppAcksFin \/ TimeWaitEnds \/ AppAborts \/ Reap
  BY <1>3, AppSendsKeeps, AppAcksKeeps, AppCloseKeeps, ReapKeeps
<1>4. CASE \/ Connect \/ ConnectFails \/ ReadEnds \/ MarkDelivered \/ DropOutTx \/ MarkEnd
           \/ WriteFails
  BY <1>4, TaskTurnsKeep
<1>5. CASE Service
  BY <1>5, ServiceKeeps
<1>6. CASE Deliver \/ Recv \/ Write \/ \E n \in 1 .. TcpBuf : Read(n)
  BY <1>6, DeliverKeeps, RecvKeeps, WriteKeeps, ReadKeeps
<1> QED
  BY <1>1, <1>2, <1>3, <1>4, <1>5, <1>6 DEF Next, Socket, Poll, Reading, Writing

\* Where every byte of either stream is, as long as somebody may still ask for it.
THEOREM StreamInvariant == Spec => []StreamInv
BY StreamFirst, StreamKept, PTL DEF Spec

-----------------------------------------------------------------------------
(* Each step of the flow is a step of the byte stream, or nothing to it.    *)

\* What a byte stream has delivered is the piece behind 0.
LEMMA BytesAre == \A n \in Nat : Up!Bytes(n) = Piece(0, n) /\ Down!Bytes(n) = Piece(0, n)
<1>1. ASSUME NEW n \in Nat PROVE Up!Bytes(n) = Piece(0, n) /\ Down!Bytes(n) = Piece(0, n)
  <2>1. \A i \in 1 .. n : 0 + i = i
    OBVIOUS
  <2>2. n - 0 = n
    OBVIOUS
  <2> QED
    BY <2>1, <2>2 DEF Piece, Up!Bytes, Down!Bytes
<1> QED
  BY <1>1

LEMMA StreamsFirst == Init => Up!Init /\ Down!Init
<1>1. Up!Bytes(0) = <<>> /\ Down!Bytes(0) = <<>>
  BY DEF Up!Bytes, Down!Bytes
<1> QED
  BY <1>1 DEF Init, Up!Init, Down!Init

\* The steps that neither stream can tell from nothing, or only by its being cut.
LEMMA StreamsCut ==
  ASSUME app'.sent = app.sent, app'.fin = app.fin, app'.got = app.got, app'.ended = app.ended,
         server'.sent = server.sent, server'.fin = server.fin,
         server'.got = server.got, server'.ended = server.ended,
         aborted' \/ aborted' = aborted
  PROVE  [Up!Next]_Up!vars /\ [Down!Next]_Down!vars
<1>1. CASE aborted' = aborted
  BY <1>1 DEF Up!vars, Down!vars
<1>2. CASE aborted'
  <2>1. [Up!Next]_Up!vars
    BY <1>2 DEF Up!Next, Up!Cut, Up!vars
  <2>2. [Down!Next]_Down!vars
    BY <1>2 DEF Down!Next, Down!Cut, Down!vars
  <2> QED
    BY <2>1, <2>2
<1> QED
  BY <1>1, <1>2

LEMMA AppStreams ==
  ASSUME StreamInv, AppSends \/ AppCloses
  PROVE  [Up!Next]_Up!vars /\ [Down!Next]_Down!vars
<1>0. EndRec(app) /\ app.sent \in Nat
  BY TypesAre DEF StreamInv, Types
<1>1. ~app.fin /\ UNCHANGED <<server, aborted>>
  BY DEF AppSends, AppCloses
<1>2. app'.got = app.got /\ app'.ended = app.ended
      /\ \/ app'.sent = app.sent + 1 /\ app'.fin = app.fin
         \/ app'.fin /\ app'.sent = app.sent
  BY <1>0 DEF AppSends, AppCloses, EndRec
<1>3. app.sent + 1 \in Nat /\ app.sent + 1 > app.sent
  BY <1>0
<1>4. Up!Send \/ Up!Finish
  BY <1>1, <1>2, <1>3 DEF Up!Send, Up!Finish
<1>5. UNCHANGED Down!vars
  BY <1>1, <1>2 DEF Down!vars
<1> QED
  BY <1>4, <1>5 DEF Up!Next

\* A byte that is acknowledged is delivered.
LEMMA AckStreams ==
  ASSUME StreamInv, AppAcks
  PROVE  [Up!Next]_Up!vars /\ [Down!Next]_Down!vars
<1>0. Types /\ Ends /\ DownChain /\ EndRec(app)
  BY TypesAre DEF StreamInv
<1>1. /\ sock.tx # <<>> /\ app' = [app EXCEPT !.got = Append(@, Head(sock.tx))]
      /\ UNCHANGED <<server, aborted>>
  BY DEF AppAcks
<1>2. /\ app'.sent = app.sent /\ app'.fin = app.fin /\ app'.ended = app.ended
      /\ app'.got = Append(app.got, Head(sock.tx))
  BY <1>0, <1>1 DEF EndRec
<1>3. ~app.ended /\ sock.state # "Closed"
  BY <1>0, <1>1 DEF Ends
<1>4. PICK a, b \in 0 .. server.sent : a <= b /\ app.got = Piece(0, a) /\ sock.tx = Piece(a, b)
  BY <1>0, <1>3 DEF DownChain
<1>5. {a, b} \subseteq Nat /\ 0 <= a /\ a # b /\ server.sent \in Nat
  BY <1>0, <1>1, <1>4, PieceIs DEF Types
<1>6. a < b /\ a + 1 \in 1 .. server.sent /\ a \in 0 .. a + 1 /\ a + 1 \in Nat /\ 0 <= a + 1
  BY <1>4, <1>5
<1>7. Head(sock.tx) = a + 1 /\ Append(Piece(0, a), a + 1) = Piece(0, a + 1)
  BY <1>4, <1>5, <1>6, PieceMoves
<1>8. app'.got = Down!Bytes(a + 1) /\ app.got = Down!Bytes(a)
  BY <1>2, <1>4, <1>5, <1>6, <1>7, BytesAre
<1>9. app'.got # app.got
  <2>1. Len(Piece(0, a)) = a /\ Len(Piece(0, a + 1)) = a + 1
    BY <1>5, <1>6, PieceIs
  <2> QED
    BY <1>2, <1>4, <1>5, <1>7, <2>1
<1>10. Down!Deliver
  BY <1>1, <1>2, <1>3, <1>6, <1>8, <1>9 DEF Down!Deliver
<1>11. UNCHANGED Up!vars
  BY <1>1, <1>2 DEF Up!vars
<1> QED
  BY <1>10, <1>11 DEF Down!Next

\* Our FIN is acknowledged behind the last byte.
LEMMA AckFinStreams ==
  ASSUME StreamInv, AppAcksFin
  PROVE  [Up!Next]_Up!vars /\ [Down!Next]_Down!vars
<1>0. Types /\ Halves /\ Ends /\ DownChain /\ EndRec(app)
  BY TypesAre DEF StreamInv
<1>1. /\ sock.tx = <<>> /\ sock.state \in {"FinWait1", "Closing", "LastAck"}
      /\ app' = [app EXCEPT !.ended = TRUE] /\ UNCHANGED <<server, aborted>>
  BY DEF AppAcksFin
<1>2. /\ app'.sent = app.sent /\ app'.fin = app.fin /\ app'.ended /\ app'.got = app.got
  BY <1>0, <1>1 DEF EndRec
<1>3. ~app.ended
  BY <1>0, <1>1 DEF Ends
<1>4. /\ conn.out_eof /\ conn.pending.bytes = 0 /\ down = <<>>
      /\ reader.pc \in {"end", "done"} /\ reader.chunk = <<>>
  BY <1>0, <1>1 DEF Ends, Halves
<1>5. aborted \/ server.fin
  BY <1>0, <1>4 DEF Halves
<1>6. PICK a, b, c, d \in 0 .. server.sent :
        /\ a <= b /\ b <= c /\ c <= d
        /\ app.got = Piece(0, a) /\ sock.tx = Piece(a, b) /\ Holds(conn.pending, b, c)
        /\ Chunks(down, c, d) /\ reader.chunk = Piece(d, server.sent)
  BY <1>0, <1>1 DEF DownChain
<1>7. {a, b, c, d} \subseteq Nat /\ server.sent \in Nat /\ d <= server.sent
  BY <1>0, <1>6 DEF Types
<1>8. a = b /\ d = server.sent
  <2>1. a \in Nat /\ b \in Nat /\ a <= b /\ Piece(a, b) = <<>>
    BY <1>1, <1>6, <1>7
  <2>2. d \in Nat /\ server.sent \in Nat /\ d <= server.sent /\ Piece(d, server.sent) = <<>>
    BY <1>4, <1>6, <1>7
  <2> QED
    BY <2>1, <2>2, PieceIs
<1>9. b = c
  BY <1>4, <1>6, <1>7 DEF Holds
<1>10. c = d
  BY <1>4, <1>6, <1>7, ChunksEmpty
<1>11. app.got = Down!Bytes(server.sent)
  BY <1>6, <1>7, <1>8, <1>9, <1>10, BytesAre
<1>12. Down!End
  BY <1>1, <1>2, <1>3, <1>5, <1>11 DEF Down!End
<1>13. UNCHANGED Up!vars
  BY <1>1, <1>2 DEF Up!vars
<1> QED
  BY <1>12, <1>13 DEF Down!Next

LEMMA ReadStreams ==
  ASSUME StreamInv, ReadEnds \/ \E n \in 1 .. TcpBuf : Read(n)
  PROVE  [Up!Next]_Up!vars /\ [Down!Next]_Down!vars
<1>0. Types /\ Halves /\ EndRec(server) /\ server.sent \in Nat
  BY TypesAre DEF StreamInv, Types
<1>1. reader.pc = "read" /\ app' = app /\ ~server.fin
  BY <1>0 DEF Read, ReadEnds, Halves
<1>2. CASE \E n \in 1 .. TcpBuf : Read(n)
  <2>1. PICK n \in 1 .. TcpBuf : server' = [server EXCEPT !.sent = @ + n] /\ aborted' = aborted
    BY <1>2 DEF Read
  <2>2. n \in Nat \ {0}
    BY SizesAre
  <2>3. /\ server'.sent = server.sent + n /\ server'.fin = server.fin
        /\ server'.got = server.got /\ server'.ended = server.ended
    BY <1>0, <2>1 DEF EndRec
  <2>4. server'.sent \in Nat /\ server'.sent > server.sent
    BY <1>0, <2>2, <2>3
  <2>5. Down!Send
    BY <1>1, <2>1, <2>3, <2>4 DEF Down!Send
  <2>6. UNCHANGED Up!vars
    BY <1>1, <2>1, <2>3 DEF Up!vars
  <2> QED
    BY <2>5, <2>6 DEF Down!Next
<1>3. CASE server' = [server EXCEPT !.fin = TRUE] /\ aborted' = aborted
  <2>1. /\ server'.sent = server.sent /\ server'.fin
        /\ server'.got = server.got /\ server'.ended = server.ended
    BY <1>0, <1>3 DEF EndRec
  <2>2. Down!Finish
    BY <1>1, <1>3, <2>1 DEF Down!Finish
  <2>3. Up!Cut \/ UNCHANGED Up!vars
    BY <1>1, <1>3, <2>1 DEF Up!Cut, Up!vars
  <2> QED
    BY <2>2, <2>3 DEF Up!Next, Down!Next
<1>4. CASE server' = server /\ aborted'
  BY <1>1, <1>4, StreamsCut
<1> QED
  BY <1>2, <1>3, <1>4 DEF ReadEnds

\* The server is told of the end when the channel is empty and closed.
LEMMA RecvStreams ==
  ASSUME StreamInv, Recv
  PROVE  [Up!Next]_Up!vars /\ [Down!Next]_Down!vars
<1>0. Types /\ Halves /\ Ends /\ UpChain /\ EndRec(server)
  BY TypesAre DEF StreamInv
<1>1. writer.pc = "recv" /\ UNCHANGED <<app, aborted>>
  BY DEF Recv
<1>2. CASE up # <<>>
  <2>1. UNCHANGED server
    BY <1>2 DEF Recv
  <2> QED
    BY <1>1, <2>1, StreamsCut
<1>3. CASE up = <<>>
  <2>1. ~(conn.live /\ conn.app_to_out) /\ server' = [server EXCEPT !.ended = TRUE]
    BY <1>3 DEF Recv
  <2>2. /\ server'.sent = server.sent /\ server'.fin = server.fin
        /\ server'.got = server.got /\ server'.ended
    BY <1>0, <2>1 DEF EndRec
  <2>3. ~server.ended /\ writer.chunk = <<>>
    BY <1>0, <1>1 DEF Halves
  <2>4. aborted \/ server.fin \/ (app.fin /\ sock.rx = <<>>)
    BY <1>0, <2>1 DEF Ends
  <2>5. ASSUME sock.rx = <<>> PROVE server.got = Up!Bytes(app.sent)
    <3>1. PICK g, w, t \in 0 .. app.sent :
            /\ g <= w /\ w <= t
            /\ server.got = Piece(0, g) /\ writer.chunk = Piece(g, w)
            /\ Chunks(up, w, t) /\ sock.rx = Piece(t, app.sent)
      BY <1>0, <1>1 DEF UpChain
    <3>2. {g, w, t} \subseteq Nat /\ app.sent \in Nat /\ t <= app.sent
      BY <1>0, <3>1 DEF Types
    <3>3. g = w /\ t = app.sent
      <4>1. g \in Nat /\ w \in Nat /\ g <= w /\ Piece(g, w) = <<>>
        BY <2>3, <3>1, <3>2
      <4>2. t \in Nat /\ app.sent \in Nat /\ t <= app.sent /\ Piece(t, app.sent) = <<>>
        BY <2>5, <3>1, <3>2
      <4> QED
        BY <4>1, <4>2, PieceIs
    <3>4. w = t
      BY <1>3, <3>1, <3>2, ChunksEmpty
    <3> QED
      BY <3>1, <3>2, <3>3, <3>4, BytesAre
  <2>6. Up!End
    BY <1>1, <2>2, <2>3, <2>4, <2>5 DEF Up!End
  <2>7. UNCHANGED Down!vars
    BY <1>1, <2>2 DEF Down!vars
  <2> QED
    BY <2>6, <2>7 DEF Up!Next
<1> QED
  BY <1>2, <1>3

\* A chunk that is written is delivered.
LEMMA WriteStreams ==
  ASSUME StreamInv, Write
  PROVE  [Up!Next]_Up!vars /\ [Down!Next]_Down!vars
<1>0. Types /\ Halves /\ UpChain /\ EndRec(server)
  BY TypesAre DEF StreamInv
<1>1. /\ writer.pc = "write" /\ server' = [server EXCEPT !.got = @ \o writer.chunk]
      /\ UNCHANGED <<app, aborted>>
  BY DEF Write
<1>2. /\ server'.sent = server.sent /\ server'.fin = server.fin
      /\ server'.got = server.got \o writer.chunk /\ server'.ended = server.ended
  BY <1>0, <1>1 DEF EndRec
<1>3. ~server.ended
  BY <1>0, <1>1 DEF Halves
<1>4. PICK g, w \in 0 .. app.sent :
        g <= w /\ server.got = Piece(0, g) /\ writer.chunk = Piece(g, w)
  BY <1>0, <1>1 DEF UpChain
<1>5. {g, w} \subseteq Nat /\ 0 <= g /\ 0 <= w /\ app.sent \in Nat
  BY <1>0, <1>4 DEF Types
<1>6. server'.got = Piece(0, w)
  BY ZenonT(30), <1>2, <1>4, <1>5, PieceJoins
<1>7. server'.got = Up!Bytes(w) /\ server.got = Up!Bytes(g)
  BY <1>4, <1>5, <1>6, BytesAre
<1>8. UNCHANGED Down!vars
  BY <1>1, <1>2 DEF Down!vars
<1>9. CASE server'.got = server.got
  BY <1>1, <1>2, <1>8, <1>9 DEF Up!vars
<1>10. CASE server'.got # server.got
  <2>1. w # 0
    BY <1>4, <1>5, <1>6, <1>10
  <2>2. w \in 1 .. app.sent /\ g \in 0 .. w
    BY <1>4, <1>5, <2>1
  <2>3. Up!Deliver
    BY <1>1, <1>2, <1>3, <1>7, <1>10, <2>2 DEF Up!Deliver
  <2> QED
    BY <1>8, <2>3 DEF Up!Next
<1> QED
  BY <1>9, <1>10

\* The steps inside the flow, and those that break it.
LEMMA InnerStreams ==
  ASSUME StreamInv,
         \/ Take \/ Service \/ Reap \/ TimeWaitEnds \/ AppAborts \/ Reading
         \/ ConnectFails \/ WriteFails \/ UNCHANGED vars
  PROVE  [Up!Next]_Up!vars /\ [Down!Next]_Down!vars
<1>1. UNCHANGED <<app, server>> /\ (aborted' \/ aborted' = aborted)
  BY DEF Take, Service, Reap, TimeWaitEnds, AppAborts, Reading, Connect, Deliver, MarkDelivered,
         DropOutTx, MarkEnd, ConnectFails, WriteFails, vars
<1> QED
  BY <1>1, StreamsCut

LEMMA StreamsStep == StreamInv /\ [Next]_vars => [Up!Next]_Up!vars /\ [Down!Next]_Down!vars
<1> SUFFICES ASSUME StreamInv, [Next]_vars PROVE [Up!Next]_Up!vars /\ [Down!Next]_Down!vars
  OBVIOUS
<1>1. CASE \/ Take \/ Service \/ Reap \/ TimeWaitEnds \/ AppAborts \/ Reading
           \/ ConnectFails \/ WriteFails \/ UNCHANGED vars
  BY <1>1, InnerStreams
<1>2. CASE AppSends \/ AppCloses
  BY <1>2, AppStreams
<1>3. CASE AppAcks \/ AppAcksFin
  BY <1>3, AckStreams, AckFinStreams
<1>4. CASE ReadEnds \/ \E n \in 1 .. TcpBuf : Read(n)
  BY <1>4, ReadStreams
<1>5. CASE Recv \/ Write
  BY <1>5, RecvStreams, WriteStreams
<1> QED
  BY <1>1, <1>2, <1>3, <1>4, <1>5 DEF Next, Socket, Poll, Writing

\* The app's bytes reach the server as a byte stream: service_tcp, the channel and
\* the writer of tcp_task keep them in order and lose none before the end.
THEOREM AppIsHeard == Spec => UpStream
<1>1. Init => Up!Init
  BY StreamsFirst
<1>2. StreamInv /\ [Next]_vars => [Up!Next]_Up!vars
  BY StreamsStep
<1> QED
  BY <1>1, <1>2, StreamInvariant, PTL DEF Spec, UpStream, Up!Spec

\* The server's bytes reach the app as a byte stream: the reader of tcp_task, the
\* channel, Pending and service_tcp, with our FIN behind the last byte.
THEOREM ServerIsHeard == Spec => DownStream
<1>1. Init => Down!Init
  BY StreamsFirst
<1>2. StreamInv /\ [Next]_vars => [Down!Next]_Down!vars
  BY StreamsStep
<1> QED
  BY <1>1, <1>2, StreamInvariant, PTL DEF Spec, DownStream, Down!Spec

-----------------------------------------------------------------------------
(* Nothing is stranded: whoever waits for room, or for bytes, is marked.    *)

\* What the last pass left behind when no pass is due: the wakers are armed; what
\* the flow still has for the app, the end of the egress leg included, stays
\* behind a send buffer that is not empty, or its mark is on its way; and what the
\* socket has for the server stays behind a channel that is not.
Marked ==
  conn.live /\ ~ready /\ ~taken =>
    /\ sock.armed = Both
    /\ conn.pending.bytes # 0 \/ down # <<>> \/ (reader.pc = "done" /\ ~conn.out_eof) =>
         sock.tx # <<>> \/ reader.pc = "mark"
    /\ sock.rx # <<>> => up # <<>> \/ ~conn.app_to_out \/ writer.pc \in {"write", "done"}
    /\ conn.established /\ conn.app_to_out /\ sock.rx = <<>> =>
         sock.state \in {"Established", "FinWait1", "FinWait2"}

\* The ends of the flow that have been passed on.
Told ==
  /\ conn.out_eof /\ conn.pending.bytes = 0 => sock.state \notin {"Established", "CloseWait"}
  /\ app.fin => sock.state \notin {"Established", "FinWait1", "FinWait2"}
  /\ sock.state \in {"FinWait2", "TimeWait", "Closed"} => aborted \/ app.ended
  /\ writer.pc = "done" => aborted \/ server.ended

\* The end of a stream that was not cut is behind all of its bytes.
EndsLast ==
  /\ app.ended => aborted \/ (server.fin /\ app.got = Down!Bytes(server.sent))
  /\ server.ended =>
       aborted \/ server.fin \/ (app.fin /\ server.got = Up!Bytes(app.sent))

WakeInv == StreamInv /\ Marked /\ Told /\ EndsLast

\* It follows from what a byte stream may do, whatever does it.
LEMMA EndsLastKept ==
  ASSUME EndsLast, [Up!Next]_Up!vars, [Down!Next]_Down!vars
  PROVE  EndsLast'
<1>1. (app.ended => aborted \/ (server.fin /\ app.got = Down!Bytes(server.sent)))'
  <2>1. CASE UNCHANGED Down!vars
    BY <2>1 DEF EndsLast, Down!vars, Down!Bytes
  <2>2. CASE Down!Send \/ Down!Finish \/ Down!Cut
    BY <2>2 DEF EndsLast, Down!Send, Down!Finish, Down!Cut, Down!Bytes
  <2>3. CASE Down!Deliver \/ Down!End
    BY <2>3 DEF EndsLast, Down!Deliver, Down!End, Down!Bytes
  <2> QED
    BY <2>1, <2>2, <2>3 DEF Down!Next
<1>2. (server.ended =>
         aborted \/ server.fin \/ (app.fin /\ server.got = Up!Bytes(app.sent)))'
  <2>1. CASE UNCHANGED Up!vars
    BY <2>1 DEF EndsLast, Up!vars, Up!Bytes
  <2>2. CASE Up!Send \/ Up!Finish \/ Up!Cut
    BY <2>2 DEF EndsLast, Up!Send, Up!Finish, Up!Cut, Up!Bytes
  <2>3. CASE Up!Deliver \/ Up!End
    BY <2>3 DEF EndsLast, Up!Deliver, Up!End, Up!Bytes
  <2> QED
    BY <2>1, <2>2, <2>3 DEF Up!Next
<1> QED
  BY <1>1, <1>2 DEF EndsLast

\* A waker that is armed marks the flow.
LEMMA WokenMarks ==
  ASSUME Marked, ~taken, NEW s, NEW wakers \in {{"recv"}, {"send"}, Both}, Woken(s, wakers),
         conn' = conn
  PROVE  Marked'
<1>1. ready' <=> ready \/ sock.armed \cap wakers # {}
  BY DEF Woken
<1>2. Both \cap wakers # {}
  BY DEF Both
<1> QED
  BY <1>1, <1>2 DEF Marked

\* A step of the socket.
LEMMA SocketMarks ==
  ASSUME WakeInv, AppSends \/ AppCloses \/ AppAcks \/ AppAcksFin \/ TimeWaitEnds \/ AppAborts
  PROVE  Marked'
<1>1. Marked /\ ~taken /\ conn' = conn
  BY DEF WakeInv, AppSends, AppCloses, AppAcks, AppAcksFin, TimeWaitEnds, AppAborts
<1>2. \E s, wakers : wakers \in {{"recv"}, {"send"}, Both} /\ Woken(s, wakers)
  <2>1. CASE AppSends
    BY <2>1 DEF AppSends
  <2>2. CASE AppCloses
    BY <2>2 DEF AppCloses
  <2>3. CASE AppAcks
    BY <2>3 DEF AppAcks
  <2>4. CASE AppAcksFin
    BY <2>4 DEF AppAcksFin
  <2>5. CASE TimeWaitEnds
    BY <2>5 DEF TimeWaitEnds
  <2>6. CASE AppAborts
    BY <2>6 DEF AppAborts
  <2> QED
    BY <2>1, <2>2, <2>3, <2>4, <2>5, <2>6
<1> QED
  BY <1>1, <1>2, WokenMarks

\* A turn of the task.
LEMMA TaskMarks ==
  ASSUME WakeInv,
         \/ Reading \/ Writing \/ ConnectFails \/ ReadEnds \/ WriteFails
         \/ \E n \in 1 .. TcpBuf : Read(n)
  PROVE  Marked'
<1>0. Types /\ Halves /\ Marked /\ TaskRec(reader) /\ TaskRec(writer)
  BY TypesAre DEF WakeInv, StreamInv
<1>1. CASE MarkDelivered \/ MarkEnd \/ Write
  BY <1>1 DEF Marked, MarkDelivered, MarkEnd, Write
<1>2. CASE Connect \/ ConnectFails
  BY <1>0, <1>2 DEF Marked, Halves, Connect, ConnectFails, TaskRec
<1>3. CASE DropOutTx \/ ReadEnds \/ \E n \in 1 .. TcpBuf : Read(n)
  BY <1>0, <1>3 DEF Marked, DropOutTx, ReadEnds, Read, TaskRec
<1>4. CASE Deliver
  BY <1>0, <1>4 DEF Marked, Deliver
<1>5. CASE Recv \/ WriteFails
  BY <1>0, <1>5 DEF Marked, Recv, WriteFails, TaskRec
<1> QED
  BY <1>1, <1>2, <1>3, <1>4, <1>5 DEF Reading, Writing

\* A pass of the loop that fills the send buffer fills it, or uses up a chunk.
LEMMA SliceDrains ==
  ASSUME NEW a \in Nat, NEW c \in Nat, NEW s \in SliceRec, SliceOk(s, a, c)
  PROVE  \/ Slice(s) = s /\ (s.pending.bytes = 0 \/ Len(s.tx) >= TcpBuf)
         \/ Len(Slice(s).tx) >= TcpBuf
         \/ Len(Slice(s).pending.chunks) = Len(s.pending.chunks) - 1
<1>1. PICK p \in PendingRec : p = s.pending
  BY DEF SliceRec
<1>2. PICK tx \in Seq(Nat) : tx = s.tx
  BY DEF SliceRec
<1>3. PICK b \in Nat : b = a + Len(tx)
  OBVIOUS
<1>4. Holds(p, b, c) /\ Len(tx) \in Nat /\ TcpBuf \in Nat \ {0}
  BY <1>1, <1>2, <1>3, SizesAre DEF SliceOk
<1>5. CASE p.bytes = 0 \/ Len(tx) >= TcpBuf
  <2>1. Slice(s) = s
    BY <1>1, <1>2, <1>5 DEF Slice
  <2> QED
    BY <1>1, <1>2, <1>5, <2>1
<1>6. CASE ~(p.bytes = 0 \/ Len(tx) >= TcpBuf)
  <2>1. PICK front : front = PendingFront(p)
    OBVIOUS
  <2>2. Len(front) \in Nat \ {0} /\ front = Piece(b, b + Len(front))
    BY <1>4, <1>6, <2>1, FrontHolds
  <2>3. PICK n : n = Min({Len(front), TcpBuf - Len(tx)})
    OBVIOUS
  <2>4. TcpBuf - Len(tx) \in Nat \ {0}
    BY <1>4, <1>6
  <2>5. n = IF Len(front) <= TcpBuf - Len(tx) THEN Len(front) ELSE TcpBuf - Len(tx)
    BY <2>2, <2>3, <2>4, LesserOf
  <2>6. Slice(s) = [pending |-> Advance(p, n), tx |-> tx \o SubSeq(front, 1, n)]
    BY <1>1, <1>2, <1>6, <2>1, <2>3 DEF Slice
  <2>7. Slice(s).pending = Advance(p, n) /\ Slice(s).tx = tx \o SubSeq(front, 1, n)
    <3>1. PICK out : out = tx \o SubSeq(front, 1, n)
      OBVIOUS
    <3>2. PICK rest : rest = Advance(p, n)
      OBVIOUS
    <3>3. PICK r : r = Slice(s)
      OBVIOUS
    <3>4. r = [pending |-> rest, tx |-> out]
      BY <2>6, <3>1, <3>2, <3>3
    <3>5. r.pending = rest /\ r.tx = out
      BY <3>4
    <3> QED
      BY <3>1, <3>2, <3>3, <3>5
  <2>8. CASE n = Len(front)
    <3>1. PICK q \in Seq(Seq(Nat)) : q = p.chunks
      BY PendingIs
    <3>2. PICK head \in Nat : head = p.head
      BY PendingIs
    <3>3. front = SubSeq(q[1], head + 1, Len(q[1]))
      BY <2>1, <3>1, <3>2 DEF PendingFront
    <3>4. q # <<>>
      <4>1. Holds(p, b, c) /\ p.bytes \in Int
        BY <1>4, PendingIs
      <4>2. ASSUME q = <<>> PROVE FALSE
        <5>1. head = 0 /\ Chunks(<<>>, b - 0, c) /\ p.bytes = c - b
          BY <3>1, <3>2, <4>1, <4>2 DEF Holds
        <5>2. b = c
          BY <5>1, ChunksEmpty
        <5> QED
          BY <1>6, <5>1, <5>2
      <4> QED
        BY <4>2
    <3>5. q[1] \in Seq(Nat) /\ Len(q[1]) \in Nat
      BY <3>4
    <3>6. head + Len(front) >= Len(q[1])
      <4>1. head < Len(q[1])
        BY <1>4, <3>1, <3>2, <3>4 DEF Holds
      <4>2. Len(SubSeq(q[1], head + 1, Len(q[1]))) = Len(q[1]) - head
        BY <3>5, <4>1
      <4> QED
        BY <3>3, <3>5, <4>2
    <3>7. Advance(p, n).chunks = Tail(q)
      BY <2>8, <3>1, <3>2, <3>6 DEF Advance
    <3>8. Len(Tail(q)) = Len(q) - 1
      BY <3>4
    <3>9. Len(Slice(s).pending.chunks) = Len(s.pending.chunks) - 1
      BY <1>1, <2>7, <3>1, <3>7, <3>8
    <3> QED
      BY <3>9
  <2>9. CASE n # Len(front)
    <3>1. n = TcpBuf - Len(tx) /\ n \in 1 .. Len(front)
      BY <2>2, <2>4, <2>5, <2>9
    <3>2. front \in Seq(Nat)
      BY <2>2, PieceIs
    <3>3. Len(SubSeq(front, 1, n)) = n /\ SubSeq(front, 1, n) \in Seq(Nat)
      BY <3>1, <3>2
    <3>4. Len(tx \o SubSeq(front, 1, n)) = TcpBuf
      BY <1>4, <3>1, <3>3
    <3>5. Len(Slice(s).tx) >= TcpBuf
      <4>1. Len(Slice(s).tx) = TcpBuf
        BY <2>7, <3>4
      <4> QED
        BY <1>4, <4>1
    <3> QED
      BY <3>5
  <2> QED
    BY <2>8, <2>9
<1> QED
  BY <1>5, <1>6

\* The loop ends with a full send buffer or an empty pending output.
LEMMA SentFills ==
  ASSUME NEW a \in Nat, NEW c \in Nat, NEW pending \in PendingRec, sock.tx \in Seq(Nat),
         SliceOk([pending |-> pending, tx |-> sock.tx], a, c), MaySend(sock)
  PROVE  Sent(pending).pending.bytes = 0 \/ Len(Sent(pending).tx) >= TcpBuf
<1>1. PICK f : Passes(f, pending, a, c)
  BY SentPasses
<1>2. PICK len \in Nat : len = Len(pending.chunks)
  BY PendingIs
<1>3. /\ f[0] = [pending |-> pending, tx |-> sock.tx]
      /\ \A i \in 1 .. len : f[i] = Slice(f[i - 1])
      /\ \A i \in 0 .. len : f[i] \in SliceRec /\ SliceOk(f[i], a, c)
      /\ Sent(pending) = f[len]
  BY <1>1, <1>2 DEF Passes
<1> DEFINE full(s) == s.pending.bytes = 0 \/ Len(s.tx) >= TcpBuf
           good == {i \in 0 .. len : full(f[i]) \/ Len(f[i].pending.chunks) = len - i}
<1>4. 0 \in good
  BY <1>2, <1>3
<1>5. ASSUME NEW i \in 1 .. len, i - 1 \in good PROVE i \in good
  <2>1. i - 1 \in 0 .. len /\ i \in 0 .. len
    BY <1>2
  <2>2. PICK s \in SliceRec : s = f[i - 1]
    BY <1>3, <2>1
  <2>3. f[i] = Slice(s) /\ SliceOk(s, a, c)
    BY <1>3, <2>1, <2>2
  <2>4. \/ Slice(s) = s /\ full(s)
        \/ full(Slice(s))
        \/ Len(Slice(s).pending.chunks) = Len(s.pending.chunks) - 1
    BY <2>2, <2>3, SliceDrains
  <2>5. full(s) \/ Len(s.pending.chunks) = len - (i - 1)
    BY <1>5, <2>2
  <2>6. full(s) => Slice(s) = s
    BY DEF Slice
  <2> HIDE DEF full
  <2>7. full(Slice(s)) \/ Len(Slice(s).pending.chunks) = len - i
    <3>1. CASE full(s)
      BY <2>6, <3>1
    <3>2. CASE ~full(s)
      <4>1. Len(s.pending.chunks) = len - (i - 1)
        BY <2>5, <3>2
      <4>2. full(Slice(s)) \/ Len(Slice(s).pending.chunks) = (len - (i - 1)) - 1
        BY <2>4, <3>2, <4>1
      <4>3. (len - (i - 1)) - 1 = len - i
        BY <2>1
      <4> QED
        BY <4>2, <4>3
    <3> QED
      BY <3>1, <3>2
  <2> QED
    BY <2>1, <2>3, <2>7
<1> HIDE DEF good
<1>6. 0 .. len \subseteq good
  BY <1>2, <1>4, <1>5, UpTo
<1> USE DEF good
<1>7. PICK s \in SliceRec : s = f[len]
  BY <1>2, <1>3
<1>8. full(s) \/ Len(s.pending.chunks) = 0
  BY <1>2, <1>6, <1>7
<1>9. ASSUME Len(s.pending.chunks) = 0 PROVE s.pending.bytes = 0
  <2>1. PICK p \in PendingRec : p = s.pending
    BY <1>7 DEF SliceRec
  <2>2. PICK tx \in Seq(Nat) : tx = s.tx
    BY <1>7 DEF SliceRec
  <2>3. PICK b \in Nat : b = a + Len(tx)
    OBVIOUS
  <2>4. Holds(p, b, c)
    <3>1. len \in 0 .. len
      BY <1>2
    <3>2. SliceOk(s, a, c)
      BY <1>3, <1>7, <3>1
    <3> QED
      BY <2>1, <2>2, <2>3, <3>2 DEF SliceOk
  <2>5. p.chunks = <<>>
    BY <1>9, <2>1, PendingIs
  <2>6. p.head = 0 /\ Chunks(<<>>, b - 0, c) /\ p.bytes = c - b
    BY <2>4, <2>5 DEF Holds
  <2>7. b = c
    BY <2>6, ChunksEmpty
  <2> QED
    BY <2>1, <2>6, <2>7
<1> QED
  BY <1>3, <1>7, <1>8, <1>9

\* What stays in the receive buffer stays behind a channel that is full.
LEMMA ReceivedFills ==
  ASSUME Types, NEW n \in 0 .. Len(sock.rx), n = 0 <=> sock.rx = <<>>
  PROVE  Received(n).rx # <<>> => Received(n).up # <<>> \/ ~conn.app_to_out \/ ~AppRx
<1>1. sock.rx \in Seq(Nat) /\ up \in Seq(Seq(Nat)) /\ Len(up) <= UpCap /\ UpCap \in Nat \ {0}
  BY SizesAre DEF Types
<1>2. CASE sock.rx = <<>> \/ ~conn.app_to_out \/ ~AppRx
  BY <1>2 DEF Received
<1>3. CASE ~(sock.rx = <<>> \/ ~conn.app_to_out \/ ~AppRx)
  <2>1. PICK pieces : pieces = Pieces(n)
    OBVIOUS
  <2>2. pieces \in Seq(Seq(Nat)) /\ Len(pieces) \in {1, 2}
    <3>1. CASE n = Len(sock.rx)
      <4>1. pieces = <<sock.rx>>
        BY <2>1, <3>1 DEF Pieces
      <4> QED
        BY <1>1, <4>1
    <3>2. CASE n # Len(sock.rx)
      <4>1. PICK p : p = SubSeq(sock.rx, 1, n)
        OBVIOUS
      <4>2. PICK q : q = SubSeq(sock.rx, n + 1, Len(sock.rx))
        OBVIOUS
      <4>3. PICK rx \in Seq(Nat) : rx = sock.rx
        BY <1>1
      <4>4. /\ SubSeq(rx, 1, n) \in Seq(Nat)
            /\ SubSeq(rx, n + 1, Len(rx)) \in Seq(Nat)
        BY <4>3
      <4>5. p \in Seq(Nat) /\ q \in Seq(Nat)
        BY <4>1, <4>2, <4>3, <4>4
      <4>6. pieces = <<p, q>>
        BY <2>1, <3>2, <4>1, <4>2 DEF Pieces
      <4> QED
        BY <4>5, <4>6
    <3> QED
      BY <3>1, <3>2
  <2>3. PICK room : room = Min({Len(pieces), UpCap - Len(up)})
    OBVIOUS
  <2>4. /\ Received(n).rx = Left(n, room)
        /\ Received(n).up = up \o SubSeq(pieces, 1, room)
    BY <1>3, <2>1, <2>3 DEF Received
  <2>5. room = IF Len(pieces) <= UpCap - Len(up) THEN Len(pieces) ELSE UpCap - Len(up)
    <3>1. Len(pieces) \in Int /\ UpCap - Len(up) \in Int
      BY <1>1, <2>2
    <3> QED
      BY <2>3, <3>1, LesserOf
  <2>6. CASE room = Len(pieces)
    <3>1. Left(n, room) = <<>>
      BY <2>1, <2>2, <2>6 DEF Left
    <3> QED
      BY <2>4, <3>1
  <2>7. CASE room # Len(pieces)
    <3>1. room = UpCap - Len(up) /\ room \in 0 .. Len(pieces)
      BY <1>1, <2>2, <2>5, <2>7
    <3>2. SubSeq(pieces, 1, room) \in Seq(Seq(Nat)) /\ Len(SubSeq(pieces, 1, room)) = room
      BY <2>2, <3>1
    <3>3. Len(up \o SubSeq(pieces, 1, room)) = UpCap
      BY <1>1, <3>1, <3>2
    <3>4. up \o SubSeq(pieces, 1, room) # <<>>
      BY <1>1, <3>3
    <3> QED
      BY <2>4, <3>4
  <2> QED
    BY <2>6, <2>7
<1> QED
  BY <1>2, <1>3

\* What a pass does to the marks.
LEMMA ServiceIsMore ==
  ASSUME Types, NEW n, ServiceTcp(n)
  PROVE  /\ sock'.armed = Both
         /\ conn'.live => sock'.state # "Closed"
         /\ conn'.app_to_out => conn.app_to_out
         /\ conn'.established /\ conn'.app_to_out =>
              \/ Received(n).rx # <<>>
              \/ sock.state \in {"Established", "FinWait1", "FinWait2"}
<1> DEFINE sent == Sent(Pulled.pending)
           received == Received(n)
           moved == [sock EXCEPT !.tx = sent.tx, !.rx = received.rx]
           state == IF Pulled.out_eof /\ sent.pending.bytes = 0
                    THEN Closing(sock.state) ELSE sock.state
           established == conn.established \/ sock.state = "Established"
<1>1. /\ conn' = [live |-> state # "Closed", established |-> established,
                  app_to_out |-> conn.app_to_out /\ (established => MayRecv(moved)),
                  pending |-> sent.pending, out_eof |-> Pulled.out_eof]
      /\ sock' = [moved EXCEPT !.state = state, !.armed = Both]
  BY DEF ServiceTcp
<1> HIDE DEF state, established, sent, received
<1>2. SockRec(sock)
  BY TypesAre
<1>3. SockRec(moved) /\ moved.state = sock.state /\ moved.rx = received.rx
  <2>1. PICK rx : rx = received.rx
    OBVIOUS
  <2>2. PICK tx : tx = sent.tx
    OBVIOUS
  <2>3. PICK m : m = [sock EXCEPT !.tx = tx, !.rx = rx]
    OBVIOUS
  <2>4. SockRec(m) /\ m.state = sock.state /\ m.rx = rx
    BY <1>2, <2>3 DEF SockRec
  <2>5. m = moved
    BY <2>1, <2>2, <2>3
  <2> QED
    BY <2>1, <2>4, <2>5
<1> HIDE DEF moved
<1>4. sock'.armed = Both /\ sock'.state = state
  BY <1>1, <1>3 DEF SockRec
<1>5. /\ conn'.live = (state # "Closed") /\ conn'.established = established
      /\ conn'.app_to_out = (conn.app_to_out /\ (established => MayRecv(moved)))
  BY <1>1
<1>6. MayRecv(moved) =>
        received.rx # <<>> \/ sock.state \in {"Established", "FinWait1", "FinWait2"}
  BY <1>3 DEF MayRecv
<1> QED
  BY <1>4, <1>5, <1>6 DEF received

\* What a pass leaves for the app is behind a full send buffer.
LEMMA ServiceFills ==
  ASSUME Types, DownChain, MaySend(sock)
  PROVE  LET sent == Sent(Pulled.pending)
         IN  \/ sent.tx # <<>>
             \/ /\ sent.pending.bytes = 0 /\ Pulled.down = <<>>
                /\ ~OutTx => Pulled.out_eof
<1> DEFINE sent == Sent(Pulled.pending)
<1>1. /\ conn.pending \in PendingRec /\ down \in Seq(Seq(Nat)) /\ sock.tx \in Seq(Nat)
      /\ server.sent \in Nat /\ TcpBuf \in Nat \ {0}
  BY SizesAre DEF Types
<1>2. PICK a, b, c, d \in 0 .. server.sent :
        /\ a <= b /\ b <= c /\ c <= d
        /\ app.got = Piece(0, a) /\ sock.tx = Piece(a, b) /\ Holds(conn.pending, b, c)
        /\ Chunks(down, c, d) /\ reader.chunk = Piece(d, server.sent)
  BY DEF DownChain, MaySend
<1>3. {a, b, c, d} \subseteq Nat
  BY <1>1, <1>2
<1>4. PICK e \in c .. d : Holds(Pulled.pending, b, e) /\ Chunks(Pulled.down, e, d)
  BY <1>1, <1>2, <1>3, PulledHolds
<1>5. PICK p \in PendingRec : p = Pulled.pending
  BY <1>1, PulledTyped
<1>6. Len(sock.tx) = b - a
  BY <1>2, <1>3, PieceIs
<1>7. a + Len(sock.tx) = b /\ e \in Nat
  BY <1>3, <1>6
<1>8. SliceOk([pending |-> p, tx |-> sock.tx], a, e)
  BY <1>2, <1>4, <1>5, <1>7 DEF SliceOk
<1>9. PICK r \in SliceRec : r = Sent(p) /\ SliceOk(r, a, e)
  BY <1>1, <1>3, <1>7, <1>8, SentHolds
<1>10. r.pending.bytes = 0 \/ Len(r.tx) >= TcpBuf
  BY <1>1, <1>3, <1>7, <1>8, <1>9, SentFills
<1>11. PICK tx \in Seq(Nat) : tx = r.tx
  BY <1>9 DEF SliceRec
<1>12. r.pending.bytes = e - (a + Len(tx)) /\ p.bytes = e - b
  BY <1>4, <1>5, <1>9, <1>11 DEF SliceOk, Holds
<1>13. PICK k \in 0 .. Len(down) :
         /\ Pulled.pending = Pulls[k] /\ Pulled.down = SubSeq(down, k + 1, Len(down))
         /\ Pulled.out_eof <=> conn.out_eof \/ (Enough = {} /\ ~OutTx)
         /\ IF Enough = {} THEN k = Len(down) ELSE Pulls[k].bytes >= TcpBuf
  BY <1>1, PulledIs
<1>14. CASE Len(tx) >= TcpBuf
  <2>1. tx # <<>>
    BY <1>1, <1>14
  <2> QED
    BY <1>5, <1>9, <1>11, <2>1
<1>15. CASE ~(Len(tx) >= TcpBuf) /\ Enough = {}
  <2>1. k = Len(down) /\ (~OutTx => Pulled.out_eof)
    BY <1>13, <1>15
  <2>2. Pulled.down = <<>>
    BY <1>1, <1>13, <2>1
  <2> QED
    BY <1>5, <1>9, <1>10, <1>11, <1>15, <2>1, <2>2
<1>16. CASE ~(Len(tx) >= TcpBuf) /\ Enough # {}
  <2>1. p.bytes >= TcpBuf
    BY <1>5, <1>13, <1>16
  <2>2. r.pending.bytes = 0
    BY <1>10, <1>11, <1>16
  <2>3. Len(tx) \in Nat /\ e = a + Len(tx) /\ e - b >= TcpBuf
    BY SMTT(30), <1>3, <1>7, <1>12, <2>1, <2>2
  <2>4. Len(tx) >= TcpBuf
    BY <1>1, <1>2, <1>3, <1>7, <2>3
  <2> QED
    BY <1>16, <2>4
<1> QED
  BY <1>14, <1>15, <1>16

LEMMA ServiceMarks ==
  ASSUME WakeInv, NEW n \in 0 .. Len(sock.rx), n = 0 <=> sock.rx = <<>>, ServiceTcp(n),
         UNCHANGED <<reader, writer, app, server, aborted>>
  PROVE  Marked' /\ Told'
<1>0. Types /\ Halves /\ Ends /\ DownChain /\ Told
  BY DEF WakeInv, StreamInv
<1> DEFINE sent == Sent(Pulled.pending)
           received == Received(n)
<1>1. /\ down' = Pulled.down /\ up' = received.up
      /\ sock'.rx = received.rx /\ sock'.tx = sent.tx
      /\ sock'.state = IF Pulled.out_eof /\ sent.pending.bytes = 0
                       THEN Closing(sock.state) ELSE sock.state
      /\ conn'.pending = sent.pending
      /\ conn'.out_eof <=> Pulled.out_eof
  BY <1>0, ServiceIs
<1>2. /\ sock'.armed = Both
      /\ conn'.live => sock'.state # "Closed"
      /\ conn'.app_to_out => conn.app_to_out
      /\ conn'.established /\ conn'.app_to_out =>
           received.rx # <<>> \/ sock.state \in {"Established", "FinWait1", "FinWait2"}
  BY <1>0, ServiceIsMore
<1>3. received.rx # <<>> => received.up # <<>> \/ ~conn.app_to_out \/ ~AppRx
  BY <1>0, ReceivedFills
<1>4. MaySend(sock) =>
        \/ sent.tx # <<>>
        \/ sent.pending.bytes = 0 /\ Pulled.down = <<>> /\ (~OutTx => Pulled.out_eof)
  BY <1>0, ServiceFills
<1>5. ~MaySend(sock) => sent.tx = sock.tx /\ sent.pending = Pulled.pending
  BY DEF Sent
<1>6. /\ Pulled.out_eof => Pulled.down = <<>>
      /\ conn.out_eof => Pulled.out_eof /\ Pulled.pending = conn.pending
  BY <1>0, PulledEnds
<1>7. sock.state \in Fins => conn.out_eof /\ conn.pending.bytes = 0
  BY <1>0 DEF Ends, Fins
<1> HIDE DEF sent, received
<1>8. \/ sock'.state = sock.state
      \/ /\ Pulled.out_eof /\ sent.pending.bytes = 0
         /\ \/ sock.state = "Established" /\ sock'.state = "FinWait1"
            \/ sock.state = "CloseWait" /\ sock'.state = "LastAck"
  BY <1>1 DEF Closing
<1>9. Told'
  <2>1. (conn.out_eof /\ conn.pending.bytes = 0 =>
           sock.state \notin {"Established", "CloseWait"})'
    BY <1>1 DEF Closing
  <2>2. (app.fin => sock.state \notin {"Established", "FinWait1", "FinWait2"})'
    BY <1>0, <1>8 DEF Told
  <2>3. (sock.state \in {"FinWait2", "TimeWait", "Closed"} => aborted \/ app.ended)'
    BY <1>0, <1>8 DEF Told
  <2>4. (writer.pc = "done" => aborted \/ server.ended)'
    BY <1>0 DEF Told
  <2> QED
    BY <2>1, <2>2, <2>3, <2>4 DEF Told
<1>10. SUFFICES ASSUME conn'.live PROVE Marked'
  BY <1>9 DEF Marked
<1>11. sock.state # "Closed"
  BY <1>2, <1>8, <1>10
<1>12. \/ sent.tx # <<>>
       \/ sent.pending.bytes = 0 /\ Pulled.down = <<>> /\ (~OutTx => Pulled.out_eof)
  <2>1. CASE MaySend(sock)
    BY <1>4, <2>1
  <2>2. CASE ~MaySend(sock)
    <3>1. sock.state \in Fins
      BY <1>0, <1>11, <2>2 DEF Types, States, MaySend, Fins
    <3> QED
      BY <1>5, <1>6, <1>7, <2>2, <3>1
  <2> QED
    BY <2>1, <2>2
<1>13. (conn.pending.bytes # 0 \/ down # <<>> \/ (reader.pc = "done" /\ ~conn.out_eof) =>
          sock.tx # <<>> \/ reader.pc = "mark")'
  BY <1>1, <1>12 DEF OutTx
<1>14. (sock.rx # <<>> => up # <<>> \/ ~conn.app_to_out \/ writer.pc \in {"write", "done"})'
  BY <1>1, <1>2, <1>3 DEF AppRx
<1>15. (conn.established /\ conn.app_to_out /\ sock.rx = <<>> =>
          sock.state \in {"Established", "FinWait1", "FinWait2"})'
  BY <1>1, <1>2, <1>8
<1> QED
  BY <1>2, <1>9, <1>13, <1>14, <1>15 DEF Marked

\* The ends are passed on by the two FINs and the two halves.
LEMMA ToldKept ==
  ASSUME WakeInv, [Next]_vars, ~Service
  PROVE  Told'
<1>0. /\ Halves /\ Ends /\ Told /\ SockRec(sock) /\ TaskRec(writer) /\ ConnRec(conn)
      /\ EndRec(app) /\ EndRec(server)
  BY TypesAre DEF WakeInv, StreamInv
<1>1. ASSUME NEW to, Woken([sock EXCEPT !.state = to], Both)
      PROVE  sock'.state = to
  <2>1. PICK s : s = [sock EXCEPT !.state = to]
    OBVIOUS
  <2>2. SockRec(s) /\ s.state = to
    BY <1>0, <2>1 DEF SockRec
  <2> QED
    BY <1>1, <2>1, <2>2, WokenIs
<1>2. CASE AppSends
  <2>1. PICK s : s = [sock EXCEPT !.rx = Append(@, app.sent + 1)]
    OBVIOUS
  <2>2. SockRec(s) /\ s.state = sock.state
    BY <1>0, <2>1 DEF SockRec
  <2>3. sock'.state = sock.state
    BY <1>2, <2>1, <2>2, WokenIs DEF AppSends
  <2>4. app'.fin = app.fin /\ app'.ended = app.ended
    BY <1>0, <1>2 DEF AppSends, EndRec
  <2> QED
    BY <1>0, <1>2, <2>3, <2>4 DEF Told, AppSends
<1>3. CASE AppAcks
  <2>1. PICK s : s = [sock EXCEPT !.tx = Tail(@)]
    OBVIOUS
  <2>2. SockRec(s) /\ s.state = sock.state
    BY <1>0, <2>1 DEF SockRec
  <2>3. sock'.state = sock.state
    BY <1>3, <2>1, <2>2, WokenIs DEF AppAcks
  <2>4. app'.fin = app.fin /\ app'.ended = app.ended
    BY <1>0, <1>3 DEF AppAcks, EndRec
  <2> QED
    BY <1>0, <1>3, <2>3, <2>4 DEF Told, AppAcks
<1>4. CASE AppCloses
  <2>1. PICK to \in {<<"Established", "CloseWait">>, <<"FinWait1", "Closing">>,
                     <<"FinWait2", "TimeWait">>} :
          sock.state = to[1] /\ Woken([sock EXCEPT !.state = to[2]], Both)
    BY <1>4 DEF AppCloses
  <2>2. \/ sock.state = "Established" /\ sock'.state = "CloseWait"
        \/ sock.state = "FinWait1" /\ sock'.state = "Closing"
        \/ sock.state = "FinWait2" /\ sock'.state = "TimeWait"
    BY <1>1, <2>1
  <2>3. app'.ended = app.ended
    BY <1>0, <1>4 DEF AppCloses, EndRec
  <2> QED
    BY <1>0, <1>4, <2>2, <2>3 DEF Told, AppCloses
<1>5. CASE AppAcksFin
  <2>1. PICK to \in {<<"FinWait1", "FinWait2">>, <<"Closing", "TimeWait">>,
                     <<"LastAck", "Closed">>} :
          sock.state = to[1] /\ Woken([sock EXCEPT !.state = to[2]], Both)
    BY <1>5 DEF AppAcksFin
  <2>2. \/ sock.state = "FinWait1" /\ sock'.state = "FinWait2"
        \/ sock.state = "Closing" /\ sock'.state = "TimeWait"
        \/ sock.state = "LastAck" /\ sock'.state = "Closed"
    BY <1>1, <2>1
  <2>3. app'.ended /\ app'.fin = app.fin
    BY <1>0, <1>5 DEF AppAcksFin, EndRec
  <2> QED
    BY <1>0, <1>5, <2>2, <2>3 DEF Told, AppAcksFin
<1>6. CASE TimeWaitEnds
  <2>1. sock.state = "TimeWait" /\ sock'.state = "Closed"
    BY <1>1, <1>6 DEF TimeWaitEnds
  <2> QED
    BY <1>0, <1>6, <2>1 DEF Told, TimeWaitEnds
<1>7. CASE AppAborts
  <2>1. PICK s : s = [sock EXCEPT !.state = "Closed", !.tx = <<>>]
    OBVIOUS
  <2>2. SockRec(s) /\ s.state = "Closed"
    BY <1>0, <2>1 DEF SockRec
  <2>3. sock'.state = "Closed"
    BY <1>7, <2>1, <2>2, WokenIs DEF AppAborts
  <2> QED
    BY <1>0, <1>7, <2>3 DEF Told, AppAborts
<1>8. CASE Reap
  BY <1>0, <1>8 DEF Told, Reap, SockRec
<1>9. CASE Take \/ Reading \/ UNCHANGED vars
  <2>1. /\ UNCHANGED <<sock, conn, app, server, aborted>>
        /\ writer'.pc = writer.pc \/ writer'.pc = "recv"
    BY <1>0, <1>9 DEF Take, Reading, Connect, Deliver, MarkDelivered, DropOutTx, MarkEnd, vars,
                      TaskRec
  <2> QED
    BY <1>0, <2>1 DEF Told
<1>10. CASE ConnectFails \/ ReadEnds \/ WriteFails \/ \E n \in 1 .. TcpBuf : Read(n)
  <2>1. /\ UNCHANGED <<sock, conn, app>> /\ (aborted' \/ aborted' = aborted)
        /\ aborted' \/ (writer' = writer /\ server'.ended = server.ended)
    BY <1>0, <1>10 DEF ConnectFails, ReadEnds, WriteFails, Read, EndRec
  <2> QED
    BY <1>0, <2>1 DEF Told
<1>11. CASE Recv \/ Write
  <2>1. /\ UNCHANGED <<sock, conn, app, aborted>>
        /\ writer'.pc = "done" => server'.ended
    BY <1>0, <1>11 DEF Recv, Write, TaskRec, EndRec
  <2> QED
    BY <1>0, <2>1 DEF Told
<1> QED
  BY <1>2, <1>3, <1>4, <1>5, <1>6, <1>7, <1>8, <1>9, <1>10, <1>11
     DEF Next, Socket, Poll, Writing

LEMMA WakeFirst == Init => WakeInv
<1> SUFFICES ASSUME Init PROVE WakeInv
  OBVIOUS
<1>1. Marked /\ Told /\ EndsLast
  BY DEF Init, Marked, Told, EndsLast
<1> QED
  BY <1>1, StreamFirst DEF WakeInv

LEMMA WakeKept == WakeInv /\ [Next]_vars => WakeInv'
<1> SUFFICES ASSUME WakeInv, [Next]_vars PROVE WakeInv'
  OBVIOUS
<1>1. StreamInv'
  BY StreamKept DEF WakeInv
<1>2. EndsLast'
  BY StreamsStep, EndsLastKept DEF WakeInv
<1>3. CASE Service
  <2>1. UNCHANGED <<reader, writer, app, server, aborted>>
    BY <1>3 DEF Service
  <2>2. ASSUME ~conn.live PROVE Marked' /\ Told'
    BY <1>3, <2>1, <2>2 DEF Service, WakeInv, Marked, Told
  <2>3. ASSUME conn.live PROVE Marked' /\ Told'
    <3>1. PICK n \in 0 .. Len(sock.rx) : (n = 0 <=> sock.rx = <<>>) /\ ServiceTcp(n)
      BY <1>3, <2>3 DEF Service
    <3> QED
      BY <2>1, <3>1, ServiceMarks
  <2>4. Marked' /\ Told'
    BY <2>2, <2>3
  <2> QED
    BY <1>1, <1>2, <2>4 DEF WakeInv
<1>4. CASE ~Service
  <2>1. Told'
    BY <1>4, ToldKept
  <2>2. Marked'
    <3>1. CASE Take \/ Reap \/ UNCHANGED vars
      <4>1. ConnRec(conn) /\ Marked
        BY TypesAre DEF WakeInv, StreamInv
      <4> QED
        BY <3>1, <4>1 DEF Take, Reap, vars, Marked, ConnRec
    <3>2. CASE \/ AppSends \/ AppCloses \/ AppAcks \/ AppAcksFin \/ TimeWaitEnds
               \/ AppAborts
      BY <3>2, SocketMarks
    <3>3. CASE \/ Reading \/ Writing \/ ConnectFails \/ ReadEnds \/ WriteFails
               \/ \E n \in 1 .. TcpBuf : Read(n)
      BY <3>3, TaskMarks
    <3> QED
      BY <1>4, <3>1, <3>2, <3>3 DEF Next, Socket, Poll
  <2> QED
    BY <1>1, <1>2, <2>1, <2>2 DEF WakeInv
<1> QED
  BY <1>3, <1>4

LEMMA WakeInvariant == Spec => []WakeInv
BY WakeFirst, WakeKept, PTL DEF Spec

\* When all wait, everything has arrived: the marks leave nothing behind, and what
\* is nowhere between the ends is at the other end.
LEMMA WaitingIsOver == WakeInv => NothingStranded
<1> SUFFICES ASSUME WakeInv, Waiting, ~aborted
             PROVE  /\ Len(app.got) = server.sent /\ (server.fin => app.ended)
                    /\ server.fin \/ (Len(server.got) = app.sent /\ (app.fin => server.ended))
  BY DEF NothingStranded
<1>1. /\ Types /\ Halves /\ Ends /\ UpChain /\ DownChain /\ Marked /\ Told /\ EndsLast
  BY DEF WakeInv, StreamInv
<1>2. {app.sent, server.sent} \subseteq Nat /\ DownCap \in Nat \ {0}
  BY <1>1, SizesAre DEF Types
<1>3. \A n \in Nat : Len(Up!Bytes(n)) = n /\ Len(Down!Bytes(n)) = n
  BY DEF Up!Bytes, Down!Bytes
<1>4. CASE sock.state = "Closed"
  <2>1. app.ended /\ server.fin
    BY <1>1, <1>4 DEF Told, Ends
  <2>2. app.got = Down!Bytes(server.sent)
    BY <1>1, <2>1 DEF EndsLast
  <2>3. Len(app.got) = server.sent
    BY <1>2, <1>3, <2>2
  <2> QED
    BY <2>1, <2>3
<1>5. CASE sock.state # "Closed"
  <2>1. /\ conn.live /\ conn.established /\ ~ready /\ ~taken /\ sock.tx = <<>>
        /\ reader.pc # "mark"
    BY <1>1, <1>5 DEF Ends, Waiting
  <2>2. /\ conn.pending.bytes = 0 /\ down = <<>> /\ (reader.pc = "done" => conn.out_eof)
        /\ sock.rx # <<>> => up # <<>> \/ ~conn.app_to_out \/ writer.pc \in {"write", "done"}
        /\ conn.app_to_out /\ sock.rx = <<>> =>
             sock.state \in {"Established", "FinWait1", "FinWait2"}
    BY <1>1, <2>1 DEF Marked
  <2>3. reader.pc \in {"read", "done"} /\ reader.chunk = <<>>
    <3>1. Len(down) # DownCap
      BY <1>2, <2>2
    <3> QED
      BY <1>1, <3>1 DEF Waiting, Halves
  <2>4. Len(app.got) = server.sent
    <3>1. PICK a, b, c, d \in 0 .. server.sent :
            /\ a <= b /\ b <= c /\ c <= d
            /\ app.got = Piece(0, a) /\ sock.tx = Piece(a, b) /\ Holds(conn.pending, b, c)
            /\ Chunks(down, c, d) /\ reader.chunk = Piece(d, server.sent)
      BY <1>1, <1>5 DEF DownChain
    <3>2. {a, b, c, d} \subseteq Nat /\ server.sent \in Nat /\ 0 <= a /\ d <= server.sent
      BY <1>2, <3>1
    <3>3. a = b
      <4>1. a \in Nat /\ b \in Nat /\ a <= b /\ Piece(a, b) = <<>>
        BY <2>1, <3>1, <3>2
      <4> QED
        BY <4>1, PieceIs
    <3>4. b = c
      BY <2>2, <3>1, <3>2 DEF Holds
    <3>5. c = d
      BY <2>2, <3>1, <3>2, ChunksEmpty
    <3>6. d = server.sent
      <4>1. /\ d \in Nat /\ server.sent \in Nat /\ d <= server.sent
            /\ Piece(d, server.sent) = <<>>
        BY <2>3, <3>1, <3>2
      <4> QED
        BY <4>1, PieceIs
    <3>7. app.got = Down!Bytes(server.sent)
      BY <3>1, <3>2, <3>3, <3>4, <3>5, <3>6, BytesAre
    <3> QED
      BY <1>2, <1>3, <3>7
  <2>5. ASSUME server.fin PROVE app.ended
    <3>1. conn.out_eof
      BY <1>1, <2>2, <2>3, <2>5 DEF Halves
    <3>2. sock.state \notin {"Established", "CloseWait"}
      BY <1>1, <2>2, <3>1 DEF Told
    <3>3. sock.state = "FinWait2"
      BY <1>5, <3>2 DEF Waiting
    <3> QED
      BY <1>1, <3>3 DEF Told
  <2>6. ASSUME ~server.fin PROVE Len(server.got) = app.sent /\ (app.fin => server.ended)
    <3>1. CASE writer.pc = "done"
      <4>1. server.ended
        BY <1>1, <3>1 DEF Told
      <4>2. server.got = Up!Bytes(app.sent)
        BY <1>1, <2>6, <4>1 DEF EndsLast
      <4> QED
        BY <1>2, <1>3, <4>1, <4>2
    <3>2. CASE writer.pc # "done"
      <4>1. writer.pc = "recv" /\ up = <<>> /\ conn.app_to_out
        BY <3>2 DEF Waiting
      <4>2. sock.rx = <<>> /\ writer.chunk = <<>>
        BY <1>1, <2>2, <4>1 DEF Halves
      <4>3. ~app.fin
        BY <1>1, <2>2, <4>1, <4>2 DEF Told
      <4>4. PICK g, w, t \in 0 .. app.sent :
              /\ g <= w /\ w <= t
              /\ server.got = Piece(0, g) /\ writer.chunk = Piece(g, w)
              /\ Chunks(up, w, t) /\ sock.rx = Piece(t, app.sent)
        BY <1>1, <3>2 DEF UpChain
      <4>5. {g, w, t} \subseteq Nat /\ app.sent \in Nat /\ t <= app.sent
        BY <1>2, <4>4
      <4>6. g = w
        <5>1. g \in Nat /\ w \in Nat /\ g <= w /\ Piece(g, w) = <<>>
          BY <4>2, <4>4, <4>5
        <5> QED
          BY <5>1, PieceIs
      <4>7. w = t
        BY <4>1, <4>4, <4>5, ChunksEmpty
      <4>8. t = app.sent
        <5>1. t \in Nat /\ app.sent \in Nat /\ t <= app.sent /\ Piece(t, app.sent) = <<>>
          BY <4>2, <4>4, <4>5
        <5> QED
          BY <5>1, PieceIs
      <4>9. server.got = Up!Bytes(app.sent)
        BY <4>4, <4>5, <4>6, <4>7, <4>8, BytesAre
      <4> QED
        BY <1>2, <1>3, <4>3, <4>9
    <3> QED
      BY <3>1, <3>2
  <2> QED
    BY <2>4, <2>5, <2>6
<1> QED
  BY <1>4, <1>5

\* Nothing is stranded: neither the wakers of the socket nor the marks of tcp_task
\* miss a buffer that has room again, nor the end of the egress leg.
THEOREM NothingIsStranded == Spec => []NothingStranded
BY WakeInvariant, WaitingIsOver, PTL
=============================================================================
