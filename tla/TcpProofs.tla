----------------------------- MODULE TcpProofs -----------------------------
(***************************************************************************)
(* What Tcp.tla promises for every stream, segment size, buffer and number *)
(* of connections: the bytes taken are a beginning of the peer's stream    *)
(* (ReceivedIsPrefix), and this side never believes more than is true of   *)
(* the peer (PeerAgrees).                                                  *)
(***************************************************************************)
EXTENDS Tcp, TLAPS

Bytes == Nat \X Nat
Flag == {"SYN", "ACK", "FIN", "PSH"}
Conns ==
  [state : {"CLOSED", "SYN_SENT", "ESTABLISHED", "FIN_WAIT", "CLOSE_WAIT"}, port : 0 .. MaxConns,
   snd_nxt : Nat, snd_una : Nat, rcv_nxt : Nat, recv : Seq(Bytes), read : Nat,
   last : [flags : SUBSET Flag, seq : Nat, data : Seq(Bytes)], waiting_ack : BOOLEAN]
Segments == [port : Port, flags : SUBSET Flag, seq : Nat, ack : Nat, data : Seq(Bytes)]
Peers == [state : {"listen", "open"}, request : BOOLEAN, fin : BOOLEAN]

TypeOK ==
  /\ conn \in Conns
  /\ app \in {"idle", "connecting", "reading", "taking"}
  /\ page \in Seq(Bytes)
  /\ peer \in [Port -> Peers]
  /\ toPeer \subseteq Segments /\ toUs \subseteq Segments
  /\ overtaken \in BOOLEAN

\* The first n bytes of the peer's stream on a connection.
Stream(p, n) == [i \in 1 .. n |-> Byte(p, i)]

\* How far a segment moves the sender's sequence number.
Extent(flags, data) == IF flags \cap {"SYN", "FIN"} # {} THEN 1 ELSE Len(data)

\* Whatever is on its way to us is a piece of the stream at its place, or the
\* SYN-ACK of an open connection, and acknowledges no more than the peer has.
ToUsTrue ==
  \A m \in toUs :
    /\ peer[m.port].state = "open"
    /\ m.ack >= ISS + 2 => peer[m.port].request
    /\ "SYN" \in m.flags => m.seq = IRS /\ m.data = <<>> /\ "FIN" \notin m.flags
    /\ m.data # <<>> => /\ m.seq >= IRS + 1 /\ m.seq + Len(m.data) <= IRS + 1 + StreamLen
                        /\ \A k \in 1 .. Len(m.data) : m.data[k] = Byte(m.port, m.seq - IRS - 1 + k)
    /\ "FIN" \in m.flags => m.seq + Len(m.data) = IRS + 1 + StreamLen

\* The FIN comes behind the request; the peer has taken them in that order.
FinLast ==
  /\ \A m \in toPeer : "FIN" \in m.flags => m.seq = ISS + 2
  /\ \A p \in Port : peer[p].fin => peer[p].request

\* Our sequence numbers, and what net_poll would send again.
Numbers ==
  /\ conn.last.flags \cap {"SYN", "FIN"} # {} \/ conn.last.data # <<>>
       => conn.snd_nxt = conn.last.seq + Extent(conn.last.flags, conn.last.data)
  /\ "FIN" \in conn.last.flags => conn.last.seq = ISS + 2
  /\ conn.state = "SYN_SENT" \/ app = "connecting" => conn.snd_nxt = ISS + 1
  /\ Fetching => conn.snd_nxt = ISS + 2 /\ conn.state \in {"ESTABLISHED", "CLOSE_WAIT"}
  /\ conn.port \in Port \/ (conn.state = "CLOSED" /\ app = "idle" /\ ~conn.waiting_ack)

\* The buffer and the page.
Buffers ==
  /\ conn.recv = Stream(conn.port, Len(conn.recv))
  /\ page = Stream(conn.port, Len(page))
  /\ Len(conn.recv) <= StreamLen /\ Len(conn.recv) <= BufSize
  /\ Len(page) <= conn.read /\ conn.read <= Len(conn.recv)
  /\ Len(page) = conn.read \/ conn.read = BufSize
  /\ conn.state = "SYN_SENT" => conn.recv = <<>>
  /\ conn.state \in {"ESTABLISHED", "FIN_WAIT"} => conn.rcv_nxt = IRS + 1 + Len(conn.recv)
  /\ (conn.state = "CLOSE_WAIT" /\ ~overtaken) => Len(conn.recv) = StreamLen

IInv == TypeOK /\ ToUsTrue /\ FinLast /\ Numbers /\ Buffers /\ PeerAgrees

-----------------------------------------------------------------------------
(* The stream. *)

\* A beginning of the stream is a sequence of bytes of its length.
LEMMA StreamSeq ==
  ASSUME NEW p \in Nat, NEW n \in Nat
  PROVE  Stream(p, n) \in Seq(Bytes) /\ Len(Stream(p, n)) = n
  BY DEF Stream, Byte, Bytes

\* A sequence of the next bytes makes a beginning longer.
LEMMA StreamLonger ==
  ASSUME NEW p \in Nat, NEW n \in Nat, NEW s \in Seq(Bytes),
         \A k \in 1 .. Len(s) : s[k] = Byte(p, n + k)
  PROVE  Stream(p, n) \o s = Stream(p, n + Len(s))
<1>1. Stream(p, n) \in Seq(Bytes) /\ Len(Stream(p, n)) = n
  BY StreamSeq, Zenon
<1>2. n + Len(s) \in Nat
  OBVIOUS
<1>3. Stream(p, n + Len(s)) \in Seq(Bytes) /\ Len(Stream(p, n + Len(s))) = n + Len(s)
  BY <1>2, StreamSeq, Zenon
<1>4. Stream(p, n) \o s \in Seq(Bytes) /\ Len(Stream(p, n) \o s) = n + Len(s)
  BY <1>1, SMTT(30)
<1>5. ASSUME NEW i \in 1 .. n + Len(s)
      PROVE  (Stream(p, n) \o s)[i] = Stream(p, n + Len(s))[i]
  <2>1. CASE i <= n
    BY <1>1, <2>1 DEF Stream
  <2>2. CASE i > n
    <3>1. i - n \in 1 .. Len(s)
      BY <2>2
    <3>2. (Stream(p, n) \o s)[i] = s[i - n]
      BY <1>1, <2>2
    <3> QED  BY <3>1, <3>2 DEF Stream
  <2>3. i <= n \/ i > n
    BY <1>2
  <2> QED  BY <2>1, <2>2, <2>3, Zenon
<1> DEFINE t == Stream(p, n) \o s
           u == Stream(p, n + Len(s))
<1>6. t \in Seq(Bytes) /\ u \in Seq(Bytes) /\ Len(t) = Len(u) /\ \A i \in 1 .. Len(t) : t[i] = u[i]
  BY <1>3, <1>4, <1>5, Zenon
<1> HIDE DEF t, u
<1>7. t = u
  BY <1>6
<1> QED
  BY <1>7, Zenon DEF t, u

\* A beginning of a segment that is the next of the stream makes it longer, no
\* further than the stream goes.
LEMMA StreamTaken ==
  ASSUME NEW p \in Nat, NEW n \in Nat, NEW q \in Nat, NEW x \in Seq(Bytes), NEW s \in Seq(Bytes),
         q = IRS + 1 + n, q + Len(x) <= IRS + 1 + StreamLen,
         \A k \in 1 .. Len(x) : x[k] = Byte(p, q - IRS - 1 + k),
         Len(s) <= Len(x), \A k \in 1 .. Len(s) : s[k] = x[k]
  PROVE  Stream(p, n) \o s = Stream(p, n + Len(s)) /\ n + Len(s) <= StreamLen
<1> USE TcpAssumption
<1>1. Len(x) \in Nat /\ Len(s) \in Nat
  OBVIOUS
<1>2. \A k \in 1 .. Len(s) : s[k] = Byte(p, n + k)
  <2> TAKE k \in 1 .. Len(s)
  <2>1. k \in 1 .. Len(x)
    BY <1>1
  <2>2. q - IRS - 1 = n
    OBVIOUS
  <2> QED  BY <2>1, <2>2, Zenon
<1>3. n + Len(s) <= StreamLen
  BY <1>1
<1>4. Stream(p, n) \o s = Stream(p, n + Len(s))
  BY <1>2, StreamLonger, ZenonT(40)
<1> QED  BY <1>3, <1>4, Zenon

\* A piece cut out of a beginning of the stream.
IsPiece(s, p, a, b) ==
  s \in Seq(Bytes) /\ Len(s) = b - a /\ \A k \in 1 .. Len(s) : s[k] = Byte(p, a + k)
LEMMA StreamPiece ==
  ASSUME NEW p \in Nat, NEW n \in Nat, NEW a \in Nat, NEW b \in Nat, a <= b, b <= n
  PROVE  IsPiece(SubSeq(Stream(p, n), a + 1, b), p, a, b)
  BY StreamSeq DEF Stream, IsPiece

-----------------------------------------------------------------------------
(* What the steps of tcp_handle leave in the connection. *)

\* tcp_send_segment changes the last segment, the next number and the wait for
\* an acknowledgement, and nothing else.
LEMMA AfterSendIs ==
  ASSUME NEW c \in Conns, NEW f \in SUBSET Flag, NEW x \in Seq(Bytes)
  PROVE  LET e == AfterSend(c, f, x)
         IN  /\ e \in Conns
             /\ e.state = c.state /\ e.port = c.port /\ e.snd_una = c.snd_una
             /\ e.rcv_nxt = c.rcv_nxt /\ e.recv = c.recv /\ e.read = c.read
             /\ e.last = [flags |-> f, seq |-> c.snd_nxt, data |-> x]
             /\ e.snd_nxt = c.snd_nxt + Extent(f, x)
             /\ e.waiting_ack <=> c.waiting_ack \/ Extent(f, x) > 0
<1> DEFINE n == Extent(f, x)
           q == c.snd_nxt + n
           w == c.waiting_ack \/ n > 0
           l == [flags |-> f, seq |-> c.snd_nxt, data |-> x]
<1>1. q \in Nat
  BY SMTT(30) DEF Extent, Conns
<1>2. w \in BOOLEAN
  BY Zenon
<1>3. AfterSend(c, f, x) = [c EXCEPT !.last = l, !.snd_nxt = q, !.waiting_ack = w]
  BY Zenon DEF AfterSend, Extent
<1>4. l \in [flags : SUBSET Flag, seq : Nat, data : Seq(Bytes)]
  BY Zenon DEF Conns
<1>5. w <=> c.waiting_ack \/ Extent(f, x) > 0
  BY Zenon
<1> HIDE DEF q, w, l
<1> DEFINE r == [c EXCEPT !.last = l, !.snd_nxt = q, !.waiting_ack = w]
<1>6. /\ r.state = c.state /\ r.port = c.port /\ r.snd_una = c.snd_una
      /\ r.rcv_nxt = c.rcv_nxt /\ r.recv = c.recv /\ r.read = c.read
      /\ r.last = l /\ r.snd_nxt = q /\ r.waiting_ack = w
  BY Zenon DEF Conns
<1>7. r \in Conns
  BY <1>1, <1>2, <1>4, Zenon DEF Conns
<1> HIDE DEF r
<1>8. LET e == AfterSend(c, f, x)
      IN  /\ e \in Conns
          /\ e.state = c.state /\ e.port = c.port /\ e.snd_una = c.snd_una
          /\ e.rcv_nxt = c.rcv_nxt /\ e.recv = c.recv /\ e.read = c.read
          /\ e.last = l /\ e.snd_nxt = q /\ e.waiting_ack = w
  BY <1>3, <1>6, <1>7, Zenon DEF r
<1> QED
  BY <1>5, <1>8, Zenon DEF q, l

\* A bare acknowledgement leaves the sender's numbers.
Bare(e, c) ==
  /\ e.port = c.port /\ e.snd_nxt = c.snd_nxt /\ e.read = c.read
  /\ e.waiting_ack <=> c.waiting_ack
  /\ e.last = c.last \/ (e.last.flags = {"ACK"} /\ e.last.data = <<>>)

\* Sending one changes nothing else either.
LEMMA AckSentIs ==
  ASSUME NEW c \in Conns
  PROVE  LET e == AfterSend(c, {"ACK"}, <<>>)
         IN  /\ e \in Conns /\ Bare(e, c)
             /\ e.state = c.state /\ e.snd_una = c.snd_una /\ e.rcv_nxt = c.rcv_nxt /\ e.recv = c.recv
<1> DEFINE e == AfterSend(c, {"ACK"}, <<>>)
           n == Extent({"ACK"}, <<>>)
           l == [flags |-> {"ACK"}, seq |-> c.snd_nxt, data |-> <<>>]
<1>1. {"ACK"} \in SUBSET Flag /\ <<>> \in Seq(Bytes)
  BY DEF Flag
<1>2. n = 0
  BY Zenon DEF Extent
<1>3. l.flags = {"ACK"} /\ l.data = <<>>
  BY Zenon
<1>4. /\ e \in Conns
      /\ e.state = c.state /\ e.port = c.port /\ e.snd_una = c.snd_una
      /\ e.rcv_nxt = c.rcv_nxt /\ e.recv = c.recv /\ e.read = c.read
      /\ e.last = l
      /\ e.snd_nxt = c.snd_nxt + n
      /\ e.waiting_ack <=> c.waiting_ack \/ n > 0
  BY <1>1, AfterSendIs, Zenon
<1> HIDE DEF e, n, l
<1>5. e.snd_nxt = c.snd_nxt
  BY <1>2, <1>4 DEF Conns
<1>6. ~(n > 0)
  BY <1>2
<1> QED
  BY <1>3, <1>4, <1>5, <1>6, Zenon DEF Bare, e

\* An acknowledgement moves snd_una and may end the wait, if it covers all.
LEMMA AfterAckIs ==
  ASSUME NEW c \in Conns, NEW m \in Segments
  PROVE  LET e == AfterAck(c, m)
         IN  /\ e \in Conns
             /\ e.state = c.state /\ e.port = c.port /\ e.snd_nxt = c.snd_nxt
             /\ e.rcv_nxt = c.rcv_nxt /\ e.recv = c.recv /\ e.read = c.read /\ e.last = c.last
             /\ c.waiting_ack /\ ~e.waiting_ack => m.ack >= c.snd_nxt
             /\ ~c.waiting_ack => ~e.waiting_ack
<1>1. CASE "ACK" \notin m.flags
  BY <1>1, Zenon DEF AfterAck
<1>2. CASE "ACK" \in m.flags
  <2> DEFINE u == IF m.ack > c.snd_una THEN m.ack ELSE c.snd_una
             w == c.waiting_ack /\ ~AllAcked(c, m)
  <2>1. u \in Nat
    BY Zenon DEF Conns, Segments
  <2>2. w \in BOOLEAN
    BY Zenon
  <2>3. AfterAck(c, m) = [c EXCEPT !.snd_una = u, !.waiting_ack = w]
    BY <1>2, Zenon DEF AfterAck
  <2>4. w <=> c.waiting_ack /\ ~(m.ack >= c.snd_nxt)
    BY Zenon DEF AllAcked
  <2> HIDE DEF u, w
  <2>5. LET e == AfterAck(c, m)
        IN  /\ e \in Conns
            /\ e.state = c.state /\ e.port = c.port /\ e.snd_nxt = c.snd_nxt
            /\ e.rcv_nxt = c.rcv_nxt /\ e.recv = c.recv /\ e.read = c.read /\ e.last = c.last
            /\ e.waiting_ack = w
    BY <2>1, <2>2, <2>3, Zenon DEF Conns
  <2> QED  BY <2>4, <2>5, Zenon
<1> QED  BY <1>1, <1>2, Zenon

\* The part of a segment that fits.
LEMMA FittingIs ==
  ASSUME NEW c \in Conns, NEW m \in Segments, Len(c.recv) <= BufSize
  PROVE  LET s == Fitting(c, m)
         IN  /\ s \in Seq(Bytes)
             /\ Len(s) <= Len(m.data) /\ Len(c.recv) + Len(s) <= BufSize
             /\ \A k \in 1 .. Len(s) : s[k] = m.data[k]
<1> DEFINE n == Min2(Len(m.data), BufSize - Len(c.recv))
<1>1. Len(m.data) \in Nat /\ BufSize - Len(c.recv) \in Nat /\ m.data \in Seq(Bytes)
  BY TcpAssumption DEF Conns, Segments
<1>2. n \in Nat /\ n <= Len(m.data) /\ n <= BufSize - Len(c.recv)
  BY <1>1 DEF Min2
<1> HIDE DEF n
<1>3. Fitting(c, m) = SubSeq(m.data, 1, n)
  BY Zenon DEF Fitting, n
<1> QED
  BY <1>1, <1>2, <1>3, TcpAssumption, SMTT(30) DEF Conns

\* In-order data goes behind what is there, as much as fits; other data leaves
\* the connection as it is.
LEMMA AfterDataIs ==
  ASSUME NEW c \in Conns, NEW m \in Segments, Len(c.recv) <= BufSize
  PROVE  LET e == AfterData(c, m)
         IN  /\ e \in Conns /\ Bare(e, c) /\ e.state = c.state
             /\ ~InOrder(c, m) => e.recv = c.recv /\ e.rcv_nxt = c.rcv_nxt
             /\ InOrder(c, m) => e.recv = c.recv \o Fitting(c, m) /\ e.rcv_nxt = c.rcv_nxt + Len(Fitting(c, m))
<1>1. CASE ~InOrder(c, m)
  BY <1>1, Zenon DEF AfterData, Bare
<1>2. CASE InOrder(c, m)
  <2> DEFINE s == Fitting(c, m)
             r == c.recv \o s
             q == c.rcv_nxt + Len(s)
             b == [c EXCEPT !.recv = r, !.rcv_nxt = q]
             e == AfterSend(b, {"ACK"}, <<>>)
  <2>1. r \in Seq(Bytes) /\ q \in Nat
    BY FittingIs DEF Conns
  <2>2. AfterData(c, m) = e
    BY <1>2, Zenon DEF AfterData, Advance
  <2> HIDE DEF r, q
  <2>3. /\ b \in Conns /\ b.recv = r /\ b.rcv_nxt = q
        /\ b.state = c.state /\ b.port = c.port /\ b.snd_nxt = c.snd_nxt /\ b.read = c.read /\ b.last = c.last
        /\ b.waiting_ack = c.waiting_ack
    BY <2>1, Zenon DEF Conns
  <2> HIDE DEF b
  <2>4. /\ e \in Conns /\ Bare(e, b) /\ e.state = b.state /\ e.rcv_nxt = b.rcv_nxt /\ e.recv = b.recv
    BY <2>3, AckSentIs, Zenon
  <2> HIDE DEF e
  <2>5. Bare(e, c)
    <3>1. e.last = b.last \/ (e.last.flags = {"ACK"} /\ e.last.data = <<>>)
      BY <2>4, Zenon DEF Bare
    <3> QED  BY <2>3, <2>4, <3>1, Zenon DEF Bare
  <2> QED  BY <1>2, <2>2, <2>3, <2>4, <2>5, Zenon DEF r, q
<1> QED  BY <1>1, <1>2, Zenon

\* A FIN is acknowledged and moves the state; nothing else of the connection
\* that was is touched but the number expected next.
LEMMA AfterFinIs ==
  ASSUME NEW c \in Conns, NEW d \in Conns, NEW m \in Segments, Len(c.recv) <= BufSize
  PROVE  LET e == AfterFin(c, d, m)
         IN  /\ e \in Conns /\ Bare(e, d) /\ e.recv = d.recv
             /\ "FIN" \notin m.flags => e.state = d.state /\ e.rcv_nxt = d.rcv_nxt
             /\ "FIN" \in m.flags => e.state = IF d.state = "ESTABLISHED" THEN "CLOSE_WAIT" ELSE "CLOSED"
<1>1. CASE "FIN" \notin m.flags
  BY <1>1, Zenon DEF AfterFin, Bare
<1>2. CASE "FIN" \in m.flags
  <2> DEFINE q == m.seq + DataLen(c, m) + 1
             t == IF d.state = "ESTABLISHED" THEN "CLOSE_WAIT" ELSE "CLOSED"
             b == [d EXCEPT !.rcv_nxt = q]
             f == AfterSend(b, {"ACK"}, <<>>)
             e == [f EXCEPT !.state = t]
  <2>1. q \in Nat
    BY FittingIs DEF DataLen, Advance, Segments
  <2>2. t \in {"CLOSED", "CLOSE_WAIT"}
    BY Zenon
  <2>3. AfterFin(c, d, m) = e
    BY <1>2, Zenon DEF AfterFin
  <2> HIDE DEF q, t
  <2>4. /\ b \in Conns
        /\ b.recv = d.recv /\ b.port = d.port /\ b.snd_nxt = d.snd_nxt /\ b.read = d.read /\ b.last = d.last
        /\ b.waiting_ack = d.waiting_ack
    BY <2>1, Zenon DEF Conns
  <2> HIDE DEF b
  <2>5. f \in Conns /\ Bare(f, b) /\ f.recv = b.recv
    BY <2>4, AckSentIs, Zenon
  <2> HIDE DEF f
  <2>6. /\ e \in Conns /\ e.state = t /\ e.recv = f.recv /\ e.port = f.port /\ e.read = f.read
        /\ e.last = f.last /\ e.snd_nxt = f.snd_nxt /\ e.waiting_ack = f.waiting_ack
    BY <2>2, <2>5, Zenon DEF Conns
  <2> HIDE DEF e
  <2>7. Bare(e, d)
    BY <2>4, <2>5, <2>6, Zenon DEF Bare
  <2> QED  BY <1>2, <2>3, <2>4, <2>5, <2>6, <2>7, Zenon DEF t
<1> QED  BY <1>1, <1>2, Zenon

\* The segment tcp_send_segment makes.
LEMMA SentIs ==
  ASSUME NEW c \in Conns, c.port \in Port, NEW f \in SUBSET Flag, NEW x \in Seq(Bytes)
  PROVE  /\ Sent(c, f, x) \in Segments
         /\ Sent(c, f, x).flags = f /\ Sent(c, f, x).seq = c.snd_nxt
<1>1. c.snd_nxt \in Nat /\ c.rcv_nxt \in Nat
  BY Zenon DEF Conns
<1> QED
  BY <1>1, Zenon DEF Sent, Segment, Segments

\* Whatever is transmitted is of the set given.
LEMMA TransmitIs ==
  ASSUME NEW S, Transmit(S)
  PROVE  \A m \in toPeer' : m \in toPeer \/ m \in S
  BY Zenon DEF Transmit

-----------------------------------------------------------------------------
(* The steps preserve the invariant. *)

LEMMA InitHolds == Init => IInv
<1> SUFFICES ASSUME Init PROVE IInv
  BY Zenon
<1> USE TcpAssumption DEF Init
<1>1. /\ conn.state = "CLOSED" /\ conn.port = 0 /\ conn.recv = <<>> /\ conn.read = 0 /\ ~conn.waiting_ack
      /\ conn.last.flags = {} /\ conn.last.data = <<>> /\ conn \in Conns
  BY DEF Closed0, Conns
<1>2. TypeOK
  <2>1. [state |-> "listen", request |-> FALSE, fin |-> FALSE] \in Peers
    BY Zenon DEF Peers
  <2>2. peer \in [Port -> Peers]
    BY <2>1, Zenon
  <2>3. page \in Seq(Bytes)
    OBVIOUS
  <2> QED  BY <1>1, <2>2, <2>3, Zenon DEF TypeOK
<1>3. ToUsTrue /\ FinLast /\ Numbers
  BY <1>1, Zenon DEF ToUsTrue, FinLast, Numbers, Fetching
<1>4. Stream(0, 0) = <<>>
  BY DEF Stream
<1>5. Buffers
  BY <1>1, <1>4 DEF Buffers
<1>6. PeerAgrees
  BY <1>1, Zenon DEF PeerAgrees, Fetching
<1> QED  BY <1>2, <1>3, <1>5, <1>6, Zenon DEF IInv

\* A SYN-ACK is taken in SYN_SENT.
LEMMA OpenHolds ==
  ASSUME IInv, NEW m \in toUs, conn.state = "SYN_SENT", Accepts(conn, m),
         LET c == [conn EXCEPT !.rcv_nxt = m.seq + 1, !.snd_una = m.ack, !.waiting_ack = FALSE, !.state = "ESTABLISHED"]
         IN  conn' = AfterSend(c, {"ACK"}, <<>>) /\ Transmit({Sent(c, {"ACK"}, <<>>)}),
         overtaken' = overtaken, toUs' \subseteq toUs, UNCHANGED <<app, page, peer>>
  PROVE  IInv'
<1> DEFINE q == m.seq + 1
           c == [conn EXCEPT !.rcv_nxt = q, !.snd_una = m.ack, !.waiting_ack = FALSE, !.state = "ESTABLISHED"]
<1> USE TcpAssumption
<1>1. TypeOK /\ ToUsTrue /\ FinLast /\ Numbers /\ Buffers /\ PeerAgrees
  BY Zenon DEF IInv
<1>2. m \in Segments /\ conn \in Conns /\ m.ack \in Nat /\ q \in Nat
  BY <1>1, SMTT(30) DEF TypeOK, Segments
<1>3. m.seq = IRS /\ m.port = conn.port
  BY <1>1, Zenon DEF ToUsTrue, Accepts
<1> HIDE DEF q
<1>4. /\ c \in Conns /\ c.state = "ESTABLISHED" /\ c.port = conn.port /\ c.snd_nxt = conn.snd_nxt
      /\ c.rcv_nxt = q /\ c.recv = conn.recv /\ c.read = conn.read /\ c.last = conn.last /\ c.waiting_ack = FALSE
  BY <1>2, Zenon DEF Conns
<1>5. conn' = AfterSend(c, {"ACK"}, <<>>) /\ Transmit({Sent(c, {"ACK"}, <<>>)})
  BY Zenon DEF q
<1> HIDE DEF c
<1>6. /\ conn' \in Conns /\ Bare(conn', c)
      /\ conn'.state = c.state /\ conn'.rcv_nxt = c.rcv_nxt /\ conn'.recv = c.recv
  BY <1>4, <1>5, AckSentIs, Zenon
<1>7. /\ conn'.port = conn.port /\ conn'.snd_nxt = conn.snd_nxt /\ conn'.read = conn.read /\ ~conn'.waiting_ack
      /\ conn'.last = conn.last \/ (conn'.last.flags = {"ACK"} /\ conn'.last.data = <<>>)
      /\ conn'.state = "ESTABLISHED" /\ conn'.recv = conn.recv
  BY <1>4, <1>6, Zenon DEF Bare
<1>8. conn'.rcv_nxt = IRS + 1
  BY <1>3, <1>4, <1>6, Zenon DEF q
<1>9. toPeer' \subseteq Segments /\ \A x \in toPeer' : x \in toPeer \/ "FIN" \notin x.flags
  <2>1. c.port \in Port /\ {"ACK"} \in SUBSET Flag /\ <<>> \in Seq(Bytes)
    BY <1>1, <1>4 DEF Numbers, Flag
  <2>2. Sent(c, {"ACK"}, <<>>) \in Segments /\ Sent(c, {"ACK"}, <<>>).flags = {"ACK"}
    BY <1>4, <2>1, SentIs, Zenon
  <2> QED  BY <1>1, <1>5, <2>2, TransmitIs DEF TypeOK
<1>10. TypeOK'
  BY <1>1, <1>6, <1>9, Zenon DEF TypeOK
<1>11. ToUsTrue'
  BY <1>1, Zenon DEF ToUsTrue
<1>12. FinLast'
  BY <1>1, <1>9, Zenon DEF FinLast
<1>13. Numbers'
  BY <1>1, <1>7, Zenon DEF Numbers, Fetching
<1>14. Buffers'
  <2>1. Len(conn.recv) = 0
    BY <1>1 DEF Buffers
  <2> QED  BY <1>1, <1>7, <1>8, <2>1, SMTT(30) DEF Buffers
<1>15. PeerAgrees'
  <2>1. ~Fetching
    BY <1>1, Zenon DEF Numbers
  <2> QED  BY <1>1, <1>3, <1>7, <2>1, SMTT(30) DEF PeerAgrees, ToUsTrue, Fetching
<1> QED  BY <1>10, <1>11, <1>12, <1>13, <1>14, <1>15, Zenon DEF IInv

\* A segment of the connection is taken once it is up: what tcp_handle leaves.
LEMMA HandledIs ==
  ASSUME IInv, NEW m \in toUs, conn.state \in {"ESTABLISHED", "FIN_WAIT"}, m.port = conn.port
  PROVE  LET a == AfterAck(conn, m)
             d == AfterData(a, m)
             e == AfterFin(a, d, m)
         IN  /\ e \in Conns
             /\ e.port = conn.port /\ e.snd_nxt = conn.snd_nxt /\ e.read = conn.read
             /\ e.last = conn.last \/ (e.last.flags = {"ACK"} /\ e.last.data = <<>>)
             /\ conn.waiting_ack /\ ~e.waiting_ack => m.ack >= conn.snd_nxt
             /\ ~conn.waiting_ack => ~e.waiting_ack
             /\ e.recv = Stream(conn.port, Len(e.recv)) /\ d.rcv_nxt = IRS + 1 + Len(e.recv)
             /\ d.rcv_nxt \in Nat /\ DataLen(a, m) \in Nat
             /\ Len(conn.recv) <= Len(e.recv) /\ Len(e.recv) <= BufSize /\ Len(e.recv) <= StreamLen
             /\ "FIN" \notin m.flags => e.state = conn.state /\ e.rcv_nxt = d.rcv_nxt
             /\ "FIN" \in m.flags => e.state = IF conn.state = "ESTABLISHED" THEN "CLOSE_WAIT" ELSE "CLOSED"
<1> DEFINE a == AfterAck(conn, m)
           d == AfterData(a, m)
           e == AfterFin(a, d, m)
<1> USE TcpAssumption
<1>1. TypeOK /\ ToUsTrue /\ Numbers /\ Buffers
  BY Zenon DEF IInv
<1>2. m \in Segments /\ conn \in Conns /\ conn.port \in Port /\ conn.port \in Nat
  BY <1>1 DEF TypeOK, Numbers, Port
<1>3. /\ a \in Conns
      /\ a.state = conn.state /\ a.port = conn.port /\ a.snd_nxt = conn.snd_nxt
      /\ a.rcv_nxt = conn.rcv_nxt /\ a.recv = conn.recv /\ a.read = conn.read /\ a.last = conn.last
      /\ conn.waiting_ack /\ ~a.waiting_ack => m.ack >= conn.snd_nxt
      /\ ~conn.waiting_ack => ~a.waiting_ack
  BY <1>2, AfterAckIs, Zenon
<1> HIDE DEF a
<1>4. /\ Len(a.recv) <= BufSize
      /\ conn.recv = Stream(conn.port, Len(conn.recv)) /\ Len(conn.recv) \in Nat
      /\ Len(conn.recv) <= BufSize /\ Len(conn.recv) <= StreamLen
      /\ conn.rcv_nxt = IRS + 1 + Len(conn.recv)
  BY <1>1, <1>2, <1>3 DEF Buffers, Conns
<1>5. /\ d \in Conns /\ Bare(d, a) /\ d.state = a.state
      /\ ~InOrder(a, m) => d.recv = a.recv /\ d.rcv_nxt = a.rcv_nxt
      /\ InOrder(a, m) => d.recv = a.recv \o Fitting(a, m) /\ d.rcv_nxt = a.rcv_nxt + Len(Fitting(a, m))
  BY <1>2, <1>3, <1>4, AfterDataIs, Zenon
<1> HIDE DEF d
<1>6. /\ e \in Conns /\ Bare(e, d) /\ e.recv = d.recv
      /\ "FIN" \notin m.flags => e.state = d.state /\ e.rcv_nxt = d.rcv_nxt
      /\ "FIN" \in m.flags => e.state = IF d.state = "ESTABLISHED" THEN "CLOSE_WAIT" ELSE "CLOSED"
  BY <1>2, <1>3, <1>4, <1>5, AfterFinIs, Zenon DEF e
<1> HIDE DEF e
<1>7. /\ e.port = conn.port /\ e.snd_nxt = conn.snd_nxt /\ e.read = conn.read
      /\ e.last = conn.last \/ (e.last.flags = {"ACK"} /\ e.last.data = <<>>)
      /\ conn.waiting_ack /\ ~e.waiting_ack => m.ack >= conn.snd_nxt
      /\ ~conn.waiting_ack => ~e.waiting_ack
  BY <1>3, <1>5, <1>6, Zenon DEF Bare
<1>8. /\ d.recv = Stream(conn.port, Len(d.recv)) /\ d.rcv_nxt = IRS + 1 + Len(d.recv)
      /\ Len(conn.recv) <= Len(d.recv) /\ Len(d.recv) <= BufSize /\ Len(d.recv) <= StreamLen
  <2>1. CASE ~InOrder(a, m)
    <3>1. d.recv = conn.recv /\ d.rcv_nxt = conn.rcv_nxt
      BY <1>3, <1>5, <2>1, Zenon
    <3>2. Len(conn.recv) <= Len(conn.recv)
      BY <1>4
    <3> QED  BY <1>4, <3>1, <3>2, Zenon
  <2>2. CASE InOrder(a, m)
    <3> DEFINE s == Fitting(a, m)
               n == Len(conn.recv)
    <3>1. m.data # <<>> /\ m.seq = IRS + 1 + n
      BY <1>3, <1>4, <2>2, Zenon DEF InOrder
    <3>2. /\ m.seq + Len(m.data) <= IRS + 1 + StreamLen
          /\ \A k \in 1 .. Len(m.data) : m.data[k] = Byte(conn.port, m.seq - IRS - 1 + k)
      BY <1>1, <3>1 DEF ToUsTrue
    <3>3. /\ s \in Seq(Bytes)
          /\ Len(s) <= Len(m.data) /\ Len(a.recv) + Len(s) <= BufSize
          /\ \A k \in 1 .. Len(s) : s[k] = m.data[k]
      BY <1>2, <1>3, <1>4, FittingIs, Zenon
    <3>4. m.data \in Seq(Bytes) /\ m.seq \in Nat /\ n \in Nat /\ Len(s) \in Nat /\ IRS \in Nat
      BY <1>2, <1>4, <3>3 DEF Segments
    <3>5. n + Len(s) <= BufSize
      BY <1>3, <3>3, Zenon
    <3> HIDE DEF s, n
    <3>6. Stream(conn.port, n) \o s = Stream(conn.port, n + Len(s)) /\ n + Len(s) <= StreamLen
      BY <1>2, <3>1, <3>2, <3>3, <3>4, StreamTaken, ZenonT(30)
    <3>7. d.recv = Stream(conn.port, n + Len(s)) /\ d.rcv_nxt = (IRS + 1 + n) + Len(s)
      <4>1. d.recv = conn.recv \o s /\ d.rcv_nxt = conn.rcv_nxt + Len(s)
        <5>1. d.recv = a.recv \o s /\ d.rcv_nxt = a.rcv_nxt + Len(s)
          BY <1>5, <2>2, Zenon DEF s
        <5>2. a.recv = conn.recv /\ a.rcv_nxt = conn.rcv_nxt
          BY <1>3, Zenon
        <5> QED  BY <5>1, <5>2, Zenon
      <4>2. conn.recv = Stream(conn.port, n) /\ conn.rcv_nxt = IRS + 1 + n
        BY <1>4, Zenon DEF n
      <4> QED  BY <3>6, <4>1, <4>2, Zenon
    <3>8. n + Len(s) \in Nat /\ n <= n + Len(s) /\ (IRS + 1 + n) + Len(s) = IRS + 1 + (n + Len(s))
      BY <3>4, SMTT(30)
    <3>9. Len(Stream(conn.port, n + Len(s))) = n + Len(s)
      BY <1>2, <3>8, StreamSeq, Zenon
    <3>10. Len(d.recv) = n + Len(s)
      BY <3>7, <3>9, Zenon
    <3> QED  BY <3>5, <3>6, <3>7, <3>8, <3>10, Zenon DEF n
  <2> QED  BY <2>1, <2>2, Zenon
<1>9. d.rcv_nxt \in Nat
  BY <1>5, Zenon DEF Conns
<1>10. DataLen(a, m) \in Nat
  BY <1>2, <1>3, <1>4, FittingIs, SMTT(30) DEF DataLen, Advance, Segments
<1> QED  BY <1>3, <1>5, <1>6, <1>7, <1>8, <1>9, <1>10, Zenon DEF e, d, a

\* Such a segment keeps the invariant.
LEMMA TakenHolds ==
  ASSUME IInv, NEW m \in toUs, conn.state \in {"ESTABLISHED", "FIN_WAIT"}, m.port = conn.port,
         LET a == AfterAck(conn, m)
             d == AfterData(a, m)
         IN  /\ conn' = AfterFin(a, d, m)
             /\ Transmit(Acks(conn, m))
             /\ overtaken' = (overtaken \/ ("FIN" \in m.flags /\ m.seq + Len(m.data) # d.rcv_nxt)),
         toUs' \subseteq toUs, UNCHANGED <<app, page, peer>>
  PROVE  IInv'
<1> USE TcpAssumption
<1> DEFINE a == AfterAck(conn, m)
           d == AfterData(a, m)
           e == AfterFin(a, d, m)
<1>1. TypeOK /\ ToUsTrue /\ FinLast /\ Numbers /\ Buffers /\ PeerAgrees
  BY Zenon DEF IInv
<1>2. m \in Segments /\ conn \in Conns /\ conn.port \in Port
  BY <1>1, Zenon DEF TypeOK, Numbers
<1>3. /\ e \in Conns
      /\ e.port = conn.port /\ e.snd_nxt = conn.snd_nxt /\ e.read = conn.read
      /\ e.last = conn.last \/ (e.last.flags = {"ACK"} /\ e.last.data = <<>>)
      /\ conn.waiting_ack /\ ~e.waiting_ack => m.ack >= conn.snd_nxt
      /\ ~conn.waiting_ack => ~e.waiting_ack
      /\ e.recv = Stream(conn.port, Len(e.recv)) /\ d.rcv_nxt = IRS + 1 + Len(e.recv)
      /\ d.rcv_nxt \in Nat /\ DataLen(a, m) \in Nat
      /\ Len(conn.recv) <= Len(e.recv) /\ Len(e.recv) <= BufSize /\ Len(e.recv) <= StreamLen
      /\ "FIN" \notin m.flags => e.state = conn.state /\ e.rcv_nxt = d.rcv_nxt
      /\ "FIN" \in m.flags => e.state = IF conn.state = "ESTABLISHED" THEN "CLOSE_WAIT" ELSE "CLOSED"
  BY HandledIs, Zenon
<1>4. /\ conn' = e /\ Transmit(Acks(conn, m))
      /\ overtaken' = (overtaken \/ ("FIN" \in m.flags /\ m.seq + Len(m.data) # d.rcv_nxt))
  BY Zenon
<1> HIDE DEF a, d, e
<1>5. \A x \in Acks(conn, m) : x \in Segments /\ "FIN" \notin x.flags
  <2>1. conn.snd_nxt \in Nat /\ m.seq + DataLen(a, m) + 1 \in Nat /\ d.rcv_nxt \in Nat
    <3>1. conn.snd_nxt \in Nat /\ m.seq \in Nat
      BY <1>2, Zenon DEF Conns, Segments
    <3>2. DataLen(a, m) \in Nat /\ d.rcv_nxt \in Nat
      BY <1>3, Zenon
    <3> QED  BY <3>1, <3>2
  <2>2. \A q \in Nat : Segment(conn.port, {"ACK"}, conn.snd_nxt, q, <<>>) \in Segments
                       /\ "FIN" \notin Segment(conn.port, {"ACK"}, conn.snd_nxt, q, <<>>).flags
    BY <1>2, <2>1 DEF Segment, Segments, Flag
  <2>3. \A x \in Acks(conn, m) : \/ x = Segment(conn.port, {"ACK"}, conn.snd_nxt, d.rcv_nxt, <<>>)
                                 \/ x = Segment(conn.port, {"ACK"}, conn.snd_nxt, m.seq + DataLen(a, m) + 1, <<>>)
    BY Zenon DEF Acks, a, d
  <2> QED  BY <2>1, <2>2, <2>3, Zenon
<1>6. toPeer' \subseteq Segments /\ \A x \in toPeer' : x \in toPeer \/ "FIN" \notin x.flags
  BY <1>1, <1>4, <1>5, TransmitIs, Zenon DEF TypeOK
<1>7. /\ conn' \in Conns
      /\ conn'.port = conn.port /\ conn'.snd_nxt = conn.snd_nxt /\ conn'.read = conn.read
      /\ conn'.last = conn.last \/ (conn'.last.flags = {"ACK"} /\ conn'.last.data = <<>>)
      /\ conn.waiting_ack /\ ~conn'.waiting_ack => m.ack >= conn.snd_nxt
      /\ ~conn.waiting_ack => ~conn'.waiting_ack
      /\ conn'.recv = Stream(conn.port, Len(conn'.recv)) /\ d.rcv_nxt = IRS + 1 + Len(conn'.recv)
      /\ Len(conn.recv) <= Len(conn'.recv) /\ Len(conn'.recv) <= BufSize /\ Len(conn'.recv) <= StreamLen
      /\ "FIN" \notin m.flags => conn'.state = conn.state /\ conn'.rcv_nxt = d.rcv_nxt
      /\ "FIN" \in m.flags => conn'.state = IF conn.state = "ESTABLISHED" THEN "CLOSE_WAIT" ELSE "CLOSED"
  <2>1. /\ conn' \in Conns
        /\ conn'.port = conn.port /\ conn'.snd_nxt = conn.snd_nxt /\ conn'.read = conn.read
        /\ conn'.last = conn.last \/ (conn'.last.flags = {"ACK"} /\ conn'.last.data = <<>>)
    BY <1>3, <1>4, Zenon
  <2>2. /\ conn.waiting_ack /\ ~conn'.waiting_ack => m.ack >= conn.snd_nxt
        /\ ~conn.waiting_ack => ~conn'.waiting_ack
    BY <1>3, <1>4, Zenon
  <2>3. /\ conn'.recv = Stream(conn.port, Len(conn'.recv)) /\ d.rcv_nxt = IRS + 1 + Len(conn'.recv)
        /\ Len(conn.recv) <= Len(conn'.recv) /\ Len(conn'.recv) <= BufSize /\ Len(conn'.recv) <= StreamLen
    BY <1>3, <1>4, Zenon
  <2>4. /\ "FIN" \notin m.flags => conn'.state = conn.state /\ conn'.rcv_nxt = d.rcv_nxt
    BY <1>3, <1>4, Zenon
  <2>5. "FIN" \in m.flags => conn'.state = IF conn.state = "ESTABLISHED" THEN "CLOSE_WAIT" ELSE "CLOSED"
    <3>1. "FIN" \in m.flags => e.state = IF conn.state = "ESTABLISHED" THEN "CLOSE_WAIT" ELSE "CLOSED"
      BY <1>3, Zenon
    <3>2. conn' = e
      BY <1>4, Zenon
    <3> QED  BY <3>1, <3>2, Zenon
  <2> QED  BY <2>1, <2>2, <2>3, <2>4, <2>5, Zenon
<1>8. overtaken' \in BOOLEAN /\ (~overtaken' /\ "FIN" \in m.flags => m.seq + Len(m.data) = d.rcv_nxt)
  BY <1>4, Zenon
<1>9. TypeOK'
  BY <1>1, <1>6, <1>7, <1>8, Zenon DEF TypeOK
<1>10. ToUsTrue'
  BY <1>1, Zenon DEF ToUsTrue
<1>11. FinLast'
  BY <1>1, <1>6, Zenon DEF FinLast
<1>12. conn'.state \in {"ESTABLISHED", "FIN_WAIT", "CLOSE_WAIT", "CLOSED"} /\ conn'.state = "CLOSED" => ~Fetching
  BY <1>1, <1>7, Zenon DEF Numbers
<1>13. Numbers'
  <2>1. conn'.last.flags \cap {"SYN", "FIN"} # {} \/ conn'.last.data # <<>> => conn'.last = conn.last
    BY <1>7, Zenon
  <2>2. "FIN" \in conn'.last.flags => conn'.last.seq = ISS + 2
    BY <1>1, <1>7, Zenon DEF Numbers
  <2>3. conn'.state # "SYN_SENT" /\ (conn'.state = conn.state \/ conn'.state = "CLOSE_WAIT" \/ (conn'.state = "CLOSED" /\ conn.state = "FIN_WAIT"))
    BY <1>7, Zenon
  <2>4. Fetching' => conn'.snd_nxt = ISS + 2 /\ conn'.state \in {"ESTABLISHED", "CLOSE_WAIT"}
    BY <1>1, <1>7, <2>3, Zenon DEF Numbers, Fetching
  <2> QED  BY <1>1, <1>2, <1>7, <2>1, <2>2, <2>3, <2>4, Zenon DEF Numbers
<1>14. Buffers'
  <2>1. (conn'.state = "CLOSE_WAIT" /\ ~overtaken') => Len(conn'.recv) = StreamLen
    <3> SUFFICES ASSUME conn'.state = "CLOSE_WAIT", ~overtaken' PROVE Len(conn'.recv) = StreamLen
      BY Zenon
    <3>1. "FIN" \in m.flags
      BY <1>7, Zenon
    <3>2. m.seq + Len(m.data) = d.rcv_nxt /\ m.seq + Len(m.data) = IRS + 1 + StreamLen
      BY <1>1, <1>8, <3>1, Zenon DEF ToUsTrue
    <3>3. Len(conn'.recv) \in Nat
      BY <1>7 DEF Conns
    <3>4. d.rcv_nxt = IRS + 1 + Len(conn'.recv)
      BY <1>7, Zenon
    <3>5. IRS + 1 + Len(conn'.recv) = IRS + 1 + StreamLen
      BY <3>2, <3>4, Zenon
    <3>6. \A n \in Nat : IRS + 1 + n = IRS + 1 + StreamLen => n = StreamLen
      OBVIOUS
    <3> QED  BY <3>3, <3>5, <3>6, Zenon
  <2>2. conn'.state \in {"ESTABLISHED", "FIN_WAIT"} => conn'.rcv_nxt = IRS + 1 + Len(conn'.recv)
    BY <1>7, Zenon
  <2>3. page' = Stream(conn'.port, Len(page')) /\ Len(page') <= conn'.read
    BY <1>1, <1>7, Zenon DEF Buffers
  <2>4. Len(page') = conn'.read \/ conn'.read = BufSize
    BY <1>1, <1>7, Zenon DEF Buffers
  <2>5. conn'.read <= Len(conn'.recv)
    <3>1. conn.read <= Len(conn.recv)
      BY <1>1, Zenon DEF Buffers
    <3>2. conn.read \in Nat /\ Len(conn.recv) \in Nat
      BY <1>2, SMTT(30) DEF Conns
    <3>3. Len(conn'.recv) \in Nat
      BY <1>7, SMTT(30) DEF Conns
    <3> QED  BY <1>7, <3>1, <3>2, <3>3, SMTT(30)
  <2>6. conn'.state # "SYN_SENT"
    BY <1>7, Zenon
  <2> QED  BY <1>7, <2>1, <2>2, <2>3, <2>4, <2>5, <2>6, Zenon DEF Buffers
<1>15. PeerAgrees'
  <2>1. peer[conn.port].state = "open"
    BY <1>1, Zenon DEF ToUsTrue
  <2>2. ASSUME Fetching', conn'.state = "ESTABLISHED", ~conn'.waiting_ack
        PROVE  peer[conn.port].request
    <3>1. conn.state = "ESTABLISHED" /\ Fetching
      BY <1>7, <2>2, Zenon DEF Fetching
    <3>2. CASE conn.waiting_ack
      <4>1. m.ack >= ISS + 2
        BY <1>1, <1>7, <2>2, <3>1, <3>2, Zenon DEF Numbers
      <4> QED  BY <1>1, <4>1, Zenon DEF ToUsTrue
    <3>3. CASE ~conn.waiting_ack
      BY <1>1, <3>1, <3>3, Zenon DEF PeerAgrees
    <3> QED  BY <3>2, <3>3, Zenon
  <2> QED  BY <1>7, <2>1, <2>2, Zenon DEF PeerAgrees
<1> QED  BY <1>9, <1>10, <1>11, <1>13, <1>14, <1>15, Zenon DEF IInv

\* e1000_poll hands a segment up.
LEMMA DeliverHolds == ASSUME IInv, NEW m \in toUs, Deliver(m) PROVE IInv'
<1>1. tcp_handle(m) /\ toUs' \subseteq toUs /\ UNCHANGED <<app, page, peer>>
  BY Zenon DEF Deliver
<1>2. CASE UNCHANGED <<conn, toPeer, overtaken>>
  <2>1. TypeOK' /\ FinLast' /\ Numbers' /\ Buffers' /\ PeerAgrees'
    BY <1>1, <1>2, SMTT(30) DEF IInv, TypeOK, FinLast, Numbers, Buffers, PeerAgrees, Fetching
  <2>2. ToUsTrue'
    BY <1>1, Zenon DEF IInv, ToUsTrue
  <2> QED  BY <2>1, <2>2, Zenon DEF IInv
<1>3. CASE /\ conn.state = "SYN_SENT" /\ Accepts(conn, m)
           /\ LET c == [conn EXCEPT !.rcv_nxt = m.seq + 1, !.snd_una = m.ack, !.waiting_ack = FALSE, !.state = "ESTABLISHED"]
              IN  conn' = AfterSend(c, {"ACK"}, <<>>) /\ Transmit({Sent(c, {"ACK"}, <<>>)})
           /\ UNCHANGED overtaken
  BY <1>1, <1>3, OpenHolds, Zenon
<1>4. CASE /\ conn.state \in {"ESTABLISHED", "FIN_WAIT"} /\ m.port = conn.port
           /\ LET a == AfterAck(conn, m)
                  d == AfterData(a, m)
              IN  /\ conn' = AfterFin(a, d, m)
                  /\ Transmit(Acks(conn, m))
                  /\ overtaken' = (overtaken \/ ("FIN" \in m.flags /\ m.seq + Len(m.data) # d.rcv_nxt))
  BY <1>1, <1>4, TakenHolds, Zenon
<1> QED  BY <1>1, <1>2, <1>3, <1>4, Zenon DEF tcp_handle

\* A segment is sent by net_tcp_connect, Request, Finish or net_poll: what that
\* leaves of the invariant when the segment is the next of this side.
LEMMA SendHolds ==
  ASSUME IInv, NEW f \in SUBSET Flag, NEW x \in Seq(Bytes),
         conn.port \in Port, "FIN" \in f => conn.snd_nxt = ISS + 2,
         Transmit({Sent(conn, f, x)})
  PROVE  toPeer' \subseteq Segments /\ \A m \in toPeer' : "FIN" \in m.flags => m.seq = ISS + 2
<1>1. conn \in Conns /\ toPeer \subseteq Segments /\ \A m \in toPeer : "FIN" \in m.flags => m.seq = ISS + 2
  BY Zenon DEF IInv, TypeOK, FinLast
<1>2. Sent(conn, f, x) \in Segments /\ Sent(conn, f, x).flags = f /\ Sent(conn, f, x).seq = conn.snd_nxt
  BY <1>1, SentIs, Zenon
<1> QED  BY <1>1, <1>2, TransmitIs, SMTT(30)

\* The request.
LEMMA RequestHolds == ASSUME IInv, Request PROVE IInv'
<1> USE TcpAssumption
<1> DEFINE x == <<Byte(conn.port, 0)>>
           f == {"ACK", "PSH"}
           e == AfterSend(conn, f, x)
<1>1. TypeOK /\ ToUsTrue /\ FinLast /\ Numbers /\ Buffers /\ PeerAgrees
  BY Zenon DEF IInv
<1>2. /\ app = "connecting" /\ conn.state = "ESTABLISHED" /\ app' \in {"reading", "idle"}
      /\ conn' = AfterSend(conn, f, x) /\ Transmit({Sent(conn, f, x)})
      /\ UNCHANGED <<page, peer, toUs, overtaken>>
  BY Zenon DEF Request, net_tcp_send
<1>3. conn \in Conns /\ conn.port \in Port /\ conn.snd_nxt = ISS + 1
  BY <1>1, <1>2, Zenon DEF TypeOK, Numbers
<1>4. f \in SUBSET Flag /\ x \in Seq(Bytes) /\ "FIN" \notin f /\ Len(x) = 1 /\ x # <<>>
  BY <1>3 DEF Flag, Byte, Bytes, Port
<1>5. Extent(f, x) = 1
  BY <1>4, Zenon DEF Extent
<1> HIDE DEF x, f
<1>6. /\ e \in Conns
      /\ e.state = conn.state /\ e.port = conn.port /\ e.snd_una = conn.snd_una
      /\ e.rcv_nxt = conn.rcv_nxt /\ e.recv = conn.recv /\ e.read = conn.read
      /\ e.last = [flags |-> f, seq |-> conn.snd_nxt, data |-> x]
      /\ e.snd_nxt = conn.snd_nxt + Extent(f, x)
      /\ e.waiting_ack <=> conn.waiting_ack \/ Extent(f, x) > 0
  BY <1>3, <1>4, AfterSendIs, Zenon
<1>7. conn' = e /\ conn'.waiting_ack
  <2>1. Extent(f, x) > 0
    BY <1>5
  <2> QED  BY <1>2, <1>6, <2>1, Zenon
<1> HIDE DEF e
<1>8. toPeer' \subseteq Segments /\ \A m \in toPeer' : "FIN" \in m.flags => m.seq = ISS + 2
  BY <1>2, <1>3, <1>4, SendHolds, Zenon
<1>9. conn'.last.flags = f /\ conn'.last.seq = ISS + 1 /\ conn'.last.data = x /\ conn'.snd_nxt = ISS + 2
  BY <1>3, <1>5, <1>6, <1>7, SMTT(30)
<1>10. TypeOK'
  BY <1>1, <1>2, <1>6, <1>7, <1>8, Zenon DEF TypeOK
<1>11. ToUsTrue' /\ FinLast'
  BY <1>1, <1>2, <1>8, Zenon DEF ToUsTrue, FinLast
<1>12. Numbers'
  <2>1. conn'.snd_nxt = conn'.last.seq + Extent(conn'.last.flags, conn'.last.data)
    BY <1>5, <1>9
  <2>2. "FIN" \notin conn'.last.flags
    BY <1>4, <1>9, Zenon
  <2> QED  BY <1>2, <1>3, <1>6, <1>7, <1>9, <2>1, <2>2, Zenon DEF Numbers, Fetching
<1>13. Buffers'
  BY <1>1, <1>2, <1>6, <1>7, Zenon DEF Buffers
<1>14. PeerAgrees'
  BY <1>1, <1>2, <1>6, <1>7, Zenon DEF PeerAgrees
<1> QED  BY <1>10, <1>11, <1>12, <1>13, <1>14, Zenon DEF IInv

\* net_tcp_connect: a connection of its own, with nothing in its buffer.
LEMMA ConnectHolds == ASSUME IInv, net_tcp_connect PROVE IInv'
<1> USE TcpAssumption
<1> DEFINE p == conn.port + 1
           c == [Closed0 EXCEPT !.state = "SYN_SENT", !.port = p, !.snd_nxt = ISS, !.snd_una = ISS]
           e == AfterSend(c, {"SYN"}, <<>>)
<1>1. TypeOK /\ ToUsTrue /\ FinLast
  BY Zenon DEF IInv
<1>2. /\ conn.port < MaxConns /\ app' = "connecting" /\ page' = <<>> /\ overtaken' = FALSE
      /\ conn' = AfterSend(c, {"SYN"}, <<>>) /\ Transmit({Sent(c, {"SYN"}, <<>>)})
      /\ UNCHANGED <<peer, toUs>>
  BY Zenon DEF net_tcp_connect
<1>3. p \in Port /\ p \in 0 .. MaxConns /\ p \in Nat
  <2>1. conn.port \in 0 .. MaxConns
    BY <1>1, Zenon DEF TypeOK, Conns
  <2> QED  BY <1>2, <2>1, SMTT(30) DEF Port
<1> HIDE DEF p
<1>4. /\ c \in Conns /\ c.state = "SYN_SENT" /\ c.port = p /\ c.snd_nxt = ISS /\ c.recv = <<>> /\ c.read = 0
  <2>1. Closed0 \in Conns /\ Closed0.recv = <<>> /\ Closed0.read = 0
    BY DEF Closed0, Conns
  <2> QED  BY <1>3, <2>1, Zenon DEF Conns
<1> HIDE DEF c
<1>5. {"SYN"} \in SUBSET Flag /\ <<>> \in Seq(Bytes) /\ "FIN" \notin {"SYN"} /\ Extent({"SYN"}, <<>>) = 1
  BY DEF Flag, Extent
<1>6. /\ e \in Conns
      /\ e.state = c.state /\ e.port = c.port /\ e.snd_una = c.snd_una
      /\ e.rcv_nxt = c.rcv_nxt /\ e.recv = c.recv /\ e.read = c.read
      /\ e.last = [flags |-> {"SYN"}, seq |-> c.snd_nxt, data |-> <<>>]
      /\ e.snd_nxt = c.snd_nxt + Extent({"SYN"}, <<>>)
      /\ e.waiting_ack <=> c.waiting_ack \/ Extent({"SYN"}, <<>>) > 0
  BY <1>4, <1>5, AfterSendIs, Zenon
<1> HIDE DEF e
<1>7. /\ conn'.last.flags = {"SYN"} /\ conn'.last.seq = ISS /\ conn'.last.data = <<>> /\ conn'.snd_nxt = ISS + 1
      /\ conn'.state = "SYN_SENT" /\ conn'.port = p /\ conn'.recv = <<>> /\ conn'.read = 0
      /\ conn' \in Conns
  <2>1. conn' = e
    BY <1>2, Zenon DEF e
  <2> QED  BY <1>4, <1>5, <1>6, <2>1
<1>8. toPeer' \subseteq Segments /\ \A m \in toPeer' : "FIN" \in m.flags => m.seq = ISS + 2
  <2>1. Sent(c, {"SYN"}, <<>>) \in Segments /\ Sent(c, {"SYN"}, <<>>).flags = {"SYN"}
    BY <1>3, <1>4, <1>5, SentIs, Zenon
  <2> QED  BY <1>1, <1>2, <2>1, TransmitIs DEF TypeOK, FinLast
<1>9. TypeOK'
  <2>1. overtaken' \in BOOLEAN /\ page' \in Seq(Bytes)
    BY <1>2, <1>5, Zenon
  <2> QED  BY <1>1, <1>2, <1>7, <1>8, <2>1, Zenon DEF TypeOK
<1>10. ToUsTrue' /\ FinLast'
  BY <1>1, <1>2, <1>8, Zenon DEF ToUsTrue, FinLast
<1>11. Numbers'
  <2>1. conn'.snd_nxt = conn'.last.seq + Extent(conn'.last.flags, conn'.last.data)
    BY <1>5, <1>7, Zenon
  <2> QED  BY <1>2, <1>3, <1>7, <2>1, Zenon DEF Numbers, Fetching
<1>12. Buffers'
  <2>1. Stream(p, 0) = <<>>
    BY DEF Stream
  <2>2. Len(conn'.recv) = 0 /\ Len(page') = 0
    BY <1>2, <1>7, Zenon
  <2>3. conn'.recv = Stream(conn'.port, Len(conn'.recv)) /\ page' = Stream(conn'.port, Len(page'))
    BY <1>2, <1>7, <2>1, <2>2, Zenon
  <2> QED  BY <1>7, <2>2, <2>3, SMTT(30) DEF Buffers
<1>13. PeerAgrees'
  BY <1>2, <1>7, Zenon DEF PeerAgrees, Fetching
<1> QED  BY <1>9, <1>10, <1>11, <1>12, <1>13 DEF IInv

\* net_poll sends the last segment again, with its own number: the next one is
\* what it was.
LEMMA RetransmitHolds == ASSUME IInv, Retransmit PROVE IInv'
<1> USE TcpAssumption
<1> DEFINE q == conn.last.seq
           c == [conn EXCEPT !.snd_nxt = q]
           f == conn.last.flags
           x == IF f \cap {"SYN", "FIN"} # {} THEN <<>> ELSE conn.last.data
           e == AfterSend(c, f, x)
<1>1. TypeOK /\ ToUsTrue /\ FinLast /\ Numbers /\ Buffers /\ PeerAgrees
  BY DEF IInv
<1>2. /\ conn.state = "SYN_SENT" \/ conn.waiting_ack
      /\ f \cap {"SYN", "FIN"} # {} \/ conn.last.data # <<>>
      /\ conn' = e /\ Transmit({Sent(c, f, x)})
      /\ UNCHANGED <<app, page, peer, toUs, overtaken>>
  BY Zenon DEF Retransmit, AgainFrom
<1>3. conn \in Conns /\ conn.port \in Port
  BY <1>1, <1>2, Zenon DEF TypeOK, Numbers
<1>4. q \in Nat /\ f \in SUBSET Flag /\ x \in Seq(Bytes)
  BY <1>3 DEF Conns
<1>5. conn.snd_nxt = q + Extent(f, x) /\ ("FIN" \in f => q = ISS + 2)
  BY <1>1, <1>2, Zenon DEF Numbers, Extent
<1>6. Extent(f, x) > 0
  <2>1. CASE f \cap {"SYN", "FIN"} # {}
    BY <2>1 DEF Extent
  <2>2. CASE f \cap {"SYN", "FIN"} = {}
    <3>1. x # <<>> /\ Extent(f, x) = Len(x)
      BY <1>2, <2>2, Zenon DEF Extent
    <3> QED  BY <1>4, <3>1
  <2> QED  BY <2>1, <2>2, Zenon
<1> HIDE DEF q, f, x
<1>7. /\ c \in Conns /\ c.snd_nxt = q
      /\ c.state = conn.state /\ c.port = conn.port
      /\ c.rcv_nxt = conn.rcv_nxt /\ c.recv = conn.recv /\ c.read = conn.read
  BY <1>3, <1>4, Zenon DEF Conns
<1> HIDE DEF c
<1>8. /\ e \in Conns
      /\ e.state = c.state /\ e.port = c.port /\ e.snd_una = c.snd_una
      /\ e.rcv_nxt = c.rcv_nxt /\ e.recv = c.recv /\ e.read = c.read
      /\ e.last = [flags |-> f, seq |-> c.snd_nxt, data |-> x]
      /\ e.snd_nxt = c.snd_nxt + Extent(f, x)
      /\ e.waiting_ack <=> c.waiting_ack \/ Extent(f, x) > 0
  BY <1>4, <1>7, AfterSendIs, Zenon
<1>9. e.waiting_ack
  BY <1>6, <1>8, Zenon
<1> HIDE DEF e
<1>10. /\ conn' \in Conns /\ conn'.state = conn.state /\ conn'.port = conn.port /\ conn'.snd_nxt = conn.snd_nxt
       /\ conn'.rcv_nxt = conn.rcv_nxt /\ conn'.recv = conn.recv /\ conn'.read = conn.read
       /\ conn'.last.flags = f /\ conn'.last.seq = q /\ conn'.last.data = x
  BY <1>2, <1>5, <1>7, <1>8
<1>11. conn'.waiting_ack
  BY <1>2, <1>9, Zenon
<1>12. toPeer' \subseteq Segments /\ \A m \in toPeer' : "FIN" \in m.flags => m.seq = ISS + 2
  <2>1. Sent(c, f, x) \in Segments /\ Sent(c, f, x).flags = f /\ Sent(c, f, x).seq = c.snd_nxt
    <3>1. c.port \in Port
      BY <1>3, <1>7, Zenon
    <3> QED  BY <1>4, <1>7, <3>1, SentIs, Zenon
  <2> QED  BY <1>1, <1>2, <1>5, <1>7, <2>1, TransmitIs DEF TypeOK, FinLast
<1>13. TypeOK'
  BY <1>1, <1>2, <1>10, <1>12, Zenon DEF TypeOK
<1>14. ToUsTrue' /\ FinLast'
  BY <1>1, <1>2, <1>12, Zenon DEF ToUsTrue, FinLast
<1>15. Numbers'
  <2>1. conn'.snd_nxt = conn'.last.seq + Extent(conn'.last.flags, conn'.last.data)
    BY <1>5, <1>10, Zenon
  <2> QED  BY <1>1, <1>2, <1>3, <1>5, <1>10, <2>1, Zenon DEF Numbers, Fetching
<1>16. Buffers'
  BY <1>1, <1>2, <1>10, Zenon DEF Buffers
<1>17. PeerAgrees'
  BY <1>1, <1>2, <1>10, <1>11, Zenon DEF PeerAgrees
<1> QED  BY <1>13, <1>14, <1>15, <1>16, <1>17 DEF IInv

\* net_tcp_recv takes a chunk; a chunk refused leaves no hole, since it is the
\* last of the buffer.
LEMMA TakeHolds == ASSUME IInv, Take PROVE IInv'
<1> USE TcpAssumption
<1> DEFINE a == conn.read
           b == Min2(conn.read + Chunk, Len(conn.recv))
           n == Len(conn.recv)
           s == Received
           r == a + Len(s)
<1>1. TypeOK /\ ToUsTrue /\ FinLast /\ Numbers /\ Buffers /\ PeerAgrees
  BY DEF IInv
<1>2. /\ app = "taking" /\ app' = "reading"
      /\ page' = IF Len(page) + Len(s) < PageCap THEN page \o s ELSE page
      /\ conn' = [conn EXCEPT !.read = r]
      /\ UNCHANGED <<peer, toPeer, toUs, overtaken>>
  BY Zenon DEF Take, Takes
<1>3. conn \in Conns /\ conn.port \in Port /\ conn.port \in Nat
  BY <1>1, <1>2, SMTT(30) DEF TypeOK, Numbers, Port
<1>4. /\ a \in Nat /\ n \in Nat /\ a <= n /\ n <= BufSize
      /\ conn.recv = Stream(conn.port, n) /\ page = Stream(conn.port, Len(page))
      /\ Len(page) = a \/ a = BufSize
      /\ Len(page) \in Nat /\ Len(page) <= a
  BY <1>1, <1>3, SMTT(30) DEF Buffers, Conns, TypeOK
<1>5. b \in Nat /\ a <= b /\ b <= n
  BY <1>4, SMTT(30) DEF Min2
<1> HIDE DEF b
<1>6. s = SubSeq(Stream(conn.port, n), a + 1, b)
  BY <1>4, Zenon DEF Received, b
<1>7. s \in Seq(Bytes) /\ Len(s) = b - a /\ \A k \in 1 .. Len(s) : s[k] = Byte(conn.port, a + k)
  <2> HIDE DEF a, n, s
  <2>1. conn.port \in Nat /\ n \in Nat /\ a \in Nat /\ b \in Nat /\ a <= b /\ b <= n
    BY <1>3, <1>4, <1>5, Zenon
  <2>2. IsPiece(s, conn.port, a, b)
    BY <1>6, <2>1, StreamPiece, Zenon
  <2> QED  BY <2>2, Zenon DEF IsPiece
<1> HIDE DEF a, n, s
<1>8. r = b /\ r \in Nat
  BY <1>4, <1>5, <1>7
<1> HIDE DEF r
<1>9. /\ conn' \in Conns /\ conn'.read = r
      /\ conn'.state = conn.state /\ conn'.port = conn.port /\ conn'.snd_nxt = conn.snd_nxt /\ conn'.last = conn.last
      /\ conn'.rcv_nxt = conn.rcv_nxt /\ conn'.recv = conn.recv /\ conn'.waiting_ack = conn.waiting_ack
  BY <1>2, <1>3, <1>8, Zenon DEF Conns
<1>10. /\ page' \in Seq(Bytes) /\ page' = Stream(conn.port, Len(page')) /\ Len(page') <= r
       /\ Len(page') = r \/ r = BufSize
  <2>0. page \in Seq(Bytes)
    BY <1>1, Zenon DEF TypeOK
  <2>1. CASE Len(page) # a
    <3>1. a = BufSize /\ r = a /\ Len(s) = 0 /\ Len(page) <= r
      BY <1>4, <1>5, <1>7, <1>8, <2>1
    <3>2. s = <<>>
      BY <1>7, <3>1
    <3>3. page \o s = page
      BY <2>0, <3>2
    <3>4. page' = page
      BY <1>2, <3>3, Zenon
    <3> QED  BY <1>4, <2>0, <3>1, <3>4, Zenon
  <2>2. CASE Len(page) = a /\ Len(page) + Len(s) < PageCap
    <3>1. page' = Stream(conn.port, a) \o s
      BY <1>2, <1>4, <2>2, Zenon
    <3>a. conn.port \in Nat /\ a \in Nat
      BY <1>3, <1>4, Zenon
    <3>b. s \in Seq(Bytes) /\ \A k \in 1 .. Len(s) : s[k] = Byte(conn.port, a + k)
      BY <1>7, Zenon
    <3>2. Stream(conn.port, a) \o s = Stream(conn.port, a + Len(s))
      BY <3>a, <3>b, StreamLonger, ZenonT(60)
    <3>3. a + Len(s) = r
      BY Zenon DEF r
    <3>4. Stream(conn.port, r) \in Seq(Bytes) /\ Len(Stream(conn.port, r)) = r
      BY <1>3, <1>8, StreamSeq, Zenon
    <3>5. page' = Stream(conn.port, r)
      BY <3>1, <3>2, <3>3, Zenon
    <3>6. Len(page') = r /\ page' \in Seq(Bytes) /\ r <= r
      BY <1>8, <3>4, <3>5, SMTT(30)
    <3> QED  BY <3>5, <3>6, Zenon
  <2>3. CASE Len(page) = a /\ ~(Len(page) + Len(s) < PageCap)
    <3>1. page' = page
      BY <1>2, <2>3, Zenon
    <3>2. r = BufSize /\ Len(page) <= r
      BY <1>4, <1>5, <1>7, <1>8, <2>3, SMTT(30)
    <3> QED  BY <1>4, <2>0, <3>1, <3>2, Zenon
  <2> QED  BY <2>1, <2>2, <2>3, Zenon
<1>11. TypeOK'
  BY <1>1, <1>2, <1>9, <1>10, Zenon DEF TypeOK
<1>12. ToUsTrue' /\ FinLast' /\ Numbers'
  BY <1>1, <1>2, <1>9, Zenon DEF ToUsTrue, FinLast, Numbers, Fetching
<1>13. Buffers'
  <2>1. conn'.read <= Len(conn'.recv)
    BY <1>5, <1>8, <1>9, Zenon DEF n
  <2> QED  BY <1>1, <1>2, <1>9, <1>10, <2>1, Zenon DEF Buffers
<1>14. PeerAgrees'
  BY <1>1, <1>2, <1>9, Zenon DEF PeerAgrees, Fetching
<1> QED  BY <1>11, <1>12, <1>13, <1>14, Zenon DEF IInv

\* browser_fetch ends; net_tcp_close sends its FIN behind the request.
LEMMA FinishHolds == ASSUME IInv, Finish PROVE IInv'
<1> USE TcpAssumption
<1> DEFINE f == {"FIN", "ACK"}
           e == AfterSend(conn, f, <<>>)
<1>1. TypeOK /\ ToUsTrue /\ FinLast /\ Numbers /\ Buffers /\ PeerAgrees
  BY DEF IInv
<1>2. Fetching /\ app' = "idle" /\ net_tcp_close /\ UNCHANGED <<page, peer, toUs, overtaken>>
  BY Zenon DEF Finish, Fetching
<1>3. CASE conn.state # "ESTABLISHED"
  <2>1. UNCHANGED <<conn, toPeer>>
    BY <1>2, <1>3, Zenon DEF net_tcp_close
  <2>2. TypeOK' /\ ToUsTrue' /\ FinLast' /\ Buffers'
    BY <1>1, <1>2, <2>1, Zenon DEF TypeOK, ToUsTrue, FinLast, Buffers
  <2>3. Numbers' /\ PeerAgrees'
    BY <1>1, <1>2, <1>3, <2>1, Zenon DEF Numbers, PeerAgrees, Fetching
  <2> QED  BY <2>2, <2>3, Zenon DEF IInv
<1>4. CASE conn.state = "ESTABLISHED"
  <2>1. conn' = [e EXCEPT !.state = "FIN_WAIT"] /\ Transmit({Sent(conn, f, <<>>)})
    BY <1>2, <1>4, Zenon DEF net_tcp_close
  <2>2. conn \in Conns /\ conn.port \in Port /\ conn.snd_nxt = ISS + 2
    BY <1>1, <1>2, <1>4, Zenon DEF TypeOK, Numbers
  <2>3. f \in SUBSET Flag /\ <<>> \in Seq(Bytes) /\ f \cap {"SYN", "FIN"} # {} /\ Extent(f, <<>>) = 1
    BY DEF Flag, Extent
  <2> HIDE DEF f
  <2>4. /\ e \in Conns
        /\ e.state = conn.state /\ e.port = conn.port /\ e.snd_una = conn.snd_una
        /\ e.rcv_nxt = conn.rcv_nxt /\ e.recv = conn.recv /\ e.read = conn.read
        /\ e.last = [flags |-> f, seq |-> conn.snd_nxt, data |-> <<>>]
        /\ e.snd_nxt = conn.snd_nxt + Extent(f, <<>>)
        /\ e.waiting_ack <=> conn.waiting_ack \/ Extent(f, <<>>) > 0
    BY <2>2, <2>3, AfterSendIs, Zenon
  <2>5. toPeer' \subseteq Segments /\ \A m \in toPeer' : "FIN" \in m.flags => m.seq = ISS + 2
    BY <2>1, <2>2, <2>3, SendHolds, Zenon
  <2> HIDE DEF e
  <2>6. /\ conn' \in Conns /\ conn'.state = "FIN_WAIT" /\ conn'.port = e.port /\ conn'.snd_nxt = e.snd_nxt /\ conn'.last = e.last
        /\ conn'.rcv_nxt = e.rcv_nxt /\ conn'.recv = e.recv /\ conn'.read = e.read
    BY <2>1, <2>4, Zenon DEF Conns
  <2>7. conn'.last.flags = f /\ conn'.last.seq = ISS + 2 /\ conn'.last.data = <<>> /\ conn'.snd_nxt = ISS + 3
    BY <2>2, <2>3, <2>4, <2>6
  <2>8. TypeOK' /\ ToUsTrue' /\ FinLast'
    BY <1>1, <1>2, <2>5, <2>6, Zenon DEF TypeOK, ToUsTrue, FinLast
  <2>9. Numbers'
    <3>1. conn'.snd_nxt = conn'.last.seq + Extent(conn'.last.flags, conn'.last.data)
      BY <2>3, <2>7, SMTT(30)
    <3>2. conn'.port \in Port
      BY <2>2, <2>4, <2>6, Zenon
    <3> QED  BY <1>2, <2>6, <2>7, <3>1, <3>2, Zenon DEF Numbers, Fetching
  <2>10. Buffers'
    <3>1. /\ conn'.port = conn.port /\ conn'.recv = conn.recv /\ conn'.read = conn.read /\ conn'.rcv_nxt = conn.rcv_nxt
          /\ conn'.state # "SYN_SENT" /\ conn'.state # "CLOSE_WAIT"
      BY <2>4, <2>6, Zenon
    <3>2. conn.rcv_nxt = IRS + 1 + Len(conn.recv)
      BY <1>1, <1>4, Zenon DEF Buffers
    <3> QED  BY <1>1, <1>2, <3>1, <3>2, Zenon DEF Buffers
  <2>11. PeerAgrees'
    BY <1>1, <1>2, <1>4, <2>4, <2>6, Zenon DEF PeerAgrees
  <2> QED  BY <2>8, <2>9, <2>10, <2>11, Zenon DEF IInv
<1> QED  BY <1>3, <1>4, Zenon

\* The steps that only look, and the network's losses.
LEMMA QuietHolds ==
  ASSUME IInv, StillOpen \/ ConnectTimeout \/ Lose \/ UNCHANGED vars
  PROVE  IInv'
<1>1. TypeOK /\ ToUsTrue /\ FinLast /\ Numbers /\ Buffers /\ PeerAgrees
  BY Zenon DEF IInv
<1>2. UNCHANGED <<conn, page, peer, overtaken>> /\ toPeer' \subseteq toPeer /\ toUs' \subseteq toUs
  BY Zenon DEF StillOpen, ConnectTimeout, Lose, vars
<1>3. \/ app = "reading" /\ app' = "taking"
      \/ app = "connecting" /\ app' = "idle"
      \/ app' = app
  BY Zenon DEF StillOpen, ConnectTimeout, Lose, vars
<1>4. TypeOK' /\ ToUsTrue' /\ FinLast' /\ Buffers'
  BY <1>1, <1>2, <1>3, SMTT(30) DEF TypeOK, ToUsTrue, FinLast, Buffers
<1>5. app = "connecting" => conn.port \in Port
  BY <1>1, Zenon DEF Numbers
<1>6. Numbers'
  <2>1. CASE app' = app
    BY <1>1, <1>2, <2>1, Zenon DEF Numbers, Fetching
  <2>2. CASE app = "reading" /\ app' = "taking"
    BY <1>1, <1>2, <2>2, Zenon DEF Numbers, Fetching
  <2>3. CASE app = "connecting" /\ app' = "idle"
    BY <1>1, <1>2, <1>5, <2>3, Zenon DEF Numbers, Fetching
  <2> QED  BY <1>3, <2>1, <2>2, <2>3, Zenon
<1>7. PeerAgrees'
  BY <1>1, <1>2, <1>3, Zenon DEF PeerAgrees, Fetching
<1> QED  BY <1>4, <1>6, <1>7, Zenon DEF IInv

\* The peer takes a segment: it forgets nothing, and has the request before the FIN.
LEMMA PeerReceiveHolds == ASSUME IInv, NEW m \in toPeer, PeerReceive(m) PROVE IInv'
<1> USE TcpAssumption
<1> DEFINE p == m.port
           o == peer[p]
           g == CASE "SYN" \in m.flags /\ o.state = "listen" -> [o EXCEPT !.state = "open"]
                  [] m.data # <<>> /\ o.state = "open" /\ m.seq = ISS + 1 -> [o EXCEPT !.request = TRUE]
                  [] "FIN" \in m.flags /\ o.state = "open" /\ m.seq = PeerNext(p) -> [o EXCEPT !.fin = TRUE]
                  [] OTHER -> o
<1>1. TypeOK /\ ToUsTrue /\ FinLast /\ Numbers /\ Buffers /\ PeerAgrees
  BY Zenon DEF IInv
<1>2. /\ toPeer' \subseteq toPeer /\ peer' = [peer EXCEPT ![p] = g]
      /\ UNCHANGED <<conn, app, page, toUs, overtaken>>
  BY Zenon DEF PeerReceive
<1>3. p \in Port /\ o \in Peers /\ peer \in [Port -> Peers]
  BY <1>1, Zenon DEF TypeOK, Segments
<1>4. /\ g \in Peers
      /\ o.state = "open" => g.state = "open"
      /\ o.request => g.request
      /\ g.fin => g.request
  <2>1. o.fin => o.request
    BY <1>1, <1>3, Zenon DEF FinLast
  <2>2. CASE "SYN" \in m.flags /\ o.state = "listen"
    <3>1. g = [o EXCEPT !.state = "open"]
      BY <2>2, Zenon
    <3> QED  BY <1>3, <2>1, <3>1, Zenon DEF Peers
  <2>3. CASE /\ ~("SYN" \in m.flags /\ o.state = "listen")
             /\ m.data # <<>> /\ o.state = "open" /\ m.seq = ISS + 1
    <3>1. g = [o EXCEPT !.request = TRUE]
      <4>1. "FIN" \notin m.flags
        BY <1>1, <2>3 DEF FinLast
      <4> QED  BY <2>3, <4>1, Zenon
    <3> QED  BY <1>3, <2>3, <3>1, Zenon DEF Peers
  <2>4. CASE /\ ~("SYN" \in m.flags /\ o.state = "listen")
             /\ ~(m.data # <<>> /\ o.state = "open" /\ m.seq = ISS + 1)
             /\ "FIN" \in m.flags /\ o.state = "open" /\ m.seq = PeerNext(p)
    <3>1. g = [o EXCEPT !.fin = TRUE]
      BY <2>4, Zenon
    <3>2. o.request
      <4>1. PeerNext(p) = ISS + 2
        BY <1>1, <2>4, Zenon DEF FinLast
      <4>2. CASE ~o.request
        <5>1. ~o.fin
          BY <2>1, <4>2, Zenon
        <5>2. PeerNext(p) = ISS + 1
          BY <4>2, <5>1, SMTT(30) DEF PeerNext
        <5> QED  BY <4>1, <5>2, SMTT(30)
      <4> QED  BY <4>2, Zenon
    <3> QED  BY <1>3, <2>4, <3>1, <3>2, Zenon DEF Peers
  <2>5. CASE /\ ~("SYN" \in m.flags /\ o.state = "listen")
             /\ ~(m.data # <<>> /\ o.state = "open" /\ m.seq = ISS + 1)
             /\ ~("FIN" \in m.flags /\ o.state = "open" /\ m.seq = PeerNext(p))
    <3>1. g = o
      BY <2>5, Zenon
    <3> QED  BY <1>3, <2>1, <3>1, Zenon
  <2> QED  BY <2>2, <2>3, <2>4, <2>5, Zenon
<1> HIDE DEF g
<1>5. /\ peer' \in [Port -> Peers]
      /\ \A r \in Port : /\ peer[r].state = "open" => peer'[r].state = "open"
                         /\ peer[r].request => peer'[r].request
                         /\ peer'[r].fin => peer'[r].request
  <2>1. peer' \in [Port -> Peers]
    BY <1>2, <1>3, <1>4, Zenon
  <2>2. ASSUME NEW r \in Port
        PROVE  /\ peer[r].state = "open" => peer'[r].state = "open"
               /\ peer[r].request => peer'[r].request
               /\ peer'[r].fin => peer'[r].request
    <3>1. CASE r = p
      <4>1. peer'[r] = g /\ peer[r] = o
        BY <1>2, <1>3, <3>1, Zenon
      <4> HIDE DEF o, p
      <4> QED  BY <1>4, <4>1, Zenon
    <3>2. CASE r # p
      <4>1. peer'[r] = peer[r]
        BY <1>2, <1>3, <3>2, Zenon
      <4>2. peer[r].fin => peer[r].request
        BY <1>1, Zenon DEF FinLast
      <4> QED  BY <4>1, <4>2, Zenon
    <3> QED  BY <3>1, <3>2, Zenon
  <2> QED  BY <2>1, <2>2, Zenon
<1>6. TypeOK'
  BY <1>1, <1>2, <1>5, Zenon DEF TypeOK
<1>7. ToUsTrue'
  <2> SUFFICES ASSUME NEW x \in toUs
               PROVE  /\ peer'[x.port].state = "open"
                      /\ x.ack >= ISS + 2 => peer'[x.port].request
    BY <1>1, <1>2, Zenon DEF ToUsTrue
  <2>1. x.port \in Port
    BY <1>1, Zenon DEF TypeOK, Segments
  <2>2. peer[x.port].state = "open" /\ (x.ack >= ISS + 2 => peer[x.port].request)
    BY <1>1, Zenon DEF ToUsTrue
  <2> QED  BY <1>5, <2>1, <2>2, Zenon
<1>8. FinLast'
  BY <1>1, <1>2, <1>5, Zenon DEF FinLast
<1>9. Numbers' /\ Buffers'
  BY <1>1, <1>2, Zenon DEF Numbers, Buffers, Fetching
<1>10. PeerAgrees'
  <2>1. conn.state \in {"ESTABLISHED", "FIN_WAIT", "CLOSE_WAIT"} => conn.port \in Port
    BY <1>1, Zenon DEF Numbers
  <2>2. Fetching' = Fetching
    BY <1>2, Zenon DEF Fetching
  <2>3. conn.state = "ESTABLISHED" => conn.state \in {"ESTABLISHED", "FIN_WAIT", "CLOSE_WAIT"}
    BY Zenon
  <2> QED  BY <1>1, <1>2, <1>5, <2>1, <2>2, <2>3, Zenon DEF PeerAgrees
<1> QED  BY <1>6, <1>7, <1>8, <1>9, <1>10, Zenon DEF IInv

\* What the peer sends is true of the stream and of what it has.
LEMMA PeerSendHolds == ASSUME IInv, NEW p \in Port, PeerSend(p) PROVE IInv'
<1> USE TcpAssumption
<1>1. TypeOK /\ ToUsTrue /\ FinLast /\ Numbers /\ Buffers /\ PeerAgrees
  BY Zenon DEF IInv
<1>2. UNCHANGED <<conn, app, page, peer, toPeer, overtaken>>
  BY Zenon DEF PeerSend
<1>3. PICK x \in PeerSegments(p) : toUs' = toUs \cup {x}
  BY Zenon DEF PeerSend
<1> DEFINE True(m) ==
      /\ peer[m.port].state = "open"
      /\ m.ack >= ISS + 2 => peer[m.port].request
      /\ "SYN" \in m.flags => m.seq = IRS /\ m.data = <<>> /\ "FIN" \notin m.flags
      /\ m.data # <<>> => /\ m.seq >= IRS + 1 /\ m.seq + Len(m.data) <= IRS + 1 + StreamLen
                          /\ \A k \in 1 .. Len(m.data) : m.data[k] = Byte(m.port, m.seq - IRS - 1 + k)
      /\ "FIN" \in m.flags => m.seq + Len(m.data) = IRS + 1 + StreamLen
<1>4. peer[p].state = "open"
  BY <1>1, <1>3, Zenon DEF PeerSegments, TypeOK, Peers
<1>5. PeerNext(p) \in Nat /\ (PeerNext(p) >= ISS + 2 => peer[p].request)
  <2>1. CASE peer[p].request
    BY <2>1, SMTT(30) DEF PeerNext, RequestLen
  <2>2. CASE ~peer[p].request
    <3>1. ~peer[p].fin
      BY <1>1, <2>2, Zenon DEF FinLast
    <3>2. PeerNext(p) = ISS + 1
      BY <2>2, <3>1, SMTT(30) DEF PeerNext
    <3> QED  BY <3>2, SMTT(30)
  <2> QED  BY <2>1, <2>2, Zenon
<1>6. x \in Segments /\ True(x)
  <2>1. CASE x = Segment(p, {"SYN", "ACK"}, IRS, ISS + 1, <<>>)
    <3>1. /\ x.port = p /\ x.flags = {"SYN", "ACK"} /\ x.seq = IRS /\ x.ack = ISS + 1 /\ x.data = <<>>
          /\ x \in Segments
      BY <2>1 DEF Segment, Segments, Flag
    <3> QED  BY <1>4, <3>1, SMTT(30)
  <2>2. CASE x # Segment(p, {"SYN", "ACK"}, IRS, ISS + 1, <<>>)
    <3>1. PICK t \in Pieces(p) : x = StreamSegment(p, t[1], t[2], t[3])
      BY <1>3, <2>2, Zenon DEF PeerSegments
    <3> DEFINE i == t[1]
               j == t[2]
               f == IF t[3] THEN {"ACK", "FIN"} ELSE {"ACK"}
               s == [k \in 1 .. j - i |-> Byte(p, i + k)]
    <3>2. i \in Nat /\ j \in Nat /\ i <= j /\ j <= StreamLen /\ (t[3] => j = StreamLen)
      BY <3>1, SMTT(30) DEF Pieces
    <3>3. f \in SUBSET Flag /\ "SYN" \notin f /\ ("FIN" \in f => j = StreamLen)
      BY <3>2, Zenon DEF Flag
    <3>4. x = Segment(p, f, IRS + 1 + i, PeerNext(p), s)
      BY <3>1, Zenon DEF StreamSegment
    <3> HIDE DEF i, j, f
    <3>5. p \in Nat /\ \A k \in 1 .. j - i : Byte(p, i + k) \in Bytes
      BY <3>2, SMTT(30) DEF Port, Byte, Bytes
    <3>6. s \in Seq(Bytes) /\ Len(s) = j - i /\ \A k \in 1 .. Len(s) : s[k] = Byte(p, i + k)
      BY <3>2, <3>5, SMTT(30)
    <3> HIDE DEF s
    <3>7. /\ x.port = p /\ x.flags = f /\ x.seq = IRS + 1 + i /\ x.ack = PeerNext(p) /\ x.data = s
          /\ x \in Segments
      BY <1>5, <3>2, <3>3, <3>4, <3>6, SMTT(30) DEF Segment, Segments
    <3>8. x.seq >= IRS + 1 /\ x.seq + Len(x.data) <= IRS + 1 + StreamLen
      BY <3>2, <3>6, <3>7, SMTT(30)
    <3>9. \A k \in 1 .. Len(x.data) : x.data[k] = Byte(x.port, x.seq - IRS - 1 + k)
      <4>1. x.seq - IRS - 1 = i
        BY <3>2, <3>7, SMTT(30)
      <4> QED  BY <3>6, <3>7, <4>1, Zenon
    <3>10. "FIN" \in x.flags => x.seq + Len(x.data) = IRS + 1 + StreamLen
      BY <3>2, <3>3, <3>6, <3>7, SMTT(30)
    <3>11. "SYN" \notin x.flags /\ peer[x.port].state = "open" /\ (x.ack >= ISS + 2 => peer[x.port].request)
      BY <1>4, <1>5, <3>3, <3>7, Zenon
    <3> QED  BY <3>7, <3>8, <3>9, <3>10, <3>11, Zenon
  <2> QED  BY <2>1, <2>2, Zenon
<1>7. ToUsTrue'
  <2>1. \A m \in toUs : True(m)
    BY <1>1, Zenon DEF ToUsTrue
  <2>2. \A m \in toUs' : True(m)
    <3> HIDE DEF True
    <3> QED  BY <1>3, <1>6, <2>1, Zenon
  <2> QED  BY <1>2, <2>2, Zenon DEF ToUsTrue
<1> HIDE DEF True
<1>8. TypeOK'
  BY <1>1, <1>2, <1>3, <1>6, Zenon DEF TypeOK
<1>9. FinLast' /\ Numbers' /\ Buffers' /\ PeerAgrees'
  BY <1>1, <1>2 DEF FinLast, Numbers, Buffers, PeerAgrees, Fetching
<1> QED  BY <1>7, <1>8, <1>9, Zenon DEF IInv

-----------------------------------------------------------------------------
(* The theorems. *)

\* The invariant is inductive.
LEMMA StepHolds == IInv /\ [Next]_vars => IInv'
<1> SUFFICES ASSUME IInv, [Next]_vars PROVE IInv'
  BY Zenon
<1>1. CASE net_tcp_connect  BY <1>1, ConnectHolds, Zenon
<1>2. CASE Request          BY <1>2, RequestHolds
<1>3. CASE Take             BY <1>3, TakeHolds
<1>4. CASE Finish           BY <1>4, FinishHolds
<1>5. CASE StillOpen \/ ConnectTimeout \/ Lose \/ UNCHANGED vars
  BY <1>5, QuietHolds, Zenon
<1>6. CASE Retransmit       BY <1>6, RetransmitHolds
<1>7. CASE \E m \in toUs : Deliver(m)
  BY <1>7, DeliverHolds, Zenon
<1>8. CASE \E m \in toPeer : PeerReceive(m)
  BY <1>8, PeerReceiveHolds, SMTT(30)
<1>9. CASE \E p \in Port : PeerSend(p)
  BY <1>9, PeerSendHolds, Zenon
<1> QED
  BY <1>1, <1>2, <1>3, <1>4, <1>5, <1>6, <1>7, <1>8, <1>9, Zenon DEF Next, Browser

\* tcp_handle's buffer is a beginning of the peer's stream, the page a beginning
\* of the buffer, and a stream whose FIN came in its place is complete, for
\* every stream, segmentation, buffer size and number of connections.
THEOREM ReceivedIsPrefixHolds == Spec => []ReceivedIsPrefix
<1>1. IInv => ReceivedIsPrefix
  <2> SUFFICES ASSUME IInv PROVE ReceivedIsPrefix
    BY Zenon
  <2> USE TcpAssumption
  <2>1. Buffers /\ TypeOK
    BY Zenon DEF IInv
  <2>2. conn.recv = [i \in 1 .. Len(conn.recv) |-> Byte(conn.port, i)]
    BY <2>1, Zenon DEF Buffers, Stream
  <2>3. Len(page) <= Len(conn.recv) /\ page = SubSeq(conn.recv, 1, Len(page))
    <3>1. /\ page \in Seq(Bytes) /\ conn.recv \in Seq(Bytes) /\ conn.read \in Nat
          /\ Len(page) <= conn.read /\ conn.read <= Len(conn.recv)
      BY <2>1, Zenon DEF TypeOK, Conns, Buffers
    <3>2. Len(page) <= Len(conn.recv)
      BY <3>1
    <3>3. \A i \in 1 .. Len(page) : page[i] = conn.recv[i]
      BY <2>1, <3>1, <3>2, SMTT(30) DEF Buffers, Stream
    <3>4. page = SubSeq(conn.recv, 1, Len(page))
      BY <3>1, <3>2, <3>3, SMTT(30)
    <3> QED  BY <3>2, <3>4, Zenon
  <2> QED  BY <2>1, <2>2, <2>3, Zenon DEF ReceivedIsPrefix, Buffers
<1> QED  BY <1>1, InitHolds, StepHolds, PTL DEF Spec

\* A connection is up only if the peer has opened it, and the request is no
\* longer sent again only once the peer has it.
THEOREM PeerAgreesHolds == Spec => []PeerAgrees
<1>1. IInv => PeerAgrees
  BY Zenon DEF IInv
<1> QED  BY <1>1, InitHolds, StepHolds, PTL DEF Spec
=============================================================================
