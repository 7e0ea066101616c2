--------------------------------- MODULE Tcp ---------------------------------
(***************************************************************************)
(* The TCP client of src/services/net.c as src/apps/browser.c drives it,   *)
(* against a peer on a network that loses, duplicates, delays and reorders *)
(* segments.  The peer answers a request with a stream of StreamLen bytes  *)
(* and closes; it is modelled by the segments it may send or send again,   *)
(* in pieces of at most MaxSegment bytes.  A connection is known by its    *)
(* local port.  A byte is its connection and its place in the stream.      *)
(***************************************************************************)
EXTENDS Integers, Sequences, FiniteSets

CONSTANTS
  MaxConns,       \* bound: connections, one after the other
  ISS, IRS,       \* initial sequence numbers: of this side, of the peer
  StreamLen, MaxSegment,
  BufSize,        \* sizeof(recv_buf)
  Chunk,          \* bytes the browser takes at a time
  PageCap,        \* its content_cap
  WireOut, WireIn \* bounds: segments in flight to the peer, and to us

Port == 1 .. MaxConns

ASSUME TcpAssumption ==
  /\ MaxConns \in Nat /\ ISS \in Nat /\ IRS \in Nat /\ StreamLen \in Nat
  /\ MaxSegment \in Nat \ {0} /\ BufSize \in Nat /\ Chunk \in Nat \ {0} /\ PageCap \in Nat
  /\ BufSize <= PageCap
  /\ WireOut \in Nat \ {0} /\ WireIn \in Nat \ {0}

VARIABLES
  conn,        \* tcp_conn
  app,         \* what browser_fetch is doing
  page,        \* what it has read
  peer,        \* by port: what the peer has seen of us
  toPeer, toUs,   \* segments in flight
  overtaken    \* a FIN was taken before all bytes in front of it were

vars == <<conn, app, page, peer, toPeer, toUs, overtaken>>

Byte(port, i) == <<port, i>>
RequestLen == 1

Segment(port, flags, seq, ack, data) ==
  [port |-> port, flags |-> flags, seq |-> seq, ack |-> ack, data |-> data]

Closed0 ==
  [state |-> "CLOSED", port |-> 0, snd_nxt |-> 0, snd_una |-> 0, rcv_nxt |-> 0, recv |-> <<>>, read |-> 0,
   last |-> [flags |-> {}, seq |-> 0, data |-> <<>>], waiting_ack |-> FALSE]

Init ==
  /\ conn = Closed0
  /\ app = "idle" /\ page = <<>>
  /\ peer = [p \in Port |-> [state |-> "listen", request |-> FALSE, fin |-> FALSE]]
  /\ toPeer = {} /\ toUs = {}
  /\ overtaken = FALSE

-----------------------------------------------------------------------------
\* tcp_send_segment: the segment, and the connection after it.
Sent(c, flags, data) == Segment(c.port, flags, c.snd_nxt, c.rcv_nxt, data)

AfterSend(c, flags, data) ==
  LET n == IF flags \cap {"SYN", "FIN"} # {} THEN 1 ELSE Len(data)
  IN  [c EXCEPT !.last = [flags |-> flags, seq |-> c.snd_nxt, data |-> data],
                !.snd_nxt = @ + n,
                !.waiting_ack = @ \/ n > 0]

Moves(m) == m.flags \cap {"SYN", "FIN"} # {} \/ m.data # <<>>

\* net_send_ipv4: the segments leave, or are dropped for want of an ARP entry, a
\* descriptor or a network that delivers.
\* A bare acknowledgement is not followed further: the peer may send any piece again
\* whether it comes or not.
Transmit(S) ==
  /\ toPeer' \in {toPeer \cup T : T \in SUBSET {m \in S : Moves(m)}}
  /\ Cardinality(toPeer') <= WireOut

\* Mutant: any SYN-ACK will do.
Accepts_AnySynAck(c, m) == {"SYN", "ACK"} \subseteq m.flags

\* The SYN_SENT branch of tcp_handle takes the segment.
Accepts(c, m) == {"SYN", "ACK"} \subseteq m.flags /\ m.port = c.port /\ m.ack = c.snd_nxt

\* Mutant: an acknowledgement of less than everything stops the retransmission.
AllAcked_Any(c, m) == m.ack >= c.snd_una

AllAcked(c, m) == m.ack >= c.snd_nxt

\* The ACK branch for a connection that is up.
AfterAck(c, m) ==
  IF "ACK" \in m.flags
  THEN [c EXCEPT !.snd_una = IF m.ack > @ THEN m.ack ELSE @,
                 !.waiting_ack = @ /\ ~AllAcked(c, m)]
  ELSE c

\* Mutant: data is taken wherever it belongs.
InOrder_Any(c, m) == m.data # <<>>

InOrder(c, m) == m.data # <<>> /\ m.seq = c.rcv_nxt

Min2(a, b) == IF a < b THEN a ELSE b

Fitting(c, m) == SubSeq(m.data, 1, Min2(Len(m.data), BufSize - Len(c.recv)))

\* Mutant: the bytes that did not fit are acknowledged as well.
Advance_All(c, m) == Len(m.data)

Advance(c, m) == Len(Fitting(c, m))

AfterData(c, m) ==
  IF InOrder(c, m)
  THEN AfterSend([c EXCEPT !.recv = @ \o Fitting(c, m), !.rcv_nxt = @ + Advance(c, m)], {"ACK"}, <<>>)
  ELSE c

\* What data_len is when the FIN is looked at.
DataLen(c, m) == IF InOrder(c, m) THEN Advance(c, m) ELSE Len(m.data)

AfterFin(c, d, m) ==
  IF "FIN" \in m.flags
  THEN [AfterSend([d EXCEPT !.rcv_nxt = m.seq + DataLen(c, m) + 1], {"ACK"}, <<>>)
          EXCEPT !.state = IF d.state = "ESTABLISHED" THEN "CLOSE_WAIT" ELSE "CLOSED"]
  ELSE d

\* The acknowledgements the two branches send.
Acks(c, m) ==
  LET a == AfterAck(c, m)
      d == AfterData(a, m)
  IN  (IF InOrder(a, m) THEN {Segment(c.port, {"ACK"}, c.snd_nxt, d.rcv_nxt, <<>>)} ELSE {})
      \cup (IF "FIN" \in m.flags THEN {Segment(c.port, {"ACK"}, c.snd_nxt, m.seq + DataLen(a, m) + 1, <<>>)} ELSE {})

tcp_handle(m) ==
  \/ /\ conn.state = "SYN_SENT" /\ Accepts(conn, m)
     /\ LET c == [conn EXCEPT !.rcv_nxt = m.seq + 1, !.snd_una = m.ack, !.waiting_ack = FALSE,
                              !.state = "ESTABLISHED"]
        IN  conn' = AfterSend(c, {"ACK"}, <<>>) /\ Transmit({Sent(c, {"ACK"}, <<>>)})
     /\ UNCHANGED overtaken
  \/ /\ conn.state \in {"ESTABLISHED", "FIN_WAIT"} /\ m.port = conn.port
     /\ LET a == AfterAck(conn, m)
            d == AfterData(a, m)
        IN  /\ conn' = AfterFin(a, d, m)
            /\ Transmit(Acks(conn, m))
            /\ overtaken' = (overtaken \/ ("FIN" \in m.flags /\ m.seq + Len(m.data) # d.rcv_nxt))
  \/ /\ \/ conn.state \in {"CLOSED", "CLOSE_WAIT"}
        \/ conn.state = "SYN_SENT" /\ ~Accepts(conn, m)
        \/ conn.state \in {"ESTABLISHED", "FIN_WAIT"} /\ m.port # conn.port
     /\ UNCHANGED <<conn, toPeer, overtaken>>

\* e1000_poll hands a segment up; a copy may still be on its way.
Deliver(m) ==
  /\ m \in toUs
  /\ tcp_handle(m)
  /\ toUs' \in {toUs, toUs \ {m}}
  /\ UNCHANGED <<app, page, peer>>

\* Mutant: sent again with the next sequence number and not its own.
AgainFrom_Next(c) == c

AgainFrom(c) == [c EXCEPT !.snd_nxt = c.last.seq]

\* net_poll, one second after the last segment.
Retransmit ==
  /\ conn.state = "SYN_SENT" \/ conn.waiting_ack
  /\ conn.last.flags \cap {"SYN", "FIN"} # {} \/ conn.last.data # <<>>
  /\ LET c == AgainFrom(conn)
         data == IF conn.last.flags \cap {"SYN", "FIN"} # {} THEN <<>> ELSE conn.last.data
     IN  conn' = AfterSend(c, conn.last.flags, data) /\ Transmit({Sent(c, conn.last.flags, data)})
  /\ UNCHANGED <<app, page, peer, toUs, overtaken>>

-----------------------------------------------------------------------------
(* browser_fetch, from net_tcp_connect to the end. *)

net_tcp_connect ==
  LET c == [Closed0 EXCEPT !.state = "SYN_SENT", !.port = conn.port + 1, !.snd_nxt = ISS, !.snd_una = ISS]
  IN  /\ app = "idle" /\ conn.port < MaxConns
      /\ app' = "connecting" /\ page' = <<>>
      /\ conn' = AfterSend(c, {"SYN"}, <<>>) /\ Transmit({Sent(c, {"SYN"}, <<>>)})
      /\ overtaken' = FALSE
      /\ UNCHANGED <<peer, toUs>>

net_tcp_send(data) ==
  /\ conn' = AfterSend(conn, {"ACK", "PSH"}, data)
  /\ Transmit({Sent(conn, {"ACK", "PSH"}, data)})

\* The connection is up: the request goes out.  Without memory for the page the browser
\* leaves it at that.
Request ==
  /\ app = "connecting" /\ conn.state = "ESTABLISHED"
  /\ app' \in {"reading", "idle"}
  /\ net_tcp_send(<<Byte(conn.port, 0)>>)
  /\ UNCHANGED <<page, peer, toUs, overtaken>>

\* A chunk is taken into the page if it leaves room for the end mark.
Takes(n) == Len(page) + n < PageCap

net_tcp_is_closed == conn.state \in {"CLOSED", "CLOSE_WAIT"}

\* The loop of browser_fetch: is the connection still open?
StillOpen ==
  /\ app = "reading" /\ ~net_tcp_is_closed
  /\ app' = "taking"
  /\ UNCHANGED <<conn, page, peer, toPeer, toUs, overtaken>>

\* What net_tcp_recv copies.
Received == SubSeq(conn.recv, conn.read + 1, Min2(conn.read + Chunk, Len(conn.recv)))

\* And its body: net_tcp_recv once.
Take ==
  /\ app = "taking"
  /\ app' = "reading"
  /\ page' = IF Takes(Len(Received)) THEN page \o Received ELSE page
  /\ conn' = [conn EXCEPT !.read = @ + Len(Received)]
  /\ UNCHANGED <<peer, toPeer, toUs, overtaken>>

\* A FIN is sent only if the connection is up.
net_tcp_close ==
  IF conn.state = "ESTABLISHED"
  THEN /\ conn' = [AfterSend(conn, {"FIN", "ACK"}, <<>>) EXCEPT !.state = "FIN_WAIT"]
       /\ Transmit({Sent(conn, {"FIN", "ACK"}, <<>>)})
  ELSE UNCHANGED <<conn, toPeer>>

\* The loop ends, with the connection or after five seconds without a byte.
Finish ==
  /\ (app = "reading" /\ net_tcp_is_closed) \/ (app = "taking" /\ Received = <<>>)
  /\ app' = "idle"
  /\ net_tcp_close
  /\ UNCHANGED <<page, peer, toUs, overtaken>>

\* "Connect timeout": the connection is left in SYN_SENT.
ConnectTimeout ==
  /\ app = "connecting" /\ conn.state # "ESTABLISHED"
  /\ app' = "idle"
  /\ UNCHANGED <<conn, page, peer, toPeer, toUs, overtaken>>

-----------------------------------------------------------------------------
(* The peer and the network. *)

PeerNext(p) == ISS + 1 + (IF peer[p].request THEN RequestLen ELSE 0) + (IF peer[p].fin THEN 1 ELSE 0)

\* The peer takes a segment that is next in order.
PeerReceive(m) ==
  LET p == m.port
      o == peer[p]
  IN  /\ m \in toPeer
      /\ toPeer' = toPeer \ {m}
      /\ peer' = [peer EXCEPT ![p] =
                    CASE "SYN" \in m.flags /\ o.state = "listen" -> [o EXCEPT !.state = "open"]
                      [] m.data # <<>> /\ o.state = "open" /\ m.seq = ISS + 1 -> [o EXCEPT !.request = TRUE]
                      [] "FIN" \in m.flags /\ o.state = "open" /\ m.seq = PeerNext(p) -> [o EXCEPT !.fin = TRUE]
                      [] OTHER -> o]
      /\ UNCHANGED <<conn, app, page, toUs, overtaken>>

\* Bytes i+1 .. j of the stream, the FIN with the last of them or behind it.
StreamSegment(p, i, j, fin) ==
  Segment(p, IF fin THEN {"ACK", "FIN"} ELSE {"ACK"}, IRS + 1 + i, PeerNext(p),
          [k \in 1 .. j - i |-> Byte(p, i + k)])

\* The pieces the peer may send, for the first time or again: from, to, and whether the
\* FIN comes with them.  Without the request it only acknowledges.
Pieces(p) ==
  {t \in (0 .. StreamLen) \X (0 .. StreamLen) \X BOOLEAN :
     /\ t[1] <= t[2] /\ t[2] - t[1] <= MaxSegment
     /\ IF t[3] THEN t[2] = StreamLen ELSE t[1] = t[2] => t[1] = 0
     /\ ~peer[p].request => t = <<0, 0, FALSE>>}

PeerSegments(p) ==
  IF peer[p].state = "listen" THEN {}
  ELSE {Segment(p, {"SYN", "ACK"}, IRS, ISS + 1, <<>>)}
       \cup {StreamSegment(p, t[1], t[2], t[3]) : t \in Pieces(p)}

PeerSend(p) ==
  /\ Cardinality(toUs) < WireIn
  /\ \E m \in PeerSegments(p) \ toUs : toUs' = toUs \cup {m}
  /\ UNCHANGED <<conn, app, page, peer, toPeer, overtaken>>

Lose ==
  /\ \/ \E m \in toPeer : toPeer' = toPeer \ {m} /\ UNCHANGED toUs
     \/ \E m \in toUs : toUs' = toUs \ {m} /\ UNCHANGED toPeer
  /\ UNCHANGED <<conn, app, page, peer, overtaken>>

Browser == net_tcp_connect \/ Request \/ StillOpen \/ Take \/ Finish \/ ConnectTimeout

Next ==
  \/ Browser
  \/ \E m \in toUs : Deliver(m)
  \/ Retransmit
  \/ \E m \in toPeer : PeerReceive(m)
  \/ \E p \in Port : PeerSend(p)
  \/ Lose

Spec == Init /\ [][Next]_vars

\* The retransmission timer of net_poll runs on the clock; the network does not lose
\* every copy, nor hold a segment for ever.
Reaches == Retransmit /\ \E m \in toPeer' : m.port = conn.port /\ m.seq = conn.last.seq /\ m.data = conn.last.data

Arrives == \E m \in toPeer : m.data # <<>> /\ m.port = conn.port /\ PeerReceive(m)
Reads == StillOpen \/ Take
Drops == Lose /\ toPeer' # toPeer

FairSpec == Spec /\ WF_vars(Reads) /\ SF_vars(Reaches) /\ SF_vars(Arrives) /\ WF_vars(Drops)

-----------------------------------------------------------------------------
(* Properties. *)

Fetching == app \in {"reading", "taking"}

\* What tcp_handle has put into the buffer is the beginning of what the peer sends on
\* this connection, byte for byte, and the page is the beginning of that: however the
\* network reorders and repeats segments, of this connection and of earlier ones,
\* nothing is doubled, left out or mixed in.  A stream that the peer has closed is
\* complete in the buffer, unless the FIN overtook bytes in front of it (tcp_handle takes
\* a FIN wherever it belongs) or the buffer could not take them.
ReceivedIsPrefix ==
  /\ conn.recv = [i \in 1 .. Len(conn.recv) |-> Byte(conn.port, i)]
  /\ Len(conn.recv) <= StreamLen
  /\ Len(page) <= Len(conn.recv) /\ page = SubSeq(conn.recv, 1, Len(page))
  /\ (conn.state = "CLOSE_WAIT" /\ ~overtaken) => Len(conn.recv) = StreamLen

\* This side never believes more than is true of the peer: a connection is up only if the
\* peer has opened it, so no SYN-ACK left over from an earlier attempt opens the next, and
\* net_poll stops sending the request again only once the peer has it.
PeerAgrees ==
  /\ conn.state \in {"ESTABLISHED", "FIN_WAIT", "CLOSE_WAIT"} => peer[conn.port].state = "open"
  /\ (Fetching /\ conn.state = "ESTABLISHED" /\ ~conn.waiting_ack) => peer[conn.port].request

\* A request reaches the peer, although any copy of it may be lost, unless the browser
\* gives up.
FetchSettled == ~Fetching \/ peer[conn.port].request
RequestArrives == Fetching ~> FetchSettled
=============================================================================
