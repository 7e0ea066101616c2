----------------------------- MODULE NetServices -----------------------------
(***************************************************************************)
(* ARP, DHCP and DNS of src/services/net.c.  What is once on the wire may  *)
(* be handled at any later time and any number of times, and what is sent  *)
(* may be lost: the two sets of messages only grow.  The DHCP servers, the *)
(* name server and the hosts of the local network are external.            *)
(***************************************************************************)
EXTENDS Integers, Sequences, FiniteSets

CONSTANTS
  Servers,            \* DHCP servers
  Lease,              \* by server: [ip, gateway, dns], the gateway 0 for none
  OtherLease,         \* what a server grants another client
  Mac,                \* by address of the local network: the hardware addresses it may have
  Zone,               \* by host name: the address the name server gives, 0 for none
  ARP_CACHE_SIZE,
  MaxQueries          \* bound: names resolved; fewer than the 2^16 values of dns_txid

Hosts == DOMAIN Zone
OnLink == DOMAIN Mac
None == [ip |-> 0, gateway |-> 0, dns |-> 0]
PublicDns == 8        \* 8.8.8.8

\* No lease is for the address 0, which stands for none in net.c.
ASSUME NetAssumption ==
  /\ Lease \in [Servers -> [ip : Nat \ {0}, gateway : Nat, dns : Nat]]
  /\ Zone \in [Hosts -> Nat]
  /\ ARP_CACHE_SIZE \in Nat \ {0} /\ MaxQueries \in Nat

VARIABLES
  card,               \* e1000_init found a card
  dhcp_state,
  offer,              \* dhcp_offer_ip and dhcp_server
  local,              \* local_ip, gateway (with netmask) and dns_server
  arp_cache,          \* the valid slots, which are the first ones
  dns,                \* [pending, txid, result, caller]
  answer,             \* what net_dns_resolve last returned, with the name asked for
  queries,            \* names asked for, by transaction
  toNet, toUs,        \* messages on the wire
  lastReply           \* ghost: the last ARP reply handled, by address

vars == <<card, dhcp_state, offer, local, arp_cache, dns, answer, queries, toNet, toUs, lastReply>>

Msg(kind, who, body) == [kind |-> kind, who |-> who, body |-> body]

\* What was sent reaches the wire or is lost.
Transmit(M) == card' = card /\ toNet' \in {toNet, IF card THEN toNet \cup M ELSE toNet}

-----------------------------------------------------------------------------
(* DHCP. *)
Discover == Msg("discover", "us", 0)

dhcp_send_discover == dhcp_state' = "DISCOVER_SENT" /\ Transmit({Discover})

\* net_init: without a card it stops before the first message.
Init ==
  /\ card \in BOOLEAN
  /\ dhcp_state = IF card THEN "DISCOVER_SENT" ELSE "INIT"
  /\ toNet \in IF card THEN {{}, {Discover}} ELSE {{}}
  /\ offer = [ip |-> 0, server |-> "none"] /\ local = None /\ arp_cache = <<>>
  /\ dns = [pending |-> FALSE, txid |-> 0, result |-> 0, caller |-> "idle"]
  /\ answer = [host |-> "none", ip |-> 0]
  /\ queries = <<>> /\ toUs = {}
  /\ lastReply = [a \in OnLink |-> "none"]

dhcp_send_request(s, ip) == dhcp_state' = "REQUEST_SENT" /\ Transmit({Msg("request", s, ip)})

\* Mutant: a message of another client's exchange is taken too.
OurXid_Any(m) == TRUE

OurXid(m) == m.kind \in {"offer", "ack"}

\* The first branch of dhcp_handle.
HandleOffer(m) ==
  /\ m.kind = "offer" /\ OurXid(m) /\ dhcp_state = "DISCOVER_SENT"
  /\ offer' = [ip |-> m.body.ip, server |-> m.who]
  /\ dhcp_send_request(m.who, m.body.ip)
  /\ UNCHANGED <<local, arp_cache, dns, answer, queries, toUs, lastReply>>

\* The second branch: address, mask, router and name server come from this message.
HandleAck(m) ==
  /\ m.kind \in {"ack", "other ack"} /\ OurXid(m) /\ dhcp_state = "REQUEST_SENT"
  /\ card' = card
  /\ local' = m.body
  /\ dhcp_state' = "BOUND"
  /\ UNCHANGED <<offer, arp_cache, dns, answer, queries, toNet, toUs, lastReply>>

\* Mutant: only a discover is sent again.
Unanswered_Discover == dhcp_state = "DISCOVER_SENT"

Unanswered == dhcp_state # "BOUND"

\* The DHCP part of net_poll, two seconds after the last message.  Without a card the
\* frame goes nowhere, but the state moves on.
net_poll_dhcp ==
  /\ Unanswered /\ dhcp_send_discover
  /\ UNCHANGED <<offer, local, arp_cache, dns, answer, queries, toUs, lastReply>>

ServerOffers(s) ==
  /\ Discover \in toNet
  /\ toUs' = toUs \cup {Msg("offer", s, Lease[s])}
  /\ UNCHANGED <<card, dhcp_state, offer, local, arp_cache, dns, answer, queries, toNet, lastReply>>

ServerAcks(s) ==
  /\ Msg("request", s, Lease[s].ip) \in toNet
  /\ toUs' = toUs \cup {Msg("ack", s, Lease[s])}
  /\ UNCHANGED <<card, dhcp_state, offer, local, arp_cache, dns, answer, queries, toNet, lastReply>>

\* Another client's exchange is broadcast as well and may be seen at any time.
Overheard == Msg("other ack", "other", OtherLease)

net_is_up == dhcp_state = "BOUND" /\ local.ip # 0

-----------------------------------------------------------------------------
(* ARP. *)
SlotOf(ip) == {i \in DOMAIN arp_cache : arp_cache[i].ip = ip}

\* arp_cache_update: the slot of this address, else the first free one, else slot 0.
Updated(ip, mac) ==
  LET e == [ip |-> ip, mac |-> mac]
  IN  IF SlotOf(ip) # {} THEN [arp_cache EXCEPT ![CHOOSE i \in SlotOf(ip) : \A j \in SlotOf(ip) : i <= j] = e]
      ELSE IF Len(arp_cache) < ARP_CACHE_SIZE THEN Append(arp_cache, e)
      ELSE [arp_cache EXCEPT ![1] = e]

\* arp_handle of a reply, asked for or not.
HandleArpReply(ip, mac) ==
  /\ arp_cache' = Updated(ip, mac)
  /\ lastReply' = [lastReply EXCEPT ![ip] = mac]
  /\ UNCHANGED <<card, dhcp_state, offer, local, dns, answer, queries, toNet, toUs>>

\* Mutant: any request is answered.
AsksForUs_Any(ip) == TRUE

AsksForUs(ip) == local.ip # 0 /\ ip = local.ip

\* arp_handle of a request for ip.
HandleArpRequest(ip) ==
  /\ AsksForUs(ip) /\ Transmit({Msg("claim", "us", ip)})
  /\ UNCHANGED <<dhcp_state, offer, local, arp_cache, dns, answer, queries, toUs, lastReply>>

\* The target net_send_ipv4 looks up: the gateway for what is not on this network.
Target(dest) == IF local.gateway # 0 /\ dest \notin OnLink THEN local.gateway ELSE dest

\* net_send_ipv4 once there is an address: on a miss the packet is dropped, and an ARP
\* request sent, to which a reply may or may not come.
Send(dest, m) == Transmit({n \in {m} : SlotOf(Target(dest)) # {}})

-----------------------------------------------------------------------------
(* DNS. *)
Name(h) == Msg("query", h, Len(queries) + 1)

\* net_dns_resolve up to its loop; dns_txid is taken from the clock, so it is new.
net_dns_resolve(h) ==
  LET server == IF local.dns = 0 THEN PublicDns ELSE local.dns
  IN  /\ net_is_up /\ dns.caller = "idle" /\ Len(queries) < MaxQueries
      /\ local' = [local EXCEPT !.dns = server]
      /\ queries' = Append(queries, h)
      /\ dns' = [pending |-> TRUE, txid |-> Len(queries) + 1, result |-> 0, caller |-> "waiting"]
      /\ Send(server, Name(h))
      /\ UNCHANGED <<dhcp_state, offer, arp_cache, answer, toUs, lastReply>>

\* The name server answers with an address, with no record, or with records that hold none.
NameServerAnswers(m) ==
  /\ m.kind = "query"
  /\ \E ip \in {Zone[m.who], -1} : toUs' = toUs \cup {Msg("answer", m.body, ip)}
  /\ UNCHANGED <<card, dhcp_state, offer, local, arp_cache, dns, answer, queries, toNet, lastReply>>

\* Mutant: the transaction number is not compared.
Matches_Any(m) == TRUE

Matches(m) == m.who = dns.txid

\* dns_handle: the first address ends the wait, and so does an answer without records.
HandleAnswer(m) ==
  /\ m.kind = "answer" /\ dns.pending /\ Matches(m) /\ m.body # -1
  /\ dns' = [dns EXCEPT !.pending = FALSE, !.result = m.body]
  /\ UNCHANGED <<card, dhcp_state, offer, local, arp_cache, answer, queries, toNet, toUs, lastReply>>

\* The loop finds an address.
Resolved ==
  /\ dns.caller = "waiting" /\ ~dns.pending /\ dns.result # 0
  /\ dns' = [dns EXCEPT !.caller = "idle"]
  /\ answer' = [host |-> queries[Len(queries)], ip |-> dns.result]
  /\ UNCHANGED <<card, dhcp_state, offer, local, arp_cache, queries, toNet, toUs, lastReply>>

\* Three seconds have passed.
GivesUp ==
  /\ dns.caller = "waiting"
  /\ dns' = [dns EXCEPT !.caller = "idle", !.pending = FALSE]
  /\ answer' = [host |-> queries[Len(queries)], ip |-> 0]
  /\ UNCHANGED <<card, dhcp_state, offer, local, arp_cache, queries, toNet, toUs, lastReply>>

-----------------------------------------------------------------------------
\* net_rx_frame and ipv4_handle: each frame goes to the handler of its type and port.
net_rx_frame ==
  \/ \E m \in toUs \cup {Overheard} : HandleOffer(m) \/ HandleAck(m) \/ HandleAnswer(m)
  \/ \E ip \in OnLink : \E mac \in Mac[ip] : HandleArpReply(ip, mac)
  \/ \E s \in Servers : HandleArpRequest(Lease[s].ip)

Environment ==
  \/ \E s \in Servers : ServerOffers(s) \/ ServerAcks(s)
  \/ \E m \in toNet : NameServerAnswers(m)

Next ==
  \/ net_rx_frame \/ net_poll_dhcp \/ Resolved \/ GivesUp
  \/ \E h \in Hosts : net_dns_resolve(h)
  \/ Environment

\* net_poll runs again and again, a server that is asked answers, and what is sent again
\* and again, and stays deliverable, is delivered once.
Asks == net_poll_dhcp /\ Discover \in toNet'
OfferTaken(s) == HandleOffer(Msg("offer", s, Lease[s])) /\ Msg("request", s, Lease[s].ip) \in toNet'
AckTaken(s) == Msg("ack", s, Lease[s]) \in toUs /\ HandleAck(Msg("ack", s, Lease[s]))

Fairness ==
  /\ SF_vars(Asks)
  /\ \A s \in Servers : /\ WF_vars(ServerOffers(s)) /\ WF_vars(ServerAcks(s))
                         /\ SF_vars(OfferTaken(s)) /\ SF_vars(AckTaken(s))

Spec == Init /\ [][Next]_vars /\ Fairness

-----------------------------------------------------------------------------
(* Properties. *)

\* The address in use, with its gateway, is one that a server has acknowledged to this
\* machine, whichever offers and acknowledgements are late or doubled, and the machine
\* claims no other one in an ARP reply.
LeaseGranted ==
  /\ local.ip # 0 =>
       \E s \in Servers :
         /\ Msg("ack", s, Lease[s]) \in toUs
         /\ local.ip = Lease[s].ip /\ local.gateway = Lease[s].gateway
         /\ local.dns \in {Lease[s].dns, PublicDns}
  /\ \A m \in toNet : m.kind = "claim" => m.body = local.ip

\* A name is resolved to its own address, never to a late answer for another name; and
\* the ARP cache has one entry for an address, the one of the last reply handled.
AnswersBelong ==
  /\ answer.ip # 0 => answer.ip = Zone[answer.host]
  /\ \A i, j \in DOMAIN arp_cache : arp_cache[i].ip = arp_cache[j].ip => i = j
  /\ \A i \in DOMAIN arp_cache : arp_cache[i].mac = lastReply[arp_cache[i].ip]

\* With lost discovers, requests and answers, the machine still gets an address.
Bound == dhcp_state = "BOUND"
AddressObtained == card ~> Bound
=============================================================================
