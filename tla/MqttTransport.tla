--------------------------- MODULE MqttTransport ---------------------------
(***************************************************************************)
(* port/mqtt/transport_raw.c: the byte stream between MQTT and the raw API *)
(* of lwIP, and what of lwIP and of the broker it meets.                   *)
(*                                                                         *)
(* All of it runs in one task: lwIP calls back while the application pumps *)
(* it.  The broker's stream is numbered modulo Index, byte by byte, and a  *)
(* byte is its number.                                                     *)
(***************************************************************************)
EXTENDS Integers, Sequences, SequencesExt

CONSTANTS RX_RING_SIZE,   \* bytes of the receive ring
          Index,          \* values of a ring index, 2^32 in the code
          Segments,       \* sizes of the segments the broker sends
          MaxWire,        \* bound: segments in flight
          Pcbs,           \* the pool of TCP control blocks
          MaxQueries,     \* DNS_TABLE_SIZE: requests lwIP holds at a time
          NULL

ASSUME TransportAssumption ==
  /\ RX_RING_SIZE \in Nat \ {0} /\ Index \in Nat
  /\ Index % RX_RING_SIZE = 0 /\ Index > RX_RING_SIZE
  /\ Segments \subseteq Nat \ {0} /\ NULL \notin Pcbs

VARIABLES pcb, state, dns_done, dns_ok, rx, rx_head, rx_tail,   \* NetworkContext
          good,      \* the path to the broker and to the DNS server works
          queries,   \* DNS requests that lwIP has not answered yet
          pcbs,      \* control blocks in use
          tcp,       \* the connection of pcb, as the two ends have it
          wire,      \* sizes of the segments sent and not yet accepted
          sent       \* number of the first byte of them

ctx == <<pcb, state, dns_done, dns_ok, rx, rx_head, rx_tail>>
lwip == <<queries, pcbs, tcp, wire, sent>>

ring_used == (rx_head - rx_tail) % Index
ring_free == RX_RING_SIZE - ring_used

mqtt_transport_is_up == state = "UP" /\ pcb # NULL

\* The n bytes at the tail of the ring.
Peek(n) == [i \in 1..n |-> rx[(rx_tail + i - 1) % RX_RING_SIZE]]

-----------------------------------------------------------------------------
\* Callbacks of lwIP.

\* The segment is copied to the ring, byte by byte.
Store(n) ==
  /\ rx' = [i \in DOMAIN rx |->
              LET k == CHOOSE j \in 0..(RX_RING_SIZE - 1) : (rx_head + j) % RX_RING_SIZE = i
              IN  IF k < n THEN (sent + k) % Index ELSE rx[i]]
  /\ rx_head' = (rx_head + n) % Index
  /\ wire' = Tail(wire)
  /\ sent' = (sent + n) % Index
  /\ UNCHANGED <<pcb, state, dns_done, dns_ok, rx_tail, queries, pcbs, tcp>>

\* Mutant: the room in the ring is not looked at.
RecvUnchecked == wire # <<>> /\ Store(Head(wire))

\* A segment for which there is no room is kept by lwIP and offered again.
on_recv ==
  /\ wire # <<>>
  /\ Head(wire) <= ring_free
  /\ Store(Head(wire))

\* on_recv with p = NULL: the broker has closed its end.
on_recv_closed ==
  /\ tcp = "est" /\ wire = <<>> /\ ~good
  /\ tcp' = "dead"
  /\ state' = "CLOSED"
  /\ UNCHANGED <<pcb, dns_done, dns_ok, rx, rx_head, rx_tail, queries, pcbs, wire, sent>>

\* The block is already freed when on_err is called.
on_err ==
  /\ pcb # NULL
  /\ tcp = "dead" \/ ~good
  /\ pcbs' = pcbs \ {pcb}
  /\ pcb' = NULL
  /\ state' = "ERROR"
  /\ tcp' = "none"
  /\ wire' = <<>>
  /\ UNCHANGED <<dns_done, dns_ok, rx, rx_head, rx_tail, queries, sent>>

on_connected ==
  /\ tcp = "syn" /\ good
  /\ tcp' = "est"
  /\ state' = "UP"
  /\ UNCHANGED <<pcb, dns_done, dns_ok, rx, rx_head, rx_tail, queries, pcbs, wire, sent>>

\* One request is answered, which may be one of an earlier attempt.
on_dns ==
  /\ queries > 0
  /\ queries' = queries - 1
  /\ dns_done' = TRUE
  /\ dns_ok' = (dns_ok \/ good)
  /\ UNCHANGED <<pcb, state, rx, rx_head, rx_tail, pcbs, tcp, wire, sent>>

Callback == on_recv \/ on_recv_closed \/ on_err \/ on_connected \/ on_dns

-----------------------------------------------------------------------------
\* The API.  CloseTo(s): mqtt_transport_close, after which the state is s.
CloseTo(s) ==
  /\ pcbs' = pcbs \ {pcb}
  /\ pcb' = NULL
  /\ tcp' = "none"
  /\ wire' = <<>>
  /\ state' = s
  /\ UNCHANGED sent

mqtt_transport_close == CloseTo(IF state = "ERROR" THEN "ERROR" ELSE "IDLE")

\* mqtt_transport_open up to the wait for the name; a request that lwIP
\* cannot take sets TS_ERROR.
OpenResolve(e) ==
  /\ CloseTo(IF e = "ERR_MEM" THEN "ERROR" ELSE "RESOLVING")
  /\ rx_head' = 0 /\ rx_tail' = 0
  /\ dns_done' = (e = "ERR_OK") /\ dns_ok' = (e = "ERR_OK")
  /\ e = "ERR_INPROGRESS" => queries < MaxQueries
  /\ e = "ERR_MEM" => queries = MaxQueries \/ ~good
  /\ queries' = IF e = "ERR_INPROGRESS" THEN queries + 1 ELSE queries
  /\ UNCHANGED rx

\* From there to tcp_connect, which takes a control block and starts.
OpenConnect ==
  /\ dns_ok
  /\ \E p \in Pcbs \ pcbs : pcb' = p /\ pcbs' = pcbs \cup {p}
  /\ state' = "CONNECTING"
  /\ tcp' = "syn"
  /\ sent' = 0
  /\ UNCHANGED <<dns_done, dns_ok, rx, rx_head, rx_tail, queries, wire>>

\* Mutant: the connection that did not come up is left open.
OpenForgets ==
  /\ state' = "ERROR" /\ pcb' = NULL /\ tcp' = "none" /\ wire' = <<>>
  /\ UNCHANGED <<pcbs, sent, dns_done, dns_ok, rx, rx_head, rx_tail, queries>>

\* The returns of -1: whatever was opened is closed.
OpenFails ==
  /\ CloseTo("ERROR")
  /\ UNCHANGED <<dns_done, dns_ok, rx, rx_head, rx_tail, queries>>

\* Whether what MQTT sends goes out, ok. mqtt_transport_send takes what there
\* is room for and is called again for the rest, until all is taken or MQTT
\* gives up: it does not while the path works and the ends agree.
mqtt_transport_send(ok) ==
  /\ ok => mqtt_transport_is_up
  /\ mqtt_transport_is_up /\ good /\ tcp = "est" => ok

\* mqtt_transport_recv takes n bytes from the ring.
mqtt_transport_recv(n) == rx_tail' = (rx_tail + n) % Index

-----------------------------------------------------------------------------
\* What the broker and the path to it do.
BrokerSends ==
  /\ tcp = "est" /\ good
  /\ Len(wire) < MaxWire
  /\ \E n \in Segments : wire' = Append(wire, n)
  /\ UNCHANGED <<ctx, queries, pcbs, tcp, sent>>

\* The broker is gone and the client does not know.
Dies ==
  /\ tcp = "est" /\ ~good
  /\ tcp' = "dead"
  /\ UNCHANGED <<ctx, queries, pcbs, wire, sent>>

TransportInit ==
  /\ pcb = NULL /\ state = "IDLE" /\ dns_done = FALSE /\ dns_ok = FALSE
  /\ rx = [i \in 0..(RX_RING_SIZE - 1) |-> 0] /\ rx_head = 0 /\ rx_tail = 0
  /\ queries = 0 /\ pcbs = {} /\ tcp = "none" /\ wire = <<>> /\ sent = 0
==============================================================================
