-------------------------------- MODULE Mqtt --------------------------------
(***************************************************************************)
(* port/mqtt/flint_mqtt.c: connection management, commands and periodic    *)
(* publishing of the MQTT device, over MqttTransport.  The coreMQTT        *)
(* library is modelled by how it is used: MQTT_Connect reads the CONNACK,  *)
(* MQTT_ProcessLoop reads what there is and handles one packet.            *)
(*                                                                         *)
(* The code compares times only by their difference, so that what is kept  *)
(* is the difference to now: ms - last_x (since_x) and next_attempt_ms -   *)
(* ms (due), modulo Clock.  One tick is the unit of the periods.           *)
(***************************************************************************)
EXTENDS MqttTransport, FiniteSets

CONSTANTS Clock,               \* values of the millisecond counter, 2^32
          CONNECT_TIMEOUT, PTP_PERIOD, STATS_PERIOD, FIRST_STATS,
          BACKOFF_MIN, BACKOFF_MAX,
          PacketBytes,         \* size of a packet of the broker
          NET_BUF_SIZE,        \* bytes of coreMQTT's buffer
          MaxLag               \* ticks between two calls of the service

ASSUME MqttAssumption ==
  /\ {Clock, PTP_PERIOD, STATS_PERIOD, FIRST_STATS, BACKOFF_MIN, BACKOFF_MAX,
      PacketBytes, NET_BUF_SIZE} \subseteq Nat \ {0}
  /\ MaxLag \in Nat /\ BACKOFF_MIN <= BACKOFF_MAX
  /\ BACKOFF_MAX + MaxLag < Clock \div 2
  /\ PTP_PERIOD + MaxLag < Clock /\ STATS_PERIOD + MaxLag < Clock
  /\ FIRST_STATS <= STATS_PERIOD /\ PacketBytes <= NET_BUF_SIZE

VARIABLES pc,              \* where flint_mqtt_service waits, or "idle"
          waited,          \* ticks waited there
          lag,             \* ticks since the service was called
          connected, due, backoff, since_ptp, since_stats,
          netbuf,          \* bytes of packets not yet complete
          reply            \* is one pending, to which command, and which
                           \* commands were handled and not answered

mqtt == <<connected, due, backoff, since_ptp, since_stats, netbuf, reply>>
vars == <<ctx, good, lwip, pc, waited, lag, mqtt>>

\* Mutant: the attempt is made at one millisecond only.
AttemptNow == due = 0

\* (int32_t)(t - next_attempt_ms) >= 0
AttemptDue == (0 - due) % Clock < Clock \div 2

\* Mutant: the pause is not capped.
NextUncapped(b) == b * 2

NextBackoff(b) == IF b * 2 > BACKOFF_MAX THEN BACKOFF_MAX ELSE b * 2

\* drop, but for the closing of the transport.
Dropped ==
  /\ connected' = FALSE
  /\ due' = backoff
  /\ backoff' = NextBackoff(backoff)
  /\ since_ptp' = 0 /\ since_stats' = 0   \* not read until try_connect sets them
  /\ pc' = "idle" /\ waited' = 0

drop == mqtt_transport_close /\ Dropped

Unread == UNCHANGED <<dns_done, dns_ok, rx, rx_head, rx_tail, queries>>

-----------------------------------------------------------------------------
\* try_connect, up to the wait for the name.
try_connect ==
  /\ pc = "idle" /\ ~connected /\ AttemptDue
  /\ lag' = 0
  /\ \E e \in {"ERR_OK", "ERR_INPROGRESS", "ERR_MEM"} :
       /\ OpenResolve(e)
       /\ IF e = "ERR_MEM" THEN Dropped
          ELSE /\ pc' = "dns" /\ waited' = 0
               /\ UNCHANGED <<connected, due, backoff, since_ptp, since_stats>>
  /\ UNCHANGED <<good, netbuf, reply>>

\* The call of the service returns at once: not due yet.
NotDue ==
  /\ pc = "idle" /\ ~connected /\ ~AttemptDue
  /\ lag' = 0
  /\ UNCHANGED <<ctx, good, lwip, pc, waited, mqtt>>

\* The name is known: connect.
Connect ==
  /\ pc = "dns" /\ dns_done
  /\ \/ /\ OpenConnect
        /\ pc' = "tcp" /\ waited' = 0
        /\ UNCHANGED <<connected, due, backoff, since_ptp, since_stats>>
     \/ /\ ~dns_ok \/ pcbs = Pcbs \/ ~good   \* not found, no block, no route
        /\ OpenFails
        /\ Dropped
  /\ UNCHANGED <<good, lag, netbuf, reply>>

\* wait_for gives up.
OpenTimeout ==
  /\ \/ pc = "dns" /\ ~dns_done
     \/ pc = "tcp" /\ state = "CONNECTING"
  /\ waited >= CONNECT_TIMEOUT
  /\ OpenFails
  /\ Dropped
  /\ UNCHANGED <<good, lag, netbuf, reply>>

\* The connection is up, and MQTT_Connect sends CONNECT; or it failed.
Settled ==
  /\ pc = "tcp" /\ state # "CONNECTING"
  /\ IF state = "UP"
     THEN /\ pc' = "connack" /\ waited' = 0
          /\ netbuf' = <<>>
          /\ UNCHANGED <<ctx, lwip, connected, due, backoff, since_ptp, since_stats>>
     ELSE OpenFails /\ Dropped /\ UNCHANGED netbuf
  /\ UNCHANGED <<good, lag, reply>>

\* The CONNACK is read, and no byte more.
Connected ==
  /\ pc = "connack" /\ ring_used >= PacketBytes
  /\ mqtt_transport_recv(PacketBytes)
  /\ connected' = TRUE
  /\ backoff' = BACKOFF_MIN
  /\ due' = 0                                 \* not read while connected
  /\ since_ptp' = 0 /\ since_stats' = STATS_PERIOD - FIRST_STATS
  /\ pc' = "idle" /\ waited' = 0
  /\ UNCHANGED <<pcb, state, dns_done, dns_ok, rx, rx_head, good, lwip, lag, netbuf,
                 reply>>

\* The CONNECT failed, got no answer, or was rejected.
ConnectFails ==
  /\ pc = "connack"
  /\ \/ ring_used < PacketBytes /\ ~mqtt_transport_is_up
     \/ waited >= CONNECT_TIMEOUT
     \/ ring_used >= PacketBytes /\ ~good
  /\ drop
  /\ Unread
  /\ UNCHANGED <<good, lag, netbuf, reply>>

-----------------------------------------------------------------------------
\* Mutant: what is still missing after one period is made up for.
CadenceBursts(since, period) == IF since >= period THEN since - period ELSE since

\* ms - last_ptp_ms after the service: no burst after a long pause.
Cadence(since, period) ==
  IF since < period THEN since
  ELSE IF since - period >= period THEN 0 ELSE since - period

\* on_event and handle_command: the reply replaces one that still waits.
handle_command(r) ==
  LET id == (r.to + 1) % 2
  IN  [pending |-> TRUE, to |-> id, unanswered |-> r.unanswered \cup {id}]

\* Mutant: the reply stays pending until it went out, and after.
PublishKeeps(r, ok) ==
  [r EXCEPT !.unanswered = IF r.pending /\ ok THEN @ \ {r.to} ELSE @]

\* A pending reply is published once, whether or not that succeeds.
PublishReply(r, ok) ==
  [r EXCEPT !.pending = FALSE,
            !.unanswered = IF r.pending /\ ok THEN @ \ {r.to} ELSE @]

\* A message is published, or is not: ok.
publish(ok) == (ok => connected) /\ (connected => mqtt_transport_send(ok))

\* The bytes MQTT_ProcessLoop has after it read what there is.
Incoming ==
  LET room == NET_BUF_SIZE - Len(netbuf)
      n    == IF ring_used < room THEN ring_used ELSE room
  IN  netbuf \o Peek(n)

\* MQTT_ProcessLoop fails: nothing to read on a connection that is not up, or
\* the keep-alive ran out.
LoopFails ==
  /\ pc = "idle" /\ connected
  /\ (ring_used = 0 /\ ~mqtt_transport_is_up) \/ tcp = "dead"
  /\ drop
  /\ Unread
  /\ lag' = 0
  /\ UNCHANGED <<good, netbuf, reply>>

\* It succeeds: one command at most, then the transport is looked at, then
\* what is to be published.
Loop ==
  /\ pc = "idle" /\ connected
  /\ ring_used > 0 \/ mqtt_transport_is_up
  /\ LET bytes == Incoming
         whole == Len(bytes) >= PacketBytes
     IN  /\ mqtt_transport_recv(Len(bytes) - Len(netbuf))
         /\ netbuf' = IF whole THEN SubSeq(bytes, PacketBytes + 1, Len(bytes)) ELSE bytes
         /\ LET r == IF whole THEN handle_command(reply) ELSE reply
            IN  IF mqtt_transport_is_up
                THEN /\ \E ok \in BOOLEAN : publish(ok) /\ reply' = PublishReply(r, ok)
                     /\ since_ptp' = Cadence(since_ptp, PTP_PERIOD)
                     /\ since_stats' = IF since_stats >= STATS_PERIOD THEN 0 ELSE since_stats
                     /\ UNCHANGED <<pcb, state, lwip, connected, due, backoff, pc, waited>>
                ELSE /\ reply' = r
                     /\ drop
                     /\ UNCHANGED queries
  /\ lag' = 0
  /\ UNCHANGED <<dns_done, dns_ok, rx, rx_head, good>>

-----------------------------------------------------------------------------
\* lwIP calls back where it is pumped: from the main loop and while waiting.
Pumped ==
  /\ \/ pc \in {"idle", "connack"}
     \/ pc = "dns" /\ ~dns_done
     \/ pc = "tcp" /\ state = "CONNECTING"
  /\ Callback
  /\ UNCHANGED <<good, pc, waited, lag, mqtt>>

Broker ==
  /\ pc = "connack" \/ connected
  /\ BrokerSends
  /\ UNCHANGED <<good, pc, waited, lag, mqtt>>

BrokerDies == Dies /\ UNCHANGED <<good, pc, waited, lag, mqtt>>

Break ==
  /\ good
  /\ good' = FALSE
  /\ UNCHANGED <<ctx, lwip, pc, waited, lag, mqtt>>

Mend ==
  /\ ~good
  /\ good' = TRUE
  /\ UNCHANGED <<ctx, lwip, pc, waited, lag, mqtt>>

\* A path that works brings the answer before the wait times out.
Prompt == good /\ (pc \in {"dns", "tcp"} \/ (pc = "connack" /\ tcp = "est"))

Tick ==
  /\ IF pc = "idle" THEN lag < MaxLag /\ lag' = lag + 1 /\ UNCHANGED waited
     ELSE /\ waited < IF Prompt THEN CONNECT_TIMEOUT - 1 ELSE CONNECT_TIMEOUT
          /\ waited' = waited + 1 /\ UNCHANGED lag
  /\ due' = IF connected \/ pc # "idle" THEN due ELSE (due - 1) % Clock
  /\ since_ptp' = IF connected THEN (since_ptp + 1) % Clock ELSE since_ptp
  /\ since_stats' = IF connected THEN (since_stats + 1) % Clock ELSE since_stats
  /\ UNCHANGED <<ctx, good, lwip, pc, connected, backoff, netbuf, reply>>

-----------------------------------------------------------------------------
\* flint_mqtt_init
Init ==
  /\ TransportInit
  /\ good = TRUE
  /\ pc = "idle" /\ waited = 0 /\ lag = 0
  /\ connected = FALSE /\ due = 0 /\ backoff = BACKOFF_MIN
  /\ since_ptp = 0 /\ since_stats = 0
  /\ netbuf = <<>> /\ reply = [pending |-> FALSE, to |-> 0, unanswered |-> {}]

\* flint_mqtt_service, or the part of it between two waits.
Service ==
  \/ try_connect \/ NotDue \/ Connect \/ OpenTimeout \/ Settled
  \/ Connected \/ ConnectFails \/ LoopFails \/ Loop

Next == Service \/ Pumped \/ Broker \/ BrokerDies \/ Break \/ Mend \/ Tick

\* The main loop calls the service and pumps lwIP over and over; time goes on,
\* and a broker that can be reached answers.
Fairness == WF_vars(Service) /\ WF_vars(Pumped) /\ WF_vars(Broker) /\ WF_vars(Tick)

Spec == Init /\ [][Next]_vars /\ Fairness
-----------------------------------------------------------------------------
\* What MQTT has read, then what is in the ring, are the bytes of the broker's
\* stream, in order, none lost or repeated, up to the last one acknowledged
\* with tcp_recved; and the ring never holds more than it has room for, also
\* when its indices wrap.
StreamInOrder ==
  LET bytes == netbuf \o Peek(ring_used)
  IN  connected \/ pc = "connack" =>
        /\ ring_used <= RX_RING_SIZE
        /\ \A i \in DOMAIN bytes : bytes[i] = (sent - Len(bytes) + i - 1) % Index

\* Each control block in use is the one the transport holds: whatever way an
\* attempt or a session ends, none is lost from the pool.
NoPcbLost == pcbs = {pcb} \ {NULL}

\* A device that is not connected tries again within BACKOFF_MAX, also when
\* the millisecond counter wraps while it waits.
RetrySoon == ~connected => AttemptDue \/ due <= BACKOFF_MAX

\* While connected the periods are kept: no more than one is ever missed, and
\* a service called late does not build up arrears.
CadenceKept ==
  connected => /\ since_ptp < PTP_PERIOD + MaxLag
               /\ since_stats < STATS_PERIOD + MaxLag

\* No command is answered twice: a reply that waits, over a reconnect even, is
\* to a command that has had none.
AnsweredOnce == reply.pending => reply.to \in reply.unanswered

\* Once the path works for good, the device connects and stays connected,
\* whatever was going on when it broke: half-open connections, late answers of
\* the DNS server, a reset in the middle of an attempt.
Reconnects == <>[]good => <>[]connected
==============================================================================
