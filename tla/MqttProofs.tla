----------------------------- MODULE MqttProofs -----------------------------
(***************************************************************************)
(* The safety properties of the MQTT device and of its transport, for      *)
(* every size of the ring, every period and every pause: NoPcbLost,        *)
(* RetrySoon, CadenceKept, AnsweredOnce and StreamInOrder.  Each has an    *)
(* inductive invariant of its own.                                         *)
(***************************************************************************)
EXTENDS Mqtt, Arithmetic, SequenceTheorems

-----------------------------------------------------------------------------
(* The times.                                                              *)

TimesTypeOK ==
  /\ pc \in {"idle", "dns", "tcp", "connack"} /\ connected \in BOOLEAN
  /\ lag \in 0..MaxLag /\ due \in 0..(Clock - 1)
  /\ backoff \in BACKOFF_MIN..BACKOFF_MAX
  /\ since_ptp \in Nat /\ since_stats \in Nat

\* An attempt that is due is not put off by more than the service is late, so
\* that the difference of the times does not change its sign.
RetryInv ==
  /\ pc # "idle" => AttemptDue
  /\ pc = "idle" /\ ~connected => due <= BACKOFF_MAX \/ (0 - due) % Clock <= lag

\* A period is exceeded by no more than the service is late.
CadenceInv ==
  connected => since_ptp < PTP_PERIOD + lag /\ since_stats < STATS_PERIOD + lag

TimesInv ==
  /\ TimesTypeOK /\ RetryInv /\ CadenceInv
  /\ connected => pc = "idle"
  /\ pc # "idle" => lag = 0

\* What the assumptions say of the times.
LEMMA Times ==
  /\ Clock \in Nat \ {0} /\ Clock \div 2 \in Nat
  /\ BACKOFF_MIN \in Nat \ {0} /\ BACKOFF_MAX \in Nat /\ BACKOFF_MIN <= BACKOFF_MAX
  /\ MaxLag \in Nat /\ BACKOFF_MAX + MaxLag < Clock \div 2 /\ 2 * (Clock \div 2) <= Clock
  /\ PTP_PERIOD \in Nat \ {0} /\ STATS_PERIOD \in Nat \ {0}
  /\ FIRST_STATS \in Nat \ {0} /\ FIRST_STATS <= STATS_PERIOD
  /\ PTP_PERIOD + MaxLag < Clock /\ STATS_PERIOD + MaxLag < Clock
<1>1. /\ Clock \in Nat \ {0} /\ BACKOFF_MIN \in Nat \ {0} /\ BACKOFF_MAX \in Nat
      /\ PTP_PERIOD \in Nat \ {0} /\ STATS_PERIOD \in Nat \ {0}
      /\ FIRST_STATS \in Nat \ {0}
  BY MqttAssumption
<1>2. Clock \div 2 \in Nat /\ 2 * (Clock \div 2) <= Clock
  BY <1>1, Z3
<1> QED BY <1>1, <1>2, MqttAssumption

\* (uint32_t)(t - next_attempt_ms)
LEMMA Overdue ==
  ASSUME NEW d \in 0..(Clock - 1)
  PROVE  (0 - d) % Clock = IF d = 0 THEN 0 ELSE Clock - d
<1>0. Clock \in Nat \ {0}
  BY Times
<1>1. CASE d = 0
  <2>1. 0 \in 0..(Clock - 1) /\ 0 - d = 0
    BY <1>0, <1>1
  <2> QED BY <1>0, <1>1, <2>1, SmallMod
<1>2. CASE d # 0
  <2> DEFINE r == Clock - d
  <2>1. r \in 0..(Clock - 1) /\ 0 - d = Clock * (-1) + r
    BY <1>0, <1>2
  <2> HIDE DEF r
  <2>2. (Clock * (-1) + r) % Clock = r
    BY <1>0, <2>1, DivModUnique
  <2> QED BY <1>2, <2>1, <2>2 DEF r
<1> QED BY <1>1, <1>2

\* One tick of next_attempt_ms - t.
LEMMA DueTicks ==
  ASSUME NEW d \in 0..(Clock - 1)
  PROVE  (d - 1) % Clock = IF d = 0 THEN Clock - 1 ELSE d - 1
<1>0. Clock \in Nat \ {0}
  BY Times
<1>1. CASE d = 0
  <2> DEFINE r == Clock - 1
  <2>1. r \in 0..(Clock - 1) /\ d - 1 = Clock * (-1) + r
    BY <1>0, <1>1
  <2> HIDE DEF r
  <2>2. (Clock * (-1) + r) % Clock = r
    BY <1>0, <2>1, DivModUnique
  <2> QED BY <1>1, <2>1, <2>2 DEF r
<1>2. CASE d # 0
  <2>1. d - 1 \in 0..(Clock - 1)
    BY <1>0, <1>2
  <2> QED BY <1>0, <1>2, <2>1, SmallMod
<1> QED BY <1>1, <1>2

\* drop leaves a pause that is not over BACKOFF_MAX.
LEMMA DroppedTimes ==
  ASSUME TimesInv, Dropped, lag' \in {0, lag}
  PROVE  TimesInv'
<1>0. backoff \in BACKOFF_MIN..BACKOFF_MAX /\ backoff \in 0..(Clock - 1)
  BY Times DEF TimesInv, TimesTypeOK
<1>1. TimesTypeOK'
  <2>1. backoff' \in BACKOFF_MIN..BACKOFF_MAX
    BY <1>0, Times DEF Dropped, NextBackoff
  <2>2. lag' \in 0..MaxLag
    BY Times DEF TimesInv, TimesTypeOK
  <2> QED BY <1>0, <2>1, <2>2 DEF TimesTypeOK, Dropped
<1>2. pc' = "idle" /\ ~connected' /\ due' <= BACKOFF_MAX
  BY Times DEF TimesInv, TimesTypeOK, Dropped
<1> QED BY <1>1, <1>2 DEF TimesInv, RetryInv, CadenceInv

\* The attempt is made while it is due, and stays due until it ends.
LEMMA WaitTimes ==
  ASSUME TimesInv, UNCHANGED <<connected, due, backoff, since_ptp, since_stats>>,
         ~connected, AttemptDue, pc' \in {"dns", "tcp", "connack"}, lag' = 0
  PROVE  TimesInv'
<1>1. TimesTypeOK'
  BY Times DEF TimesInv, TimesTypeOK
<1>2. AttemptDue'
  BY DEF AttemptDue
<1> QED BY <1>1, <1>2 DEF TimesInv, RetryInv, CadenceInv

LEMMA ConnectedTimes ==
  ASSUME TimesInv, Connected
  PROVE  TimesInv'
<1>1. TimesTypeOK' /\ pc' = "idle" /\ connected' /\ lag' = 0
  BY Times DEF TimesInv, TimesTypeOK, Connected
<1>2. CadenceInv'
  BY <1>1, Times DEF CadenceInv, Connected
<1> QED BY <1>1, <1>2 DEF TimesInv, RetryInv

LEMMA NotDueTimes ==
  ASSUME TimesInv, NotDue
  PROVE  TimesInv'
<1>1. due <= BACKOFF_MAX
  BY Times, Overdue DEF TimesInv, TimesTypeOK, RetryInv, NotDue, AttemptDue
<1>2. TimesTypeOK' /\ due' = due /\ pc' = "idle" /\ ~connected'
  BY Times DEF TimesInv, TimesTypeOK, NotDue, mqtt
<1> QED BY <1>1, <1>2 DEF TimesInv, RetryInv, CadenceInv

LEMMA LoopTimes ==
  ASSUME TimesInv, Loop
  PROVE  TimesInv'
<1>1. lag' = 0 /\ pc = "idle" /\ connected
  BY DEF Loop
<1>2. CASE mqtt_transport_is_up
  <2>1. /\ since_ptp' = Cadence(since_ptp, PTP_PERIOD)
        /\ since_stats' = IF since_stats >= STATS_PERIOD THEN 0 ELSE since_stats
        /\ UNCHANGED <<connected, due, backoff, pc>>
    BY <1>2 DEF Loop
  <2>2. since_ptp' \in Nat /\ since_ptp' < PTP_PERIOD
    BY <2>1, Times DEF TimesInv, TimesTypeOK, Cadence
  <2>3. since_stats' \in Nat /\ since_stats' < STATS_PERIOD
    BY <2>1, Times DEF TimesInv, TimesTypeOK
  <2>4. TimesTypeOK'
    BY <1>1, <2>1, <2>2, <2>3, Times DEF TimesInv, TimesTypeOK
  <2> QED BY <1>1, <2>1, <2>2, <2>3, <2>4, Times DEF TimesInv, RetryInv, CadenceInv
<1>3. CASE ~mqtt_transport_is_up
  <2>1. Dropped
    BY <1>3 DEF Loop, drop
  <2> QED BY <1>1, <2>1, DroppedTimes
<1> QED BY <1>2, <1>3

LEMMA TickTimes ==
  ASSUME TimesInv, Tick
  PROVE  TimesInv'
<1>0. pc' = pc /\ connected' = connected /\ backoff' = backoff
  BY DEF Tick
<1>1. CASE pc # "idle"
  <2>1. ~connected /\ lag' = lag /\ lag = 0 /\ AttemptDue
    BY <1>1 DEF TimesInv, RetryInv, Tick
  <2>2. UNCHANGED <<due, since_ptp, since_stats>>
    BY <1>1, <2>1 DEF Tick
  <2>3. TimesTypeOK' /\ AttemptDue'
    BY <1>0, <2>1, <2>2 DEF TimesInv, TimesTypeOK, AttemptDue
  <2> QED BY <1>0, <1>1, <2>1, <2>3 DEF TimesInv, RetryInv, CadenceInv
<1>2. CASE pc = "idle" /\ connected
  <2>1. lag < MaxLag /\ lag' = lag + 1 /\ due' = due
    BY <1>2 DEF Tick
  <2>2. since_ptp + 1 \in 0..(Clock - 1) /\ since_stats + 1 \in 0..(Clock - 1)
    BY <1>2, <2>1, Times DEF TimesInv, TimesTypeOK, CadenceInv
  <2>3. since_ptp' = since_ptp + 1 /\ since_stats' = since_stats + 1
    BY <1>2, <2>2, Times, SmallMod DEF Tick
  <2>4. TimesTypeOK'
    BY <1>0, <2>1, <2>2, <2>3, Times DEF TimesInv, TimesTypeOK
  <2>5. CadenceInv'
    BY <1>2, <2>1, <2>3, Times DEF TimesInv, TimesTypeOK, CadenceInv
  <2> QED BY <1>0, <1>2, <2>4, <2>5 DEF TimesInv, RetryInv
<1>3. CASE pc = "idle" /\ ~connected
  <2>1. lag < MaxLag /\ lag' = lag + 1 /\ due' = (due - 1) % Clock
        /\ UNCHANGED <<since_ptp, since_stats>>
    BY <1>3 DEF Tick
  <2>2. due' = IF due = 0 THEN Clock - 1 ELSE due - 1
    BY <2>1, DueTicks DEF TimesInv, TimesTypeOK
  <2>3. TimesTypeOK'
    BY <1>0, <2>1, <2>2, Times DEF TimesInv, TimesTypeOK
  <2>4. /\ (0 - due) % Clock = IF due = 0 THEN 0 ELSE Clock - due
        /\ (0 - due') % Clock = IF due' = 0 THEN 0 ELSE Clock - due'
    BY <2>3, Overdue DEF TimesInv, TimesTypeOK
  <2>5. due' <= BACKOFF_MAX \/ (0 - due') % Clock <= lag'
    BY <1>3, <2>1, <2>2, <2>4, Times DEF TimesInv, TimesTypeOK, RetryInv
  <2> QED BY <1>0, <1>3, <2>3, <2>5 DEF TimesInv, RetryInv, CadenceInv
<1> QED BY <1>1, <1>2, <1>3

LEMMA TimesStep == TimesInv /\ [Next]_vars => TimesInv'
<1> SUFFICES ASSUME TimesInv, [Next]_vars
             PROVE  TimesInv'
  OBVIOUS
<1>0. ASSUME UNCHANGED <<pc, lag, connected, due, backoff, since_ptp, since_stats>>
      PROVE  TimesInv'
  BY <1>0 DEF TimesInv, TimesTypeOK, RetryInv, CadenceInv, AttemptDue
<1>1. CASE try_connect
  <2>1. PICK e \in {"ERR_OK", "ERR_INPROGRESS", "ERR_MEM"} :
          IF e = "ERR_MEM" THEN Dropped
          ELSE pc' = "dns" /\ UNCHANGED <<connected, due, backoff, since_ptp, since_stats>>
    BY <1>1 DEF try_connect
  <2> QED BY <1>1, <2>1, DroppedTimes, WaitTimes DEF try_connect
<1>2. CASE NotDue
  BY <1>2, NotDueTimes
<1>3. CASE Connect
  <2>1. pc = "dns" /\ ~connected /\ AttemptDue /\ lag' = lag /\ lag = 0
    BY <1>3 DEF Connect, TimesInv, RetryInv
  <2>2. \/ pc' = "tcp" /\ UNCHANGED <<connected, due, backoff, since_ptp, since_stats>>
        \/ Dropped
    BY <1>3 DEF Connect
  <2> QED BY <2>1, <2>2, DroppedTimes, WaitTimes
<1>4. CASE OpenTimeout
  BY <1>4, DroppedTimes DEF OpenTimeout
<1>5. CASE Settled
  <2>1. pc = "tcp" /\ ~connected /\ AttemptDue /\ lag' = lag /\ lag = 0
    BY <1>5 DEF Settled, TimesInv, RetryInv
  <2>2. \/ pc' = "connack" /\ UNCHANGED <<connected, due, backoff, since_ptp, since_stats>>
        \/ Dropped
    BY <1>5 DEF Settled
  <2> QED BY <2>1, <2>2, DroppedTimes, WaitTimes
<1>6. CASE Connected
  BY <1>6, ConnectedTimes
<1>7. CASE ConnectFails
  BY <1>7, DroppedTimes DEF ConnectFails, drop
<1>8. CASE LoopFails
  BY <1>8, DroppedTimes DEF LoopFails, drop
<1>9. CASE Loop
  BY <1>9, LoopTimes
<1>10. CASE Pumped \/ Broker \/ BrokerDies \/ Break \/ Mend
  BY <1>0, <1>10 DEF Pumped, Broker, BrokerDies, Break, Mend, mqtt
<1>11. CASE Tick
  BY <1>11, TickTimes
<1>12. CASE UNCHANGED vars
  BY <1>0, <1>12 DEF vars, mqtt
<1> QED BY <1>1, <1>2, <1>3, <1>4, <1>5, <1>6, <1>7, <1>8, <1>9, <1>10, <1>11, <1>12
        DEF Next, Service

\* The invariant RetriesSoon and KeepsCadence follow from: next_attempt_ms is never
\* further away than the pause, and neither period of flint_mqtt_service is overrun by
\* more than the lateness of the calls
THEOREM TimesKept == Spec => []TimesInv
<1>1. Init => TimesInv
  <2> SUFFICES ASSUME Init
               PROVE  TimesInv
    OBVIOUS
  <2>1. 0 \in 0..MaxLag /\ 0 \in 0..(Clock - 1) /\ BACKOFF_MIN \in BACKOFF_MIN..BACKOFF_MAX
    BY Times
  <2>2. TimesTypeOK
    BY <2>1 DEF Init, TimesTypeOK
  <2>3. due <= BACKOFF_MAX
    BY Times DEF Init
  <2> QED BY <2>2, <2>3 DEF Init, TimesInv, RetryInv, CadenceInv
<1> QED BY <1>1, TimesStep, PTL DEF Spec

\* A device that is not connected tries again within BACKOFF_MAX: next_attempt_ms
\* and its comparison in flint_mqtt_service, for every pause and every lateness
\* that together stay below half the range of the counter.
THEOREM RetriesSoon == Spec => []RetrySoon
<1>1. TimesInv => RetrySoon
  <2> SUFFICES ASSUME TimesInv, ~connected, pc = "idle", ~(due <= BACKOFF_MAX)
               PROVE  AttemptDue
    BY DEF RetrySoon, TimesInv, RetryInv
  <2>1. (0 - due) % Clock <= lag /\ (0 - due) % Clock \in Int
    BY Overdue, Times DEF TimesInv, TimesTypeOK, RetryInv
  <2> QED BY <2>1, Times DEF AttemptDue, TimesInv, TimesTypeOK
<1> QED BY <1>1, TimesKept, PTL

\* While connected no period is missed by more than the service is late: the
\* catching up of flint_mqtt_service does not build up arrears.
THEOREM KeepsCadence == Spec => []CadenceKept
<1>1. TimesInv => CadenceKept
  BY Times DEF TimesInv, TimesTypeOK, CadenceInv, CadenceKept
<1> QED BY <1>1, TimesKept, PTL

-----------------------------------------------------------------------------
(* The control blocks.                                                     *)

\* A block is taken only when none is held.
BlocksInv == NoPcbLost /\ (pc = "dns" => pcb = NULL)

LEMMA ClosedBlocks ==
  ASSUME NoPcbLost, NEW s, CloseTo(s)
  PROVE  BlocksInv'
BY DEF BlocksInv, NoPcbLost, CloseTo

LEMMA BlocksStep == BlocksInv /\ [Next]_vars => BlocksInv'
<1> SUFFICES ASSUME BlocksInv, [Next]_vars
             PROVE  BlocksInv'
  OBVIOUS
<1>0. ASSUME UNCHANGED <<pcb, pcbs>>, pc' \in {pc, "tcp", "connack", "idle"}
      PROVE  BlocksInv'
  BY <1>0 DEF BlocksInv, NoPcbLost
<1>1. CASE try_connect
  BY <1>1, ClosedBlocks DEF try_connect, OpenResolve, BlocksInv
<1>2. CASE Connect
  <2>1. CASE OpenConnect /\ pc' = "tcp"
    <3>1. PICK p \in Pcbs \ pcbs : pcb' = p /\ pcbs' = pcbs \cup {p}
      BY <2>1 DEF OpenConnect
    <3>2. p # NULL
      BY TransportAssumption
    <3>3. pcbs = {}
      BY <1>2 DEF BlocksInv, NoPcbLost, Connect
    <3> QED BY <2>1, <3>1, <3>2, <3>3 DEF BlocksInv, NoPcbLost
  <2>2. CASE OpenFails
    BY <2>2, ClosedBlocks DEF OpenFails, BlocksInv
  <2> QED BY <1>2, <2>1, <2>2 DEF Connect
<1>3. CASE OpenTimeout
  BY <1>3, ClosedBlocks DEF OpenTimeout, OpenFails, BlocksInv
<1>4. CASE Settled
  <2>1. CASE state = "UP"
    BY <1>0, <1>4, <2>1 DEF Settled, ctx, lwip
  <2>2. CASE state # "UP"
    BY <1>4, <2>2, ClosedBlocks DEF Settled, OpenFails, BlocksInv
  <2> QED BY <2>1, <2>2
<1>5. CASE ConnectFails \/ LoopFails
  BY <1>5, ClosedBlocks DEF ConnectFails, LoopFails, drop, mqtt_transport_close, BlocksInv
<1>6. CASE Loop
  <2>1. CASE mqtt_transport_is_up
    BY <1>0, <1>6, <2>1 DEF Loop, lwip
  <2>2. CASE ~mqtt_transport_is_up
    BY <1>6, <2>2, ClosedBlocks DEF Loop, drop, mqtt_transport_close, BlocksInv
  <2> QED BY <2>1, <2>2
<1>7. CASE Pumped
  <2>1. CASE on_err
    BY <2>1 DEF on_err, BlocksInv, NoPcbLost
  <2>2. CASE on_recv
    BY <1>0, <1>7, <2>2 DEF Pumped, on_recv, Store
  <2>3. CASE on_recv_closed \/ on_connected \/ on_dns
    BY <1>0, <1>7, <2>3 DEF Pumped, on_recv_closed, on_connected, on_dns
  <2> QED BY <1>7, <2>1, <2>2, <2>3 DEF Pumped, Callback
<1>8. CASE NotDue \/ Connected
  BY <1>0, <1>8 DEF NotDue, Connected, ctx, lwip
<1>9. CASE Broker \/ BrokerDies \/ Break \/ Mend \/ Tick
  BY <1>0, <1>9 DEF Broker, BrokerSends, BrokerDies, Dies, Break, Mend, Tick, ctx, lwip
<1>10. CASE UNCHANGED vars
  BY <1>0, <1>10 DEF vars, ctx, lwip
<1> QED BY <1>1, <1>2, <1>3, <1>4, <1>5, <1>6, <1>7, <1>8, <1>9, <1>10 DEF Next, Service

\* Each control block in use is the one the transport holds, for every pool:
\* mqtt_transport_close and on_err between them lose none.
THEOREM NoneLost == Spec => []NoPcbLost
<1>1. Init => BlocksInv
  BY DEF Init, TransportInit, BlocksInv, NoPcbLost
<1>2. BlocksInv => NoPcbLost
  BY DEF BlocksInv
<1> QED BY <1>1, <1>2, BlocksStep, PTL DEF Spec

-----------------------------------------------------------------------------
(* The replies.                                                            *)

Replies == [pending : BOOLEAN, to : 0..1, unanswered : SUBSET (0..1)]

ReplyInv == reply \in Replies /\ AnsweredOnce

\* handle_command and the publication of the reply.
LEMMA ReplyOps ==
  ASSUME NEW r \in Replies, r.pending => r.to \in r.unanswered
  PROVE  /\ handle_command(r) \in Replies
         /\ handle_command(r).to \in handle_command(r).unanswered
         /\ \A ok \in BOOLEAN : PublishReply(r, ok) \in Replies /\ ~PublishReply(r, ok).pending
<1>1. r.to \in 0..1 /\ r.unanswered \in SUBSET (0..1)
  BY DEF Replies
<1>2. (r.to + 1) % 2 \in 0..1
  BY <1>1
<1>3. /\ handle_command(r) \in Replies
      /\ handle_command(r).to \in handle_command(r).unanswered
  BY <1>1, <1>2 DEF handle_command, Replies
<1>4. ASSUME NEW ok \in BOOLEAN
      PROVE  PublishReply(r, ok) \in Replies /\ ~PublishReply(r, ok).pending
  BY DEF PublishReply, Replies
<1> QED BY <1>3, <1>4

LEMMA ReplyStep == ReplyInv /\ [Next]_vars => ReplyInv'
<1> SUFFICES ASSUME ReplyInv, [Next]_vars
             PROVE  ReplyInv'
  OBVIOUS
<1>0. CASE UNCHANGED reply
  BY <1>0 DEF ReplyInv, AnsweredOnce
<1>1. CASE Loop
  <2> DEFINE whole == Len(Incoming) >= PacketBytes
             r == IF whole THEN handle_command(reply) ELSE reply
  <2>1. r \in Replies /\ (r.pending => r.to \in r.unanswered)
    <3>1. CASE whole
      BY <3>1, ReplyOps DEF ReplyInv, AnsweredOnce
    <3>2. CASE ~whole
      BY <3>2 DEF ReplyInv, AnsweredOnce
    <3> QED BY <3>1, <3>2
  <2>2. (\E ok \in BOOLEAN : reply' = PublishReply(r, ok)) \/ reply' = r
    BY <1>1 DEF Loop
  <2> HIDE DEF r
  <2> QED BY <2>1, <2>2, ReplyOps DEF ReplyInv, AnsweredOnce
<1>2. CASE Next /\ ~Loop
  <2>1. UNCHANGED reply
    BY <1>2 DEF Next, Service, try_connect, NotDue, Connect, OpenTimeout, Settled,
                Connected, ConnectFails, LoopFails, Pumped, Broker, BrokerDies, Break,
                Mend, Tick, mqtt
  <2> QED BY <1>0, <2>1
<1>3. CASE UNCHANGED vars
  BY <1>0, <1>3 DEF vars, mqtt
<1> QED BY <1>1, <1>2, <1>3

\* No command is answered twice: handle_command replaces a reply that waits,
\* and flint_mqtt_service takes it off before it publishes it.
THEOREM NoneAnsweredTwice == Spec => []AnsweredOnce
<1>1. Init => ReplyInv
  BY DEF Init, ReplyInv, Replies, AnsweredOnce
<1>2. ReplyInv => AnsweredOnce
  BY DEF ReplyInv
<1> QED BY <1>1, <1>2, ReplyStep, PTL DEF Spec

-----------------------------------------------------------------------------
(* The stream.                                                             *)

StreamTypeOK ==
  /\ rx \in [0..(RX_RING_SIZE - 1) -> Int]
  /\ rx_head \in 0..(Index - 1) /\ rx_tail \in 0..(Index - 1) /\ sent \in 0..(Index - 1)
  /\ wire \in Seq(Segments)
  /\ netbuf \in Seq(Int) /\ Len(netbuf) <= NET_BUF_SIZE

\* The ring has the last bytes that were acknowledged, each in its slot.
RingHolds ==
  /\ ring_used <= RX_RING_SIZE
  /\ \A j \in 0..(ring_used - 1) :
       rx[(rx_tail + j) % RX_RING_SIZE] = (sent - ring_used + j) % Index

\* coreMQTT's buffer has the bytes before them.
BufferHolds ==
  \A i \in 1..Len(netbuf) :
    netbuf[i] = (sent - ring_used - Len(netbuf) + i - 1) % Index

\* Nothing is received between the reset of the ring and the CONNECT.
StreamInv ==
  /\ StreamTypeOK
  /\ pc \in {"dns", "tcp"} => wire = <<>> /\ rx_head = 0 /\ rx_tail = 0
  /\ pc = "tcp" => sent = 0
  /\ pc = "connack" => netbuf = <<>>
  /\ connected \/ pc = "connack" => RingHolds /\ BufferHolds

LEMMA Sizes ==
  /\ RX_RING_SIZE \in Nat \ {0} /\ Index \in Nat \ {0} /\ RX_RING_SIZE < Index
  /\ Index % RX_RING_SIZE = 0 /\ Index % Index = 0
  /\ PacketBytes \in Nat \ {0} /\ NET_BUF_SIZE \in Nat /\ PacketBytes <= NET_BUF_SIZE
<1>1. /\ RX_RING_SIZE \in Nat \ {0} /\ Index \in Nat \ {0} /\ RX_RING_SIZE < Index
      /\ PacketBytes \in Nat \ {0} /\ NET_BUF_SIZE \in Nat
  BY TransportAssumption, MqttAssumption
<1>2. 0 \in 0..(Index - 1) /\ Index * 1 + 0 = Index
  BY <1>1
<1>3. (Index * 1 + 0) % Index = 0
  BY <1>1, <1>2, DivModUnique
<1> QED BY <1>1, <1>2, <1>3, TransportAssumption, MqttAssumption

\* The head is where the tail and the count say, also after a wrap.
LEMMA HeadSlot ==
  ASSUME StreamTypeOK
  PROVE  /\ ring_used \in 0..(Index - 1)
         /\ \A k \in Int : (rx_head + k) % RX_RING_SIZE = (rx_tail + ring_used + k) % RX_RING_SIZE
<1>0. rx_head \in Int /\ rx_tail \in Int /\ rx_head - rx_tail \in Int
  BY Sizes DEF StreamTypeOK
<1>1. ring_used \in 0..(Index - 1)
  BY <1>0, Sizes, DivMod DEF ring_used
<1>2. ASSUME NEW k \in Int
      PROVE  (rx_head + k) % RX_RING_SIZE = (rx_tail + ring_used + k) % RX_RING_SIZE
  <2> DEFINE a == rx_head - rx_tail   b == rx_tail + k
  <2>1. a \in Int /\ b \in Int /\ rx_head + k = a + b
    BY <1>0
  <2>2. rx_tail + ring_used + k = (a % Index) + b
    BY <1>0, <1>1, <2>1 DEF ring_used
  <2> HIDE DEF a, b
  <2>3. ((a % Index) + b) % RX_RING_SIZE = (a + b) % RX_RING_SIZE
    BY <2>1, Sizes, ModEarly
  <2> QED BY <2>1, <2>2, <2>3
<1> QED BY <1>1, <1>2

\* Taking n bytes from the ring.
LEMMA RecvRing ==
  ASSUME StreamTypeOK, NEW n \in 0..ring_used, mqtt_transport_recv(n), UNCHANGED rx_head
  PROVE  /\ rx_tail' \in 0..(Index - 1)
         /\ ring_used' = ring_used - n
         /\ \A j \in Int : (rx_tail' + j) % RX_RING_SIZE = (rx_tail + n + j) % RX_RING_SIZE
<1>u. ring_used \in 0..(Index - 1) /\ Index \in Nat
  BY HeadSlot, Sizes
<1>0. rx_head \in Int /\ rx_tail \in Int /\ n \in Nat
  BY <1>u DEF StreamTypeOK
<1> DEFINE t == rx_tail + n   d == rx_head - rx_tail
<1>1. t \in Int /\ d \in Int /\ rx_tail' = t % Index
  BY <1>0 DEF mqtt_transport_recv
<1>2. rx_tail' \in 0..(Index - 1)
  BY <1>1, Sizes, DivMod
<1>3. ring_used' = ring_used - n
  <2>1. ring_used' = (rx_head - (t % Index)) % Index
    BY <1>1 DEF ring_used
  <2>2. rx_head - t = d + (0 - n) /\ 0 - n \in Int
    BY <1>0
  <2> HIDE DEF t, d
  <2>3. (rx_head - (t % Index)) % Index = (rx_head - t) % Index
    BY <1>0, <1>1, Sizes, ModEarly
  <2>4. ((d % Index) + (0 - n)) % Index = (d + (0 - n)) % Index
    BY <1>1, <2>2, Sizes, ModEarly
  <2>5. d % Index = ring_used
    BY DEF d, ring_used
  <2>6. ring_used + (0 - n) = ring_used - n /\ ring_used - n \in 0..(Index - 1)
    BY <1>u, <1>0
  <2>7. (ring_used - n) % Index = ring_used - n
    BY <2>6, Sizes, SmallMod
  <2> QED BY <2>1, <2>2, <2>3, <2>4, <2>5, <2>6, <2>7
<1>4. ASSUME NEW j \in Int
      PROVE  (rx_tail' + j) % RX_RING_SIZE = (rx_tail + n + j) % RX_RING_SIZE
  <2> HIDE DEF t
  <2>1. ((t % Index) + j) % RX_RING_SIZE = (t + j) % RX_RING_SIZE
    BY <1>1, Sizes, ModEarly
  <2> QED BY <1>1, <2>1 DEF t
<1> QED BY <1>2, <1>3, <1>4

LEMMA RecvHolds ==
  ASSUME StreamTypeOK, RingHolds, NEW n \in 0..ring_used, mqtt_transport_recv(n),
         UNCHANGED <<rx, rx_head, sent>>
  PROVE  RingHolds'
<1>u. ring_used \in 0..(Index - 1) /\ Index \in Nat
  BY HeadSlot, Sizes
<1>0. ring_used \in Nat /\ sent \in Int /\ rx_tail \in Int /\ n \in Nat
  BY <1>u DEF StreamTypeOK
<1>1. ring_used' = ring_used - n
  BY RecvRing
<1>2. ring_used' <= RX_RING_SIZE
  BY <1>0, <1>1, Sizes DEF RingHolds
<1>3. ASSUME NEW j \in 0..(ring_used' - 1)
      PROVE  rx'[(rx_tail' + j) % RX_RING_SIZE] = (sent' - ring_used' + j) % Index
  <2>1. n + j \in 0..(ring_used - 1) /\ j \in Int
    BY <1>0, <1>1
  <2>2. (rx_tail' + j) % RX_RING_SIZE = (rx_tail + n + j) % RX_RING_SIZE
    BY <2>1, RecvRing
  <2>3. rx[(rx_tail + (n + j)) % RX_RING_SIZE] = (sent - ring_used + (n + j)) % Index
    BY <2>1 DEF RingHolds
  <2>4. rx_tail + (n + j) = rx_tail + n + j
    BY <1>0, <2>1
  <2>5. sent - ring_used + (n + j) = sent' - ring_used' + j
    BY <1>0, <1>1, <2>1
  <2> QED BY <2>2, <2>3, <2>4, <2>5
<1> QED BY <1>2, <1>3 DEF RingHolds

\* The first slots from the head on get the bytes of a segment.
LEMMA StoreSlots ==
  ASSUME StreamTypeOK, NEW n \in Nat, Store(n)
  PROVE  /\ rx' \in [0..(RX_RING_SIZE - 1) -> Int]
         /\ \A k \in 0..(RX_RING_SIZE - 1) :
              rx'[(rx_head + k) % RX_RING_SIZE] =
                IF k < n THEN (sent + k) % Index ELSE rx[(rx_head + k) % RX_RING_SIZE]
<1> DEFINE At(i) == CHOOSE j \in 0..(RX_RING_SIZE - 1) : (rx_head + j) % RX_RING_SIZE = i
<1>0. rx_head \in Int /\ sent \in Int /\ DOMAIN rx = 0..(RX_RING_SIZE - 1)
  BY Sizes DEF StreamTypeOK
<1>1. rx' = [i \in 0..(RX_RING_SIZE - 1) |->
               IF At(i) < n THEN (sent + At(i)) % Index ELSE rx[i]]
  BY <1>0 DEF Store
<1>2. ASSUME NEW k \in 0..(RX_RING_SIZE - 1)
      PROVE  /\ (rx_head + k) % RX_RING_SIZE \in 0..(RX_RING_SIZE - 1)
             /\ At((rx_head + k) % RX_RING_SIZE) = k
  <2> DEFINE i == (rx_head + k) % RX_RING_SIZE   j == At(i)
  <2>1. j \in 0..(RX_RING_SIZE - 1) /\ (rx_head + j) % RX_RING_SIZE = i
    OBVIOUS
  <2> HIDE DEF j
  <2>2. /\ rx_head + j \in Int /\ rx_head + k \in Int
        /\ (rx_head + j) - (rx_head + k) < RX_RING_SIZE
        /\ (rx_head + k) - (rx_head + j) < RX_RING_SIZE
    BY <1>0, <2>1, Sizes
  <2>3. rx_head + j = rx_head + k
    BY <2>1, <2>2, Sizes, SameSlot
  <2>4. j = k
    BY <1>0, <2>1, <2>3, Sizes
  <2>5. i \in 0..(RX_RING_SIZE - 1)
    BY <2>2, Sizes, DivMod
  <2> QED BY <2>4, <2>5 DEF j
<1>3. ASSUME NEW i \in 0..(RX_RING_SIZE - 1)
      PROVE  (IF At(i) < n THEN (sent + At(i)) % Index ELSE rx[i]) \in Int
  <2> DEFINE k == (i - rx_head) % RX_RING_SIZE
  <2>1. k \in 0..(RX_RING_SIZE - 1) /\ i - rx_head \in Int /\ i \in Int
    BY <1>0, Sizes, DivMod
  <2>2. (((i - rx_head) % RX_RING_SIZE) + rx_head) % RX_RING_SIZE = ((i - rx_head) + rx_head) % RX_RING_SIZE
    <3> DEFINE a == i - rx_head
    <3>1. RX_RING_SIZE % RX_RING_SIZE = 0
      <4>1. RX_RING_SIZE * 1 + 0 = RX_RING_SIZE /\ 0 \in 0..(RX_RING_SIZE - 1)
        BY Sizes
      <4>2. (RX_RING_SIZE * 1 + 0) % RX_RING_SIZE = 0
        BY <4>1, Sizes, DivModUnique
      <4> QED BY <4>1, <4>2
    <3>2. a \in Int
      BY <2>1
    <3> HIDE DEF a
    <3>3. ((a % RX_RING_SIZE) + rx_head) % RX_RING_SIZE = (a + rx_head) % RX_RING_SIZE
      BY <1>0, <3>1, <3>2, Sizes, ModEarly
    <3> QED BY <3>3 DEF a
  <2>3. (i - rx_head) + rx_head = i /\ k + rx_head = rx_head + k
    BY <1>0, <2>1
  <2>4. i % RX_RING_SIZE = i
    BY Sizes, SmallMod
  <2>5. (rx_head + k) % RX_RING_SIZE = i
    BY <2>2, <2>3, <2>4
  <2>6. At(i) = k
    BY <1>2, <2>1, <2>5
  <2>7. sent + k \in Int
    BY <1>0, <2>1
  <2>8. (sent + k) % Index \in Int
    BY <2>7, Sizes, DivMod
  <2> QED BY <2>6, <2>8 DEF StreamTypeOK
<1> HIDE DEF At
<1>4. rx' \in [0..(RX_RING_SIZE - 1) -> Int]
  BY <1>1, <1>3
<1> QED BY <1>1, <1>2, <1>4

LEMMA StoreRing ==
  ASSUME StreamTypeOK, NEW n \in Nat, n <= ring_free, Store(n)
  PROVE  /\ rx_head' \in 0..(Index - 1) /\ sent' \in 0..(Index - 1)
         /\ ring_used' = ring_used + n
         /\ \A k \in Int : (sent' + k) % Index = (sent + n + k) % Index
<1>u. ring_used \in 0..(Index - 1) /\ Index \in Nat
  BY HeadSlot, Sizes
<1>0. rx_head \in Int /\ rx_tail \in Int /\ sent \in Int
  BY <1>u DEF StreamTypeOK
<1> DEFINE h == rx_head + n   d == rx_head - rx_tail   s == sent + n
<1>1. /\ h \in Int /\ d \in Int /\ s \in Int
      /\ rx_head' = h % Index /\ sent' = s % Index /\ rx_tail' = rx_tail
  BY <1>0 DEF Store
<1>2. rx_head' \in 0..(Index - 1) /\ sent' \in 0..(Index - 1)
  BY <1>1, Sizes, DivMod
<1>3. ring_used' = ring_used + n
  <2>1. ring_used' = ((h % Index) + (0 - rx_tail)) % Index
    <3>1. h % Index \in Int
      BY <1>1, Sizes, DivMod
    <3>2. (h % Index) - rx_tail = (h % Index) + (0 - rx_tail)
      BY <1>0, <3>1
    <3> QED BY <1>1, <3>2 DEF ring_used
  <2>2. h + (0 - rx_tail) = d + n /\ 0 - rx_tail \in Int
    BY <1>0
  <2> HIDE DEF h, d
  <2>3. ((h % Index) + (0 - rx_tail)) % Index = (h + (0 - rx_tail)) % Index
    BY <1>1, <2>2, Sizes, ModEarly
  <2>4. ((d % Index) + n) % Index = (d + n) % Index
    <3>1. n \in Int
      OBVIOUS
    <3> QED BY <1>1, <3>1, Sizes, ModEarly
  <2>5. d % Index = ring_used
    BY DEF d, ring_used
  <2>6. ring_used + n \in 0..(Index - 1)
    BY <1>u, Sizes DEF ring_free
  <2>7. (ring_used + n) % Index = ring_used + n
    BY <2>6, Sizes, SmallMod
  <2> QED BY <2>1, <2>2, <2>3, <2>4, <2>5, <2>7
<1>4. ASSUME NEW k \in Int
      PROVE  (sent' + k) % Index = (sent + n + k) % Index
  <2> HIDE DEF s
  <2>1. ((s % Index) + k) % Index = (s + k) % Index
    BY <1>1, Sizes, ModEarly
  <2> QED BY <1>1, <2>1 DEF s
<1> QED BY <1>2, <1>3, <1>4

\* on_recv puts a segment behind the bytes of the ring, and over none of them.
LEMMA StoreHolds ==
  ASSUME StreamTypeOK, RingHolds, NEW n \in Nat, n <= ring_free, Store(n)
  PROVE  RingHolds'
<1>u. ring_used \in 0..(Index - 1) /\ Index \in Nat
  BY HeadSlot, Sizes
<1>0. ring_used \in Nat /\ rx_head \in Int /\ rx_tail \in Int /\ sent \in Int
  BY <1>u DEF StreamTypeOK
<1>1. ring_used' = ring_used + n /\ rx_tail' = rx_tail
  BY StoreRing DEF Store
<1>2. ring_used' <= RX_RING_SIZE
  BY <1>0, <1>1, Sizes DEF ring_free
<1>3. ASSUME NEW j \in 0..(ring_used' - 1)
      PROVE  rx'[(rx_tail' + j) % RX_RING_SIZE] = (sent' - ring_used' + j) % Index
  <2>0. j \in Nat /\ j < ring_used + n
    BY <1>0, <1>1
  <2>1. (sent' - ring_used' + j) % Index = (sent - ring_used + j) % Index
    <3> DEFINE k == j - ring_used'
    <3>1. k \in Int /\ sent + n + k = sent - ring_used + j
      BY <1>0, <1>1, <2>0
    <3>2. sent' \in Int
      BY <1>u, StoreRing
    <3>3. sent' + k = sent' - ring_used' + j
      BY <1>0, <1>1, <2>0, <3>2
    <3> HIDE DEF k
    <3>4. (sent' + k) % Index = (sent + n + k) % Index
      BY <3>1, StoreRing
    <3> QED BY <3>1, <3>3, <3>4
  <2>2. CASE j < ring_used
    <3> DEFINE k == RX_RING_SIZE - ring_used + j
    <3>1. /\ k \in 0..(RX_RING_SIZE - 1) /\ ~(k < n) /\ k \in Int
          /\ rx_tail + ring_used + k = rx_tail + j + RX_RING_SIZE * 1
          /\ rx_tail + j \in Int
      BY <1>0, <1>2, <1>1, <2>0, <2>2, Sizes DEF RingHolds, ring_free
    <3> HIDE DEF k
    <3>2. (rx_head + k) % RX_RING_SIZE = (rx_tail + ring_used + k) % RX_RING_SIZE
      BY <3>1, HeadSlot
    <3>3. (rx_tail + j + RX_RING_SIZE * 1) % RX_RING_SIZE = (rx_tail + j) % RX_RING_SIZE
      <4> DEFINE a == rx_tail + j
      <4>1. a \in Int /\ 1 \in Int /\ RX_RING_SIZE \in Nat \ {0}
        BY <3>1, Sizes
      <4> HIDE DEF a
      <4>2. (a + RX_RING_SIZE * 1) % RX_RING_SIZE = a % RX_RING_SIZE
        BY <4>1, ModShift
      <4> QED BY <4>2 DEF a
    <3>4. rx'[(rx_head + k) % RX_RING_SIZE] = rx[(rx_head + k) % RX_RING_SIZE]
      BY <3>1, StoreSlots
    <3>5. rx[(rx_tail + j) % RX_RING_SIZE] = (sent - ring_used + j) % Index
      BY <1>0, <2>0, <2>2 DEF RingHolds
    <3> QED BY <1>1, <2>1, <3>1, <3>2, <3>3, <3>4, <3>5
  <2>3. CASE ~(j < ring_used)
    <3> DEFINE k == j - ring_used
    <3>1. /\ k \in 0..(RX_RING_SIZE - 1) /\ k < n /\ k \in Int
          /\ rx_tail + ring_used + k = rx_tail + j
          /\ sent + k = sent - ring_used + j
      BY <1>0, <1>2, <1>1, <2>0, <2>3, Sizes
    <3> HIDE DEF k
    <3>2. (rx_head + k) % RX_RING_SIZE = (rx_tail + ring_used + k) % RX_RING_SIZE
      BY <3>1, HeadSlot
    <3>3. rx'[(rx_head + k) % RX_RING_SIZE] = (sent + k) % Index
      BY <3>1, StoreSlots
    <3> QED BY <1>1, <2>1, <3>1, <3>2, <3>3
  <2> QED BY <2>2, <2>3
<1> QED BY <1>2, <1>3 DEF RingHolds

\* The buffer keeps its place in the stream when the ring grows behind it.
LEMMA StoreBuffer ==
  ASSUME StreamTypeOK, BufferHolds, NEW n \in Nat, n <= ring_free, Store(n), UNCHANGED netbuf
  PROVE  BufferHolds'
<1>u. ring_used \in 0..(Index - 1) /\ Index \in Nat
  BY HeadSlot, Sizes
<1>0. ring_used \in Nat /\ sent \in Int /\ Len(netbuf) \in Nat
  BY <1>u DEF StreamTypeOK
<1>1. ring_used' = ring_used + n /\ sent' \in Int
  BY <1>u, StoreRing
<1> SUFFICES ASSUME NEW i \in 1..Len(netbuf)
             PROVE  netbuf[i] = (sent' - ring_used' - Len(netbuf) + i - 1) % Index
  BY DEF BufferHolds
<1> DEFINE k == i - 1 - ring_used' - Len(netbuf)
<1>2. /\ k \in Int /\ sent + n + k = sent - ring_used - Len(netbuf) + i - 1
      /\ sent' + k = sent' - ring_used' - Len(netbuf) + i - 1
  BY <1>0, <1>1
<1> HIDE DEF k
<1>3. (sent' + k) % Index = (sent + n + k) % Index
  BY <1>2, StoreRing
<1> QED BY <1>2, <1>3 DEF BufferHolds

\* The buffer and the first m bytes of the ring are the stream up to there.
LEMMA Prefix ==
  ASSUME StreamTypeOK, RingHolds, BufferHolds, NEW m \in 0..ring_used
  PROVE  LET bytes == netbuf \o Peek(m)
         IN  /\ bytes \in Seq(Int) /\ Len(bytes) = Len(netbuf) + m
             /\ \A i \in 1..Len(bytes) :
                  bytes[i] = (sent - (ring_used - m) - Len(bytes) + i - 1) % Index
<1>u. ring_used \in 0..(Index - 1) /\ Index \in Nat
  BY HeadSlot, Sizes
<1>0. /\ ring_used \in Nat /\ sent \in Int /\ Len(netbuf) \in Nat /\ m \in Nat
      /\ netbuf \in Seq(Int) /\ rx_tail \in Int
  BY <1>u DEF StreamTypeOK
<1> DEFINE L == Len(netbuf)   p == Peek(m)   bytes == netbuf \o p
<1>1. ASSUME NEW i \in 1..m
      PROVE  p[i] = (sent - ring_used + (i - 1)) % Index /\ p[i] \in Int
  <2>1. i - 1 \in 0..(ring_used - 1) /\ rx_tail + (i - 1) = rx_tail + i - 1
        /\ sent - ring_used + (i - 1) \in Int
    BY <1>0
  <2>2. p[i] = rx[(rx_tail + i - 1) % RX_RING_SIZE]
    BY DEF Peek
  <2>3. p[i] = (sent - ring_used + (i - 1)) % Index
    BY <2>1, <2>2 DEF RingHolds
  <2> QED BY <2>1, <2>3, Sizes, DivMod
<1>2. p \in Seq(Int) /\ Len(p) = m
  <2>1. p = [i \in 1..m |-> p[i]]
    BY DEF Peek
  <2> HIDE DEF p
  <2>2. p \in [1..m -> Int]
    BY <1>1, <2>1
  <2> QED BY <1>0, <2>2
<1> HIDE DEF p
<1>3. /\ bytes \in Seq(Int) /\ Len(bytes) = L + m
      /\ \A i \in 1..(L + m) : bytes[i] = IF i <= L THEN netbuf[i] ELSE p[i - L]
  BY <1>0, <1>2, ConcatProperties
<1> HIDE DEF bytes
<1>4. ASSUME NEW i \in 1..(L + m)
      PROVE  bytes[i] = (sent - (ring_used - m) - (L + m) + i - 1) % Index
  <2>1. CASE i <= L
    <3>1. sent - (ring_used - m) - (L + m) + i - 1 = sent - ring_used - L + i - 1
      BY <1>0
    <3>2. netbuf[i] = (sent - ring_used - L + i - 1) % Index
      BY <1>0, <2>1 DEF BufferHolds
    <3> QED BY <1>3, <2>1, <3>1, <3>2
  <2>2. CASE ~(i <= L)
    <3>1. /\ i - L \in 1..m
          /\ sent - (ring_used - m) - (L + m) + i - 1 = sent - ring_used + ((i - L) - 1)
      BY <1>0, <2>2
    <3> QED BY <1>1, <1>3, <2>2, <3>1
  <2> QED BY <2>1, <2>2
<1> QED BY <1>3, <1>4 DEF bytes, p

\* What MQTT_ProcessLoop has after it read.
LEMMA IncomingStream ==
  ASSUME StreamTypeOK, RingHolds, BufferHolds
  PROVE  LET n == Len(Incoming) - Len(netbuf)
         IN  /\ Incoming \in Seq(Int) /\ Len(Incoming) <= NET_BUF_SIZE
             /\ n \in 0..ring_used
             /\ \A i \in 1..Len(Incoming) :
                  Incoming[i] = (sent - (ring_used - n) - Len(Incoming) + i - 1) % Index
<1>u. ring_used \in 0..(Index - 1) /\ Index \in Nat
  BY HeadSlot, Sizes
<1>0. /\ ring_used \in Nat /\ Len(netbuf) \in Nat /\ NET_BUF_SIZE \in Nat
      /\ Len(netbuf) <= NET_BUF_SIZE
  BY <1>u, Sizes DEF StreamTypeOK
<1> DEFINE room == NET_BUF_SIZE - Len(netbuf)
           m == IF ring_used < room THEN ring_used ELSE room
<1>1. m \in 0..ring_used /\ Len(netbuf) + m <= NET_BUF_SIZE /\ m \in Nat
  BY <1>0
<1>2. Incoming = netbuf \o Peek(m)
  BY DEF Incoming
<1> HIDE DEF m
<1>3. /\ Incoming \in Seq(Int) /\ Len(Incoming) = Len(netbuf) + m
      /\ \A i \in 1..Len(Incoming) :
           Incoming[i] = (sent - (ring_used - m) - Len(Incoming) + i - 1) % Index
  BY <1>1, <1>2, Prefix
<1>4. Len(Incoming) - Len(netbuf) = m
  BY <1>0, <1>1, <1>3
<1> QED BY <1>1, <1>3, <1>4

\* MQTT_Connect reads the CONNACK, the first packet of the stream.
LEMMA ConnectedStream ==
  ASSUME StreamInv, Connected
  PROVE  StreamInv'
<1>1. /\ StreamTypeOK /\ RingHolds /\ netbuf = <<>> /\ mqtt_transport_recv(PacketBytes)
      /\ UNCHANGED <<rx, rx_head, sent, wire, netbuf>> /\ pc' = "idle"
      /\ ring_used >= PacketBytes
  BY DEF StreamInv, Connected, lwip
<1>2. PacketBytes \in 0..ring_used
  BY <1>1, HeadSlot, Sizes
<1>3. RingHolds' /\ rx_tail' \in 0..(Index - 1)
  BY <1>1, <1>2, RecvHolds, RecvRing
<1>4. BufferHolds'
  BY <1>1 DEF BufferHolds
<1>5. StreamTypeOK'
  BY <1>1, <1>3 DEF StreamTypeOK
<1> QED BY <1>1, <1>3, <1>4, <1>5 DEF StreamInv

LEMMA LoopStream ==
  ASSUME StreamInv, Loop
  PROVE  StreamInv'
<1> DEFINE bytes == Incoming
           n == Len(bytes) - Len(netbuf)
           whole == Len(bytes) >= PacketBytes
<1>1. /\ StreamTypeOK /\ RingHolds /\ BufferHolds /\ mqtt_transport_recv(n)
      /\ UNCHANGED <<rx, rx_head>> /\ pc = "idle" /\ connected
      /\ netbuf' = IF whole THEN SubSeq(bytes, PacketBytes + 1, Len(bytes)) ELSE bytes
  BY DEF StreamInv, Loop
<1>2. sent' = sent /\ pc' = "idle" /\ wire' \in Seq(Segments)
  <2>1. CASE mqtt_transport_is_up
    BY <1>1, <2>1 DEF Loop, lwip, StreamTypeOK
  <2>2. CASE ~mqtt_transport_is_up
    BY <2>2 DEF Loop, drop, mqtt_transport_close, CloseTo, Dropped
  <2> QED BY <2>1, <2>2
<1>3. /\ bytes \in Seq(Int) /\ Len(bytes) <= NET_BUF_SIZE /\ n \in 0..ring_used
      /\ \A i \in 1..Len(bytes) :
           bytes[i] = (sent - (ring_used - n) - Len(bytes) + i - 1) % Index
  BY <1>1, IncomingStream
<1> HIDE DEF bytes, n
<1>4. RingHolds' /\ rx_tail' \in 0..(Index - 1) /\ ring_used' = ring_used - n
  BY <1>1, <1>2, <1>3, RecvHolds, RecvRing
<1>u. ring_used \in 0..(Index - 1) /\ Index \in Nat
  BY <1>1, HeadSlot, Sizes
<1>i. ring_used \in Nat /\ n \in Nat /\ sent \in Int /\ Len(bytes) \in Nat
  BY <1>1, <1>3, <1>u DEF StreamTypeOK
<1>5. netbuf' \in Seq(Int) /\ Len(netbuf') <= NET_BUF_SIZE /\ BufferHolds'
  <2>1. CASE whole
    <3>1. /\ netbuf' \in Seq(Int) /\ Len(netbuf') = Len(bytes) - PacketBytes
          /\ \A i \in 1..(Len(bytes) - PacketBytes) : netbuf'[i] = bytes[PacketBytes + i]
      <4>1. \A i \in (PacketBytes + 1)..Len(bytes) : bytes[i] \in Int
        BY <1>3, <1>i, Sizes, ElementOfSeq
      <4>2. /\ PacketBytes + 1 \in Nat \ {0} /\ PacketBytes + 1 <= Len(bytes) + 1
            /\ netbuf' = SubSeq(bytes, PacketBytes + 1, Len(bytes))
        BY <1>1, <1>i, <2>1, Sizes
      <4> QED BY <1>3, <1>i, <4>1, <4>2, Sizes, SubSeqProperties
    <3>2. ASSUME NEW i \in 1..Len(netbuf')
          PROVE  netbuf'[i] = (sent' - ring_used' - Len(netbuf') + i - 1) % Index
      <4>1. /\ PacketBytes + i \in 1..Len(bytes)
            /\ sent' - ring_used' - Len(netbuf') + i - 1
                 = sent - (ring_used - n) - Len(bytes) + (PacketBytes + i) - 1
        BY <1>2, <1>4, <1>i, <3>1, Sizes
      <4> QED BY <1>3, <3>1, <4>1
    <3> QED BY <1>3, <1>i, <3>1, <3>2, Sizes DEF BufferHolds
  <2>2. CASE ~whole
    <3>1. netbuf' = bytes
      BY <1>1, <2>2
    <3> QED BY <1>2, <1>3, <1>4, <3>1 DEF BufferHolds
  <2> QED BY <2>1, <2>2
<1>6. StreamTypeOK'
  BY <1>1, <1>2, <1>4, <1>5 DEF StreamTypeOK
<1> QED BY <1>2, <1>4, <1>5, <1>6 DEF StreamInv

LEMMA OnRecvStream ==
  ASSUME StreamInv, on_recv, UNCHANGED <<pc, connected, netbuf>>
  PROVE  StreamInv'
<1> DEFINE n == Head(wire)
<1>1. n \in Nat /\ n <= ring_free /\ Store(n) /\ StreamTypeOK /\ wire # <<>>
      /\ Tail(wire) \in Seq(Segments)
  BY TransportAssumption, HeadTailProperties DEF on_recv, StreamInv, StreamTypeOK
<1> HIDE DEF n
<1>2. StreamTypeOK'
  BY <1>1, StoreRing, StoreSlots DEF StreamTypeOK, Store
<1>3. connected \/ pc = "connack" => RingHolds' /\ BufferHolds'
  BY <1>1, StoreHolds, StoreBuffer DEF StreamInv
<1> QED BY <1>1, <1>2, <1>3 DEF StreamInv

LEMMA StreamStep == StreamInv /\ TimesInv /\ [Next]_vars => StreamInv'
<1> SUFFICES ASSUME StreamInv, TimesInv, [Next]_vars
             PROVE  StreamInv'
  OBVIOUS
<1>z. 0 \in 0..(Index - 1) /\ <<>> \in Seq(Segments)
  BY Sizes
<1>t. connected => pc = "idle"
  BY DEF TimesInv
<1>0. ASSUME UNCHANGED <<rx, rx_head, rx_tail, sent, netbuf, pc, connected>>,
             wire' \in Seq(Segments), pc \in {"dns", "tcp"} => wire' = <<>>
      PROVE  StreamInv'
  BY <1>0 DEF StreamInv, StreamTypeOK, RingHolds, BufferHolds, ring_used
<1>d. ASSUME CloseTo("ERROR") \/ mqtt_transport_close, Dropped, UNCHANGED <<rx, netbuf>>,
             rx_head' \in {0, rx_head}, rx_tail' \in {0, rx_tail}
      PROVE  StreamInv'
  <2>1. wire' = <<>> /\ sent' = sent
    BY <1>d DEF mqtt_transport_close, CloseTo
  <2> QED BY <1>d, <1>z, <2>1 DEF Dropped, StreamInv, StreamTypeOK
<1>1. CASE try_connect
  <2>1. PICK e \in {"ERR_OK", "ERR_INPROGRESS", "ERR_MEM"} :
          /\ OpenResolve(e)
          /\ IF e = "ERR_MEM" THEN Dropped ELSE pc' = "dns" /\ UNCHANGED connected
    BY <1>1 DEF try_connect
  <2>2. UNCHANGED <<rx, netbuf>> /\ rx_head' = 0 /\ rx_tail' = 0 /\ ~connected
    BY <1>1, <2>1 DEF try_connect, OpenResolve
  <2>3. CASE e = "ERR_MEM"
    <3>1. CloseTo("ERROR") /\ Dropped
      BY <2>1, <2>3 DEF OpenResolve
    <3> QED BY <1>d, <2>2, <3>1
  <2>4. CASE e # "ERR_MEM"
    <3>1. pc' = "dns" /\ ~connected' /\ wire' = <<>> /\ sent' = sent
      BY <2>1, <2>2, <2>4 DEF OpenResolve, CloseTo
    <3> QED BY <1>z, <2>2, <3>1 DEF StreamInv, StreamTypeOK
  <2> QED BY <2>3, <2>4
<1>2. CASE Connect
  <2>1. CASE OpenConnect /\ pc' = "tcp" /\ UNCHANGED connected
    <3>1. /\ pc = "dns" /\ ~connected' /\ sent' = 0 /\ wire = <<>> /\ rx_head = 0 /\ rx_tail = 0
          /\ UNCHANGED <<rx, rx_head, rx_tail, wire, netbuf>>
      BY <1>2, <1>t, <2>1 DEF Connect, OpenConnect, StreamInv
    <3> QED BY <1>z, <2>1, <3>1 DEF StreamInv, StreamTypeOK
  <2>2. CASE OpenFails /\ Dropped
    BY <1>2, <1>d, <2>2 DEF OpenFails, Connect
  <2> QED BY <1>2, <2>1, <2>2 DEF Connect
<1>3. CASE OpenTimeout
  BY <1>3, <1>d DEF OpenTimeout, OpenFails
<1>4. CASE Settled
  <2>1. CASE state = "UP"
    <3>1. /\ pc = "tcp" /\ pc' = "connack" /\ ~connected' /\ netbuf' = <<>>
          /\ UNCHANGED <<rx, rx_head, rx_tail, sent, wire>>
      BY <1>4, <1>t, <2>1 DEF Settled, ctx, lwip
    <3>2. rx_head = 0 /\ rx_tail = 0
      BY <3>1 DEF StreamInv
    <3>3. (0 - 0) % Index = 0
      BY <1>z, Sizes, SmallMod
    <3>4. ring_used' = 0
      BY <3>1, <3>2, <3>3 DEF ring_used
    <3>5. RingHolds' /\ BufferHolds'
      BY <3>1, <3>4, Sizes DEF RingHolds, BufferHolds
    <3>6. StreamTypeOK'
      BY <3>1, Sizes DEF StreamInv, StreamTypeOK
    <3> QED BY <3>1, <3>5, <3>6 DEF StreamInv
  <2>2. CASE state # "UP"
    BY <1>4, <1>d, <2>2 DEF Settled, OpenFails
  <2> QED BY <2>1, <2>2
<1>5. CASE Connected
  BY <1>5, ConnectedStream
<1>6. CASE ConnectFails \/ LoopFails
  BY <1>6, <1>d DEF ConnectFails, LoopFails, drop, Unread
<1>7. CASE Loop
  BY <1>7, LoopStream
<1>8. CASE Pumped
  <2>0. UNCHANGED <<pc, connected, netbuf>>
    BY <1>8 DEF Pumped, mqtt
  <2>1. CASE on_recv
    BY <2>0, <2>1, OnRecvStream
  <2>2. CASE on_recv_closed \/ on_err \/ on_connected \/ on_dns
    <3>1. UNCHANGED <<rx, rx_head, rx_tail, sent>> /\ wire' \in {wire, <<>>}
      BY <2>2 DEF on_recv_closed, on_err, on_connected, on_dns
    <3>2. wire' \in Seq(Segments) /\ (pc \in {"dns", "tcp"} => wire' = <<>>)
      BY <1>z, <3>1 DEF StreamInv, StreamTypeOK
    <3> QED BY <1>0, <2>0, <3>1, <3>2
  <2> QED BY <1>8, <2>1, <2>2 DEF Pumped, Callback
<1>9. CASE Broker
  <2>1. PICK n \in Segments : wire' = Append(wire, n)
    BY <1>9 DEF Broker, BrokerSends
  <2>2. wire' \in Seq(Segments)
    BY <2>1 DEF StreamInv, StreamTypeOK
  <2>3. ~(pc \in {"dns", "tcp"})
    BY <1>9, <1>t DEF Broker
  <2> QED BY <1>0, <1>9, <2>2, <2>3 DEF Broker, BrokerSends, ctx, mqtt
<1>10. CASE NotDue \/ BrokerDies \/ Break \/ Mend \/ Tick \/ UNCHANGED vars
  <2>1. UNCHANGED <<rx, rx_head, rx_tail, sent, netbuf, pc, connected, wire>>
    BY <1>10 DEF NotDue, BrokerDies, Dies, Break, Mend, Tick, vars, ctx, lwip, mqtt
  <2> QED BY <1>0, <2>1 DEF StreamInv, StreamTypeOK
<1> QED BY <1>1, <1>2, <1>3, <1>4, <1>5, <1>6, <1>7, <1>8, <1>9, <1>10 DEF Next, Service

\* The bytes MQTT reads are the broker's, in order, none lost or repeated, for
\* every size of the ring that divides the range of its indices: on_recv and
\* mqtt_transport_recv, also when the indices wrap.
THEOREM StreamsInOrder == Spec => []StreamInOrder
<1>1. Init => StreamInv
  <2> SUFFICES ASSUME Init
               PROVE  StreamInv
    OBVIOUS
  <2>1. /\ 0 \in 0..(Index - 1) /\ <<>> \in Seq(Segments) /\ <<>> \in Seq(Int)
        /\ Len(<<>>) <= NET_BUF_SIZE
    BY Sizes
  <2>2. StreamTypeOK
    BY <2>1 DEF Init, TransportInit, StreamTypeOK
  <2> QED BY <2>2 DEF Init, StreamInv
<1>2. StreamInv => StreamInOrder
  <2> SUFFICES ASSUME StreamInv, connected \/ pc = "connack"
               PROVE  StreamInOrder
    BY DEF StreamInOrder
  <2>1. StreamTypeOK /\ RingHolds /\ BufferHolds
    BY DEF StreamInv
  <2> DEFINE bytes == netbuf \o Peek(ring_used)
  <2>u. ring_used \in 0..(Index - 1) /\ Index \in Nat
    BY <2>1, HeadSlot, Sizes
  <2>2. ring_used \in 0..ring_used /\ sent - (ring_used - ring_used) = sent
    BY <2>1, <2>u DEF StreamTypeOK
  <2>3. /\ bytes \in Seq(Int)
        /\ \A i \in 1..Len(bytes) :
             bytes[i] = (sent - (ring_used - ring_used) - Len(bytes) + i - 1) % Index
    BY <2>1, <2>2, Prefix
  <2> HIDE DEF bytes
  <2>4. \A i \in DOMAIN bytes : bytes[i] = (sent - Len(bytes) + i - 1) % Index
    <3>1. DOMAIN bytes = 1..Len(bytes)
      BY <2>3
    <3> QED BY <2>2, <2>3, <3>1
  <2> QED BY <2>1, <2>4 DEF StreamInOrder, RingHolds, bytes
<1> QED BY <1>1, <1>2, StreamStep, TimesKept, PTL DEF Spec
==============================================================================
