------------------------------ MODULE PtpSlave ------------------------------
(***************************************************************************)
(* The PTP slave of port/ptp: the protocol engine of ptp_core.c, the servo *)
(* of ptp_servo.c and the stepped clock of ptp_clock.c behind the UDP      *)
(* ports of ptp_lwip_raw.c, with the masters it listens to and a network   *)
(* that loses, repeats and reorders.                                       *)
(*                                                                         *)
(* Time is kept as offsets from one true time: clock is the slave's,       *)
(* time[m] master m's. A message sent at true time s and stamped at        *)
(* s + delay then carries plain integers, and a difference of two stamps   *)
(* is a difference of offsets, plus INTERVAL for each Sync period that     *)
(* separates the messages they belong to. Sequence numbers are ages: 0 is  *)
(* the sender's latest, 1 the one before; older messages are gone. An      *)
(* epoch is kept as "cur", whether the clock was not stepped since. A unit *)
(* is above the servo's step threshold: slewing and drift are below it.    *)
(***************************************************************************)
EXTENDS Integers, Sequences, FiniteSets

CONSTANTS
  Masters,            \* the PTP masters on the link
  Best,               \* the one with the better Announce dataset
  NoMaster,           \* LISTENING
  OneStep,            \* the masters that put t1 in the Sync itself
  PathDelay,          \* [Masters -> Nat], the same in both directions
  Times,              \* [Masters -> SUBSET Int], where a master's time may be
  Lates,              \* how late a Sync may be stamped
  INTERVAL,           \* true time between two Syncs
  PTP_DELAY_WIN, PTP_DELAY_MAX, PTP_SERVO_STEP, PTP_SERVO_OUTLIERS,
  ANNOUNCE_TIMEOUT,   \* in polls
  DREQ_MIN            \* in polls, the 900 ms of ptp_core_poll

ASSUME PtpAssumption ==
  /\ NoMaster \notin Masters
  /\ PathDelay \in [Masters -> Nat] /\ Times \in [Masters -> SUBSET Int]
  /\ \A m \in Masters : \E t \in Times[m] : \A u \in Times[m] : t <= u
  /\ Lates \subseteq Nat /\ INTERVAL \in Nat
  /\ PTP_DELAY_WIN \in Nat \ {0} /\ PTP_DELAY_MAX \in Nat
  /\ PTP_SERVO_STEP \in Nat /\ PTP_SERVO_OUTLIERS \in Nat

Abs(x) == IF x < 0 THEN -x ELSE x
Half(x) == IF x < 0 THEN -((-x) \div 2) ELSE x \div 2     \* C's x / 2

\* Lateness and jumps are gross: a sample that has one is not plausible.
ASSUME GrossAssumption ==
  \A m \in Masters : \A late \in Lates, t, u \in Times[m] :
    late + (u - t) # 0 =>
      Abs(Half(2 * PathDelay[m] + late + (u - t))) > PTP_DELAY_MAX

VARIABLES
  udp,                                            \* ptp_lwip_raw.c, net_demo.c
  clock, servo,                                   \* ptp_clock.c, ptp_servo.c
  master, since_announce, sync, ms, dreq,         \* the struct PtpCore g
  since_dreq, delay_win,
  time, t1, asked, resp, calm                     \* the masters, the network

vars == <<udp, clock, servo, master, since_announce, sync, ms, dreq, since_dreq,
          delay_win, time, t1, asked, resp, calm>>
Network == <<time, t1, asked, resp, calm>>
Below == <<udp, Network>>

Unlocked == [state |-> "UNLOCKED", outliers |-> 0, ref |-> 2]
NoSync == [waiting |-> FALSE, age |-> 2, t2 |-> 0, cur |-> FALSE]
NoLeg == [valid |-> FALSE, leg |-> 0, cur |-> FALSE]
NoReq == [due |-> FALSE, outstanding |-> FALSE, t3 |-> 0, cur |-> FALSE]

Older(age) == IF age < 2 THEN age + 1 ELSE 2

\* Mutant: the first master heard is kept.
SticksToFirst(m) == FALSE

\* dataset_cmp(&ds, &g.master) < 0: the datasets are ordered, Best's first.
Better(m) == m = Best /\ master # Best

-----------------------------------------------------------------------------
(* The delay filter: a window of samples and its median.                   *)

\* Place k of w when it is sorted: less than k elements are below it.
Sorted(w, k) ==
  CHOOSE x \in {w[i] : i \in DOMAIN w} :
    /\ Cardinality({i \in DOMAIN w : w[i] < x}) < k
    /\ Cardinality({i \in DOMAIN w : w[i] <= x}) >= k

Median(w) ==
  LET n == Len(w)
  IN  IF n % 2 = 1 THEN Sorted(w, (n \div 2) + 1)
                   ELSE Half(Sorted(w, n \div 2) + Sorted(w, (n \div 2) + 1))

delay_ns == IF delay_win = <<>> THEN -1 ELSE Median(delay_win)

delay_add(sample) ==
  delay_win' = IF Len(delay_win) < PTP_DELAY_WIN
               THEN Append(delay_win, sample)
               ELSE Append(Tail(delay_win), sample)

-----------------------------------------------------------------------------
(* The servo: what one sample makes of it, and whether it steps the clock. *)
(* "age" stands for rx_cnt: a repeated Sync comes within 1/8 s of itself.  *)

Stepped(s, age, step) ==
  [servo |-> [state |-> s, outliers |-> 0,
              ref |-> IF s = "STEPPED" THEN age ELSE 2],
   steps |-> TRUE, step |-> step]
Stays(sv) == [servo |-> sv, steps |-> FALSE, step |-> 0]

ptp_servo_sample(raw, age) ==
  LET d == IF delay_ns >= 0 THEN delay_ns ELSE 0
      offset == raw - d
  IN  CASE servo.state = "UNLOCKED" -> Stepped("STEPPED", age, -offset)
        [] servo.state = "STEPPED" /\ age = servo.ref -> Stays(servo)
        [] servo.state = "STEPPED" /\ age # servo.ref /\ delay_ns >= 0 ->
             Stepped("LOCKED", age, -offset)
        [] servo.state = "STEPPED" /\ age # servo.ref /\ delay_ns < 0 ->
             Stays([servo EXCEPT !.ref = age])
        [] servo.state = "LOCKED" /\ Abs(offset) <= PTP_SERVO_STEP ->
             Stays([servo EXCEPT !.outliers = 0])
        [] servo.state = "LOCKED" /\ Abs(offset) > PTP_SERVO_STEP ->
             IF servo.outliers + 1 >= PTP_SERVO_OUTLIERS
             THEN Stepped("STEPPED", age, -offset)
             ELSE Stays([servo EXCEPT !.outliers = @ + 1])

-----------------------------------------------------------------------------
(* The handlers.                                                           *)

\* Mutant: the servo is not reset with the measurements.
ResetKeepsServo ==
  /\ sync' = NoSync /\ ms' = NoLeg /\ dreq' = NoReq
  /\ delay_win' = <<>>
  /\ UNCHANGED servo

reset_measurements ==
  /\ sync' = NoSync /\ ms' = NoLeg /\ dreq' = NoReq
  /\ delay_win' = <<>>
  /\ servo' = Unlocked

\* The timeout and the master's refresh are stamped with the last poll's time.
handle_announce(m) ==
  /\ \/ /\ m = master
        /\ UNCHANGED <<master, sync, ms, dreq, delay_win, servo>>
     \/ /\ m # master
        /\ master = NoMaster \/ Better(m)
        /\ master' = m
        /\ reset_measurements
  /\ since_announce' = 0
  /\ UNCHANGED <<clock, since_dreq, Below>>

\* sy is the Sync whose t2 is used, t the t1 and age that of its message.
sync_complete(sy, t, age) ==
  IF ~ sy.cur
  THEN UNCHANGED <<clock, servo, ms, dreq>>
  ELSE \E raw \in {sy.t2 - t + (INTERVAL * (age - sy.age))} :
       \E out \in {ptp_servo_sample(raw, sy.age)} :
         /\ servo' = out.servo
         /\ clock' = clock + out.step
         /\ ms' = IF out.steps THEN NoLeg
                  ELSE [valid |-> TRUE, leg |-> raw, cur |-> TRUE]
         /\ dreq' = [dreq EXCEPT !.due = TRUE, !.cur = @ /\ ~ out.steps]

handle_sync(m, age, late) ==
  /\ m = master
  /\ \E sy \in {[waiting |-> m \notin OneStep, age |-> age, cur |-> TRUE,
                 t2 |-> clock + PathDelay[m] + late]} :
       IF sy.waiting
       THEN sync' = sy /\ UNCHANGED <<clock, servo, ms, dreq>>
       ELSE sync' = NoSync /\ sync_complete(sy, t1[m][age + 1], age)
  /\ UNCHANGED <<master, since_announce, since_dreq, delay_win, Below>>

handle_follow_up(m, age) ==
  /\ m = master /\ m \notin OneStep
  /\ sync.waiting /\ age = sync.age
  /\ sync' = NoSync /\ sync_complete(sync, t1[m][age + 1], age)
  /\ UNCHANGED <<master, since_announce, since_dreq, delay_win, Below>>

\* Mutant: the epoch of t3 is not looked at.
SameIgnoresT3 == ms.valid /\ ms.cur

\* t3 and the leg master to slave are from before no step of the clock.
SameTimescale == dreq.cur /\ ms.valid /\ ms.cur

Matches(r) == r.from = master /\ dreq.outstanding /\ r.age = 0

handle_delay_resp(r) ==
  /\ Matches(r)
  /\ dreq' = [NoReq EXCEPT !.due = dreq.due]
  /\ LET sm == r.t4 - dreq.t3 - (INTERVAL * r.age)
         sample == Half(ms.leg + sm)
     IN  IF SameTimescale /\ Abs(sample) <= PTP_DELAY_MAX
         THEN delay_add(sample)
         ELSE UNCHANGED delay_win
  /\ UNCHANGED <<clock, servo, master, since_announce, sync, ms, since_dreq,
                 Below>>

\* No pbuf, or udp_sendto fails; a calm network's host has memory.
tx_fn(sent) == sent \/ ~ calm

\* The request leaves, or the transport refuses it; the number is used up.
send_delay_req ==
  \E sent \in BOOLEAN :
    /\ tx_fn(sent)
    /\ dreq' = IF sent
               THEN [due |-> FALSE, outstanding |-> TRUE, t3 |-> clock,
                     cur |-> TRUE]
               ELSE [dreq EXCEPT !.due = FALSE]
    /\ asked' = sent
    /\ resp' = {[r EXCEPT !.age = 1] : r \in {q \in resp : q.age = 0}}
    /\ since_dreq' = 0

TimedOut == master # NoMaster /\ since_announce + 1 > ANNOUNCE_TIMEOUT
ReqDue == dreq.due /\ servo.state # "UNLOCKED" /\ since_dreq + 1 >= DREQ_MIN

\* A calm network answers, and the best master announces, between two polls.
Prompt ==
  calm => /\ master = Best => since_announce < ANNOUNCE_TIMEOUT
          /\ ~ (dreq.outstanding /\ asked)
          /\ \A r \in resp : ~ Matches(r)

Aged == since_dreq' = IF since_dreq + 1 < DREQ_MIN THEN since_dreq + 1
                                                   ELSE since_dreq

PollTimeout ==
  /\ Prompt /\ TimedOut
  /\ master' = NoMaster /\ since_announce' = 0
  /\ reset_measurements
  /\ Aged
  /\ UNCHANGED <<clock, Below>>

PollRequest ==
  /\ Prompt /\ ~ TimedOut /\ ReqDue
  /\ send_delay_req
  /\ since_announce' = since_announce + 1
  /\ UNCHANGED <<clock, servo, master, sync, ms, delay_win, udp, time, t1,
                 calm>>

PollIdle ==
  /\ Prompt /\ ~ TimedOut /\ ~ ReqDue
  /\ Aged
  /\ since_announce' = IF master = NoMaster THEN 0 ELSE since_announce + 1
  /\ UNCHANGED <<clock, servo, master, sync, ms, dreq, delay_win, Below>>

ptp_core_poll == PollTimeout \/ PollRequest \/ PollIdle

-----------------------------------------------------------------------------
(* Bring-up. Either port may fail to open, and the other one then stays    *)
(* open: its callback is called, while ptp_raw_poll does nothing.          *)

Closed == [s_bound |-> FALSE, s_ev |-> FALSE, s_gen |-> FALSE, s_started |-> FALSE]

ptp_raw_start ==
  \E ev, gen \in BOOLEAN :
    udp' = [s_bound |-> TRUE, s_ev |-> ev, s_gen |-> gen, s_started |-> ev /\ gen]

\* net_pump starts the services once, when the lease is there.
net_pump ==
  /\ ~ udp.s_bound /\ ptp_raw_start
  /\ UNCHANGED <<clock, servo, master, since_announce, sync, ms, dreq, since_dreq,
                 delay_win, Network>>

ptp_raw_poll == udp.s_started /\ ptp_core_poll

-----------------------------------------------------------------------------
(* The masters and the network. What was sent and not yet replaced by a    *)
(* second newer message may arrive, in any order, any number of times.     *)

Slave == <<udp, clock, master, since_announce, ms, dreq, since_dreq, delay_win>>

SendSync(m) ==
  /\ calm => m = Best
  /\ t1' = [t1 EXCEPT ![m] = <<time[m], @[1]>>]
  /\ IF m = master
     THEN /\ sync' = [sync EXCEPT !.age = Older(@)]
          /\ servo' = [servo EXCEPT !.ref = Older(@)]
     ELSE UNCHANGED <<sync, servo>>
  /\ UNCHANGED <<Slave, time, asked, resp, calm>>

Answer(m) ==
  /\ asked /\ asked' = FALSE
  /\ calm => m = master
  /\ resp' = {[from |-> m, age |-> 0, t4 |-> time[m] + PathDelay[m]]}
  /\ UNCHANGED <<Slave, servo, sync, time, t1, calm>>

\* A master's time is set forward, by more than any delay.
Jump(m) ==
  /\ ~ calm
  /\ \E t \in Times[m] : t > time[m] /\ time' = [time EXCEPT ![m] = t]
  /\ UNCHANGED <<Slave, servo, sync, t1, asked, resp, calm>>

CalmDown ==
  /\ ~ calm /\ calm' = TRUE
  /\ UNCHANGED <<Slave, servo, sync, time, t1, asked, resp>>

Init ==
  /\ udp = Closed
  /\ clock = 0 /\ servo = Unlocked
  /\ master = NoMaster /\ since_announce = 0
  /\ sync = NoSync /\ ms = NoLeg /\ dreq = NoReq
  /\ since_dreq = DREQ_MIN - 1 /\ delay_win = <<>>
  /\ time = [m \in Masters |-> CHOOSE t \in Times[m] :
                                \A u \in Times[m] : t <= u]
  /\ t1 = [m \in Masters |-> <<time[m], time[m]>>]
  /\ asked = FALSE /\ resp = {} /\ calm = FALSE

SyncArrives(m) ==
  \E age \in 0..1, late \in Lates :
    (calm => late = 0) /\ handle_sync(m, age, late)
RespArrives(m) == \E r \in resp : r.from = m /\ handle_delay_resp(r)

\* Sync comes to the event port, the rest to the general one.
rx_cb(m) ==
  \/ udp.s_ev /\ SyncArrives(m)
  \/ /\ udp.s_gen
     /\ \/ handle_announce(m)
        \/ \E age \in 0..1 : handle_follow_up(m, age)
        \/ RespArrives(m)

Next ==
  \/ net_pump
  \/ ptp_raw_poll
  \/ CalmDown
  \/ \E m \in Masters :
       rx_cb(m) \/ SendSync(m) \/ Jump(m) \/ Answer(m)

Fairness ==
  /\ WF_vars(ptp_raw_poll) /\ WF_vars(CalmDown)
  /\ WF_vars(udp.s_started /\ handle_announce(Best))
  /\ WF_vars(udp.s_started /\ SyncArrives(Best))
  /\ WF_vars(SendSync(Best)) /\ WF_vars(Answer(Best) \/ (udp.s_started /\ RespArrives(Best)))

Spec == Init /\ [][Next]_vars /\ Fairness

-----------------------------------------------------------------------------
(* Every sample in the delay window is the path delay of the current       *)
(* master: whatever was lost, repeated or reordered, whenever the clock    *)
(* was stepped, the master changed or its own time jumped between the two  *)
(* halves of the exchange (the checks of handle_delay_resp, the reset of   *)
(* handle_announce and of the timeout).                                    *)
DelayIsPathDelay ==
  \A i \in DOMAIN delay_win : delay_win[i] = PathDelay[master]

(* A LOCKED servo means a clock on a time its own master had, off at most  *)
(* by the lateness of the one Sync it locked on: never off by the path     *)
(* delay, by a Sync period, or on the time of a master it has left.        *)
LockedOnMaster ==
  servo.state = "LOCKED" =>
    /\ master # NoMaster
    /\ \E t \in Times[master], late \in Lates : clock = t - late

(* Once the network is calm, a slave that was started ends up LOCKED on    *)
(* the best master's time and stays there, from whatever state loss,       *)
(* lateness, jumps and changes of master left it in.                       *)
Synchronises ==
  <>[](udp.s_started =>
         servo.state = "LOCKED" /\ master = Best /\ clock = time[Best])
=============================================================================
