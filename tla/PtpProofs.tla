------------------------------ MODULE PtpProofs ------------------------------
(***************************************************************************)
(* The safety of the PTP slave for every number of masters, every path     *)
(* delay, lateness and jump of a master's time, and every window of the    *)
(* delay filter.                                                           *)
(***************************************************************************)
EXTENDS PtpSlave, Arithmetic, SequenceTheorems, FiniteSetTheorems

-----------------------------------------------------------------------------
(* The median of delay_add.                                                *)

\* Each place of a sorted window has an element of the window.
LEMMA SortedElement ==
  ASSUME NEW w \in Seq(Int), NEW k \in 1..Len(w)
  PROVE  \E i \in 1..Len(w) : Sorted(w, k) = w[i]
<1> DEFINE n == Len(w)
           Under(x) == {j \in 1..n : w[j] < x}
           UpTo(x) == {j \in 1..n : w[j] <= x}
           D == {i \in 1..n : Cardinality(UpTo(w[i])) >= k}
<1>0. n \in Nat /\ w \in [1..n -> Int] /\ DOMAIN w = 1..n /\ k \in Nat /\ k > 0 /\ k <= n
  OBVIOUS
<1> HIDE DEF n
<1>1. IsFiniteSet(1..n) /\ Cardinality(1..n) = n
  BY <1>0, FS_Interval
<1>2. \A x : Cardinality(Under(x)) \in Nat /\ Cardinality(UpTo(x)) \in Nat
  <2> TAKE x
  <2>1. Under(x) \subseteq 1..n /\ UpTo(x) \subseteq 1..n
    OBVIOUS
  <2>2. IsFiniteSet(Under(x)) /\ IsFiniteSet(UpTo(x))
    BY <1>1, <2>1, FS_Subset
  <2> QED BY <2>2, FS_CardinalityType
<1>3. D # {}
  <2>1. 1..n \in SUBSET (1..n) /\ 1..n # {}
    BY <1>0
  <2>2. PICK i \in 1..n : \A j \in 1..n : w[j] <= w[i]
    BY <1>0, <2>1, GreatestElement
  <2>3. UpTo(w[i]) = 1..n
    BY <2>2
  <2>4. i \in D
    BY <1>0, <1>1, <2>3
  <2> QED BY <2>4
<1>4. PICK i \in D : \A j \in D : w[i] <= w[j]
  BY <1>0, <1>3, LeastElement
<1>5. Cardinality(Under(w[i])) < k
  <2>1. CASE Under(w[i]) = {}
    BY <1>0, <2>1, FS_EmptySet
  <2>2. CASE Under(w[i]) # {}
    <3>1. PICK e \in Under(w[i]) : \A j \in Under(w[i]) : w[j] <= w[e]
      BY <1>0, <2>2, GreatestElement
    <3>2. w[i] \in Int /\ w[e] \in Int /\ w[e] < w[i] /\ e \in 1..n
      BY <1>0, <1>4, <3>1
    <3>3. Under(w[i]) = UpTo(w[e])
      <4>1. ASSUME NEW j \in 1..n
            PROVE  w[j] < w[i] <=> w[j] <= w[e]
        <5>1. w[j] \in Int
          BY <1>0
        <5> QED BY <3>1, <3>2, <5>1
      <4> QED BY <4>1
    <3>4. e \notin D
      BY <1>4, <3>2
    <3>5. ~(Cardinality(UpTo(w[e])) >= k)
      BY <3>2, <3>4
    <3>6. Cardinality(UpTo(w[e])) \in Nat
      BY <1>2
    <3> HIDE DEF UpTo, Under
    <3> QED BY <1>0, <3>3, <3>5, <3>6
  <2> QED BY <2>1, <2>2
<1>6. Cardinality(UpTo(w[i])) >= k /\ i \in 1..n
  BY <1>4
<1>7. \E x \in {w[j] : j \in 1..n} :
        Cardinality(Under(x)) < k /\ Cardinality(UpTo(x)) >= k
  BY <1>5, <1>6
<1>8. Sorted(w, k) \in {w[j] : j \in 1..n}
  BY <1>0, <1>7 DEF Sorted
<1> QED BY <1>8 DEF n

\* C's division by two.
LEMMA HalfOf == \A x \in Int : Half(x) \in Int /\ Half(2 * x) = x
BY Z3 DEF Half

LEMMA HalfBetween ==
  ASSUME NEW lo \in Int, NEW hi \in Int, NEW a \in lo..hi, NEW b \in lo..hi
  PROVE  Half(a + b) \in lo..hi
BY Z3 DEF Half

\* The median of integers between two bounds is between them.
LEMMA MedianBetween ==
  ASSUME NEW w \in Seq(Int), w # <<>>, NEW lo \in Int, NEW hi \in Int,
         \A i \in 1..Len(w) : w[i] \in lo..hi
  PROVE  Median(w) \in lo..hi
<1> DEFINE n == Len(w)
<1>0. n \in Nat \ {0}
  BY EmptySeq, LenProperties
<1>1. (n \div 2) + 1 \in 1..n /\ (n % 2 # 1 => n \div 2 \in 1..n)
  BY <1>0, Z3
<1>2. Sorted(w, (n \div 2) + 1) \in lo..hi
  BY <1>1, SortedElement
<1>3. n % 2 # 1 => Sorted(w, n \div 2) \in lo..hi
  BY <1>1, SortedElement
<1>4. CASE n % 2 = 1
  BY <1>2, <1>4 DEF Median
<1>5. CASE n % 2 # 1
  <2> DEFINE a == Sorted(w, n \div 2)   b == Sorted(w, (n \div 2) + 1)
  <2>1. Median(w) = Half(a + b)
    BY <1>5 DEF Median
  <2>2. a \in lo..hi /\ b \in lo..hi
    BY <1>2, <1>3, <1>5
  <2> HIDE DEF a, b, n
  <2> QED BY <2>1, <2>2, HalfBetween
<1> QED BY <1>4, <1>5

\* And so is the median of any integers an integer.
LEMMA MedianType ==
  ASSUME NEW w \in Seq(Int), w # <<>>
  PROVE  Median(w) \in Int
<1> DEFINE n == Len(w)
<1>0. n \in Nat \ {0} /\ w \in [1..n -> Int] /\ 1..n # {}
  BY EmptySeq, LenProperties
<1> HIDE DEF n
<1>1. PICK i \in 1..n : \A j \in 1..n : w[i] <= w[j]
  BY <1>0, LeastElement
<1>2. PICK k \in 1..n : \A j \in 1..n : w[j] <= w[k]
  BY <1>0, GreatestElement
<1>3. w[i] \in Int /\ w[k] \in Int /\ \A j \in 1..n : w[j] \in w[i]..w[k]
  BY <1>0, <1>1, <1>2
<1>4. Median(w) \in w[i]..w[k]
  BY <1>3, MedianBetween DEF n
<1> QED BY <1>3, <1>4

-----------------------------------------------------------------------------
(* The network: what the masters say is from a time they had.              *)

Answers == [from : Masters, age : 0..1, t4 : Int]

NetInv ==
  /\ time \in [Masters -> Int] /\ \A m \in Masters : time[m] \in Times[m]
  /\ t1 \in [Masters -> Int \X Int]
  /\ \A m \in Masters : t1[m][1] \in Times[m] /\ t1[m][2] \in Times[m]
  /\ resp \in SUBSET Answers
  /\ \A r \in resp : \E u \in Times[r.from] : r.t4 = u + PathDelay[r.from]

LEMMA Constants ==
  /\ NoMaster \notin Masters
  /\ \A m \in Masters : PathDelay[m] \in Nat /\ Times[m] \in SUBSET Int
  /\ Lates \subseteq Nat /\ INTERVAL \in Nat
BY PtpAssumption

LEMMA NetStep == NetInv /\ [Next]_vars => NetInv'
<1> SUFFICES ASSUME NetInv, [Next]_vars
             PROVE  NetInv'
  OBVIOUS
<1>0. CASE UNCHANGED <<time, t1, resp>>
  BY <1>0 DEF NetInv
<1>1. ASSUME NEW m \in Masters, SendSync(m)
      PROVE  NetInv'
  <2>1. t1' = [t1 EXCEPT ![m] = <<time[m], t1[m][1]>>] /\ time' = time /\ resp' = resp
    BY <1>1 DEF SendSync
  <2>2. time[m] \in Times[m] /\ t1[m][1] \in Times[m] /\ time[m] \in Int /\ t1[m][1] \in Int
    BY Constants DEF NetInv
  <2>3. t1' \in [Masters -> Int \X Int]
    BY <2>1, <2>2 DEF NetInv
  <2>4. ASSUME NEW k \in Masters
        PROVE  t1'[k][1] \in Times[k] /\ t1'[k][2] \in Times[k]
    BY <2>1, <2>2 DEF NetInv
  <2> QED BY <2>1, <2>3, <2>4 DEF NetInv
<1>2. ASSUME NEW m \in Masters, Answer(m)
      PROVE  NetInv'
  <2> DEFINE r == [from |-> m, age |-> 0, t4 |-> time[m] + PathDelay[m]]
  <2>1. resp' = {r} /\ time' = time /\ t1' = t1
    BY <1>2 DEF Answer
  <2>2. r \in Answers
    BY Constants DEF Answers, NetInv
  <2>3. time[r.from] \in Times[r.from] /\ r.t4 = time[r.from] + PathDelay[r.from]
    BY DEF NetInv
  <2> QED BY <2>1, <2>2, <2>3 DEF NetInv
<1>3. ASSUME NEW m \in Masters, Jump(m)
      PROVE  NetInv'
  <2>1. PICK t \in Times[m] : time' = [time EXCEPT ![m] = t]
    BY <1>3 DEF Jump
  <2>2. t \in Int /\ t1' = t1 /\ resp' = resp
    BY <1>3, Constants DEF Jump
  <2> QED BY <2>1, <2>2 DEF NetInv
<1>4. ASSUME PollRequest
      PROVE  NetInv'
  <2>1. /\ resp' = {[r EXCEPT !.age = 1] : r \in {q \in resp : q.age = 0}}
        /\ time' = time /\ t1' = t1
    BY <1>4 DEF PollRequest, send_delay_req
  <2>2. ASSUME NEW s \in resp'
        PROVE  s \in Answers /\ \E u \in Times[s.from] : s.t4 = u + PathDelay[s.from]
    <3>1. PICK r \in resp : s = [r EXCEPT !.age = 1]
      BY <2>1
    <3>2. s \in Answers /\ s.from = r.from /\ s.t4 = r.t4
      BY <3>1 DEF NetInv, Answers
    <3> QED BY <3>1, <3>2 DEF NetInv
  <2> QED BY <2>1, <2>2 DEF NetInv
<1>5. CASE net_pump \/ PollTimeout \/ PollIdle \/ CalmDown
  BY <1>0, <1>5 DEF net_pump, PollTimeout, PollIdle, CalmDown, Network, Below
<1>6. ASSUME NEW m \in Masters, rx_cb(m)
      PROVE  NetInv'
  <2>1. UNCHANGED Below
    BY <1>6 DEF rx_cb, SyncArrives, handle_sync, handle_announce, handle_follow_up,
                RespArrives, handle_delay_resp
  <2> QED BY <1>0, <2>1 DEF Below, Network
<1>7. CASE UNCHANGED vars
  BY <1>0, <1>7 DEF vars
<1> QED BY <1>1, <1>2, <1>3, <1>4, <1>5, <1>6, <1>7 DEF Next, ptp_raw_poll, ptp_core_poll

LEMMA NetInit == Init => NetInv
<1> SUFFICES ASSUME Init
             PROVE  NetInv
  OBVIOUS
<1>1. ASSUME NEW m \in Masters
      PROVE  time[m] \in Times[m] /\ time[m] \in Int
  <2>1. \E t \in Times[m] : \A u \in Times[m] : t <= u
    BY PtpAssumption
  <2>2. time[m] = CHOOSE t \in Times[m] : \A u \in Times[m] : t <= u
    BY DEF Init
  <2>3. time[m] \in Times[m]
    BY <2>1, <2>2
  <2> QED BY <2>3, Constants
<1>2. time \in [Masters -> Int]
  BY <1>1 DEF Init
<1>3. t1 = [m \in Masters |-> <<time[m], time[m]>>] /\ resp = {}
  BY DEF Init
<1>4. t1 \in [Masters -> Int \X Int]
  BY <1>1, <1>3
<1>5. \A m \in Masters : t1[m][1] \in Times[m] /\ t1[m][2] \in Times[m]
  BY <1>1, <1>3
<1> QED BY <1>1, <1>2, <1>3, <1>4, <1>5 DEF NetInv

-----------------------------------------------------------------------------
(* The slave: the two halves of an exchange belong to one timescale.       *)

Servos == [state : {"UNLOCKED", "STEPPED", "LOCKED"}, outliers : Nat, ref : 0..2]
Syncs == [waiting : BOOLEAN, age : 0..2, t2 : Int, cur : BOOLEAN]
Legs == [valid : BOOLEAN, leg : Int, cur : BOOLEAN]
Reqs == [due : BOOLEAN, outstanding : BOOLEAN, t3 : Int, cur : BOOLEAN]

SlaveTypeOK ==
  /\ clock \in Int /\ servo \in Servos /\ master \in Masters \cup {NoMaster}
  /\ sync \in Syncs /\ ms \in Legs /\ dreq \in Reqs /\ delay_win \in Seq(Int)

\* The t2 of a Sync that waits for its Follow_Up is on the clock as it is.
SyncInv ==
  sync.waiting =>
    /\ master # NoMaster /\ sync.cur
    /\ \E late \in Lates : sync.t2 = clock + PathDelay[master] + late

\* So is the leg from the master, which has the t1 of that master.
LegInv ==
  ms.valid =>
    /\ master # NoMaster
    /\ \E late \in Lates, t \in Times[master] :
         ms.leg = clock + PathDelay[master] + late - t

\* And so is the t3 of a request whose epoch is the clock's.
ReqInv == dreq.outstanding /\ dreq.cur => dreq.t3 = clock

\* A plausible sample: half of what the two paths, a lateness and a jump make.
Plausible(x) ==
  /\ Abs(x) <= PTP_DELAY_MAX
  /\ \E late \in Lates, t, u \in Times[master] :
       x = Half(2 * PathDelay[master] + late + (u - t))

\* Every sample in the window is plausible, and of the current master.
SamplesPlausible ==
  /\ master = NoMaster => delay_win = <<>>
  /\ \A i \in 1..Len(delay_win) : Plausible(delay_win[i])

SlaveInv == SlaveTypeOK /\ SyncInv /\ LegInv /\ ReqInv /\ SamplesPlausible

LEMMA Resets ==
  /\ Unlocked \in Servos /\ NoSync \in Syncs /\ NoLeg \in Legs /\ NoReq \in Reqs
  /\ ~NoSync.waiting /\ ~NoLeg.valid /\ ~NoReq.outstanding
BY DEF Unlocked, NoSync, NoLeg, NoReq, Servos, Syncs, Legs, Reqs

LEMMA DelayType == SlaveTypeOK => delay_ns \in Int
BY MedianType DEF SlaveTypeOK, delay_ns

LEMMA OlderType == \A age \in 0..2 : Older(age) \in 0..2
BY DEF Older

\* ptp_servo_sample: it locks by a step that takes the offset off, and only
\* with a delay.
LEMMA ServoSample ==
  ASSUME SlaveTypeOK, NEW raw \in Int, NEW age \in 0..2
  PROVE  LET out == ptp_servo_sample(raw, age)
         IN  /\ out.servo \in Servos /\ out.steps \in BOOLEAN /\ out.step \in Int
             /\ ~out.steps => out.step = 0
             /\ ~out.steps /\ out.servo.state = "LOCKED" => servo.state = "LOCKED"
             /\ out.steps /\ out.servo.state = "LOCKED" =>
                  delay_ns >= 0 /\ out.step = -(raw - delay_ns)
<1> DEFINE d == IF delay_ns >= 0 THEN delay_ns ELSE 0
           offset == raw - d
           out == ptp_servo_sample(raw, age)
<1>0. /\ servo.state \in {"UNLOCKED", "STEPPED", "LOCKED"} /\ servo.outliers \in Nat
      /\ servo.ref \in 0..2 /\ servo \in Servos
  BY DEF SlaveTypeOK, Servos
<1>1. d \in Int /\ offset \in Int /\ -offset \in Int /\ delay_ns \in Int
  BY DelayType
<1>2. Abs(offset) \in Int /\ PTP_SERVO_STEP \in Int
  BY <1>1, PtpAssumption DEF Abs
<1>3. \/ out = Stepped("STEPPED", age, -offset)
      \/ delay_ns >= 0 /\ out = Stepped("LOCKED", age, -offset)
      \/ out = Stays(servo)
      \/ out = Stays([servo EXCEPT !.ref = age])
      \/ servo.state = "LOCKED" /\ out = Stays([servo EXCEPT !.outliers = 0])
      \/ servo.state = "LOCKED" /\ out = Stays([servo EXCEPT !.outliers = @ + 1])
  <2>1. CASE servo.state = "UNLOCKED"
    BY <2>1 DEF ptp_servo_sample
  <2>2. CASE servo.state = "STEPPED" /\ age = servo.ref
    BY <2>2 DEF ptp_servo_sample
  <2>3. CASE servo.state = "STEPPED" /\ age # servo.ref /\ delay_ns >= 0
    BY <2>3 DEF ptp_servo_sample
  <2>4. CASE servo.state = "STEPPED" /\ age # servo.ref /\ ~(delay_ns >= 0)
    BY <1>1, <2>4 DEF ptp_servo_sample
  <2>5. CASE servo.state = "LOCKED" /\ Abs(offset) <= PTP_SERVO_STEP
    BY <2>5 DEF ptp_servo_sample
  <2>6. CASE servo.state = "LOCKED" /\ ~(Abs(offset) <= PTP_SERVO_STEP)
    <3>1. Abs(offset) > PTP_SERVO_STEP
      BY <1>2, <2>6
    <3> HIDE DEF offset
    <3> QED BY <2>6, <3>1 DEF ptp_servo_sample, offset
  <2> QED BY <1>0, <2>1, <2>2, <2>3, <2>4, <2>5, <2>6
<1> HIDE DEF out, offset
<1>4. CASE out = Stepped("STEPPED", age, -offset)
  BY <1>1, <1>4 DEF Stepped, Servos, out
<1>5. CASE delay_ns >= 0 /\ out = Stepped("LOCKED", age, -offset)
  <2>1. -offset = -(raw - delay_ns)
    BY <1>5 DEF offset
  <2> QED BY <1>1, <1>5, <2>1 DEF Stepped, Servos, out
<1>6. CASE out = Stays(servo)
  BY <1>0, <1>6 DEF Stays, out
<1>7. CASE out = Stays([servo EXCEPT !.ref = age])
  <2> DEFINE sv == [servo EXCEPT !.ref = age]
  <2>1. sv \in Servos /\ sv.state = servo.state
    BY <1>0 DEF Servos
  <2>2. out = Stays(sv)
    BY <1>7
  <2> HIDE DEF sv
  <2>3. out.servo = sv /\ ~out.steps /\ out.steps \in BOOLEAN /\ out.step = 0 /\ 0 \in Int
    BY <2>2 DEF Stays
  <2> QED BY <2>1, <2>3 DEF out
<1>8. CASE servo.state = "LOCKED" /\ out = Stays([servo EXCEPT !.outliers = 0])
  <2>1. [servo EXCEPT !.outliers = 0] \in Servos
    BY <1>0 DEF Servos
  <2> QED BY <1>8, <2>1 DEF Stays, out
<1>9. CASE servo.state = "LOCKED" /\ out = Stays([servo EXCEPT !.outliers = @ + 1])
  <2>1. [servo EXCEPT !.outliers = @ + 1] \in Servos
    BY <1>0 DEF Servos
  <2> QED BY <1>9, <2>1 DEF Stays, out
<1> QED BY <1>3, <1>4, <1>5, <1>6, <1>7, <1>8, <1>9

LEMMA ResetInv ==
  ASSUME SlaveInv, reset_measurements, clock' = clock, master' \in Masters \cup {NoMaster}
  PROVE  SlaveInv'
<1>1. /\ servo' \in Servos /\ sync' \in Syncs /\ ms' \in Legs /\ dreq' \in Reqs
      /\ ~sync'.waiting /\ ~ms'.valid /\ ~dreq'.outstanding /\ delay_win' = <<>>
  BY Resets DEF reset_measurements
<1>2. delay_win' \in Seq(Int) /\ 1..Len(delay_win') = {}
  BY <1>1
<1> QED BY <1>1, <1>2 DEF SlaveInv, SlaveTypeOK, SyncInv, LegInv, ReqInv, SamplesPlausible

\* A Sync and its t1: the leg is valid, or the clock was stepped.
LEMMA CompleteInv ==
  ASSUME SlaveInv, master \in Masters, NEW sy \in Syncs, sy.cur, NEW late \in Lates,
         sy.t2 = clock + PathDelay[master] + late, NEW t \in Times[master],
         sync_complete(sy, t, sy.age), sync' = NoSync, UNCHANGED <<master, delay_win>>
  PROVE  SlaveInv'
<1>0. /\ clock \in Int /\ PathDelay[master] \in Int /\ late \in Int /\ t \in Int
      /\ INTERVAL \in Int /\ sy.age \in 0..2 /\ sy.t2 \in Int /\ dreq \in Reqs
  BY Constants DEF SlaveInv, SlaveTypeOK, Syncs
<1> DEFINE raw == sy.t2 - t + (INTERVAL * (sy.age - sy.age))
<1>1. raw = clock + PathDelay[master] + late - t /\ raw \in Int
  <2>1. sy.age - sy.age = 0
    BY <1>0
  <2> QED BY <1>0, <2>1
<1> DEFINE out == ptp_servo_sample(raw, sy.age)
<1>2. /\ servo' = out.servo /\ clock' = clock + out.step
      /\ ms' = IF out.steps THEN NoLeg ELSE [valid |-> TRUE, leg |-> raw, cur |-> TRUE]
      /\ dreq' = [dreq EXCEPT !.due = TRUE, !.cur = @ /\ ~ out.steps]
  BY DEF sync_complete
<1> HIDE DEF raw
<1>3. /\ out.servo \in Servos /\ out.steps \in BOOLEAN /\ out.step \in Int
      /\ ~out.steps => out.step = 0
  BY <1>0, <1>1, ServoSample DEF SlaveInv
<1> HIDE DEF out
<1>4. /\ dreq' \in Reqs /\ dreq'.outstanding = dreq.outstanding /\ dreq'.t3 = dreq.t3
      /\ dreq'.cur => dreq.cur /\ ~out.steps
  BY <1>0, <1>2, <1>3 DEF Reqs
<1>5. SlaveTypeOK'
  <2>1. ms' \in Legs
    BY <1>1, <1>2, Resets DEF Legs
  <2> QED BY <1>0, <1>2, <1>3, <1>4, <2>1, Resets DEF SlaveInv, SlaveTypeOK
<1>6. SyncInv'
  BY Resets DEF SyncInv
<1>7. LegInv'
  <2>1. CASE out.steps
    BY <1>2, <2>1, Resets DEF LegInv
  <2>2. CASE ~out.steps
    <3>1. clock' = clock /\ ms'.leg = raw
      BY <1>0, <1>2, <1>3, <2>2
    <3> QED BY <1>1, <3>1, Constants DEF LegInv
  <2> QED BY <2>1, <2>2
<1>8. ReqInv'
  <2>1. dreq'.cur => clock' = clock
    BY <1>0, <1>2, <1>3, <1>4
  <2> QED BY <1>4, <2>1 DEF SlaveInv, ReqInv
<1>9. SamplesPlausible'
  BY DEF SlaveInv, SamplesPlausible, Plausible
<1> QED BY <1>5, <1>6, <1>7, <1>8, <1>9 DEF SlaveInv

\* handle_delay_resp: what it adds to the window.
LEMMA RespInv ==
  ASSUME SlaveInv, NetInv, NEW r \in resp, r.from \in Masters, handle_delay_resp(r)
  PROVE  SlaveInv'
<1> DEFINE sample == Half(ms.leg + (r.t4 - dreq.t3 - (INTERVAL * r.age)))
           new == [NoReq EXCEPT !.due = dreq.due]
<1>1. /\ r.from = master /\ dreq.outstanding /\ r.age = 0
      /\ dreq' = new
      /\ UNCHANGED <<clock, servo, master, sync, ms>>
      /\ IF SameTimescale /\ Abs(sample) <= PTP_DELAY_MAX
         THEN delay_add(sample) ELSE UNCHANGED delay_win
  BY DEF handle_delay_resp, Matches
<1>2. new \in Reqs /\ ~new.outstanding
  <2>1. dreq.due \in BOOLEAN
    BY DEF Reqs, SlaveInv, SlaveTypeOK
  <2>2. new \in Reqs
    BY <2>1, Resets DEF Reqs
  <2>3. new.outstanding = NoReq.outstanding
    BY Resets DEF Reqs
  <2> QED BY <2>2, <2>3, Resets
<1> HIDE DEF new
<1>3. SyncInv' /\ LegInv' /\ ReqInv'
  BY <1>1, <1>2 DEF SlaveInv, SyncInv, LegInv, ReqInv
<1>4. CASE UNCHANGED delay_win
  BY <1>1, <1>2, <1>3, <1>4 DEF SlaveInv, SlaveTypeOK, SamplesPlausible, Plausible
<1>5. CASE SameTimescale /\ Abs(sample) <= PTP_DELAY_MAX /\ delay_add(sample)
  <2>0. master \in Masters /\ master # NoMaster
    BY <1>1, Constants
  <2>1. PICK late \in Lates, t \in Times[master] :
          ms.leg = clock + PathDelay[master] + late - t
    BY <1>5 DEF SlaveInv, LegInv, SameTimescale
  <2>2. PICK u \in Times[master] : r.t4 = u + PathDelay[master]
    BY <1>1 DEF NetInv
  <2>3. dreq.t3 = clock
    BY <1>1, <1>5 DEF SlaveInv, ReqInv, SameTimescale
  <2>4. /\ clock \in Int /\ PathDelay[master] \in Int /\ late \in Int /\ t \in Int /\ u \in Int
        /\ INTERVAL * r.age = 0
    BY <1>1, <2>0, Constants DEF SlaveInv, SlaveTypeOK
  <2>5. /\ ms.leg + (r.t4 - dreq.t3 - (INTERVAL * r.age))
             = 2 * PathDelay[master] + late + (u - t)
        /\ 2 * PathDelay[master] + late + (u - t) \in Int
    BY <2>1, <2>2, <2>3, <2>4
  <2>6. sample \in Int /\ Plausible(sample)
    BY <1>5, <2>5, HalfOf DEF Plausible
  <2> HIDE DEF sample
  <2>7. /\ delay_win \in Seq(Int) /\ Len(delay_win) \in Nat
        /\ \A i \in 1..Len(delay_win) : Plausible(delay_win[i])
    BY DEF SlaveInv, SlaveTypeOK, SamplesPlausible
  <2>8. PICK w \in Seq(Int) : /\ delay_win' = Append(w, sample)
                              /\ \A i \in 1..Len(w) : Plausible(w[i])
    <3>1. CASE Len(delay_win) < PTP_DELAY_WIN
      BY <1>5, <2>7, <3>1 DEF delay_add
    <3>2. CASE ~(Len(delay_win) < PTP_DELAY_WIN)
      <4>1. delay_win # <<>>
        BY <3>2, PtpAssumption
      <4>2. /\ Tail(delay_win) \in Seq(Int) /\ Len(Tail(delay_win)) = Len(delay_win) - 1
            /\ \A i \in 1..Len(delay_win) - 1 : Tail(delay_win)[i] = delay_win[i + 1]
        BY <2>7, <4>1, HeadTailProperties
      <4>3. \A i \in 1..Len(Tail(delay_win)) : Plausible(Tail(delay_win)[i])
        BY <2>7, <4>2
      <4> QED BY <1>5, <3>2, <4>2, <4>3 DEF delay_add
    <3> QED BY <3>1, <3>2
  <2>9. /\ delay_win' \in Seq(Int) /\ Len(delay_win') = Len(w) + 1
        /\ \A i \in 1..Len(w) : delay_win'[i] = w[i]
        /\ delay_win'[Len(w) + 1] = sample
    BY <2>6, <2>8, AppendProperties
  <2>10. \A i \in 1..Len(delay_win') : Plausible(delay_win'[i])
    BY <2>6, <2>8, <2>9
  <2>11. SamplesPlausible'
    BY <1>1, <2>0, <2>10 DEF SamplesPlausible, Plausible
  <2> QED BY <1>1, <1>2, <1>3, <2>9, <2>11 DEF SlaveInv, SlaveTypeOK
<1> QED BY <1>1, <1>4, <1>5

\* A Sync that arrives: it completes, or waits for its Follow_Up.
LEMMA SyncInvStep ==
  ASSUME SlaveInv, NetInv, NEW m \in Masters, NEW age \in 0..1, NEW late \in Lates,
         handle_sync(m, age, late)
  PROVE  SlaveInv'
<1> DEFINE sy == [waiting |-> m \notin OneStep, age |-> age, cur |-> TRUE,
                  t2 |-> clock + PathDelay[m] + late]
<1>1. m = master /\ UNCHANGED <<master, delay_win>> /\ master # NoMaster
  BY Constants DEF handle_sync
<1>2. IF sy.waiting THEN sync' = sy /\ UNCHANGED <<clock, servo, ms, dreq>>
      ELSE sync' = NoSync /\ sync_complete(sy, t1[m][age + 1], age)
  BY DEF handle_sync
<1>3. /\ sy \in Syncs /\ sy.cur /\ sy.age = age
      /\ sy.t2 = clock + PathDelay[master] + late
  BY <1>1, Constants DEF SlaveInv, SlaveTypeOK, Syncs
<1> HIDE DEF sy
<1>4. t1[m][age + 1] \in Times[master]
  <2>1. age = 0 \/ age = 1
    OBVIOUS
  <2> QED BY <1>1, <2>1 DEF NetInv
<1>5. CASE sy.waiting
  <2>1. SyncInv'
    BY <1>1, <1>2, <1>3, <1>5 DEF SyncInv
  <2> QED BY <1>1, <1>2, <1>3, <1>5, <2>1
          DEF SlaveInv, SlaveTypeOK, LegInv, ReqInv, SamplesPlausible, Plausible
<1>6. CASE ~sy.waiting
  BY <1>1, <1>2, <1>3, <1>4, <1>6, CompleteInv
<1> QED BY <1>5, <1>6

LEMMA FollowUpInv ==
  ASSUME SlaveInv, NetInv, NEW m \in Masters, NEW age \in 0..1, handle_follow_up(m, age)
  PROVE  SlaveInv'
<1>1. /\ m = master /\ sync.waiting /\ age = sync.age /\ sync' = NoSync
      /\ sync_complete(sync, t1[m][age + 1], age) /\ UNCHANGED <<master, delay_win>>
  BY DEF handle_follow_up
<1>2. PICK late \in Lates : sync.t2 = clock + PathDelay[master] + late
  BY <1>1 DEF SlaveInv, SyncInv
<1>3. sync \in Syncs /\ sync.cur
  BY <1>1 DEF SlaveInv, SyncInv, SlaveTypeOK
<1>4. t1[m][age + 1] \in Times[master]
  <2>1. age = 0 \/ age = 1
    OBVIOUS
  <2> QED BY <1>1, <2>1 DEF NetInv
<1> QED BY <1>1, <1>2, <1>3, <1>4, CompleteInv

LEMMA SlaveStep == SlaveInv /\ NetInv /\ [Next]_vars => SlaveInv'
<1> SUFFICES ASSUME SlaveInv, NetInv, [Next]_vars
             PROVE  SlaveInv'
  OBVIOUS
<1>0. CASE UNCHANGED <<clock, servo, master, sync, ms, dreq, delay_win>>
  BY <1>0 DEF SlaveInv, SlaveTypeOK, SyncInv, LegInv, ReqInv, SamplesPlausible, Plausible
<1>1. ASSUME NEW m \in Masters, handle_announce(m)
      PROVE  SlaveInv'
  <2>1. CASE m = master
    BY <1>0, <1>1, <2>1 DEF handle_announce
  <2>2. CASE m # master
    BY <1>1, <2>2, ResetInv DEF handle_announce
  <2> QED BY <2>1, <2>2
<1>2. ASSUME NEW m \in Masters, SendSync(m)
      PROVE  SlaveInv'
  <2>1. UNCHANGED <<clock, master, ms, dreq, delay_win>>
    BY <1>2 DEF SendSync, Slave
  <2>2. CASE m = master
    <3>1. sync' = [sync EXCEPT !.age = Older(@)] /\ servo' = [servo EXCEPT !.ref = Older(@)]
      BY <1>2, <2>2 DEF SendSync
    <3>2. sync' \in Syncs /\ servo' \in Servos
      BY <3>1, OlderType DEF SlaveInv, SlaveTypeOK, Syncs, Servos
    <3>3. sync'.waiting = sync.waiting /\ sync'.cur = sync.cur /\ sync'.t2 = sync.t2
      BY <3>1 DEF SlaveInv, SlaveTypeOK, Syncs
    <3>4. SyncInv'
      BY <2>1, <3>3 DEF SlaveInv, SyncInv
    <3> QED BY <2>1, <3>2, <3>4
            DEF SlaveInv, SlaveTypeOK, LegInv, ReqInv, SamplesPlausible, Plausible
  <2>3. CASE m # master
    BY <1>0, <1>2, <2>1, <2>3 DEF SendSync
  <2> QED BY <2>2, <2>3
<1>3. CASE PollTimeout
  BY <1>3, ResetInv DEF PollTimeout
<1>4. CASE PollRequest
  <2>1. UNCHANGED <<clock, servo, master, sync, ms, delay_win>>
    BY <1>4 DEF PollRequest
  <2>2. PICK sent \in BOOLEAN :
          dreq' = IF sent THEN [due |-> FALSE, outstanding |-> TRUE, t3 |-> clock, cur |-> TRUE]
                  ELSE [dreq EXCEPT !.due = FALSE]
    BY <1>4 DEF PollRequest, send_delay_req
  <2>3. dreq' \in Reqs /\ ReqInv'
    <3>1. CASE sent
      BY <2>1, <2>2, <3>1 DEF SlaveInv, SlaveTypeOK, Reqs, ReqInv
    <3>2. CASE ~sent
      BY <2>1, <2>2, <3>2 DEF SlaveInv, SlaveTypeOK, Reqs, ReqInv
    <3> QED BY <3>1, <3>2
  <2> QED BY <2>1, <2>3 DEF SlaveInv, SlaveTypeOK, SyncInv, LegInv, SamplesPlausible, Plausible
<1>5. CASE net_pump \/ PollIdle \/ CalmDown
  BY <1>0, <1>5 DEF net_pump, PollIdle, CalmDown, Slave
<1>6. ASSUME NEW m \in Masters, Jump(m) \/ Answer(m)
      PROVE  SlaveInv'
  BY <1>0, <1>6 DEF Jump, Answer, Slave
<1>7. ASSUME NEW m \in Masters, rx_cb(m)
      PROVE  SlaveInv'
  <2>1. CASE SyncArrives(m)
    BY <2>1, SyncInvStep DEF SyncArrives
  <2>2. CASE \E age \in 0..1 : handle_follow_up(m, age)
    BY <2>2, FollowUpInv
  <2>3. CASE RespArrives(m)
    BY <2>3, RespInv DEF RespArrives
  <2> QED BY <1>1, <1>7, <2>1, <2>2, <2>3 DEF rx_cb
<1>8. CASE UNCHANGED vars
  BY <1>0, <1>8 DEF vars
<1> QED BY <1>2, <1>3, <1>4, <1>5, <1>6, <1>7, <1>8 DEF Next, ptp_raw_poll, ptp_core_poll

LEMMA SlaveInit == Init => SlaveInv
<1> SUFFICES ASSUME Init
             PROVE  SlaveInv
  OBVIOUS
<1>1. /\ clock = 0 /\ servo = Unlocked /\ master = NoMaster /\ sync = NoSync
      /\ ms = NoLeg /\ dreq = NoReq /\ delay_win = <<>>
  BY DEF Init
<1>2. delay_win \in Seq(Int) /\ 1..Len(delay_win) = {}
  BY <1>1
<1> QED BY <1>1, <1>2, Resets
        DEF SlaveInv, SlaveTypeOK, SyncInv, LegInv, ReqInv, SamplesPlausible

\* Every sample of the delay filter is the path delay of the current master
\* and half of a lateness and a jump of its time, at most PTP_DELAY_MAX in all:
\* handle_delay_resp never joins halves of an exchange that a step of the
\* clock, a change of master or a lost or repeated message took apart. It needs
\* nothing of how late a message may be or how far a time may jump.
THEOREM SamplesAreOneExchange == Spec => []SamplesPlausible
<1>1. SlaveInv => SamplesPlausible
  BY DEF SlaveInv
<1> QED BY <1>1, SlaveInit, NetInit, SlaveStep, NetStep, PTL DEF Spec

\* Every sample is the path delay itself where lateness and jumps are gross:
\* the limit of handle_delay_resp then keeps all others out.
THEOREM SamplesArePathDelay == Spec => []DelayIsPathDelay
<1>1. SlaveInv => DelayIsPathDelay
  <2> SUFFICES ASSUME SlaveInv, NEW i \in DOMAIN delay_win
               PROVE  delay_win[i] = PathDelay[master]
    BY DEF DelayIsPathDelay
  <2>1. i \in 1..Len(delay_win) /\ delay_win # <<>>
    BY DEF SlaveInv, SlaveTypeOK
  <2>2. Plausible(delay_win[i]) /\ master \in Masters
    BY <2>1 DEF SlaveInv, SamplesPlausible, SlaveTypeOK
  <2>3. PICK late \in Lates, t \in Times[master], u \in Times[master] :
          delay_win[i] = Half(2 * PathDelay[master] + late + (u - t))
    BY <2>2 DEF Plausible
  <2>4. PathDelay[master] \in Int /\ late \in Int /\ t \in Int /\ u \in Int
    BY <2>2, Constants
  <2>5. Abs(delay_win[i]) <= PTP_DELAY_MAX /\ Abs(delay_win[i]) \in Int /\ PTP_DELAY_MAX \in Int
    <3>1. delay_win[i] \in Int
      BY <2>1 DEF SlaveInv, SlaveTypeOK
    <3> QED BY <2>2, <3>1, PtpAssumption DEF Plausible, Abs
  <2>6. ~(Abs(delay_win[i]) > PTP_DELAY_MAX)
    BY <2>5
  <2>7. late + (u - t) = 0
    BY <2>2, <2>3, <2>6, GrossAssumption
  <2>8. 2 * PathDelay[master] + late + (u - t) = 2 * PathDelay[master]
    BY <2>4, <2>7
  <2> QED BY <2>3, <2>4, <2>8, HalfOf
<1> QED BY <1>1, SlaveInit, NetInit, SlaveStep, NetStep, PTL DEF Spec

-----------------------------------------------------------------------------
(* The lock.                                                               *)

\* A LOCKED clock is on a time its master had, but for the lateness of the one
\* Sync it locked on and for the error of a delay of at most PTP_DELAY_MAX.
LockedNear ==
  servo.state = "LOCKED" =>
    /\ master # NoMaster
    /\ \E t \in Times[master], late \in Lates, d \in 0..PTP_DELAY_MAX :
         clock = t - late + (d - PathDelay[master])

\* The servo locks with the median of plausible samples.
LEMMA DelayWithin ==
  ASSUME SlaveInv, delay_ns >= 0
  PROVE  /\ delay_ns \in 0..PTP_DELAY_MAX
         /\ DelayIsPathDelay => delay_ns = PathDelay[master]
<1>0. delay_ns \in Int /\ PTP_DELAY_MAX \in Int /\ delay_win \in Seq(Int)
  BY DelayType, PtpAssumption DEF SlaveInv, SlaveTypeOK
<1>1. delay_win # <<>> /\ delay_ns = Median(delay_win)
  BY DEF delay_ns
<1>2. master \in Masters
  BY <1>1 DEF SlaveInv, SlaveTypeOK, SamplesPlausible
<1>3. delay_ns <= PTP_DELAY_MAX
  <2>1. ASSUME NEW i \in 1..Len(delay_win)
        PROVE  delay_win[i] \in -PTP_DELAY_MAX..PTP_DELAY_MAX
    <3>1. delay_win[i] \in Int /\ Abs(delay_win[i]) <= PTP_DELAY_MAX
      BY <1>0 DEF SlaveInv, SamplesPlausible, Plausible
    <3> QED BY <1>0, <3>1 DEF Abs
  <2>2. -PTP_DELAY_MAX \in Int
    BY <1>0
  <2>3. Median(delay_win) \in -PTP_DELAY_MAX..PTP_DELAY_MAX
    BY <1>0, <1>1, <2>1, <2>2, MedianBetween
  <2> QED BY <1>0, <1>1, <2>3
<1>4. ASSUME DelayIsPathDelay
      PROVE  delay_ns = PathDelay[master]
  <2> DEFINE c == PathDelay[master]
  <2>1. c \in Int
    BY <1>2, Constants
  <2>2. \A i \in 1..Len(delay_win) : delay_win[i] = c
    BY <1>0, <1>4 DEF DelayIsPathDelay
  <2> HIDE DEF c
  <2>3. \A i \in 1..Len(delay_win) : delay_win[i] \in c..c
    BY <2>1, <2>2
  <2>4. Median(delay_win) \in c..c
    BY <1>0, <1>1, <2>1, <2>3, MedianBetween
  <2> QED BY <1>1, <2>1, <2>4 DEF c
<1> QED BY <1>0, <1>3, <1>4

\* A sample that completes: what it makes of the lock.
LEMMA CompleteLocks ==
  ASSUME SlaveInv, master \in Masters, NEW sy \in Syncs, sy.cur, NEW late \in Lates,
         sy.t2 = clock + PathDelay[master] + late, NEW t \in Times[master],
         sync_complete(sy, t, sy.age), servo'.state = "LOCKED"
  PROVE  \/ servo.state = "LOCKED" /\ clock' = clock
         \/ delay_ns >= 0 /\ clock' = t - late + (delay_ns - PathDelay[master])
<1>0. /\ clock \in Int /\ PathDelay[master] \in Int /\ late \in Int /\ t \in Int
      /\ INTERVAL \in Int /\ sy.age \in 0..2 /\ sy.t2 \in Int /\ delay_ns \in Int
  BY Constants, DelayType DEF SlaveInv, SlaveTypeOK, Syncs
<1> DEFINE raw == sy.t2 - t + (INTERVAL * (sy.age - sy.age))
           out == ptp_servo_sample(raw, sy.age)
<1>1. raw = clock + PathDelay[master] + late - t /\ raw \in Int
  <2>1. sy.age - sy.age = 0
    BY <1>0
  <2> QED BY <1>0, <2>1
<1>2. servo' = out.servo /\ clock' = clock + out.step
  BY DEF sync_complete
<1> HIDE DEF raw
<1>3. /\ out.steps \in BOOLEAN /\ out.step \in Int
      /\ ~out.steps => out.step = 0
      /\ ~out.steps /\ out.servo.state = "LOCKED" => servo.state = "LOCKED"
      /\ out.steps /\ out.servo.state = "LOCKED" =>
           delay_ns >= 0 /\ out.step = -(raw - delay_ns)
  BY <1>0, <1>1, ServoSample DEF SlaveInv
<1> HIDE DEF out
<1>4. CASE ~out.steps
  BY <1>0, <1>2, <1>3, <1>4
<1>5. CASE out.steps
  <2>1. delay_ns >= 0 /\ out.step = -(raw - delay_ns)
    BY <1>2, <1>3, <1>5
  <2>2. clock + -(raw - delay_ns) = t - late + (delay_ns - PathDelay[master])
    BY <1>0, <1>1
  <2> QED BY <1>2, <2>1, <2>2
<1> QED BY <1>3, <1>4, <1>5

\* The servo stays locked on a clock that is not touched, or locks by a step.
Relocks ==
  \/ servo.state = "LOCKED" /\ UNCHANGED <<clock, master>>
  \/ /\ delay_ns >= 0 /\ master \in Masters /\ UNCHANGED master
     /\ \E t \in Times[master], late \in Lates :
          clock' = t - late + (delay_ns - PathDelay[master])

LEMMA LockMoves ==
  ASSUME SlaveInv, NetInv, [Next]_vars, servo'.state = "LOCKED"
  PROVE  Relocks
<1>0. CASE UNCHANGED <<clock, servo, master>>
  BY <1>0 DEF Relocks
<1>r. ~reset_measurements
  BY DEF reset_measurements, Unlocked
<1>1. ASSUME NEW m \in Masters, handle_announce(m)
      PROVE  Relocks
  BY <1>0, <1>1, <1>r DEF handle_announce
<1>2. ASSUME NEW m \in Masters, SendSync(m)
      PROVE  Relocks
  <2>1. UNCHANGED <<clock, master>>
    BY <1>2 DEF SendSync, Slave
  <2>2. servo'.state = servo.state
    BY <1>2 DEF SendSync, SlaveInv, SlaveTypeOK, Servos
  <2> QED BY <2>1, <2>2 DEF Relocks
<1>3. CASE PollTimeout
  BY <1>3, <1>r DEF PollTimeout
<1>4. CASE PollRequest \/ net_pump \/ PollIdle \/ CalmDown
  <2>1. UNCHANGED <<clock, servo, master>>
    BY <1>4 DEF PollRequest, net_pump, PollIdle, CalmDown, Slave
  <2> QED BY <1>0, <2>1
<1>5. ASSUME NEW m \in Masters, Jump(m) \/ Answer(m)
      PROVE  Relocks
  <2>1. UNCHANGED <<clock, servo, master>>
    BY <1>5 DEF Jump, Answer, Slave
  <2> QED BY <1>0, <2>1
<1>6. ASSUME NEW m \in Masters, NEW age \in 0..1, NEW late \in Lates,
             handle_sync(m, age, late)
      PROVE  Relocks
  <2> DEFINE sy == [waiting |-> m \notin OneStep, age |-> age, cur |-> TRUE,
                    t2 |-> clock + PathDelay[m] + late]
  <2>1. m = master /\ UNCHANGED master
    BY <1>6 DEF handle_sync
  <2>2. IF sy.waiting THEN sync' = sy /\ UNCHANGED <<clock, servo, ms, dreq>>
        ELSE sync_complete(sy, t1[m][age + 1], age)
    BY <1>6 DEF handle_sync
  <2>3. /\ sy \in Syncs /\ sy.cur /\ sy.age = age
        /\ sy.t2 = clock + PathDelay[master] + late
    BY <2>1, Constants DEF SlaveInv, SlaveTypeOK, Syncs
  <2> HIDE DEF sy
  <2>4. t1[m][age + 1] \in Times[master]
    <3>1. age = 0 \/ age = 1
      OBVIOUS
    <3> QED BY <2>1, <3>1 DEF NetInv
  <2>5. CASE sy.waiting
    BY <1>0, <2>1, <2>2, <2>5
  <2>6. CASE ~sy.waiting
    BY <2>1, <2>2, <2>3, <2>4, <2>6, CompleteLocks DEF Relocks
  <2> QED BY <2>5, <2>6
<1>7. ASSUME NEW m \in Masters, NEW age \in 0..1, handle_follow_up(m, age)
      PROVE  Relocks
  <2>1. /\ m = master /\ sync.waiting /\ age = sync.age
        /\ sync_complete(sync, t1[m][age + 1], age) /\ UNCHANGED master
    BY <1>7 DEF handle_follow_up
  <2>2. PICK late \in Lates : sync.t2 = clock + PathDelay[master] + late
    BY <2>1 DEF SlaveInv, SyncInv
  <2>3. sync \in Syncs /\ sync.cur
    BY <2>1 DEF SlaveInv, SyncInv, SlaveTypeOK
  <2>4. t1[m][age + 1] \in Times[master]
    <3>1. age = 0 \/ age = 1
      OBVIOUS
    <3> QED BY <2>1, <3>1 DEF NetInv
  <2> QED BY <2>1, <2>2, <2>3, <2>4, CompleteLocks DEF Relocks
<1>8. ASSUME NEW m \in Masters, rx_cb(m)
      PROVE  Relocks
  <2>1. CASE SyncArrives(m)
    BY <1>6, <2>1 DEF SyncArrives
  <2>2. CASE \E age \in 0..1 : handle_follow_up(m, age)
    BY <1>7, <2>2
  <2>3. CASE RespArrives(m)
    BY <1>0, <2>3 DEF RespArrives, handle_delay_resp
  <2> QED BY <1>1, <1>8, <2>1, <2>2, <2>3 DEF rx_cb
<1>9. CASE UNCHANGED vars
  BY <1>0, <1>9 DEF vars
<1> QED BY <1>2, <1>3, <1>4, <1>5, <1>8, <1>9 DEF Next, ptp_raw_poll, ptp_core_poll

LEMMA LockInit == Init => servo.state # "LOCKED"
BY DEF Init, Unlocked

\* A LOCKED clock is off by no more than the lateness of a Sync and
\* PTP_DELAY_MAX, whatever is late and wherever the times jump.
THEOREM LocksNear == Spec => []LockedNear
<1>1. SlaveInv /\ NetInv /\ LockedNear /\ [Next]_vars => LockedNear'
  <2> SUFFICES ASSUME SlaveInv, NetInv, LockedNear, [Next]_vars, servo'.state = "LOCKED"
               PROVE  LockedNear'
    BY DEF LockedNear
  <2>1. Relocks
    BY LockMoves
  <2>2. CASE servo.state = "LOCKED" /\ UNCHANGED <<clock, master>>
    BY <2>2 DEF LockedNear
  <2>3. CASE /\ delay_ns >= 0 /\ master \in Masters /\ UNCHANGED master
             /\ \E t \in Times[master], late \in Lates :
                  clock' = t - late + (delay_ns - PathDelay[master])
    <3>1. delay_ns \in 0..PTP_DELAY_MAX
      BY <2>3, DelayWithin
    <3> QED BY <2>3, <3>1, Constants DEF LockedNear
  <2> QED BY <2>1, <2>2, <2>3 DEF Relocks
<1>2. Init => LockedNear
  BY LockInit DEF LockedNear
<1> QED BY <1>1, <1>2, SlaveInit, NetInit, SlaveStep, NetStep, PTL DEF Spec

\* A LOCKED clock is on a time its own master had, but for the lateness of the
\* Sync it locked on: ptp_servo_sample and the resets of handle_announce and of
\* the timeout, where lateness and jumps are gross.
THEOREM LocksOnMaster == Spec => []LockedOnMaster
<1>1. SlaveInv /\ NetInv /\ DelayIsPathDelay /\ LockedOnMaster /\ [Next]_vars => LockedOnMaster'
  <2> SUFFICES ASSUME SlaveInv, NetInv, DelayIsPathDelay, LockedOnMaster, [Next]_vars,
                      servo'.state = "LOCKED"
               PROVE  LockedOnMaster'
    BY DEF LockedOnMaster
  <2>1. Relocks
    BY LockMoves
  <2>2. CASE servo.state = "LOCKED" /\ UNCHANGED <<clock, master>>
    BY <2>2 DEF LockedOnMaster
  <2>3. CASE /\ delay_ns >= 0 /\ master \in Masters /\ UNCHANGED master
             /\ \E t \in Times[master], late \in Lates :
                  clock' = t - late + (delay_ns - PathDelay[master])
    <3>1. PICK t \in Times[master], late \in Lates :
            clock' = t - late + (delay_ns - PathDelay[master])
      BY <2>3
    <3>2. delay_ns = PathDelay[master]
      BY <2>3, DelayWithin
    <3>3. clock' = t - late
      BY <2>3, <3>1, <3>2, Constants
    <3> QED BY <2>3, <3>3, Constants DEF LockedOnMaster
  <2> QED BY <2>1, <2>2, <2>3 DEF Relocks
<1>2. Init => LockedOnMaster
  BY LockInit DEF LockedOnMaster
<1> QED BY <1>1, <1>2, SamplesArePathDelay, SlaveInit, NetInit, SlaveStep, NetStep, PTL DEF Spec
==============================================================================
