------------------------------ MODULE PtpClock ------------------------------
(***************************************************************************)
(* The arithmetic of PTP time: the clock that ptp_clock.c derives from the *)
(* free-running counter, corrected in rate and in phase, and the calendar  *)
(* date that ptp_core.c makes of it.  The division of C truncates towards  *)
(* zero.  The units are parameters, so that they can be small.             *)
(***************************************************************************)
EXTENDS Integers

CONSTANTS
  Freq,                    \* ptp_clock_cnt_freq: counts in a second
  NS_PER_S,
  PTP_CLOCK_MAX_PPB,       \* in parts of NS_PER_S
  Ppbs, Deltas,            \* what the servo asks for
  MaxCnt, MaxAnchors,      \* bounds on the counter and on the corrections
  MINUTE, HOUR, DAY,       \* in seconds
  FirstYears, Days,        \* where the dates begin, how many days they go on
  UtcOffsets

ASSUME PtpClockAssumption ==
  /\ Freq \in Nat \ {0} /\ NS_PER_S \in Nat \ {0}
  /\ PTP_CLOCK_MAX_PPB \in 0..(NS_PER_S - 1)
  /\ {MINUTE, HOUR, DAY} \subseteq Nat \ {0} /\ HOUR % MINUTE = 0 /\ DAY % HOUR = 0
  /\ Ppbs \subseteq Int /\ Deltas \subseteq Int
  /\ FirstYears \subseteq Int /\ UtcOffsets \subseteq Int

VARIABLES
  clk,        \* base_cnt, base_ns, ppb and epoch of ptp_clock.c
  cnt,        \* the counter
  anchors,    \* corrections so far
  utc, wall   \* a time, and the date it is

Quot(a, b) == IF a >= 0 THEN a \div b ELSE -((-a) \div b)
Rem(a, b)  == a - b * Quot(a, b)

-----------------------------------------------------------------------------
ticks_to_ns(dt) == Quot(dt, Freq) * NS_PER_S + Quot(Rem(dt, Freq) * NS_PER_S, Freq)

scale_ppb(d, ppb) == Quot(d, NS_PER_S) * ppb + Quot(Rem(d, NS_PER_S) * ppb, NS_PER_S)

ptp_clock_from_cnt(c, n) ==
  LET d == ticks_to_ns(n - c.base_cnt) IN c.base_ns + d + scale_ppb(d, c.ppb)

\* Mutant: the two assignments are swapped.
RebaseCountFirst(c, now) ==
  LET moved == [c EXCEPT !.base_cnt = now]
  IN  [moved EXCEPT !.base_ns = ptp_clock_from_cnt(moved, now)]

rebase(c, now) ==
  [c EXCEPT !.base_ns = ptp_clock_from_cnt(c, now), !.base_cnt = now]

ptp_clock_step(delta) ==
  clk' = [rebase(clk, cnt) EXCEPT !.base_ns = @ + delta, !.epoch = @ + 1]

ptp_clock_adjfreq(ppb) ==
  LET clamped == IF ppb > PTP_CLOCK_MAX_PPB THEN PTP_CLOCK_MAX_PPB
                 ELSE IF ppb < -PTP_CLOCK_MAX_PPB THEN -PTP_CLOCK_MAX_PPB ELSE ppb
  IN  clk' = [rebase(clk, cnt) EXCEPT !.ppb = clamped]

Counts == cnt < MaxCnt /\ cnt' = cnt + 1 /\ UNCHANGED <<clk, anchors>>

Corrects ==
  /\ anchors < MaxAnchors /\ anchors' = anchors + 1
  /\ \/ \E d \in Deltas : ptp_clock_step(d)
     \/ \E p \in Ppbs : ptp_clock_adjfreq(p)
  /\ UNCHANGED cnt

ClockInit ==
  /\ clk = [base_cnt |-> 0, base_ns |-> 0, ppb |-> 0, epoch |-> 0]
  /\ cnt = 0 /\ anchors = 0

ClockNext == Counts \/ Corrects

ClockSpec == ClockInit /\ [][ClockNext]_<<clk, cnt, anchors>>

-----------------------------------------------------------------------------
\* The time of ptp_core_utc_now_ns when the clock reads t.
ptp_core_utc_now_ns(t, ptpTimescale, utcValid, offset) ==
  IF ptpTimescale /\ utcValid THEN t - offset * NS_PER_S ELSE t

\* Mutant: the days before the epoch are rounded towards it.
DayRounded(secs) == Quot(secs, DAY)

DayOf(secs) == IF secs >= 0 THEN Quot(secs, DAY) ELSE Quot(secs - (DAY - 1), DAY)

\* The year of its 400 that day doe of them is in: here a year begins in March.
YearOfEra(doe) == (doe - doe \div 1460 + doe \div 36524 - doe \div 146096) \div 365

\* The date of day doy of the year that began on 1 March of y.
DateOf(y, doy) ==
  LET mp == (5 * doy + 2) \div 153
      m  == IF mp < 10 THEN mp + 3 ELSE mp - 9
  IN  [y |-> y + (IF m <= 2 THEN 1 ELSE 0), m |-> m,
       d |-> doy - (153 * mp + 2) \div 5 + 1]

civil_from_days(z) ==
  LET zz  == z + 719468
      era == Quot(IF zz >= 0 THEN zz ELSE zz - 146096, 146097)
      doe == zz - era * 146097
      yoe == YearOfEra(doe)
  IN  DateOf(yoe + era * 400, doe - (365 * yoe + yoe \div 4 - yoe \div 100))

\* The fields ptp_format_utc prints; the fraction is that of the second.
ptp_format_utc(t) ==
  LET low  == Rem(t, NS_PER_S) < 0
      ns   == Rem(t, NS_PER_S) + (IF low THEN NS_PER_S ELSE 0)
      secs == Quot(t, NS_PER_S) - (IF low THEN 1 ELSE 0)
      sod  == secs - DayOf(secs) * DAY
  IN  [date |-> civil_from_days(DayOf(secs)),
       hour |-> sod \div HOUR, minute |-> (sod \div MINUTE) % (HOUR \div MINUTE),
       second |-> sod % MINUTE, ns |-> ns]

-----------------------------------------------------------------------------
(* The calendar as it is told: one unit after another.                     *)
Leap(y) == y % 4 = 0 /\ (y % 100 = 0 => y % 400 = 0)

MonthDays(y, m) ==
  IF m = 2 THEN IF Leap(y) THEN 29 ELSE 28 ELSE IF m \in {4, 6, 9, 11} THEN 30 ELSE 31

Tomorrow(t) ==
  IF t.d < MonthDays(t.y, t.m) THEN [t EXCEPT !.d = @ + 1]
  ELSE IF t.m < 12 THEN [t EXCEPT !.m = @ + 1, !.d = 1]
  ELSE [y |-> t.y + 1, m |-> 1, d |-> 1]

\* The days from 1 January 1970 to 1 January of year y.
NewYear(y) ==
  LET leaps(k) == (k - 1) \div 4 - (k - 1) \div 100 + (k - 1) \div 400
  IN  365 * (y - 1970) + leaps(y) - leaps(1970)

DateInit ==
  \E y \in FirstYears :
    /\ utc = NewYear(y) * DAY * NS_PER_S
    /\ wall = [date |-> [y |-> y, m |-> 1, d |-> 1], hour |-> 0, minute |-> 0,
               second |-> 0, ns |-> 0]

Later(w) ==
  IF w.ns + 1 < NS_PER_S THEN [w EXCEPT !.ns = @ + 1]
  ELSE IF w.second + 1 < MINUTE THEN [w EXCEPT !.ns = 0, !.second = @ + 1]
  ELSE IF w.minute + 1 < HOUR \div MINUTE
       THEN [w EXCEPT !.ns = 0, !.second = 0, !.minute = @ + 1]
  ELSE IF w.hour + 1 < DAY \div HOUR
       THEN [w EXCEPT !.ns = 0, !.second = 0, !.minute = 0, !.hour = @ + 1]
  ELSE [date |-> Tomorrow(w.date), hour |-> 0, minute |-> 0, second |-> 0, ns |-> 0]

DateNext ==
  /\ \E y \in FirstYears :
       utc \in NewYear(y) * DAY * NS_PER_S..(NewYear(y) + Days) * DAY * NS_PER_S
  /\ utc' = utc + 1 /\ wall' = Later(wall)

DateSpec == DateInit /\ [][DateNext]_<<utc, wall>>

-----------------------------------------------------------------------------
Now == ptp_clock_from_cnt(clk, cnt)

\* What a count is worth at most: its nanoseconds, and what the fastest rate
\* adds to them, both rounded up.
Fastest ==
  LET up(a, b) == (a + b - 1) \div b
      ns == up(NS_PER_S, Freq)
  IN  ns + up(ns * PTP_CLOCK_MAX_PPB, NS_PER_S)

\* The clock goes on evenly: but for a step of the servo, which moves it by
\* what was asked, it never goes back, and no count moves it further than the
\* fastest rate; a new rate counts from now.
EvenStep ==
  /\ clk'.epoch # clk.epoch => \E d \in Deltas : Now' = Now + d
  /\ clk' # clk /\ clk'.epoch = clk.epoch => Now' = Now
  /\ cnt' # cnt => Now' - Now \in 0..Fastest

\* Re-anchoring at each correction keeps time "continuous", as ptp_clock.h
\* says, whatever was rounded before.
RunsEvenly == [][EvenStep]_<<clk, cnt>>

\* The date and time printed are those of the calendar, over leap days, the
\* turn of centuries and times before 1970, also from a TAI clock.
DateIsRight ==
  \A off \in UtcOffsets, tai, valid \in BOOLEAN :
    LET t == IF tai /\ valid THEN utc + off * NS_PER_S ELSE utc
    IN  ptp_format_utc(ptp_core_utc_now_ns(t, tai, valid, off)) = wall
=============================================================================
