------------------------------- MODULE Clocks --------------------------------
(***************************************************************************)
(* The two clocks a program asks through the HAL; neither uses the other.  *)
(*                                                                         *)
(* The wall clock: gettimeofday(), settimeofday() and times() over the     *)
(* ticks of the system clock.  A count of ticks has Width values where the *)
(* code has 2^32, a second has US parts where it has a million.  Times are *)
(* signed: no time in this model is near their ends.                       *)
(*                                                                         *)
(* The timestamp, altera_avalon_timer_ts.c: a timer counts down from full  *)
(* scale once, and alt_timestamp() reads it in two halves, after a write   *)
(* that makes the timer keep both.  A half has Half values where the       *)
(* registers have 2^16.  One call is under way at a time.                  *)
(***************************************************************************)
EXTENDS Integers

CONSTANTS Width, US,    \* the values of a count, the parts of a second
          tick_rate,    \* ticks in a second, once the clock is started
          Times,        \* bound: the times that are set, <<seconds, parts>>
          MaxTicks      \* bound: the ticks that go by

ClockIsReal ==
  /\ Width \in Nat \ {0} /\ US \in Nat \ {0} /\ tick_rate \in 1 .. US /\ US % tick_rate = 0
  /\ MaxTicks \in 0 .. Width - 1 /\ Times \subseteq Nat \X (0 .. US - 1)

VARIABLES _alt_tick_rate, _alt_nticks, \* of the system clock
          alt_resettime,               \* seconds and parts at tick zero
          tod,                         \* what the last call gave
          set                          \* what was set, and at which tick
timeVars == <<_alt_tick_rate, _alt_nticks, alt_resettime, tod, set>>

\* The parts of a second that n ticks are.  One function multiplies in as
\* many bits as the count has, the other in twice as many.
PartsOfCount(n) == ((n * (US \div tick_rate)) % Width) % US
PartsOfTicks(n) == (n * (US \div tick_rate)) % US

\* A time with its parts brought into a second: none before zero.
Normalized(s, u) ==
  IF u < 0 THEN IF s <= 0 THEN <<0, 0>> ELSE <<s - 1, u + US>>
  ELSE <<s + u \div US, u % US>>

\* What gettimeofday() makes of a tick and a reset time.
Now(n, reset) == Normalized(reset[1] + n \div tick_rate, reset[2] + PartsOfTicks(n))
-----------------------------------------------------------------------------
Sysclk_init ==
  /\ _alt_tick_rate = 0 /\ _alt_tick_rate' = tick_rate
  /\ UNCHANGED <<_alt_nticks, alt_resettime, tod, set>>

SysTick ==
  /\ _alt_tick_rate # 0 /\ _alt_nticks < MaxTicks /\ _alt_nticks' = (_alt_nticks + 1) % Width
  /\ UNCHANGED <<_alt_tick_rate, alt_resettime, tod, set>>

\* Without a clock both calls fail.
Settimeofday(t) ==
  /\ _alt_tick_rate # 0
  /\ alt_resettime' = <<t[1] - _alt_nticks \div _alt_tick_rate, t[2] - PartsOfCount(_alt_nticks)>>
  /\ set' = [time |-> t, tick |-> _alt_nticks]
  /\ UNCHANGED <<_alt_tick_rate, _alt_nticks, tod>>

Gettimeofday ==
  /\ _alt_tick_rate # 0 /\ tod' = Now(_alt_nticks, alt_resettime)
  /\ UNCHANGED <<_alt_tick_rate, _alt_nticks, alt_resettime, set>>

\* times() gives the ticks themselves, as system time.
Ticks(n) == IF _alt_tick_rate # 0 THEN n ELSE 0

TimeInit ==
  /\ _alt_tick_rate = 0 /\ _alt_nticks = 0 /\ alt_resettime = <<0, 0>>
  /\ tod = <<0, 0>> /\ set = [time |-> <<0, 0>>, tick |-> 0]

TimeNext == Sysclk_init \/ SysTick \/ Gettimeofday \/ \E t \in Times : Settimeofday(t)
TimeSpec == TimeInit /\ [][TimeNext]_timeVars
-----------------------------------------------------------------------------
InParts(t) == t[1] * US + t[2]

(* What gettimeofday() gives is the time that was set and what has gone by *)
(* since, as times() counts it, to the tick, and its parts are less than a *)
(* second, whatever the order of the carries: if it was set in a tick      *)
(* whose parts a count holds.                                              *)
TimeGoesOn ==
  [][tod' # tod /\ set.tick * (US \div tick_rate) < Width =>
       /\ tod'[2] \in 0 .. US - 1
       /\ InParts(tod') =
            InParts(set.time) + (Ticks(_alt_nticks) - set.tick) * (US \div tick_rate)]_timeVars
-----------------------------------------------------------------------------
CONSTANT Half \* the values of a half
HalfIsReal == Half \in Nat \ {0, 1}
Full == Half * Half - 1

VARIABLES period, counter, running, ended, \* the timer: has it run its period?
          snap,                            \* what it keeps to be read
          stamp_pc, lower, from,           \* alt_timestamp(), the count when it was called
          stamp                            \* what it returned last
timer == <<period, counter, running, ended>>
stampVars == <<timer, snap, stamp_pc, lower, from, stamp>>

\* alt_timestamp_start(): stopped, given the period half by half, started.
\* A write to the period is the counter's value too.
StopTimer ==
  /\ stamp_pc = "idle" /\ running' = FALSE /\ stamp_pc' = "periodl"
  /\ UNCHANGED <<period, counter, ended, snap, lower, from, stamp>>
SetPeriod(label, value, next) ==
  /\ stamp_pc = label /\ period' = value /\ counter' = period' /\ stamp_pc' = next
  /\ UNCHANGED <<running, ended, snap, lower, from, stamp>>
PeriodL == SetPeriod("periodl", (period \div Half) * Half + Half - 1, "periodh")
PeriodH == SetPeriod("periodh", (Half - 1) * Half + (period % Half), "start")
StartTimer ==
  /\ stamp_pc = "start" /\ running' = TRUE /\ ended' = FALSE /\ stamp' = 0 /\ stamp_pc' = "idle"
  /\ UNCHANGED <<period, counter, snap, lower, from>>

\* Not continuous: at zero the timer stops, with its period to begin from.
Count ==
  /\ running
  /\ IF counter = 0 THEN counter' = period /\ running' = FALSE /\ ended' = TRUE
     ELSE counter' = counter - 1 /\ UNCHANGED <<running, ended>>
  /\ UNCHANGED <<period, snap, stamp_pc, lower, from, stamp>>

Call ==
  /\ stamp_pc = "idle" /\ running /\ stamp_pc' = "snap" /\ from' = Full - counter
  /\ UNCHANGED <<timer, snap, lower, stamp>>
CallAtEnd ==
  /\ stamp_pc = "idle" /\ ended /\ stamp_pc' = "snap" /\ from' = 0
  /\ UNCHANGED <<timer, snap, lower, stamp>>

\* (Mutant: the counter is not kept.)
SnapAsBefore ==
  stamp_pc = "snap" /\ stamp_pc' = "snapl" /\ UNCHANGED <<timer, snap, lower, from, stamp>>
\* The write to SNAPL, and the two reads.
Snap ==
  /\ stamp_pc = "snap" /\ snap' = counter /\ stamp_pc' = "snapl"
  /\ UNCHANGED <<timer, lower, from, stamp>>
SnapL ==
  /\ stamp_pc = "snapl" /\ lower' = snap % Half /\ stamp_pc' = "snaph"
  /\ UNCHANGED <<timer, snap, from, stamp>>
SnapH ==
  /\ stamp_pc = "snaph" /\ stamp' = Full - ((snap \div Half) * Half + lower) /\ stamp_pc' = "idle"
  /\ lower' = 0 /\ from' = 0 /\ UNCHANGED <<timer, snap>>

StampInit ==
  /\ period \in {0, Half + 1} /\ counter = period /\ running = FALSE /\ ended = FALSE
  /\ snap = 0 /\ stamp_pc = "idle" /\ lower = 0 /\ from = 0 /\ stamp = 0
StampNext ==
  \/ StopTimer \/ PeriodL \/ PeriodH \/ StartTimer \/ Count \/ Call \/ CallAtEnd \/ Snap \/ SnapL \/ SnapH
StampSpec == StampInit /\ [][StampNext]_stampVars
-----------------------------------------------------------------------------
(* A timestamp is a count the timer had during the call, however far it    *)
(* counted between the reads of the halves; so timestamps never go back.   *)
StampIsTaken ==
  [][stamp_pc = "snaph" /\ stamp_pc' = "idle" /\ running =>
       stamp' \in from .. Full - counter /\ stamp' >= stamp]_stampVars

(* gettimeofday() gives the time set and what has gone by since, and a     *)
(* timestamp is a count the timer had during the call.                     *)
ClocksGoOn == TimeGoesOn /\ StampIsTaken
=============================================================================
