------------------------------- MODULE Alarms -------------------------------
(***************************************************************************)
(* The system clock of the HAL: alt_tick() counts ticks in a word that     *)
(* wraps and calls the alarms that are due (alt_tick.c), alt_alarm_start() *)
(* and alt_alarm_stop() keep them in a doubly linked list (alt_llist.h).   *)
(*                                                                         *)
(* A tick runs at interrupt level, one alarm after the other; an alarm's   *)
(* callback may start and stop other alarms before it returns the period   *)
(* after which it wants to be called again, or 0.  Starting and stopping   *)
(* disable interrupts, so outside callbacks they fall between two ticks.   *)
(***************************************************************************)
EXTENDS Integers

CONSTANTS Alarm,
          List,       \* alt_alarm_list, the head of the list
          Wrap,       \* 2^32: _alt_nticks and the times are taken modulo it
          Delays,     \* arguments of alt_alarm_start()
          Periods,    \* what callbacks return, besides 0
          StopAny     \* a callback may also stop the alarm after it

\* The alarms, and the head of their list.
Node == Alarm \cup {List}

ASSUME AlarmAssumption ==
  /\ List \notin Alarm /\ StopAny \in BOOLEAN
  /\ Wrap \in Nat /\ Wrap >= 2
  /\ Delays \subseteq 0 .. Wrap - 1 /\ Periods \subseteq 1 .. Wrap - 1

VARIABLES nticks,          \* _alt_nticks
          rate,            \* _alt_tick_rate is set
          next, previous,  \* the links
          time, rollover,  \* of each alarm
          phase, at, following,  \* alt_tick(): alarm and next
          registered,      \* history: the alarms that should be called
          due,             \* history: ticks until then
          called           \* history: the alarm whose callback runs

links == <<next, previous>>
walk  == <<phase, at, following>>
alarmVars  == <<nticks, rate, links, time, rollover, walk, registered, due, called>>

None == List

Word(i) == i % Wrap

(***************************************************************************)
(* alt_llist_insert() and alt_llist_remove().                              *)
(***************************************************************************)
Insert(a) ==
  /\ next' = [next EXCEPT ![a] = next[List], ![List] = a]
  /\ previous' = [previous EXCEPT ![a] = List, ![next[List]] = a]

Remove(a) ==
  /\ next' = [[next EXCEPT ![previous[a]] = next[a]] EXCEPT ![a] = a]
  /\ previous' = [[previous EXCEPT ![next[a]] = previous[a]] EXCEPT ![a] = a]

(***************************************************************************)
(* When an alarm is due: its time has come, unless the word has to wrap    *)
(* first.                                                                  *)
(***************************************************************************)

\* (Mutant: the flag is dropped as soon as the time is behind the clock.)
StillRollsOverEarly(a) == rollover[a] /\ time[a] > nticks

StillRollsOver(a) == rollover[a] /\ nticks # 0

Expired(a) == time[a] <= nticks /\ ~StillRollsOver(a)

\* alt_sysclk_init() from alt_avalon_timer_sc_init()
SysClkInit ==
  /\ phase = "idle"
  /\ rate' = TRUE
  /\ UNCHANGED <<nticks, links, time, rollover, walk, registered, due, called>>

RollsOver(t) == t < nticks

AlarmStart(a, delay) ==
  /\ rate /\ phase \in {"idle", "callback"} /\ a \notin registered /\ a # at
  /\ time' = [time EXCEPT ![a] = Word(delay + nticks + 1)]
  /\ rollover' = [rollover EXCEPT ![a] = RollsOver(time'[a])]
  /\ Insert(a)
  /\ registered' = registered \cup {a}
  /\ due' = [due EXCEPT ![a] = delay + 1]
  /\ UNCHANGED <<nticks, rate, walk, called>>

\* Once started, an alarm may be stopped any number of times.
AlarmStop(a) ==
  /\ phase \in {"idle", "callback"} /\ a # at
  /\ a \in registered \/ next[a] = a
  /\ StopAny \/ phase = "idle" \/ a # following
  /\ Remove(a)
  /\ registered' = registered \ {a}
  /\ UNCHANGED <<nticks, rate, time, rollover, walk, due, called>>

(***************************************************************************)
(* alt_tick().                                                             *)
(***************************************************************************)
Tick ==
  /\ rate /\ phase = "idle"
  /\ nticks' = Word(nticks + 1)
  /\ phase' = "walk" /\ at' = next[List]
  /\ due' = [a \in Alarm |-> IF a \in registered THEN due[a] - 1 ELSE 0]
  /\ UNCHANGED <<rate, links, time, rollover, following, registered, called>>

Visit ==
  /\ phase = "walk" /\ at # List
  /\ rollover' = [rollover EXCEPT ![at] = StillRollsOver(at)]
  /\ IF Expired(at)
       THEN /\ phase' = "callback" /\ following' = next[at] /\ called' = at
            /\ UNCHANGED at
       ELSE at' = next[at] /\ UNCHANGED <<phase, following, called>>
  /\ UNCHANGED <<nticks, rate, links, time, registered, due>>

GoOn ==
  /\ phase' = "walk" /\ at' = following /\ following' = List
  /\ called' = None

CallAgain(period) ==
  /\ phase = "callback"
  /\ time' = [time EXCEPT ![at] = Word(@ + period)]
  /\ rollover' = [rollover EXCEPT ![at] = RollsOver(time'[at]) \/ @]
  /\ due' = [due EXCEPT ![at] = period]
  /\ GoOn
  /\ UNCHANGED <<nticks, rate, links, registered>>

CallNoMore ==
  /\ phase = "callback"
  /\ Remove(at)
  /\ registered' = registered \ {at}
  /\ GoOn
  /\ UNCHANGED <<nticks, rate, time, rollover, due>>

TickEnds ==
  /\ phase = "walk" /\ at = List
  /\ phase' = "idle"
  /\ UNCHANGED <<nticks, rate, links, time, rollover, at, following,
                 registered, due, called>>

AlarmNext ==
  \/ SysClkInit
  \/ \E a \in Alarm : (\E delay \in Delays : AlarmStart(a, delay)) \/ AlarmStop(a)
  \/ Tick
  \/ Visit
  \/ \E period \in Periods : CallAgain(period)
  \/ CallNoMore
  \/ TickEnds

\* ALT_LLIST_HEAD; an alarm that was never started has no links yet, which
\* List stands for.
AlarmInit ==
  /\ nticks = 0 /\ rate = FALSE
  /\ next = [a \in Node |-> List]
  /\ previous = [a \in Node |-> List]
  /\ time = [a \in Alarm |-> 0] /\ rollover = [a \in Alarm |-> FALSE]
  /\ phase = "idle" /\ at = List /\ following = List
  /\ registered = {} /\ due = [a \in Alarm |-> 0] /\ called = None

AlarmSpec == AlarmInit /\ [][AlarmNext]_alarmVars

(***************************************************************************)
(* Properties.                                                             *)
(***************************************************************************)

\* The clock, the alarms and the walk keep their ranges.
AlarmTypes ==
  /\ nticks \in 0 .. Wrap - 1 /\ rate \in BOOLEAN
  /\ next \in [Node -> Node]
  /\ previous \in [Node -> Node]
  /\ time \in [Alarm -> 0 .. Wrap - 1] /\ rollover \in [Alarm -> BOOLEAN]
  /\ phase \in {"idle", "walk", "callback"}
  /\ {at, following, called} \subseteq Node
  /\ registered \subseteq Alarm /\ due \in [Alarm -> Int]

\* The nodes met on the way along the links from a to the head of the list:
\* those in every set that has a and, up to the head, what its links lead to.
Closed(S) == \A b \in S \ {List} : next[b] \in S
From(a) == {b \in Node : \A S \in SUBSET Node : a \in S /\ Closed(S) => b \in S}

\* The list holds the registered alarms, in both directions, wherever alarms
\* are started and stopped (alt_llist.h), also from a callback.
ListIsRegistered ==
  /\ From(next[List]) = registered \cup {List}
  /\ \A a \in registered \cup {List} : previous[next[a]] = a
  /\ phase = "walk" /\ at # List => at \in registered

\* An alarm is called in the tick that is delay + 1 ticks after it was
\* started, or period ticks after it was last called: not earlier, whatever
\* wraps between, and not later.
OnTime ==
  /\ called # None => due[called] = 0
  /\ phase = "idle" => \A a \in registered : due[a] > 0

\* The clock, the list and the alarms agree at every step of a tick.
AlarmsAgree == AlarmTypes /\ ListIsRegistered /\ OnTime
=============================================================================
