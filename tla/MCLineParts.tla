---------------------------- MODULE MCLineParts -----------------------------
(* What the drawer is made of, and what is around it: the queue, the line  *)
(* unit, a button of the board and the scan of the screen buffer.  They    *)
(* share nothing, so one of them moves in a behaviour and the others stay  *)
(* as they were built.                                                     *)
(*   queue   four addresses, three values: the addresses wrap when it is   *)
(*           full;                                                         *)
(*   unit    all lines between the points of a grid that reaches both ends *)
(*           of the range of 4-bit coordinates;                            *)
(*   button  a slow clock of six clocks: the pin bounces within and        *)
(*           between its samples;                                          *)
(*   scan    a screen of 4 x 3 whose porches and pulses keep their order.  *)
EXTENDS LineFifo, BresenhamUnit, VgaScan

VARIABLES part,
          i_button, button_counter, clk_slow, button_state, i_clk, state, next,
          o_pulse, quiet

buttonVars == <<i_button, button_counter, clk_slow, button_state, i_clk, state,
                next, o_pulse, quiet>>
Button == INSTANCE PushButton WITH Period <- 3, clk_counter <- button_counter

MCCoords == {0, 1, 3, 6, 7}

ASSUME PartsAssumption == Button!PeriodIsReal /\ SizesAreReal

PartsInit ==
  /\ part \in {"queue", "unit", "button", "scan"}
  /\ DrivenInit /\ BresInit /\ drawn = {}
  /\ line \in IF part = "unit" THEN Line
              ELSE {[from |-> [x |-> 0, y |-> 0], to |-> [x |-> 0, y |-> 0]]}
  /\ Button!ButtonInit /\ (part # "button" => ~ i_button)
  /\ ScanInit /\ (part # "scan" => {HS, VS, blank} = {0})

PartsNext ==
  \/ /\ part = "queue" /\ FifoNext
     /\ UNCHANGED <<part, unitVars, buttonVars, scanVars>>
  \/ /\ part = "unit" /\ Unit
     /\ UNCHANGED <<part, fifoVars, buttonVars, scanVars>>
  \/ /\ part = "button" /\ Button!ButtonNext
     /\ UNCHANGED <<part, fifoVars, unitVars, scanVars>>
  \/ /\ part = "scan" /\ ScanClock
     /\ UNCHANGED <<part, fifoVars, unitVars, buttonVars>>

\* The clock of the button never stops.
PartsSpec ==
  /\ PartsInit
  /\ [][PartsNext]_<<part, fifoVars, unitVars, buttonVars, scanVars>>
  /\ WF_buttonVars(part = "button" /\ Button!Rise)
  /\ WF_buttonVars(part = "button" /\ Button!Fall)

(* The properties of PushButton, as they say there.                        *)
\* The level changes at most once in a slow clock, however the pin bounces,
\* and a pulse takes one clock; but there are pulses for ever, also from a
\* button nobody touches.
DebouncedButBlind ==
  /\ Button!LevelIsDebounced /\ Button!PulseIsOneClock
  /\ part = "button" => Button!PulsesForEver
=============================================================================
