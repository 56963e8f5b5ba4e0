----------------------------- MODULE PushButton -----------------------------
(***************************************************************************)
(* EDC/button_debounce.v and EDC/level_to_pulse.v, as draw_lines_top.v     *)
(* joins them for each of its three buttons: the pin is sampled by a slow  *)
(* clock, and the level should be made a pulse.                            *)
(*                                                                         *)
(* next and o_pulse of level_to_pulse.v are latches, not assigned in every *)
(* branch.  next follows i_clk itself, so that the edge that loads it into *)
(* state may take it from before or from after the edge.  Registers and    *)
(* latches power up as zero.                                               *)
(***************************************************************************)
EXTENDS Integers

CONSTANT Period   \* P_CLK_FREQ/(2*500), 100 000 clocks

PeriodIsReal == Period \in Nat \ {0}

VARIABLES
  i_button,                              \* the pin
  clk_counter, clk_slow, button_state,   \* button_debounce.v
  i_clk, state, next, o_pulse,           \* level_to_pulse.v
  quiet        \* clocks since button_state changed, for the properties

debounceVars == <<clk_counter, clk_slow, button_state>>
pulseVars    == <<state, next, o_pulse>>
buttonVars == <<i_button, debounceVars, i_clk, pulseVars, quiet>>

Quiet == 2 * Period   \* where quiet stops counting

\* (Mutant: the level is sampled at both edges of the slow clock.)
SamplesBoth(slow) == slow # clk_slow

Samples(slow) == slow /\ ~ clk_slow

Debounce ==
  /\ IF clk_counter < Period
     THEN clk_counter' = clk_counter + 1 /\ UNCHANGED clk_slow
     ELSE clk_counter' = 1 /\ clk_slow' = ~ clk_slow
  /\ button_state' = IF Samples(clk_slow') THEN i_button ELSE button_state
  /\ quiet' = IF button_state' # button_state THEN 1
              ELSE IF quiet < Quiet THEN quiet + 1 ELSE quiet

\* What to do in each state: the latches next and o_pulse.
NextState(st, clk, old) ==
  CASE st = "WAIT_LOW"  -> IF clk THEN "RISING" ELSE old
    [] st = "RISING"    -> "PULSE"
    [] st = "PULSE"     -> IF clk THEN "WAIT_HIGH" ELSE "WAIT_LOW"
    [] st = "WAIT_HIGH" -> IF clk THEN old ELSE "WAIT_LOW"

Pulse(st, old) ==
  CASE st = "RISING" -> TRUE
    [] st = "PULSE"  -> FALSE
    [] OTHER         -> old

LevelToPulse ==
  LET after == NextState(state, TRUE, next)
  IN  /\ state' \in {next, after}
      /\ next' = NextState(state', TRUE, after)
      /\ o_pulse' = Pulse(state', o_pulse)

Rise ==
  /\ ~ i_clk /\ i_clk' = TRUE
  /\ Debounce
  /\ LevelToPulse
  /\ UNCHANGED i_button

Fall ==
  /\ i_clk /\ i_clk' = FALSE
  /\ next' = NextState(state, FALSE, next)
  /\ UNCHANGED <<i_button, debounceVars, state, o_pulse, quiet>>

\* The button is pressed, released, or bounces.
Bounce ==
  /\ i_button' = ~ i_button
  /\ UNCHANGED <<debounceVars, i_clk, pulseVars, quiet>>

ButtonInit ==
  /\ i_button \in BOOLEAN
  /\ clk_counter = 1 /\ clk_slow = FALSE /\ button_state = FALSE
  /\ i_clk = FALSE
  /\ state = "WAIT_LOW" /\ next = "WAIT_LOW" /\ o_pulse = FALSE
  /\ quiet = Quiet

ButtonNext == Rise \/ Fall \/ Bounce

ButtonClocks == ButtonInit /\ [][ButtonNext]_buttonVars
\* The clock never stops.
ButtonSpec   == ButtonClocks /\ WF_buttonVars(Rise) /\ WF_buttonVars(Fall)

(***************************************************************************)
(* Properties.                                                             *)
(***************************************************************************)

(***************************************************************************)
(* However the pin bounces, the level changes at most once in a period of  *)
(* the slow clock.                                                         *)
(***************************************************************************)
LevelIsDebounced ==
  [][button_state' # button_state => quiet = Quiet]_buttonVars

(***************************************************************************)
(* A pulse takes one clock, whichever way the race for next ends.          *)
(***************************************************************************)
PulseIsOneClock == [][(o_pulse /\ Rise) => ~ o_pulse']_buttonVars

(***************************************************************************)
(* The machine looks at its clock where it should look at its input: there *)
(* are pulses for ever, with the button held, released or never touched.   *)
(***************************************************************************)
PulsesForEver == []<>o_pulse /\ []<>(~ o_pulse)
=============================================================================
