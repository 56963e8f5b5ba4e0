------------------------------- MODULE MCLcd --------------------------------
(* The character display: a panel of two rows of one cell over lines of    *)
(* two cells, which scroll.  One of two moves in a behaviour:              *)
(*   paint   the timer between any two steps and a panel that may break;   *)
(*   text    every character that the driver tells from others, alone and  *)
(*           in escape sequences.                                          *)
EXTENDS LcdDriver

VARIABLE part

Paint == INSTANCE LcdDriver
           WITH EscSize <- 3, Plain <- {"A", "LF", "ESC"}, InSequence <- {"[", "2", "J"},
                MayBreak <- TRUE, TimerRuns <- TRUE

ASSUME PartsAssumption == SizesAreReal /\ Paint!SizesAreReal

PartsInit ==
  /\ part \in {"paint", "text"}
  /\ IF part = "paint" THEN Paint!Init ELSE Init

PartsNext ==
  /\ UNCHANGED part
  /\ \/ part = "paint" /\ Paint!Next
     \/ part = "text" /\ Next
PartsSpec == PartsInit /\ [][PartsNext]_<<part, vars>>
=============================================================================
