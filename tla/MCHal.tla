------------------------------- MODULE MCHal --------------------------------
(* The parts of the HAL.  Each keeps state of its own, so one of them      *)
(* moves in a behaviour and the others stay as they were at the start.     *)
(*   files   six descriptors: three streams and three to open, so that a   *)
(*           lock is held and asked for below, at and above the high-water *)
(*           mark;                                                         *)
(*   alarms  three alarms and a clock of four ticks: delays and periods of *)
(*           every length start at every value of it, and it wraps;        *)
(*   plain   three lines, and with 3 a number that is none, with routines  *)
(*           that change two of the lines and are not interrupted;         *)
(*   nested  two lines whose routines let themselves be interrupted;       *)
(*   caches  blocks that begin and end on, before and behind the ends of   *)
(*           lines, buffers whose last line, when they begin within one,   *)
(*           they reach into, and words that are copied and executed,      *)
(*           through a data cache of two lines and an instruction cache    *)
(*           of one;                                                       *)
(*   time    a second of ten parts and five ticks, and a count that is no  *)
(*           multiple of it;                                               *)
(*   stamp   halves of four values: the counter borrows from the upper;    *)
(*   scroll  the display's own sizes.  A text of n > 16 characters is a    *)
(*           line of n + 1 columns; lines of up to 62 are written.         *)
EXTENDS FileTable, Cache, Alarms, Clocks

VARIABLES part,
          \* of Interrupts
          pie, ienable, alt_irq_active, alt_priority_mask, handler, context, lines, stack,
          \* of LcdScroll
          width, speed, scrollmax, scrollpos

irqVars == <<pie, ienable, alt_irq_active, alt_priority_mask, handler, context, lines, stack>>
lcdVars == <<width, speed, scrollmax, scrollpos>>

\* Blocks of data and of code.
MCBlocks  == {<<0, 3>>, <<1, 2>>, <<3, 3>>, <<4, 1>>}
MCBuffers == {<<0, 3>>, <<1, 2>>}

\* Times that are set, at the start of a second and at its end.
MCTimes == {<<0, 0>>, <<0, 9>>, <<3, 0>>, <<3, 7>>, <<40, 1>>}

StdIsUart == [i \in 0 .. 2 |-> "/dev/jtag_uart"]

Plain  == INSTANCE Interrupts
            WITH NIrq <- 3, Isrs <- {"a", "b"}, NoIsr <- "none", Asked <- {0, 2, 3},
                 Nesting <- {}, IsrChanges <- {0, 2}
Nested == INSTANCE Interrupts
            WITH NIrq <- 3, Isrs <- {"a"}, NoIsr <- "none", Asked <- {0, 1, 2},
                 Nesting <- {1, 2}, IsrChanges <- {}
Lcd    == INSTANCE LcdScroll
            WITH Height <- 2, Width <- 16, Widths <- {16, 18, 19, 20, 31, 32, 33, 47, 62, 63}

ASSUME PartsAssumption ==
  /\ Plain!LinesAreReal /\ Nested!LinesAreReal
  /\ ClockIsReal /\ HalfIsReal /\ Lcd!WidthsAreReal /\ BuffersFillLines

Parts == {"files", "alarms", "plain", "nested", "caches", "time", "stamp", "scroll"}

PartsInit ==
  /\ part \in Parts
  /\ Init /\ AlarmInit /\ Plain!IrqInit /\ TimeInit /\ StampInit /\ Lcd!Init
  /\ CacheInit /\ (part # "caches" => mem[0] = 0)
  /\ part # "stamp" => period = 0
  /\ part # "scroll" => \A r \in 0 .. 1 : width[r] = 16

PartsNext ==
  \/ /\ part = "files" /\ Next
     /\ UNCHANGED <<part, alarmVars, irqVars, cacheVars, timeVars, stampVars, lcdVars>>
  \/ /\ part = "alarms" /\ AlarmNext
     /\ UNCHANGED <<part, vars, irqVars, cacheVars, timeVars, stampVars, lcdVars>>
  \/ /\ part = "plain" /\ Plain!IrqNext
     /\ UNCHANGED <<part, vars, alarmVars, cacheVars, timeVars, stampVars, lcdVars>>
  \/ /\ part = "nested" /\ Nested!IrqNext
     /\ UNCHANGED <<part, vars, alarmVars, cacheVars, timeVars, stampVars, lcdVars>>
  \/ /\ part = "caches" /\ CacheNext
     /\ UNCHANGED <<part, vars, alarmVars, irqVars, timeVars, stampVars, lcdVars>>
  \/ /\ part = "time" /\ TimeNext
     /\ UNCHANGED <<part, vars, alarmVars, irqVars, cacheVars, stampVars, lcdVars>>
  \/ /\ part = "stamp" /\ StampNext
     /\ UNCHANGED <<part, vars, alarmVars, irqVars, cacheVars, timeVars, lcdVars>>
  \/ /\ part = "scroll" /\ Lcd!Timeout
     /\ UNCHANGED <<part, vars, alarmVars, irqVars, cacheVars, timeVars, stampVars>>

\* The processor runs, and the timer of the display.
PartsSpec ==
  /\ PartsInit
  /\ [][PartsNext]_<<part, vars, alarmVars, irqVars, cacheVars, timeVars, stampVars, lcdVars>>
  /\ WF_irqVars(part = "plain" /\ Plain!Processor)
  /\ WF_lcdVars(part = "scroll" /\ Lcd!Timeout)

(* The properties of the parts, gathered from their modules.               *)
\* A line is dispatched to a routine with its own context, in the table;
\* nothing interrupts a section with interrupts off, nor one within another; a
\* registration that succeeds has enabled its line; no change of another line
\* is undone; nested masks leave nothing behind, and let only higher lines in;
\* and the line of highest priority is served or disabled in the end.
InterruptsAreSound ==
  /\ [](/\ Plain!PairIsWhole /\ Plain!SectionIsAlone
        /\ Plain!StaysInTable /\ Plain!SuccessEnables)
  /\ [](part = "nested" => Nested!CopyIsTrue /\ Nested!OnlyHigherInterrupts)
  /\ Plain!OneBitChanges
  /\ (part = "plain" => Plain!HighestIsServed)
\* Scrolling jumps over no character, all lines finish a round together, and
\* the last character of each is shown again and again.
ScrollsThrough ==
  Lcd!NothingSkipped /\ Lcd!FinishTogether /\ (part = "scroll" => Lcd!AllIsDisplayed)
=============================================================================
