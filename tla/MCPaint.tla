------------------------------ MODULE MCPaint -------------------------------
(* The parts of the mouse program.  What one hands to the next is left to  *)
(* chance in each of them (a transfer that ends, a report that comes, a    *)
(* place to show), so they share nothing: one of them moves in a behaviour *)
(* and the others stay as they were at the start.                          *)
(*   free    main() with a chip that answers whenever it likes, two        *)
(*           changes of the mouse, and failures;                           *)
(*   stays, plug                                                           *)
(*           main() with a chip that keeps its times, and a mouse that     *)
(*           comes or goes once, or twice;                                 *)
(*   lists   the words of all transfers, one of which may fail;            *)
(*   cursor  a screen of 3 by 2, and bytes of two bits;                    *)
(*   board   places at the corners of the screen, and where two figures    *)
(*           meet;                                                         *)
(*   chip    all registers.                                                *)
EXTENDS Cursor, ChipRegisters, MouseHost, TransferLists, Board

VARIABLE part

\* The corners of the screen, and where two figures meet.
Corners == {0, 9, 102, 105, 320, 639} \X {0, 6, 9, 246, 479}

Stays == INSTANCE MouseHost
           WITH MaxPlugs <- 1, MayFail <- FALSE, Notices <- FALSE, Timely <- TRUE
Swap  == INSTANCE MouseHost
           WITH MaxPlugs <- 2, MayFail <- FALSE, Notices <- FALSE, Timely <- TRUE

ASSUME PartsAssumption == Stays!BoundsAreReal /\ Swap!BoundsAreReal

MainModes == {"free", "stays", "plug"}

PartsInit ==
  /\ part \in MainModes \cup {"lists", "cursor", "board", "chip"}
  /\ Init /\ HostInit /\ ListInit /\ BoardInit /\ ChipInit
  /\ part \notin MainModes => mouse = "none"
  /\ part # "chip" => at = "DEVICE"

PartsNext ==
  \/ part = "free" /\ HostNext /\ UNCHANGED <<part, vars, listVars, boardVars, chipVars>>
  \/ part = "stays" /\ Stays!HostNext /\ UNCHANGED <<part, vars, listVars, boardVars, chipVars>>
  \/ part = "plug" /\ Swap!HostNext /\ UNCHANGED <<part, vars, listVars, boardVars, chipVars>>
  \/ part = "lists" /\ ListNext /\ UNCHANGED <<part, vars, hostVars, boardVars, chipVars>>
  \/ part = "cursor" /\ Next /\ UNCHANGED <<part, hostVars, listVars, boardVars, chipVars>>
  \/ part = "board" /\ BoardNext /\ UNCHANGED <<part, vars, hostVars, listVars, chipVars>>
  \/ part = "chip" /\ ChipNext /\ UNCHANGED <<part, vars, hostVars, listVars, boardVars>>

\* The processor runs, and the chip answers commands and runs lists.
Timed == part \in {"stays", "plug"}
PartsSpec ==
  /\ PartsInit /\ [][PartsNext]_<<part, vars, hostVars, listVars, boardVars, chipVars>>
  /\ WF_hostVars(Timed /\ Swap!Main) /\ WF_hostVars(Timed /\ Swap!Answer)
  /\ WF_hostVars(Timed /\ Swap!Run)

(* The properties of MouseHost, gathered.                                  *)
\* With a chip that keeps its times, a mouse that stays is enumerated, one that
\* is pulled out is missed, and one put in while main() waits is followed.
MouseIsFollowed ==
  /\ part = "stays" => Stays!EnumerationEnds
  /\ part = "plug" => Swap!RemovalIsMissed /\ Swap!InsertionIsServed
=============================================================================
