----------------------------- MODULE MCDetector -----------------------------
(* The parts of the person detector.  They share nothing here (the designs *)
(* join them in schematics of their own), so one of them moves in a        *)
(* behaviour and the others stay as they were built.                       *)
(*   root   operands of eight bits: Root is 2^4, and the result has two    *)
(*          bits more than it needs, as in the source;                     *)
(*   block  blocks of two numbers of every kind: those below 256 keep all  *)
(*          their bits when they are shifted, the squares of the largest   *)
(*          two overflow;                                                  *)
(*   cell   gradients that are flat, between bins, and the largest, whose  *)
(*          sum of squares takes 17 bits, in every order;                  *)
(*   held   a grid of gradients, each held from power-up.                  *)
EXTENDS SquareRoot, HogCell

VARIABLES part,
          block_state, block_a, block_sq, block_del, block_root,
          block, sqr, step, o

blockVars == <<block_state, block_a, block_sq, block_del, block_root,
               block, sqr, step, o>>

Block == INSTANCE BlockNormalization
           WITH Root <- 256, RootWidth <- 1024, Shift <- 8,
                Size <- 2, Values <- {0, 1, 3, 255, 300, 1023},
                present_state <- block_state, a <- block_a, sq <- block_sq,
                del <- block_del, root <- block_root

Mixed == {<<0, 0>>, <<40, 200>>, <<255, 255>>}
Grid  == {4 * i + 3 : i \in 0 .. 63} \X {5 * i : i \in 0 .. 51}
Held  == INSTANCE HogCell
           WITH Gradients <- Grid, MaxClocks <- 4, MaxUpsets <- 0

ASSUME PartsAssumption ==
  Block!BlocksAreReal /\ Held!GradientsAreReal

HoldOne ==
  \E g \in Grid :
    /\ \A i \in DOMAIN given : given[i].g = g
    /\ Held!CellClock(g, FALSE, TRUE)

PartsInit ==
  /\ part \in {"root", "block", "cell", "held"}
  /\ Init /\ CellInit
  /\ Block!BlockInit /\ (part # "block" => block_sq = 0)

PartsNext ==
  \/ part = "root" /\ Next /\ UNCHANGED <<part, blockVars, hogVars>>
  \/ part = "block" /\ Block!BlockNext /\ UNCHANGED <<part, sqrtVars, hogVars>>
  \/ part = "cell" /\ CellNext /\ UNCHANGED <<part, sqrtVars, blockVars>>
  \/ part = "held" /\ HoldOne /\ UNCHANGED <<part, sqrtVars, blockVars>>

\* The clocks of the root never stop.
PartsSpec ==
  /\ PartsInit /\ [][PartsNext]_<<part, sqrtVars, blockVars, hogVars>>
  /\ WF_sqrtVars(part = "root" /\ (Test \/ Update \/ Done))
  /\ WF_blockVars(part = "block" /\ Block!BlockNext)

(* The properties of BlockNormalization, as they say there.                *)
\* No block is scaled by its magnitude: what comes out is only shifted, and
\* one root is taken for all blocks.
NormalizesNothing ==
  /\ [](Block!BlockTypeOK /\ Block!NeverScaled)
  /\ part = "block" => Block!OneRootForAll
=============================================================================
