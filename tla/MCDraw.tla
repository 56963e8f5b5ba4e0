------------------------------- MODULE MCDraw -------------------------------
(* A screen of three by two pixels, a queue of four addresses, and a       *)
(* shallow line, a steep line and a point.  The client that looks at no    *)
(* flag asks for the last two.  Lines are queued without end.              *)
EXTENDS DrawLines

P(a, b) == [x |-> a, y |-> b]

MCLines == {[from |-> P(0, 0), to |-> P(2, 1)],
            [from |-> P(1, 1), to |-> P(1, 0)],
            [from |-> P(2, 0), to |-> P(2, 0)]}
MCAsked == [c \in BOOLEAN |->
              IF c THEN MCLines ELSE {l \in MCLines : l.from.x = l.to.x}]
=============================================================================
