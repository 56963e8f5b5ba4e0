----------------------------- MODULE LcdProofs ------------------------------
(***************************************************************************)
(* Theorems about LcdDriver, for every size of display, text and counter,  *)
(* every text, and a panel that may break at any command: the display is   *)
(* true.  A repaint is a function defined by recursion over the cells;     *)
(* Recursion says that there is one, and induction over the cells what it  *)
(* leaves.  And about LcdScroll, for every width of the rows that a signed *)
(* char has room for: no character is jumped over, and the rows finish     *)
(* their rounds together.                                                  *)
(***************************************************************************)
EXTENDS LcdDriver, Recursion, SequenceTheorems

\* What may stand in a cell of the text, and of the panel.
Chars == Plain \cup {Blank}
Columns == 0 .. Width - 1
Addresses == 0 .. Height * Virtual
Screens ==
  [broken : BOOLEAN, visible : [Rows -> [Columns -> Chars]],
   address : Addresses, panel : [Addresses -> Chars], cursor : Addresses]
Places == [row : Rows, col : Columns]

\* The types of the text and of everything else.
TextTypes ==
  /\ x \in 0 .. ByteWords - 1 /\ y \in 0 .. Height
  /\ esccount \in -1 .. EscSize - 1 /\ escape \in Seq(InSequence)
  /\ IF esccount >= 0 THEN esccount = Len(escape) ELSE escape = <<>>
  /\ data \in [Rows -> [Cols -> Chars]] /\ beyond \in BOOLEAN
Types ==
  /\ TextTypes
  /\ width \in [Rows -> 0 .. Virtual + 1] /\ speed \in [Rows -> 0 .. 128]
  /\ scrollpos \in Nat /\ scrollmax \in Int
  /\ active \in BOOLEAN /\ Screen \in Screens
  /\ pc \in {"idle", "text", "old", "repaint", "cell", "data", "release", "check"}
  /\ cell \in DOMAIN Cells /\ pos \in Nat /\ old_scrollpos \in Nat

\* What the assumption says of each constant.
LEMMA Constants ==
  /\ Height \in Nat /\ Height > 0 /\ Width \in Nat /\ Width > 0 /\ EscSize \in Nat /\ EscSize > 0
  /\ Virtual \in Nat /\ Virtual >= Width
  /\ ByteWords \in Nat /\ ByteWords > Virtual /\ ByteWords > 2 * Height
  /\ CharWords \in Nat /\ CharWords > 0
  /\ 0 \in Rows /\ Rows \subseteq Nat
BY SizesAssumption DEF SizesAreReal, Rows

\* Products grow with their factors.
LEMMA Product ==
  ASSUME NEW a \in Nat, NEW b \in Nat, NEW n \in Nat, a <= b
  PROVE  n * a \in Nat /\ n * b \in Nat /\ n * a <= n * b
<1>1. n * b = n * a + n * (b - a) /\ n * a \in Nat /\ n * (b - a) \in Nat
  BY SMT
<1> QED
  BY <1>1

\* A number is so many divisors and a rest.
LEMMA Division ==
  ASSUME NEW a \in Nat, NEW m \in Nat, m > 0
  PROVE  a \div m \in Nat /\ a % m \in 0 .. m - 1 /\ a = m * (a \div m) + (a % m)
BY SMT

\* Where a cell is in the panel's memory: no two cells share a place.
LEMMA AddressesApart ==
  ASSUME NEW c \in Places, NEW d \in Places
  PROVE  /\ AddressOf(c) \in Nat /\ AddressOf(c) + 1 \in Addresses /\ AddressOf(c) \in Addresses
         /\ AddressOf(c) = AddressOf(d) => c.row = d.row /\ c.col = d.col
<1>1. c.row \in Rows /\ c.col \in Columns /\ d.row \in Rows /\ d.col \in Columns
  BY DEF Places
<1>2. c.row \in Nat /\ c.row + 1 <= Height /\ c.col \in Nat /\ c.col + 1 <= Virtual
  BY <1>1, Constants DEF Rows, Columns
<1>3. d.row \in Nat /\ d.row + 1 <= Height /\ d.col \in Nat /\ d.col + 1 <= Virtual
  BY <1>1, Constants DEF Rows, Columns
<1>4. Virtual * c.row \in Nat /\ Virtual * (c.row + 1) <= Virtual * Height
      /\ Virtual * (c.row + 1) = Virtual * c.row + Virtual
      /\ Virtual * Height \in Nat /\ Virtual * Height = Height * Virtual
  BY <1>2, Constants, Product, SMT
<1>5. AddressOf(c) \in Nat /\ AddressOf(c) + 1 <= Height * Virtual
  BY <1>2, <1>4, Constants DEF AddressOf, ColStart
<1>6. ASSUME AddressOf(c) = AddressOf(d) PROVE c.row = d.row /\ c.col = d.col
  <2>1. Virtual * d.row \in Nat
    BY <1>3, Constants, Product
  <2>2. ~(c.row < d.row)
    <3> SUFFICES ASSUME c.row + 1 <= d.row PROVE FALSE
      BY <1>2, <1>3
    <3>1. Virtual * (c.row + 1) <= Virtual * d.row
      BY <1>2, <1>3, Constants, Product
    <3> QED
      BY <1>2, <1>3, <1>4, <1>6, <2>1, <3>1, Constants DEF AddressOf, ColStart
  <2>3. ~(d.row < c.row)
    <3> SUFFICES ASSUME d.row + 1 <= c.row PROVE FALSE
      BY <1>2, <1>3
    <3>1. Virtual * (d.row + 1) <= Virtual * c.row
      BY <1>2, <1>3, Constants, Product
    <3>2. Virtual * (d.row + 1) = Virtual * d.row + Virtual
      BY <1>3, Constants, SMT
    <3> QED
      BY <1>2, <1>3, <1>4, <1>6, <2>1, <3>1, <3>2, Constants DEF AddressOf, ColStart
  <2>4. c.row = d.row
    BY <2>2, <2>3, <1>2, <1>3
  <2> QED
    BY <2>4, <1>2, <1>3, <1>4, <1>6 DEF AddressOf, ColStart
<1> QED
  BY <1>4, <1>5, <1>6 DEF Addresses

\* lcd_repaint_screen() goes over cells of the panel.
LEMMA CellsAre ==
  /\ Cells \in Seq(Places) /\ Len(Cells) \in Nat \ {0}
  /\ DOMAIN Cells = 1 .. Len(Cells) /\ 1 \in DOMAIN Cells
  /\ \A i \in DOMAIN Cells : Cells[i] \in Places
<1> DEFINE n == Height * Width
<1>1. n \in Nat /\ n > 0
  BY Constants, SMT
<1>2. ASSUME NEW i \in 1 .. n PROVE Cells[i] \in Places
  <2> DEFINE q == (i - 1) \div Width
  <2>1. i - 1 \in Nat /\ i - 1 < n
    BY <1>1
  <2>2. /\ q \in Nat /\ (i - 1) % Width \in 0 .. Width - 1
        /\ i - 1 = Width * q + ((i - 1) % Width)
    BY <2>1, Constants, Division
  <2>3. q < Height
    <3> SUFFICES ASSUME Height <= q PROVE FALSE
      BY <2>2, Constants
    <3>1. Width * Height <= Width * q
      <4> HIDE DEF q
      <4> QED
        BY <2>1, <2>2, Constants, Product
    <3>2. Width * Height = n
      BY Constants, SMT
    <3> HIDE DEF q
    <3> QED
      BY <1>1, <2>1, <2>2, <3>1, <3>2, Constants
  <2>4. Cells[i] = [row |-> q, col |-> (i - 1) % Width]
    BY DEF Cells
  <2> HIDE DEF q
  <2> QED
    BY <2>1, <2>2, <2>3, <2>4, Constants DEF Places, Rows, Columns
<1>3. Cells = [i \in 1 .. n |-> Cells[i]]
  BY DEF Cells
<1> HIDE DEF n
<1>4. Cells \in Seq(Places) /\ Len(Cells) = n /\ DOMAIN Cells = 1 .. n
  BY <1>1, <1>2, <1>3
<1> QED
  BY <1>1, <1>2, <1>4

-----------------------------------------------------------------------------
(* Painting.                                                               *)

\* The rows have a width to divide by.
Laid == \A r \in Rows : width[r] > 0

\* The panel of a screen shows what its driver takes it to show.
Follows(s) ==
  ~s.broken =>
    /\ s.cursor = s.address
    /\ \A r \in Rows, c \in Columns : s.panel[ColStart(r) + c] = s.visible[r][c]

\* The first k cells of a screen show the text at scroll position p.
PaintedTo(s, k, p) ==
  \A i \in 1 .. k : s.visible[Cells[i].row][Cells[i].col] = Shown(Cells[i], p)

\* A blank is a character, and a cell is to show one.
LEMMA BlankIsChar == Blank \in Chars
BY DEF Chars

LEMMA ShownIsChar ==
  ASSUME Types, Laid, NEW c \in Places, NEW p \in Nat
  PROVE  Shown(c, p) \in Chars
<1> DEFINE w == width[c.row]
           start == IF (p * speed[c.row]) \div 256 >= w THEN 0 ELSE (p * speed[c.row]) \div 256
<1>1. c.row \in Rows /\ c.col \in Nat /\ w \in Nat /\ w > 0 /\ speed[c.row] \in Nat
  BY Constants DEF Places, Types, TextTypes, Laid, Columns
<1>2. p * speed[c.row] \in Nat
  BY <1>1, SMT
<1>3. (p * speed[c.row]) \div 256 \in Nat
  BY <1>2, Division
<1>4. start \in Nat
  BY <1>3
<1>5. c.col + start \in Nat
  BY <1>1, <1>4
<1>6. (c.col + start) % w \in Nat
  <2> HIDE DEF w, start
  <2> QED
    BY <1>1, <1>5, Division
<1>7. Shown(c, p) = IF (c.col + start) % w < Virtual THEN data[c.row][(c.col + start) % w] ELSE Blank
  BY DEF Shown
<1> HIDE DEF w, start
<1>8. ASSUME (c.col + start) % w < Virtual PROVE data[c.row][(c.col + start) % w] \in Chars
  <2>1. (c.col + start) % w \in Cols
    BY <1>6, <1>8, Constants DEF Cols
  <2>2. data[c.row] \in [Cols -> Chars]
    BY <1>1 DEF Types, TextTypes
  <2> QED
    BY <2>1, <2>2
<1> QED
  BY <1>7, <1>8, BlankIsChar

\* What a command leaves of a screen, and a character.
LEMMA CommandFields ==
  ASSUME NEW s \in Screens, NEW c \in Places
  PROVE  /\ Command(s, c) \in Screens
         /\ Command(s, c).broken = s.broken /\ Command(s, c).visible = s.visible
         /\ Command(s, c).panel = s.panel /\ Command(s, c).address = AddressOf(c)
         /\ Follows(s) => Follows(Command(s, c))
<1> DEFINE t == Command(s, c)
<1>1. AddressOf(c) \in Addresses
  BY AddressesApart
<1>2. CASE s.address = AddressOf(c)
  <2>1. t = s
    BY <1>2 DEF Command
  <2> QED
    BY <1>2, <2>1
<1>3. CASE s.address # AddressOf(c)
  <2>1. t = [s EXCEPT !.address = AddressOf(c),
                      !.cursor = IF s.broken THEN s.cursor ELSE AddressOf(c)]
    BY <1>3 DEF Command
  <2>2. /\ t.broken = s.broken /\ t.visible = s.visible /\ t.panel = s.panel
        /\ t.address = AddressOf(c) /\ t.cursor = IF s.broken THEN s.cursor ELSE AddressOf(c)
        /\ t \in Screens
    BY <1>1, <2>1 DEF Screens
  <2> HIDE DEF t
  <2>3. Follows(s) => Follows(t)
    BY <2>2 DEF Follows
  <2> QED
    BY <2>2, <2>3 DEF t
<1> QED
  BY <1>2, <1>3

\* What a character at the address of its cell does to a screen.
LEMMA CharacterFields ==
  ASSUME Types, Laid, NEW s \in Screens, NEW c \in Places, NEW p \in Nat,
         ~s.broken => s.address = AddressOf(c), Follows(s)
  PROVE  /\ Character(s, c, p) \in Screens /\ Character(s, c, p).broken = s.broken
         /\ Character(s, c, p).visible
              = [s.visible EXCEPT ![c.row][c.col] = Shown(c, p)]
         /\ Follows(Character(s, c, p))
<1> DEFINE t == Character(s, c, p)
           v == Shown(c, p)
<1>1. v \in Chars
  BY ShownIsChar
<1> HIDE DEF v
<1>2. /\ AddressOf(c) \in Addresses /\ AddressOf(c) + 1 \in Addresses
      /\ c.row \in Rows /\ c.col \in Columns
  BY AddressesApart DEF Places
<1>3. t = [s EXCEPT !.visible = [s.visible EXCEPT ![c.row][c.col] = v],
                    !.address = IF s.broken THEN s.address ELSE s.address + 1,
                    !.panel = IF s.broken THEN s.panel ELSE [s.panel EXCEPT ![s.cursor] = v],
                    !.cursor = IF s.broken THEN s.cursor ELSE s.cursor + 1]
  BY DEF Character, v
<1>4. /\ s.visible \in [Rows -> [Columns -> Chars]] /\ s.panel \in [Addresses -> Chars]
      /\ s.address \in Addresses /\ s.cursor \in Addresses /\ s.broken \in BOOLEAN
  BY DEF Screens
<1>5. ~s.broken => s.address = AddressOf(c) /\ s.cursor = AddressOf(c)
  BY DEF Follows
<1>6. [s.visible EXCEPT ![c.row][c.col] = v] \in [Rows -> [Columns -> Chars]]
  BY <1>1, <1>2, <1>4
<1>7. [s.panel EXCEPT ![s.cursor] = v] \in [Addresses -> Chars]
  BY <1>1, <1>4
<1>8. /\ t.broken = s.broken /\ t.visible = [s.visible EXCEPT ![c.row][c.col] = v]
      /\ t.address = IF s.broken THEN s.address ELSE s.address + 1
      /\ t.panel = IF s.broken THEN s.panel ELSE [s.panel EXCEPT ![s.cursor] = v]
      /\ t.cursor = IF s.broken THEN s.cursor ELSE s.cursor + 1
  BY <1>3, <1>4 DEF Screens
<1>9. t \in Screens
  <2>1. (IF s.broken THEN s.address ELSE s.address + 1) \in Addresses
        /\ (IF s.broken THEN s.cursor ELSE s.cursor + 1) \in Addresses
        /\ (IF s.broken THEN s.panel ELSE [s.panel EXCEPT ![s.cursor] = v])
              \in [Addresses -> Chars]
    BY <1>2, <1>4, <1>5, <1>7
  <2> QED
    BY <1>3, <1>4, <1>6, <2>1 DEF Screens
<1> HIDE DEF t
<1>10. ASSUME ~s.broken, NEW r \in Rows, NEW d \in Columns
       PROVE  t.panel[ColStart(r) + d] = t.visible[r][d]
  <2> DEFINE e == [row |-> r, col |-> d]
  <2>1. e \in Places /\ AddressOf(e) = ColStart(r) + d /\ AddressOf(e) \in Addresses
    BY AddressesApart DEF Places, AddressOf
  <2>2. s.panel[ColStart(r) + d] = s.visible[r][d]
    BY <1>10 DEF Follows
  <2>3. CASE r = c.row /\ d = c.col
    <3>1. ColStart(r) + d = AddressOf(c)
      BY <2>3 DEF AddressOf
    <3> QED
      BY <1>2, <1>4, <1>5, <1>8, <1>10, <2>3, <3>1
  <2>4. CASE ~(r = c.row /\ d = c.col)
    <3>1. ColStart(r) + d # AddressOf(c)
      BY <2>1, <2>4, AddressesApart
    <3>2. t.visible[r][d] = s.visible[r][d]
      BY <1>2, <1>4, <1>8, <2>4
    <3>3. t.panel[ColStart(r) + d] = s.panel[ColStart(r) + d]
      BY <1>4, <1>5, <1>8, <1>10, <2>1, <3>1
    <3> QED
      BY <2>2, <3>2, <3>3
  <2> QED
    BY <2>3, <2>4
<1>11. Follows(t)
  BY <1>5, <1>8, <1>10 DEF Follows
<1> QED
  BY <1>8, <1>9, <1>11 DEF t, v

\* A character at a cell leaves what is painted painted, and paints the cell.
LEMMA CharacterPaints ==
  ASSUME Types, Laid, NEW s \in Screens, NEW p \in Nat, NEW k \in DOMAIN Cells,
         NEW t, t.visible = [s.visible EXCEPT ![Cells[k].row][Cells[k].col] = Shown(Cells[k], p)],
         PaintedTo(s, k - 1, p)
  PROVE  PaintedTo(t, k, p)
<1>1. s.visible \in [Rows -> [Columns -> Chars]]
  BY DEF Screens
<1>2. ASSUME NEW i \in 1 .. k
      PROVE  t.visible[Cells[i].row][Cells[i].col] = Shown(Cells[i], p)
  <2>1. /\ i \in DOMAIN Cells /\ Cells[i] \in Places /\ Cells[k] \in Places
    BY CellsAre
  <2>2. /\ Cells[i].row \in Rows /\ Cells[i].col \in Columns
        /\ Cells[k].row \in Rows /\ Cells[k].col \in Columns
    BY <2>1 DEF Places
  <2>3. CASE Cells[i].row = Cells[k].row /\ Cells[i].col = Cells[k].col
    <3>1. Cells[i] = Cells[k]
      BY <2>1, <2>3 DEF Places
    <3> QED
      BY <1>1, <2>2, <3>1
  <2>4. CASE ~(Cells[i].row = Cells[k].row /\ Cells[i].col = Cells[k].col)
    <3>1. i \in 1 .. k - 1
      <4>1. i # k
        BY <2>4
      <4>2. k \in Nat
        BY CellsAre
      <4> QED
        BY <4>1, <4>2
    <3>2. t.visible[Cells[i].row][Cells[i].col] = s.visible[Cells[i].row][Cells[i].col]
      BY <1>1, <2>2, <2>4
    <3> QED
      BY <3>1, <3>2 DEF PaintedTo
  <2> QED
    BY <2>3, <2>4
<1> QED
  BY <1>2 DEF PaintedTo

\* A cell of the repaint keeps what is painted, and paints the cell.
LEMMA CellPainted ==
  ASSUME Types, Laid, NEW s \in Screens, NEW p \in Nat, NEW k \in DOMAIN Cells, Follows(s)
  PROVE  /\ PaintCell(s, Cells[k], p) \in Screens /\ Follows(PaintCell(s, Cells[k], p))
         /\ PaintedTo(s, k - 1, p) => PaintedTo(PaintCell(s, Cells[k], p), k, p)
<1> DEFINE c == Cells[k]
           t == Command(s, c)
<1>1. c \in Places /\ k \in Nat
  BY CellsAre
<1> HIDE DEF c
<1>2. CASE Differs(s, c, p)
  <2>1. t \in Screens /\ t.visible = s.visible /\ t.address = AddressOf(c) /\ Follows(t)
    BY <1>1, CommandFields
  <2>2. PaintedTo(s, k - 1, p) => PaintedTo(t, k - 1, p)
    BY <2>1 DEF PaintedTo
  <2>3. PaintCell(s, c, p) = Character(t, c, p)
    BY <1>2 DEF PaintCell
  <2> HIDE DEF t
  <2>4. /\ Character(t, c, p) \in Screens /\ Follows(Character(t, c, p))
        /\ Character(t, c, p).visible = [t.visible EXCEPT ![c.row][c.col] = Shown(c, p)]
    BY <1>1, <2>1, CharacterFields
  <2>5. PaintedTo(t, k - 1, p) => PaintedTo(Character(t, c, p), k, p)
    BY <2>1, <2>4, CharacterPaints DEF c
  <2> QED
    BY <2>2, <2>3, <2>4, <2>5 DEF c
<1>3. CASE ~Differs(s, c, p)
  <2>1. PaintCell(s, c, p) = s
    BY <1>3 DEF PaintCell
  <2>2. ASSUME PaintedTo(s, k - 1, p), NEW i \in 1 .. k
        PROVE  s.visible[Cells[i].row][Cells[i].col] = Shown(Cells[i], p)
    <3>1. i \in 1 .. k - 1 \/ i = k
      BY <1>1
    <3> QED
      BY <1>3, <2>2, <3>1 DEF Differs, PaintedTo, c
  <2> QED
    BY <2>1, <2>2 DEF PaintedTo, c
<1> QED
  BY <1>2, <1>3 DEF c

\* The whole of lcd_repaint_screen(): whatever was painted before, every cell
\* shows the text at position p.
LEMMA Repainted ==
  ASSUME Types, Laid, NEW s \in Screens, NEW p \in Nat, Follows(s)
  PROVE  /\ Repaint(s, p) \in Screens /\ Follows(Repaint(s, p))
         /\ PaintedTo(Repaint(s, p), Len(Cells), p)
<1> DEFINE n == Len(Cells)
           Good == {t \in Screens : Follows(t)}
           Painting(f) ==
             f = [i \in 0 .. n |-> IF i = 0 THEN s ELSE PaintCell(f[i - 1], Cells[i], p)]
           painted == CHOOSE f : Painting(f)
           Done == {i \in 0 .. n : painted[i] \in Good /\ PaintedTo(painted[i], i, p)}
<1>1. n \in Nat /\ DOMAIN Cells = 1 .. n
  BY CellsAre
<1>2. \E f : Painting(f)
  <2> DEFINE G == [q \in (1 .. n) \X Good |-> PaintCell(q[2], Cells[q[1]], p)]
  <2>1. ASSUME NEW i \in 1 .. n, NEW t \in Good PROVE PaintCell(t, Cells[i], p) \in Good
    <3>1. i \in DOMAIN Cells /\ t \in Screens /\ Follows(t)
      BY <1>1
    <3> HIDE DEF Good, n, G
    <3>2. PaintCell(t, Cells[i], p) \in Screens /\ Follows(PaintCell(t, Cells[i], p))
      BY <3>1, CellPainted
    <3> QED
      BY <3>2 DEF Good
  <2>2. s \in Good
    OBVIOUS
  <2> HIDE DEF Good
  <2>3. G \in [(1 .. n) \X Good -> Good]
    BY <2>1
  <2>4. \A i \in 1 .. n, t \in Good : G[<<i, t>>] = PaintCell(t, Cells[i], p)
    OBVIOUS
  <2> HIDE DEF G, n
  <2>5. PICK f : Recurs(f, n, Good, s, G)
    BY <1>1, <2>2, <2>3, RecursiveFunction
  <2>6. ASSUME NEW i \in 0 .. n, i # 0 PROVE f[i] = PaintCell(f[i - 1], Cells[i], p)
    <3>1. i \in 1 .. n /\ i - 1 \in 0 .. n
      BY <1>1, <2>6
    <3>2. f[i - 1] \in Good
      BY <2>5, <3>1 DEF Recurs
    <3> QED
      BY <2>4, <2>5, <3>1, <3>2 DEF Recurs
  <2>7. f = [i \in 0 .. n |-> f[i]] /\ f[0] = s
    BY <2>5 DEF Recurs
  <2>8. Painting(f)
    BY <2>6, <2>7
  <2> QED
    BY <2>8
<1>3. Painting(painted)
  BY <1>2
<1>4. Repaint(s, p) = painted[n]
  BY DEF Repaint
<1> HIDE DEF painted, n
<1>5. 0 \in Done
  <2>1. painted[0] = s /\ 0 \in 0 .. n
    BY <1>1, <1>3
  <2>2. PaintedTo(s, 0, p)
    BY DEF PaintedTo
  <2> QED
    BY <2>1, <2>2
<1>6. ASSUME NEW k \in 0 .. n - 1, k \in Done PROVE k + 1 \in Done
  <2>1. k + 1 \in 0 .. n /\ k + 1 \in DOMAIN Cells /\ (k + 1) - 1 = k /\ k + 1 # 0
    BY <1>1
  <2>2. painted[k + 1] = PaintCell(painted[k], Cells[k + 1], p)
    BY <1>3, <2>1
  <2>3. painted[k] \in Screens /\ Follows(painted[k]) /\ PaintedTo(painted[k], (k + 1) - 1, p)
    BY <1>6, <2>1
  <2>4. painted[k + 1] \in Good /\ PaintedTo(painted[k + 1], k + 1, p)
    BY <2>1, <2>2, <2>3, CellPainted
  <2> QED
    BY <2>1, <2>4
<1>7. n \in Done
  <2> HIDE DEF Done
  <2>1. 0 .. n \subseteq Done
    BY <1>1, <1>5, <1>6, InductionUpTo
  <2> QED
    BY <1>1, <2>1
<1> QED
  BY <1>4, <1>7 DEF n

-----------------------------------------------------------------------------
(* The text.                                                               *)

\* The digits from a place within the sequence, or just behind it.
LEMMA DigitsEnd ==
  ASSUME NEW i \in Nat \ {0}, escape \in Seq(InSequence), i <= Len(escape) + 1
  PROVE  Len(RunOfDigits(i)) \in Nat
<1> DEFINE Ends(j) == j = Len(escape) + 1 \/ escape[j] \notin Digits
           T == {j \in Nat : i <= j /\ j <= Len(escape) + 1 /\ Ends(j)}
           IsEnd(j) == Ends(j) /\ \A k \in i .. j - 1 : escape[k] \in Digits
           end == CHOOSE j \in i .. Len(escape) + 1 : IsEnd(j)
<1>1. Len(escape) \in Nat
  OBVIOUS
<1>2. Len(escape) + 1 \in T
  BY <1>1
<1>3. PICK e \in T : \A j \in T : e <= j
  <2>1. T \in SUBSET Nat /\ T # {}
    BY <1>2
  <2> HIDE DEF T
  <2> QED
    BY <2>1, HasLeast
<1>4. e \in i .. Len(escape) + 1 /\ Ends(e)
  BY <1>1, <1>3
<1>5. ASSUME NEW k \in i .. e - 1 PROVE escape[k] \in Digits
  <2>1. k \in Nat /\ i <= k /\ k < e /\ k # Len(escape) + 1 /\ k <= Len(escape) + 1
    BY <1>1, <1>4
  <2>2. k \notin T
    BY <1>3, <2>1
  <2> QED
    BY <2>1, <2>2
<1>6. IsEnd(e)
  BY <1>4, <1>5
<1>7. end \in i .. Len(escape) + 1
  <2> HIDE DEF IsEnd
  <2> QED
    BY <1>4, <1>6
<1>8. RunOfDigits(i) = SubSeq(escape, i, end - 1)
  BY DEF RunOfDigits
<1> HIDE DEF end
<1>9. Len(SubSeq(escape, i, end - 1)) \in Nat
  <2>1. SubSeq(escape, i, end - 1) \in Seq(InSequence)
    BY <1>1, <1>7, SubSeqProperties
  <2> QED
    BY <2>1
<1> QED
  BY <1>8, <1>9

\* What the digits spell is a number.
LEMMA ValueIsNumber ==
  ASSUME NEW ds, Len(ds) \in Nat
  PROVE  Value(ds) \in Nat
<1> DEFINE n == Len(ds)
           Reading(f) ==
             f = [i \in 0 .. n |-> IF i = 0 THEN 0 ELSE 10 * f[i - 1] + Number(ds[i])]
           value == CHOOSE f : Reading(f)
           Read == {i \in 0 .. n : value[i] \in Nat}
           G == [q \in (1 .. n) \X Nat |-> 10 * q[2] + Number(ds[q[1]])]
<1>1. n \in Nat /\ \A d : Number(d) \in Nat
  BY DEF Number
<1>2. Value(ds) = value[n]
  BY DEF Value
<1>3. G \in [(1 .. n) \X Nat -> Nat]
  <2>1. \A i \in 1 .. n, v \in Nat : 10 * v + Number(ds[i]) \in Nat
    BY <1>1
  <2> QED
    BY <2>1
<1>4. \A i \in 1 .. n, v \in Nat : G[<<i, v>>] = 10 * v + Number(ds[i])
  OBVIOUS
<1> HIDE DEF G, n
<1>5. PICK f : Recurs(f, n, Nat, 0, G)
  BY <1>1, <1>3, RecursiveFunction
<1>6. ASSUME NEW i \in 0 .. n, i # 0
      PROVE  i \in 1 .. n /\ i - 1 \in 0 .. n
  BY <1>1, <1>6
<1>7. Reading(f)
  <2>1. ASSUME NEW i \in 0 .. n, i # 0 PROVE f[i] = 10 * f[i - 1] + Number(ds[i])
    <3>1. i \in 1 .. n /\ f[i - 1] \in Nat
      BY <1>5, <1>6, <2>1 DEF Recurs
    <3> QED
      BY <1>4, <1>5, <3>1 DEF Recurs
  <2>2. f = [i \in 0 .. n |-> f[i]] /\ f[0] = 0
    BY <1>5 DEF Recurs
  <2> QED
    BY <2>1, <2>2
<1>8. Reading(value)
  BY <1>7
<1> HIDE DEF value
<1>9. 0 \in Read
  BY <1>1, <1>8
<1>10. ASSUME NEW k \in 0 .. n - 1, k \in Read PROVE k + 1 \in Read
  <2>1. k + 1 \in 0 .. n /\ k + 1 # 0 /\ (k + 1) - 1 = k
    BY <1>1
  <2>2. value[k + 1] = 10 * value[k] + Number(ds[k + 1])
    BY <1>8, <2>1
  <2> QED
    BY <1>1, <1>10, <2>1, <2>2
<1>11. n \in Read
  <2> HIDE DEF Read
  <2>1. 0 .. n \subseteq Read
    BY <1>1, <1>9, <1>10, InductionUpTo
  <2> QED
    BY <1>1, <2>1
<1> QED
  BY <1>2, <1>11

\* The two parameters of an escape sequence.
LEMMA ParmsAreNumbers ==
  ASSUME escape \in Seq(InSequence)
  PROVE  Parm1 \in Int /\ Parm2 \in Int
<1>1. ASSUME IsLong
      PROVE  /\ Len(escape) \in Nat /\ Len(escape) >= 1
             /\ Len(RunOfDigits(2)) \in Nat /\ Value(RunOfDigits(2)) \in Nat
  <2>1. Len(escape) \in Nat /\ Len(escape) >= 1
    BY <1>1, EmptySeq DEF IsLong
  <2>2. Len(RunOfDigits(2)) \in Nat
    BY <2>1, DigitsEnd
  <2> QED
    BY <2>1, <2>2, ValueIsNumber
<1>2. Parm1 \in Int
  BY <1>1 DEF Parm1
<1>3. Parm2 \in Int
  <2> DEFINE i == IF IsLong THEN 2 + Len(RunOfDigits(2)) ELSE 1
  <2>1. ASSUME IsLong, i <= Len(escape) PROVE Value(RunOfDigits(i + 1)) \in Nat
    <3>1. i + 1 \in Nat \ {0} /\ i + 1 <= Len(escape) + 1
      BY <1>1, <2>1
    <3> HIDE DEF i
    <3> QED
      BY <3>1, DigitsEnd, ValueIsNumber
  <2>2. Parm2 = IF IsLong /\ i <= Len(escape) /\ escape[i] = ";"
                  THEN Value(RunOfDigits(i + 1)) ELSE 0
    BY DEF Parm2
  <2> HIDE DEF i
  <2>3. CASE IsLong /\ i <= Len(escape) /\ escape[i] = ";"
    <3>1. Parm2 = Value(RunOfDigits(i + 1))
      BY <2>2, <2>3
    <3>2. Parm2 \in Nat
      BY <2>1, <2>3, <3>1
    <3> QED
      BY <3>2
  <2>4. CASE ~(IsLong /\ i <= Len(escape) /\ escape[i] = ";")
    <3>1. Parm2 = 0
      BY <2>2, <2>4
    <3> QED
      BY <3>1
  <2> QED
    BY <2>3, <2>4
<1> QED
  BY <1>2, <1>3

\* A set of numbers with a bound has a greatest one.
LEMMA HasGreatest ==
  ASSUME NEW T \in SUBSET Nat, T # {}, NEW b \in Nat, \A t \in T : t <= b
  PROVE  \E g \in T : \A t \in T : t <= g
<1> DEFINE U == {u \in Nat : \A t \in T : t <= u}
<1>1. PICK u \in U : \A v \in U : u <= v
  <2>1. U \in SUBSET Nat /\ U # {}
    OBVIOUS
  <2> HIDE DEF U
  <2> QED
    BY <2>1, HasLeast
<1>2. u \in Nat /\ \A t \in T : t <= u
  OBVIOUS
<1>3. SUFFICES ASSUME u \notin T PROVE FALSE
  BY <1>2
<1>4. \A t \in T : t \in Nat /\ t < u
  BY <1>2, <1>3
<1>5. u - 1 \in Nat
  <2>1. PICK t \in T : TRUE
    OBVIOUS
  <2>2. t \in Nat /\ t < u /\ u \in Nat
    BY <1>2, <1>4
  <2> HIDE DEF U
  <2> QED
    BY <2>2
<1>6. \A t \in T : t <= u - 1
  BY <1>2, <1>4
<1>7. u <= u - 1
  BY <1>1, <1>5, <1>6
<1> QED
  BY <1>2, <1>7

\* A row's text is as long as the panel is wide, or longer: not above Virtual,
\* and one for the gap.
LEMMA TextWidths ==
  ASSUME Types, NEW r \in Rows
  PROVE  TextWidth(r) \in Width .. Virtual + 1
<1> DEFINE used == {c + 1 : c \in {d \in Cols : data[r][d] # Blank}}
           IsLongest(n) == \A m \in used : m <= n
           len == IF used = {} THEN 0 ELSE CHOOSE n \in used : IsLongest(n)
<1>1. used \in SUBSET (1 .. Virtual)
  BY Constants DEF Cols
<1>2. TextWidth(r) = IF len <= Width THEN Width ELSE len + 1
  BY DEF TextWidth
<1>3. len \in 0 .. Virtual
  <2>1. CASE used = {}
    BY <2>1, Constants
  <2>2. CASE used # {}
    <3>1. used \in SUBSET Nat /\ \A m \in used : m <= Virtual
      BY <1>1, Constants
    <3> HIDE DEF used
    <3>2. \E n \in used : IsLongest(n)
      BY <2>2, <3>1, Constants, HasGreatest
    <3> HIDE DEF IsLongest
    <3>3. len \in used
      BY <2>2, <3>2
    <3>4. \A n \in used : n \in 0 .. Virtual
      BY <1>1, Constants
    <3> HIDE DEF len
    <3> QED
      BY <3>3, <3>4
  <2> QED
    BY <2>1, <2>2
<1> HIDE DEF len
<1> QED
  BY <1>2, <1>3, Constants

\* The longest row is a row, and none is longer.
LEMMA WidestIs ==
  ASSUME Types
  PROVE  /\ \E r \in Rows : Widest = TextWidth(r)
         /\ \A r \in Rows : TextWidth(r) <= Widest
<1> DEFINE T == {TextWidth(r) : r \in Rows}
           IsWidest(w) == \A r \in Rows : TextWidth(r) <= w
<1>1. T \in SUBSET Nat /\ T # {} /\ \A w \in T : w <= Virtual + 1
  BY TextWidths, Constants
<1>2. PICK g \in T : \A w \in T : w <= g
  <2>1. Virtual + 1 \in Nat
    BY Constants
  <2> HIDE DEF T, IsWidest
  <2> QED
    BY <1>1, <2>1, HasGreatest
<1>3. IsWidest(g)
  BY <1>2
<1>4. Widest = CHOOSE w \in T : IsWidest(w)
  BY DEF Widest
<1>5. Widest \in T /\ IsWidest(Widest)
  <2> HIDE DEF T, IsWidest
  <2> QED
    BY <1>3, <1>4
<1> QED
  BY <1>5

\* No row scrolls faster than half a column at a time.
LEMMA SpeedIsBounded ==
  ASSUME NEW t \in Nat, NEW w \in Nat, w > 0, t <= w
  PROVE  (256 * t) \div (2 * w) \in 0 .. 128
<1> DEFINE q == (256 * t) \div (2 * w)
<1>1. q \in Nat /\ (256 * t) % (2 * w) \in Nat
      /\ 256 * t = (2 * w) * q + ((256 * t) % (2 * w))
  <2> DEFINE a == 256 * t
             m == 2 * w
  <2>1. a \in Nat /\ m \in Nat /\ m > 0
    OBVIOUS
  <2>2. q = a \div m
    OBVIOUS
  <2> HIDE DEF a, m, q
  <2>3. q \in Nat /\ a % m \in Nat /\ a = m * q + (a % m)
    BY <2>1, <2>2, Division
  <2> QED
    BY <2>3 DEF a, m
<1>2. q <= 128
  <2> SUFFICES ASSUME 129 <= q PROVE FALSE
    BY <1>1
  <2>1. (2 * w) * 129 <= (2 * w) * q /\ (2 * w) * q \in Nat
    <3> HIDE DEF q
    <3> QED
      BY <1>1, Product
  <2> HIDE DEF q
  <2> QED
    BY <1>1, <2>1
<1> QED
  BY <1>1, <1>2

\* A number below the half of its range is kept as it is.
LEMMA SignedChars ==
  ASSUME NEW i \in Nat
  PROVE  /\ SignedChar(i) \in Int
         /\ i < CharWords \div 2 => SignedChar(i) = i
<1> DEFINE h == CharWords \div 2
<1>1. h \in Nat /\ 2 * h <= CharWords /\ CharWords \in Nat /\ CharWords > 0
  BY Constants
<1>2. SignedChar(i) = ((i + h) % CharWords) - h
  BY DEF SignedChar
<1> HIDE DEF h
<1>3. (i + h) % CharWords \in Nat
  BY <1>1, Division
<1>4. ASSUME i < h PROVE (i + h) % CharWords = i + h
  BY <1>1, <1>4
<1> QED
  BY <1>1, <1>2, <1>3, <1>4 DEF h

-----------------------------------------------------------------------------
(* The inductive invariant.                                                *)

\* The rows whose texts are short enough for scrollmax, a signed char.
Short == \A r \in Rows : 2 * width[r] < CharWords \div 2

\* sp->active tells the timer that write() is at work.
ActiveInWrite ==
  active <=> pc \in {"text", "old", "repaint", "cell", "data", "release"}

\* The rows have their widths whenever somebody may paint.
RowsAreLaid ==
  /\ pc \notin {"idle", "text"} => Laid
  /\ pc = "idle" /\ scrollmax > 0 => Laid

\* A display whose rows do not scroll shows the same at every position.
ScrollsOrStands ==
  Laid /\ Short => scrollmax > 0 \/ \A r \in Rows : speed[r] = 0

\* The second half of a cell finds the panel where the first has put it.
InPlace == pc = "data" /\ ~broken => address = AddressOf(Cells[cell])

\* How far the painting has come, and at which position it paints.
PaintedSoFar ==
  /\ pc \in {"cell", "data"} => PaintedTo(Screen, cell - 1, pos)
  /\ pc = "release" => PaintedTo(Screen, Len(Cells), pos)
  /\ pc \in {"cell", "data", "release"} /\ scrollpos = old_scrollpos => pos = scrollpos
  /\ pc = "check" /\ scrollpos = old_scrollpos => PaintedTo(Screen, Len(Cells), scrollpos)
  /\ pc = "idle" /\ Laid /\ Short => PaintedTo(Screen, Len(Cells), scrollpos)

(***************************************************************************)
(* The invariant.  The properties speak of idle states; this says how they *)
(* come about: how far the painting has come and at which position, that a *)
(* position the timer has moved is noticed when write() checks, and that a *)
(* display that does not scroll shows the same at every position, so that  *)
(* the timer need not paint it.                                            *)
(***************************************************************************)
IInv ==
  /\ Types /\ Follows(Screen)
  /\ ActiveInWrite /\ RowsAreLaid /\ ScrollsOrStands /\ InPlace /\ PaintedSoFar

\* Rows of characters: a blank one, and those of a text scrolled up.
LEMMA BlankRows ==
  BlankRow \in [Cols -> Chars]
BY BlankIsChar DEF BlankRow

\* Scrolling up keeps rows of characters.
LEMMA ScrolledRows ==
  ASSUME data \in [Rows -> [Cols -> Chars]], NEW n \in Nat
  PROVE  [r \in Rows |-> IF r + n < Height THEN data[r + n] ELSE BlankRow]
           \in [Rows -> [Cols -> Chars]]
<1>1. ASSUME NEW r \in Rows, r + n < Height PROVE data[r + n] \in [Cols -> Chars]
  <2>1. r + n \in Rows
    BY <1>1, Constants DEF Rows
  <2> QED
    BY <2>1
<1> QED
  BY <1>1, BlankRows

\* The same for a line feed.
LEMMA ScrolledOnce ==
  ASSUME data \in [Rows -> [Cols -> Chars]]
  PROVE  ScrolledUp \in [Rows -> [Cols -> Chars]]
<1>1. ASSUME NEW r \in Rows, r < Height - 1 PROVE data[r + 1] \in [Cols -> Chars]
  <2>1. r + 1 \in Rows
    BY <1>1, Constants DEF Rows
  <2> QED
    BY <2>1
<1> QED
  BY <1>1, BlankRows DEF ScrolledUp

\* A screen found healthy, or broken.
LEMMA HealthyScreens ==
  ASSUME Types, Follows(Screen), NEW s \in Healthy
  PROVE  /\ s \in Screens /\ Follows(s) /\ s.visible = visible
         /\ s.address = address /\ (~s.broken => ~broken)
<1>1. /\ Screen \in Screens /\ Screen.visible = visible /\ Screen.address = address
      /\ Screen.broken = broken
  BY DEF Types, Screen
<1>2. CASE s = Screen
  BY <1>1, <1>2
<1>3. CASE s = Broken(Screen)
  <2>1. DOMAIN panel = Addresses
    BY <1>1 DEF Screens, Screen
  <2>2. [a \in DOMAIN panel |-> Blank] \in [Addresses -> Chars] /\ 0 \in Addresses
    <3>1. 0 \in Addresses
      BY Constants, Product DEF Addresses
    <3> QED
      BY <2>1, <3>1, BlankIsChar
  <2>3. s = [Screen EXCEPT !.broken = TRUE, !.cursor = 0,
                           !.panel = [a \in DOMAIN panel |-> Blank]]
    BY <1>3 DEF Broken
  <2>4. s \in Screens /\ s.broken /\ s.visible = visible /\ s.address = address
    BY <1>1, <2>2, <2>3 DEF Screens
  <2> QED
    BY <2>4 DEF Follows
<1> QED
  BY <1>2, <1>3 DEF Healthy

\* The variables of the screen, as the record the operators take.
LEMMA ScreenIs ==
  ASSUME NEW s \in Screens, SetScreen(s)
  PROVE  Screen' = s
BY DEF SetScreen, Screen, Screens

-----------------------------------------------------------------------------
(* One lemma for each step that edits the text.                            *)

\* The cursor, wherever an escape sequence sends it, is on the screen or just
\* below it.
LEMMA MoveToKeeps ==
  ASSUME Types, MoveTo
  PROVE  /\ x' \in 0 .. ByteWords - 1 /\ y' \in 0 .. Height
         /\ data' \in [Rows -> [Cols -> Chars]] /\ beyond' \in BOOLEAN
<1> DEFINE asked == (Parm1 - 1) % ByteWords
           row == IF asked > 2 * Height THEN 2 * Height ELSE asked
<1>1. Parm1 \in Int /\ Parm2 \in Int
  BY ParmsAreNumbers DEF Types, TextTypes
<1>2. /\ x' = IF Parm2 > 0 THEN (Parm2 - 1) % ByteWords ELSE x
      /\ y' = IF Parm1 <= 0 THEN y ELSE IF row > Height THEN Height ELSE row
      /\ IF Parm1 > 0 /\ row > Height THEN ScrollUp(row - Height) ELSE UNCHANGED data
      /\ UNCHANGED beyond
  BY DEF MoveTo
<1>3. /\ x \in 0 .. ByteWords - 1 /\ y \in 0 .. Height
      /\ data \in [Rows -> [Cols -> Chars]] /\ beyond \in BOOLEAN
  BY DEF Types, TextTypes
<1>4. x' \in 0 .. ByteWords - 1
  <2>1. CASE Parm2 > 0
    <3>1. Parm2 - 1 \in Nat
      BY <1>1, <2>1
    <3>2. (Parm2 - 1) % ByteWords \in 0 .. ByteWords - 1
      BY <3>1, Constants, Division
    <3> QED
      BY <1>2, <2>1, <3>2
  <2> QED
    BY <1>2, <1>3, <2>1
<1>5. ASSUME Parm1 > 0 PROVE row \in Nat
  <2>1. Parm1 - 1 \in Nat
    BY <1>1, <1>5
  <2>2. asked \in Nat
    BY <2>1, Constants, Division
  <2> HIDE DEF asked
  <2> QED
    BY <2>2, Constants
<1> HIDE DEF row
<1>6. y' \in 0 .. Height
  BY <1>1, <1>2, <1>3, <1>5, Constants
<1>7. data' \in [Rows -> [Cols -> Chars]]
  <2>1. CASE Parm1 > 0 /\ row > Height
    <3>1. row - Height \in Nat
      BY <1>5, <2>1, Constants
    <3>2. ScrollUp(row - Height)
      BY <1>2, <2>1
    <3> QED
      BY <1>3, <3>1, <3>2, ScrolledRows DEF ScrollUp
  <2> QED
    BY <1>2, <1>3, <2>1
<1> QED
  BY <1>2, <1>3, <1>4, <1>6, <1>7

\* Clearing the screen clears the panel with it, and the widths.
LEMMA ClearScreenKeeps ==
  ASSUME Types, Follows(Screen), ClearScreen
  PROVE  /\ x' = 0 /\ y' = 0 /\ data' \in [Rows -> [Cols -> Chars]]
         /\ beyond' \in BOOLEAN /\ width' = [r \in Rows |-> 0]
         /\ Screen' \in Screens /\ Follows(Screen)'
<1> DEFINE Cleared == [r \in Rows |-> [c \in 0 .. Width - 1 |-> Blank]]
           Clear(s) == [s EXCEPT !.visible = Cleared, !.address = 0,
                                 !.panel = IF s.broken THEN s.panel
                                           ELSE [a \in DOMAIN s.panel |-> Blank],
                                 !.cursor = IF s.broken THEN s.cursor ELSE 0]
<1>1. PICK s \in Healthy : SetScreen(Clear(s))
  BY DEF ClearScreen
<1>2. s \in Screens
  BY HealthyScreens
<1>3. /\ 0 \in Addresses /\ Cleared \in [Rows -> [Columns -> Chars]]
      /\ \A r \in Rows, c \in Columns : Cleared[r][c] = Blank
  <2>1. 0 \in Addresses
    BY Constants, Product DEF Addresses
  <2> QED
    BY <2>1, BlankIsChar DEF Columns
<1> HIDE DEF Cleared
<1>4. /\ s.panel \in [Addresses -> Chars] /\ s.cursor \in Addresses /\ s.broken \in BOOLEAN
  BY <1>2 DEF Screens
<1> DEFINE t == Clear(s)
<1>5. /\ t.broken = s.broken /\ t.visible = Cleared /\ t.address = 0
      /\ t.panel = IF s.broken THEN s.panel ELSE [a \in DOMAIN s.panel |-> Blank]
      /\ t.cursor = IF s.broken THEN s.cursor ELSE 0
  BY <1>2 DEF Screens
<1>6. t \in Screens
  <2>1. (IF s.broken THEN s.panel ELSE [a \in DOMAIN s.panel |-> Blank]) \in [Addresses -> Chars]
    BY <1>4, BlankIsChar
  <2>2. (IF s.broken THEN s.cursor ELSE 0) \in Addresses
    BY <1>3, <1>4
  <2> QED
    BY <1>2, <1>3, <2>1, <2>2 DEF Screens
<1>7. Follows(t)
  <2> SUFFICES ASSUME ~t.broken, NEW r \in Rows, NEW c \in Columns
               PROVE  t.cursor = t.address /\ t.panel[ColStart(r) + c] = t.visible[r][c]
    BY <1>5, Constants DEF Follows
  <2> DEFINE e == [row |-> r, col |-> c]
  <2>1. ColStart(r) + c \in Addresses
    <3>1. e \in Places /\ AddressOf(e) = ColStart(r) + c
      BY DEF Places, AddressOf
    <3> QED
      BY <3>1, AddressesApart
  <2>2. ~s.broken /\ t.panel = [a \in DOMAIN s.panel |-> Blank] /\ t.cursor = 0
    BY <1>5
  <2> HIDE DEF t
  <2> QED
    BY <1>3, <1>4, <1>5, <2>1, <2>2
<1>8. Screen' = t
  <2> HIDE DEF Clear
  <2> QED
    BY <1>1, <1>6, ScreenIs
<1>9. Follows(Screen)'
  <2> HIDE DEF t
  <2>1. /\ t.broken = broken' /\ t.cursor = cursor' /\ t.address = address'
        /\ t.panel = panel' /\ t.visible = visible'
    BY <1>8 DEF Screen
  <2> QED
    BY <1>7, <2>1 DEF Follows, Screen
<1>10. /\ x' = 0 /\ y' = 0 /\ beyond' = beyond /\ data' = [r \in Rows |-> BlankRow]
       /\ width' = [r \in Rows |-> 0] /\ beyond \in BOOLEAN
  BY DEF ClearScreen, Types, TextTypes
<1> QED
  BY <1>6, <1>8, <1>9, <1>10, BlankRows

\* Clearing the rest of a line.
LEMMA ClearToEndKeeps ==
  ASSUME Types, ClearToEnd
  PROVE  /\ data' \in [Rows -> [Cols -> Chars]] /\ beyond' \in BOOLEAN
         /\ UNCHANGED <<x, y>>
<1>1. /\ data \in [Rows -> [Cols -> Chars]] /\ beyond \in BOOLEAN
  BY DEF Types, TextTypes
<1>2. [c \in Cols |-> IF c >= x THEN Blank ELSE data[y][c]] \in [Cols -> Chars] \/ y \notin Rows
  BY <1>1, BlankIsChar
<1>3. /\ data' = IF y \in Rows
                   THEN [data EXCEPT ![y] = [c \in Cols |-> IF c >= x THEN Blank ELSE data[y][c]]]
                   ELSE data
      /\ beyond' = (beyond \/ (y \notin Rows /\ x < Virtual)) /\ UNCHANGED <<x, y>>
  BY DEF ClearToEnd
<1>4. data' \in [Rows -> [Cols -> Chars]]
  BY <1>1, <1>2, <1>3
<1> QED
  BY <1>1, <1>3, <1>4

\* What a character changes besides the text's own variables: lcd_handle_escape()
\* may clear the screen, and with it the widths.
Kept == UNCHANGED <<width, screen>>
Cleared == width' = [r \in Rows |-> 0] /\ Screen' \in Screens /\ Follows(Screen)'

\* Any escape sequence.
LEMMA HandleEscapeKeeps ==
  ASSUME Types, Follows(Screen), NEW c, HandleEscape(c)
  PROVE  TextTypes' /\ (Kept \/ Cleared)
<1>1. esccount' = -1 /\ escape' = <<>>
  BY DEF HandleEscape
<1>2. /\ x \in 0 .. ByteWords - 1 /\ y \in 0 .. Height /\ beyond \in BOOLEAN
      /\ data \in [Rows -> [Cols -> Chars]]
  BY DEF Types, TextTypes
<1>3. /\ x' \in 0 .. ByteWords - 1 /\ y' \in 0 .. Height /\ beyond' \in BOOLEAN
      /\ data' \in [Rows -> [Cols -> Chars]] /\ (Kept \/ Cleared)
  <2>1. CASE MoveTo /\ UNCHANGED <<width, screen>>
    BY <2>1, MoveToKeeps DEF Kept
  <2>2. CASE ClearScreen
    BY <2>2, ClearScreenKeeps, Constants DEF Cleared
  <2>3. CASE ClearToEnd /\ UNCHANGED <<width, screen>>
    BY <1>2, <2>3, ClearToEndKeeps DEF Kept
  <2>4. CASE UNCHANGED <<x, y, data, beyond, width, screen>>
    BY <1>2, <2>4 DEF Kept
  <2> QED
    BY <2>1, <2>2, <2>3, <2>4 DEF HandleEscape
<1>4. esccount' \in -1 .. EscSize - 1 /\ escape' \in Seq(InSequence)
  BY <1>1, Constants
<1> QED
  BY <1>1, <1>3, <1>4 DEF TextTypes

\* A character inside a sequence.
LEMMA InEscapeKeeps ==
  ASSUME Types, Follows(Screen), NEW c \in Plain \cup InSequence, InEscape(c)
  PROVE  TextTypes' /\ (Kept \/ Cleared)
<1>1. CASE EndsEscape(c)
  BY <1>1, HandleEscapeKeeps DEF InEscape
<1>2. CASE ~EndsEscape(c)
  <2>1. UNCHANGED <<x, y, data, beyond, width, screen>>
    BY <1>2 DEF InEscape
  <2>2. /\ esccount \in Nat /\ esccount <= EscSize - 1 /\ esccount = Len(escape)
        /\ escape \in Seq(InSequence) /\ c \in InSequence
    BY Constants DEF InEscape, Types, TextTypes
  <2>3. \/ UNCHANGED <<esccount, escape>>
        \/ esccount < EscSize - 1 /\ esccount' = esccount + 1 /\ escape' = Append(escape, c)
    BY <1>2 DEF InEscape
  <2>4. /\ esccount' \in -1 .. EscSize - 1 /\ escape' \in Seq(InSequence)
        /\ IF esccount' >= 0 THEN esccount' = Len(escape') ELSE escape' = <<>>
    BY <2>2, <2>3, Constants
  <2>5. /\ x \in 0 .. ByteWords - 1 /\ y \in 0 .. Height /\ beyond \in BOOLEAN
        /\ data \in [Rows -> [Cols -> Chars]]
    BY DEF Types, TextTypes
  <2> QED
    BY <2>1, <2>4, <2>5 DEF TextTypes, Kept
<1> QED
  BY <1>1, <1>2

\* A character outside of one: a printable one, a line feed, any.
LEMMA PrintableKeeps ==
  ASSUME Types, NEW c \in Plain, Printable(c)
  PROVE  /\ x' \in 0 .. ByteWords - 1 /\ y' \in 0 .. Height
         /\ data' \in [Rows -> [Cols -> Chars]]
<1> DEFINE rows == IF y >= Height THEN ScrolledUp ELSE data
           row  == IF y >= Height THEN y - 1 ELSE y
<1>1. /\ x \in Nat /\ x \in 0 .. ByteWords - 1 /\ y \in Nat /\ y <= Height
      /\ data \in [Rows -> [Cols -> Chars]]
  BY Constants DEF Types, TextTypes
<1>2. rows \in [Rows -> [Cols -> Chars]]
  BY <1>1, ScrolledOnce
<1>3. row \in Rows
  BY <1>1, Constants DEF Rows
<1>4. /\ data' = IF x < Virtual THEN [rows EXCEPT ![row][x] = c] ELSE rows
      /\ y' = row /\ x' = (x + 1) % ByteWords
  BY DEF Printable
<1> HIDE DEF rows, row
<1>5. x' \in 0 .. ByteWords - 1
  <2>1. x + 1 \in Nat
    BY <1>1
  <2>2. (x + 1) % ByteWords \in 0 .. ByteWords - 1
    BY <2>1, Constants, Division
  <2> QED
    BY <1>4, <2>2
<1>6. y' \in 0 .. Height
  BY <1>3, <1>4, Constants DEF Rows
<1>7. data' \in [Rows -> [Cols -> Chars]]
  <2>1. c \in Chars
    BY DEF Chars
  <2> QED
    BY <1>2, <1>3, <1>4, <2>1
<1> QED
  BY <1>5, <1>6, <1>7

LEMMA LineFeedKeeps ==
  ASSUME Types, LineFeed
  PROVE  /\ x' \in 0 .. ByteWords - 1 /\ y' \in 0 .. Height
         /\ data' \in [Rows -> [Cols -> Chars]]
<1>1. /\ y \in Nat /\ y <= Height /\ data \in [Rows -> [Cols -> Chars]]
  BY Constants DEF Types, TextTypes
<1>2. /\ x' = 0 /\ y' = IF y + 1 > Height THEN Height ELSE y + 1
      /\ IF y + 1 > Height THEN ScrollUp(1) ELSE UNCHANGED data
  BY DEF LineFeed
<1>3. data' \in [Rows -> [Cols -> Chars]]
  <2>1. CASE ScrollUp(1)
    BY <1>1, <2>1, ScrolledRows DEF ScrollUp
  <2> QED
    BY <1>1, <1>2, <2>1
<1> QED
  BY <1>1, <1>2, <1>3, Constants

LEMMA OutsideEscapeKeeps ==
  ASSUME Types, NEW c \in Plain \cup InSequence, OutsideEscape(c)
  PROVE  TextTypes' /\ Kept
<1>1. /\ x \in 0 .. ByteWords - 1 /\ y \in 0 .. Height /\ beyond \in BOOLEAN
      /\ data \in [Rows -> [Cols -> Chars]] /\ c \in Plain
      /\ esccount = -1 /\ escape = <<>>
  <2>1. /\ x \in 0 .. ByteWords - 1 /\ y \in 0 .. Height /\ beyond \in BOOLEAN
        /\ data \in [Rows -> [Cols -> Chars]] /\ esccount \in -1 .. EscSize - 1
        /\ IF esccount >= 0 THEN esccount = Len(escape) ELSE escape = <<>>
    BY DEF Types, TextTypes
  <2>2. esccount < 0 /\ c \in Plain
    BY DEF OutsideEscape
  <2> QED
    BY <2>1, <2>2, Constants
<1>2. beyond' = beyond /\ Kept
  BY DEF OutsideEscape, Kept
<1>3. /\ x' \in 0 .. ByteWords - 1 /\ y' \in 0 .. Height /\ data' \in [Rows -> [Cols -> Chars]]
      /\ esccount' \in {-1, 0} /\ escape' = <<>>
  <2>1. CASE c = "ESC"
    <3>1. esccount' = 0 /\ UNCHANGED <<x, y, escape, data>>
      BY <2>1 DEF OutsideEscape
    <3> QED
      BY <1>1, <3>1
  <2>2. CASE c = "CR"
    <3>1. x' = 0 /\ UNCHANGED <<y, esccount, escape, data>>
      BY <2>2 DEF OutsideEscape
    <3> QED
      BY <1>1, <3>1, Constants
  <2>3. CASE c = "LF"
    <3>1. LineFeed /\ UNCHANGED <<esccount, escape>>
      BY <2>3 DEF OutsideEscape
    <3> QED
      BY <1>1, <3>1, LineFeedKeeps
  <2>4. CASE c = "BS"
    <3>1. x' = (IF x > 0 THEN x - 1 ELSE x) /\ UNCHANGED <<y, esccount, escape, data>>
      BY <2>4 DEF OutsideEscape
    <3> QED
      BY <1>1, <3>1, Constants
  <2>5. CASE c \notin {"ESC", "CR", "LF", "BS"}
    <3>1. Printable(c) /\ UNCHANGED <<esccount, escape>>
      BY <2>5 DEF OutsideEscape
    <3> QED
      BY <1>1, <3>1, PrintableKeeps
  <2> QED
    BY <2>1, <2>2, <2>3, <2>4, <2>5
<1>4. /\ esccount' \in -1 .. EscSize - 1 /\ escape' \in Seq(InSequence)
      /\ IF esccount' >= 0 THEN esccount' = Len(escape') ELSE escape' = <<>>
  <2>1. Len(<<>>) = 0 /\ <<>> \in Seq(InSequence)
    OBVIOUS
  <2> QED
    BY <1>3, <2>1, Constants
<1> QED
  BY <1>1, <1>2, <1>3, <1>4 DEF TextTypes

-----------------------------------------------------------------------------
(* One lemma for each action: it preserves the invariant.                  *)

\* A driver that has not been called.
LEMMA InitIInv ==
  ASSUME Init
  PROVE  IInv
<1>1. 0 \in Addresses /\ 0 \in 0 .. Virtual + 1 /\ 0 \in 0 .. 128
  BY Constants, Product DEF Addresses
<1>2. TextTypes
  <2>1. <<>> \in Seq(InSequence)
    OBVIOUS
  <2>2. data \in [Rows -> [Cols -> Chars]] /\ beyond \in BOOLEAN
    BY BlankRows DEF Init
  <2> QED
    BY <2>1, <2>2, Constants DEF Init, TextTypes
<1>3. Screen \in Screens
  <2>1. /\ visible \in [Rows -> [Columns -> Chars]] /\ panel \in [Addresses -> Chars]
        /\ broken \in BOOLEAN /\ address \in Addresses /\ cursor \in Addresses
    BY <1>1, BlankIsChar DEF Init, Columns, Addresses
  <2> QED
    BY <2>1 DEF Screen, Screens
<1>4. Types
  <2>1. width \in [Rows -> 0 .. Virtual + 1] /\ speed \in [Rows -> 0 .. 128]
    BY <1>1 DEF Init
  <2>2. 1 \in DOMAIN Cells
    BY CellsAre
  <2>3. /\ scrollpos = 0 /\ scrollmax = 0 /\ active = FALSE /\ pc = "idle"
        /\ cell = 1 /\ pos = 0 /\ old_scrollpos = 0
    BY DEF Init
  <2>4. cell \in DOMAIN Cells
    BY <2>2, <2>3
  <2>5. scrollpos \in Nat /\ scrollmax \in Int /\ pos \in Nat /\ old_scrollpos \in Nat
    BY DEF Init
  <2>6. active \in BOOLEAN
    BY <2>3
  <2> QED
    BY <1>2, <1>3, <2>1, <2>3, <2>4, <2>5, <2>6 DEF Types
<1>5. Follows(Screen)
  <2>1. cursor = address
    BY DEF Init
  <2>2. ASSUME NEW r \in Rows, NEW c \in Columns
        PROVE  panel[ColStart(r) + c] = visible[r][c]
    <3> DEFINE e == [row |-> r, col |-> c]
    <3>1. e \in Places /\ AddressOf(e) = ColStart(r) + c
      BY DEF Places, AddressOf
    <3>2. ColStart(r) + c \in Addresses
      BY <3>1, AddressesApart
    <3> QED
      BY <3>2 DEF Init, Columns, Addresses
  <2>3. \A r \in Rows, c \in Columns : panel[ColStart(r) + c] = visible[r][c]
    BY <2>2
  <2>4. Screen.cursor = cursor /\ Screen.address = address
        /\ Screen.panel = panel /\ Screen.visible = visible
    BY DEF Screen
  <2> QED
    BY <2>1, <2>3, <2>4 DEF Follows
<1>6. ~Laid /\ pc = "idle" /\ ~active /\ scrollmax = 0
  BY Constants DEF Init, Laid
<1> QED
  BY <1>4, <1>5, <1>6
     DEF IInv, ActiveInWrite, RowsAreLaid, ScrollsOrStands, InPlace, PaintedSoFar

\* What holds of the screen holds of the same screen later.
LEMMA SameScreen ==
  ASSUME Types, Follows(Screen), UNCHANGED screen
  PROVE  Screen' = Screen /\ Screen' \in Screens /\ Follows(Screen)'
<1>1. Screen' = Screen
  BY DEF screen, Screen
<1>2. Screen' \in Screens
  BY <1>1 DEF Types
<1>3. Follows(Screen)'
  BY DEF Follows, Screen, screen
<1> QED
  BY <1>1, <1>2, <1>3

\* And of the same text.
LEMMA SameText ==
  ASSUME Types, UNCHANGED text
  PROVE  TextTypes'
BY DEF Types, TextTypes, text

\* The steps of write(), in the order of the code.  It begins.
LEMMA BeginKeeps ==
  ASSUME IInv, Begin
  PROVE  IInv'
<1>1. /\ pc = "idle" /\ pc' = "text" /\ active' = TRUE
      /\ UNCHANGED <<text, scroll, scrollpos, scrollmax, screen, locals>>
  BY DEF Begin
<1>2. Types' /\ Follows(Screen)'
  <2>1. TextTypes' /\ Screen' \in Screens /\ Follows(Screen)'
    BY <1>1, SameScreen, SameText DEF IInv
  <2> QED
    BY <1>1, <2>1 DEF IInv, Types, scroll, locals
<1>3. ScrollsOrStands'
  BY <1>1 DEF IInv, ScrollsOrStands, Laid, Short, scroll
<1> QED
  BY <1>1, <1>2, <1>3 DEF IInv, ActiveInWrite, RowsAreLaid, InPlace, PaintedSoFar

\* A character of what is written edits the text.
LEMMA PutCharacterKeeps ==
  ASSUME IInv, PutCharacter
  PROVE  IInv'
<1>1. /\ pc = "text" /\ pc' = "text"
      /\ UNCHANGED <<speed, scrollpos, scrollmax, active, locals>>
  BY DEF PutCharacter
<1>2. TextTypes' /\ (Kept \/ Cleared)
  <2>1. PICK c \in Plain \cup InSequence : InEscape(c) \/ OutsideEscape(c)
    BY DEF PutCharacter
  <2> QED
    BY <2>1, InEscapeKeeps, OutsideEscapeKeeps DEF IInv
<1>3. /\ Screen' \in Screens /\ Follows(Screen)'
      /\ width' = width \/ width' = [r \in Rows |-> 0]
  <2>1. CASE Kept
    BY <2>1, SameScreen DEF Kept, IInv
  <2>2. CASE Cleared
    BY <2>2 DEF Cleared
  <2> QED
    BY <1>2, <2>1, <2>2
<1>4. Types'
  <2>1. width' \in [Rows -> 0 .. Virtual + 1]
    <3>1. 0 \in 0 .. Virtual + 1
      BY Constants
    <3> QED
      BY <1>3, <3>1 DEF IInv, Types
  <2> QED
    BY <1>1, <1>2, <1>3, <2>1 DEF IInv, Types, locals
<1>5. ScrollsOrStands'
  <2>1. CASE width' = width
    BY <1>1, <2>1 DEF IInv, ScrollsOrStands, Laid, Short
  <2>2. CASE width' = [r \in Rows |-> 0]
    <3>1. ~Laid'
      BY <2>2, Constants DEF Laid
    <3> QED
      BY <3>1 DEF ScrollsOrStands
  <2> QED
    BY <1>3, <2>1, <2>2
<1> QED
  BY <1>1, <1>3, <1>4, <1>5
     DEF IInv, ActiveInWrite, RowsAreLaid, InPlace, PaintedSoFar

\* The widths and speeds are those of the new text, and one row scrolls or
\* all stand.
LEMMA RecalculateKeeps ==
  ASSUME IInv, Recalculate
  PROVE  IInv'
<1>1. /\ pc = "text" /\ pc' = "old"
      /\ width' = [r \in Rows |-> TextWidth(r)]
      /\ scrollmax' = IF Widest <= Width THEN 0 ELSE SignedChar(2 * Widest)
      /\ speed' = [r \in Rows |-> IF TextWidth(r) <= Width THEN 0
                                  ELSE (256 * TextWidth(r)) \div (2 * Widest)]
      /\ UNCHANGED <<text, scrollpos, active, screen, locals>>
  BY DEF Recalculate
<1>2. TextTypes' /\ Screen' \in Screens /\ Follows(Screen)'
  BY <1>1, SameScreen, SameText DEF IInv
<1>3. /\ \A r \in Rows : TextWidth(r) \in Nat /\ TextWidth(r) >= Width
                         /\ TextWidth(r) <= Virtual + 1 /\ TextWidth(r) <= Widest
      /\ Widest \in Nat /\ Widest > 0
      /\ \E r \in Rows : Widest = TextWidth(r)
  <2>1. \A r \in Rows : TextWidth(r) \in Width .. Virtual + 1
    BY TextWidths DEF IInv
  <2>2. PICK r \in Rows : Widest = TextWidth(r)
    BY WidestIs DEF IInv
  <2>3. \A q \in Rows : TextWidth(q) <= Widest
    BY WidestIs DEF IInv
  <2> QED
    BY <2>1, <2>2, <2>3, Constants
<1>4. width' \in [Rows -> 0 .. Virtual + 1]
  BY <1>1, <1>3, Constants
<1>5. speed' \in [Rows -> 0 .. 128]
  <2>1. ASSUME NEW r \in Rows
        PROVE  (256 * TextWidth(r)) \div (2 * Widest) \in 0 .. 128
    BY <1>3, SpeedIsBounded
  <2> QED
    BY <1>1, <2>1
<1>6. scrollmax' \in Int
  <2>1. 2 * Widest \in Nat
    BY <1>3
  <2> QED
    BY <1>1, <2>1, SignedChars
<1>7. Types'
  BY <1>1, <1>2, <1>4, <1>5, <1>6 DEF IInv, Types, locals
<1>8. Laid'
  <2>1. ASSUME NEW r \in Rows PROVE width'[r] > 0
    <3>1. width'[r] = TextWidth(r) /\ TextWidth(r) \in Nat /\ TextWidth(r) >= Width
      BY <1>1, <1>3
    <3> QED
      BY <3>1, Constants
  <2> QED
    BY <2>1 DEF Laid
<1>9. ASSUME Short' PROVE scrollmax' > 0 \/ \A r \in Rows : speed'[r] = 0
  <2>1. CASE Widest <= Width
    <3>1. ASSUME NEW r \in Rows PROVE TextWidth(r) <= Width
      <4>1. TextWidth(r) \in Nat /\ TextWidth(r) <= Widest /\ Widest \in Nat
        BY <1>3
      <4> QED
        BY <2>1, <4>1, Constants
    <3> QED
      BY <1>1, <3>1
  <2>2. CASE ~(Widest <= Width)
    <3>1. PICK r \in Rows : Widest = TextWidth(r)
      BY <1>3
    <3>2. 2 * Widest < CharWords \div 2
      BY <1>1, <1>9, <3>1 DEF Short
    <3>3. 2 * Widest \in Nat /\ 2 * Widest > 0
      BY <1>3
    <3>4. SignedChar(2 * Widest) = 2 * Widest
      BY <3>2, <3>3, SignedChars
    <3> QED
      BY <1>1, <2>2, <3>3, <3>4
  <2> QED
    BY <2>1, <2>2
<1> QED
  BY <1>1, <1>2, <1>7, <1>8, <1>9
     DEF IInv, ActiveInWrite, RowsAreLaid, ScrollsOrStands, InPlace, PaintedSoFar

\* The position is remembered, and the repaint begins from it.
LEMMA RememberPositionKeeps ==
  ASSUME IInv, RememberPosition
  PROVE  IInv'
<1>1. /\ pc = "old" /\ pc' = "repaint" /\ old_scrollpos' = scrollpos
      /\ UNCHANGED <<text, scroll, scrollpos, scrollmax, active, screen, cell, pos>>
  BY DEF RememberPosition
<1>2. Types' /\ Follows(Screen)'
  <2>1. TextTypes' /\ Screen' \in Screens /\ Follows(Screen)'
    BY <1>1, SameScreen, SameText DEF IInv
  <2> QED
    BY <1>1, <2>1 DEF IInv, Types, scroll
<1>3. ScrollsOrStands' /\ Laid'
  BY <1>1 DEF IInv, RowsAreLaid, ScrollsOrStands, Laid, Short, scroll
<1> QED
  BY <1>1, <1>2, <1>3 DEF IInv, ActiveInWrite, RowsAreLaid, InPlace, PaintedSoFar

LEMMA BeginRepaintKeeps ==
  ASSUME IInv, BeginRepaint
  PROVE  IInv'
<1>1. /\ pc = "repaint" /\ pc' = "cell" /\ pos' = scrollpos /\ cell' = 1
      /\ UNCHANGED <<text, scroll, scrollpos, scrollmax, active, screen, old_scrollpos>>
  BY DEF BeginRepaint
<1>2. Types' /\ Follows(Screen)'
  <2>1. TextTypes' /\ Screen' \in Screens /\ Follows(Screen)'
    BY <1>1, SameScreen, SameText DEF IInv
  <2> QED
    BY <1>1, <2>1, CellsAre DEF IInv, Types, scroll
<1>3. ScrollsOrStands' /\ Laid'
  BY <1>1 DEF IInv, RowsAreLaid, ScrollsOrStands, Laid, Short, scroll
<1>4. PaintedTo(Screen, cell - 1, pos)'
  BY <1>1 DEF PaintedTo
<1> QED
  BY <1>1, <1>2, <1>3, <1>4 DEF IInv, ActiveInWrite, RowsAreLaid, InPlace, PaintedSoFar

\* A cell in two halves, between which the timer may run.
LEMMA PaintCommandKeeps ==
  ASSUME IInv, PaintCommand
  PROVE  IInv'
<1>1. /\ pc = "cell"
      /\ UNCHANGED <<text, scroll, scrollpos, scrollmax, active, pos, old_scrollpos>>
  BY DEF PaintCommand
<1>2. TextTypes'
  BY <1>1, SameText DEF IInv
<1>3. ScrollsOrStands' /\ Laid'
  BY <1>1 DEF IInv, RowsAreLaid, ScrollsOrStands, Laid, Short, scroll
<1>4. UNCHANGED <<data, width, speed>>
  BY <1>1 DEF text, scroll
<1>5. /\ PaintedTo(Screen, cell - 1, pos) /\ cell \in DOMAIN Cells
      /\ Cells[cell] \in Places /\ cell \in Nat /\ Types /\ Follows(Screen)
      /\ cell <= Len(Cells) /\ Len(Cells) \in Nat /\ DOMAIN Cells = 1 .. Len(Cells)
      /\ scrollpos = old_scrollpos => pos = scrollpos
  BY <1>1, CellsAre DEF IInv, Types, PaintedSoFar
<1>6. CASE Differs(Screen, Cells[cell], pos)
  <2>1. PICK s \in Healthy : SetScreen(Command(s, Cells[cell]))
    BY <1>6 DEF PaintCommand
  <2>2. pc' = "data" /\ cell' = cell
    BY <1>6 DEF PaintCommand
  <2>3. s \in Screens /\ Follows(s) /\ s.visible = visible
    BY <1>5, <2>1, HealthyScreens
  <2> DEFINE t == Command(s, Cells[cell])
  <2>4. t \in Screens /\ t.visible = visible /\ t.address = AddressOf(Cells[cell]) /\ Follows(t)
    BY <1>5, <2>3, CommandFields
  <2>5. SetScreen(t)
    BY <2>1
  <2> HIDE DEF t
  <2>6. Screen' = t
    BY <2>4, <2>5, ScreenIs
  <2>7. /\ visible' = visible /\ address' = AddressOf(Cells[cell]) /\ Screen' \in Screens
    BY <2>4, <2>5, <2>6 DEF SetScreen
  <2>8. Follows(Screen)'
    BY <2>4, <2>5 DEF SetScreen, Follows, Screen
  <2>9. PaintedTo(Screen, cell - 1, pos)'
    BY <1>1, <1>4, <1>5, <2>2, <2>7 DEF PaintedTo, Shown, Screen
  <2>10. Types'
    BY <1>1, <1>2, <2>2, <2>7 DEF IInv, Types, scroll
  <2> QED
    BY <1>1, <1>3, <1>5, <2>2, <2>7, <2>8, <2>9, <2>10
       DEF IInv, ActiveInWrite, RowsAreLaid, InPlace, PaintedSoFar
<1>7. CASE ~Differs(Screen, Cells[cell], pos)
  <2>1. /\ UNCHANGED screen
        /\ \/ cell < Len(Cells) /\ cell' = cell + 1 /\ pc' = pc
           \/ ~(cell < Len(Cells)) /\ pc' = "release" /\ cell' = cell
    BY <1>7 DEF PaintCommand
  <2>2. Screen' \in Screens /\ Follows(Screen)'
    BY <1>5, <2>1, SameScreen
  <2>3. ASSUME NEW i \in 1 .. cell
        PROVE  visible[Cells[i].row][Cells[i].col] = Shown(Cells[i], pos)
    <3>1. CASE i = cell
      BY <1>7, <3>1 DEF Differs, Screen
    <3>2. CASE i # cell
      <4>1. i \in 1 .. cell - 1
        BY <1>5, <3>2
      <4> QED
        BY <1>5, <4>1 DEF PaintedTo, Screen
    <3> QED
      BY <3>1, <3>2
  <2>4. ASSUME NEW i \in 1 .. cell
        PROVE  visible'[Cells[i].row][Cells[i].col] = Shown(Cells[i], pos)'
    <3>1. visible' = visible /\ pos' = pos
      BY <1>1, <2>1 DEF screen
    <3> QED
      BY <1>4, <2>3, <3>1 DEF Shown
  <2>5. CASE cell < Len(Cells) /\ cell' = cell + 1 /\ pc' = pc
    <3>1. PaintedTo(Screen, cell - 1, pos)'
      <4>1. cell' - 1 = cell
        BY <1>5, <2>5
      <4> QED
        BY <2>4, <4>1 DEF PaintedTo, Screen
    <3>2. Types'
      <4>1. cell' \in DOMAIN Cells
        BY <1>5, <2>5
      <4> QED
        BY <1>1, <1>2, <2>2, <2>5, <4>1 DEF IInv, Types, scroll
    <3> QED
      BY <1>1, <1>3, <1>5, <2>2, <2>5, <3>1, <3>2
         DEF IInv, ActiveInWrite, RowsAreLaid, InPlace, PaintedSoFar
  <2>6. CASE ~(cell < Len(Cells)) /\ pc' = "release" /\ cell' = cell
    <3>1. PaintedTo(Screen, Len(Cells), pos)'
      <4>1. Len(Cells) = cell
        BY <1>5, <2>6
      <4> QED
        BY <2>4, <4>1 DEF PaintedTo, Screen
    <3>2. Types'
      BY <1>1, <1>2, <2>2, <2>6 DEF IInv, Types, scroll
    <3> QED
      BY <1>1, <1>3, <1>5, <2>2, <2>6, <3>1, <3>2
         DEF IInv, ActiveInWrite, RowsAreLaid, InPlace, PaintedSoFar
  <2> QED
    BY <2>1, <2>5, <2>6
<1> QED
  BY <1>6, <1>7

LEMMA PaintDataKeeps ==
  ASSUME IInv, PaintData
  PROVE  IInv'
<1>1. /\ pc = "data" /\ pc' = "cell"
      /\ UNCHANGED <<text, scroll, scrollpos, scrollmax, active, locals>>
  BY DEF PaintData
<1>2. TextTypes'
  BY <1>1, SameText DEF IInv
<1>3. ScrollsOrStands' /\ Laid'
  BY <1>1 DEF IInv, RowsAreLaid, ScrollsOrStands, Laid, Short, scroll
<1>4. UNCHANGED <<data, width, speed, cell, pos, old_scrollpos>>
  BY <1>1 DEF text, scroll, locals
<1>5. /\ PaintedTo(Screen, cell - 1, pos) /\ cell \in DOMAIN Cells
      /\ Cells[cell] \in Places /\ pos \in Nat /\ Types /\ Laid /\ Follows(Screen)
      /\ ~broken => address = AddressOf(Cells[cell])
      /\ scrollpos = old_scrollpos => pos = scrollpos
  BY <1>1, CellsAre DEF IInv, Types, PaintedSoFar, InPlace, RowsAreLaid
<1>6. PICK s \in Healthy : SetScreen(Character(s, Cells[cell], pos))
  BY DEF PaintData
<1>7. /\ s \in Screens /\ Follows(s) /\ s.visible = visible /\ s.address = address
      /\ ~s.broken => ~broken
  BY <1>5, HealthyScreens
<1> DEFINE t == Character(s, Cells[cell], pos)
<1>8. /\ t \in Screens /\ Follows(t)
      /\ t.visible = [s.visible EXCEPT ![Cells[cell].row][Cells[cell].col]
                                         = Shown(Cells[cell], pos)]
  BY <1>5, <1>7, CharacterFields
<1>9. PaintedTo(t, cell, pos)
  <2>1. PaintedTo(s, cell - 1, pos)
    BY <1>5, <1>7 DEF PaintedTo, Screen
  <2> HIDE DEF t
  <2> QED
    BY <1>5, <1>7, <1>8, <2>1, CharacterPaints
<1>10. SetScreen(t)
  BY <1>6
<1> HIDE DEF t
<1>11. Screen' \in Screens /\ visible' = t.visible
  <2>1. Screen' = t
    BY <1>8, <1>10, ScreenIs
  <2> QED
    BY <1>8, <1>10, <2>1 DEF SetScreen
<1>12. Follows(Screen)'
  BY <1>8, <1>10 DEF SetScreen, Follows, Screen
<1>13. PaintedTo(Screen, cell - 1, pos)'
  <2>1. cell \in Nat
    BY <1>5, CellsAre
  <2>2. \A i \in 1 .. cell - 1 : i \in 1 .. cell
    BY <2>1
  <2>3. \A i \in 1 .. cell - 1 :
          visible'[Cells[i].row][Cells[i].col] = Shown(Cells[i], pos)
    BY <1>9, <1>11, <2>2 DEF PaintedTo
  <2> QED
    BY <1>4, <2>3 DEF PaintedTo, Shown, Screen
<1>14. Types'
  BY <1>1, <1>2, <1>4, <1>11 DEF IInv, Types, scroll
<1> QED
  BY <1>1, <1>3, <1>4, <1>5, <1>12, <1>13, <1>14
     DEF IInv, ActiveInWrite, RowsAreLaid, InPlace, PaintedSoFar

\* The timer may paint again; and if it has run meanwhile, write() paints once
\* more.
LEMMA ReleaseKeeps ==
  ASSUME IInv, Release
  PROVE  IInv'
<1>1. /\ pc = "release" /\ pc' = "check" /\ active' = FALSE
      /\ UNCHANGED <<text, scroll, scrollpos, scrollmax, screen, locals>>
  BY DEF Release
<1>2. Types' /\ Follows(Screen)'
  <2>1. TextTypes' /\ Screen' \in Screens /\ Follows(Screen)'
    BY <1>1, SameScreen, SameText DEF IInv
  <2> QED
    BY <1>1, <2>1 DEF IInv, Types, scroll, locals
<1>3. ScrollsOrStands' /\ Laid'
  BY <1>1 DEF IInv, RowsAreLaid, ScrollsOrStands, Laid, Short, scroll
<1>4. UNCHANGED <<data, width, speed, visible, scrollpos, old_scrollpos>>
  BY <1>1 DEF text, scroll, screen, locals
<1>5. scrollpos' = old_scrollpos' => PaintedTo(Screen, Len(Cells), scrollpos)'
  <2> SUFFICES ASSUME scrollpos = old_scrollpos
               PROVE  PaintedTo(Screen, Len(Cells), scrollpos)'
    BY <1>4
  <2>1. pos = scrollpos /\ PaintedTo(Screen, Len(Cells), pos)
    BY <1>1 DEF IInv, PaintedSoFar
  <2> QED
    BY <1>4, <2>1 DEF PaintedTo, Shown, Screen
<1> QED
  BY <1>1, <1>2, <1>3, <1>5 DEF IInv, ActiveInWrite, RowsAreLaid, InPlace, PaintedSoFar

LEMMA CheckKeeps ==
  ASSUME IInv, Check
  PROVE  IInv'
<1>1. /\ pc = "check" /\ cell' = 1 /\ pos' = 0 /\ old_scrollpos' = 0
      /\ UNCHANGED <<text, scroll, scrollpos, scrollmax, screen>>
      /\ IF scrollpos = old_scrollpos THEN pc' = "idle" /\ active' = active
                                      ELSE pc' = "old" /\ active' = TRUE
  BY DEF Check
<1>2. Types' /\ Follows(Screen)'
  <2>1. TextTypes' /\ Screen' \in Screens /\ Follows(Screen)'
    BY <1>1, SameScreen, SameText DEF IInv
  <2>2. 1 \in DOMAIN Cells
    BY CellsAre
  <2>3. pc' \in {"idle", "old"} /\ active' \in BOOLEAN
    BY <1>1 DEF IInv, Types
  <2> QED
    BY <1>1, <2>1, <2>2, <2>3 DEF IInv, Types, scroll
<1>3. ScrollsOrStands' /\ Laid'
  BY <1>1 DEF IInv, RowsAreLaid, ScrollsOrStands, Laid, Short, scroll
<1>4. UNCHANGED <<data, width, speed, visible, scrollpos>>
  BY <1>1 DEF text, scroll, screen
<1>5. scrollpos = old_scrollpos => PaintedTo(Screen, Len(Cells), scrollpos)'
  <2> SUFFICES ASSUME scrollpos = old_scrollpos
               PROVE  PaintedTo(Screen, Len(Cells), scrollpos)'
    OBVIOUS
  <2>1. PaintedTo(Screen, Len(Cells), scrollpos)
    BY <1>1 DEF IInv, PaintedSoFar
  <2> QED
    BY <1>4, <2>1 DEF PaintedTo, Shown, Screen
<1>6. ~active
  BY <1>1 DEF IInv, ActiveInWrite
<1> QED
  BY <1>1, <1>2, <1>3, <1>5, <1>6
     DEF IInv, ActiveInWrite, RowsAreLaid, InPlace, PaintedSoFar

\* Rows that stand still show the same at every position.
LEMMA StandingShows ==
  ASSUME Types, \A r \in Rows : speed[r] = 0, NEW c \in Places, NEW p \in Nat, NEW q \in Nat
  PROVE  Shown(c, p) = Shown(c, q)
<1>1. speed[c.row] = 0 /\ (p * 0) = 0 /\ (q * 0) = 0
  BY DEF Places
<1> QED
  BY <1>1 DEF Shown

\* The timer, between any two steps: it scrolls, and paints all cells itself
\* unless write() is at work.
LEMMA TimeoutKeeps ==
  ASSUME IInv, Timeout
  PROVE  IInv'
<1>1. /\ NotARound /\ scrollpos' = NextPosition
      /\ UNCHANGED <<text, scroll, scrollmax, active, pc, locals>>
  BY DEF Timeout
<1>2. TextTypes' /\ ScrollsOrStands' /\ (Laid' <=> Laid) /\ (Short' <=> Short)
  <2>1. TextTypes'
    BY <1>1, SameText DEF IInv
  <2> QED
    BY <1>1, <2>1 DEF IInv, ScrollsOrStands, Laid, Short, scroll
<1>3. UNCHANGED <<data, width, speed, cell, pos, old_scrollpos>>
  BY <1>1 DEF text, scroll, locals
<1>4. /\ Types /\ Follows(Screen) /\ scrollpos \in Nat /\ scrollmax \in Int /\ scrollpos' \in Nat
  BY <1>1 DEF IInv, Types, NextPosition
<1>5. CASE scrollmax > 0 /\ ~active
  <2>1. PICK s \in Healthy : SetScreen(Repaint(s, scrollpos'))
    BY <1>5 DEF Timeout
  <2>2. s \in Screens /\ Follows(s)
    BY <1>4, HealthyScreens
  <2>3. Laid /\ pc \in {"idle", "check"}
    BY <1>5 DEF IInv, Types, ActiveInWrite, RowsAreLaid
  <2> DEFINE t == Repaint(s, scrollpos')
  <2>4. t \in Screens /\ Follows(t) /\ PaintedTo(t, Len(Cells), scrollpos')
    BY <1>4, <2>2, <2>3, Repainted
  <2>5. SetScreen(t)
    BY <2>1
  <2> HIDE DEF t
  <2>6. Screen' \in Screens /\ visible' = t.visible
    <3>1. Screen' = t
      BY <2>4, <2>5, ScreenIs
    <3> QED
      BY <2>4, <2>5, <3>1 DEF SetScreen
  <2>7. Follows(Screen)'
    BY <2>4, <2>5 DEF SetScreen, Follows, Screen
  <2>8. PaintedTo(Screen, Len(Cells), scrollpos)'
    BY <1>3, <2>4, <2>6 DEF PaintedTo, Shown, Screen
  <2>9. Types'
    BY <1>1, <1>2, <1>4, <2>6 DEF IInv, Types, scroll, locals
  <2> QED
    BY <1>1, <1>2, <2>3, <2>7, <2>8, <2>9
       DEF IInv, ActiveInWrite, RowsAreLaid, InPlace, PaintedSoFar
<1>6. CASE ~(scrollmax > 0 /\ ~active)
  <2>1. UNCHANGED screen
    BY <1>6 DEF Timeout
  <2>2. Screen' \in Screens /\ Follows(Screen)' /\ visible' = visible
        /\ address' = address /\ broken' = broken
    BY <1>4, <2>1, SameScreen DEF screen
  <2>3. Types'
    BY <1>1, <1>2, <1>4, <2>2 DEF IInv, Types, scroll, locals
  <2>4. RowsAreLaid' /\ ActiveInWrite' /\ InPlace'
    BY <1>1, <1>2, <1>3, <2>2 DEF IInv, ActiveInWrite, RowsAreLaid, InPlace
  <2>5. ASSUME pc \in {"cell", "data"} PROVE PaintedTo(Screen, cell - 1, pos)'
    <3>1. PaintedTo(Screen, cell - 1, pos)
      BY <2>5 DEF IInv, PaintedSoFar
    <3> QED
      BY <1>3, <2>2, <3>1 DEF PaintedTo, Shown, Screen
  <2>6. ASSUME pc = "release" PROVE PaintedTo(Screen, Len(Cells), pos)'
    <3>1. PaintedTo(Screen, Len(Cells), pos)
      BY <2>6 DEF IInv, PaintedSoFar
    <3> QED
      BY <1>3, <2>2, <3>1 DEF PaintedTo, Shown, Screen
  <2>7. ASSUME pc \in {"cell", "data", "release", "check"}, scrollpos' = old_scrollpos
        PROVE  scrollpos' = scrollpos
    BY <1>1, <2>7 DEF NotARound
  <2>8. ASSUME pc = "check", scrollpos' = old_scrollpos
        PROVE  PaintedTo(Screen, Len(Cells), scrollpos)'
    <3>1. scrollpos' = scrollpos /\ PaintedTo(Screen, Len(Cells), scrollpos)
      BY <2>7, <2>8 DEF IInv, PaintedSoFar
    <3> QED
      BY <1>3, <2>2, <3>1 DEF PaintedTo, Shown, Screen
  <2>9. ASSUME pc = "idle", Laid, Short PROVE PaintedTo(Screen, Len(Cells), scrollpos)'
    <3>1. PaintedTo(Screen, Len(Cells), scrollpos) /\ \A r \in Rows : speed[r] = 0
      BY <1>6, <2>9 DEF IInv, PaintedSoFar, ScrollsOrStands, ActiveInWrite
    <3>2. ASSUME NEW i \in 1 .. Len(Cells)
          PROVE  visible[Cells[i].row][Cells[i].col] = Shown(Cells[i], scrollpos')
      <4>1. Cells[i] \in Places
        BY CellsAre
      <4>2. Shown(Cells[i], scrollpos) = Shown(Cells[i], scrollpos')
        BY <1>4, <3>1, <4>1, StandingShows
      <4> QED
        BY <3>1, <4>2 DEF PaintedTo, Screen
    <3> QED
      BY <1>3, <2>2, <3>2 DEF PaintedTo, Shown, Screen
  <2>10. ASSUME pc \in {"cell", "data", "release"}, scrollpos' = old_scrollpos
         PROVE  pos = scrollpos'
    BY <2>7, <2>10 DEF IInv, PaintedSoFar
  <2>11. PaintedSoFar'
    BY <1>1, <1>2, <1>3, <2>5, <2>6, <2>8, <2>9, <2>10 DEF PaintedSoFar
  <2> QED
    BY <1>2, <2>2, <2>3, <2>4, <2>11 DEF IInv
<1> QED
  BY <1>5, <1>6

\* Every step keeps the invariant.
LEMMA NextKeeps ==
  ASSUME IInv, [Next]_vars
  PROVE  IInv'
<1>1. CASE Next
  BY <1>1, BeginKeeps, PutCharacterKeeps, RecalculateKeeps, RememberPositionKeeps,
     BeginRepaintKeeps, PaintCommandKeeps, PaintDataKeeps, ReleaseKeeps, CheckKeeps,
     TimeoutKeeps DEF Next, Write
<1>2. CASE UNCHANGED vars
  <2>1. /\ UNCHANGED <<text, scroll, scrollpos, scrollmax, active, screen, pc, locals>>
    BY <1>2 DEF vars
  <2>2. UNCHANGED <<data, width, speed, cell, pos, old_scrollpos, visible, address, broken>>
    BY <2>1 DEF text, scroll, locals, screen
  <2>3. TextTypes' /\ Screen' \in Screens /\ Follows(Screen)'
    BY <2>1, SameScreen, SameText DEF IInv
  <2>4. Types'
    BY <2>1, <2>2, <2>3 DEF IInv, Types
  <2>5. ActiveInWrite' /\ RowsAreLaid' /\ ScrollsOrStands' /\ InPlace'
    BY <2>1, <2>2 DEF IInv, ActiveInWrite, RowsAreLaid, ScrollsOrStands, InPlace, Laid, Short
  <2>6. PaintedSoFar'
    <3>1. PaintedTo(Screen, cell - 1, pos) => PaintedTo(Screen, cell - 1, pos)'
      BY <2>2 DEF PaintedTo, Shown, Screen
    <3>2. PaintedTo(Screen, Len(Cells), pos) => PaintedTo(Screen, Len(Cells), pos)'
      BY <2>2 DEF PaintedTo, Shown, Screen
    <3>3. PaintedTo(Screen, Len(Cells), scrollpos) => PaintedTo(Screen, Len(Cells), scrollpos)'
      BY <2>1, <2>2 DEF PaintedTo, Shown, Screen
    <3>4. (Laid' <=> Laid) /\ (Short' <=> Short)
      BY <2>2 DEF Laid, Short
    <3> QED
      BY <2>1, <2>2, <3>1, <3>2, <3>3, <3>4 DEF IInv, PaintedSoFar
  <2> QED
    BY <2>3, <2>4, <2>5, <2>6 DEF IInv
<1> QED
  BY <1>1, <1>2

\* The display is true.
LEMMA IInvIsTrue ==
  ASSUME IInv
  PROVE  DisplayIsTrue
<1>1. TypeOK
  <2>1. /\ x \in 0 .. ByteWords - 1 /\ y \in 0 .. Height /\ esccount \in -1 .. EscSize - 1
        /\ Len(escape) \in Nat /\ (Len(escape) # 0 => esccount = Len(escape))
    <3>1. Len(<<>>) = 0
      OBVIOUS
    <3> QED
      BY <3>1 DEF IInv, Types, TextTypes
  <2>2. /\ \A r \in Rows : width[r] \in 0 .. Virtual + 1 /\ speed[r] \in 0 .. 128
        /\ scrollpos >= 0 /\ Screen \in Screens
    BY DEF IInv, Types
  <2>3. address \in 0 .. Height * Virtual /\ cursor \in DOMAIN panel
    BY <2>2 DEF Screens, Screen, Addresses
  <2> QED
    BY <2>1, <2>2, <2>3 DEF TypeOK
<1>2. PanelShows
  BY DEF IInv, Follows, Screen, PanelShows, Columns
<1>3. ShownIsCurrent
  BY CellsAre DEF IInv, PaintedSoFar, PaintedTo, Screen, Laid, Short, ShownIsCurrent
<1>4. NoZeroDivision
  BY DEF IInv, Types, ActiveInWrite, RowsAreLaid, Laid, NoZeroDivision
<1> QED
  BY <1>1, <1>2, <1>3, <1>4 DEF DisplayIsTrue

(***************************************************************************)
(* The display is true at every moment: the panel shows and writes where   *)
(* the driver takes it to, whatever the timer does between the two halves  *)
(* of a cell; between writes it shows the text as it is, at the position   *)
(* the timer has scrolled to, however often the timer ran during a write;  *)
(* and while the timer may paint, no row is without a width to divide by.  *)
(***************************************************************************)
THEOREM DisplayStaysTrue == Spec => []DisplayIsTrue
<1>1. Init => IInv
  BY InitIInv
<1>2. IInv /\ [Next]_vars => IInv'
  BY NextKeeps
<1>3. IInv => DisplayIsTrue
  BY IInvIsTrue
<1> QED
  BY <1>1, <1>2, <1>3, PTL DEF Spec

(***************************************************************************)
(* How the lines scroll, round after round, in rows of any widths of which *)
(* twice the width still fits the driver's signed char.                    *)
(***************************************************************************)
Turn == INSTANCE LcdScroll WITH Widths <- Width .. 63

\* write() has laid the rows out, and the position stays within the round.
ScrollInv ==
  /\ width \in [Turn!Rows -> Width .. 63]
  /\ speed = [r \in Turn!Rows |-> Turn!Speed(width, r)]
  /\ scrollmax = Turn!ScrollMax(width)
  /\ scrollpos \in Nat /\ (scrollpos = 0 \/ scrollpos < scrollmax)

\* The quotient by 256 is the number of which 256 times is next below.
LEMMA PartsOf256 ==
  ASSUME NEW k \in Nat
  PROVE  k \div 256 \in Nat /\ 256 * (k \div 256) <= k /\ k < 256 * (k \div 256) + 256
OBVIOUS

\* A row of width w moves 2 * m steps of k / 256 cells: w cells, but for one.
LEMMA SpeedFacts ==
  ASSUME NEW w \in Nat, NEW m \in Nat, 1 <= w, w <= m, m <= 63
  PROVE  \E k \in Nat :
           /\ ((256 * w) \div (2 * m)) % 256 = k /\ k <= 128
           /\ 2 * (m * k) <= 256 * w /\ 256 * w < 2 * (m * k) + 2 * m
<1> DEFINE k == (256 * w) \div (2 * m)
<1>1. k \in Int /\ (2 * m) * k <= 256 * w /\ 256 * w < (2 * m) * k + 2 * m
  BY Z3
<1> HIDE DEF k
<1>2. (2 * m) * k = 2 * (m * k) /\ m * k \in Int
  BY <1>1
<1>3. k >= 0
  <2>1. SUFFICES ASSUME k <= -1 PROVE FALSE
    BY <1>1
  <2>2. m * k <= -m
    BY <1>1, <2>1
  <2> QED
    BY <1>1, <1>2, <2>2
<1>4. k <= 128
  <2>1. SUFFICES ASSUME k >= 129 PROVE FALSE
    BY <1>1
  <2>2. m * k >= m * 129
    BY <1>1, <2>1
  <2> QED
    BY <1>1, <1>2, <2>2
<1>5. k % 256 = k /\ k \in Nat
  BY <1>1, <1>3, <1>4
<1> QED
  BY <1>1, <1>2, <1>4, <1>5 DEF k

\* A row that fits stands.
LEMMA NoSpeed == \A n \in Nat : (n * 0) \div 256 = 0
<1>1. \A n \in Nat : n * 0 = 0
  OBVIOUS
<1> QED
  BY <1>1

\* A step of the timer moves a row by one cell at most.
LEMMA OffsetGrows ==
  ASSUME NEW p \in Nat, NEW k \in Nat, k <= 128
  PROVE  ((p + 1) * k) \div 256 - (p * k) \div 256 \in {0, 1}
<1> DEFINE z == p * k
<1>1. z \in Nat /\ (p + 1) * k = z + k
  OBVIOUS
<1> HIDE DEF z
<1>2. (z + k) \div 256 - z \div 256 \in {0, 1}
  BY <1>1
<1> QED
  BY <1>1, <1>2 DEF z

\* Within a round a row stays within its width,
LEMMA OffsetBelow ==
  ASSUME NEW p \in Nat, NEW k \in Nat, NEW m \in Nat, NEW w \in Nat,
         1 <= w, p < 2 * m, 2 * (m * k) <= 256 * w
  PROVE  (p * k) \div 256 \in 0 .. w - 1
<1> DEFINE z == p * k
<1>1. z \in Nat
  OBVIOUS
<1>2. z < 256 * w
  <2>1. CASE k = 0
    BY <2>1
  <2>2. CASE k >= 1
    <3>1. p * k <= (2 * m - 1) * k
      BY <2>2
    <3>2. (2 * m - 1) * k = 2 * (m * k) - k /\ m * k \in Nat
      OBVIOUS
    <3> QED
      BY <2>2, <3>1, <3>2
  <2> QED
    BY <2>1, <2>2
<1> HIDE DEF z
<1>3. z \div 256 \in 0 .. w - 1
  BY <1>1, <1>2
<1> QED
  BY <1>3 DEF z

\* and the last position of the round is at its last cell.
LEMMA OffsetEnds ==
  ASSUME NEW k \in Nat, NEW m \in Nat, NEW w \in Nat, 1 <= w, 1 <= m, m <= 63, k <= 128,
         2 * (m * k) <= 256 * w, 256 * w < 2 * (m * k) + 2 * m
  PROVE  ((2 * m - 1) * k) \div 256 = w - 1
<1> DEFINE z == m * k
<1>1. z \in Nat /\ (2 * m - 1) * k = 2 * z - k
  OBVIOUS
<1>2. 2 * z <= 256 * w /\ 256 * w < 2 * z + 2 * m
  OBVIOUS
<1>3. k >= 1
  BY <1>2
<1> HIDE DEF z
<1>4. (2 * z - k) \div 256 = w - 1
  BY <1>1, <1>2, <1>3
<1> QED
  BY <1>1, <1>4

\* One row is the widest.
LEMMA WidestRow ==
  ASSUME NEW u \in [Turn!Rows -> Width .. 63], Height \in Nat \ {0}, Width \in Nat \ {0}
  PROVE  /\ Turn!Widest(u) \in Width .. 63
         /\ \A r \in Turn!Rows : u[r] <= Turn!Widest(u)
<1> DEFINE M == {u[r] : r \in Turn!Rows}
           T == {n \in Nat : \A r \in Turn!Rows : u[r] <= n}
<1>1. \A r \in Turn!Rows : u[r] \in Nat /\ u[r] <= 63 /\ u[r] >= Width
  OBVIOUS
<1>2. 63 \in T /\ T \in SUBSET Nat
  BY <1>1
<1>3. PICK n \in T : \A z \in T : n <= z
  <2> HIDE DEF T
  <2> QED
    BY <1>2, HasLeast
<1>4. n \in Nat /\ \A r \in Turn!Rows : u[r] <= n
  BY <1>3
<1>5. n \in M
  <2>1. SUFFICES ASSUME \A r \in Turn!Rows : u[r] # n PROVE FALSE
    OBVIOUS
  <2>2. 0 \in Turn!Rows
    BY DEF Turn!Rows
  <2>3. n - 1 \in Nat
    BY <1>1, <1>4, <2>1, <2>2
  <2>4. \A r \in Turn!Rows : u[r] <= n - 1
    BY <1>1, <1>4, <2>1
  <2>5. n - 1 \in T
    BY <2>3, <2>4
  <2>6. n <= n - 1
    BY <1>3, <2>5
  <2> QED
    BY <1>4, <2>6
<1>6. Turn!Widest(u) \in M /\ \A r \in Turn!Rows : u[r] <= Turn!Widest(u)
  BY <1>4, <1>5 DEF Turn!Widest
<1> QED
  BY <1>1, <1>6

\* What the invariant says of a line: how far it goes in a round of 2 * m.
LEMMA RowFacts ==
  ASSUME ScrollInv, Height \in Nat \ {0}, Width \in Nat \ {0}, NEW r \in Turn!Rows
  PROVE  \E m \in Nat, k \in Nat :
           /\ width[r] \in Nat /\ Width <= width[r] /\ width[r] <= m /\ m <= 63
           /\ scrollmax = IF m <= Width THEN 0 ELSE 2 * m
           /\ speed[r] = k /\ k <= 128
           /\ width[r] <= Width => k = 0
           /\ width[r] > Width => /\ 2 * (m * k) <= 256 * width[r]
                                 /\ 256 * width[r] < 2 * (m * k) + 2 * m
<1> DEFINE m == Turn!Widest(width)
           w == width[r]
<1>1. width \in [Turn!Rows -> Width .. 63]
  BY DEF ScrollInv
<1>2. m \in Width .. 63 /\ w <= m
  BY <1>1, WidestRow
<1>3. w \in Nat /\ Width <= w /\ 1 <= w /\ m \in Nat /\ m <= 63
  BY <1>1, <1>2
<1>4. scrollmax = IF m <= Width THEN 0 ELSE 2 * m
  <2>1. scrollmax = IF m <= Width THEN 0 ELSE ((2 * m + 128) % 256) - 128
    BY DEF ScrollInv, Turn!ScrollMax, Turn!SignedChar
  <2> HIDE DEF m
  <2>2. ((2 * m + 128) % 256) - 128 = 2 * m
    BY <1>3
  <2> QED
    BY <2>1, <2>2
<1>5. speed[r] = IF w <= Width THEN 0 ELSE ((256 * w) \div (2 * m)) % 256
  BY DEF ScrollInv, Turn!Speed
<1> HIDE DEF m
<1>6. PICK k \in Nat :
        /\ ((256 * w) \div (2 * m)) % 256 = k /\ k <= 128
        /\ 2 * (m * k) <= 256 * w /\ 256 * w < 2 * (m * k) + 2 * m
  <2> HIDE DEF w
  <2> QED
    BY <1>2, <1>3, SpeedFacts
<1>7. CASE w <= Width
  <2>1. 0 \in Nat /\ 0 <= 128 /\ speed[r] = 0
    BY <1>5, <1>7
  <2>2. ~(w > Width)
    BY <1>3, <1>7
  <2> QED
    BY <1>2, <1>3, <1>4, <1>7, <2>1, <2>2
<1>8. CASE ~(w <= Width)
  <2>1. speed[r] = k
    BY <1>5, <1>6, <1>8
  <2> QED
    BY <1>2, <1>3, <1>4, <1>6, <1>8, <2>1
<1> QED
  BY <1>7, <1>8

\* What the two properties ask of a step that moves.
LEMMA ScrollStep ==
  ASSUME ScrollInv, Height \in Nat \ {0}, Width \in Nat \ {0}, Turn!Timeout,
         NEW r \in Turn!Rows, UNCHANGED Turn!vars => FALSE
  PROVE  /\ scrollpos' = 0 =>
              /\ Turn!Visible(r, width[r] - 1)
              /\ width[r] > Width => width[r] - Turn!Offset(r) \in 1 .. 2
         /\ scrollpos' # 0 => Turn!Offset(r)' - Turn!Offset(r) \in {0, 1}
<1> DEFINE w == width[r]
           p == scrollpos
<1>1. PICK m \in Nat, k \in Nat :
        /\ w \in Nat /\ Width <= w /\ w <= m /\ m <= 63
        /\ scrollmax = IF m <= Width THEN 0 ELSE 2 * m
        /\ speed[r] = k /\ k <= 128
        /\ w <= Width => k = 0
        /\ w > Width => /\ 2 * (m * k) <= 256 * w
                        /\ 256 * w < 2 * (m * k) + 2 * m
  BY RowFacts
<1>2. /\ p' = IF p + 1 >= scrollmax THEN 0 ELSE p + 1
      /\ width' = width /\ speed' = speed /\ scrollmax' = scrollmax /\ p' # p
  BY DEF Turn!Timeout, Turn!vars
<1>3. p \in Nat /\ (p = 0 \/ p < scrollmax)
  BY DEF ScrollInv
<1>4. p < scrollmax /\ m > Width /\ scrollmax = 2 * m
  BY <1>1, <1>2, <1>3
<1>5. /\ Turn!Offset(r) = LET o == (p * k) \div 256 IN IF o >= w THEN 0 ELSE o
      /\ Turn!Offset(r)' = LET o == (p' * k) \div 256 IN IF o >= w THEN 0 ELSE o
  BY <1>1, <1>2 DEF Turn!Offset
<1> HIDE DEF w, p
<1>6. CASE w <= Width
  <2>1. w = Width /\ k = 0 /\ 1 <= w
    BY <1>1, <1>6
  <2>2. p' \in Nat /\ (p * k) \div 256 = 0 /\ (p' * k) \div 256 = 0
    <3>1. p' \in Nat
      BY <1>2, <1>3
    <3>2. (p * 0) \div 256 = 0 /\ (p' * 0) \div 256 = 0
      BY <1>3, <3>1, NoSpeed
    <3> QED
      BY <2>1, <3>1, <3>2
  <2>3. Turn!Offset(r) = 0 /\ Turn!Offset(r)' = 0
    BY <1>1, <1>5, <2>1, <2>2
  <2>4. Turn!Visible(r, w - 1)
    <3>1. w - 1 \in 0 .. Width - 1 /\ ((w - 1) + 0) % w = w - 1
      BY <1>1, <2>1
    <3> QED
      BY <2>3, <3>1 DEF Turn!Visible, w
  <2>5. ~(w > Width)
    BY <1>1, <1>6
  <2> QED
    BY <2>3, <2>4, <2>5 DEF w, p
<1>7. CASE ~(w <= Width)
  <2>1. w > Width /\ 1 <= w /\ 1 <= m
    BY <1>1, <1>7
  <2>2. (p * k) \div 256 \in 0 .. w - 1
    BY <1>1, <1>3, <1>4, <2>1, OffsetBelow
  <2>3. Turn!Offset(r) = (p * k) \div 256
    BY <1>1, <1>5, <2>2
  <2>4. CASE p + 1 >= scrollmax
    <3>1. p = 2 * m - 1 /\ p' = 0
      BY <1>1, <1>2, <1>3, <1>4, <2>4
    <3>2. Turn!Offset(r) = w - 1
      BY <1>1, <2>1, <2>3, <3>1, OffsetEnds
    <3>3. Turn!Visible(r, w - 1)
      <4>1. 0 \in 0 .. Width - 1 /\ (0 + (w - 1)) % w = w - 1
        BY <1>1, <2>1
      <4> QED
        BY <3>2, <4>1 DEF Turn!Visible, w
    <3>4. w - Turn!Offset(r) \in 1 .. 2
      BY <1>1, <3>2
    <3> QED
      BY <3>1, <3>3, <3>4 DEF w, p
  <2>5. CASE ~(p + 1 >= scrollmax)
    <3>1. p' = p + 1 /\ p' \in Nat /\ p' < 2 * m /\ p' # 0
      BY <1>1, <1>2, <1>3, <1>4, <2>5
    <3>2. (p' * k) \div 256 \in 0 .. w - 1
      BY <1>1, <2>1, <3>1, OffsetBelow
    <3>3. Turn!Offset(r)' = ((p + 1) * k) \div 256
      BY <1>1, <1>5, <3>1, <3>2
    <3>4. Turn!Offset(r)' - Turn!Offset(r) \in {0, 1}
      BY <1>1, <1>3, <2>3, <3>3, OffsetGrows
    <3> QED
      BY <3>1, <3>4 DEF p
  <2> QED
    BY <2>4, <2>5
<1> QED
  BY <1>6, <1>7

\* The invariant holds when write() has laid the rows out,
LEMMA ScrollInitInv == ASSUME Turn!Init PROVE ScrollInv
BY DEF Turn!Init, ScrollInv

\* and the timer keeps it.
LEMMA ScrollNextInv ==
  ASSUME ScrollInv, Height \in Nat \ {0}, Width \in Nat \ {0}, [Turn!Timeout]_(Turn!vars)
  PROVE  ScrollInv'
<1>1. width' = width /\ speed' = speed /\ scrollmax' = scrollmax
  BY DEF Turn!Timeout, Turn!vars
<1>2. scrollmax \in Int
  <2>1. 0 \in Turn!Rows
    BY DEF Turn!Rows
  <2> QED
    BY <2>1, RowFacts
<1>3. scrollpos' \in Nat /\ (scrollpos' = 0 \/ scrollpos' < scrollmax')
  BY <1>1, <1>2 DEF ScrollInv, Turn!Timeout, Turn!vars
<1> QED
  BY <1>1, <1>3 DEF ScrollInv

(***************************************************************************)
(* LcdScroll, for every size of display and every width of its lines that  *)
(* is at most 63, where twice the width still fits a signed char: no       *)
(* character of a line is jumped over, and lines that scroll finish their  *)
(* rounds together, at their ends.                                         *)
(***************************************************************************)
THEOREM ScrollingIsRight ==
  ASSUME Height \in Nat \ {0}, Width \in Nat \ {0}
  PROVE  Turn!Init /\ [][Turn!Timeout]_(Turn!vars) => Turn!NothingSkipped /\ Turn!FinishTogether
<1>1. Turn!Init => ScrollInv
  BY ScrollInitInv
<1>2. ScrollInv /\ [Turn!Timeout]_(Turn!vars) => ScrollInv'
  BY ScrollNextInv
<1>3. ScrollInv /\ [Turn!Timeout]_(Turn!vars) =>
        /\ [\A r \in Turn!Rows :
              IF scrollpos' = 0 THEN Turn!Visible(r, width[r] - 1)
              ELSE Turn!Offset(r)' - Turn!Offset(r) \in {0, 1}]_(Turn!vars)
        /\ [\A r \in Turn!Rows :
              scrollpos' = 0 /\ width[r] > Width =>
                width[r] - Turn!Offset(r) \in 1 .. 2]_(Turn!vars)
  BY ScrollStep
<1> QED
  BY <1>1, <1>2, <1>3, PTL DEF Turn!NothingSkipped, Turn!FinishTogether
=============================================================================
