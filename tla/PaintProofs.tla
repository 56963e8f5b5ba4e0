---------------------------- MODULE PaintProofs -----------------------------
(***************************************************************************)
(* Proofs about four parts of the mouse program.  Cursor, for every size   *)
(* of screen, word and byte: the cursor and what it draws stay on the      *)
(* screen, and one report moves it no further than a byte can say but over *)
(* the left or upper edge.  MouseHost, for any chip and any mice: what     *)
(* main() takes for done was done, once.  TransferLists, for any sizes of  *)
(* a report and any device: the chip follows the list and nothing else.    *)
(* Board, for all places of the cursor: the displays show it.              *)
(***************************************************************************)
EXTENDS Cursor, MouseHost, TransferLists, Board, SequenceTheorems, TLAPS

(* The cursor.                                                             *)

\* The movements a byte can say.
Moves == -(Bytes \div 2) .. Bytes \div 2 - 1

(***************************************************************************)
(* The invariant: the cursor is on the screen and the movement, which a    *)
(* zero byte repeats, is one a byte has said.  Without the second part the *)
(* unsigned sum could wrap to any column.                                  *)
(***************************************************************************)
Inv ==
  /\ OnScreen
  /\ dx \in Moves /\ dy \in Moves

\* Half of the values of a byte are negative.
LEMMA Half ==
  /\ LastX \in Nat /\ LastY \in Nat /\ Bytes \in Nat \ {0} /\ Words \in Nat
  /\ Bytes \div 2 \in Nat \ {0} /\ 2 * (Bytes \div 2) = Bytes
  /\ Words > LastX + Bytes /\ Words > LastY + Bytes
BY SizeAssumption, SMT

\* A sum a little below zero wraps to the top of the word; one in range stays.
LEMMA Wraps ==
  ASSUME NEW a \in Int, NEW m \in Nat, a >= -m, a < m, m > 0
  PROVE  a % m = IF a < 0 THEN a + m ELSE a
<1>1. CASE a >= 0
  BY <1>1, SMT
<1>2. CASE a < 0
  <2>1. a + m \in 0 .. m - 1 /\ a = (-1) * m + (a + m)
    BY <1>2, SMT
  <2>2. a % m = a + m
    BY <2>1, SMT
  <2> QED BY <1>2, <2>2, SMT
<1> QED BY <1>1, <1>2, SMT

\* maxmin() leaves the cursor on the screen, whatever it is given.
LEMMA MaxMinInRange ==
  ASSUME NEW no \in Int, NEW most \in Nat
  PROVE  MaxMin(no, most, 0) \in 0 .. most
BY SMT DEF MaxMin

\* A report's movement is one a byte can say: the byte, none, or the last.
LEMMA DeltaIsMove ==
  ASSUME NEW old \in Moves, NEW b \in Byte
  PROVE  Delta(old, b) \in Moves
BY Half, SMT DEF Moves, Byte, Delta, Signed

\* The address of a place on the screen is in the screen's memory.
LEMMA AddressInMemory ==
  ASSUME NEW x \in 0 .. LastX, NEW y \in 0 .. LastY
  PROVE  Address(x, y) \in ScreenMemory
<1> DEFINE w == LastX + 1
<1>1. w \in Nat /\ x \in Nat /\ y \in Nat /\ x < w /\ y <= LastY
  BY Half, SMT
<1>2. y * w <= LastY * w /\ y * w \in Nat /\ LastY * w \in Nat
  BY <1>1, Half, SMT
<1>3. w * (LastY + 1) = LastY * w + w
  BY <1>1, Half, SMT
<1> HIDE DEF w
<1>4. y * w + x \in 0 .. w * (LastY + 1) - 1
  <2> DEFINE p == y * w
             q == LastY * w
             r == w * (LastY + 1)
  <2>1. p \in Nat /\ q \in Nat /\ p <= q /\ r = q + w
    BY <1>2, <1>3
  <2> HIDE DEF p, q, r
  <2>2. p + x \in 0 .. r - 1
    BY <2>1, <1>1, SMT
  <2> QED BY <2>2 DEF p, r
<1> QED BY <1>4 DEF w, Address, ScreenMemory

(***************************************************************************)
(* One report on one axis: Reach, with the sum in a word and maxmin()      *)
(* after it.                                                               *)
(***************************************************************************)
LEMMA AxisReach ==
  ASSUME NEW last \in Nat, Words > last + Bytes,
         NEW p \in 0 .. last, NEW d \in Moves
  PROVE  Reach(p, MaxMin((p + d) % Words, last, 0), d, last)
<1> DEFINE h == Bytes \div 2
<1>1. h \in Nat /\ 2 * h = Bytes /\ Words \in Nat /\ d \in -h .. h - 1
  BY Half DEF Moves
<1> HIDE DEF h
<1>2. p + d \in Int /\ p + d >= -Words /\ p + d < Words /\ Words > 0
  BY <1>1, Half, SMT
<1>3. (p + d) % Words = IF p + d < 0 THEN p + d + Words ELSE p + d
  BY <1>1, <1>2, Wraps
<1>4. CASE p + d < 0
  <2>1. (p + d) % Words > last
    BY <1>1, <1>3, <1>4, Half, SMT
  <2> QED BY <2>1, <1>4 DEF Reach, MaxMin
<1>5. CASE p + d >= 0
  <2>1. (p + d) % Words = p + d
    BY <1>2, <1>3, <1>5, SMT
  <2>2. MaxMin(p + d, last, 0) - p \in -h .. h - 1
    BY <1>1, <1>5, SMT DEF MaxMin
  <2>3. ~ (p + d < 0)
    BY <1>2, <1>5, SMT
  <2> QED BY <2>1, <2>2, <2>3 DEF Reach, h
<1> QED BY <1>2, <1>4, <1>5, SMT

-----------------------------------------------------------------------------

LEMMA InitInv == Init => Inv
<1> SUFFICES ASSUME Init PROVE Inv
  OBVIOUS
<1>1. px \in 0 .. LastX /\ py \in 0 .. LastY
  BY Half, SMT DEF Init
<1>2. 0 \in Moves
  BY Half, SizeAssumption, SMT DEF Moves
<1> QED BY <1>1, <1>2 DEF Inv, Init, OnScreen

\* Drawing with a movement of a byte keeps the cursor and the pixels.
LEMMA DrawKeeps ==
  ASSUME Inv, dx' \in Moves, dy' \in Moves, Draw
  PROVE  Inv'
<1>1. px' \in 0 .. LastX
  <2>1. (px + dx') % Words \in Int
    BY Half, SMT DEF Inv, OnScreen, Moves
  <2> QED BY <2>1, MaxMinInRange, Half DEF Draw
<1>2. py' \in 0 .. LastY
  <2>1. (py + dy') % Words \in Int
    BY Half, SMT DEF Inv, OnScreen, Moves
  <2> QED BY <2>1, MaxMinInRange, Half DEF Draw
<1>3. Address(px', py') \in ScreenMemory
  BY <1>1, <1>2, AddressInMemory
<1>4. pixels' \subseteq ScreenMemory
  BY <1>3 DEF Draw, Inv, OnScreen
<1> QED BY <1>1, <1>2, <1>4 DEF Inv, OnScreen, Moves

LEMMA NextMoves ==
  ASSUME Inv, Next
  PROVE  dx' \in Moves /\ dy' \in Moves /\ Draw
<1>1. CASE Rest
  BY <1>1, Half, SizeAssumption, SMT DEF Rest, Moves
<1>2. ASSUME NEW bytes \in (0 .. 3) \X Byte \X Byte, Report(bytes)
      PROVE  dx' \in Moves /\ dy' \in Moves /\ Draw
  <2>1. bytes[2] \in Byte /\ bytes[3] \in Byte
    OBVIOUS
  <2> QED BY <1>2, <2>1, DeltaIsMove DEF Report, Inv
<1> QED BY <1>1, <1>2 DEF Next

LEMMA NextInv == Inv /\ [Next]_vars => Inv'
<1>1. CASE Next
  BY <1>1, NextMoves, DrawKeeps
<1>2. CASE UNCHANGED vars
  BY <1>2 DEF Inv, OnScreen, Moves, vars
<1> QED BY <1>1, <1>2

\* The cursor never leaves the screen, nor what it draws the screen's memory
\* (main(), with maxmin() and Vga_Set_Pixel()).
THEOREM CursorOnScreen == Spec => []OnScreen
<1>1. Inv => OnScreen
  BY DEF Inv
<1> QED BY InitInv, NextInv, <1>1, PTL DEF Spec

\* No report moves the cursor further than a byte can say, except over the
\* left or upper edge to the other one.
THEOREM CursorReach == Spec => NoJumpButOverTheEdge
<1>1. Inv /\ [Next]_vars =>
        [Reach(px, px', dx', LastX) /\ Reach(py, py', dy', LastY)]_vars
  <2> SUFFICES ASSUME Inv, Next
               PROVE  Reach(px, px', dx', LastX) /\ Reach(py, py', dy', LastY)
    OBVIOUS
  <2>1. dx' \in Moves /\ dy' \in Moves /\ Draw
    BY NextMoves
  <2> QED BY <2>1, AxisReach, Half DEF Draw, Inv, OnScreen
<1> QED BY InitInv, NextInv, <1>1, PTL DEF Spec, NoJumpButOverTheEdge

\* The cursor moves as it should, on a screen of any size (main(), maxmin()).
THEOREM CursorAlwaysMoves == Spec => CursorMoves
BY CursorOnScreen, CursorReach, PTL DEF CursorMoves
-----------------------------------------------------------------------------
(* main() of the mouse host.                                               *)

\* From pointing the chip at a list to leaving its stage.
Exchanging ==
  {"look", "resubmit", "sleep", "message", "clear", "check", "again", "again clear", "wait", "reread"}

\* Before the list of a round is written anew, or all is begun anew.
BeforeList == {"plug", "submit", "removed", "USB_HOT_PLUG"}

\* The list is that of the stage, one that is done was answered, and a
\* movement that is there is one no round has counted.
HostInv ==
  /\ stage \in 0 .. Motion
  /\ pc \in Exchanging => loaded = stage
  /\ pc \in {"again", "again clear", "wait", "reread"} => stage < Motion
  /\ control = "done" => loaded \in acked
  /\ control = "done" /\ loaded = Motion /\ pc \notin BeforeList => unused
  /\ PassedWereAnswered

LEMMA HostStarts == HostInit => HostInv
  BY DEF HostInit, HostInv, Exchanging, Motion, PassedWereAnswered

\* A list that is done ends its stage.
LEMMA NextStage ==
  ASSUME HostInv, pc \in {"check", "reread"}, stage \in 1 .. Motion - 1, control = "done",
         Begin(stage + 1), UNCHANGED <<read, lcp, list, sie, port, record>>
  PROVE  HostInv'
<1>1. pc' = "submit" /\ stage' = stage + 1 /\ stage' \in 0 .. Motion
  BY DEF Begin, Goto, Motion
<1>2. stage \in acked
  BY DEF HostInv, Exchanging
<1>3. PassedWereAnswered'
  <2> SUFFICES ASSUME NEW x \in 1 .. stage' - 1 PROVE x \in acked
    BY DEF PassedWereAnswered, record
  <2>1. x \in 1 .. stage - 1 \/ x = stage
    <3>1. stage \in Nat /\ stage' = stage + 1  BY <1>1 DEF Motion
    <3> QED  BY <3>1
  <2> QED  BY <1>2, <2>1 DEF HostInv, PassedWereAnswered
<1>4. loaded' = loaded /\ control' = control /\ acked' = acked
  BY DEF list, record
<1> QED  BY <1>1, <1>2, <1>3, <1>4 DEF HostInv, Exchanging, BeforeList

\* Going on within a stage, or beginning all anew, with nothing else changed.
LEMMA GoesOn ==
  ASSUME HostInv, NEW next \in {"again", "USB_HOT_PLUG", "no device", "submit"}, Goto(next),
         next = "again" => pc \in Exchanging /\ pc \notin BeforeList /\ stage < Motion,
         next = "no device" => pc = "probe",
         UNCHANGED <<stage, read, lcp, list, sie, port, record>>
  PROVE  HostInv'
  BY DEF HostInv, Goto, Exchanging, BeforeList, PassedWereAnswered, list, record

LEMMA ExchangeKeeps ==
  ASSUME HostInv, NEW s \in 1 .. Motion, Exchange(s)
  PROVE  HostInv'
<1>4. CASE Check
  <2>1. CASE control = "done"
    <3>1. pc = "check" /\ stage \in 1 .. Motion - 1 /\ Begin(stage + 1)
      BY <1>4, <2>1 DEF Check, Exchange, Motion
    <3> QED  BY <1>4, <2>1, <3>1, NextStage DEF Check
  <2>2. CASE control # "done"
    <3>1. pc = "check" /\ Goto("again") /\ UNCHANGED stage
      BY <1>4, <2>2 DEF Check
    <3> QED  BY <1>4, <3>1, GoesOn DEF Check, Exchanging, BeforeList
  <2> QED  BY <2>1, <2>2
<1>6. CASE Reread
  <2>1. pc = "reread" /\ stage = s /\ UNCHANGED <<read, lcp, list, sie, port, record>>
    BY <1>6 DEF Reread, Exchange
  <2>2. CASE stage = 1
    <3>1. Goto("USB_HOT_PLUG") /\ UNCHANGED stage
      BY <1>6, <2>2 DEF Reread
    <3> QED  BY <2>1, <3>1, GoesOn
  <2>3. CASE stage # 1 /\ control = "done"
    <3>1. Begin(stage + 1)  BY <1>6, <2>3 DEF Reread
    <3>2. stage \in 1 .. Motion - 1  BY <2>1 DEF HostInv, Motion
    <3> QED  BY <2>1, <2>3, <3>1, <3>2, NextStage
  <2>4. CASE stage # 1 /\ control # "done"
    <3>1. Goto("again") /\ UNCHANGED stage
      BY <1>6, <2>4 DEF Reread
    <3> QED  BY <2>1, <3>1, GoesOn DEF HostInv, Exchanging, BeforeList
  <2> QED  BY <2>2, <2>3, <2>4
<1> USE DEF Goto, Begin, Arm, HostInv, Exchanging, BeforeList, Motion, PassedWereAnswered,
            list, lcp, sie, port, record
<1>1. CASE Submit \/ Resubmit  BY <1>1 DEF Submit, Resubmit
<1>2. CASE Wake \/ Look  BY <1>2 DEF Wake, Look
<1>3. CASE ReadMessage \/ ClearMessage  BY <1>3 DEF ReadMessage, ClearMessage
<1>5. CASE Again \/ AgainClear \/ Wait  BY <1>5 DEF Again, AgainClear, Wait
<1> QED  BY <1>1, <1>2, <1>3, <1>4, <1>5, <1>6 DEF Exchange

LEMMA HostStepKeeps == HostInv /\ [HostNext]_hostVars => HostInv'
<1> SUFFICES ASSUME HostInv, [HostNext]_hostVars PROVE HostInv'  OBVIOUS
<1>1. CASE Enumerate \/ GetReport
  <2>1. PICK s \in 1 .. Motion : Exchange(s)
    BY <1>1 DEF Enumerate, GetReport, Motion, Configured, SetAddress, GetDeviceDescriptor1,
                GetDeviceDescriptor2, GetConfigDescriptor1, GetConfigDescriptor2, SetConfiguration,
                SetIdle, GetClassDescriptor21, GetClassDescriptor22
  <2> QED  BY <2>1, ExchangeKeeps
<1>5. CASE Probe
  <2>1. pc = "probe" /\ UNCHANGED <<read, lcp, list, sie, port, record>>
    BY <1>5 DEF Probe
  <2>2. CASE Present
    <3>1. pc' = "submit" /\ stage' = 1
      BY <1>5, <2>2 DEF Probe, Begin, Goto
    <3>2. 1 .. stage' - 1 = {}
      BY <3>1
    <3>3. PassedWereAnswered'
      BY <3>2 DEF PassedWereAnswered
    <3> QED  BY <2>1, <3>1, <3>3 DEF HostInv, Exchanging, BeforeList, Motion, list, record
  <2>3. CASE ~Present
    <3>1. Goto("no device") /\ UNCHANGED stage
      BY <1>5, <2>3 DEF Probe
    <3> QED  BY <2>1, <3>1, GoesOn
  <2> QED  BY <2>2, <2>3
<1>11. CASE Insert
  BY <1>11, GoesOn DEF Insert
<1> USE DEF Goto, Begin, HostInv, Exchanging, BeforeList, Motion, PassedWereAnswered,
            host, lcp, list, sie, port, record
<1>2. CASE UsbSoftReset  BY <1>2 DEF UsbSoftReset
<1>3. CASE InitCommand \/ ResetCommand  BY <1>3 DEF InitCommand, ResetCommand, Command
<1>4. CASE InitAnswer \/ ResetAnswer  BY <1>4 DEF InitAnswer, ResetAnswer, Mailbox
<1>6. CASE Move \/ HotPlug  BY <1>6 DEF Move, HotPlug
<1>7. CASE Answer  BY <1>7 DEF Answer
<1>8. ASSUME NEW ok \in BOOLEAN, Execute(ok) PROVE HostInv'
  BY <1>8 DEF Execute
<1>9. CASE Notice \/ Plug  BY <1>9 DEF Notice, Plug
<1>10. CASE UNCHANGED hostVars  BY <1>10 DEF hostVars
<1> QED
  BY <1>1, <1>2, <1>3, <1>4, <1>5, <1>6, <1>7, <1>8, <1>9, <1>10, <1>11 DEF HostNext, Main, Run

(* Every stage of the enumeration was answered by a mouse since the last   *)
(* reset before main() leaves it, and no movement is counted twice, with   *)
(* a chip that runs lists twice, fails them, sends other messages and      *)
(* answers whenever it likes, and mice exchanged at any time.              *)
THEOREM AnswersCountedOnce == HostSpec => []AnswersAreCountedOnce
<1>1. HostInv => AnswersAreCountedOnce
  BY DEF HostInv, AnswersAreCountedOnce, EachReportOnce, Exchanging, BeforeList
<1> QED  BY <1>1, HostStarts, HostStepKeeps, PTL DEF HostSpec

(***************************************************************************)
(* The lists.  Descriptor n of a list begins at its word First(n); a list  *)
(* of more than one descriptor begins with a SETUP, whose request lies     *)
(* between the first descriptor and the second.                            *)
(***************************************************************************)
Count(i) == <<2, 3, 5, 4, 7, 2, 2, 3, 10, 1>>[i]
First(n) == IF n = 1 THEN 1 ELSE 6 * n - 1
Controls(last) == {First(n) + 4 : n \in 1 .. last}
TokenKind(token) == (token % 256) \div 16

\* How long the list is, and where its descriptors end.
Shaped(l, last) ==
  /\ Len(l) = IF last = 1 THEN 6 ELSE 6 * last + 4
  /\ l \in Seq(Nat)
  /\ \A n \in 1 .. last :
       /\ l[First(n) + 4] = Active
       /\ l[First(n) + 5] = IF n = last THEN 0 ELSE Place(First(n + 1))

\* What its descriptors ask for: the first of several sends the request behind
\* it, answers are stored behind the list, and the data toggle.
Asks(l, last) ==
  /\ IF last > 1 THEN l[1] = Place(7) ELSE TokenKind(l[3]) = 9
  /\ \A n \in 1 .. last :
       /\ TokenKind(l[First(n) + 2]) = 13 <=> n = 1 /\ last > 1
       /\ TokenKind(l[First(n) + 2]) = 9 =>
            /\ l[First(n) + 1] = 0 \/ l[First(n)] > Place(Len(l))
            /\ n > 1 => (l[First(n) + 3] = \h41) # (l[First(n - 1) + 3] = \h41)

Sound(l, last) == last \in 1 .. 10 /\ Shaped(l, last) /\ Asks(l, last)

LEMMA Sound1 == Sound(SetAddressList, 2)
<1> USE DEF SetAddressList, Setup, Base, Active, First, Place, TokenKind
<1>1. Shaped(SetAddressList, 2) BY DEF Shaped
<1>2. Asks(SetAddressList, 2) BY DEF Asks
<1> QED BY <1>1, <1>2 DEF Sound

LEMMA Sound2 == Sound(DeviceDescriptor1List, 3)
<1> USE DEF DeviceDescriptor1List, Setup, Base, Active, First, Place, TokenKind
<1>1. Shaped(DeviceDescriptor1List, 3) BY DEF Shaped
<1>2. Asks(DeviceDescriptor1List, 3) BY DEF Asks
<1> QED BY <1>1, <1>2 DEF Sound

LEMMA Sound3 == Sound(DeviceDescriptor2List, 5)
<1> USE DEF DeviceDescriptor2List, Setup, Base, Active, First, Place, TokenKind
<1>1. Shaped(DeviceDescriptor2List, 5) BY DEF Shaped
<1>2. Asks(DeviceDescriptor2List, 5) BY DEF Asks
<1> QED BY <1>1, <1>2 DEF Sound

LEMMA Sound4 == Sound(ConfigDescriptor1List, 4)
<1> USE DEF ConfigDescriptor1List, Setup, Base, Active, First, Place, TokenKind
<1>1. Shaped(ConfigDescriptor1List, 4) BY DEF Shaped
<1>2. Asks(ConfigDescriptor1List, 4) BY DEF Asks
<1> QED BY <1>1, <1>2 DEF Sound

LEMMA Sound5 == Sound(ConfigDescriptor2List, 7)
<1> USE DEF ConfigDescriptor2List, Setup, Base, Active, First, Place, TokenKind
<1>1. Shaped(ConfigDescriptor2List, 7) BY DEF Shaped
<1>2. Asks(ConfigDescriptor2List, 7) BY DEF Asks
<1> QED BY <1>1, <1>2 DEF Sound

LEMMA Sound6 == Sound(SetConfigurationList, 2)
<1> USE DEF SetConfigurationList, Setup, Base, Active, First, Place, TokenKind
<1>1. Shaped(SetConfigurationList, 2) BY DEF Shaped
<1>2. Asks(SetConfigurationList, 2) BY DEF Asks
<1> QED BY <1>1, <1>2 DEF Sound

LEMMA Sound7 == Sound(SetIdleList, 2)
<1> USE DEF SetIdleList, Setup, Base, Active, First, Place, TokenKind
<1>1. Shaped(SetIdleList, 2) BY DEF Shaped
<1>2. Asks(SetIdleList, 2) BY DEF Asks
<1> QED BY <1>1, <1>2 DEF Sound

LEMMA Sound8 == Sound(ClassDescriptor21List, 3)
<1> USE DEF ClassDescriptor21List, Setup, Base, Active, First, Place, TokenKind
<1>1. Shaped(ClassDescriptor21List, 3) BY DEF Shaped
<1>2. Asks(ClassDescriptor21List, 3) BY DEF Asks
<1> QED BY <1>1, <1>2 DEF Sound

LEMMA Sound9 == Sound(ClassDescriptor22List, 10)
<1> USE DEF ClassDescriptor22List, Setup, Base, Active, First, Place, TokenKind
<1>1. Shaped(ClassDescriptor22List, 10) BY DEF Shaped
<1>2. Asks(ClassDescriptor22List, 10) BY DEF Asks
<1> QED BY <1>1, <1>2 DEF Sound

LEMMA Sound10 == \A s \in Sizes, t \in {0, 1} : Sound(ReportList(s, t), 1) /\ ReportList(s, t)[2] >= 3
<1> USE DEF ReportList, Base, Active, First, Place, TokenKind
<1> SUFFICES ASSUME NEW s \in Sizes, NEW t \in {0, 1}
             PROVE  Sound(ReportList(s, t), 1) /\ ReportList(s, t)[2] >= 3
  OBVIOUS
<1>1. s \in Nat /\ s % 16 \in Nat /\ s % 16 >= 3 BY ListAssumption DEF SizesAreReal
<1>2. Shaped(ReportList(s, t), 1) BY <1>1 DEF Shaped
<1>3. Asks(ReportList(s, t), 1) BY <1>1 DEF Asks
<1> QED BY <1>1, <1>2, <1>3 DEF Sound

(***************************************************************************)
(* The list main() is at.                                                  *)
(***************************************************************************)
TheList == List(transfer)
Length == Len(TheList)
Last == Count(transfer)

AtTransfer ==
  /\ transfer \in 1 .. Reports /\ toggle \in {0, 1}
  /\ transfer > 5 => size \in Sizes

LEMMA SoundLength ==
  ASSUME NEW l, NEW last, Sound(l, last)
  PROVE  last \in 1 .. 10 /\ Len(l) = (IF last = 1 THEN 6 ELSE 6 * last + 4) /\ Len(l) \in 6 .. 64
  BY DEF Sound, Shaped

LEMMA ListSound ==
  ASSUME AtTransfer
  PROVE  /\ Sound(TheList, Last) /\ (transfer = Reports <=> Last = 1)
         /\ transfer = Reports => TheList[1] = \h051C /\ TheList[2] >= 3
<1> DEFINE Goal == /\ Sound(TheList, Last) /\ (transfer = Reports <=> Last = 1)
                   /\ transfer = Reports => TheList[1] = \h051C /\ TheList[2] >= 3
<1>0. /\ transfer \in {1, 2, 3, 4, 5, 6, 7, 8, 9, 10}
      /\ (transfer > 5 => size \in Sizes) /\ toggle \in {0, 1}
  BY DEF AtTransfer, Reports
<1>1. CASE transfer = 1
  <2>1. TheList = SetAddressList /\ Last = 2 BY <1>1 DEF TheList, Last, List, Count, Reports
  <2> QED BY <1>1, <2>1, Sound1 DEF Reports
<1>2. CASE transfer = 2
  <2>1. TheList = DeviceDescriptor1List /\ Last = 3 BY <1>2 DEF TheList, Last, List, Count, Reports
  <2> QED BY <1>2, <2>1, Sound2 DEF Reports
<1>3. CASE transfer = 3
  <2>1. TheList = DeviceDescriptor2List /\ Last = 5 BY <1>3 DEF TheList, Last, List, Count, Reports
  <2> QED BY <1>3, <2>1, Sound3 DEF Reports
<1>4. CASE transfer = 4
  <2>1. TheList = ConfigDescriptor1List /\ Last = 4 BY <1>4 DEF TheList, Last, List, Count, Reports
  <2> QED BY <1>4, <2>1, Sound4 DEF Reports
<1>5. CASE transfer = 5
  <2>1. TheList = ConfigDescriptor2List /\ Last = 7 BY <1>5 DEF TheList, Last, List, Count, Reports
  <2> QED BY <1>5, <2>1, Sound5 DEF Reports
<1>6. CASE transfer = 6
  <2>1. TheList = SetConfigurationList /\ Last = 2 BY <1>6 DEF TheList, Last, List, Count, Reports
  <2> QED BY <1>6, <2>1, Sound6 DEF Reports
<1>7. CASE transfer = 7
  <2>1. TheList = SetIdleList /\ Last = 2 BY <1>7 DEF TheList, Last, List, Count, Reports
  <2> QED BY <1>7, <2>1, Sound7 DEF Reports
<1>8. CASE transfer = 8
  <2>1. TheList = ClassDescriptor21List /\ Last = 3 BY <1>8 DEF TheList, Last, List, Count, Reports
  <2> QED BY <1>8, <2>1, Sound8 DEF Reports
<1>9. CASE transfer = 9
  <2>1. TheList = ClassDescriptor22List /\ Last = 10 BY <1>9 DEF TheList, Last, List, Count, Reports
  <2> QED BY <1>9, <2>1, Sound9 DEF Reports
<1>10. CASE transfer = 10
  <2>1. size \in Sizes /\ toggle \in {0, 1} BY <1>0, <1>10
  <2>2. TheList = ReportList(size, toggle) /\ Last = 1 BY <1>10 DEF TheList, Last, List, Count, Reports
  <2>3. ReportList(size, toggle)[1] = \h051C BY DEF ReportList
  <2> QED BY <1>10, <2>1, <2>2, <2>3, Sound10 DEF Reports
<1> HIDE DEF Goal
<1> QED
  <2>1. Goal BY <1>0, <1>1, <1>2, <1>3, <1>4, <1>5, <1>6, <1>7, <1>8, <1>9, <1>10 DEF Goal
  <2> QED BY <2>1 DEF Goal

LEMMA NextLength ==
  ASSUME AtTransfer' PROVE Length' \in 6 .. 64
<1>0. /\ transfer' \in {1, 2, 3, 4, 5, 6, 7, 8, 9, 10}
      /\ (transfer' > 5 => size' \in Sizes) /\ toggle' \in {0, 1}
  BY DEF AtTransfer, Reports
<1>1. CASE transfer' = 1
  <2>1. TheList' = SetAddressList BY <1>1 DEF TheList, List, Reports
  <2> QED BY <2>1, Sound1, SoundLength DEF Length
<1>2. CASE transfer' = 2
  <2>1. TheList' = DeviceDescriptor1List BY <1>2 DEF TheList, List, Reports
  <2> QED BY <2>1, Sound2, SoundLength DEF Length
<1>3. CASE transfer' = 3
  <2>1. TheList' = DeviceDescriptor2List BY <1>3 DEF TheList, List, Reports
  <2> QED BY <2>1, Sound3, SoundLength DEF Length
<1>4. CASE transfer' = 4
  <2>1. TheList' = ConfigDescriptor1List BY <1>4 DEF TheList, List, Reports
  <2> QED BY <2>1, Sound4, SoundLength DEF Length
<1>5. CASE transfer' = 5
  <2>1. TheList' = ConfigDescriptor2List BY <1>5 DEF TheList, List, Reports
  <2> QED BY <2>1, Sound5, SoundLength DEF Length
<1>6. CASE transfer' = 6
  <2>1. TheList' = SetConfigurationList BY <1>6 DEF TheList, List, Reports
  <2> QED BY <2>1, Sound6, SoundLength DEF Length
<1>7. CASE transfer' = 7
  <2>1. TheList' = SetIdleList BY <1>7 DEF TheList, List, Reports
  <2> QED BY <2>1, Sound7, SoundLength DEF Length
<1>8. CASE transfer' = 8
  <2>1. TheList' = ClassDescriptor21List BY <1>8 DEF TheList, List, Reports
  <2> QED BY <2>1, Sound8, SoundLength DEF Length
<1>9. CASE transfer' = 9
  <2>1. TheList' = ClassDescriptor22List BY <1>9 DEF TheList, List, Reports
  <2> QED BY <2>1, Sound9, SoundLength DEF Length
<1>10. CASE transfer' = 10
  <2>1. size' \in Sizes /\ toggle' \in {0, 1} BY <1>0, <1>10
  <2>2. TheList' = ReportList(size', toggle') BY <1>10 DEF TheList, List, Reports
  <2>3. Sound(ReportList(size', toggle'), 1) BY <2>1, Sound10
  <2> QED BY <2>2, <2>3, SoundLength DEF Length
<1> QED BY <1>0, <1>1, <1>2, <1>3, <1>4, <1>5, <1>6, <1>7, <1>8, <1>9, <1>10

LEMMA SameList ==
  ASSUME UNCHANGED <<transfer, size, toggle>> 
  PROVE  TheList' = TheList /\ Length' = Length /\ Last' = Last /\ (AtTransfer => AtTransfer')
<1>1. TheList' = TheList BY DEF TheList, List
<1>2. Last' = Last BY DEF Last
<1>3. Length' = Length BY <1>1 DEF Length
<1> QED BY <1>1, <1>2, <1>3 DEF AtTransfer

(***************************************************************************)
(* The invariant.  What the chip may do while main() writes decides which  *)
(* words can be relied on: nothing runs while a list is first written, and *)
(* what main() writes over it later are the same words (Contents).         *)
(***************************************************************************)
AtRest == ~given /\ walk = 0

Quiet ==
  /\ list_pc \in {"write", "point"} /\ ~again => AtRest /\ ~SIE1msg
  /\ list_pc = "look" /\ (again \/ SIE1msg) => AtRest
  /\ list_pc = "check" => AtRest /\ ~SIE1msg

Flags ==
  /\ list_pc \in {"write", "point", "sleep", "look", "check"}
  /\ again \in BOOLEAN /\ given \in BOOLEAN /\ SIE1msg \in BOOLEAN /\ data1 \in BOOLEAN
  /\ word \in 1 .. Length /\ (list_pc # "write" => word = 1)
  /\ Memory \subseteq DOMAIN mem

Written(k) == mem[Place(k)] = TheList[k]
Agrees(k) == Written(k) \/ (k \in Controls(Last) /\ mem[Place(k)] \in {0, Done})
Standing == again \/ list_pc # "write"

Contents ==
  /\ Standing => \A k \in 1 .. Length : Agrees(k)
  /\ list_pc = "write" /\ ~again => \A k \in 1 .. word - 1 : Written(k)
  /\ list_pc = "point" /\ ~again => Written(5)

\* The descriptor the chip is at, and the toggle it has last seen.
Walking ==
  walk # 0 => \E n \in 1 .. Last :
                /\ walk = Place(First(n))
                /\ n # 1 => (data1 <=> TheList[First(n - 1) + 3] = \h41)

\* What a first descriptor that was done says.
Said ==
  IF transfer < Reports THEN answered = transfer
  ELSE mem[\h051C] = Device /\ mem[\h051E] = Device
Truthful == Standing /\ mem[Place(5)] = Done => Said

ListInv == AtTransfer /\ Quiet /\ Flags /\ Contents /\ Walking /\ Truthful

\* Arithmetic of the places.
LEMMA PlacesApart ==
  /\ \A k, m \in Nat : Place(k) = Place(m) => k = m
  /\ \A k \in Nat \ {0} : Place(k) >= Base /\ Place(k) \in Nat
  /\ \A k \in 1 .. 94 : Place(k) \in Memory
  /\ Place(1) = Base /\ Place(15) = \h051C /\ Place(16) = \h051E
  BY DEF Place, Base, Memory

LEMMA Firsts ==
  ASSUME NEW n \in 1 .. 10, NEW m \in 1 .. 10
  PROVE  /\ First(n) \in Nat \ {0} /\ First(n) <= 59
         /\ \A j \in {0, 1, 2, 3, 5} : First(n) + j # First(m) + 4
         /\ n # m => First(n) # First(m)
  BY DEF First

\* The words of a descriptor are words of the list.
LEMMA WordsOfDescriptor ==
  ASSUME AtTransfer, NEW n \in 1 .. Last
  PROVE  /\ Last \in 1 .. 10 /\ Length \in 6 .. 64
         /\ \A j \in 0 .. 5 : First(n) + j \in 1 .. Length
         /\ First(n) + 4 \in Controls(Last)
         /\ \A j \in {0, 1, 2, 3, 5} : First(n) + j \notin Controls(Last)
<1>1. Sound(TheList, Last) BY ListSound
<1>2. Last \in 1 .. 10 /\ Length = IF Last = 1 THEN 6 ELSE 6 * Last + 4 BY <1>1, SoundLength DEF Length
<1>3. \A j \in 0 .. 5 : First(n) + j \in 1 .. Length BY <1>2 DEF First
<1>4. \A j \in {0, 1, 2, 3, 5} : First(n) + j \notin Controls(Last)
  <2> SUFFICES ASSUME NEW j \in {0, 1, 2, 3, 5}, First(n) + j \in Controls(Last) PROVE FALSE
    OBVIOUS
  <2>1. PICK m \in 1 .. Last : First(n) + j = First(m) + 4 BY DEF Controls
  <2>2. n \in 1 .. 10 /\ m \in 1 .. 10 BY <1>2
  <2> QED BY <2>1, <2>2, Firsts
<1>5. First(n) + 4 \in Controls(Last) BY DEF Controls
<1>6. Length \in 6 .. 64 BY <1>1, SoundLength DEF Length
<1> QED BY <1>2, <1>3, <1>4, <1>5, <1>6

\* What the chip finds in a descriptor is what main() wrote, the control word
\* apart.
LEMMA FieldsAreWords ==
  ASSUME AtTransfer, \A k \in 1 .. Length : Agrees(k), NEW n \in 1 .. Last, walk = Place(First(n))
  PROVE  /\ Field(1) = TheList[First(n)] /\ Field(2) = TheList[First(n) + 1]
         /\ Field(3) = TheList[First(n) + 2] /\ Field(4) = TheList[First(n) + 3]
         /\ Field(6) = TheList[First(n) + 5]
         /\ Field(5) \in {Active, 0, Done}
         /\ Kind = TokenKind(TheList[First(n) + 2])
<1> DEFINE h == First(n)
<1>1. n \in 1 .. 10 /\ h \in Nat /\ \A j \in 0 .. 5 : h + j \in 1 .. Length
  <2>1. Last \in 1 .. 10 /\ \A j \in 0 .. 5 : First(n) + j \in 1 .. Length BY WordsOfDescriptor
  <2>2. n \in 1 .. 10 BY <2>1
  <2> QED BY <2>1, <2>2, Firsts
<1>2. h + 4 \in Controls(Last) /\ \A j \in {0, 1, 2, 3, 5} : h + j \notin Controls(Last)
  BY WordsOfDescriptor
<1> HIDE DEF h
<1>3. walk = Place(h) BY DEF h
<1>4. \A j \in {1, 2, 3, 4, 5, 6} : Field(j) = mem[Place(h + (j - 1))]
  BY <1>1, <1>3 DEF Field, Place, Base
<1>5. \A j \in {0, 1, 2, 3, 5} : mem[Place(h + j)] = TheList[h + j]
  BY <1>1, <1>2 DEF Agrees, Written
<1>6. \A j \in {1, 2, 3, 4, 6} : Field(j) = TheList[h + (j - 1)]
  BY <1>4, <1>5
<1>7. Field(5) \in {Active, 0, Done}
  <2>1. TheList[h + 4] = Active BY ListSound DEF Sound, Shaped, h
  <2>2. Agrees(h + 4) BY <1>1
  <2>3. Field(5) = mem[Place(h + 4)] BY <1>4
  <2> QED BY <2>1, <2>2, <2>3 DEF Agrees, Written
<1>8. /\ Field(1) = TheList[h] /\ Field(2) = TheList[h + 1] /\ Field(3) = TheList[h + 2]
      /\ Field(4) = TheList[h + 3] /\ Field(6) = TheList[h + 5]
  BY <1>1, <1>6
<1> QED BY <1>7, <1>8 DEF Kind, TokenKind, h

(***************************************************************************)
(* Step by step.  Most steps leave the transfer, and so its list, alone.   *)
(***************************************************************************)
Stays ==
  /\ TheList' = TheList /\ Length' = Length /\ Last' = Last
  /\ Controls(Last)' = Controls(Last) /\ AtTransfer'

LEMMA Lasting ==
  ASSUME ListInv, UNCHANGED <<transfer, size, toggle>>
  PROVE  Stays /\ Length \in 6 .. 64 /\ Last \in 1 .. 10
<1>1. Sound(TheList, Last) BY ListSound DEF ListInv
<1>2. TheList' = TheList /\ Length' = Length /\ Last' = Last /\ AtTransfer' BY SameList DEF ListInv
<1>3. Length \in 6 .. 64 /\ Last \in 1 .. 10 BY <1>1, SoundLength DEF Length
<1>4. Controls(Last)' = Controls(Last) BY <1>2
<1> QED BY <1>2, <1>3, <1>4 DEF Stays

LEMMA ListBegins ==
  ASSUME ListInit PROVE ListInv
<1> USE DEF ListInit
<1>1. AtTransfer BY DEF AtTransfer, Reports
<1>2. Length \in 6 .. 64 BY <1>1, ListSound, SoundLength DEF Length
<1>3. Quiet BY DEF Quiet, AtRest
<1>4. Flags
  <2>1. word \in 1 .. Length BY <1>2
  <2>2. Memory \subseteq DOMAIN mem OBVIOUS
  <2>3. again \in BOOLEAN /\ given \in BOOLEAN /\ SIE1msg \in BOOLEAN /\ data1 \in BOOLEAN BY Zenon
  <2> QED BY <2>1, <2>2, <2>3 DEF Flags
<1>5. Contents /\ Walking /\ Truthful BY DEF Contents, Walking, Truthful, Standing
<1> QED BY <1>1, <1>3, <1>4, <1>5 DEF ListInv

LEMMA WriteWordKeeps ==
  ASSUME ListInv, WriteWord PROVE ListInv'
<1> USE DEF Stays
<1>0. /\ list_pc = "write" /\ mem' = [mem EXCEPT ![Place(word)] = TheList[word]]
      /\ IF word = Length THEN list_pc' = "point" /\ word' = 1 ELSE list_pc' = "write" /\ word' = word + 1
  BY DEF WriteWord, TheList, Length
<1>1. UNCHANGED <<transfer, size, toggle, again, given, walk, SIE1msg, answered, asked, data1, failed>>
  BY DEF WriteWord, wire
<1>2. Stays /\ Length \in 6 .. 64
  BY <1>1, Lasting
<1>3. word \in 1 .. Length /\ word \in 1 .. 94 /\ Memory \subseteq DOMAIN mem
  <2>1. word \in 1 .. Length /\ Memory \subseteq DOMAIN mem BY DEF ListInv, Flags
  <2> QED BY <2>1, <1>2
<1>4. DOMAIN mem' = DOMAIN mem /\ mem'[Place(word)] = TheList[word]
  <2>1. Place(word) \in DOMAIN mem BY <1>3, PlacesApart
  <2> QED BY <2>1, <1>0
<1>5. \A a \in DOMAIN mem : a # Place(word) => mem'[a] = mem[a]
  BY <1>0
<1>6. \A k \in 1 .. 94 : k # word => mem'[Place(k)] = mem[Place(k)]
  BY <1>3, <1>5, PlacesApart
<1>7. \/ word = Length /\ list_pc' = "point" /\ word' = 1
      \/ word # Length /\ list_pc' = "write" /\ word' = word + 1
  BY <1>0
<1>8. Quiet' BY <1>0, <1>1, <1>7 DEF ListInv, Quiet, AtRest
<1>9. Flags'
  <2>1. word' \in 1 .. Length /\ (list_pc' # "write" => word' = 1) /\ list_pc' \in {"write", "point"}
    BY <1>2, <1>3, <1>7
  <2>2. Memory \subseteq DOMAIN mem' BY <1>3, <1>4
  <2> QED BY <1>1, <1>2, <2>1, <2>2 DEF ListInv, Flags
<1>10. Contents'
  <2>1. ASSUME NEW k \in 1 .. Length, Agrees(k) \/ k = word PROVE Agrees(k)'
    BY <1>2, <1>4, <1>6, <2>1 DEF Agrees, Written
  <2>2. ASSUME NEW k \in 1 .. Length, Written(k) \/ k = word PROVE Written(k)'
    BY <1>2, <1>4, <1>6, <2>2 DEF Written
  <2>3. ~again => \A k \in 1 .. word - 1 : Written(k) BY <1>0 DEF ListInv, Contents
  <2>4. again => \A k \in 1 .. Length : Agrees(k) BY DEF ListInv, Contents, Standing
  <2>5. CASE again
    <3>1. \A k \in 1 .. Length : Agrees(k)' BY <2>1, <2>4, <2>5
    <3> QED BY <3>1, <1>1, <1>2, <2>5 DEF Contents
  <2>6. CASE ~again
    <3>1. ASSUME NEW k \in 1 .. word PROVE Written(k)'
      <4>1. k \in 1 .. Length /\ (k \in 1 .. word - 1 \/ k = word) BY <1>2, <1>3
      <4> QED BY <4>1, <2>2, <2>3, <2>6
    <3>2. \A k \in 1 .. word : Agrees(k)' /\ Written(k)' BY <3>1 DEF Agrees
    <3> QED BY <3>2, <1>1, <1>2, <1>3, <1>7, <2>6 DEF Contents, Standing
  <2> QED BY <2>5, <2>6
<1>11. Walking' BY <1>1, <1>2 DEF ListInv, Walking
<1>12. Truthful'
  <2>1. Written(5)' /\ TheList[5] = Active => mem'[Place(5)] # Done BY <1>2 DEF Written, Active, Done
  <2>2. TheList[5] = Active BY ListSound DEF ListInv, Sound, Shaped, First
  <2>3. transfer = Reports => mem'[\h051C] = mem[\h051C] /\ mem'[\h051E] = mem[\h051E]
    <3>1. transfer = Reports => Length = 6 BY ListSound, SoundLength DEF ListInv, Length
    <3> QED BY <3>1, <1>3, <1>6, PlacesApart
  <2>4. Said => Said' BY <1>1, <2>3 DEF Said, ListInv, AtTransfer, Reports
  <2>5. CASE again
    <3>1. mem'[Place(5)] = Done => mem[Place(5)] = Done
      BY <1>3, <1>4, <1>6, <2>2 DEF Active, Done
    <3> QED BY <1>1, <2>4, <2>5, <3>1 DEF ListInv, Truthful, Standing
  <2>6. CASE ~again /\ list_pc' = "write" BY <1>1, <2>6 DEF Truthful, Standing
  <2>7. CASE ~again /\ list_pc' = "point"
    BY <1>1, <1>10, <2>1, <2>2, <2>7 DEF Contents, Truthful
  <2> QED BY <1>7, <2>5, <2>6, <2>7
<1> QED BY <1>2, <1>8, <1>9, <1>10, <1>11, <1>12 DEF ListInv

\* The steps of main() that write no word of the list.
LEMMA LooksKeep ==
  ASSUME ListInv, Point \/ WakeUp \/ WriteAgain \/ Message PROVE ListInv'
<1> USE DEF Stays
<1> USE DEF Point, WakeUp, WriteAgain, Message
<1>1. UNCHANGED <<transfer, size, toggle, word, mem, walk, wire>> BY DEF chip, wire
<1>2. Stays /\ Length \in 6 .. 64
  BY <1>1, Lasting
<1>3. list_pc \in {"point", "sleep", "look"} /\ list_pc' \in {"write", "look", "sleep", "check"}
      /\ (list_pc' = "write" => again')
  OBVIOUS
<1>4. Standing /\ Standing' BY <1>3 DEF Standing
<1>5. Flags' BY <1>1, <1>2 DEF ListInv, Flags, chip, wire
<1>6. Quiet' BY DEF ListInv, Flags, Quiet, AtRest, chip
<1>7. Contents'
  <2>1. \A k \in 1 .. Length : Agrees(k)' BY <1>1, <1>2, <1>4 DEF ListInv, Contents, Agrees, Written
  <2> QED BY <1>2, <1>3, <2>1 DEF Contents
<1>8. Walking' BY <1>1, <1>2 DEF ListInv, Walking, wire
<1>9. Truthful' BY <1>1, <1>4 DEF ListInv, Truthful, Said, wire
<1> QED BY <1>2, <1>5, <1>6, <1>7, <1>8, <1>9 DEF ListInv

\* main() begins a list only when the chip is at rest.
LEMMA ChecksKeep ==
  ASSUME ListInv, Passed \/ Failed PROVE ListInv'
<1> USE DEF Stays
<1>1. list_pc = "check" /\ UNCHANGED <<mem, given, walk, SIE1msg, wire>>
  BY DEF Passed, Failed, chip
<1>2. AtRest /\ ~SIE1msg BY <1>1 DEF ListInv, Quiet
<1>3. CASE Failed /\ transfer # 1
  <2>1. UNCHANGED listVars BY <1>3 DEF Failed, listVars, main, chip, wire
  <2>2. UNCHANGED <<transfer, size, toggle>> BY <2>1 DEF listVars, main
  <2>3. Stays BY <2>2, Lasting
  <2> QED BY <2>1, <2>3 DEF listVars, main, chip, wire, ListInv, Quiet, AtRest, Flags, Contents,
                            Standing, Agrees, Written, Walking, Truthful, Said
<1>4. CASE ~(Failed /\ transfer # 1)
  <2>1. list_pc' = "write" /\ word' = 1 /\ again' = FALSE BY <1>4 DEF Passed, Failed, BeginList
  <2>2. AtTransfer'
    BY <1>4 DEF Passed, Failed, BeginList, ListInv, AtTransfer, Reports
  <2>3. Length' \in 6 .. 64 BY <2>2, NextLength
  <2>4. Quiet' BY <1>1, <1>2, <2>1 DEF Quiet, AtRest
  <2>5. Flags'
    <3>1. word' \in 1 .. Length' BY <2>1, <2>3
    <3> QED BY <1>1, <2>1, <3>1 DEF ListInv, Flags, wire
  <2>6. Contents' BY <2>1 DEF Contents, Standing
  <2>7. Walking' BY <1>1, <1>2 DEF Walking, AtRest
  <2>8. Truthful' BY <2>1 DEF Truthful, Standing
  <2> QED BY <2>2, <2>4, <2>5, <2>6, <2>7, <2>8 DEF ListInv
<1> QED BY <1>3, <1>4

LEMMA StartKeeps ==
  ASSUME ListInv, Start PROVE ListInv'
<1> USE DEF Stays
<1> USE DEF Start
<1>1. UNCHANGED <<transfer, size, toggle, word, again, list_pc, mem, given, SIE1msg, wire>> BY DEF main
<1>2. Stays /\ Last \in 1 .. 10
  BY <1>1, Lasting
<1>3. Flags' BY <1>1, <1>2 DEF ListInv, Flags, wire
<1>4. Quiet' BY <1>1 DEF ListInv, Quiet, AtRest
<1>5. Contents' BY <1>1, <1>2 DEF ListInv, Contents, Standing, Agrees, Written
<1>6. Walking'
  <2>1. 1 \in 1 .. Last' /\ walk' = Place(First(1)) BY <1>2, PlacesApart DEF First
  <2> QED BY <2>1 DEF Walking
<1>7. Truthful' BY <1>1 DEF ListInv, Truthful, Standing, Said, wire
<1> QED BY <1>2, <1>3, <1>4, <1>5, <1>6, <1>7 DEF ListInv

\* main() writes numbers, and answers are stored behind them.
LEMMA WordsAreNumbers ==
  ASSUME AtTransfer PROVE \A k \in 1 .. Length : TheList[k] \in Nat
<1>1. TheList \in Seq(Nat) BY ListSound DEF Sound, Shaped
<1> QED BY <1>1, ElementOfSeq DEF Length

LEMMA BufferBeside ==
  ASSUME AtTransfer, \A k \in 1 .. Length : Agrees(k), NEW n \in 1 .. Last, walk = Place(First(n)),
         Kind = 9, NEW a \in Buffer
  PROVE  \A k \in 1 .. Length : a # Place(k)
<1>1. First(n) \in 1 .. Length /\ First(n) + 1 \in 1 .. Length /\ Length \in 6 .. 64
  <2>1. \A j \in 0 .. 5 : First(n) + j \in 1 .. Length BY WordsOfDescriptor
  <2>2. First(n) + 0 \in 1 .. Length /\ First(n) + 1 \in 1 .. Length BY <2>1
  <2>3. n \in 1 .. 10 /\ Length \in 6 .. 64 BY WordsOfDescriptor
  <2>4. First(n) \in Nat BY <2>3, Firsts
  <2> QED BY <2>2, <2>3, <2>4
<1>2. /\ Field(1) = TheList[First(n)] /\ Field(2) = TheList[First(n) + 1]
      /\ Kind = TokenKind(TheList[First(n) + 2])
  BY FieldsAreWords
<1>3. Field(1) \in Nat /\ Field(2) \in Nat BY <1>1, <1>2, WordsAreNumbers
<1>4. Field(2) = 0 \/ Field(1) > Place(Length)
  <2>1. Asks(TheList, Last) BY ListSound DEF Sound
  <2> QED BY <1>2, <2>1 DEF Asks, Length
<1>5. PICK k \in 0 .. (Field(2) + 1) \div 2 - 1 : a = Field(1) + 2 * k BY DEF Buffer
<1>6. Field(2) # 0 BY <1>5
<1>7. a > Place(Length) /\ a \in Nat BY <1>1, <1>3, <1>4, <1>5, <1>6 DEF Place, Base
<1> QED BY <1>1, <1>7 DEF Place, Base

LEMMA AnswerStored ==
  ASSUME NEW ok \in BOOLEAN
  PROVE  /\ DOMAIN mem \subseteq DOMAIN Answered(ok)
         /\ \A a \in DOMAIN mem :
              Answered(ok)[a] = IF ok /\ Kind = 9 /\ a \in Buffer THEN Device ELSE mem[a]
<1>1. CASE ok /\ Kind = 9
  <2>1. Answered(ok) = [a \in DOMAIN mem \cup Buffer |-> IF a \in Buffer THEN Device ELSE mem[a]]
    BY <1>1 DEF Answered
  <2> QED BY <1>1, <2>1
<1>2. CASE ~(ok /\ Kind = 9)
  <2>1. Answered(ok) = mem BY <1>2 DEF Answered
  <2> QED BY <1>2, <2>1
<1> QED BY <1>1, <1>2

\* What a step of the chip finds and leaves.
LEMMA RunFacts ==
  ASSUME ListInv, NEW ok \in BOOLEAN, RunDescriptor(ok)
  PROVE  /\ Standing /\ list_pc # "check" /\ ~(list_pc = "look" /\ (again \/ SIE1msg))
         /\ ~(list_pc \in {"write", "point"} /\ ~again)
         /\ \A k \in 1 .. Length : Agrees(k)
         /\ \E n \in 1 .. Last :
              /\ walk = Place(First(n))
              /\ n # 1 => (data1 <=> TheList[First(n - 1) + 3] = \h41)
<1>1. walk # 0 BY DEF RunDescriptor
<1>2. /\ list_pc # "check" /\ ~(list_pc = "look" /\ (again \/ SIE1msg))
      /\ ~(list_pc \in {"write", "point"} /\ ~again)
  BY <1>1 DEF ListInv, Quiet, AtRest
<1>3. Standing BY <1>2 DEF Standing
<1> QED BY <1>1, <1>2, <1>3 DEF ListInv, Contents, Walking

LEMMA RunDescriptorKeeps ==
  ASSUME ListInv, NEW ok \in BOOLEAN, RunDescriptor(ok) PROVE ListInv'
<1> USE DEF Stays
<1>1. /\ UNCHANGED <<transfer, size, toggle, list_pc, word, again>>
      /\ mem' = [Answered(ok) EXCEPT ![walk + 8] = IF ok THEN Done ELSE 0]
      /\ data1' = (Field(4) = \h41)
      /\ IF Kind = 13 THEN answered' = IF ok THEN transfer ELSE answered ELSE answered' = answered
  BY DEF RunDescriptor, main
<1>2. Stays /\ AtTransfer /\ Length \in 6 .. 64 /\ Last \in 1 .. 10
  BY <1>1, Lasting DEF ListInv
<1>3. /\ Standing /\ list_pc # "check" /\ ~(list_pc = "look" /\ (again \/ SIE1msg))
      /\ ~(list_pc \in {"write", "point"} /\ ~again)
      /\ \A k \in 1 .. Length : Agrees(k)
  BY RunFacts
<1>4. PICK n \in 1 .. Last : walk = Place(First(n)) BY RunFacts
<1>5. /\ Field(4) = TheList[First(n) + 3] /\ Field(6) = TheList[First(n) + 5]
      /\ Kind = TokenKind(TheList[First(n) + 2])
  BY <1>2, <1>3, <1>4, FieldsAreWords
<1>6. n \in 1 .. 10 /\ First(n) \in Nat /\ First(n) + 4 \in 1 .. Length /\ First(n) + 4 \in Controls(Last)
  <2>1. \A j \in 0 .. 5 : First(n) + j \in 1 .. Length BY <1>2, WordsOfDescriptor
  <2>2. First(n) + 4 \in 1 .. Length BY <2>1
  <2>3. n \in 1 .. 10 BY <1>2
  <2> QED BY <1>2, <2>2, <2>3, WordsOfDescriptor, Firsts
<1>7. walk + 8 = Place(First(n) + 4) BY <1>4, <1>6 DEF Place, Base
<1>8. Memory \subseteq DOMAIN mem /\ \A k \in 1 .. 94 : Place(k) \in DOMAIN mem
  <2>1. Memory \subseteq DOMAIN mem BY DEF ListInv, Flags
  <2> QED BY <2>1, PlacesApart
<1>9. /\ DOMAIN mem' = DOMAIN Answered(ok) /\ DOMAIN mem \subseteq DOMAIN Answered(ok)
      /\ mem'[Place(First(n) + 4)] = IF ok THEN Done ELSE 0
      /\ \A a \in DOMAIN mem : a # Place(First(n) + 4) =>
           mem'[a] = IF ok /\ Kind = 9 /\ a \in Buffer THEN Device ELSE mem[a]
  <2>1. First(n) + 4 \in 1 .. 94 BY <1>2, <1>6
  <2>2. Place(First(n) + 4) \in DOMAIN mem BY <2>1, <1>8
  <2> QED BY <1>1, <1>7, <2>2, AnswerStored
<1>10. \A k \in 1 .. Length : k # First(n) + 4 => mem'[Place(k)] = mem[Place(k)]
  <2> SUFFICES ASSUME NEW k \in 1 .. Length, k # First(n) + 4 PROVE mem'[Place(k)] = mem[Place(k)]
    OBVIOUS
  <2>1. k \in 1 .. 94 /\ k \in Nat BY <1>2
  <2>2. Place(k) # Place(First(n) + 4) /\ Place(k) \in DOMAIN mem
    <3>1. First(n) + 4 \in Nat BY <1>6
    <3>2. Place(k) # Place(First(n) + 4) BY <2>1, <3>1, PlacesApart
    <3> QED BY <1>8, <2>1, <3>2
  <2>3. Kind = 9 => Place(k) \notin Buffer BY <1>2, <1>3, <1>4, BufferBeside
  <2> QED BY <1>9, <2>2, <2>3
<1>11. Quiet'
  <2>1. list_pc' = list_pc /\ again' = again BY <1>1
  <2>2. (walk' = 0 /\ given' = FALSE /\ SIE1msg' = TRUE) \/ UNCHANGED <<given, SIE1msg>>
    BY DEF RunDescriptor
  <2> QED BY <1>3, <2>1, <2>2 DEF Quiet, AtRest
<1>12. Flags'
  <2>1. given' \in BOOLEAN /\ SIE1msg' \in BOOLEAN BY DEF RunDescriptor, ListInv, Flags
  <2>2. data1' \in BOOLEAN BY <1>1
  <2>3. Memory \subseteq DOMAIN mem' BY <1>8, <1>9
  <2> QED BY <1>1, <1>2, <2>1, <2>2, <2>3 DEF ListInv, Flags
<1>13. Contents'
  <2>1. ASSUME NEW k \in 1 .. Length PROVE Agrees(k)'
    <3>1. CASE k = First(n) + 4
      <4>1. mem'[Place(k)] \in {0, Done} BY <1>9, <3>1
      <4> QED BY <1>2, <1>6, <3>1, <4>1 DEF Agrees
    <3>2. CASE k # First(n) + 4
      <4>1. mem'[Place(k)] = mem[Place(k)] BY <1>10, <3>2
      <4>2. Agrees(k) BY <1>3
      <4> QED BY <1>2, <4>1, <4>2 DEF Agrees, Written
    <3> QED BY <3>1, <3>2
  <2>2. \A k \in 1 .. Length' : Agrees(k)' BY <1>2, <2>1
  <2>3. ~(list_pc' \in {"write", "point"} /\ ~again') BY <1>1, <1>3
  <2> QED BY <2>2, <2>3 DEF Contents
<1>14. Walking'
  <2> SUFFICES ASSUME walk' # 0 PROVE Walking' BY DEF Walking
  <2>1. walk' = Field(6) /\ Field(6) # 0 BY DEF RunDescriptor
  <2>2. TheList[First(n) + 5] = IF n = Last THEN 0 ELSE Place(First(n + 1))
    BY <1>2, ListSound DEF Sound, Shaped
  <2>3. n # Last /\ walk' = Place(First(n + 1)) BY <1>5, <2>1, <2>2
  <2>4. n + 1 \in 1 .. Last /\ (n + 1) - 1 = n BY <1>2, <2>3
  <2>5. data1' <=> TheList[First(n) + 3] = \h41 BY <1>1, <1>5
  <2>6. /\ n + 1 \in 1 .. Last' /\ walk' = Place(First(n + 1))
        /\ data1' <=> TheList'[First((n + 1) - 1) + 3] = \h41
    BY <1>2, <2>3, <2>4, <2>5
  <2> QED BY <2>6 DEF Walking
<1>15. Truthful'
  <2> SUFFICES ASSUME mem'[Place(5)] = Done PROVE Said' BY DEF Truthful
  <2>1. /\ transfer' = transfer /\ transfer \in 1 .. Reports /\ (transfer = Reports <=> Last = 1)
        /\ transfer = Reports => TheList[1] = \h051C /\ TheList[2] >= 3
        /\ Asks(TheList, Last)
    BY <1>1, <1>2, ListSound DEF AtTransfer, Sound
  <2>2. CASE n = 1
    <3>1. First(n) + 4 = 5 /\ First(n) + 2 = 3 /\ First(n) = 1 BY <2>2 DEF First
    <3>2. ok BY <1>9, <3>1 DEF Done
    <3>3. CASE transfer = Reports
      <4>1. Kind = 9 BY <1>5, <2>1, <3>1, <3>3 DEF Asks
      <4>2. Field(1) = \h051C /\ Field(2) = TheList[2]
        <5>1. Field(1) = TheList[First(n)] /\ Field(2) = TheList[First(n) + 1]
          BY <1>2, <1>3, <1>4, FieldsAreWords
        <5> QED BY <5>1, <2>1, <3>1, <3>3
      <4>3. TheList[2] \in Nat /\ TheList[2] >= 3 BY <1>2, <2>1, <3>3, WordsAreNumbers
      <4>4. \h051C \in Buffer /\ \h051E \in Buffer
        <5>1. 0 \in 0 .. (Field(2) + 1) \div 2 - 1 /\ 1 \in 0 .. (Field(2) + 1) \div 2 - 1
          BY <4>2, <4>3
        <5>2. \h051C = Field(1) + 2 * 0 /\ \h051E = Field(1) + 2 * 1 BY <4>2
        <5> QED BY <5>1, <5>2 DEF Buffer
      <4>5. /\ \h051C \in DOMAIN mem /\ \h051E \in DOMAIN mem
            /\ \h051C # Place(First(n) + 4) /\ \h051E # Place(First(n) + 4)
        BY <1>8, <3>1, PlacesApart
      <4>6. ASSUME NEW a \in {\h051C, \h051E} PROVE mem'[a] = Device
        <5>1. a \in Buffer /\ a \in DOMAIN mem /\ a # Place(First(n) + 4) BY <4>4, <4>5
        <5>2. mem'[a] = IF ok /\ Kind = 9 /\ a \in Buffer THEN Device ELSE mem[a] BY <1>9, <5>1
        <5> QED BY <3>2, <4>1, <5>1, <5>2
      <4> QED BY <2>1, <3>3, <4>6 DEF Said, Reports
    <3>4. CASE transfer # Reports
      <4>1. Last > 1 BY <1>2, <2>1, <3>4
      <4>2. Kind = 13 BY <1>5, <2>1, <2>2, <4>1 DEF Asks
      <4>3. answered' = transfer BY <1>1, <3>2, <4>2
      <4> QED BY <2>1, <3>4, <4>3 DEF Said, Reports
    <3> QED BY <3>3, <3>4
  <2>3. CASE n # 1
    <3>1. First(n) + 4 # 5 BY <1>6, <2>3 DEF First
    <3>2. mem[Place(5)] = Done BY <1>2, <1>10, <3>1
    <3>3. Said BY <1>3, <3>2 DEF ListInv, Truthful
    <3>4. Last # 1 BY <1>2, <2>3
    <3>5. transfer < Reports BY <2>1, <3>4 DEF Reports
    <3>6. Kind # 13 BY <1>5, <2>1, <2>3 DEF Asks
    <3>7. answered' = answered BY <1>1, <3>6
    <3> QED BY <2>1, <3>3, <3>5, <3>7 DEF Said
  <2> QED BY <2>2, <2>3
<1> QED BY <1>2, <1>11, <1>12, <1>13, <1>14, <1>15 DEF ListInv

LEMMA ListStep == ListInv /\ [ListNext]_listVars => ListInv'
<1> USE DEF Stays
<1> SUFFICES ASSUME ListInv, [ListNext]_listVars PROVE ListInv'
  OBVIOUS
<1>1. CASE WriteWord BY <1>1, WriteWordKeeps
<1>2. CASE Point \/ WakeUp \/ WriteAgain \/ Message BY <1>2, LooksKeep
<1>3. CASE Passed \/ Failed BY <1>3, ChecksKeep
<1>4. CASE Start BY <1>4, StartKeeps
<1>5. CASE \E ok \in BOOLEAN : RunDescriptor(ok) BY <1>5, RunDescriptorKeeps
<1>6. CASE UNCHANGED listVars
  <2>1. UNCHANGED <<transfer, size, toggle>> BY <1>6 DEF listVars, main
  <2>2. Stays BY <2>1, Lasting
  <2> QED BY <1>6, <2>2 DEF listVars, main, chip, wire, ListInv, Quiet, AtRest, Flags, Contents,
                            Standing, Agrees, Written, Walking, Truthful, Said
<1> QED BY <1>1, <1>2, <1>3, <1>4, <1>5, <1>6 DEF ListNext, Chip

LEMMA InvListIsSafe == ListInv => ListIsSafe
<1> SUFFICES ASSUME ListInv PROVE ListIsSafe
  OBVIOUS
<1>1. AtTransfer /\ Last \in 1 .. 10 /\ Length \in 6 .. 64 /\ Length = IF Last = 1 THEN 6 ELSE 6 * Last + 4
  BY ListSound, SoundLength DEF ListInv, Length
<1>2. Sound(TheList, Last) BY <1>1, ListSound
<1>3. list_pc \in {"look", "sleep", "check"} \/ walk # 0 => \A k \in 1 .. Length : Agrees(k)
  BY DEF ListInv, Quiet, AtRest, Contents, Standing, Flags
<1>4. WalkStaysInList
  <2> SUFFICES ASSUME walk # 0
               PROVE  /\ walk \in {Base} \cup {\h0514 + 12 * k : k \in 0 .. 9}
                      /\ walk < Place(Length)
                      /\ \A k \in 1 .. 6 : Field(k) \notin {Device, Unknown}
    BY DEF WalkStaysInList, TheList, Length
  <2>1. PICK n \in 1 .. Last : walk = Place(First(n)) BY DEF ListInv, Walking
  <2>2. walk \in {Base} \cup {\h0514 + 12 * k : k \in 0 .. 9}
    <3>1. CASE n = 1 BY <2>1, <3>1 DEF Place, Base, First
    <3>2. CASE n # 1
      <4>1. n - 2 \in 0 .. 9 /\ walk = \h0514 + 12 * (n - 2) BY <1>1, <2>1, <3>2 DEF Place, Base, First
      <4> QED BY <4>1
    <3> QED BY <3>1, <3>2
  <2>3. walk < Place(Length) BY <1>1, <2>1 DEF Place, Base, First
  <2>4. \A j \in 0 .. 5 : First(n) + j \in 1 .. Length BY <1>1, WordsOfDescriptor
  <2>5. /\ Field(1) = TheList[First(n)] /\ Field(2) = TheList[First(n) + 1]
        /\ Field(3) = TheList[First(n) + 2] /\ Field(4) = TheList[First(n) + 3]
        /\ Field(6) = TheList[First(n) + 5] /\ Field(5) \in {Active, 0, Done}
    BY <1>1, <1>3, <2>1, FieldsAreWords
  <2>6. \A k \in 1 .. 6 : Field(k) \in Nat
    <3>1. /\ First(n) \in 1 .. Length /\ First(n) + 1 \in 1 .. Length /\ First(n) + 2 \in 1 .. Length
          /\ First(n) + 3 \in 1 .. Length /\ First(n) + 5 \in 1 .. Length
      BY <1>1, <2>4 DEF First
    <3>2. Field(1) \in Nat /\ Field(2) \in Nat /\ Field(3) \in Nat /\ Field(4) \in Nat /\ Field(6) \in Nat
      BY <1>1, <2>5, <3>1, WordsAreNumbers
    <3>3. Field(5) \in Nat BY <2>5 DEF Active, Done
    <3> QED BY <3>2, <3>3
  <2> QED BY <2>2, <2>3, <2>6, ListAssumption DEF OthersAreOthers
<1>5. AnswersBesideTheList
  <2> SUFFICES ASSUME list_pc \in {"look", "sleep", "check"}, NEW k \in 1 .. Length
               PROVE  mem[Place(k)] \in {TheList[k]} \cup (IF TheList[k] = Active THEN {0, Done} ELSE {})
    BY DEF AnswersBesideTheList, TheList, Length
  <2>1. Agrees(k) BY <1>3
  <2>2. k \in Controls(Last) => TheList[k] = Active BY <1>2 DEF Sound, Shaped, Controls
  <2> QED BY <2>1, <2>2 DEF Agrees, Written
<1>6. ReportIsRead BY DEF ReportIsRead, ListInv, Truthful, Standing, Said, Reports
<1> QED BY <1>4, <1>5, <1>6 DEF ListIsSafe

\* Whatever part of a list main() writes again while the chip follows it, and
\* whatever answers the device gives and fails: the chip follows no address but
\* those of the list's descriptors, no answer is stored over the list, and the
\* movement main() counts is what the device sent.
THEOREM ListsAreSafe == ListSpec => []ListIsSafe
<1>1. ListInit => ListInv BY ListBegins
<1> QED BY <1>1, ListStep, InvListIsSafe, PTL DEF ListSpec

\* Only a descriptor that is run sends a request or moves the chip on.
LEMMA OnlyRuns ==
  ASSUME [ListNext]_listVars, asked' # asked \/ (walk # 0 /\ walk' # walk)
  PROVE  \E ok \in BOOLEAN : RunDescriptor(ok)
  BY DEF ListNext, Chip, WriteWord, Point, WakeUp, WriteAgain, Message, Passed, Failed, Start, BeginList,
         listVars, main, chip, wire

LEMMA StepInOrder ==
  ASSUME ListInv, [ListNext]_listVars
  PROVE  /\ asked' # asked => asked' = SubSeq(TheList, 7, 10)
         /\ walk \notin {0, Base} /\ walk' # walk /\ Kind = 9 => data1' # data1
         /\ transfer < Reports /\ transfer' > transfer => answered = transfer
<1>1. AtTransfer /\ Last \in 1 .. 10 /\ Length \in 6 .. 64 /\ Length = IF Last = 1 THEN 6 ELSE 6 * Last + 4
  BY ListSound, SoundLength DEF ListInv, Length
<1>2. Asks(TheList, Last) BY <1>1, ListSound DEF Sound
<1>3. ASSUME NEW ok \in BOOLEAN, RunDescriptor(ok)
      PROVE  /\ asked' # asked => asked' = SubSeq(TheList, 7, 10)
             /\ walk \notin {0, Base} /\ Kind = 9 => data1' # data1
  <2>1. \A k \in 1 .. Length : Agrees(k) BY <1>3, RunFacts
  <2>2. PICK n \in 1 .. Last : /\ walk = Place(First(n))
                               /\ n # 1 => (data1 <=> TheList[First(n - 1) + 3] = \h41)
    BY <1>3, RunFacts
  <2>3. /\ Field(1) = TheList[First(n)] /\ Field(4) = TheList[First(n) + 3]
        /\ Kind = TokenKind(TheList[First(n) + 2])
    BY <1>1, <2>1, <2>2, FieldsAreWords
  <2>4. ASSUME asked' # asked PROVE asked' = SubSeq(TheList, 7, 10)
    <3>1. Kind = 13 /\ asked' = [k \in 1 .. 4 |-> mem[Field(1) + 2 * (k - 1)]]
      BY <1>3, <2>4 DEF RunDescriptor
    <3>2. n = 1 /\ Last > 1 BY <1>2, <2>3, <3>1 DEF Asks
    <3>3. Field(1) = Place(7) /\ Length >= 16 BY <1>1, <1>2, <2>3, <3>2 DEF Asks, First
    <3>4. ASSUME NEW k \in 1 .. 4 PROVE mem[Field(1) + 2 * (k - 1)] = TheList[6 + k]
      <4>1. Field(1) + 2 * (k - 1) = Place(6 + k) BY <3>3 DEF Place, Base
      <4>2. 6 + k \in 1 .. Length BY <1>1, <3>3
      <4>3. 6 + k \notin Controls(Last) BY <1>1 DEF Controls, First
      <4> QED BY <2>1, <4>1, <4>2, <4>3 DEF Agrees, Written
    <3>5. TheList \in Seq(Nat) /\ Len(TheList) >= 10 BY <1>1, <3>3, ListSound DEF Sound, Shaped, Length
    <3>6. SubSeq(TheList, 7, 10) = [k \in 1 .. 4 |-> TheList[6 + k]] BY <3>5
    <3> QED BY <3>1, <3>4, <3>6
  <2>5. ASSUME walk # Base, Kind = 9 PROVE data1' # data1
    <3>1. n # 1 BY <2>2, <2>5, PlacesApart DEF First
    <3>2. (TheList[First(n) + 3] = \h41) # (TheList[First(n - 1) + 3] = \h41)
      <4>1. n > 1 /\ TokenKind(TheList[First(n) + 2]) = 9 BY <1>1, <2>3, <2>5, <3>1
      <4> QED BY <1>2, <4>1, Zenon DEF Asks
    <3>3. data1' <=> TheList[First(n) + 3] = \h41 BY <1>3, <2>3 DEF RunDescriptor
    <3> QED BY <2>2, <3>1, <3>2, <3>3
  <2> QED BY <2>4, <2>5
<1>4. asked' # asked => asked' = SubSeq(TheList, 7, 10) BY <1>3, OnlyRuns
<1>5. walk \notin {0, Base} /\ walk' # walk /\ Kind = 9 => data1' # data1 BY <1>3, OnlyRuns
<1>6. ASSUME transfer < Reports, transfer' > transfer PROVE answered = transfer
  <2>1. transfer' # transfer BY <1>1, <1>6 DEF AtTransfer, Reports
  <2>2. Passed \/ Failed
    BY <2>1 DEF ListNext, Chip, WriteWord, Point, WakeUp, WriteAgain, Message, Start, RunDescriptor,
                listVars, main
  <2>3. Passed BY <1>6, <2>1, <2>2 DEF Failed, BeginList
  <2>4. list_pc = "check" /\ mem[Place(5)] = Done BY <1>6, <2>3 DEF Passed, Reports
  <2> QED BY <1>6, <2>4 DEF ListInv, Truthful, Standing, Said
<1> QED BY <1>4, <1>5, <1>6

\* And a SETUP sends the request main() is at, the packets carry DATA0 and DATA1
\* in turn, and main() leaves a transfer of the enumeration only when the device
\* answered the SETUP of that very one.
THEOREM TransfersAreInOrder == ListSpec => TransferIsInOrder
<1>1. ListInit => ListInv BY ListBegins
<1>2. ListInv /\ [ListNext]_listVars
        => [asked' # asked => asked' = SubSeq(List(transfer), 7, 10)]_listVars
  BY StepInOrder DEF TheList
<1>3. ListInv /\ [ListNext]_listVars
        => [walk \notin {0, Base} /\ walk' # walk /\ Kind = 9 => data1' # data1]_listVars
  BY StepInOrder
<1>4. ListInv /\ [ListNext]_listVars
        => [transfer < Reports /\ transfer' > transfer => answered = transfer]_listVars
  BY StepInOrder
<1> QED BY <1>1, <1>2, <1>3, <1>4, ListStep, PTL
        DEF ListSpec, TransferIsInOrder, AsksItsRequest, TogglesAlternate, PassIsAcked
-----------------------------------------------------------------------------
(* The board.                                                              *)

\* Where a slave begins and how many bytes it takes.
BaseOf(s) == Slave(s)[1]
SpanOf(s) == Slave(s)[2]
Slaves ==
  DOMAIN UsbAndLights \cup DOMAIN LightsAndMemory \cup DOMAIN SwitchesAndScreen

\* The address map.
LEMMA SlavesAre ==
  /\ Slaves =
       {"cy7c67200", "jtag_uart", "key", "lcd", "ledg", "ledr", "pll", "sdram", "seg7",
        "sma_in", "sma_out", "sram", "sw", "sysid", "timer", "timer_stamp", "vpg"}
  /\ BaseOf("cy7c67200") = \h9200070 /\ SpanOf("cy7c67200") = 16
  /\ BaseOf("jtag_uart") = \h8001070 /\ SpanOf("jtag_uart") = 8
  /\ BaseOf("key") = \h9200020 /\ SpanOf("key") = 16
  /\ BaseOf("lcd") = \h9200060 /\ SpanOf("lcd") = 16
  /\ BaseOf("ledg") = \h9200040 /\ SpanOf("ledg") = 16
  /\ BaseOf("ledr") = \h9200050 /\ SpanOf("ledr") = 16
  /\ BaseOf("pll") = \h8001060 /\ SpanOf("pll") = 16
  /\ BaseOf("sdram") = 0 /\ SpanOf("sdram") = 134217728
  /\ BaseOf("seg7") = \h9200000 /\ SpanOf("seg7") = 32
  /\ BaseOf("sma_in") = \h8001040 /\ SpanOf("sma_in") = 16
  /\ BaseOf("sma_out") = \h8001050 /\ SpanOf("sma_out") = 16
  /\ BaseOf("sram") = \h8200000 /\ SpanOf("sram") = 2097152
  /\ BaseOf("sw") = \h9200030 /\ SpanOf("sw") = 16
  /\ BaseOf("sysid") = \h9200080 /\ SpanOf("sysid") = 8
  /\ BaseOf("timer") = \h8001020 /\ SpanOf("timer") = 32
  /\ BaseOf("timer_stamp") = \h8001000 /\ SpanOf("timer_stamp") = 32
  /\ BaseOf("vpg") = \h9000000 /\ SpanOf("vpg") = 2097152
BY SMTT(120) DEF BaseOf, SpanOf, Slaves, Slave, UsbAndLights, LightsAndMemory,
   SwitchesAndScreen

\* No two slaves overlap,
LEMMA Apart ==
  ASSUME NEW s \in Slaves, NEW t \in Slaves, s # t
  PROVE  /\ BaseOf(s) \in Int /\ SpanOf(s) \in Int
         /\ BaseOf(s) + SpanOf(s) <= BaseOf(t) \/ BaseOf(t) + SpanOf(t) <= BaseOf(s)
BY SlavesAre, SMTT(120)

\* so an address within one of them is taken by no other.
LEMMA DecodeOne ==
  ASSUME NEW s \in Slaves, NEW a \in Int, BaseOf(s) <= a, a < BaseOf(s) + SpanOf(s)
  PROVE  Decode(a) = {s}
<1>1. Decode(a) = {t \in Slaves : BaseOf(t) <= a /\ a < BaseOf(t) + SpanOf(t)}
  <2>1. /\ \A t \in DOMAIN UsbAndLights : UsbAndLights[t] = Slave(t)
        /\ \A t \in DOMAIN LightsAndMemory : LightsAndMemory[t] = Slave(t)
        /\ \A t \in DOMAIN SwitchesAndScreen : SwitchesAndScreen[t] = Slave(t)
    BY SMT DEF Slave, UsbAndLights, LightsAndMemory, SwitchesAndScreen
  <2> QED
    BY <2>1 DEF Decode, Takes, BaseOf, SpanOf, Slaves
<1>2. ASSUME NEW t \in Slaves, t # s PROVE ~(BaseOf(t) <= a /\ a < BaseOf(t) + SpanOf(t))
  BY <1>2, Apart, SMT
<1> QED
  BY <1>1, <1>2

\* The last access was to a word of the slave it was meant for.
BusIs ==
  \E s \in {"vpg", "seg7", "ledr", "ledg"}, k \in Nat :
    /\ bus = [slave |-> s, address |-> BaseOf(s) + k * 4]
    /\ k * 4 < SpanOf(s)

\* That is the first part of the property.
LEMMA Reached == ASSUME BusIs PROVE ReachesItsSlave
<1>1. PICK s \in {"vpg", "seg7", "ledr", "ledg"}, k \in Nat :
        bus = [slave |-> s, address |-> BaseOf(s) + k * 4] /\ k * 4 < SpanOf(s)
  BY DEF BusIs
<1>2. s \in Slaves /\ BaseOf(s) \in Int
  BY SlavesAre, SMT
<1>3. BaseOf(s) + k * 4 \in Int /\ BaseOf(s) <= BaseOf(s) + k * 4 /\ BaseOf(s) + k * 4 < BaseOf(s) + SpanOf(s)
  <2>1. SpanOf(s) \in Int
    BY SlavesAre, SMT
  <2> QED
    BY <1>1, <1>2, <2>1, SMT
<1>4. Decode(BaseOf(s) + k * 4) = {s}
  BY <1>2, <1>3, DecodeOne
<1> QED
  BY <1>1, <1>4 DEF ReachesItsSlave

\* No two figures look alike.
LEMMA FiguresDiffer ==
  ASSUME NEW f \in 0 .. 15, NEW g \in 0 .. 15, SzMap[f + 1] = SzMap[g + 1]
  PROVE  f = g
BY SMTT(60) DEF SzMap

\* Above a figure come those of the number that many times smaller.
LEMMA FigureAt ==
  ASSUME NEW n \in Nat, NEW c \in Nat, c > 0
  PROVE  n \div c = 16 * (n \div (16 * c)) + ((n \div c) % 16)
<1> DEFINE q == n \div c
           r == n \div (16 * c)
<1>1. q \in Int /\ c * q <= n /\ n < c * q + c
  BY Z3
<1>2. r \in Int /\ (16 * c) * r <= n /\ n < (16 * c) * r + 16 * c
  BY Z3
<1> HIDE DEF q, r
<1>3. (16 * c) * r = c * (16 * r)
  BY <1>2, SMT
<1>4. q >= 16 * r
  <2>1. SUFFICES ASSUME q + 1 <= 16 * r PROVE FALSE
    BY <1>1, <1>2, SMT
  <2>2. c * (q + 1) <= c * (16 * r)
    BY <1>1, <1>2, <2>1, SMT
  <2>3. c * (q + 1) = c * q + c
    BY <1>1, SMT
  <2> QED
    BY <1>1, <1>2, <1>3, <2>2, <2>3, SMT
<1>5. q < 16 * r + 16
  <2>1. SUFFICES ASSUME 16 * r + 16 <= q PROVE FALSE
    BY <1>1, <1>2, SMT
  <2>2. c * (16 * r + 16) <= c * q
    BY <1>1, <1>2, <2>1, SMT
  <2>3. c * (16 * r + 16) = c * (16 * r) + 16 * c
    BY <1>2, SMT
  <2> QED
    BY <1>1, <1>2, <1>3, <2>2, <2>3, SMT
<1>6. q = 16 * r + (q % 16)
  BY <1>1, <1>2, <1>4, <1>5, SMT
<1> QED
  BY <1>6 DEF q, r

\* Figures are sixteen times the next ones.
LEMMA Powers ==
  ASSUME NEW k \in 0 .. 6
  PROVE  16 ^ k \in Nat /\ 16 ^ k > 0 /\ 16 ^ (k + 1) = 16 * (16 ^ k)
<1>1. /\ 16 ^ 0 = 1 /\ 16 ^ 1 = 16 /\ 16 ^ 2 = 256 /\ 16 ^ 3 = 4096 /\ 16 ^ 4 = 65536
      /\ 16 ^ 5 = 1048576 /\ 16 ^ 6 = 16777216 /\ 16 ^ 7 = 268435456
  BY SMT
<1>2. k = 0 \/ k = 1 \/ k = 2 \/ k = 3 \/ k = 4 \/ k = 5 \/ k = 6
  BY SMT
<1>3. CASE k = 0
  <2>1. k + 1 = 1
    BY <1>3, SMT
  <2> QED
    BY <1>1, <1>3, <2>1, SMT
<1>4. CASE k = 1
  <2>1. k + 1 = 2
    BY <1>4, SMT
  <2> QED
    BY <1>1, <1>4, <2>1, SMT
<1>5. CASE k = 2
  <2>1. k + 1 = 3
    BY <1>5, SMT
  <2> QED
    BY <1>1, <1>5, <2>1, SMT
<1>6. CASE k = 3
  <2>1. k + 1 = 4
    BY <1>6, SMT
  <2> QED
    BY <1>1, <1>6, <2>1, SMT
<1>7. CASE k = 4
  <2>1. k + 1 = 5
    BY <1>7, SMT
  <2> QED
    BY <1>1, <1>7, <2>1, SMT
<1>8. CASE k = 5
  <2>1. k + 1 = 6
    BY <1>8, SMT
  <2> QED
    BY <1>1, <1>8, <2>1, SMT
<1>9. CASE k = 6
  <2>1. k + 1 = 7
    BY <1>9, SMT
  <2> QED
    BY <1>1, <1>9, <2>1, SMT
<1> QED
  BY <1>2, <1>3, <1>4, <1>5, <1>6, <1>7, <1>8, <1>9

\* What of a number the figures from the k-th on say.
Above(n, k) == n \div (16 ^ k)

\* Two numbers that agree above a figure and in it agree from it on.
LEMMA FigureTells ==
  ASSUME NEW n \in Nat, NEW m \in Nat, NEW k \in 0 .. 6,
         Above(n, k + 1) = Above(m, k + 1), Figure(n, k) = Figure(m, k)
  PROVE  Above(n, k) = Above(m, k)
<1> DEFINE c == 16 ^ k
<1>1. c \in Nat /\ c > 0
  BY Powers, Zenon
<1>2. Above(n, k) % 16 = Above(m, k) % 16
  BY Zenon DEF Figure, Above
<1>3. Above(n, k) = n \div c /\ Above(m, k) = m \div c
  BY DEF Above
<1>4. Above(n, k + 1) = n \div (16 * c) /\ Above(m, k + 1) = m \div (16 * c)
  BY Powers, Zenon DEF Above
<1> HIDE DEF c
<1>5. /\ n \div c = 16 * (n \div (16 * c)) + ((n \div c) % 16)
      /\ m \div c = 16 * (m \div (16 * c)) + ((m \div c) % 16)
  BY <1>1, FigureAt, Zenon
<1> QED
  BY <1>2, <1>3, <1>4, <1>5, Zenon

\* A number of seven figures.
Below(n) == n \in Nat /\ n < 268435456

\* Such a number is told by its figures: from the top down they agree.
LEMMA FiguresTell ==
  ASSUME NEW n, NEW m, Below(n), Below(m),
         \A k \in 0 .. 7 : Figure(n, k) = Figure(m, k)
  PROVE  n = m
<1>1. Above(n, 7) = Above(m, 7)
  <2>1. 16 ^ 7 = 268435456
    BY SMT
  <2>2. \A l \in {n, m} : l \div 268435456 = 0
    BY SMT DEF Below
  <2> QED
    BY <2>1, <2>2, SMT DEF Above
<1>2. \A k \in 0 .. 6 : Above(n, k + 1) = Above(m, k + 1) => Above(n, k) = Above(m, k)
  <2>1. \A k \in 0 .. 6 : Figure(n, k) = Figure(m, k)
    BY SMT
  <2> QED
    BY <2>1, FigureTells, SMT DEF Below
<1>3. Above(n, 0) = Above(m, 0)
  BY <1>1, <1>2, SMT
<1>4. 16 ^ 0 = 1
  BY SMT
<1> QED
  BY <1>3, <1>4, SMT DEF Above, Below

\* An access to a word within the slave.
LEMMA IowrReaches ==
  ASSUME NEW s \in {"vpg", "seg7", "ledr", "ledg"}, NEW k \in Nat, k * 4 < SpanOf(s),
         Iowr(s, k)
  PROVE  BusIs'
<1>1. bus' = [slave |-> s, address |-> BaseOf(s) + k * (32 \div 8)]
  BY DEF Iowr, BusWidth, BaseOf
<1>2. 32 \div 8 = 4
  BY SMT
<1> QED
  BY <1>1, <1>2 DEF BusIs, BaseOf, SpanOf

\* A place of the screen.
OnBoard(p) == p \in (0 .. VgaWidth - 1) \X (0 .. VgaHeight - 1)

\* The invariant: where the loops are, what the digits show, and the bus. A loop
\* is within its bounds, and the place on the screen.
Loops ==
  /\ x_col \in 0 .. VgaWidth - 1 /\ y_col \in Nat /\ figure \in Nat /\ OnBoard(place)
  /\ board_pc \in {"on", "clear"} => y_col < VgaHeight /\ figure = 0
  /\ board_pc = "colour" => figure <= 8
  /\ board_pc = "digits" => figure < 8
\* The first n digits show the place.
FiguresAre(n) == \A k \in 1 .. n : digits[k] = SzMap[Figure(Shown(place), k - 1) + 1]
DigitsAre ==
  /\ DOMAIN digits = 1 .. 8
  /\ board_pc = "digits" => FiguresAre(figure)
  /\ board_pc = "ledr" => FiguresAre(8)
BoardInv == Loops /\ DigitsAre /\ BusIs

\* The sizes as numbers.
LEMMA BoardSizes == VgaWidth = 640 /\ VgaHeight = 480 /\ OsdMemAddr = 307200
BY SMT DEF VgaWidth, VgaHeight, OsdMemAddr

\* It holds when main() begins,
LEMMA BoardInitInv == ASSUME BoardInit PROVE BoardInv
<1>1. Loops
  BY BoardSizes, SMT DEF BoardInit, Loops, OnBoard
<1>2. DigitsAre
  BY SMT DEF BoardInit, DigitsAre, Seg7Num
<1>3. BusIs
  <2>1. bus = [slave |-> "vpg", address |-> BaseOf("vpg")]
    BY DEF BoardInit, BaseOf
  <2>2. 0 \in Nat /\ BaseOf("vpg") + 0 * 4 = BaseOf("vpg") /\ 0 * 4 < SpanOf("vpg")
    BY SlavesAre, SMT
  <2> QED
    BY <2>1, <2>2 DEF BusIs
<1> QED
  BY <1>1, <1>2, <1>3 DEF BoardInv

\* A word of the screen, a pixel or one of the twelve registers.
LEMMA ScreenReached ==
  ASSUME NEW k \in Nat, k < 307200 + 12, Iowr("vpg", k)
  PROVE  BusIs'
<1>1. k * 4 < SpanOf("vpg")
  BY SlavesAre, SMT
<1> QED
  BY <1>1, IowrReaches

\* The word of a pixel is its own and no register.
LEMMA PixelIs ==
  ASSUME NEW u \in 0 .. VgaWidth - 1, NEW v \in Nat, v < VgaHeight
  PROVE  /\ VgaPixel(u, v) = v * 640 + u
         /\ VgaPixel(u, v) \in Nat /\ VgaPixel(u, v) < 307200
BY BoardSizes, SMT DEF VgaPixel

\* and every access keeps it.
LEMMA BoardNextInv ==
  ASSUME BoardInv, [BoardNext]_boardVars
  PROVE  BoardInv'
<1>1. CASE SwitchOn
  <2>1. 307200 + 0 < 307200 + 12 /\ 307200 + 0 \in Nat /\ VgaRegister(0) = 307200 + 0
    BY BoardSizes, SMT DEF VgaRegister
  <2>2. BusIs'
    BY <1>1, <2>1, ScreenReached DEF SwitchOn
  <2>3. Loops' /\ DigitsAre'
    BY <1>1, SMT DEF SwitchOn, Unchanged, BoardInv, Loops, DigitsAre, OnBoard
  <2> QED
    BY <2>2, <2>3 DEF BoardInv
<1>2. CASE Vga_clear_screen
  <2>1. x_col \in 0 .. VgaWidth - 1 /\ y_col \in Nat /\ y_col < VgaHeight /\ figure = 0
    BY <1>2 DEF Vga_clear_screen, BoardInv, Loops
  <2>2. BusIs'
    <3>1. VgaPixel(x_col, y_col) \in Nat /\ VgaPixel(x_col, y_col) < 307200 + 12
      BY <2>1, PixelIs, SMT
    <3> QED
      BY <1>2, <3>1, ScreenReached DEF Vga_clear_screen
  <2>3. x_col' \in 0 .. VgaWidth - 1 /\ y_col' \in Nat
    BY <1>2, <2>1, BoardSizes, SMT DEF Vga_clear_screen
  <2>4. /\ board_pc' = "clear" => y_col' < VgaHeight
        /\ board_pc' \in {"clear", "colour"} /\ UNCHANGED <<place, figure, digits>>
    BY <1>2, <2>1, BoardSizes, SMT DEF Vga_clear_screen
  <2>5. Loops'
    BY <2>1, <2>3, <2>4, BoardSizes, SMT DEF BoardInv, Loops, OnBoard
  <2>6. DigitsAre'
    BY <2>4 DEF BoardInv, DigitsAre
  <2> QED
    BY <2>2, <2>5, <2>6 DEF BoardInv
<1>3. CASE Set_Colours
  <2>1. figure \in Nat /\ figure <= 8
    BY <1>3 DEF Set_Colours, BoardInv, Loops
  <2>2. BusIs'
    <3>1. VgaRegister(3 + figure) \in Nat /\ VgaRegister(3 + figure) < 307200 + 12
      BY <2>1, BoardSizes, SMT DEF VgaRegister
    <3> QED
      BY <1>3, <3>1, ScreenReached DEF Set_Colours
  <2>3. Loops' /\ DigitsAre'
    BY <1>3, <2>1, SMT DEF Set_Colours, BoardInv, Loops, DigitsAre, OnBoard
  <2> QED
    BY <2>2, <2>3 DEF BoardInv
<1>4. ASSUME NEW p \in Places, MoveTo(p) PROVE BoardInv'
  <2>1. OnBoard(place)'
    BY <1>4, PlacesAssumption DEF MoveTo, OnBoard
  <2>2. Loops' /\ DigitsAre'
    BY <1>4, <2>1, SMT DEF MoveTo, BoardInv, Loops, DigitsAre, FiguresAre
  <2>3. BusIs'
    BY <1>4 DEF MoveTo, BoardInv, BusIs
  <2> QED
    BY <2>2, <2>3 DEF BoardInv
<1>5. CASE SEG7_Hex
  <2>1. figure \in Nat /\ figure < 8 /\ FiguresAre(figure) /\ DOMAIN digits = 1 .. 8
    BY <1>5 DEF SEG7_Hex, BoardInv, Loops, DigitsAre
  <2>2. BusIs'
    <3>1. figure * 4 < SpanOf("seg7")
      BY <2>1, SlavesAre, SMT
    <3> QED
      BY <1>5, <2>1, <3>1, IowrReaches DEF SEG7_Hex
  <2>3. DOMAIN digits' = 1 .. 8 /\ place' = place
    BY <1>5, <2>1 DEF SEG7_Hex
  <2>4. \A k \in 1 .. figure + 1 :
          digits'[k] = SzMap[Figure(Shown(place'), k - 1) + 1]
    <3> SUFFICES ASSUME NEW k \in 1 .. figure + 1
                 PROVE  digits'[k] = SzMap[Figure(Shown(place), k - 1) + 1]
      BY <2>3
    <3>1. digits' = [digits EXCEPT ![figure + 1] =
                       SzMap[Figure(Shown(place), figure) + 1]]
      BY <1>5 DEF SEG7_Hex
    <3>2. CASE k = figure + 1
      <4>1. figure + 1 \in DOMAIN digits /\ k - 1 = figure
        BY <2>1, <3>2, SMT
      <4> QED
        BY <3>1, <3>2, <4>1
    <3>3. CASE k # figure + 1
      <4>1. k \in 1 .. figure /\ k \in DOMAIN digits
        BY <2>1, <3>3, SMT
      <4> QED
        BY <2>1, <3>1, <3>3, <4>1 DEF FiguresAre
    <3> QED
      BY <3>2, <3>3
  <2>5. CASE figure = 7
    <3>1. board_pc' = "ledr" /\ figure' = 0
      BY <1>5, <2>5, SMT DEF SEG7_Hex, Seg7Num
    <3>2. FiguresAre(8)'
      <4>1. figure + 1 = 8
        BY <2>5, SMT
      <4> QED
        BY <2>4, <4>1 DEF FiguresAre, Shown
    <3>3. Loops'
      BY <1>5, <2>3, <3>1, SMT DEF SEG7_Hex, BoardInv, Loops, OnBoard
    <3> QED
      BY <2>2, <2>3, <3>1, <3>2, <3>3 DEF BoardInv, DigitsAre
  <2>6. CASE figure # 7
    <3>1. board_pc' = "digits" /\ figure' = figure + 1
      BY <1>5, <2>6, SMT DEF SEG7_Hex, Seg7Num
    <3>2. FiguresAre(figure)'
      BY <2>4, <3>1 DEF FiguresAre, Shown
    <3>3. Loops'
      BY <1>5, <2>1, <2>3, <2>6, <3>1, SMT DEF SEG7_Hex, BoardInv, Loops, OnBoard
    <3> QED
      BY <2>2, <2>3, <3>1, <3>2, <3>3 DEF BoardInv, DigitsAre
  <2> QED
    BY <2>5, <2>6
<1>6. CASE ShowX \/ ShowY \/ Set_Cursor_X \/ Set_Cursor_Y
           \/ DrawPixel \/ NoButton
  <2>1. /\ board_pc' \in {"ledg", "x", "y", "pixel", "place"}
        /\ UNCHANGED <<x_col, y_col, place, figure, digits>>
    BY <1>6 DEF ShowX, ShowY, Set_Cursor_X, Set_Cursor_Y,
       DrawPixel, NoButton, Unchanged
  <2>2. Loops' /\ DigitsAre'
    BY <2>1 DEF BoardInv, Loops, DigitsAre, OnBoard
  <2>3. BusIs'
    <3>1. CASE ShowX \/ ShowY
      <4>1. 0 \in Nat /\ 0 * 4 < SpanOf("ledr") /\ 0 * 4 < SpanOf("ledg")
        BY SlavesAre, SMT
      <4> QED
        BY <3>1, <4>1, IowrReaches DEF ShowX, ShowY
    <3>2. CASE Set_Cursor_X \/ Set_Cursor_Y
      <4>1. \A k \in {1, 2} : VgaRegister(k) \in Nat /\ VgaRegister(k) < 307200 + 12
        BY BoardSizes, SMT DEF VgaRegister
      <4> QED
        BY <3>2, <4>1, ScreenReached DEF Set_Cursor_X, Set_Cursor_Y
    <3>3. CASE DrawPixel
      <4>1. place[1] \in 0 .. VgaWidth - 1 /\ place[2] \in Nat /\ place[2] < VgaHeight
        BY BoardSizes, SMT DEF BoardInv, Loops, OnBoard
      <4>2. /\ VgaPixel(place[1], place[2]) \in Nat
            /\ VgaPixel(place[1], place[2]) < 307200 + 12
        BY <4>1, PixelIs, SMT
      <4> QED
        BY <3>3, <4>2, ScreenReached DEF DrawPixel
    <3>4. CASE NoButton
      BY <3>4 DEF NoButton, BoardInv, BusIs
    <3> QED
      BY <1>6, <3>1, <3>2, <3>3, <3>4
  <2> QED
    BY <2>2, <2>3 DEF BoardInv
<1>7. CASE UNCHANGED boardVars
  BY <1>7 DEF boardVars, BoardInv, Loops, DigitsAre, BusIs, FiguresAre, OnBoard
<1> QED
  BY <1>1, <1>2, <1>3, <1>4, <1>5, <1>6, <1>7 DEF BoardNext

\* What a place is, for arithmetic.
PlaceIs(p) ==
  p[1] \in Nat /\ p[1] < 640 /\ p[2] \in Nat /\ p[2] < 480 /\ p = <<p[1], p[2]>>

\* Seven figures are enough for a place.
LEMMA OnBoardIs ==
  ASSUME NEW p, OnBoard(p)
  PROVE  PlaceIs(p) /\ Below(Shown(p))
<1>1. PICK a \in 0 .. VgaWidth - 1, b \in 0 .. VgaHeight - 1 : p = <<a, b>>
  BY DEF OnBoard
<1>2. a \in Nat /\ a < 640 /\ b \in Nat /\ b < 480
  BY BoardSizes, SMT
<1>3. p[1] = a /\ p[2] = b
  BY <1>1
<1> QED
  BY <1>1, <1>2, <1>3, SMT DEF Shown, Below, PlaceIs

\* The figures of two places differ.
LEMMA PlacesTold ==
  ASSUME NEW p, NEW q, OnBoard(p), OnBoard(q),
         \A k \in 0 .. 7 : Figure(Shown(p), k) = Figure(Shown(q), k)
  PROVE  p = q
<1>1. PlaceIs(p) /\ PlaceIs(q)
  BY OnBoardIs, Zenon
<1>2. Below(Shown(p)) /\ Below(Shown(q))
  BY OnBoardIs, Zenon
<1>3. Shown(p) = Shown(q)
  BY <1>2, FiguresTell
<1>4. p[1] * 65536 + p[2] = q[1] * 65536 + q[2]
  BY <1>3 DEF Shown
<1>5. p[1] = q[1] /\ p[2] = q[2]
  BY <1>1, <1>4, SMT DEF PlaceIs
<1> QED
  BY <1>1, <1>5, SMT DEF PlaceIs

\* What eight digits show is one place only.
LEMMA DigitsTell ==
  ASSUME BoardInv
  PROVE  DigitsShowPlace
<1> SUFFICES ASSUME board_pc = "ledr", NEW p \in Places,
                    \A k \in 1 .. 8 : digits[k] = SzMap[Figure(Shown(p), k - 1) + 1]
             PROVE  p = place
  BY DEF DigitsShowPlace, Seg7Num
<1>1. OnBoard(p) /\ OnBoard(place)
  BY PlacesAssumption DEF OnBoard, BoardInv, Loops
<1>2. Shown(p) \in Int /\ Shown(place) \in Int
  BY <1>1, OnBoardIs, SMT DEF Below
<1>3. ASSUME NEW k \in 0 .. 7
      PROVE  Figure(Shown(p), k) = Figure(Shown(place), k)
  <2>1. k + 1 \in 1 .. 8 /\ (k + 1) - 1 = k
    BY SMT
  <2>2. /\ digits[k + 1] = SzMap[Figure(Shown(p), k) + 1]
        /\ digits[k + 1] = SzMap[Figure(Shown(place), k) + 1]
    BY <2>1, SMT DEF BoardInv, DigitsAre, FiguresAre
  <2>3. /\ Figure(Shown(p), k) \in 0 .. 15
        /\ Figure(Shown(place), k) \in 0 .. 15
    <3>1. 16 ^ k \in Nat /\ 16 ^ k > 0
      <4>1. CASE k \in 0 .. 6
        BY <4>1, Powers, Zenon
      <4>2. CASE k = 7
        <5>1. 16 ^ 7 = 268435456
          BY SMT
        <5> QED
          BY <4>2, <5>1, SMT
      <4> QED
        BY <4>1, <4>2, SMT
    <3> DEFINE c == 16 ^ k
    <3>2. c \in Nat /\ c > 0
      BY <3>1
    <3>3. /\ Figure(Shown(p), k) = (Shown(p) \div c) % 16
          /\ Figure(Shown(place), k) = (Shown(place) \div c) % 16
      BY DEF Figure
    <3> HIDE DEF c
    <3>4. Shown(p) \div c \in Int /\ Shown(place) \div c \in Int
      BY <1>2, <3>2, SMT
    <3> QED
      BY <3>3, <3>4, SMT
  <2> QED
    BY <2>2, <2>3, FiguresDiffer
<1> QED
  BY <1>1, <1>3, PlacesTold

\* What wiping asks of a step.
LEMMA PixelsCleared ==
  ASSUME BoardInv, [BoardNext]_boardVars, board_pc = "clear", UNCHANGED boardVars => FALSE
  PROVE  /\ Word = y_col * VgaWidth + x_col /\ Word < OsdMemAddr
         /\ IF board_pc' = "clear" THEN y_col' * VgaWidth + x_col' = Word + 1
            ELSE Word = OsdMemAddr - 1
<1>1. Vga_clear_screen
  BY DEF BoardNext, SwitchOn, Set_Colours, MoveTo, SEG7_Hex, ShowX,
     ShowY, Set_Cursor_X, Set_Cursor_Y, DrawPixel, NoButton, boardVars
<1>2. x_col \in 0 .. VgaWidth - 1 /\ y_col \in Nat /\ y_col < VgaHeight
  BY DEF BoardInv, Loops
<1>3. /\ VgaPixel(x_col, y_col) = y_col * 640 + x_col
      /\ VgaPixel(x_col, y_col) \in Nat /\ VgaPixel(x_col, y_col) < 307200
  BY <1>2, PixelIs
<1>4. Word = VgaPixel(x_col, y_col)
  <2>1. bus'.address = BaseOf("vpg") + VgaPixel(x_col, y_col) * (32 \div 8)
    BY <1>1 DEF Vga_clear_screen, Iowr, BusWidth, BaseOf
  <2>2. Slave("vpg")[1] = BaseOf("vpg") /\ BaseOf("vpg") \in Int
    BY SlavesAre, SMT DEF BaseOf
  <2>3. Word = (bus'.address - BaseOf("vpg")) \div 4
    BY <2>2 DEF Word
  <2> QED
    BY <1>3, <2>1, <2>2, <2>3, SMT
<1>5. /\ x_col' = (x_col + 1) % 640
      /\ y_col' = IF x_col = 639 THEN y_col + 1 ELSE y_col
      /\ board_pc' = IF y_col' = 480 THEN "colour" ELSE "clear"
  BY <1>1, BoardSizes, SMT DEF Vga_clear_screen
<1> QED
  BY <1>2, <1>3, <1>4, <1>5, BoardSizes, SMT

(***************************************************************************)
(* For all places of the cursor: every access reaches the slave it is      *)
(* meant for and no other, wiping leaves no pixel out, and two places are  *)
(* never shown by the same digits.                                         *)
(***************************************************************************)
THEOREM BoardAlwaysShows ==
  BoardSpec => BoardShowsThePlace
<1>1. BoardInit => BoardInv
  BY BoardInitInv
<1>2. BoardInv /\ [BoardNext]_boardVars => BoardInv'
  BY BoardNextInv
<1>3. BoardInv => ReachesItsSlave /\ DigitsShowPlace
  BY Reached, DigitsTell DEF BoardInv
<1>4. BoardInv /\ [BoardNext]_boardVars =>
        [board_pc = "clear" =>
           /\ Word = y_col * VgaWidth + x_col /\ Word < OsdMemAddr
           /\ IF board_pc' = "clear" THEN y_col' * VgaWidth + x_col' = Word + 1
              ELSE Word = OsdMemAddr - 1]_boardVars
  BY PixelsCleared
<1> QED
  BY <1>1, <1>2, <1>3, <1>4, PTL
     DEF BoardSpec, BoardShowsThePlace, ClearsEveryPixel
=============================================================================
