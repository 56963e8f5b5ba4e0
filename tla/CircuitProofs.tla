---------------------------- MODULE CircuitProofs ---------------------------
(***************************************************************************)
(* Theorems about the circuits that stand alone.  LineFifo, for every      *)
(* depth and every set of values: it is a queue.  SquareRoot, for operands *)
(* and results of every width: what it leaves is the root.  HogCell, for   *)
(* all gradients and widths of a sum: the histogram is that of the lengths *)
(* of the gradients.  BlockNormalization, for blocks of every size: none   *)
(* is scaled.  PushButton, for every period of the slow clock: the level   *)
(* is debounced and a pulse lasts one clock.                               *)
(***************************************************************************)
EXTENDS LineFifo, BlockNormalization, HogCell, PushButton, Recursion, SequenceTheorems

(***************************************************************************)
(* The queue.                                                              *)
(***************************************************************************)

Stored == Data \cup {Junk}

\* The addresses and the counter move within their P_ADDR_W bits.
LEMMA UpDownType ==
  ASSUME NEW addr \in Addresses
  PROVE  Up(addr) \in Addresses /\ Down(addr) \in Addresses
  BY DepthAssumption DEF Addresses, Up, Down

LEMMA CountType ==
  ASSUME FifoTypeOK, NEW w \in BOOLEAN, NEW r \in BOOLEAN
  PROVE  Count(w, r) \in Addresses
<1>1. CASE r /\ ~w
  BY <1>1, UpDownType DEF Count, FifoTypeOK
<1>2. CASE w /\ ~r
  BY <1>2, UpDownType DEF Count, FifoTypeOK
<1>3. CASE ~(r /\ ~w) /\ ~(w /\ ~r)
  BY <1>3 DEF Count, FifoTypeOK
<1>4. QED
  BY <1>1, <1>2, <1>3

\* One clock with these inputs, as FifoNext allows it.
Driven(i_reset, i_write, i_read, i_data) ==
  /\ i_read => settled
  /\ i_write => ~o_full \/ i_read
  /\ FifoClock(i_reset, i_write, i_read, i_data)
  /\ settled' = (~i_reset /\ ~i_read /\ ~o_empty)
  /\ taken' = IF i_read /\ ~i_reset THEN ram_data ELSE taken

LEMMA DrivenType ==
  ASSUME FifoTypeOK, NEW i_reset \in BOOLEAN, NEW i_write \in BOOLEAN,
         NEW i_read \in BOOLEAN, NEW i_data \in Data,
         Driven(i_reset, i_write, i_read, i_data)
  PROVE  FifoTypeOK'
<1>1. 0 \in Addresses
  BY DepthAssumption DEF Addresses
<1>2. /\ wr_addr' \in Addresses /\ rd_addr' \in Addresses
      /\ counter' \in Addresses
  BY <1>1, UpDownType, CountType DEF Driven, FifoClock, FifoTypeOK
<1>3. ram' \in [Addresses -> Data \cup {Junk}]
  BY DEF Driven, FifoClock, FifoTypeOK
<1>4. ram_data' \in Data \cup {Junk} /\ taken' \in Data \cup {Junk}
  BY DEF Driven, FifoClock, FifoTypeOK, Output
<1>5. settled' \in BOOLEAN
  BY DEF Driven
<1>6. QED
  BY <1>2, <1>3, <1>4, <1>5 DEF FifoTypeOK

LEMMA InitType == ASSUME DrivenInit PROVE FifoTypeOK
<1>1. 0 \in Addresses
  BY DepthAssumption DEF Addresses
<1>2. [addr \in Addresses |-> Junk] \in [Addresses -> Data \cup {Junk}]
  OBVIOUS
<1>3. QED
  BY <1>1, <1>2 DEF DrivenInit, FifoInit, FifoTypeOK

LEMMA NextType == ASSUME FifoTypeOK, [FifoNext]_fifoVars PROVE FifoTypeOK'
<1>1. CASE FifoNext
  <2>1. PICK i_reset, i_write, i_read \in BOOLEAN, i_data \in Data :
          Driven(i_reset, i_write, i_read, i_data)
    BY <1>1 DEF FifoNext, Driven
  <2>2. QED
    BY <2>1, DrivenType
<1>2. CASE UNCHANGED fifoVars
  BY <1>2 DEF fifoVars, fifoRegs, FifoTypeOK
<1>3. QED
  BY <1>1, <1>2

(***************************************************************************)
(* The registers of the queue keep their widths: the addresses wrap, and   *)
(* the counter is driven past neither end.                                 *)
(***************************************************************************)
THEOREM FifoTypeCorrect == DrivenSpec => []FifoTypeOK
<1>1. DrivenInit => FifoTypeOK
  BY InitType
<1>2. FifoTypeOK /\ [FifoNext]_fifoVars => FifoTypeOK'
  BY NextType
<1>3. QED
  BY <1>1, <1>2, PTL DEF DrivenSpec

(***************************************************************************)
(* The pointers.                                                           *)
(***************************************************************************)
FifoInv == FifoTypeOK /\ PointersAgree

\* Addresses counted from another, which wrap as the registers do.
LEMMA PlaceFacts ==
  ASSUME NEW addr \in Addresses
  PROVE  /\ Place(addr, 0) = addr
         /\ \A i \in 0 .. Depth - 1 : Place(addr, i) \in Addresses
         /\ \A i \in 0 .. Depth - 2 : Place(Up(addr), i) = Place(addr, i + 1)
         /\ \A i, j \in 0 .. Depth - 1 : i # j => Place(addr, i) # Place(addr, j)
  BY DepthAssumption DEF Addresses, Up, Place

LEMMA DrivenAgree ==
  ASSUME FifoInv, NEW i_reset \in BOOLEAN, NEW i_write \in BOOLEAN,
         NEW i_read \in BOOLEAN, NEW i_data \in Data,
         Driven(i_reset, i_write, i_read, i_data)
  PROVE  PointersAgree'
<1> USE DEF FifoInv
<1>1. wr_addr' = Place(rd_addr', counter')
  <2>1. CASE i_reset
    BY <2>1, DepthAssumption DEF Driven, FifoClock, Place
  <2>2. CASE ~i_reset /\ i_write /\ i_read
    BY <2>2, DepthAssumption
       DEF Driven, FifoClock, Count, FifoTypeOK, PointersAgree, Addresses,
           Up, Place, o_empty
  <2>3. CASE ~i_reset /\ i_write /\ ~i_read
    BY <2>3, DepthAssumption
       DEF Driven, FifoClock, Count, FifoTypeOK, PointersAgree, Addresses,
           Up, Place, o_full
  <2>4. CASE ~i_reset /\ ~i_write /\ i_read
    BY <2>4, DepthAssumption
       DEF Driven, FifoClock, Count, FifoTypeOK, PointersAgree, Addresses,
           Up, Down, Place, o_empty
  <2>5. CASE ~i_reset /\ ~i_write /\ ~i_read
    BY <2>5 DEF Driven, FifoClock, Count, PointersAgree, Place
  <2>6. QED
    BY <2>1, <2>2, <2>3, <2>4, <2>5
<1>2. ASSUME settled'
      PROVE  counter' # 0 /\ ram_data' = ram'[rd_addr']
  <2>1. ~i_reset /\ ~i_read /\ counter # 0
    BY <1>2 DEF Driven, o_empty
  <2>2. rd_addr' = rd_addr /\ ram_data' = ram[rd_addr]
    BY <2>1 DEF Driven, FifoClock, Output
  <2>3. CASE ~i_write
    BY <2>1, <2>2, <2>3 DEF Driven, FifoClock, Count
  <2>4. CASE i_write
    <3>1. counter # Depth - 1
      BY <2>1, <2>4 DEF Driven, o_full
    <3>2. counter' # 0
      BY <2>1, <2>4, <3>1, DepthAssumption
         DEF Driven, FifoClock, Count, Up, FifoTypeOK, Addresses
    <3>3. rd_addr # wr_addr
      BY <2>1, DepthAssumption
         DEF PointersAgree, Place, FifoTypeOK, Addresses
    <3>4. QED
      BY <2>2, <2>4, <3>2, <3>3 DEF Driven, FifoClock, FifoTypeOK
  <2>5. QED
    BY <2>3, <2>4
<1>3. QED
  BY <1>1, <1>2 DEF PointersAgree, o_empty

LEMMA NextAgree == ASSUME FifoInv, [FifoNext]_fifoVars PROVE PointersAgree'
<1>1. CASE FifoNext
  <2>1. PICK i_reset, i_write, i_read \in BOOLEAN, i_data \in Data :
          Driven(i_reset, i_write, i_read, i_data)
    BY <1>1 DEF FifoNext, Driven
  <2>2. QED
    BY <2>1, DrivenAgree
<1>2. CASE UNCHANGED fifoVars
  BY <1>2 DEF fifoVars, fifoRegs, FifoInv, PointersAgree, Place, o_empty
<1>3. QED
  BY <1>1, <1>2

LEMMA Invariance == DrivenSpec => []FifoInv
<1>1. DrivenInit => FifoInv
  <2>1. DrivenInit => wr_addr = Place(rd_addr, counter)
    BY DepthAssumption DEF DrivenInit, FifoInit, Place
  <2>2. DrivenInit => ~settled
    BY DEF DrivenInit
  <2>3. QED
    BY <2>1, <2>2, InitType DEF FifoInv, PointersAgree
<1>2. FifoInv /\ [FifoNext]_fifoVars => FifoInv'
  BY NextType, NextAgree DEF FifoInv
<1>3. QED
  BY <1>1, <1>2, PTL DEF DrivenSpec

(***************************************************************************)
(* For every depth, the write address stays counter places behind the read *)
(* address, and a settled output is the oldest entry.                      *)
(***************************************************************************)
THEOREM PointersAlwaysAgree == DrivenSpec => []QueueAgrees
<1>1. FifoInv => QueueAgrees
  BY DEF FifoInv, QueueAgrees
<1>2. QED
  BY <1>1, Invariance, PTL

(***************************************************************************)
(* The FIFO is a queue.                                                    *)
(***************************************************************************)

\* Contents and its successor as sequences.
LEMMA ContentsFacts ==
  ASSUME FifoTypeOK
  PROVE  /\ Contents \in Seq(Stored)
         /\ Len(Contents) = counter
         /\ \A i \in 1 .. counter : Contents[i] = ram[Place(rd_addr, i - 1)]
<1>1. counter \in 0 .. Depth - 1 /\ rd_addr \in Addresses
  BY DEF FifoTypeOK, Addresses
<1>2. ASSUME NEW i \in 1 .. counter
      PROVE  ram[Place(rd_addr, i - 1)] \in Stored
  <2>1. i - 1 \in 0 .. Depth - 1
    BY <1>1, DepthAssumption
  <2>2. QED
    BY <1>1, <2>1, PlaceFacts DEF FifoTypeOK, Stored
<1>3. Contents \in [1 .. counter -> Stored]
  BY <1>2 DEF Contents
<1>4. Contents \in Seq(Stored)
  BY <1>1, <1>3, DepthAssumption, SeqDef
<1>5. QED
  BY <1>1, <1>3, <1>4, DepthAssumption, LenProperties DEF Contents

LEMMA ContentsFactsNext ==
  ASSUME FifoTypeOK'
  PROVE  /\ Contents' \in Seq(Stored)
         /\ Len(Contents') = counter'
         /\ \A i \in 1 .. counter' :
              Contents'[i] = ram'[Place(rd_addr', i - 1)]
<1>1. counter' \in 0 .. Depth - 1 /\ rd_addr' \in Addresses
  BY DEF FifoTypeOK, Addresses
<1>2. ASSUME NEW i \in 1 .. counter'
      PROVE  ram'[Place(rd_addr', i - 1)] \in Stored
  <2>1. i - 1 \in 0 .. Depth - 1
    BY <1>1, DepthAssumption
  <2>2. Place(rd_addr', i - 1) \in Addresses
    BY <1>1, <2>1, PlaceFacts
  <2>3. QED
    BY <2>2 DEF FifoTypeOK, Stored
<1>3. Contents' \in [1 .. counter' -> Stored]
  BY <1>2 DEF Contents
<1>4. Contents' \in Seq(Stored)
  BY <1>1, <1>3, DepthAssumption, SeqDef
<1>5. QED
  BY <1>1, <1>3, <1>4, DepthAssumption, LenProperties DEF Contents

\* A sequence with these entries is the contents of the next state.
LEMMA ContentsNextAre ==
  ASSUME FifoTypeOK', NEW content \in Seq(Stored), Len(content) = counter',
         \A i \in 1 .. counter' : content[i] = ram'[Place(rd_addr', i - 1)]
  PROVE  Contents' = content
  BY ContentsFactsNext, SeqEqual

LEMMA AppendFacts ==
  ASSUME NEW content \in Seq(Stored), NEW d \in Stored
  PROVE  /\ Append(content, d) \in Seq(Stored)
         /\ Len(Append(content, d)) = Len(content) + 1
         /\ \A i \in 1 .. Len(content) : Append(content, d)[i] = content[i]
         /\ Append(content, d)[Len(content) + 1] = d
  OBVIOUS

\* A write leaves every entry alone: the RAM changes where none is.
LEMMA EntriesStay ==
  ASSUME FifoInv, NEW i_write \in BOOLEAN, NEW i_read \in BOOLEAN,
         NEW i_data \in Data, Driven(FALSE, i_write, i_read, i_data)
  PROVE  \A i \in 1 .. counter :
           ram'[Place(rd_addr, i - 1)] = Contents[i]
<1> USE DEF FifoInv
<1> TAKE i \in 1 .. counter
<1>1. counter \in 0 .. Depth - 1 /\ i - 1 \in 0 .. Depth - 1
  <2>1. counter \in 0 .. Depth - 1
    BY DEF FifoTypeOK, Addresses
  <2>2. QED
    BY <2>1, DepthAssumption
<1>2. rd_addr \in Addresses /\ i - 1 # counter
  BY <1>1 DEF FifoTypeOK
<1>3. Place(rd_addr, i - 1) \in Addresses /\ Place(rd_addr, i - 1) # wr_addr
  BY <1>1, <1>2, PlaceFacts DEF PointersAgree
<1>4. ram'[Place(rd_addr, i - 1)] = ram[Place(rd_addr, i - 1)]
  BY <1>3 DEF Driven, FifoClock, FifoTypeOK
<1>5. QED
  BY <1>4, ContentsFacts

\* What was written lies behind the entries there were.
LEMMA NewEntry ==
  ASSUME FifoInv, NEW i_read \in BOOLEAN, NEW i_data \in Data,
         Driven(FALSE, TRUE, i_read, i_data)
  PROVE  ram'[Place(rd_addr, counter)] = i_data
  BY DEF FifoInv, Driven, FifoClock, FifoTypeOK, PointersAgree

\* What a reader takes is the head of the contents.
LEMMA HeadTaken ==
  ASSUME FifoInv, NEW i_write \in BOOLEAN, NEW i_data \in Data,
         Driven(FALSE, i_write, TRUE, i_data)
  PROVE  /\ Contents # << >>
         /\ taken' = Head(Contents)
         /\ Tail(Contents) \in Seq(Stored)
         /\ Len(Tail(Contents)) = counter - 1
         /\ \A i \in 1 .. counter - 1 : Tail(Contents)[i] = Contents[i + 1]
<1>1. counter >= 1 /\ counter \in 0 .. Depth - 1 /\ rd_addr \in Addresses
  BY DEF FifoInv, Driven, PointersAgree, o_empty, FifoTypeOK, Addresses
<1>2. taken' = ram[rd_addr]
  BY DEF FifoInv, Driven, PointersAgree
<1>3. Place(rd_addr, 0) = rd_addr
  BY <1>1, PlaceFacts
<1>4. Contents \in Seq(Stored) /\ Len(Contents) = counter
  BY ContentsFacts DEF FifoInv
<1>5. Contents[1] = ram[Place(rd_addr, 1 - 1)]
  BY <1>1, ContentsFacts DEF FifoInv
<1>6. Contents # << >>
  BY <1>1, <1>4
<1>7. Head(Contents) = Contents[1]
  BY <1>4, <1>6
<1>8. QED
  BY <1>1, <1>2, <1>3, <1>4, <1>5, <1>6, <1>7, HeadTailProperties

\* A clock of the FIFO is a step of the queue, or changes nothing in it.
LEMMA DrivenRefines ==
  ASSUME FifoInv, FifoInv', NEW i_reset \in BOOLEAN, NEW i_write \in BOOLEAN,
         NEW i_read \in BOOLEAN, NEW i_data \in Data,
         Driven(i_reset, i_write, i_read, i_data)
  PROVE  [Queue!Next]_<<Contents, taken>>
<1> USE DEF FifoInv
<1>1. Contents \in Seq(Stored) /\ Len(Contents) = counter
  BY ContentsFacts
<1>2. /\ counter \in 0 .. Depth - 1 /\ rd_addr \in Addresses
      /\ i_data \in Stored
  BY DEF FifoTypeOK, Addresses, Stored
<1>3. CASE i_reset
  <2>1. counter' = 0 /\ taken' = taken
    BY <1>3 DEF Driven, FifoClock
  <2>2. << >> \in Seq(Stored) /\ Len(<< >>) = 0
    BY EmptySeq
  <2>3. Contents' \in Seq(Stored) /\ Len(Contents') = 0
    BY <2>1, ContentsFactsNext
  <2>4. Contents' = << >>
    BY <2>3
  <2>5. QED
    BY <2>1, <2>4 DEF Queue!Next, Queue!Empty
<1>4. CASE ~i_reset /\ ~i_write /\ ~i_read
  <2>1. counter' = counter /\ rd_addr' = rd_addr /\ taken' = taken
    BY <1>4 DEF Driven, FifoClock, Count
  <2>2. \A i \in 1 .. counter : Contents[i] = ram'[Place(rd_addr, i - 1)]
    BY <1>4, EntriesStay
  <2>3. Contents' = Contents
    BY <1>1, <2>1, <2>2, ContentsNextAre
  <2>4. QED
    BY <2>1, <2>3
<1>5. CASE ~i_reset /\ i_write /\ ~i_read
  <2>1. /\ counter < Depth - 1 /\ counter' = counter + 1
        /\ rd_addr' = rd_addr /\ taken' = taken
    BY <1>2, <1>5, DepthAssumption DEF Driven, FifoClock, Count, Up, o_full
  <2>2. \A i \in 1 .. counter : Contents[i] = ram'[Place(rd_addr, i - 1)]
    BY <1>5, EntriesStay
  <2>3. ram'[Place(rd_addr, counter)] = i_data
    BY <1>5, NewEntry
  <2> DEFINE longer == Append(Contents, i_data)
  <2>4. /\ longer \in Seq(Stored) /\ Len(longer) = counter + 1
        /\ \A i \in 1 .. counter : longer[i] = Contents[i]
        /\ longer[counter + 1] = i_data
    BY <1>1, <1>2, AppendFacts
  <2> HIDE DEF longer
  <2>5. ASSUME NEW i \in 1 .. counter'
        PROVE  longer[i] = ram'[Place(rd_addr', i - 1)]
    <3>1. CASE i = counter + 1
      BY <1>2, <2>1, <2>3, <2>4, <3>1
    <3>2. CASE i # counter + 1
      BY <1>2, <2>1, <2>2, <2>4, <3>2
    <3>3. QED
      BY <3>1, <3>2
  <2>6. Contents' = longer
    BY <2>1, <2>4, <2>5, ContentsNextAre
  <2>7. Len(Contents) < Depth - 1
    BY <1>1, <2>1
  <2>8. QED
    BY <2>1, <2>6, <2>7 DEF longer, Queue!Next, Queue!Put
<1>6. CASE ~i_reset /\ i_read
  <2>1. /\ rd_addr' = Up(rd_addr)
        /\ ~i_write => counter' = counter - 1
        /\ i_write => counter' = counter
    <3>1. counter # 0
      BY <1>6 DEF Driven, PointersAgree, o_empty
    <3>2. QED
      BY <1>2, <1>6, <3>1 DEF Driven, FifoClock, Count, Down
  <2>2. /\ Contents # << >> /\ taken' = Head(Contents)
        /\ Tail(Contents) \in Seq(Stored)
        /\ Len(Tail(Contents)) = counter - 1
        /\ \A i \in 1 .. counter - 1 : Tail(Contents)[i] = Contents[i + 1]
    BY <1>6, HeadTaken
  <2>3. \A i \in 1 .. counter : ram'[Place(rd_addr, i - 1)] = Contents[i]
    BY <1>6, EntriesStay
  <2>4. ASSUME NEW i \in 1 .. counter
        PROVE  Place(rd_addr', i - 1) = Place(rd_addr, i)
    <3>1. i - 1 \in 0 .. Depth - 2 /\ (i - 1) + 1 = i
      BY <1>2, DepthAssumption
    <3>2. QED
      BY <1>2, <2>1, <3>1, PlaceFacts
  <2>5. ASSUME NEW i \in 1 .. counter - 1
        PROVE  Tail(Contents)[i] = ram'[Place(rd_addr', i - 1)]
    <3>1. i \in 1 .. counter /\ i + 1 \in 1 .. counter /\ (i + 1) - 1 = i
      BY <1>2, DepthAssumption
    <3>2. QED
      BY <2>2, <2>3, <2>4, <3>1
  <2>6. CASE ~i_write
    <3>1. Contents' = Tail(Contents)
      BY <2>1, <2>2, <2>5, <2>6, ContentsNextAre
    <3>2. QED
      BY <2>2, <3>1 DEF Queue!Next, Queue!Take
  <2>7. CASE i_write
    <3> DEFINE exchanged == Append(Tail(Contents), i_data)
    <3>1. /\ exchanged \in Seq(Stored)
          /\ Len(exchanged) = counter
          /\ \A i \in 1 .. counter - 1 : exchanged[i] = Tail(Contents)[i]
          /\ exchanged[counter] = i_data
      BY <1>2, <2>2, AppendFacts
    <3> HIDE DEF exchanged
    <3>2. counter \in 1 .. counter /\ ram'[Place(rd_addr', counter - 1)] = i_data
      <4>1. counter # 0
        BY <1>6 DEF Driven, PointersAgree, o_empty
      <4>2. counter \in 1 .. counter
        BY <1>2, <4>1, DepthAssumption
      <4>3. ram'[Place(rd_addr, counter)] = i_data
        BY <1>6, <2>7, NewEntry
      <4>4. QED
        BY <2>4, <4>2, <4>3
    <3>3. ASSUME NEW i \in 1 .. counter'
          PROVE  exchanged[i] = ram'[Place(rd_addr', i - 1)]
      <4>1. CASE i = counter
        BY <3>1, <3>2, <4>1
      <4>2. CASE i # counter
        <5>1. i \in 1 .. counter - 1
          BY <1>2, <2>1, <2>7, <4>2, DepthAssumption
        <5>2. QED
          BY <2>5, <3>1, <5>1
      <4>3. QED
        BY <4>1, <4>2
    <3>4. Contents' = exchanged
      BY <2>1, <2>7, <3>1, <3>3, ContentsNextAre
    <3>5. QED
      BY <2>2, <3>4 DEF exchanged, Queue!Next, Queue!Exchange
  <2>8. QED
    BY <2>6, <2>7
<1>7. QED
  BY <1>3, <1>4, <1>5, <1>6

LEMMA NextRefines ==
  ASSUME FifoInv, FifoInv', [FifoNext]_fifoVars
  PROVE  [Queue!Next]_<<Contents, taken>>
<1>1. CASE FifoNext
  <2>1. PICK i_reset, i_write, i_read \in BOOLEAN, i_data \in Data :
          Driven(i_reset, i_write, i_read, i_data)
    BY <1>1 DEF FifoNext, Driven
  <2>2. QED
    BY <2>1, DrivenRefines
<1>2. CASE UNCHANGED fifoVars
  BY <1>2 DEF fifoVars, fifoRegs, Contents, Place
<1>3. QED
  BY <1>1, <1>2

LEMMA InitRefines == ASSUME DrivenInit PROVE Queue!Init
<1>1. FifoTypeOK /\ counter = 0
  BY InitType DEF DrivenInit, FifoInit
<1>2. Contents \in Seq(Stored) /\ Len(Contents) = 0
  BY <1>1, ContentsFacts
<1>3. Contents = << >>
  BY <1>2
<1>4. QED
  BY <1>3 DEF Queue!Init

(***************************************************************************)
(* For every depth, the FIFO driven with discipline is a queue of          *)
(* Depth - 1 places: fifo.v and dp_ram.v lose nothing, repeat nothing and  *)
(* let nothing overtake, through every wrap of the two addresses.          *)
(***************************************************************************)
THEOREM FifoIsQueue == DrivenSpec => ImplementsQueue
<1>1. DrivenInit => Queue!Init
  BY InitRefines
<1>2. FifoInv /\ FifoInv' /\ [FifoNext]_fifoVars
        => [Queue!Next]_<<Contents, taken>>
  BY NextRefines
<1>3. QED
  BY <1>1, <1>2, Invariance, PTL DEF DrivenSpec, ImplementsQueue, Queue!Spec
-----------------------------------------------------------------------------
(***************************************************************************)
(* Proofs, for operands and results of every width.                        *)
(***************************************************************************)

\* Squares, as far as the loop needs them.
LEMMA NextSquare == \A k \in Int : (k + 1) * (k + 1) = k * k + 2 * k + 1
  OBVIOUS

LEMMA SquareOrder ==
  ASSUME NEW m \in Nat, NEW n \in Nat, m * m < n * n
  PROVE  m < n
<1>1. SUFFICES ASSUME n <= m PROVE FALSE
  OBVIOUS
<1>2. PICK d \in Nat : m = n + d
  <2>1. m - n \in Nat /\ m = n + (m - n)
    BY <1>1
  <2>2. QED
    BY <2>1
<1>3. m * m = n * n + (2 * n * d + d * d)
  BY <1>2
<1>4. 2 * n * d \in Nat /\ d * d \in Nat
  BY <1>2
<1>5. QED
  BY <1>3, <1>4

LEMMA SmallWords ==
  /\ Root * Root \in Nat /\ Root * Root > 0
  /\ 0 \in Words /\ 1 \in Words /\ 3 \in Words
  /\ \A n \in Nat : n % (Root * Root) \in Words
  /\ \A n \in Nat : n < Root * Root => n % (Root * Root) = n
<1>1. PICK d \in Nat : Root = 2 + d
  <2>1. Root - 2 \in Nat /\ Root = 2 + (Root - 2)
    BY WidthAssumption
  <2>2. QED
    BY <2>1
<1>2. Root * Root = 4 + (4 * d + d * d)
  BY <1>1
<1>3. 4 * d \in Nat /\ d * d \in Nat
  BY <1>1
<1>4. Root * Root \in Nat /\ Root * Root >= 4 /\ Root * Root > 0
  BY <1>2, <1>3
<1> DEFINE M == Root * Root
<1>5. M \in Nat /\ M >= 4
  BY <1>4
<1> HIDE DEF M
<1>6. /\ 0 \in 0 .. M - 1 /\ 1 \in 0 .. M - 1 /\ 3 \in 0 .. M - 1
      /\ \A n \in Nat : n % M \in 0 .. M - 1
      /\ \A n \in Nat : n < M => n % M = n
  BY <1>5
<1>7. Words = 0 .. M - 1 /\ M = Root * Root
  BY DEF M, Words
<1>8. QED
  BY <1>4, <1>6, <1>7, Zenon

(***************************************************************************)
(* The inductive invariant.  The squares stay in step (SquaresInStep); the *)
(* loop has gone past an odd number only when its square was not above a;  *)
(* and the flag that ended it says that the square reached is.             *)
(***************************************************************************)
Searching ==
  /\ present_state = "start" => sq = 1 /\ del = 3
  /\ present_state # "done" => root = 0
  /\ present_state = "done" => root \in {0, dm1}
  /\ present_state \in {"test", "update", "done"} /\ Fits
       => (Level - 1) * (Level - 1) <= a
  /\ present_state = "update" => sq <= a
  /\ present_state = "done" => a < sq

SqrtInv == TypeOK /\ SquaresInStep /\ Searching

LEMMA SqrtInitInv == ASSUME Init PROVE SqrtInv
<1>1. TypeOK
  BY SmallWords, WidthAssumption DEF Init, TypeOK
<1>2. QED
  BY <1>1 DEF Init, SqrtInv, SquaresInStep, Searching, Level

LEMMA SqrtClearInv == ASSUME SqrtInv, Clear PROVE SqrtInv'
<1>1. TypeOK'
  BY SmallWords, WidthAssumption DEF Clear, TypeOK
<1>2. QED
  BY <1>1 DEF Clear, SqrtInv, SquaresInStep, Searching, Level

LEMMA SqrtStartInv ==
  ASSUME SqrtInv, NEW go \in BOOLEAN, NEW sw \in Words, Start(go, sw)
  PROVE  SqrtInv'
<1>1. TypeOK'
  BY DEF SqrtInv, Start, TypeOK
<1>2. /\ sq' = 1 /\ del' = 3 /\ root' = 0 /\ a' \in Nat
      /\ present_state' \in {"start", "test"}
  BY SmallWords DEF SqrtInv, Start, Searching, Words
<1>3. QED
  BY <1>1, <1>2 DEF SqrtInv, SquaresInStep, Searching, Level

LEMMA SqrtTestInv == ASSUME SqrtInv, Test PROVE SqrtInv'
<1>1. TypeOK'
  BY DEF SqrtInv, Test, TypeOK
<1>2. sq \in Int /\ a \in Int
  BY SmallWords DEF SqrtInv, TypeOK, Words
<1>3. QED
  BY <1>1, <1>2 DEF SqrtInv, Test, lteflg, SquaresInStep, Searching, Level, Fits

LEMMA SqrtUpdateInv == ASSUME SqrtInv, Update PROVE SqrtInv'
<1>1. /\ present_state = "update" /\ present_state' = "test"
      /\ sq' = s /\ del' = dp2 /\ UNCHANGED <<a, root>>
  BY DEF Update
<1>2. a \in Nat /\ sq \in Nat /\ del \in Nat
  BY SmallWords DEF SqrtInv, TypeOK, Words
<1>3. TypeOK'
  <2>1. sq + del \in Nat /\ del + 2 \in Nat
    BY <1>2
  <2>2. s \in Words /\ dp2 \in Words
    BY <2>1, SmallWords DEF s, dp2
  <2>3. QED
    BY <1>1, <2>2 DEF SqrtInv, TypeOK
<1>4. ASSUME Fits
      PROVE  /\ del' = 2 * Level' + 1 /\ Level' >= 1
             /\ sq' = Level' * Level'
             /\ (Level' - 1) * (Level' - 1) <= a
  <2> DEFINE k == Level
  <2>1. del = 2 * k + 1 /\ k \in Nat /\ k >= 1 /\ sq = k * k /\ sq <= a
    BY <1>1, <1>2, <1>4 DEF SqrtInv, SquaresInStep, Searching, Level
  <2> HIDE DEF k
  <2>2. Root - 1 \in Nat /\ Root \in Nat
    BY WidthAssumption
  <2>3. k < Root - 1
    <3>1. k * k < (Root - 1) * (Root - 1)
      BY <1>2, <1>4, <2>1, <2>2 DEF Fits
    <3>2. QED
      BY <2>1, <2>2, <3>1, SquareOrder
  <2>4. (k + 1) * (k + 1) < Root * Root /\ 2 * (k + 1) + 1 < Root * Root
    <3>1. PICK d \in Nat : Root = k + 2 + d
      <4>1. Root - (k + 2) \in Nat /\ Root = k + 2 + (Root - (k + 2))
        BY <2>1, <2>2, <2>3
      <4>2. QED
        BY <4>1
    <3>2. Root * Root = (k + 1) * (k + 1) + 2 * (k + 1) * (1 + d) + (1 + d) * (1 + d)
      BY <2>1, <3>1
    <3>3. 2 * (k + 1) * (1 + d) = 2 * (k + 1) + 2 * k * d + 2 * d
      BY <2>1
    <3>4. (1 + d) * (1 + d) = 1 + 2 * d + d * d
      OBVIOUS
    <3>5. /\ (k + 1) * (k + 1) \in Nat /\ k * d \in Nat /\ d * d \in Nat
          /\ (k + 1) * (k + 1) = k * k + 2 * k + 1 /\ k * k \in Nat /\ k * k >= 1
      BY <2>1, NextSquare
    <3>6. 2 * k * d = 2 * (k * d)
      BY <2>1
    <3>7. QED
      BY <2>1, <3>2, <3>3, <3>4, <3>5, <3>6
  <2>5. sq' = (k + 1) * (k + 1) /\ del' = 2 * (k + 1) + 1
    <3>1. sq + del = (k + 1) * (k + 1) /\ del + 2 = 2 * (k + 1) + 1
      BY <2>1, NextSquare
    <3>2. (k + 1) * (k + 1) \in Nat /\ 2 * (k + 1) + 1 \in Nat
      BY <2>1
    <3>3. QED
      BY <1>1, <2>4, <3>1, <3>2, SmallWords DEF s, dp2
  <2>6. Level' = k + 1
    BY <2>1, <2>5 DEF Level
  <2>7. QED
    BY <2>1, <2>5, <2>6
<1>5. QED
  BY <1>1, <1>3, <1>4 DEF SqrtInv, SquaresInStep, Searching, Fits

\* What the minus1 of the datapath can give.
LEMMA ResultRange == \A n \in Int : (n % RootWidth) \in 0 .. RootWidth - 1
<1>1. RootWidth \in Nat /\ RootWidth > 0
  BY WidthAssumption
<1>2. QED
  BY <1>1

LEMMA SqrtDoneInv == ASSUME SqrtInv, Done PROVE SqrtInv'
<1>1. TypeOK'
  <2>1. del \in Nat
    BY SmallWords DEF SqrtInv, TypeOK, Words
  <2>2. del \div 2 \in Int
    BY <2>1
  <2>3. ((del \div 2) % RootWidth) - 1 \in Int
    BY <2>2, ResultRange
  <2>4. dm1 \in 0 .. RootWidth - 1
    BY <2>3, ResultRange DEF dm1
  <2>5. QED
    BY <2>4 DEF SqrtInv, Done, TypeOK
<1>2. QED
  BY <1>1 DEF SqrtInv, Done, SquaresInStep, Searching, Level, Fits, dm1

LEMMA SqrtNextInv == ASSUME SqrtInv, [Next]_sqrtVars PROVE SqrtInv'
<1>1. CASE Clear
  BY <1>1, SqrtClearInv
<1>2. ASSUME NEW go \in BOOLEAN, NEW sw \in Words, Start(go, sw)
      PROVE  SqrtInv'
  BY <1>2, SqrtStartInv
<1>3. CASE Test
  BY <1>3, SqrtTestInv
<1>4. CASE Update
  BY <1>4, SqrtUpdateInv
<1>5. CASE Done
  BY <1>5, SqrtDoneInv
<1>6. CASE UNCHANGED sqrtVars
  BY <1>6 DEF sqrtVars, SqrtInv, TypeOK, SquaresInStep, Searching, Level, Fits, dm1
<1>7. QED
  BY <1>1, <1>2, <1>3, <1>4, <1>5, <1>6 DEF Next, Clock

LEMMA SqrtInvariance == Spec => []SqrtInv
<1>1. Init => SqrtInv
  BY SqrtInitInv
<1>2. SqrtInv /\ [Next]_sqrtVars => SqrtInv'
  BY SqrtNextInv
<1>3. QED
  BY <1>1, <1>2, PTL DEF Spec

\* When the loop has ended, the level before the last is the root.
LEMMA RootFromInv == ASSUME SqrtInv PROVE RootCorrect
<1> SUFFICES ASSUME present_state = "done", Fits
             PROVE  IsRootOf(dm1, a) /\ root \in {0, dm1}
  BY DEF RootCorrect
<1> DEFINE k == Level
<1>1. /\ del = 2 * k + 1 /\ k \in Nat /\ k >= 1 /\ sq = k * k
      /\ (k - 1) * (k - 1) <= a /\ a < k * k /\ k = del \div 2
      /\ a \in Nat
  BY SmallWords DEF SqrtInv, TypeOK, Words, SquaresInStep, Searching, Level
<1> HIDE DEF k
<1>2. Root \in Nat /\ RootWidth \in Nat /\ Root <= RootWidth
  BY WidthAssumption
<1>3. k - 1 < Root - 1
  <2>1. (k - 1) * (k - 1) < (Root - 1) * (Root - 1)
    BY <1>1, <1>2 DEF Fits
  <2>2. k - 1 \in Nat /\ Root - 1 \in Nat
    BY <1>1, <1>2, WidthAssumption
  <2>3. QED
    BY <2>1, <2>2, SquareOrder
<1>4. k % RootWidth = k /\ (k - 1) % RootWidth = k - 1
  BY <1>1, <1>2, <1>3
<1>5. dm1 = k - 1
  BY <1>1, <1>4 DEF dm1
<1>6. QED
  BY <1>1, <1>5 DEF IsRootOf, SqrtInv, Searching

(***************************************************************************)
(* The registers keep their widths.                                        *)
(***************************************************************************)
THEOREM SqrtTypeCorrect == Spec => []TypeOK
<1>1. SqrtInv => TypeOK
  BY DEF SqrtInv
<1>2. QED
  BY <1>1, SqrtInvariance, PTL

(***************************************************************************)
(* sq is the square of the level that del stands for, at every width and   *)
(* for every operand below the largest square but one.                     *)
(***************************************************************************)
THEOREM SquaresStayInStep == Spec => []SquaresInStep
<1>1. SqrtInv => SquaresInStep
  BY DEF SqrtInv
<1>2. QED
  BY <1>1, SqrtInvariance, PTL

(***************************************************************************)
(* What SQRT.v hands over in state done is the integer square root of the  *)
(* operand.                                                                *)
(***************************************************************************)
THEOREM RootIsCorrect == Spec => []RootCorrect
<1>1. SqrtInv => RootCorrect
  BY RootFromInv
<1>2. QED
  BY <1>1, SqrtInvariance, PTL

(***************************************************************************)
(* The square root is sound at every clock: the three together.            *)
(***************************************************************************)
THEOREM RootAlwaysSound == Spec => []RootIsSound
<1>1. TypeOK /\ SquaresInStep /\ RootCorrect => RootIsSound
  BY DEF RootIsSound
<1>2. QED
  BY <1>1, SqrtTypeCorrect, SquaresStayInStep, RootIsCorrect, PTL

(***************************************************************************)
(* The gradient and its histogram: sums, squares and roots, then what the  *)
(* pipeline holds of what was given to it.                                 *)
(***************************************************************************)

\* A sum is that of one number less, and the last one.
LEMMA SumIs ==
  ASSUME NEW n \in Nat, NEW numbers, \A i \in 1 .. n : numbers[i] \in Int
  PROVE  \E sum \in [0 .. n -> Int] :
           /\ sum[0] = 0 /\ \A i \in 1 .. n : sum[i] = sum[i - 1] + numbers[i]
           /\ SumTo(n, numbers) = sum[n]
<1> DEFINE G == [q \in (1 .. n) \X Int |-> q[2] + numbers[q[1]]]
           Sums(f) == f = [i \in 0 .. n |-> IF i = 0 THEN 0 ELSE f[i - 1] + numbers[i]]
           sum == CHOOSE f : Sums(f)
           T == {i \in 0 .. n : sum[i] \in Int}
<1>1. \E f : Sums(f)
  <2>1. G \in [(1 .. n) \X Int -> Int]
    OBVIOUS
  <2>2. \A i \in 1 .. n, z \in Int : G[<<i, z>>] = z + numbers[i]
    OBVIOUS
  <2> HIDE DEF G
  <2>3. PICK f : Recurs(f, n, Int, 0, G)
    <3>1. 0 \in Int /\ n \in Nat
      OBVIOUS
    <3> DEFINE S == Int
    <3>2. G \in [(1 .. n) \X S -> S] /\ 0 \in S
      BY <2>1
    <3> HIDE DEF S
    <3>3. \E f : Recurs(f, n, S, 0, G)
      BY <3>1, <3>2, RecursiveFunction
    <3> QED
      BY <3>3 DEF S
  <2>4. f = [i \in 0 .. n |-> f[i]] /\ f[0] = 0
    BY <2>3 DEF Recurs
  <2>5. ASSUME NEW i \in 0 .. n, i # 0 PROVE f[i] = f[i - 1] + numbers[i]
    <3>1. i \in 1 .. n /\ i - 1 \in 0 .. n
      BY <2>5
    <3>2. f[i - 1] \in Int
      BY <2>3, <3>1 DEF Recurs
    <3> QED
      BY <2>2, <2>3, <3>1, <3>2 DEF Recurs
  <2>6. Sums(f)
    BY <2>4, <2>5
  <2> QED
    BY <2>6
<1>2. Sums(sum)
  BY <1>1
<1>3. SumTo(n, numbers) = sum[n]
  BY DEF SumTo
<1> HIDE DEF sum
<1>4. sum[0] = 0 /\ \A i \in 1 .. n : sum[i] = sum[i - 1] + numbers[i]
  BY <1>2
<1>5. 0 \in T
  BY <1>4
<1>6. ASSUME NEW k \in 0 .. n - 1, k \in T PROVE k + 1 \in T
  <2>1. k + 1 \in 1 .. n /\ k + 1 \in 0 .. n /\ (k + 1) - 1 = k /\ sum[k] \in Int
    BY <1>6
  <2>2. sum[k + 1] = sum[k] + numbers[k + 1] /\ numbers[k + 1] \in Int
    BY <1>4, <2>1
  <2> QED
    BY <2>1, <2>2
<1>7. 0 .. n \subseteq T
  <2> HIDE DEF T
  <2> QED
    BY <1>5, <1>6, InductionUpTo
<1>8. sum \in [0 .. n -> Int]
  <2>1. sum = [i \in 0 .. n |-> sum[i]]
    BY <1>2
  <2> QED
    BY <1>7, <2>1
<1> QED
  BY <1>3, <1>4, <1>8

\* Sums of the same numbers are the same.
LEMMA SumOfSame ==
  ASSUME NEW n \in Nat, NEW f, NEW g, \A i \in 1 .. n : f[i] \in Int /\ g[i] = f[i]
  PROVE  SumTo(n, f) = SumTo(n, g) /\ SumTo(n, f) \in Int
<1>1. PICK sf \in [0 .. n -> Int] :
        /\ sf[0] = 0 /\ \A i \in 1 .. n : sf[i] = sf[i - 1] + f[i]
        /\ SumTo(n, f) = sf[n]
  BY SumIs
<1>2. PICK sg \in [0 .. n -> Int] :
        /\ sg[0] = 0 /\ \A i \in 1 .. n : sg[i] = sg[i - 1] + g[i]
        /\ SumTo(n, g) = sg[n]
  <2>1. \A i \in 1 .. n : g[i] \in Int
    OBVIOUS
  <2> QED
    BY <2>1, SumIs
<1> DEFINE T == {i \in 0 .. n : sf[i] = sg[i]}
<1>3. 0 \in T
  BY <1>1, <1>2
<1>4. ASSUME NEW k \in 0 .. n - 1, k \in T PROVE k + 1 \in T
  <2>1. k + 1 \in 1 .. n /\ k + 1 \in 0 .. n /\ (k + 1) - 1 = k /\ sf[k] = sg[k]
    BY <1>4
  <2> QED
    BY <1>1, <1>2, <2>1
<1>5. 0 .. n \subseteq T
  <2> HIDE DEF T
  <2> QED
    BY <1>3, <1>4, InductionUpTo
<1> QED
  BY <1>1, <1>2, <1>5

\* The sum of zeros, of no numbers, and of one number more.
LEMMA SumOfZeros ==
  ASSUME NEW n \in Nat, NEW f, \A i \in 1 .. n : f[i] = 0
  PROVE  SumTo(n, f) = 0
<1>1. PICK sum \in [0 .. n -> Int] :
        /\ sum[0] = 0 /\ \A i \in 1 .. n : sum[i] = sum[i - 1] + f[i]
        /\ SumTo(n, f) = sum[n]
  <2>1. \A i \in 1 .. n : f[i] \in Int
    OBVIOUS
  <2> QED
    BY <2>1, SumIs
<1> DEFINE T == {i \in 0 .. n : sum[i] = 0}
<1>2. 0 \in T
  BY <1>1
<1>3. ASSUME NEW k \in 0 .. n - 1, k \in T PROVE k + 1 \in T
  <2>1. k + 1 \in 1 .. n /\ k + 1 \in 0 .. n /\ (k + 1) - 1 = k /\ sum[k] = 0
    BY <1>3
  <2>2. sum[k + 1] = sum[k] + f[k + 1] /\ f[k + 1] = 0
    BY <1>1, <2>1
  <2> QED
    BY <2>1, <2>2
<1>4. 0 .. n \subseteq T
  <2> HIDE DEF T
  <2> QED
    BY <1>2, <1>3, InductionUpTo
<1> QED
  BY <1>1, <1>4

LEMMA SumNone == ASSUME NEW f PROVE SumTo(0, f) = 0
<1>1. \A i \in 1 .. 0 : f[i] \in Int
  OBVIOUS
<1> QED
  BY <1>1, SumIs

LEMMA SumOneMore ==
  ASSUME NEW n \in Nat, NEW f, NEW g, \A i \in 1 .. n : g[i] = f[i],
         \A i \in 1 .. n + 1 : f[i] \in Int
  PROVE  SumTo(n + 1, f) = SumTo(n, g) + f[n + 1] /\ SumTo(n, g) \in Int
<1>1. PICK sum \in [0 .. n + 1 -> Int] :
        /\ sum[0] = 0 /\ \A i \in 1 .. n + 1 : sum[i] = sum[i - 1] + f[i]
        /\ SumTo(n + 1, f) = sum[n + 1]
  <2>1. n + 1 \in Nat
    OBVIOUS
  <2> QED
    BY <2>1, SumIs
<1>2. PICK sg \in [0 .. n -> Int] :
        /\ sg[0] = 0 /\ \A i \in 1 .. n : sg[i] = sg[i - 1] + g[i]
        /\ SumTo(n, g) = sg[n]
  <2>1. \A i \in 1 .. n : g[i] \in Int
    OBVIOUS
  <2> QED
    BY <2>1, SumIs
<1> DEFINE T == {i \in 0 .. n : sum[i] = sg[i]}
<1>3. 0 \in T
  BY <1>1, <1>2
<1>4. ASSUME NEW k \in 0 .. n - 1, k \in T PROVE k + 1 \in T
  <2>1. k + 1 \in 1 .. n /\ k + 1 \in 1 .. n + 1 /\ k + 1 \in 0 .. n /\ (k + 1) - 1 = k /\ sum[k] = sg[k]
    BY <1>4
  <2> QED
    BY <1>1, <1>2, <2>1
<1>5. 0 .. n \subseteq T
  <2> HIDE DEF T
  <2> QED
    BY <1>3, <1>4, InductionUpTo
<1>6. n + 1 \in 1 .. n + 1 /\ (n + 1) - 1 = n /\ n \in 0 .. n
  OBVIOUS
<1> QED
  BY <1>1, <1>2, <1>5, <1>6

MaskValues == {1, 2, 4, 8, 16, 32, 64, 128, 256, 512}

\* The masks of a number pick its binary digits.
LEMMA MaskIs ==
  ASSUME NEW i \in 1 .. 10
  PROVE  /\ Masks[i] \in MaskValues
         /\ i < 10 => Masks[i + 1] = 2 * Masks[i]
         /\ i = 10 => Masks[i] = 512
<1>1. i \in {1, 2, 3, 4, 5, 6, 7, 8, 9, 10}
  OBVIOUS
<1> QED
  BY <1>1 DEF Masks, MaskValues

\* One digit more of a number.
LEMMA DigitAdds ==
  ASSUME NEW v \in Nat, NEW w \in MaskValues
  PROVE  /\ (v % (2 * w)) = (v % w) + ((v \div w) % 2) * w
         /\ (v \div w) % 2 \in {0, 1} /\ (v % w) \in Nat
<1>1. CASE w = 1
  <2>1. (v % 2) = (v % 1) + ((v \div 1) % 2) * 1
    OBVIOUS
  <2>2. (v \div 1) % 2 \in {0, 1} /\ (v % 1) \in Nat
    OBVIOUS
  <2> QED
    BY <1>1, <2>1, <2>2
<1>2. CASE w = 2
  <2>1. (v % 4) = (v % 2) + ((v \div 2) % 2) * 2
    OBVIOUS
  <2>2. (v \div 2) % 2 \in {0, 1} /\ (v % 2) \in Nat
    OBVIOUS
  <2> QED
    BY <1>2, <2>1, <2>2
<1>3. CASE w = 4
  <2>1. (v % 8) = (v % 4) + ((v \div 4) % 2) * 4
    OBVIOUS
  <2>2. (v \div 4) % 2 \in {0, 1} /\ (v % 4) \in Nat
    OBVIOUS
  <2> QED
    BY <1>3, <2>1, <2>2
<1>4. CASE w = 8
  <2>1. (v % 16) = (v % 8) + ((v \div 8) % 2) * 8
    OBVIOUS
  <2>2. (v \div 8) % 2 \in {0, 1} /\ (v % 8) \in Nat
    OBVIOUS
  <2> QED
    BY <1>4, <2>1, <2>2
<1>5. CASE w = 16
  <2>1. (v % 32) = (v % 16) + ((v \div 16) % 2) * 16
    OBVIOUS
  <2>2. (v \div 16) % 2 \in {0, 1} /\ (v % 16) \in Nat
    OBVIOUS
  <2> QED
    BY <1>5, <2>1, <2>2
<1>6. CASE w = 32
  <2>1. (v % 64) = (v % 32) + ((v \div 32) % 2) * 32
    OBVIOUS
  <2>2. (v \div 32) % 2 \in {0, 1} /\ (v % 32) \in Nat
    OBVIOUS
  <2> QED
    BY <1>6, <2>1, <2>2
<1>7. CASE w = 64
  <2>1. (v % 128) = (v % 64) + ((v \div 64) % 2) * 64
    OBVIOUS
  <2>2. (v \div 64) % 2 \in {0, 1} /\ (v % 64) \in Nat
    OBVIOUS
  <2> QED
    BY <1>7, <2>1, <2>2
<1>8. CASE w = 128
  <2>1. (v % 256) = (v % 128) + ((v \div 128) % 2) * 128
    OBVIOUS
  <2>2. (v \div 128) % 2 \in {0, 1} /\ (v % 128) \in Nat
    OBVIOUS
  <2> QED
    BY <1>8, <2>1, <2>2
<1>9. CASE w = 256
  <2>1. (v % 512) = (v % 256) + ((v \div 256) % 2) * 256
    OBVIOUS
  <2>2. (v \div 256) % 2 \in {0, 1} /\ (v % 256) \in Nat
    OBVIOUS
  <2> QED
    BY <1>9, <2>1, <2>2
<1>10. CASE w = 512
  <2>1. (v % 1024) = (v % 512) + ((v \div 512) % 2) * 512
    OBVIOUS
  <2>2. (v \div 512) % 2 \in {0, 1} /\ (v % 512) \in Nat
    OBVIOUS
  <2> QED
    BY <1>10, <2>1, <2>2
<1> QED
  BY <1>1, <1>2, <1>3, <1>4, <1>5, <1>6, <1>7, <1>8, <1>9, <1>10 DEF MaskValues

\* What 17 bits keep of a number.
Low17Bits(n) == n % 131072

\* The shifted copies of a number under its digits add up to its square.
LEMMA SquareIs ==
  ASSUME NEW v \in 0 .. 1023
  PROVE  Square(v) = Low17Bits(v * v)
<1> DEFINE f == [i \in 1 .. 10 |-> ((v \div Masks[i]) % 2) * (v * Masks[i])]
           Below(i) == IF i = 10 THEN v ELSE v % Masks[i + 1]
<1>1. v \in Nat
  OBVIOUS
<1>2. ASSUME NEW i \in 1 .. 10
      PROVE  /\ f[i] = ((v \div Masks[i]) % 2) * (v * Masks[i]) /\ f[i] \in Int
  <2>1. Masks[i] \in MaskValues
    BY MaskIs
  <2>2. (v \div Masks[i]) % 2 \in {0, 1}
    BY <1>1, <2>1, DigitAdds
  <2>3. v * Masks[i] \in Int
    BY <1>1, <2>1 DEF MaskValues
  <2>4. ((v \div Masks[i]) % 2) * (v * Masks[i]) \in Int
    BY <2>2, <2>3
  <2> QED
    BY <2>4
<1>3. PICK sum \in [0 .. 10 -> Int] :
        /\ sum[0] = 0 /\ \A i \in 1 .. 10 : sum[i] = sum[i - 1] + f[i]
        /\ SumTo(10, f) = sum[10]
  <2> HIDE DEF f
  <2>1. 10 \in Nat /\ \A i \in 1 .. 10 : f[i] \in Int
    BY <1>2
  <2> QED
    BY <2>1, SumIs
<1> DEFINE T == {i \in 0 .. 10 : sum[i] = v * Below(i)}
<1>4. 0 \in T
  <2>1. v % Masks[1] = 0
    BY <1>1 DEF Masks, MaskValues
  <2> QED
    BY <1>1, <1>3, <2>1
<1> HIDE DEF f
<1>5. ASSUME NEW k \in 0 .. 9, k \in T PROVE k + 1 \in T
  <2> DEFINE w == Masks[k + 1]
             b == (v \div w) % 2
             m == v % w
  <2>1. k + 1 \in 1 .. 10 /\ k + 1 \in 0 .. 10 /\ (k + 1) - 1 = k /\ k # 10
    OBVIOUS
  <2>2. /\ w \in Nat /\ b \in {0, 1} /\ m \in Nat /\ (v % (2 * w)) = m + b * w
        /\ k + 1 < 10 => Masks[(k + 1) + 1] = 2 * w
        /\ k + 1 = 10 => w = 512
    <3>1. /\ w \in MaskValues
          /\ k + 1 < 10 => Masks[(k + 1) + 1] = 2 * w
          /\ k + 1 = 10 => w = 512
      BY <2>1, MaskIs
    <3>2. (v % (2 * w)) = m + b * w /\ b \in {0, 1} /\ m \in Nat
      <4>1. w \in MaskValues
        BY <3>1
      <4> HIDE DEF w
      <4>2. /\ (v % (2 * w)) = (v % w) + ((v \div w) % 2) * w
            /\ (v \div w) % 2 \in {0, 1} /\ (v % w) \in Nat
        BY <1>1, <4>1, DigitAdds
      <4> QED
        BY <4>2
    <3>3. w \in Nat
      BY <3>1 DEF MaskValues
    <3> QED
      BY <3>1, <3>2, <3>3
  <2>3. sum[k + 1] = sum[k] + b * (v * w)
    BY <1>2, <1>3, <2>1
  <2>4. sum[k] = v * m
    BY <1>5, <2>1
  <2>5. Below(k + 1) = m + b * w
    <3>1. CASE k + 1 < 10
      BY <2>2, <3>1
    <3>2. CASE k + 1 = 10
      <4>1. 2 * w = 1024
        BY <2>2, <3>2
      <4>2. v % 1024 = v
        OBVIOUS
      <4> QED
        BY <2>2, <3>2, <4>1, <4>2
    <3> QED
      BY <2>1, <3>1, <3>2
  <2> HIDE DEF w, b, m, Below
  <2>6. v * m + b * (v * w) = v * (m + b * w)
    <3>1. CASE b = 0
      BY <1>1, <2>2, <3>1
    <3>2. CASE b = 1
      BY <1>1, <2>2, <3>2
    <3> QED
      BY <2>2, <3>1, <3>2
  <2> QED
    BY <2>1, <2>3, <2>4, <2>5, <2>6
<1>6. sum[10] = v * v
  <2> HIDE DEF T
  <2>1. 10 \in Nat /\ \A k \in 0 .. 10 - 1 : k \in T => k + 1 \in T
    BY <1>5
  <2>2. 0 .. 10 \subseteq T
    BY <1>4, <2>1, InductionUpTo
  <2>3. 10 \in T
    BY <2>2
  <2> QED
    BY <2>3 DEF T
<1>7. Square(v) = SumTo(10, f) % 131072
  BY DEF Square, f
<1> QED
  BY <1>3, <1>6, <1>7 DEF Low17Bits

\* A state of the loop, and the values of bit with the levels they are at.
Loops == [m : Int, res : Int, bit : Int]
Levels == {<<1, 0>>, <<4, 1>>, <<16, 2>>, <<64, 3>>, <<256, 4>>, <<1024, 5>>,
           <<4096, 6>>, <<16384, 7>>}

\* What 17 bits hold.
In17Bits(n) == n < 131072

\* The root of n, counted in the roots of bit, is at least q and below t; and
\* there are steps left for all that may come.
Within(n, b, q, t) == q < t /\ q * q * b <= n /\ n < t * t * b
Closing(n, i, r) ==
  \E q \in Nat, t \in Nat, l \in Levels :
    /\ r.bit = l[1] /\ r.res = 2 * (q * l[1]) /\ r.m = n - q * q * l[1]
    /\ Within(n, l[1], q, t)
    /\ i + (t - q) + 2 * l[2] <= RootSteps
Found(n, r) == r.bit = 0 /\ r.res \in Nat /\ IsRoot(r.res, n)

\* What the constants are assumed to be.
LEMMA RootStepsIs == RootSteps \in Nat /\ RootSteps >= 17 /\ SumRange \in Nat /\ SumRange > 0
BY GradientsAssumption DEF GradientsAssumption, GradientsAreReal

\* The next smaller bit is one level down, and there is none below 1.
LEMMA LevelFacts ==
  ASSUME NEW l \in Levels
  PROVE  /\ l[1] \in Nat /\ l[1] > 0 /\ l[2] \in Nat
         /\ l[1] = 1 => l[2] = 0 /\ l[1] \div 4 = 0
         /\ l[1] # 1 => /\ <<l[1] \div 4, l[2] - 1>> \in Levels
                        /\ l[1] = 4 * (l[1] \div 4)
  BY DEF Levels

\* q goes up when its square leaves room for the next odd number.
LEMMA Higher ==
  ASSUME NEW n \in Nat, NEW b \in Nat, NEW q \in Nat, NEW t \in Nat, b > 0,
         Within(n, b, q, t), n - q * q * b >= 2 * (q * b) + b
  PROVE  /\ Within(n, b, q + 1, t)
         /\ (n - q * q * b) - (2 * (q * b) + b) = n - (q + 1) * (q + 1) * b
         /\ 2 * (q * b) + 2 * b = 2 * ((q + 1) * b)
<1>1. (q + 1) * (q + 1) * b = q * q * b + 2 * (q * b) + b
  OBVIOUS
<1>2. q * q * b \in Nat /\ q * b \in Nat /\ (q + 1) * (q + 1) * b \in Nat
  OBVIOUS
<1>3. (q + 1) * (q + 1) * b <= n
  BY <1>1, <1>2
<1>4. ~(t = q + 1)
  BY <1>3 DEF Within
<1>5. q + 1 < t
  BY <1>4 DEF Within
<1>6. 2 * (q * b) + 2 * b = 2 * ((q + 1) * b)
  OBVIOUS
<1> QED
  BY <1>1, <1>2, <1>3, <1>5, <1>6 DEF Within

\* Otherwise the next smaller bit halves the interval.
LEMMA Finer ==
  ASSUME NEW n \in Nat, NEW c \in Nat, NEW q \in Nat, NEW t \in Nat, c > 0,
         Within(n, 4 * c, q, t), ~(n - q * q * (4 * c) >= 2 * (q * (4 * c)) + 4 * c)
  PROVE  /\ Within(n, c, 2 * q, 2 * q + 2)
         /\ n - q * q * (4 * c) = n - (2 * q) * (2 * q) * c
         /\ (2 * (q * (4 * c))) \div 2 = 2 * ((2 * q) * c)
<1>1. q * q * (4 * c) = (2 * q) * (2 * q) * c
  OBVIOUS
<1>2. (2 * q + 2) * (2 * q + 2) * c = q * q * (4 * c) + 2 * (q * (4 * c)) + 4 * c
  OBVIOUS
<1>3. q * q * (4 * c) \in Nat /\ q * (4 * c) \in Nat
  OBVIOUS
<1>4. n < (2 * q + 2) * (2 * q + 2) * c
  BY <1>2, <1>3
<1>5. (2 * (q * (4 * c))) \div 2 = 2 * ((2 * q) * c)
  <2>1. q * (4 * c) = 2 * ((2 * q) * c)
    OBVIOUS
  <2> DEFINE p == q * (4 * c)
  <2>2. p \in Nat
    BY <1>3
  <2> HIDE DEF p
  <2>3. (2 * p) \div 2 = p
    BY <2>2
  <2> QED
    BY <2>1, <2>3 DEF p
<1> QED
  BY <1>1, <1>4, <1>5 DEF Within

\* At the last bit the interval is one root.
LEMMA Narrowed ==
  ASSUME NEW n \in Nat, NEW q \in Nat, NEW t \in Nat,
         Within(n, 1, q, t), ~(n - q * q * 1 >= 2 * (q * 1) + 1)
  PROVE  IsRoot(q, n) /\ (2 * (q * 1)) \div 2 = q
<1>1. q * q * 1 = q * q /\ q * 1 = q /\ (2 * q) \div 2 = q
  OBVIOUS
<1>2. (q + 1) * (q + 1) = q * q + 2 * q + 1 /\ q * q \in Nat
  OBVIOUS
<1> QED
  BY <1>1, <1>2 DEF Within, IsRoot

\* The loop keeps to whole numbers.
LEMMA RootStepType ==
  ASSUME NEW r \in Loops PROVE RootStep(r) \in Loops
<1>1. /\ r.m \in Int /\ r.res \in Int /\ r.bit \in Int
      /\ r = [m |-> r.m, res |-> r.res, bit |-> r.bit]
  BY DEF Loops
<1>2. /\ r.m - (r.res + r.bit) \in Int /\ r.res + 2 * r.bit \in Int
      /\ r.res \div 2 \in Int /\ r.bit \div 4 \in Int
  BY <1>1
<1>3. CASE r.bit = 0
  BY <1>3 DEF RootStep
<1>4. CASE r.bit # 0 /\ r.m >= r.res + r.bit
  <2>1. RootStep(r) = [m |-> r.m - (r.res + r.bit), res |-> r.res + 2 * r.bit, bit |-> r.bit]
    BY <1>1, <1>4 DEF RootStep
  <2> QED
    BY <1>1, <1>2, <2>1 DEF Loops
<1>5. CASE r.bit # 0 /\ ~(r.m >= r.res + r.bit)
  <2>1. RootStep(r) = [m |-> r.m, res |-> r.res \div 2, bit |-> r.bit \div 4]
    BY <1>1, <1>5 DEF RootStep
  <2> QED
    BY <1>1, <1>2, <2>1 DEF Loops
<1> QED
  BY <1>3, <1>4, <1>5

\* Every pass of the loop leaves one pass less to do, and what is found stays.
LEMMA RootStepSearches ==
  ASSUME NEW n \in Nat, NEW i \in Nat, NEW r \in Loops,
         Closing(n, i, r) \/ Found(n, r)
  PROVE  Closing(n, i + 1, RootStep(r)) \/ Found(n, RootStep(r))
<1>1. CASE Found(n, r)
  BY <1>1 DEF Found, RootStep
<1>2. CASE Closing(n, i, r)
  <2>1. PICK q \in Nat, t \in Nat, l \in Levels :
          /\ r.bit = l[1] /\ r.res = 2 * (q * l[1]) /\ r.m = n - q * q * l[1]
          /\ Within(n, l[1], q, t)
          /\ i + (t - q) + 2 * l[2] <= RootSteps
    BY <1>2 DEF Closing
  <2> DEFINE b == l[1]
  <2>2. b \in Nat /\ b > 0 /\ l[2] \in Nat /\ RootSteps \in Nat
    <3>1. b \in Nat /\ b > 0 /\ l[2] \in Nat
      BY LevelFacts
    <3>2. RootSteps \in Nat
      BY RootStepsIs
    <3> QED
      BY <3>1, <3>2
  <2>3. CASE r.m >= r.res + r.bit
    <3>1. /\ RootStep(r).bit = b /\ RootStep(r).res = r.res + 2 * b
          /\ RootStep(r).m = r.m - (r.res + b)
      BY <2>1, <2>2, <2>3 DEF RootStep, Loops
    <3>2. /\ Within(n, b, q + 1, t)
          /\ (n - q * q * b) - (2 * (q * b) + b) = n - (q + 1) * (q + 1) * b
          /\ 2 * (q * b) + 2 * b = 2 * ((q + 1) * b)
      BY <2>1, <2>2, <2>3, Higher
    <3>3. q + 1 \in Nat /\ (i + 1) + (t - (q + 1)) + 2 * l[2] <= RootSteps
      BY <2>1, <2>2
    <3>4. Closing(n, i + 1, RootStep(r))
      BY <2>1, <3>1, <3>2, <3>3 DEF Closing
    <3> QED
      BY <3>4
  <2>4. CASE ~(r.m >= r.res + r.bit)
    <3>1. /\ RootStep(r).bit = b \div 4 /\ RootStep(r).res = r.res \div 2
          /\ RootStep(r).m = r.m
      BY <2>1, <2>2, <2>4 DEF RootStep, Loops
    <3>2. CASE b = 1
      <4>1. b \div 4 = 0
        BY <3>2
      <4>2. Within(n, 1, q, t) /\ ~(n - q * q * 1 >= 2 * (q * 1) + 1)
        BY <2>1, <2>4, <3>2
      <4>3. IsRoot(q, n) /\ (2 * (q * 1)) \div 2 = q
        BY <4>2, Narrowed
      <4>4. Found(n, RootStep(r))
        BY <2>1, <3>1, <3>2, <4>1, <4>3 DEF Found
      <4> QED
        BY <4>4
    <3>3. CASE b # 1
      <4> DEFINE c == b \div 4
      <4>1. b = 4 * c /\ <<c, l[2] - 1>> \in Levels
        BY <3>3, LevelFacts
      <4>2. c \in Nat /\ c > 0
        <5>1. <<c, l[2] - 1>>[1] = c
          OBVIOUS
        <5> QED
          BY <4>1, <5>1, LevelFacts
      <4> HIDE DEF b, c
      <4>3. Within(n, 4 * c, q, t) /\ ~(n - q * q * (4 * c) >= 2 * (q * (4 * c)) + 4 * c)
        BY <2>1, <2>4, <4>1 DEF b
      <4>4. /\ Within(n, c, 2 * q, 2 * q + 2)
            /\ n - q * q * (4 * c) = n - (2 * q) * (2 * q) * c
            /\ (2 * (q * (4 * c))) \div 2 = 2 * ((2 * q) * c)
        BY <4>2, <4>3, Finer
      <4>5. /\ RootStep(r).bit = c /\ RootStep(r).res = 2 * ((2 * q) * c)
            /\ RootStep(r).m = n - (2 * q) * (2 * q) * c
        BY <2>1, <3>1, <4>1, <4>4 DEF b, c
      <4>6. 2 * q \in Nat /\ 2 * q + 2 \in Nat
            /\ (i + 1) + ((2 * q + 2) - 2 * q) + 2 * (l[2] - 1) <= RootSteps
        <5>1. q < t
          BY <2>1 DEF Within
        <5> QED
          BY <2>1, <2>2, <5>1
      <4> DEFINE k == <<c, l[2] - 1>>
      <4>7. k \in Levels /\ k[1] = c /\ k[2] = l[2] - 1
        BY <4>1
      <4> HIDE DEF k
      <4>8. Closing(n, i + 1, RootStep(r))
        BY <4>4, <4>5, <4>6, <4>7 DEF Closing
      <4> QED
        BY <4>8
    <3> QED
      BY <3>2, <3>3
  <2> QED
    BY <2>3, <2>4
<1> QED
  BY <1>1, <1>2

\* The first rung of the ladder that n is below is the one that counts.
LEMMA RungIs ==
  ASSUME NEW n \in Nat, ~(n > 16384), NEW j \in 1 .. 9, n < Ladder[j][1],
         \A k \in 1 .. j - 1 : n >= Ladder[k][1]
  PROVE  FirstBit(n) = Ladder[j][2]
<1> DEFINE P(i) == n < Ladder[i][1] /\ \A k \in 1 .. i - 1 : n >= Ladder[k][1]
           rung == CHOOSE i \in DOMAIN Ladder : P(i)
<1>1. DOMAIN Ladder = 1 .. 9
  BY DEF Ladder
<1>2. \A i \in 1 .. 9 : Ladder[i][1] \in Nat
  <2>1. ASSUME NEW i \in 1 .. 9 PROVE Ladder[i][1] \in Nat
    <3>1. i \in {1, 2, 3, 4, 5, 6, 7, 8, 9}
      OBVIOUS
    <3> QED
      BY <3>1 DEF Ladder
  <2> QED
    BY <2>1
<1>3. rung \in 1 .. 9 /\ P(rung)
  <2>1. \E i \in DOMAIN Ladder : P(i)
    BY <1>1
  <2> HIDE DEF P
  <2> QED
    BY <1>1, <2>1
<1>4. ASSUME NEW i \in 1 .. 9, P(i) PROVE i = j
  <2>1. ~(i < j)
    <3>1. SUFFICES ASSUME i < j PROVE FALSE
      OBVIOUS
    <3>2. i \in 1 .. j - 1
      BY <3>1
    <3>3. n >= Ladder[i][1]
      BY <3>2
    <3> QED
      BY <1>2, <1>4, <3>3
  <2>2. ~(j < i)
    <3>1. SUFFICES ASSUME j < i PROVE FALSE
      OBVIOUS
    <3>2. j \in 1 .. i - 1
      BY <3>1
    <3>3. n >= Ladder[j][1]
      BY <1>4, <3>2
    <3> QED
      BY <1>2, <3>3
  <2> QED
    BY <2>1, <2>2
<1>5. rung = j
  <2> HIDE DEF rung, P
  <2> QED
    BY <1>3, <1>4
<1>6. FirstBit(n) = Ladder[rung][2]
  <2>1. 2^14 = 16384
    OBVIOUS
  <2>2. ~(n > 2^14)
    BY <2>1
  <2> QED
    BY <2>2 DEF FirstBit
<1> HIDE DEF rung
<1> QED
  BY <1>5, <1>6

\* The loop begins with a bit that leaves it steps enough.
LEMMA FirstBitIs ==
  ASSUME NEW n \in Nat, In17Bits(n)
  PROVE  /\ FirstBit(n) \in Nat
         /\ n < 4 => FirstBit(n) = 0
         /\ n >= 4 => \E l \in Levels, t \in Nat :
                        /\ FirstBit(n) = l[1]
                        /\ 0 < t /\ n < t * t * l[1] /\ t + 2 * l[2] <= 17
<1> DEFINE Begins(b, v, t) == /\ <<b, v>> \in Levels /\ t \in Nat /\ FirstBit(n) = b
                             /\ 0 < t /\ n < t * t * b /\ t + 2 * v <= 17
<1>2. /\ Ladder[1][1] = 2 /\ Ladder[2][1] = 4 /\ Ladder[3][1] = 16 /\ Ladder[4][1] = 64
      /\ Ladder[5][1] = 256 /\ Ladder[6][1] = 1024 /\ Ladder[7][1] = 4096
      /\ Ladder[8][1] = 16384 /\ Ladder[9][1] = 131072
  BY DEF Ladder
<1>3. /\ Ladder[1][2] = 0 /\ Ladder[2][2] = 0 /\ Ladder[3][2] = 1 /\ Ladder[4][2] = 4
      /\ Ladder[5][2] = 16 /\ Ladder[6][2] = 64 /\ Ladder[7][2] = 256
      /\ Ladder[8][2] = 1024 /\ Ladder[9][2] = 4096
  BY DEF Ladder
<1>4. ASSUME n >= 4, NEW b, NEW v, NEW t, Begins(b, v, t), b \in Nat
      PROVE  /\ FirstBit(n) \in Nat
             /\ n < 4 => FirstBit(n) = 0
             /\ n >= 4 => \E l \in Levels, u \in Nat :
                            /\ FirstBit(n) = l[1]
                            /\ 0 < u /\ n < u * u * l[1] /\ u + 2 * l[2] <= 17
  <2> DEFINE l == <<b, v>>
  <2>1. l \in Levels /\ l[1] = b /\ l[2] = v
    BY <1>4
  <2> HIDE DEF l
  <2> QED
    BY <1>4, <2>1
<1>5. CASE n > 16384
  <2>1. FirstBit(n) = 16384
    <3>1. 2^14 = 16384
      OBVIOUS
    <3>2. n > 2^14
      BY <1>5, <3>1
    <3> QED
      BY <3>1, <3>2 DEF FirstBit
  <2>2. Begins(16384, 7, 3)
    BY <2>1 DEF Levels, In17Bits
  <2> HIDE DEF Begins
  <2> QED
    BY <1>4, <1>5, <2>2
<1>6. CASE n < 2
  <2>1. FirstBit(n) = Ladder[1][2]
    <3>1. 1 \in 1 .. 9 /\ n < Ladder[1][1] /\ ~(n > 16384)
      BY <1>2, <1>6
    <3>2. ASSUME NEW k \in 1 .. 1 - 1 PROVE n >= Ladder[k][1]
      OBVIOUS
    <3> QED
      BY <3>1, <3>2, RungIs
  <2> QED
    BY <1>3, <1>6, <2>1
<1>7. CASE n >= 2 /\ n < 4
  <2>1. FirstBit(n) = Ladder[2][2]
    <3>1. 2 \in 1 .. 9 /\ n < Ladder[2][1] /\ ~(n > 16384)
      BY <1>2, <1>7
    <3>2. ASSUME NEW k \in 1 .. 2 - 1 PROVE n >= Ladder[k][1]
      <4>1. k \in {1}
        OBVIOUS
      <4> QED
        BY <1>2, <1>7, <4>1
    <3> QED
      BY <3>1, <3>2, RungIs
  <2> QED
    BY <1>3, <1>7, <2>1
<1>8. CASE n >= 4 /\ n < 16
  <2>1. FirstBit(n) = Ladder[3][2]
    <3>1. 3 \in 1 .. 9 /\ n < Ladder[3][1] /\ ~(n > 16384)
      BY <1>2, <1>8
    <3>2. ASSUME NEW k \in 1 .. 3 - 1 PROVE n >= Ladder[k][1]
      <4>1. k \in {1, 2}
        OBVIOUS
      <4> QED
        BY <1>2, <1>8, <4>1
    <3> QED
      BY <3>1, <3>2, RungIs
  <2>2. Begins(1, 0, 4)
    BY <1>3, <1>8, <2>1 DEF Levels
  <2> HIDE DEF Begins
  <2>3. n >= 4
    BY <1>8
  <2> QED
    BY <1>4, <2>2, <2>3
<1>9. CASE n >= 16 /\ n < 64
  <2>1. FirstBit(n) = Ladder[4][2]
    <3>1. 4 \in 1 .. 9 /\ n < Ladder[4][1] /\ ~(n > 16384)
      BY <1>2, <1>9
    <3>2. ASSUME NEW k \in 1 .. 4 - 1 PROVE n >= Ladder[k][1]
      <4>1. k \in {1, 2, 3}
        OBVIOUS
      <4> QED
        BY <1>2, <1>9, <4>1
    <3> QED
      BY <3>1, <3>2, RungIs
  <2>2. Begins(4, 1, 4)
    BY <1>3, <1>9, <2>1 DEF Levels
  <2> HIDE DEF Begins
  <2>3. n >= 4
    BY <1>9
  <2> QED
    BY <1>4, <2>2, <2>3
<1>10. CASE n >= 64 /\ n < 256
  <2>1. FirstBit(n) = Ladder[5][2]
    <3>1. 5 \in 1 .. 9 /\ n < Ladder[5][1] /\ ~(n > 16384)
      BY <1>2, <1>10
    <3>2. ASSUME NEW k \in 1 .. 5 - 1 PROVE n >= Ladder[k][1]
      <4>1. k \in {1, 2, 3, 4}
        OBVIOUS
      <4> QED
        BY <1>2, <1>10, <4>1
    <3> QED
      BY <3>1, <3>2, RungIs
  <2>2. Begins(16, 2, 4)
    BY <1>3, <1>10, <2>1 DEF Levels
  <2> HIDE DEF Begins
  <2>3. n >= 4
    BY <1>10
  <2> QED
    BY <1>4, <2>2, <2>3
<1>11. CASE n >= 256 /\ n < 1024
  <2>1. FirstBit(n) = Ladder[6][2]
    <3>1. 6 \in 1 .. 9 /\ n < Ladder[6][1] /\ ~(n > 16384)
      BY <1>2, <1>11
    <3>2. ASSUME NEW k \in 1 .. 6 - 1 PROVE n >= Ladder[k][1]
      <4>1. k \in {1, 2, 3, 4, 5}
        OBVIOUS
      <4> QED
        BY <1>2, <1>11, <4>1
    <3> QED
      BY <3>1, <3>2, RungIs
  <2>2. Begins(64, 3, 4)
    BY <1>3, <1>11, <2>1 DEF Levels
  <2> HIDE DEF Begins
  <2>3. n >= 4
    BY <1>11
  <2> QED
    BY <1>4, <2>2, <2>3
<1>12. CASE n >= 1024 /\ n < 4096
  <2>1. FirstBit(n) = Ladder[7][2]
    <3>1. 7 \in 1 .. 9 /\ n < Ladder[7][1] /\ ~(n > 16384)
      BY <1>2, <1>12
    <3>2. ASSUME NEW k \in 1 .. 7 - 1 PROVE n >= Ladder[k][1]
      <4>1. k \in {1, 2, 3, 4, 5, 6}
        OBVIOUS
      <4> QED
        BY <1>2, <1>12, <4>1
    <3> QED
      BY <3>1, <3>2, RungIs
  <2>2. Begins(256, 4, 4)
    BY <1>3, <1>12, <2>1 DEF Levels
  <2> HIDE DEF Begins
  <2>3. n >= 4
    BY <1>12
  <2> QED
    BY <1>4, <2>2, <2>3
<1>13. CASE n >= 4096 /\ n < 16384
  <2>1. FirstBit(n) = Ladder[8][2]
    <3>1. 8 \in 1 .. 9 /\ n < Ladder[8][1] /\ ~(n > 16384)
      BY <1>2, <1>13
    <3>2. ASSUME NEW k \in 1 .. 8 - 1 PROVE n >= Ladder[k][1]
      <4>1. k \in {1, 2, 3, 4, 5, 6, 7}
        OBVIOUS
      <4> QED
        BY <1>2, <1>13, <4>1
    <3> QED
      BY <3>1, <3>2, RungIs
  <2>2. Begins(1024, 5, 4)
    BY <1>3, <1>13, <2>1 DEF Levels
  <2> HIDE DEF Begins
  <2>3. n >= 4
    BY <1>13
  <2> QED
    BY <1>4, <2>2, <2>3
<1>14. CASE n = 16384
  <2>1. FirstBit(n) = Ladder[9][2]
    <3>1. 9 \in 1 .. 9 /\ n < Ladder[9][1] /\ ~(n > 16384)
      BY <1>2, <1>14
    <3>2. ASSUME NEW k \in 1 .. 9 - 1 PROVE n >= Ladder[k][1]
      <4>1. k \in {1, 2, 3, 4, 5, 6, 7, 8}
        OBVIOUS
      <4> QED
        BY <1>2, <1>14, <4>1
    <3> QED
      BY <3>1, <3>2, RungIs
  <2>2. Begins(4096, 6, 3)
    BY <1>3, <1>14, <2>1 DEF Levels
  <2> HIDE DEF Begins
  <2>3. n >= 4
    BY <1>14
  <2> QED
    BY <1>4, <2>2, <2>3
<1> HIDE DEF Begins
<1>15. n < 131072
  BY DEF In17Bits
<1> QED
  BY <1>15, <1>5, <1>6, <1>7, <1>8, <1>9, <1>10, <1>11, <1>12, <1>13, <1>14

\* What the loop of root_sqr.v goes through.
LEMMA LoopIs ==
  ASSUME NEW n \in Nat, In17Bits(n)
  PROVE  \E r \in [0 .. RootSteps -> Loops] :
           /\ r[0] = [m |-> n, res |-> 0, bit |-> FirstBit(n)]
           /\ \A i \in 1 .. RootSteps : r[i] = RootStep(r[i - 1])
           /\ Root_sqr(n) = r[RootSteps].res % 2^11
<1> DEFINE start == [m |-> n, res |-> 0, bit |-> FirstBit(n)]
           G == [p \in (1 .. RootSteps) \X Loops |-> RootStep(p[2])]
           Goes(f) == f = [i \in 0 .. RootSteps |->
                             IF i = 0 THEN start ELSE RootStep(f[i - 1])]
           r == CHOOSE f : Goes(f)
           T == {i \in 0 .. RootSteps : r[i] \in Loops}
<1>1. start \in Loops
  <2>1. FirstBit(n) \in Nat
    BY FirstBitIs
  <2> QED
    BY <2>1 DEF Loops
<1>2. RootSteps \in Nat
  BY RootStepsIs
<1> HIDE DEF start
<1>3. \E f : Goes(f)
  <2>1. G \in [(1 .. RootSteps) \X Loops -> Loops]
    BY RootStepType
  <2>2. \A i \in 1 .. RootSteps, z \in Loops : G[<<i, z>>] = RootStep(z)
    OBVIOUS
  <2> HIDE DEF G
  <2>3. PICK f : Recurs(f, RootSteps, Loops, start, G)
    BY <1>1, <1>2, <2>1, RecursiveFunction
  <2>4. f = [i \in 0 .. RootSteps |-> f[i]] /\ f[0] = start
    BY <2>3 DEF Recurs
  <2>5. ASSUME NEW i \in 0 .. RootSteps, i # 0 PROVE f[i] = RootStep(f[i - 1])
    <3>1. i \in 1 .. RootSteps /\ i - 1 \in 0 .. RootSteps
      BY <1>2, <2>5
    <3>2. f[i - 1] \in Loops
      BY <2>3, <3>1 DEF Recurs
    <3> QED
      BY <2>2, <2>3, <3>1, <3>2 DEF Recurs
  <2>6. Goes(f)
    BY <2>4, <2>5
  <2> QED
    BY <2>6
<1>4. Goes(r)
  BY <1>3
<1>5. Root_sqr(n) = r[RootSteps].res % 2^11
  BY DEF Root_sqr, start
<1> HIDE DEF r
<1>6. r[0] = start /\ \A i \in 1 .. RootSteps : r[i] = RootStep(r[i - 1])
  BY <1>2, <1>4
<1>7. 0 \in T
  BY <1>1, <1>2, <1>6
<1>8. ASSUME NEW k \in 0 .. RootSteps - 1, k \in T PROVE k + 1 \in T
  <2>1. k + 1 \in 1 .. RootSteps /\ k + 1 \in 0 .. RootSteps /\ (k + 1) - 1 = k /\ r[k] \in Loops
    BY <1>2, <1>8
  <2>2. r[k + 1] = RootStep(r[k])
    BY <1>6, <2>1
  <2>3. RootStep(r[k]) \in Loops
    BY <2>1, RootStepType
  <2> QED
    BY <2>1, <2>2, <2>3
<1>9. 0 .. RootSteps \subseteq T
  <2> HIDE DEF T
  <2> QED
    BY <1>2, <1>7, <1>8, InductionUpTo
<1>10. r \in [0 .. RootSteps -> Loops]
  <2>1. r = [i \in 0 .. RootSteps |-> r[i]]
    BY <1>4
  <2> QED
    BY <1>9, <2>1
<1> HIDE DEF G, Goes, T
<1>11. r[0] = [m |-> n, res |-> 0, bit |-> FirstBit(n)]
  BY <1>6 DEF start
<1> WITNESS r \in [0 .. RootSteps -> Loops]
<1> QED
  BY <1>5, <1>6, <1>11

Outputs == 0 .. 2047

\* root_sqr.v finds the root of a number of 17 bits that is 4 or more, and
\* gives 0 for a smaller one.
LEMMA RootIs ==
  ASSUME NEW n \in Nat, In17Bits(n)
  PROVE  /\ Root_sqr(n) \in Outputs
         /\ n < 4 => Root_sqr(n) = 0
         /\ n >= 4 => IsRoot(Root_sqr(n), n)
<1>1. PICK r \in [0 .. RootSteps -> Loops] :
        /\ r[0] = [m |-> n, res |-> 0, bit |-> FirstBit(n)]
        /\ \A i \in 1 .. RootSteps : r[i] = RootStep(r[i - 1])
        /\ Root_sqr(n) = r[RootSteps].res % 2^11
  BY LoopIs
<1>2. RootSteps \in Nat /\ RootSteps >= 17
  BY RootStepsIs
<1>3. Root_sqr(n) = r[RootSteps].res % 2048 /\ r[RootSteps] \in Loops
  <2>1. 2^11 = 2048
    OBVIOUS
  <2> QED
    BY <1>1, <1>2, <2>1
<1>4. CASE n < 4
  <2> DEFINE T == {i \in 0 .. RootSteps : r[i].bit = 0 /\ r[i].res = 0}
  <2>1. 0 \in T
    BY <1>1, <1>2, <1>4, FirstBitIs
  <2>2. ASSUME NEW k \in 0 .. RootSteps - 1, k \in T PROVE k + 1 \in T
    <3>1. k + 1 \in 1 .. RootSteps /\ k + 1 \in 0 .. RootSteps /\ (k + 1) - 1 = k
      BY <1>2
    <3>2. r[k + 1] = RootStep(r[k]) /\ r[k].bit = 0 /\ r[k].res = 0
      BY <1>1, <2>2, <3>1
    <3>3. RootStep(r[k]) = r[k]
      BY <3>2 DEF RootStep
    <3> QED
      BY <3>1, <3>2, <3>3
  <2>3. 0 .. RootSteps \subseteq T
    <3> HIDE DEF T
    <3> QED
      BY <1>2, <2>1, <2>2, InductionUpTo
  <2>4. r[RootSteps].res = 0
    BY <1>2, <2>3
  <2>5. Root_sqr(n) = 0
    BY <1>3, <2>4
  <2> QED
    BY <1>4, <2>5 DEF Outputs
<1>5. CASE n >= 4
  <2> DEFINE T == {i \in 0 .. RootSteps : Closing(n, i, r[i]) \/ Found(n, r[i])}
  <2>1. 0 \in T
    <3>1. PICK l \in Levels, t \in Nat :
                        /\ FirstBit(n) = l[1]
                        /\ 0 < t /\ n < t * t * l[1] /\ t + 2 * l[2] <= 17
      BY <1>5, FirstBitIs
    <3>2. l[1] \in Nat /\ l[2] \in Nat
      BY LevelFacts
    <3>3. r[0].bit = l[1] /\ r[0].res = 2 * (0 * l[1]) /\ r[0].m = n - 0 * 0 * l[1]
      BY <1>1, <3>1, <3>2
    <3>4. Within(n, l[1], 0, t)
      BY <3>1, <3>2 DEF Within
    <3>5. 0 + (t - 0) + 2 * l[2] <= RootSteps
      BY <1>2, <3>1, <3>2
    <3>6. Closing(n, 0, r[0])
      <4>1. 0 \in Nat
        OBVIOUS
      <4> QED
        BY <3>3, <3>4, <3>5, <4>1 DEF Closing
    <3> QED
      BY <1>2, <3>6
  <2>2. ASSUME NEW k \in 0 .. RootSteps - 1, k \in T PROVE k + 1 \in T
    <3>1. k + 1 \in 1 .. RootSteps /\ k + 1 \in 0 .. RootSteps /\ (k + 1) - 1 = k
          /\ k \in 0 .. RootSteps /\ k \in Nat
      BY <1>2
    <3>2. r[k + 1] = RootStep(r[k]) /\ r[k] \in Loops
      BY <1>1, <3>1
    <3>3. Closing(n, k + 1, RootStep(r[k])) \/ Found(n, RootStep(r[k]))
      BY <2>2, <3>1, <3>2, RootStepSearches
    <3> QED
      BY <3>1, <3>2, <3>3
  <2>3. 0 .. RootSteps \subseteq T
    <3> HIDE DEF T
    <3> QED
      BY <1>2, <2>1, <2>2, InductionUpTo
  <2>4. Closing(n, RootSteps, r[RootSteps]) \/ Found(n, r[RootSteps])
    BY <1>2, <2>3
  <2>5. ~Closing(n, RootSteps, r[RootSteps])
    <3>1. SUFFICES ASSUME NEW q \in Nat, NEW t \in Nat, NEW l \in Levels,
                          Within(n, l[1], q, t),
                          RootSteps + (t - q) + 2 * l[2] <= RootSteps
                   PROVE  FALSE
      BY DEF Closing
    <3>2. q < t /\ l[2] \in Nat
      BY <3>1, LevelFacts DEF Within
    <3> QED
      BY <1>2, <3>1, <3>2
  <2> DEFINE z == r[RootSteps].res
  <2>6. z \in Nat /\ z * z <= n /\ IsRoot(z, n)
    BY <2>4, <2>5 DEF Found, IsRoot
  <2> HIDE DEF z
  <2>7. z < 2048
    <3>1. SUFFICES ASSUME z >= 2048 PROVE FALSE
      BY <2>6
    <3>2. z * z >= 2048 * 2048
      BY <2>6, <3>1
    <3> QED
      BY <2>6, <3>2 DEF In17Bits
  <2>8. z % 2048 = z
    BY <2>6, <2>7
  <2>9. Root_sqr(n) = z
    BY <1>3, <2>8 DEF z
  <2> QED
    BY <1>5, <2>6, <2>7, <2>9 DEF Outputs
<1> QED
  BY <1>4, <1>5

\* What the pipeline makes of a gradient.
LengthOf(g) == Root_sqr(SumOfSquares(Square(Val(g[1])), Square(Val(g[2]))))

\* sqr.v gives 17 bits, which for a difference of eight bits are its square.
LEMMA SquareType ==
  ASSUME NEW k \in Int
  PROVE  /\ Val(k) \in 0 .. 1023
         /\ Square(Val(k)) \in Nat /\ In17Bits(Square(Val(k)))
         /\ 0 <= k /\ k <= 255 => /\ Square(Val(k)) = k * k
                                  /\ k * k \in Nat /\ k * k <= 65025
<1>1. Val(k) = k % 1024
  <2>1. 2^10 = 1024
    OBVIOUS
  <2> QED
    BY <2>1 DEF Val
<1>2. Val(k) \in 0 .. 1023
  BY <1>1
<1> DEFINE v == Val(k)
<1> HIDE DEF v
<1>3. v \in 0 .. 1023
  BY <1>2 DEF v
<1>4. Square(v) = Low17Bits(v * v)
  BY <1>3, SquareIs
<1>5. v * v \in Nat
  BY <1>3
<1>6. Square(v) \in Nat /\ Square(v) < 131072
  <2> DEFINE w == v * v
  <2>1. w \in Int /\ Square(v) = w % 131072
    BY <1>4, <1>5 DEF Low17Bits
  <2> HIDE DEF w
  <2> QED
    BY <2>1
<1>7. ASSUME 0 <= k, k <= 255
      PROVE  Square(v) = k * k /\ k * k \in Nat /\ k * k <= 65025
  <2>1. v = k
    BY <1>1, <1>7 DEF v
  <2>2. k * k <= 65025 /\ k * k \in Nat
    BY <1>7
  <2> DEFINE w == k * k
  <2>3. w \in Nat /\ w < 131072
    BY <2>2
  <2> HIDE DEF w
  <2>4. w % 131072 = w
    BY <2>3
  <2> QED
    BY <1>4, <2>1, <2>2, <2>4 DEF w, Low17Bits
<1> QED
  BY <1>2, <1>6, <1>7 DEF v, In17Bits

\* The sum of two squares keeps 17 bits, and its root takes eleven.
LEMMA RootOfSum ==
  ASSUME NEW x \in Nat, NEW y \in Nat
  PROVE  /\ SumOfSquares(x, y) \in Nat /\ In17Bits(SumOfSquares(x, y))
         /\ Root_sqr(SumOfSquares(x, y)) \in Outputs
         /\ In17Bits(x + y) => SumOfSquares(x, y) = x + y
<1>1. SumOfSquares(x, y) = (x + y) % 131072
  <2>1. 2^17 = 131072
    OBVIOUS
  <2> QED
    BY <2>1 DEF SumOfSquares
<1>2. SumOfSquares(x, y) \in Nat /\ In17Bits(SumOfSquares(x, y))
  BY <1>1 DEF In17Bits
<1>3. In17Bits(x + y) => SumOfSquares(x, y) = x + y
  BY <1>1 DEF In17Bits
<1>4. Root_sqr(SumOfSquares(x, y)) \in Outputs
  BY <1>2, RootIs
<1> QED
  BY <1>2, <1>3, <1>4

\* So does the length of any gradient, and of none it is 0.
LEMMA LengthType ==
  ASSUME NEW g \in Differences \X Differences
  PROVE  LengthOf(g) \in Outputs
<1>1. g[1] \in Int /\ g[2] \in Int
  BY DEF Differences
<1>2. Square(Val(g[1])) \in Nat /\ Square(Val(g[2])) \in Nat
  BY <1>1, SquareType
<1> QED
  BY <1>2, RootOfSum DEF LengthOf

LEMMA NoLength == Root_sqr(SumOfSquares(0, 0)) = 0
<1>1. SumOfSquares(0, 0) = 0
  BY RootOfSum DEF In17Bits
<1> QED
  BY <1>1, RootIs DEF In17Bits

\* A number has one root.
LEMMA OneRoot ==
  ASSUME NEW r \in Nat, NEW p \in Nat, NEW n \in Nat, IsRoot(r, n), IsRoot(p, n)
  PROVE  r = p
<1>1. ASSUME NEW u \in Nat, NEW w \in Nat, IsRoot(u, n), IsRoot(w, n) PROVE ~(u < w)
  <2>1. SUFFICES ASSUME u < w PROVE FALSE
    OBVIOUS
  <2>2. u + 1 <= w
    BY <2>1
  <2>3. (u + 1) * (u + 1) <= w * w
    BY <2>2
  <2>4. w * w <= n /\ n < (u + 1) * (u + 1) /\ w * w \in Nat /\ (u + 1) * (u + 1) \in Nat
    BY <1>1 DEF IsRoot
  <2> QED
    BY <2>3, <2>4
<1>2. ~(r < p) /\ ~(p < r)
  BY <1>1
<1> QED
  BY <1>2

\* For differences of eight bits that is the length.
LEMMA LengthIs ==
  ASSUME NEW g \in Differences \X Differences, InRange(g)
  PROVE  Lengths(g) = {LengthOf(g)}
<1> DEFINE n == Norm(g)
           r == LengthOf(g)
<1>1. /\ g[1] \in Int /\ 0 <= g[1] /\ g[1] <= 255
      /\ g[2] \in Int /\ 0 <= g[2] /\ g[2] <= 255
  BY DEF InRange
<1>2. Square(Val(g[1])) = g[1] * g[1] /\ Square(Val(g[2])) = g[2] * g[2]
  BY <1>1, SquareType
<1>3. /\ g[1] * g[1] \in Nat /\ g[1] * g[1] <= 65025
      /\ g[2] * g[2] \in Nat /\ g[2] * g[2] <= 65025
  BY <1>1, SquareType
<1>4. n \in Nat /\ n <= 130050 /\ n = g[1] * g[1] + g[2] * g[2]
  BY <1>3 DEF Norm
<1>5. In17Bits(n)
  BY <1>4 DEF In17Bits
<1>6. r = Root_sqr(n)
  <2>1. SumOfSquares(g[1] * g[1], g[2] * g[2]) = n
    BY <1>3, <1>4, <1>5, RootOfSum
  <2> QED
    BY <1>2, <2>1 DEF LengthOf
<1> HIDE DEF n, r
<1>7. r \in Outputs /\ (n < 4 => r = 0) /\ (n >= 4 => IsRoot(r, n))
  BY <1>4, <1>5, <1>6, RootIs
<1>8. CASE n < 4
  BY <1>7, <1>8 DEF Lengths, n, r
<1>9. CASE n >= 4
  <2>1. r \in Nat /\ IsRoot(r, n)
    BY <1>7, <1>9 DEF Outputs
  <2>2. r <= 361
    <3>1. SUFFICES ASSUME r >= 362 PROVE FALSE
      BY <2>1
    <3>2. r * r >= 362 * 362
      BY <2>1, <3>1
    <3>3. r * r <= n /\ r * r \in Nat
      BY <2>1 DEF IsRoot
    <3> QED
      BY <1>4, <3>2, <3>3
  <2>3. Lengths(g) = {u \in 0 .. 361 : IsRoot(u, n)}
    <3>1. ~(n < 4)
      BY <1>4, <1>9
    <3> QED
      BY <3>1 DEF Lengths, n
  <2>4. r \in {u \in 0 .. 361 : IsRoot(u, n)}
    BY <2>1, <2>2
  <2>5. ASSUME NEW u \in {z \in 0 .. 361 : IsRoot(z, n)} PROVE u = r
    <3>1. u \in Nat /\ IsRoot(u, n)
      OBVIOUS
    <3> QED
      BY <1>4, <2>1, <3>1, OneRoot
  <2>6. {u \in 0 .. 361 : IsRoot(u, n)} = {r}
    <3> DEFINE S == {u \in 0 .. 361 : IsRoot(u, n)}
    <3>1. r \in S /\ \A u \in S : u = r
      BY <2>4, <2>5
    <3> HIDE DEF S
    <3>2. S = {r}
      BY <3>1
    <3> QED
      BY <3>2 DEF S
  <2> QED
    BY <2>3, <2>6 DEF r
<1> QED
  BY <1>4, <1>8, <1>9

\* Three bins are left of the nine.
LEMMA BinIs ==
  ASSUME NEW g \in Differences \X Differences
  PROVE  Bin(g) \in {0, 3, 8}
<1> DEFINE dx == Word(g[1])
           dy == Word(g[2])
<1>1. dx \in Nat /\ dy \in Nat
  <2>1. g[1] \in Int /\ g[2] \in Int
    BY DEF Differences
  <2>2. 2^16 = 65536
    OBVIOUS
  <2> QED
    BY <2>1, <2>2 DEF Word
<1> HIDE DEF dx, dy
<1>2. Bin(g) = IF 351 * dy < 1024 * dx THEN 0
               ELSE CASE 351 * dy > 128 * dx /\ 153 * dy < 128 * dx -> 1
                      [] 153 * dy > 128 * dx /\ 76 * dy < 128 * dx  -> 2
                      [] 76 * dy > 128 * dx /\ 181 * dy < 1024 * dx -> 3
                      [] OTHER                                      -> 8
  BY DEF Bin, dxshift7, dx, dy
<1>3. CASE 351 * dy < 1024 * dx
  BY <1>2, <1>3
<1>4. CASE ~(351 * dy < 1024 * dx)
  <2>1. ~(153 * dy < 128 * dx) /\ ~(153 * dy > 128 * dx /\ 76 * dy < 128 * dx)
    BY <1>1, <1>4
  <2> QED
    BY <1>2, <1>4, <2>1
<1> QED
  BY <1>3, <1>4

\* What is given in a clock; the length that comes out with the i-th; whether
\* the histogram keeps its bin; and the lengths kept by the n-th clock.
Clocks == [g : Differences \X Differences, rst : BOOLEAN, enable : BOOLEAN]
OutIn(u, i) == IF i < 4 \/ u[i].rst THEN 0 ELSE LengthOf(u[i - 3].g)
KeptIn(u, b, i) == Bin(u[i].g) = b /\ \A k \in i + 1 .. Len(u) : u[k].enable
PartIn(u, b, i) == IF KeptIn(u, b, i) THEN OutIn(u, i) ELSE 0
SumIn(u, b, n) == SumTo(n, [i \in 1 .. n |-> PartIn(u, b, i)])

\* Types of what was given, of what comes out and of what is added.
LEMMA GivenFacts ==
  ASSUME NEW u \in Seq(Clocks)
  PROVE  /\ Len(u) \in Nat
         /\ \A i \in 1 .. Len(u) :
              /\ u[i] \in Clocks /\ u[i].g \in Differences \X Differences
              /\ u[i].rst \in BOOLEAN /\ u[i].enable \in BOOLEAN
<1>1. Len(u) \in Nat /\ \A i \in 1 .. Len(u) : u[i] \in Clocks
  <2>1. Len(u) \in Nat
    OBVIOUS
  <2>2. ASSUME NEW i \in 1 .. Len(u) PROVE u[i] \in Clocks
    BY ElementOfSeq
  <2> QED
    BY <2>1, <2>2
<1>2. \A c \in Clocks : /\ c.g \in Differences \X Differences
                        /\ c.rst \in BOOLEAN /\ c.enable \in BOOLEAN
  BY DEF Clocks
<1> QED
  BY <1>1, <1>2

LEMMA OutType ==
  ASSUME NEW u \in Seq(Clocks), NEW i \in 1 .. Len(u)
  PROVE  OutIn(u, i) \in Outputs /\ OutIn(u, i) \in Int
<1>1. Len(u) \in Nat /\ 0 \in Outputs /\ \A z \in Outputs : z \in Int
  BY DEF Outputs
<1>2. CASE i < 4 \/ u[i].rst
  BY <1>1, <1>2 DEF OutIn
<1>3. CASE ~(i < 4 \/ u[i].rst)
  <2>1. i - 3 \in 1 .. Len(u)
    BY <1>1, <1>3
  <2>2. LengthOf(u[i - 3].g) \in Outputs
    BY <2>1, GivenFacts, LengthType
  <2> QED
    BY <1>1, <1>3, <2>2 DEF OutIn
<1> QED
  BY <1>2, <1>3

LEMMA PartType ==
  ASSUME NEW u \in Seq(Clocks), NEW b, NEW i \in 1 .. Len(u)
  PROVE  PartIn(u, b, i) \in Int
BY OutType DEF PartIn

\* One clock more.
LEMMA AppendGiven ==
  ASSUME NEW u \in Seq(Clocks), NEW c \in Clocks
  PROVE  /\ Append(u, c) \in Seq(Clocks) /\ Len(Append(u, c)) = Len(u) + 1
         /\ Append(u, c)[Len(u) + 1] = c
         /\ \A i \in 1 .. Len(u) : Append(u, c)[i] = u[i]
<1>1. Append(u, c) \in Seq(Clocks) /\ Len(u) \in Nat
  OBVIOUS
<1>2. /\ Len(Append(u, c)) = Len(u) + 1
      /\ \A i \in 1 .. Len(u) : Append(u, c)[i] = u[i]
      /\ Append(u, c)[Len(u) + 1] = c
  BY AppendProperties
<1> QED
  BY <1>1, <1>2

\* A length counts on for as long as enable is seen.
LEMMA PartStays ==
  ASSUME NEW u \in Seq(Clocks), NEW c \in Clocks, NEW b, NEW i \in 1 .. Len(u)
  PROVE  PartIn(Append(u, c), b, i) = IF c.enable THEN PartIn(u, b, i) ELSE 0
<1> DEFINE v == Append(u, c)
<1>1. /\ Len(u) \in Nat /\ Len(v) = Len(u) + 1 /\ v[Len(u) + 1] = c
      /\ \A k \in 1 .. Len(u) : v[k] = u[k]
  BY AppendGiven, GivenFacts
<1>2. u[i].rst \in BOOLEAN /\ c.enable \in BOOLEAN
  BY GivenFacts DEF Clocks
<1> HIDE DEF v
<1>3. OutIn(v, i) = OutIn(u, i)
  <2>1. CASE i < 4
    BY <2>1 DEF OutIn
  <2>2. CASE ~(i < 4)
    <3>1. i - 3 \in 1 .. Len(u)
      BY <1>1, <2>2
    <3>2. v[i] = u[i] /\ v[i - 3] = u[i - 3]
      BY <1>1, <3>1
    <3> QED
      BY <3>2 DEF OutIn
  <2> QED
    BY <2>1, <2>2
<1>4. KeptIn(v, b, i) <=> c.enable /\ KeptIn(u, b, i)
  <2>1. v[i] = u[i]
    BY <1>1
  <2>2. (\A k \in i + 1 .. Len(v) : v[k].enable)
          <=> c.enable /\ \A k \in i + 1 .. Len(u) : u[k].enable
    <3>1. ASSUME \A k \in i + 1 .. Len(v) : v[k].enable
          PROVE  c.enable /\ \A k \in i + 1 .. Len(u) : u[k].enable
      <4>1. Len(u) + 1 \in i + 1 .. Len(v)
        BY <1>1
      <4>2. ASSUME NEW k \in i + 1 .. Len(u) PROVE u[k].enable
        <5>1. k \in i + 1 .. Len(v) /\ k \in 1 .. Len(u)
          BY <1>1
        <5> QED
          BY <1>1, <3>1, <5>1
      <4> QED
        BY <1>1, <3>1, <4>1, <4>2
    <3>2. ASSUME c.enable, \A k \in i + 1 .. Len(u) : u[k].enable
          PROVE  \A k \in i + 1 .. Len(v) : v[k].enable
      <4>1. SUFFICES ASSUME NEW k \in i + 1 .. Len(v) PROVE v[k].enable
        OBVIOUS
      <4>2. CASE k = Len(u) + 1
        BY <1>1, <3>2, <4>2
      <4>3. CASE k # Len(u) + 1
        <5>1. k \in i + 1 .. Len(u) /\ k \in 1 .. Len(u)
          BY <1>1, <4>3
        <5> QED
          BY <1>1, <3>2, <5>1
      <4> QED
        BY <4>2, <4>3
    <3> QED
      BY <3>1, <3>2
  <2> QED
    BY <2>1, <2>2 DEF KeptIn
<1>5. CASE c.enable
  BY <1>3, <1>4, <1>5 DEF PartIn, v
<1>6. CASE ~ c.enable
  BY <1>4, <1>6 DEF PartIn, v
<1> QED
  BY <1>5, <1>6

\* enable keeps the sums so far and without it they are lost.
LEMMA SumStays ==
  ASSUME NEW u \in Seq(Clocks), NEW c \in Clocks, NEW b, NEW n \in 0 .. Len(u)
  PROVE  /\ SumIn(u, b, n) \in Int
         /\ SumIn(Append(u, c), b, n) = IF c.enable THEN SumIn(u, b, n) ELSE 0
<1> DEFINE f == [i \in 1 .. n |-> PartIn(u, b, i)]
           h == [i \in 1 .. n |-> PartIn(Append(u, c), b, i)]
<1>1. Len(u) \in Nat /\ n \in Nat /\ \A i \in 1 .. n : i \in 1 .. Len(u)
  BY GivenFacts
<1>2. ASSUME NEW i \in 1 .. n
      PROVE  f[i] \in Int /\ h[i] = IF c.enable THEN f[i] ELSE 0
  <2>1. i \in 1 .. Len(u)
    BY <1>1
  <2>2. PartIn(u, b, i) \in Int
    BY <2>1, PartType
  <2>3. PartIn(Append(u, c), b, i) = IF c.enable THEN PartIn(u, b, i) ELSE 0
    BY <2>1, PartStays
  <2> QED
    BY <2>2, <2>3
<1>3. SumIn(u, b, n) = SumTo(n, f) /\ SumIn(Append(u, c), b, n) = SumTo(n, h)
  BY DEF SumIn
<1> HIDE DEF f, h
<1>4. SumTo(n, f) \in Int
  <2>1. \A i \in 1 .. n : f[i] \in Int /\ f[i] = f[i]
    BY <1>2
  <2> QED
    BY <1>1, <2>1, SumOfSame
<1>5. CASE c.enable
  <2>1. \A i \in 1 .. n : f[i] \in Int /\ h[i] = f[i]
    BY <1>2, <1>5
  <2>2. SumTo(n, f) = SumTo(n, h)
    BY <1>1, <2>1, SumOfSame
  <2> QED
    BY <1>3, <1>4, <1>5, <2>2
<1>6. CASE ~ c.enable
  <2>1. \A i \in 1 .. n : h[i] = 0
    BY <1>2, <1>6
  <2>2. SumTo(n, h) = 0
    BY <1>1, <2>1, SumOfZeros
  <2> QED
    BY <1>3, <1>4, <1>6, <2>2
<1> QED
  BY <1>5, <1>6

\* A sum grows by the length of one clock.
LEMMA SumGrows ==
  ASSUME NEW u \in Seq(Clocks), NEW b, NEW n \in Nat, n < Len(u)
  PROVE  /\ SumIn(u, b, n + 1) = SumIn(u, b, n) + PartIn(u, b, n + 1)
         /\ SumIn(u, b, n) \in Int /\ SumIn(u, b, 0) = 0
<1> DEFINE f == [i \in 1 .. n + 1 |-> PartIn(u, b, i)]
           h == [i \in 1 .. n |-> PartIn(u, b, i)]
<1>1. /\ \A i \in 1 .. n : h[i] = f[i]
      /\ n + 1 \in 1 .. n + 1
  OBVIOUS
<1>2. f[n + 1] = PartIn(u, b, n + 1)
  BY <1>1
<1>3. ASSUME NEW i \in 1 .. n + 1 PROVE f[i] \in Int
  <2>1. i \in 1 .. Len(u)
    BY GivenFacts
  <2>2. PartIn(u, b, i) \in Int
    BY <2>1, PartType
  <2> QED
    BY <2>2
<1>4. SumIn(u, b, n + 1) = SumTo(n + 1, f) /\ SumIn(u, b, n) = SumTo(n, h)
  BY DEF SumIn
<1>5. SumIn(u, b, 0) = 0
  BY SumNone DEF SumIn
<1> HIDE DEF f, h
<1>6. SumTo(n + 1, f) = SumTo(n, h) + f[n + 1] /\ SumTo(n, h) \in Int
  BY <1>1, <1>3, SumOneMore
<1> QED
  BY <1>2, <1>4, <1>5, <1>6

\* Sums may be cut to their width as they grow.
LEMMA CutAsItGrows ==
  ASSUME NEW x \in Int, NEW y \in Int
  PROVE  /\ ((x % SumRange) + y) % SumRange = (x + y) % SumRange
         /\ x % SumRange \in 0 .. SumRange - 1
<1> DEFINE R == SumRange
           q == x \div R
           r == x % R
           p == (x + y) \div R
           z == (x + y) % R
           p2 == (r + y) \div R
           z2 == (r + y) % R
<1>1. R \in Nat /\ R > 0
  BY RootStepsIs
<1> HIDE DEF R
<1>2. q \in Int /\ r \in 0 .. R - 1 /\ x = R * q + r
  BY <1>1
<1>3. p \in Int /\ z \in 0 .. R - 1 /\ x + y = R * p + z
  BY <1>1
<1> HIDE DEF q, r
<1>4. r \in Int
  BY <1>1, <1>2
<1>5. p2 \in Int /\ z2 \in 0 .. R - 1 /\ r + y = R * p2 + z2
  BY <1>1, <1>4
<1> HIDE DEF p, z, p2, z2
<1> DEFINE w == p - q - p2
<1>6. z2 = R * w + z
  <2>1. R * w = R * p - R * q - R * p2
    BY <1>1, <1>2, <1>3, <1>5
  <2>2. R * p \in Int /\ R * q \in Int /\ R * p2 \in Int
    BY <1>1, <1>2, <1>3, <1>5
  <2> HIDE DEF w
  <2> QED
    BY <1>1, <1>2, <1>3, <1>4, <1>5, <2>1, <2>2
<1>7. w \in Int
  BY <1>2, <1>3, <1>5
<1> HIDE DEF w
<1>8. w = 0
  <2>1. ~(w >= 1)
    <3>1. w >= 1 => R * w >= R
      BY <1>1, <1>7
    <3> QED
      BY <1>1, <1>3, <1>5, <1>6, <1>7, <3>1
  <2>2. ~(w <= -1)
    <3>1. w <= -1 => R * w <= -R
      BY <1>1, <1>7
    <3> QED
      BY <1>1, <1>3, <1>5, <1>6, <1>7, <3>1
  <2> QED
    BY <1>7, <2>1, <2>2
<1>9. z2 = z
  BY <1>1, <1>3, <1>6, <1>8
<1> QED
  BY <1>2, <1>9 DEF z, z2, r, R

\* The pipeline and the sums, by what was given.
GivenType == given \in Seq(Clocks)

PipelineIs ==
  /\ squares = IF Now < 1 THEN <<0, 0>>
               ELSE <<Square(Val(given[Now].g[1])), Square(Val(given[Now].g[2]))>>
  /\ tan = IF Now < 1 THEN 0 ELSE Bin(given[Now].g)
  /\ length = IF Now < 2 THEN 0 ELSE LengthOf(given[Now - 1].g)
  /\ mag = IF Now < 3 THEN 0 ELSE LengthOf(given[Now - 2].g)
  /\ magnitude = IF Now < 1 THEN 0 ELSE OutIn(given, Now)

SumsAre ==
  /\ array = [b \in Bins |-> SumIn(given, b, Ago(1)) % SumRange]
  /\ H = [b \in Bins |-> SumIn(given, b, Ago(2)) % SumRange]

CellInv == GivenType /\ PipelineIs /\ SumsAre /\ ThreeBins

\* The registers power up as if nothing had ever been given.
LEMMA CellInitInv == ASSUME CellInit PROVE CellInv
<1>1. given = <<>> /\ Len(given) = 0 /\ given \in Seq(Clocks)
  BY DEF CellInit
<1>2. Now = 0 /\ Ago(1) = 0 /\ Ago(2) = 0
  BY <1>1 DEF Now, Ago
<1>3. PipelineIs
  BY <1>2 DEF PipelineIs, CellInit, GradientInit
<1>4. SumsAre
  <2>1. ASSUME NEW b PROVE SumIn(given, b, 0) = 0
    BY SumNone DEF SumIn
  <2>2. 0 % SumRange = 0
    BY RootStepsIs
  <2> QED
    BY <1>2, <2>1, <2>2 DEF SumsAre, CellInit, HistogramInit
<1>5. ThreeBins
  BY DEF ThreeBins, CellInit, GradientInit, HistogramInit
<1> QED
  BY <1>1, <1>3, <1>4, <1>5 DEF CellInv, GivenType

\* What was given in a clock goes to the end.
LEMMA ClockGives ==
  ASSUME CellInv, NEW e \in Clocks, given' = Append(given, e)
  PROVE  /\ GivenType' /\ Now \in Nat /\ Now' = Now + 1 /\ given'[Now'] = e
         /\ \A i \in 1 .. Now : given'[i] = given[i]
<1>1. /\ Append(given, e) \in Seq(Clocks) /\ Len(Append(given, e)) = Len(given) + 1
      /\ Append(given, e)[Len(given) + 1] = e
      /\ \A i \in 1 .. Len(given) : Append(given, e)[i] = given[i]
  BY AppendGiven DEF CellInv, GivenType
<1>2. Len(given) \in Nat
  BY GivenFacts DEF CellInv, GivenType
<1> QED
  BY <1>1, <1>2 DEF Now, GivenType

\* A clock moves every length on by one register.
LEMMA PixelPipes ==
  ASSUME CellInv, NEW e \in Clocks, given' = Append(given, e), Pixel(e.g, e.rst)
  PROVE  PipelineIs'
<1>1. /\ GivenType' /\ Now \in Nat /\ Now' = Now + 1 /\ given'[Now'] = e
      /\ \A i \in 1 .. Now : given'[i] = given[i]
  BY ClockGives
<1>2. e.rst \in BOOLEAN
  BY DEF Clocks
<1>3. PipelineIs
  BY DEF CellInv
<1>4. ~(Now' < 1)
  BY <1>1
<1>5. squares' = <<Square(Val(e.g[1])), Square(Val(e.g[2]))>> /\ tan' = Bin(e.g)
  BY DEF Pixel
<1>6. length' = IF Now' < 2 THEN 0 ELSE LengthOf(given'[Now' - 1].g)
  <2>1. length' = Root_sqr(SumOfSquares(squares[1], squares[2]))
    BY DEF Pixel
  <2>2. CASE Now = 0
    <3>1. squares = <<0, 0>> /\ Now' < 2
      BY <1>1, <1>3, <2>2 DEF PipelineIs
    <3> QED
      BY <2>1, <3>1, NoLength
  <2>3. CASE Now # 0
    <3>1. ~(Now < 1) /\ ~(Now' < 2) /\ Now' - 1 = Now /\ Now \in 1 .. Now
      BY <1>1, <2>3
    <3>2. squares = <<Square(Val(given[Now].g[1])), Square(Val(given[Now].g[2]))>>
      BY <1>3, <3>1 DEF PipelineIs
    <3>3. given'[Now' - 1] = given[Now]
      BY <1>1, <3>1
    <3> QED
      BY <2>1, <3>1, <3>2, <3>3 DEF LengthOf
  <2> QED
    BY <2>2, <2>3
<1>7. mag' = IF Now' < 3 THEN 0 ELSE LengthOf(given'[Now' - 2].g)
  <2>1. mag' = length /\ length = IF Now < 2 THEN 0 ELSE LengthOf(given[Now - 1].g)
    BY <1>3 DEF Pixel, PipelineIs
  <2>2. CASE Now < 2
    <3>1. Now' < 3
      BY <1>1, <2>2
    <3> QED
      BY <2>1, <2>2, <3>1
  <2>3. CASE ~(Now < 2)
    <3>1. ~(Now' < 3) /\ Now' - 2 = Now - 1 /\ Now - 1 \in 1 .. Now
      BY <1>1, <2>3
    <3>2. given'[Now' - 2] = given[Now - 1]
      BY <1>1, <3>1
    <3> QED
      BY <2>1, <2>3, <3>1, <3>2
  <2> QED
    BY <2>2, <2>3
<1>8. magnitude' = OutIn(given', Now')
  <2>1. magnitude' = (IF e.rst THEN 0 ELSE mag)
        /\ mag = IF Now < 3 THEN 0 ELSE LengthOf(given[Now - 2].g)
    BY <1>3 DEF Pixel, PipelineIs
  <2>2. CASE e.rst
    BY <1>1, <2>1, <2>2 DEF OutIn
  <2>3. CASE ~ e.rst /\ Now < 3
    <3>1. Now' < 4
      BY <1>1, <2>3
    <3> QED
      BY <1>1, <2>1, <2>3, <3>1 DEF OutIn
  <2>4. CASE ~ e.rst /\ ~(Now < 3)
    <3>1. ~(Now' < 4) /\ Now' - 3 = Now - 2 /\ Now - 2 \in 1 .. Now
      BY <1>1, <2>4
    <3>2. given'[Now' - 3] = given[Now - 2]
      BY <1>1, <3>1
    <3> QED
      BY <1>1, <2>1, <2>4, <3>1, <3>2 DEF OutIn
  <2> QED
    BY <2>2, <2>3, <2>4
<1> QED
  BY <1>1, <1>4, <1>5, <1>6, <1>7, <1>8 DEF PipelineIs

\* A bin that is not counted on adds nothing.
LEMMA PartNow ==
  ASSUME CellInv, Now >= 1, NEW b \in Bins
  PROVE  PartIn(given, b, Now) = IF b = tan THEN magnitude ELSE 0
<1>1. Now \in Nat /\ Now = Len(given) /\ ~(Now < 1)
  BY GivenFacts DEF CellInv, GivenType, Now
<1>2. tan = Bin(given[Now].g) /\ magnitude = OutIn(given, Now)
  BY <1>1 DEF CellInv, PipelineIs
<1>3. KeptIn(given, b, Now) <=> b = tan
  <2>1. Now + 1 .. Len(given) = {}
    BY <1>1
  <2> QED
    BY <1>2, <2>1 DEF KeptIn
<1> QED
  BY <1>2, <1>3 DEF PartIn

\* With enable the length on the output is added in its bin, without it the
\* sums begin again; the bins left out stay empty.
LEMMA AddSums ==
  ASSUME CellInv, NEW e \in Clocks, given' = Append(given, e), e.enable, Add
  PROVE  SumsAre'
<1>1. /\ Now \in Nat /\ Now' = Now + 1 /\ given \in Seq(Clocks) /\ Now = Len(given)
  BY ClockGives DEF CellInv, GivenType, Now
<1>2. ASSUME NEW b, NEW n \in 0 .. Now
      PROVE  SumIn(given', b, n) = SumIn(given, b, n) /\ SumIn(given, b, n) \in Int
  BY <1>1, <1>2, SumStays
<1>3. Ago(1)' = Now
  BY <1>1 DEF Ago
<1>4. ASSUME NEW b \in Bins
      PROVE  /\ array'[b] = SumIn(given', b, Ago(1)') % SumRange
             /\ H'[b] = SumIn(given', b, Ago(2)') % SumRange
  <2>1. array[b] = SumIn(given, b, Ago(1)) % SumRange
    BY <1>4 DEF CellInv, SumsAre
  <2>2. /\ array'[b] = (IF b = tan THEN (array[b] + magnitude) % SumRange ELSE array[b])
        /\ H'[b] = array[b]
    BY <1>4 DEF Add
  <2>3. CASE Now = 0
    <3>1. Ago(1) = 0 /\ Ago(2)' = 0 /\ Now < 1
      BY <1>1, <2>3 DEF Ago
    <3>2. magnitude = 0
      BY <3>1 DEF CellInv, PipelineIs
    <3>3. 0 \in 0 .. Now
      BY <1>1
    <3>4. SumIn(given', b, 0) = SumIn(given, b, 0) /\ SumIn(given, b, 0) = 0
      <4>1. SumIn(given, b, 0) = 0
        BY SumNone DEF SumIn
      <4> QED
        BY <1>2, <3>3, <4>1
    <3>5. 0 % SumRange = 0 /\ 0 + 0 = 0
      BY RootStepsIs
    <3> QED
      BY <1>3, <2>1, <2>2, <2>3, <3>1, <3>2, <3>4, <3>5
  <2>4. CASE Now # 0
    <3> DEFINE n == Now - 1
    <3>1. n \in Nat /\ n < Len(given) /\ n + 1 = Now /\ n \in 0 .. Now /\ Now \in 0 .. Now
          /\ Now >= 1 /\ Ago(1) = n /\ Ago(2)' = n
      BY <1>1, <2>4 DEF Ago
    <3> HIDE DEF n
    <3>2. SumIn(given, b, n + 1) = SumIn(given, b, n) + PartIn(given, b, n + 1)
          /\ SumIn(given, b, n) \in Int
      BY <1>1, <3>1, SumGrows
    <3>3. PartIn(given, b, Now) = IF b = tan THEN magnitude ELSE 0
      BY <3>1, PartNow
    <3>4. PartIn(given, b, Now) \in Int
      <4>1. Now \in 1 .. Len(given)
        BY <1>1, <3>1
      <4> QED
        BY <1>1, <4>1, PartType
    <3>5. SumIn(given', b, Now) = SumIn(given, b, n) + PartIn(given, b, Now)
          /\ SumIn(given', b, n) = SumIn(given, b, n)
      BY <1>2, <3>1, <3>2
    <3>6. CASE b = tan
      <4>1. magnitude \in Int /\ PartIn(given, b, Now) = magnitude
        BY <3>3, <3>4, <3>6
      <4>2. ((SumIn(given, b, n) % SumRange) + magnitude) % SumRange
              = (SumIn(given, b, n) + magnitude) % SumRange
        BY <3>2, <4>1, CutAsItGrows
      <4> QED
        BY <1>3, <2>1, <2>2, <3>1, <3>5, <3>6, <4>1, <4>2
    <3>7. CASE b # tan
      <4>1. SumIn(given', b, Now) = SumIn(given, b, n)
        BY <3>2, <3>3, <3>5, <3>7
      <4> QED
        BY <1>3, <2>1, <2>2, <3>1, <3>5, <3>7, <4>1
    <3> QED
      BY <3>6, <3>7
  <2> QED
    BY <2>3, <2>4
<1>5. array' = [b \in Bins |-> array'[b]] /\ H' = [b \in Bins |-> H'[b]]
  <2>1. array = [b \in Bins |-> array[b]]
    BY DEF CellInv, SumsAre
  <2> QED
    BY <2>1 DEF Add
<1>6. /\ array' = [b \in Bins |-> SumIn(given', b, Ago(1)') % SumRange]
      /\ H' = [b \in Bins |-> SumIn(given', b, Ago(2)') % SumRange]
  BY <1>4, <1>5
<1> QED
  BY <1>6 DEF SumsAre

LEMMA EmptySums ==
  ASSUME CellInv, NEW e \in Clocks, given' = Append(given, e), ~ e.enable, Empty
  PROVE  SumsAre'
<1>1. /\ Now \in Nat /\ Now' = Now + 1 /\ given \in Seq(Clocks) /\ Now = Len(given)
  BY ClockGives DEF CellInv, GivenType, Now
<1>2. Ago(1)' \in 0 .. Now /\ Ago(2)' \in 0 .. Now
  BY <1>1 DEF Ago
<1>3. ASSUME NEW b, NEW n \in 0 .. Now PROVE SumIn(given', b, n) = 0
  BY <1>1, <1>3, SumStays
<1>4. 0 % SumRange = 0
  BY RootStepsIs
<1> QED
  BY <1>2, <1>3, <1>4 DEF SumsAre, Empty

LEMMA AddBins ==
  ASSUME CellInv, Add \/ Empty, NEW g \in Differences \X Differences, tan' = Bin(g)
  PROVE  ThreeBins'
<1>1. tan' \in {0, 3, 8}
  BY BinIs
<1>2. tan \in {0, 3, 8} /\ \A b \in Bins \ {0, 3, 8} : array[b] = 0
  BY DEF CellInv, ThreeBins
<1>3. ASSUME NEW b \in Bins \ {0, 3, 8} PROVE array'[b] = 0
  BY <1>2, <1>3 DEF Add, Empty
<1> QED
  BY <1>1, <1>3 DEF ThreeBins

\* Every clock keeps all of it.
LEMMA CellClockInv ==
  ASSUME CellInv, NEW g \in Gradients, NEW rst \in BOOLEAN, NEW enable \in BOOLEAN,
         CellClock(g, rst, enable)
  PROVE  CellInv'
<1> DEFINE e == [g |-> g, rst |-> rst, enable |-> enable]
<1>1. e \in Clocks /\ g \in Differences \X Differences
  BY GradientsAssumption DEF GradientsAssumption, GradientsAreReal, Clocks
<1>2. e.g = g /\ e.rst = rst /\ e.enable = enable
  OBVIOUS
<1>3. given' = Append(given, e) /\ Pixel(e.g, e.rst)
      /\ IF e.enable THEN Add ELSE Empty
  BY <1>2 DEF CellClock
<1> HIDE DEF e
<1>4. GivenType'
  BY <1>1, <1>3, ClockGives
<1>5. PipelineIs'
  BY <1>1, <1>3, PixelPipes
<1>6. SumsAre'
  BY <1>1, <1>3, AddSums, EmptySums
<1>7. ThreeBins'
  <2>1. tan' = Bin(g) /\ (Add \/ Empty)
    BY <1>2, <1>3 DEF Pixel
  <2> QED
    BY <1>1, <2>1, AddBins
<1> QED
  BY <1>4, <1>5, <1>6, <1>7 DEF CellInv

LEMMA CellNextInv == ASSUME CellInv, [CellNext]_hogVars PROVE CellInv'
<1>1. CASE CellNext
  BY <1>1, CellClockInv DEF CellNext
<1>2. CASE UNCHANGED hogVars
  BY <1>2 DEF hogVars, gradientVars, histogramVars, CellInv, GivenType, PipelineIs,
              SumsAre, ThreeBins, Now, Ago
<1> QED
  BY <1>1, <1>2

LEMMA CellInvariance == CellSpec => []CellInv
<1> QED
  BY CellInitInv, CellNextInv, PTL DEF CellSpec

\* What follows from the invariant: the widths, the roots, the totals.
LEMMA GivenNow ==
  ASSUME CellInv
  PROVE  /\ Now \in Nat /\ Now = Len(given) /\ given \in Seq(Clocks)
         /\ \A i \in 1 .. Now : /\ given[i].g \in Differences \X Differences
                                /\ given[i].rst \in BOOLEAN
                                /\ LengthOf(given[i].g) \in Outputs
                                /\ OutIn(given, i) \in Outputs
<1>1. given \in Seq(Clocks) /\ Now = Len(given)
  BY DEF CellInv, GivenType, Now
<1>2. Now \in Nat
  BY <1>1, GivenFacts
<1>3. ASSUME NEW i \in 1 .. Now
      PROVE  /\ given[i].g \in Differences \X Differences /\ given[i].rst \in BOOLEAN
             /\ LengthOf(given[i].g) \in Outputs /\ OutIn(given, i) \in Outputs
  BY <1>1, GivenFacts, LengthType, OutType
<1> QED
  BY <1>1, <1>2, <1>3

LEMMA CellTypes == ASSUME CellInv PROVE HogTypeOK
<1>1. /\ Now \in Nat
      /\ \A i \in 1 .. Now : /\ given[i].g \in Differences \X Differences
                             /\ LengthOf(given[i].g) \in Outputs
                             /\ OutIn(given, i) \in Outputs
  BY GivenNow
<1>2. PipelineIs /\ SumsAre
  BY DEF CellInv
<1>3. squares \in (0 .. 2^17 - 1) \X (0 .. 2^17 - 1)
  <2> DEFINE W == 0 .. 2^17 - 1
  <2>1. ASSUME NEW z \in Nat, In17Bits(z) PROVE z \in W
    <3>1. 2^17 - 1 = 131071
      OBVIOUS
    <3> QED
      BY <2>1, <3>1 DEF In17Bits
  <2>2. 0 \in W
    BY <2>1 DEF In17Bits
  <2> HIDE DEF W
  <2>3. ASSUME NEW g \in Differences \X Differences
        PROVE  Square(Val(g[1])) \in W /\ Square(Val(g[2])) \in W
    <3>1. g[1] \in Int /\ g[2] \in Int
      BY DEF Differences
    <3> QED
      BY <2>1, <3>1, SquareType
  <2>4. squares \in W \X W
    <3>1. CASE Now < 1
      BY <1>2, <2>2, <3>1 DEF PipelineIs
    <3>2. CASE ~(Now < 1)
      <4>1. Now \in 1 .. Now
        BY <1>1, <3>2
      <4> QED
        BY <1>1, <1>2, <2>3, <3>2, <4>1 DEF PipelineIs
    <3> QED
      BY <3>1, <3>2
  <2> QED
    BY <2>4 DEF W
<1>4. Outputs = 0 .. 2^11 - 1
  <2>1. 2^11 - 1 = 2047
    OBVIOUS
  <2> QED
    BY <2>1 DEF Outputs
<1>5. 0 \in Outputs
  BY DEF Outputs
<1>6. length \in Outputs /\ mag \in Outputs /\ magnitude \in Outputs
  <2>1. /\ ~(Now < 1) => Now \in 1 .. Now
        /\ ~(Now < 2) => Now - 1 \in 1 .. Now
        /\ ~(Now < 3) => Now - 2 \in 1 .. Now
    BY <1>1
  <2>2. length \in Outputs
    BY <1>1, <1>2, <1>5, <2>1 DEF PipelineIs
  <2>3. mag \in Outputs
    BY <1>1, <1>2, <1>5, <2>1 DEF PipelineIs
  <2>4. magnitude \in Outputs
    BY <1>1, <1>2, <1>5, <2>1 DEF PipelineIs
  <2> QED
    BY <2>2, <2>3, <2>4
<1>7. tan \in 0 .. 8
  BY DEF CellInv, ThreeBins
<1>8. array \in [Bins -> 0 .. SumRange - 1] /\ H \in [Bins -> 0 .. SumRange - 1]
  <2>1. Ago(1) \in 0 .. Now /\ Ago(2) \in 0 .. Now
    BY <1>1 DEF Ago
  <2>2. ASSUME NEW b, NEW n \in 0 .. Now
        PROVE  SumIn(given, b, n) % SumRange \in 0 .. SumRange - 1
    <3>1. SumIn(given, b, n) \in Int
      <4>1. CASE n = Now /\ n = 0
        BY <4>1, SumNone DEF SumIn
      <4>2. CASE n < Now
        BY <4>2, GivenNow, SumGrows
      <4>3. CASE n = Now /\ n # 0
        <5> DEFINE m == n - 1
        <5>1. m \in Nat /\ m < Len(given) /\ m + 1 = n /\ n \in 1 .. Len(given)
              /\ given \in Seq(Clocks)
          BY <1>1, <4>3, GivenNow
        <5> HIDE DEF m
        <5>2. SumIn(given, b, m + 1) = SumIn(given, b, m) + PartIn(given, b, m + 1)
              /\ SumIn(given, b, m) \in Int
          BY <5>1, SumGrows
        <5>3. PartIn(given, b, n) \in Int
          BY <5>1, PartType
        <5> QED
          BY <5>1, <5>2, <5>3
      <4> QED
        BY <1>1, <4>1, <4>2, <4>3
    <3>2. 0 \in Int
      OBVIOUS
    <3> QED
      BY <3>1, <3>2, CutAsItGrows
  <2> QED
    BY <1>2, <2>1, <2>2 DEF SumsAre
<1> QED
  BY <1>3, <1>4, <1>6, <1>7, <1>8 DEF HogTypeOK

LEMMA CellRoots == ASSUME CellInv PROVE MagnitudeIsRoot
<1>1. SUFFICES ASSUME Now >= 4, InRange(given[Now - 3].g)
               PROVE  magnitude \in IF given[Now].rst THEN {0}
                                    ELSE Lengths(given[Now - 3].g)
  BY DEF MagnitudeIsRoot
<1>2. Now \in Nat /\ ~(Now < 1) /\ ~(Now < 4) /\ Now - 3 \in 1 .. Now
  BY <1>1, GivenNow
<1>3. magnitude = IF given[Now].rst THEN 0 ELSE LengthOf(given[Now - 3].g)
  BY <1>2 DEF CellInv, PipelineIs, OutIn
<1>4. Lengths(given[Now - 3].g) = {LengthOf(given[Now - 3].g)}
  <2>1. given[Now - 3].g \in Differences \X Differences
    BY <1>2, GivenNow
  <2> QED
    BY <1>1, <2>1, LengthIs
<1> QED
  BY <1>3, <1>4

LEMMA CellTotals == ASSUME CellInv PROVE HistogramIsOfGradients
<1>1. SUFFICES ASSUME \A i \in DOMAIN given : InRange(given[i].g), NEW b \in Bins
               PROVE  H[b] = Total(b, Ago(2)) % SumRange
  BY DEF HistogramIsOfGradients
<1>2. Now \in Nat /\ Now = Len(given) /\ given \in Seq(Clocks) /\ DOMAIN given = 1 .. Now
  BY GivenNow
<1>3. Ago(2) \in Nat /\ Ago(2) <= Now
  BY <1>2 DEF Ago
<1>4. ASSUME NEW i \in 1 .. Now PROVE LengthAt(i) = OutIn(given, i)
  <2>1. CASE i < 4 \/ given[i].rst
    BY <2>1 DEF LengthAt, OutIn
  <2>2. CASE ~(i < 4 \/ given[i].rst)
    <3>1. i - 3 \in 1 .. Now
      BY <1>2, <2>2
    <3> DEFINE g == given[i - 3].g
    <3>2. InRange(g) /\ g \in Differences \X Differences
      BY <1>1, <1>2, <3>1, GivenNow
    <3> HIDE DEF g
    <3>3. Lengths(g) = {LengthOf(g)}
      BY <3>2, LengthIs
    <3>4. (CHOOSE r \in Lengths(g) : TRUE) = LengthOf(g)
      BY <3>3
    <3> QED
      BY <2>2, <3>4 DEF LengthAt, OutIn, g
  <2> QED
    BY <2>1, <2>2
<1> DEFINE n == Ago(2)
           f == [i \in 1 .. n |-> PartIn(given, b, i)]
           h == [i \in 1 .. n |-> IF Counted(b, i) THEN LengthAt(i) ELSE 0]
<1>5. ASSUME NEW i \in 1 .. n PROVE f[i] \in Int /\ h[i] = f[i]
  <2>1. i \in 1 .. Now
    BY <1>2, <1>3
  <2>2. PartIn(given, b, i) \in Int
    BY <1>2, <2>1, PartType
  <2>3. Counted(b, i) <=> KeptIn(given, b, i)
    BY <1>2 DEF Counted, KeptIn
  <2>4. h[i] = PartIn(given, b, i)
    BY <1>4, <2>1, <2>3 DEF PartIn
  <2> QED
    BY <2>2, <2>4
<1>6. SumIn(given, b, n) = SumTo(n, f) /\ Total(b, n) = SumTo(n, h)
  BY DEF SumIn, Total
<1> HIDE DEF f, h, n
<1>7. SumTo(n, f) = SumTo(n, h)
  <2>1. n \in Nat
    BY <1>3 DEF n
  <2> QED
    BY <1>5, <2>1, SumOfSame
<1>8. H[b] = SumIn(given, b, n) % SumRange
  BY <1>1 DEF CellInv, SumsAre, n
<1> QED
  BY <1>6, <1>7, <1>8 DEF n

(***************************************************************************)
(* HogCell, for every set of gradients of 16-bit differences, every width  *)
(* of a sum, every loop of at least 17 steps and every sequence of clocks  *)
(* with rst and enable as they come: four clocks after a gradient whose    *)
(* differences are at most 255 its integer root is on the output of        *)
(* magtan.v, and what getHistogram.v shows is, in three bins, the sum of   *)
(* the lengths it had in hand with the bins.                               *)
(***************************************************************************)
THEOREM HistogramAlwaysOfLengths == CellSpec => []HistogramIsOfLengths
<1>1. CellInv => HistogramIsOfLengths
  BY CellTypes, CellRoots, CellTotals DEF CellInv, HistogramIsOfLengths
<1> QED
  BY <1>1, CellInvariance, PTL

(***************************************************************************)
(* The buttons.                                                            *)
(***************************************************************************)

\* The states of level_to_pulse.
States == {"WAIT_LOW", "RISING", "PULSE", "WAIT_HIGH"}

\* Clocks since the slow clock rose.
SinceRise == IF clk_slow THEN clk_counter ELSE Period + clk_counter

\* The level has stood at least since the slow clock rose, and a pulse is out
\* in RISING alone.
ButtonInv ==
  /\ clk_counter \in 1 .. Period /\ quiet \in 0 .. Quiet
  /\ clk_slow \in BOOLEAN /\ i_clk \in BOOLEAN /\ o_pulse \in BOOLEAN
  /\ state \in States /\ next \in States
  /\ quiet >= SinceRise
  /\ o_pulse => state = "RISING"
  /\ state = "RISING" => next = "PULSE"

\* At power-up the button has been quiet for long.
LEMMA ButtonInitInv == ASSUME PeriodIsReal, ButtonInit PROVE ButtonInv
<1>1. Period \in Nat /\ Period >= 1 /\ 2 * Period \in Nat
  BY DEF PeriodIsReal
<1>2. /\ clk_counter = 1 /\ clk_slow = FALSE /\ i_clk = FALSE /\ o_pulse = FALSE
      /\ state = "WAIT_LOW" /\ next = "WAIT_LOW" /\ quiet = 2 * Period
  BY DEF ButtonInit, Quiet
<1>3. SinceRise = Period + 1
  BY <1>2 DEF SinceRise
<1>4. quiet >= SinceRise /\ quiet \in 0 .. Quiet /\ clk_counter \in 1 .. Period
  BY <1>1, <1>2, <1>3 DEF Quiet
<1> QED
  BY <1>2, <1>4 DEF ButtonInv, States

\* The level changes only where the slow clock rises, a whole period later.
LEMMA DebounceKeeps ==
  ASSUME PeriodIsReal, ButtonInv, Debounce
  PROVE  /\ clk_counter' \in 1 .. Period /\ quiet' \in 0 .. Quiet
         /\ clk_slow' \in BOOLEAN /\ quiet' >= SinceRise'
         /\ button_state' # button_state => quiet = Quiet
<1>1. /\ Period \in Nat /\ Period >= 1 /\ clk_counter \in 1 .. Period
      /\ quiet \in 0 .. 2 * Period /\ clk_slow \in BOOLEAN
      /\ quiet >= IF clk_slow THEN clk_counter ELSE Period + clk_counter
  BY DEF PeriodIsReal, ButtonInv, Quiet, SinceRise
<1>2. CASE clk_counter < Period
  <2>1. clk_counter' = clk_counter + 1 /\ clk_slow' = clk_slow
    BY <1>2 DEF Debounce
  <2>2. button_state' = button_state
    BY <1>1, <2>1 DEF Debounce, Samples
  <2>3. quiet' = IF quiet < 2 * Period THEN quiet + 1 ELSE quiet
    BY <2>2 DEF Debounce, Quiet
  <2> QED
    BY <1>1, <1>2, <2>1, <2>2, <2>3 DEF Quiet, SinceRise
<1>3. CASE ~(clk_counter < Period)
  <2>1. clk_counter' = 1 /\ clk_slow' = ~ clk_slow /\ clk_counter = Period
    BY <1>1, <1>3 DEF Debounce
  <2>2. CASE clk_slow
    <3>1. button_state' = button_state
      BY <2>1, <2>2 DEF Debounce, Samples
    <3>2. quiet' = IF quiet < 2 * Period THEN quiet + 1 ELSE quiet
      BY <3>1 DEF Debounce, Quiet
    <3>3. clk_slow' = FALSE /\ clk_slow' \in BOOLEAN /\ quiet >= Period
      BY <1>1, <2>1, <2>2
    <3>4. SinceRise' = Period + 1
      BY <2>1, <3>3 DEF SinceRise
    <3> QED
      BY <1>1, <2>1, <3>1, <3>2, <3>3, <3>4 DEF Quiet
  <2>3. CASE ~ clk_slow
    <3>1. quiet = 2 * Period
      BY <1>1, <2>1, <2>3
    <3>2. quiet' = 1 \/ quiet' = quiet
      BY <3>1 DEF Debounce, Quiet
    <3>3. clk_slow' = TRUE /\ clk_slow' \in BOOLEAN
      BY <2>1, <2>3
    <3>4. SinceRise' = 1
      BY <2>1, <3>3 DEF SinceRise
    <3> QED
      BY <1>1, <2>1, <3>1, <3>2, <3>3, <3>4 DEF Quiet
  <2> QED
    BY <1>1, <2>2, <2>3
<1> QED
  BY <1>2, <1>3

\* Whichever state the clock takes, the old next one or that of the level it
\* falls with, RISING is left at once for PULSE, where the pulse ends.
LEMMA LevelToPulseKeeps ==
  ASSUME ButtonInv, LevelToPulse
  PROVE  /\ o_pulse' \in BOOLEAN /\ state' \in States /\ next' \in States
         /\ o_pulse' => state' = "RISING"
         /\ state' = "RISING" => next' = "PULSE"
         /\ o_pulse => ~ o_pulse'
<1> DEFINE after == NextState(state, TRUE, next)
<1>1. /\ state \in States /\ next \in States /\ o_pulse \in BOOLEAN
      /\ o_pulse => state = "RISING"
      /\ state = "RISING" => next = "PULSE"
  BY DEF ButtonInv
<1>2. after \in States /\ (state = "RISING" => after = "PULSE")
  BY <1>1 DEF NextState, States
<1> HIDE DEF after
<1>3. /\ state' \in {next, after} /\ next' = NextState(state', TRUE, after)
      /\ o_pulse' = Pulse(state', o_pulse)
  BY DEF LevelToPulse, after
<1>4. state' \in States /\ (state = "RISING" => state' = "PULSE")
  BY <1>1, <1>2, <1>3
<1>5. next' \in States /\ (state' = "RISING" => next' = "PULSE")
  BY <1>2, <1>3, <1>4 DEF NextState, States
<1>6. CASE o_pulse
  <2>1. state' = "PULSE"
    BY <1>1, <1>4, <1>6
  <2>2. o_pulse' = FALSE
    BY <1>3, <2>1 DEF Pulse
  <2> QED
    BY <1>4, <1>5, <2>2
<1>7. CASE ~ o_pulse
  <2>1. o_pulse = FALSE
    BY <1>1, <1>7
  <2>2. o_pulse' \in BOOLEAN /\ (o_pulse' => state' = "RISING")
    <3>1. CASE state' = "RISING"
      BY <1>3, <3>1 DEF Pulse
    <3>2. CASE state' = "PULSE"
      BY <1>3, <3>2 DEF Pulse
    <3>3. CASE state' \notin {"RISING", "PULSE"}
      <4>1. o_pulse' = o_pulse
        BY <1>3, <3>3 DEF Pulse
      <4> QED
        BY <2>1, <4>1
    <3> QED
      BY <3>1, <3>2, <3>3
  <2> QED
    BY <1>4, <1>5, <1>7, <2>2
<1> QED
  BY <1>6, <1>7

\* Every edge of the clock keeps the invariant, and so does a bounce.
LEMMA ButtonNextInv ==
  ASSUME PeriodIsReal, ButtonInv, [ButtonNext]_buttonVars PROVE ButtonInv'
<1>1. CASE Rise
  <2>1. Debounce /\ LevelToPulse /\ i_clk' = TRUE
    BY <1>1 DEF Rise
  <2> QED
    BY <2>1, DebounceKeeps, LevelToPulseKeeps DEF ButtonInv
<1>2. CASE Fall
  <2>1. /\ i_clk' = FALSE /\ next' = NextState(state, FALSE, next)
        /\ UNCHANGED <<i_button, debounceVars, state, o_pulse, quiet>>
    BY <1>2 DEF Fall
  <2>2. next' \in States /\ (state = "RISING" => next' = "PULSE")
    BY <2>1 DEF ButtonInv, NextState, States
  <2> QED
    BY <2>1, <2>2 DEF ButtonInv, SinceRise, debounceVars
<1>3. CASE Bounce \/ UNCHANGED buttonVars
  BY <1>3 DEF Bounce, buttonVars, debounceVars, pulseVars, ButtonInv, SinceRise
<1> QED
  BY <1>1, <1>2, <1>3 DEF ButtonNext

\* What the two properties ask of a step.
LEMMA ButtonStep ==
  ASSUME PeriodIsReal, ButtonInv, [ButtonNext]_buttonVars
  PROVE  /\ button_state' # button_state => quiet = Quiet
         /\ o_pulse /\ Rise => ~ o_pulse'
<1>1. ASSUME Rise PROVE (button_state' # button_state => quiet = Quiet) /\ (o_pulse => ~ o_pulse')
  BY <1>1, DebounceKeeps, LevelToPulseKeeps DEF Rise
<1>2. ASSUME Fall \/ Bounce \/ UNCHANGED buttonVars PROVE button_state' = button_state
  BY <1>2 DEF Fall, Bounce, buttonVars, debounceVars
<1> QED
  BY <1>1, <1>2 DEF ButtonNext

(***************************************************************************)
(* A debounced button: its level changes only after it has stood for two   *)
(* half periods of the slow clock, and a pulse never lasts longer than one *)
(* clock, for every period, however the button bounces.                    *)
(***************************************************************************)
THEOREM ButtonIsDebounced ==
  ASSUME PeriodIsReal
  PROVE  ButtonClocks => LevelIsDebounced /\ PulseIsOneClock
<1>1. ButtonInit => ButtonInv
  BY ButtonInitInv
<1>2. ButtonInv /\ [ButtonNext]_buttonVars => ButtonInv'
  BY ButtonNextInv
<1>3. ButtonInv /\ [ButtonNext]_buttonVars =>
        /\ [button_state' # button_state => quiet = Quiet]_buttonVars
        /\ [o_pulse /\ Rise => ~ o_pulse']_buttonVars
  BY ButtonStep
<1> QED
  BY <1>1, <1>2, <1>3, PTL DEF ButtonClocks, LevelIsDebounced, PulseIsOneClock

(***************************************************************************)
(* The normalization of blocks.                                            *)
(***************************************************************************)

\* The widths of a sum and of a number that comes out.
LEMMA RangesAre ==
  MagnitudeRange \in Nat /\ MagnitudeRange > 0 /\ Out \in Nat /\ Out > 0
<1> DEFINE M == Root * Root
<1>1. M \in Nat /\ M > 0
  BY SmallWords
<1>2. 2 * Root * Root = 2 * M
  <2>1. \A x, y \in Int : 2 * x * y = 2 * (x * y)
    OBVIOUS
  <2> QED
    BY <2>1, WidthAssumption
<1>3. 2 * M \in Nat /\ 2 * M > 0
  <2> HIDE DEF M
  <2> QED
    BY <1>1
<1> QED
  BY <1>1, <1>2, <1>3 DEF MagnitudeRange, Out

\* The powers of two that a word of 16 bits has.
LEMMA PowersOfTwo ==
  ASSUME NEW k \in 0 .. 15
  PROVE  2 ^ k \in Nat /\ (k > 0 => 2 ^ k > 1)
<1>1. CASE k = 0
  <2>1. 2 ^ 0 = 1
    BY SMT
  <2> QED
    BY <1>1, <2>1, SMT
<1>2. CASE k = 1
  <2>1. 2 ^ 1 = 2
    BY SMT
  <2> QED
    BY <1>2, <2>1, SMT
<1>3. CASE k = 2
  <2>1. 2 ^ 2 = 4
    BY SMT
  <2> QED
    BY <1>3, <2>1, SMT
<1>4. CASE k = 3
  <2>1. 2 ^ 3 = 8
    BY SMT
  <2> QED
    BY <1>4, <2>1, SMT
<1>5. CASE k = 4
  <2>1. 2 ^ 4 = 16
    BY SMT
  <2> QED
    BY <1>5, <2>1, SMT
<1>6. CASE k = 5
  <2>1. 2 ^ 5 = 32
    BY SMT
  <2> QED
    BY <1>6, <2>1, SMT
<1>7. CASE k = 6
  <2>1. 2 ^ 6 = 64
    BY SMT
  <2> QED
    BY <1>7, <2>1, SMT
<1>8. CASE k = 7
  <2>1. 2 ^ 7 = 128
    BY SMT
  <2> QED
    BY <1>8, <2>1, SMT
<1>9. CASE k = 8
  <2>1. 2 ^ 8 = 256
    BY SMT
  <2> QED
    BY <1>9, <2>1, SMT
<1>10. CASE k = 9
  <2>1. 2 ^ 9 = 512
    BY SMT
  <2> QED
    BY <1>10, <2>1, SMT
<1>11. CASE k = 10
  <2>1. 2 ^ 10 = 1024
    BY SMT
  <2> QED
    BY <1>11, <2>1, SMT
<1>12. CASE k = 11
  <2>1. 2 ^ 11 = 2048
    BY SMT
  <2> QED
    BY <1>12, <2>1, SMT
<1>13. CASE k = 12
  <2>1. 2 ^ 12 = 4096
    BY SMT
  <2> QED
    BY <1>13, <2>1, SMT
<1>14. CASE k = 13
  <2>1. 2 ^ 13 = 8192
    BY SMT
  <2> QED
    BY <1>14, <2>1, SMT
<1>15. CASE k = 14
  <2>1. 2 ^ 14 = 16384
    BY SMT
  <2> QED
    BY <1>15, <2>1, SMT
<1>16. CASE k = 15
  <2>1. 2 ^ 15 = 32768
    BY SMT
  <2> QED
    BY <1>16, <2>1, SMT
<1>17. \/ k = 0 \/ k = 1 \/ k = 2 \/ k = 3 \/ k = 4 \/ k = 5 \/ k = 6 \/ k = 7
       \/ k = 8 \/ k = 9 \/ k = 10 \/ k = 11 \/ k = 12 \/ k = 13 \/ k = 14 \/ k = 15
  BY SMT
<1> QED
  BY <1>17, <1>1, <1>2, <1>3, <1>4, <1>5, <1>6, <1>7, <1>8,
     <1>9, <1>10, <1>11, <1>12, <1>13, <1>14, <1>15, <1>16, Zenon

\* The squares before the first clock are zero, and so is their sum.
LEMMA SumOfNothing ==
  ASSUME BlocksAreReal, sqr = [k \in Cells |-> 0]
  PROVE  Sum = 0
<1>1. Size \in Nat /\ \A i \in 1 .. Size : sqr[i] = 0
  BY DEF BlocksAreReal, Cells
<1>2. SumTo(Size, sqr) = 0
  BY <1>1, SumOfZeros
<1>3. Sum = (SumTo(Size, sqr) % MagnitudeRange) % Out
  BY DEF Sum, SumTo
<1>4. MagnitudeRange \in Nat /\ MagnitudeRange > 0 /\ Out \in Nat /\ Out > 0
  BY RangesAre
<1>5. 0 % MagnitudeRange = 0 /\ 0 % Out = 0
  BY <1>4
<1> QED
  BY <1>2, <1>3, <1>5

\* Neither 0 nor 1 has a bit set above bit 0.
LEMMA NoBitAbove ==
  ASSUME NEW n \in {0, 1}, NEW k \in 1 .. 15
  PROVE  ~ IsSet(n, k)
<1>1. n \div (2 ^ k) = 0
  <2>1. 2 ^ k \in Nat /\ 2 ^ k > 1
    <3>1. k \in 0 .. 15 /\ k > 0
      OBVIOUS
    <3> QED
      BY <3>1, PowersOfTwo
  <2> QED
    BY <2>1, SMT
<1>2. 0 % 2 = 0
  OBVIOUS
<1>3. (n \div (2 ^ k)) % 2 = 0
  BY <1>1, <1>2, Zenon
<1> QED
  BY <1>3 DEF IsSet

LEMMA LogIsZero ==
  ASSUME NEW n \in {0, 1}
  PROVE  Log(n) = 0
<1> DEFINE Highest(i) == (i = 0 \/ IsSet(n, i)) /\ \A k \in i + 1 .. 15 : ~ IsSet(n, k)
<1>1. 0 \in 0 .. 15 /\ Highest(0)
  BY NoBitAbove
<1>2. ASSUME NEW i \in 0 .. 15, Highest(i) PROVE i = 0
  <2>1. i = 0 \/ i \in 1 .. 15
    OBVIOUS
  <2> QED
    BY <1>2, <2>1, NoBitAbove
<1>3. Log(n) = CHOOSE i \in 0 .. 15 : Highest(i)
  BY DEF Log
<1> HIDE DEF Highest
<1> QED
  BY <1>1, <1>2, <1>3

\* A number that is shifted left has its range, and one shifted right by
\* nothing is itself.
LEMMA ScaleByNothing ==
  ASSUME BlocksAreReal, NEW n \in Nat
  PROVE  /\ Scale(n, 0) = (n * 2^Shift) % Out
         /\ Scale(n, 0) \in 0 .. Out - 1
<1>1. Out \in Nat /\ Out > 0
  BY SmallWords DEF Out
<1>2. n * 2^Shift \in Nat
  <2>1. 2^Shift \in Nat
    BY PowersOfTwo DEF BlocksAreReal
  <2> QED
    BY <2>1, SMT
<1> DEFINE Left == n * 2^Shift
<1>3. Left % Out \in 0 .. Out - 1
  <2> HIDE DEF Left
  <2> QED
    BY <1>1, <1>2 DEF Left
<1>4. 2 ^ 0 = 1
  BY SMT
<1>5. (Left % Out) \div 1 = Left % Out
  <2> HIDE DEF Left
  <2> QED
    BY <1>1, <1>3
<1>6. Scale(n, 0) = Left % Out
  BY <1>4, <1>5, Zenon DEF Scale
<1> QED
  BY <1>3, <1>6

(***************************************************************************)
(* The root is asked for once, while the squares are still zero, from the  *)
(* registers' reset values or from zero; in both it is at most 1.          *)
(***************************************************************************)
RootStaysSmall ==
  /\ a = 0 /\ step = 0 /\ root \in {0, 1}
  /\ \/ present_state = "start" /\ sqr = [k \in Cells |-> 0]
        /\ <<sq, del>> \in {<<0, 0>>, <<1, 3>>}
     \/ present_state = "test" /\ <<sq, del>> \in {<<0, 0>>, <<0, 2>>, <<1, 3>>, <<2, 4>>}
     \/ present_state = "update" /\ <<sq, del>> \in {<<0, 0>>, <<0, 2>>}
     \/ present_state = "done" /\ <<sq, del>> \in {<<1, 3>>, <<2, 4>>}

BlockInv == BlockTypeOK /\ NeverScaled /\ RootStaysSmall

\* What Root and RootWidth leave room for.
LEMMA RoomForSmall ==
  ASSUME BlocksAreReal
  PROVE  /\ 0 .. 4 \subseteq Words /\ {0, 1} \subseteq 0 .. RootWidth - 1
         /\ (0 + 0) % (Root * Root) = 0 /\ (0 + 2) % (Root * Root) = 2
         /\ (2 + 2) % (Root * Root) = 4
         /\ Root * Root \in Nat /\ Root * Root >= 9
         /\ RootWidth \in Nat /\ RootWidth >= 3
<1>1. Root \in Nat /\ Root >= 3 /\ RootWidth \in Nat /\ RootWidth >= 3
  BY WidthAssumption DEF BlocksAreReal
<1>2. PICK m \in Nat : Root = 3 + m
  <2>1. Root - 3 \in Nat /\ Root = 3 + (Root - 3)
    BY <1>1
  <2> QED
    BY <2>1
<1>3. Root * Root = 9 + (6 * m + m * m) /\ m * m \in Nat /\ 6 * m \in Nat
  BY <1>2
<1> DEFINE M == Root * Root
<1>4. M \in Nat /\ M >= 9
  BY <1>3
<1>5. 0 .. 4 \subseteq 0 .. M - 1 /\ 0 % M = 0 /\ 2 % M = 2 /\ 4 % M = 4
  <2> HIDE DEF M
  <2> QED
    BY <1>4
<1>6. Words = 0 .. M - 1
  BY DEF Words
<1>7. 0 + 0 = 0 /\ 0 + 2 = 2 /\ 2 + 2 = 4
  OBVIOUS
<1> HIDE DEF M
<1> QED
  BY <1>1, <1>4, <1>5, <1>6, <1>7 DEF M

\* Each clock of the root keeps it small.
LEMMA RootClockKeeps ==
  ASSUME BlocksAreReal, RootStaysSmall, RootClock, step' = Log(root)
  PROVE  RootStaysSmall'
<1>1. step' = 0
  BY LogIsZero DEF RootStaysSmall
<1>2. CASE Start(TRUE, Sum)
  <2>1. Sum = 0
    BY <1>2, SumOfNothing DEF RootStaysSmall, Start
  <2> QED
    BY <1>1, <1>2, <2>1 DEF RootStaysSmall, Start
<1>3. CASE Test
  BY <1>1, <1>3 DEF RootStaysSmall, Test, lteflg
<1>4. CASE Update
  <2>1. \/ sq = 0 /\ del = 0
        \/ sq = 0 /\ del = 2
    BY <1>4 DEF RootStaysSmall, Update
  <2>2. \/ sq' = 0 /\ del' = 2
        \/ sq' = 2 /\ del' = 4
    BY <1>4, <2>1, RoomForSmall DEF Update, s, dp2
  <2> QED
    BY <1>1, <1>4, <2>2 DEF RootStaysSmall, Update
<1>5. CASE Done
  <2>1. \/ sq = 1 /\ del = 3
        \/ sq = 2 /\ del = 4
    BY <1>5 DEF RootStaysSmall, Done
  <2>2. 3 \div 2 = 1 /\ 4 \div 2 = 2
    OBVIOUS
  <2>3. 1 % RootWidth = 1 /\ 2 % RootWidth = 2 /\ 0 % RootWidth = 0
    BY RoomForSmall
  <2>4. dm1 \in {0, 1}
    BY <2>1, <2>2, <2>3 DEF dm1
  <2> QED
    BY <1>1, <1>5, <2>1, <2>4 DEF RootStaysSmall, Done
<1> QED
  BY <1>2, <1>3, <1>4, <1>5 DEF RootClock

\* The widths of the root's registers, from what they hold.
LEMMA SmallHasType ==
  ASSUME BlocksAreReal, RootStaysSmall
  PROVE  TypeOK
<1>1. a \in 0 .. 4 /\ sq \in 0 .. 4 /\ del \in 0 .. 4 /\ root \in {0, 1}
  BY DEF RootStaysSmall
<1>2. present_state \in {"start", "test", "update", "done"}
  BY DEF RootStaysSmall
<1> QED
  BY <1>1, <1>2, RoomForSmall DEF TypeOK

LEMMA BlockInitInv == ASSUME BlocksAreReal, BlockInit PROVE BlockInv
<1>1. RootStaysSmall
  BY DEF BlockInit, RootStaysSmall
<1>2. TypeOK
  BY <1>1, SmallHasType
<1>3. /\ MagnitudeRange \in Nat /\ MagnitudeRange > 0
      /\ Out \in Nat /\ Out > 0
  BY RangesAre
<1>4. /\ block \in [Cells -> Values] /\ sqr \in [Cells -> 0 .. MagnitudeRange - 1]
      /\ step \in 0 .. 15 /\ o \in [Cells -> 0 .. Out - 1]
  BY <1>3 DEF BlockInit, BlocksAreReal
<1>5. NeverScaled
  <2>1. \A k \in Cells : block[k] = 0 /\ o[k] = 0
    BY DEF BlockInit
  <2>2. Scale(0, 0) = (0 * 2^Shift) % Out
    BY ScaleByNothing
  <2>3. (0 * 2^Shift) % Out = 0
    <3>1. \A x \in Int : 0 * x = 0
      OBVIOUS
    <3>2. 2^Shift \in Int
      BY DEF BlocksAreReal
    <3>3. 0 * 2^Shift = 0
      BY <3>1, <3>2
    <3>4. 0 % Out = 0
      BY <1>3
    <3> QED
      BY <3>3, <3>4
  <2> QED
    BY <2>1, <2>3 DEF NeverScaled
<1> QED
  BY <1>1, <1>2, <1>4, <1>5 DEF BlockInv, BlockTypeOK

LEMMA BlockNextInv ==
  ASSUME BlocksAreReal, BlockInv, [BlockNext]_blockVars
  PROVE  BlockInv'
<1>1. ASSUME NEW d \in [Cells -> Values], BlockClock(d)
      PROVE  BlockInv'
  <2>1. RootStaysSmall'
    BY <1>1, RootClockKeeps DEF BlockClock, BlockInv
  <2>2. TypeOK'
    <3>1. a' \in 0 .. 4 /\ sq' \in 0 .. 4 /\ del' \in 0 .. 4 /\ root' \in {0, 1}
      BY <2>1 DEF RootStaysSmall
    <3>2. present_state' \in {"start", "test", "update", "done"}
      BY <2>1 DEF RootStaysSmall
    <3> QED
      BY <3>1, <3>2, RoomForSmall DEF TypeOK
  <2>3. \A k \in Cells : d[k] \in Nat
    <3>1. Values \subseteq Nat
      BY RoomForSmall DEF BlocksAreReal
    <3> QED
      BY <3>1
  <2>4. step = 0
    BY DEF BlockInv, RootStaysSmall
  <2>5. \A k \in Cells : o'[k] = (d[k] * 2^Shift) % Out /\ o'[k] \in 0 .. Out - 1
    BY <1>1, <2>3, <2>4, ScaleByNothing DEF BlockClock
  <2>6. o' \in [Cells -> 0 .. Out - 1]
    BY <1>1, <2>5 DEF BlockClock
  <2>7. sqr' \in [Cells -> 0 .. MagnitudeRange - 1]
    <3>1. MagnitudeRange \in Nat /\ MagnitudeRange > 0
      BY RangesAre
    <3>2. ASSUME NEW k \in Cells PROVE (d[k] * d[k]) % MagnitudeRange \in 0 .. MagnitudeRange - 1
      <4>1. d[k] * d[k] \in Nat
        BY <2>3
      <4> QED
        BY <3>1, <4>1
    <3> QED
      BY <1>1, <3>2 DEF BlockClock
  <2>8. step' \in 0 .. 15 /\ block' = d
    BY <1>1, <2>1 DEF BlockClock, RootStaysSmall
  <2>9. NeverScaled'
    BY <2>5, <2>8 DEF NeverScaled
  <2> QED
    BY <2>1, <2>2, <2>6, <2>7, <2>8, <2>9 DEF BlockInv, BlockTypeOK
<1>2. CASE UNCHANGED blockVars
  <2>1. TypeOK'
    BY <1>2 DEF blockVars, sqrtVars, BlockInv, BlockTypeOK, TypeOK
  <2>2. BlockTypeOK'
    BY <1>2, <2>1 DEF blockVars, BlockInv, BlockTypeOK
  <2>3. NeverScaled' /\ RootStaysSmall'
    BY <1>2 DEF blockVars, sqrtVars, BlockInv, NeverScaled, RootStaysSmall
  <2> QED
    BY <2>2, <2>3 DEF BlockInv
<1> QED
  BY <1>1, <1>2 DEF BlockNext

(***************************************************************************)
(* No block is scaled by its magnitude, for blocks of every size and       *)
(* numbers of every width: the safety part of NormalizesNothing.           *)
(***************************************************************************)
THEOREM NothingIsScaled ==
  ASSUME BlocksAreReal
  PROVE  BlockClocks => [](BlockTypeOK /\ NeverScaled)
<1>1. BlockInit => BlockInv
  BY BlockInitInv
<1>2. BlockInv /\ [BlockNext]_blockVars => BlockInv'
  BY BlockNextInv
<1>3. BlockInv => BlockTypeOK /\ NeverScaled
  BY DEF BlockInv
<1> QED
  BY <1>1, <1>2, <1>3, PTL DEF BlockClocks
=============================================================================
