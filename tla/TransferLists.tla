---------------------------- MODULE TransferLists ---------------------------
(***************************************************************************)
(* The transfers of the mouse host (DE2_115_NIOS_HOST_MOUSE_VGA.c) as they *)
(* lie in the memory of the USB chip.  For each transfer main() writes a   *)
(* list of transfer descriptors, word by word, and then the address of its *)
(* first; until the chip says it is done main() writes the same list once  *)
(* more and sleeps.  So the chip may walk a list that is being written.    *)
(*                                                                         *)
(* A descriptor is six words: buffer, length, token (kind, address and     *)
(* endpoint), data toggle, control and the address of the next (0: last).  *)
(***************************************************************************)
EXTENDS Integers, Sequences

CONSTANTS Sizes,  \* the report sizes mice give (bMaxPacketSize of endpoint 1)
          Device, \* what the device answers with, and what a word is
          Unknown, \* before anything was written to it
          Failing \* bound: the descriptors the device fails

\* What 0x000f & data_size leaves of a size must hold two words: not so for
\* the 16, 32 and 64 bytes a full speed device may name.
SizesAreReal == Failing \in Nat /\ Sizes \subseteq {n \in Nat : n % 16 >= 3}
\* What the device sends and what was there before are no words main() writes.
OthersAreOthers == Device \notin Nat /\ Unknown \notin Nat
ASSUME ListAssumption == SizesAreReal /\ OthersAreOthers

VARIABLES transfer, size, toggle, \* the transfer main() is at, data_size, toggle
          list_pc, word, again,   \* and how far it is with the transfer's list
          mem, given,    \* the chip: its memory, has it been given a list
          walk, SIE1msg, \* (pCurrentTDPtr), the descriptor it is at (0: none), its flag
          answered,      \* history: the transfer whose SETUP was answered
          asked,         \* the words the last SETUP sent
          data1,         \* the toggle of the last packet of data
          failed         \* the descriptors failed so far

main == <<transfer, size, toggle, list_pc, word, again>>
chip == <<mem, given, walk, SIE1msg>>
wire == <<answered, asked, data1, failed>>
listVars == <<main, chip, wire>>

Base == \h0500
Active == \h13   \* the control word of a descriptor to be run
Done == \h03     \* and of one that was

\* The setup data of every request lie behind the first descriptor.
Setup(address, request) ==
  <<\h050C, 8, IF address = 0 THEN \h00D0 ELSE \h02D0, 1, Active, \h0514>> \o request

SetAddressList == Setup(0, <<\h0500, 2, 0, 0>>) \o <<0, 0, \h0090, \h41, Active, 0>>

DeviceDescriptor1List ==
  Setup(2, <<\h0680, \h0100, 0, 8>>) \o
  <<\h052C, 8, \h0290, \h41, Active, \h0520,
    0, 0, \h0210, \h41, Active, 0>>

\* (Mutant: two packets have the same toggle.)
DeviceDescriptor2Untoggled ==
  Setup(2, <<\h0680, \h0100, 0, \h0012>>) \o
  <<\h0544, 8, \h0290, \h41, Active, \h0520,
    \h054C, 8, \h0290, \h41, Active, \h052C,
    \h0554, 2, \h0290, \h41, Active, \h0538,
    0, 0, \h0210, \h41, Active, 0>>

DeviceDescriptor2List ==
  Setup(2, <<\h0680, \h0100, 0, \h0012>>) \o
  <<\h0544, 8, \h0290, \h41, Active, \h0520,
    \h054C, 8, \h0290, 1, Active, \h052C,
    \h0554, 2, \h0290, \h41, Active, \h0538,
    0, 0, \h0210, \h41, Active, 0>>

ConfigDescriptor1List ==
  Setup(2, <<\h0680, \h0200, 0, 9>>) \o
  <<\h0544, 8, \h0290, \h41, Active, \h0520,
    \h054C, 1, \h0290, 1, Active, \h052C,
    0, 0, \h0210, \h41, Active, 0>>

ConfigDescriptor2List ==
  Setup(2, <<\h0680, \h0200, 0, \h00FF>>) \o
  <<\h055C, 8, \h0290, \h41, Active, \h0520,
    \h0564, 8, \h0290, 1, Active, \h052C,
    \h056C, 8, \h0290, \h41, Active, \h0538,
    \h0574, 8, \h0290, 1, Active, \h0544,
    \h057C, 2, \h0290, \h41, Active, \h0550,
    0, 0, \h0210, \h41, Active, 0>>

\* (Mutant: the last descriptor names another.)
SetConfigurationUnended ==
  Setup(2, <<\h0900, 1, 0, 0>>) \o <<0, 0, \h0290, \h41, Active, \h0520>>

SetConfigurationList ==
  Setup(2, <<\h0900, 1, 0, 0>>) \o <<0, 0, \h0290, \h41, Active, 0>>

SetIdleList ==
  Setup(2, <<\h0A21, 0, 0, 0>>) \o <<0, 0, \h0290, \h41, Active, 0>>

ClassDescriptor21List ==
  Setup(2, <<\h0681, \h2100, 0, \h007B>>) \o
  <<\h0544, 8, \h0290, \h41, Active, \h0520,
    0, 0, \h0210, \h41, Active, 0>>

ClassDescriptor22List ==
  Setup(2, <<\h0681, \h2200, 0, \h007B>>) \o
  <<\h0580, 8, \h0290, \h41, Active, \h0520,
    \h0588, 8, \h0290, 1, Active, \h052C,
    \h0590, 8, \h0290, \h41, Active, \h0538,
    \h0598, 8, \h0290, 1, Active, \h0544,
    \h05A0, 8, \h0290, \h41, Active, \h0550,
    \h05A8, 8, \h0290, 1, Active, \h055C,
    \h05B0, 8, \h0290, \h41, Active, \h0568,
    \h05B8, 3, \h0290, 1, Active, \h0574,
    0, 0, \h0210, \h41, Active, 0>>

\* One packet from endpoint 1: 6 bytes of an 8-byte report, else its low
\* four bits.  The toggle changes with every round.
ReportList(s, t) ==
  <<\h051C, IF s = 8 THEN 6 ELSE s % 16, \h0291, IF t % 2 = 1 THEN 1 ELSE \h41, Active, 0>>

Reports == 10
List(i) ==
  CASE i = 1 -> SetAddressList        [] i = 2 -> DeviceDescriptor1List
    [] i = 3 -> DeviceDescriptor2List [] i = 4 -> ConfigDescriptor1List
    [] i = 5 -> ConfigDescriptor2List [] i = 6 -> SetConfigurationList
    [] i = 7 -> SetIdleList           [] i = 8 -> ClassDescriptor21List
    [] i = 9 -> ClassDescriptor22List [] i = Reports -> ReportList(size, toggle)

\* Where word k of a list goes; HPI_ADDR steps by itself.
Place(k) == Base + 2 * (k - 1)
Memory == {Place(k) : k \in 1 .. 94}
-----------------------------------------------------------------------------
(* main().                                                                 *)
BeginList(i) ==
  /\ transfer' = i /\ list_pc' = "write" /\ word' = 1 /\ again' = FALSE
  /\ toggle' = IF i = Reports THEN (toggle + 1) % 2 ELSE 0

WriteWord ==
  /\ list_pc = "write"
  /\ mem' = [mem EXCEPT ![Place(word)] = List(transfer)[word]]
  /\ IF word = Len(List(transfer)) THEN list_pc' = "point" /\ word' = 1
     ELSE list_pc' = list_pc /\ word' = word + 1
  /\ UNCHANGED <<transfer, size, toggle, again, given, walk, SIE1msg, wire>>

Point ==
  /\ list_pc = "point" /\ given' = TRUE /\ list_pc' = IF again THEN "sleep" ELSE "look"
  /\ UNCHANGED <<transfer, size, toggle, word, again, mem, walk, SIE1msg, wire>>

\* The list takes less than the 10 ms main() sleeps.
WakeUp ==
  /\ list_pc = "sleep" /\ ~given /\ walk = 0 /\ list_pc' = "look"
  /\ UNCHANGED <<transfer, size, toggle, word, again, chip, wire>>

WriteAgain ==
  /\ list_pc = "look" /\ ~SIE1msg /\ list_pc' = "write" /\ again' = TRUE
  /\ UNCHANGED <<transfer, size, toggle, word, chip, wire>>

Message ==
  /\ list_pc = "look" /\ SIE1msg /\ SIE1msg' = FALSE /\ list_pc' = "check"
  /\ UNCHANGED <<transfer, size, toggle, word, again, mem, given, walk, wire>>

\* The control word of the first descriptor.  The rounds of the mouse go on
\* whatever it says; the second configuration descriptor has the size.
Passed ==
  /\ list_pc = "check" /\ (mem[Place(5)] = Done \/ transfer = Reports)
  /\ BeginList(IF transfer = Reports THEN Reports ELSE transfer + 1)
  /\ IF transfer = 5 THEN size' \in Sizes ELSE UNCHANGED size
  /\ UNCHANGED <<chip, wire>>

\* Setting the address is begun anew; the later transfers read for ever.
Failed ==
  /\ list_pc = "check" /\ mem[Place(5)] # Done /\ transfer # Reports
  /\ IF transfer = 1 THEN BeginList(1) ELSE UNCHANGED <<transfer, toggle, list_pc, word, again>>
  /\ UNCHANGED <<size, chip, wire>>
-----------------------------------------------------------------------------
(* The chip and the device.                                                *)
Start == /\ given /\ walk = 0 /\ walk' = Base
         /\ UNCHANGED <<main, mem, given, SIE1msg, wire>>

Field(k) == mem[walk + 2 * (k - 1)]
Kind == (Field(3) % 256) \div 16     \* 13: SETUP, 9: IN, 1: OUT

\* The packet that came, in its buffer.
Buffer == {Field(1) + 2 * k : k \in 0 .. (Field(2) + 1) \div 2 - 1}
Answered(ok) ==
  IF ok /\ Kind = 9
  THEN [a \in DOMAIN mem \cup Buffer |-> IF a \in Buffer THEN Device ELSE mem[a]]
  ELSE mem

\* A descriptor is run; the list ends with the last, or with one that fails.
RunDescriptor(ok) ==
  /\ walk # 0 /\ (ok \/ failed < Failing)
  /\ failed' = IF ok THEN failed ELSE failed + 1
  /\ mem' = [Answered(ok) EXCEPT ![walk + 8] = IF ok THEN Done ELSE 0]
  /\ IF Kind = 13
     THEN /\ asked' = [k \in 1 .. 4 |-> mem[Field(1) + 2 * (k - 1)]]
          /\ answered' = IF ok THEN transfer ELSE answered
     ELSE UNCHANGED <<asked, answered>>
  /\ data1' = (Field(4) = \h41)
  /\ IF ok /\ Field(6) # 0
     THEN walk' = Field(6) /\ UNCHANGED <<given, SIE1msg>>
     ELSE walk' = 0 /\ given' = FALSE /\ SIE1msg' = TRUE
  /\ UNCHANGED main

Chip == Start \/ \E ok \in BOOLEAN : RunDescriptor(ok)
-----------------------------------------------------------------------------
ListInit ==
  /\ transfer = 1 /\ size = 0 /\ toggle = 0 /\ list_pc = "write" /\ word = 1 /\ again = FALSE
  /\ mem = [a \in Memory |-> Unknown] /\ given = FALSE /\ walk = 0 /\ SIE1msg = FALSE
  /\ answered = 0 /\ asked = <<>> /\ data1 = FALSE /\ failed = 0

ListNext == WriteWord \/ Point \/ WakeUp \/ WriteAgain \/ Message \/ Passed \/ Failed \/ Chip
ListSpec == ListInit /\ [][ListNext]_listVars
-----------------------------------------------------------------------------
(* The chip only takes a whole descriptor of the present list for one:     *)
(* whatever part of the list main() has written again, and whatever the    *)
(* last list and its answers left in the memory, the addresses the chip    *)
(* follows are those the descriptors have.                                 *)
WalkStaysInList ==
  walk # 0 => /\ walk \in {Base} \cup {\h0514 + 12 * k : k \in 0 .. 9}
              /\ walk < Place(Len(List(transfer)))
              /\ \A k \in 1 .. 6 : Field(k) \notin {Device, Unknown}

(* From the moment the chip is given a list until main() leaves it, the    *)
(* list is as main() wrote it but for the control words: no answer is      *)
(* stored over a descriptor or over the request.                           *)
AnswersBesideTheList ==
  list_pc \in {"look", "sleep", "check"} =>
    \A k \in 1 .. Len(List(transfer)) :
      mem[Place(k)] \in {List(transfer)[k]} \cup (IF List(transfer)[k] = Active THEN {0, Done} ELSE {})

(* What a SETUP sends is the request main() is at, whole, whenever the     *)
(* chip happens to read it.                                                *)
AsksItsRequest ==
  [][asked' # asked => asked' = SubSeq(List(transfer), 7, 10)]_listVars

(* The packets of a transfer carry DATA0 and DATA1 in turn, beginning with *)
(* DATA0 in the SETUP, over the end of one descriptor and the next.        *)
TogglesAlternate ==
  [][walk \notin {0, Base} /\ walk' # walk /\ Kind = 9 => data1' # data1]_listVars

(* The enumeration goes from a transfer to the next only when the device   *)
(* has answered the SETUP of that very one.                                *)
PassIsAcked == [][transfer < Reports /\ transfer' > transfer => answered = transfer]_listVars

(* When the round of the mouse counts, the two words main() then reads as  *)
(* the buttons and the movement are what the device sent: neither a rest   *)
(* of the enumeration nor half a report.                                   *)
ReportIsRead ==
  list_pc = "check" /\ transfer = Reports /\ mem[Place(5)] = Done =>
    mem[\h051C] = Device /\ mem[\h051E] = Device

(* The chip follows no address but those of the present list's             *)
(* descriptors, no answer is stored over the list, and what main() counts  *)
(* as movement is what the device sent.                                    *)
ListIsSafe == WalkStaysInList /\ AnswersBesideTheList /\ ReportIsRead

(* What a SETUP sends is the request main() is at, packets carry DATA0 and *)
(* DATA1 in turn, and a transfer is left only when its own SETUP was       *)
(* answered.                                                               *)
TransferIsInOrder == AsksItsRequest /\ TogglesAlternate /\ PassIsAcked
=============================================================================
