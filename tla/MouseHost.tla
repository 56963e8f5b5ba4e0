----------------------------- MODULE MouseHost ------------------------------
(***************************************************************************)
(* main() of the mouse host (DE2_115_NIOS_HOST_MOUSE_VGA.c): it resets the *)
(* USB chip, waits for a mouse, takes it through the nine transfers of the *)
(* enumeration and then asks it for its movement, round after round, until *)
(* it is pulled out.  TransferLists has what each transfer says; here one  *)
(* is a number, its list in the chip's memory is armed, done or failed.    *)
(*                                                                         *)
(* The chip answers commands through its mailbox, runs the list it is      *)
(* pointed at when it comes to it, and says so with a message: a register  *)
(* that keeps the last one and a flag that reading it clears.  The mouse   *)
(* comes and goes between any two steps.                                   *)
(***************************************************************************)
EXTENDS Integers, FiniteSets

CONSTANTS MaxPlugs, \* bound: how often the mouse is put in or pulled out
          MayFail,  \* bound: the mouse may fail what it could answer
          Notices,  \* bound: the chip has other messages than "list done"
          Timely    \* does the chip keep its times?  It is done with a command
                    \* before main() reads on, and with a list before main() has
                    \* slept 10 ms, but not within the few instructions from
                    \* main()'s look at the flag to the end of its second writing

BoundsAreReal == MaxPlugs \in Nat /\ {MayFail, Notices, Timely} \subseteq BOOLEAN
ASSUME BoundsAssumption == BoundsAreReal

VARIABLES pc, stage, read,                    \* main(), usb_ctl_val
          command, mailbox, mailed,           \* the mailbox and its flag
          loaded, control, pointer,           \* the transfer of the list, its control
          message, flag,                      \* word, pCurrentTDPtr; SIE1msg
          mouse, plugs,                       \* the port
          acked, unused                       \* history, see the properties

host   == <<pc, stage, read>>
lcp    == <<command, mailbox, mailed>>
list   == <<loaded, control, pointer>>
sie    == <<message, flag>>
port   == <<mouse, plugs>>
record == <<acked, unused>>
hostVars == <<host, lcp, list, sie, port, record>>

Motion == 10
Configured == 6   \* the transfer that sets the configuration

Goto(label) == pc' = label
Present == mouse # "none"

\* UsbSoftReset(), and what main() writes before the first command.
UsbSoftReset ==
  /\ pc = "USB_HOT_PLUG" /\ Goto("init") /\ stage' = 0 /\ read' = "none"
  /\ command' = "none" /\ mailed' = FALSE /\ mailbox' \in {"ack", "garbage"}
  /\ loaded' = 0 /\ control' = "none" /\ pointer' = FALSE /\ message' = "none" /\ flag' = FALSE
  /\ acked' = {} /\ unused' = FALSE /\ UNCHANGED port

Command(label, c, next) ==
  /\ pc = label /\ Goto(next) /\ command' = c
  /\ UNCHANGED <<stage, read, mailbox, mailed, list, sie, port, record>>

\* The mailbox is read: main() goes on, or begins again.
Mailbox(label, next) ==
  /\ pc = label /\ Goto(IF mailbox = "ack" THEN next ELSE "USB_HOT_PLUG")
  /\ mailed' = FALSE
  /\ UNCHANGED <<stage, read, command, mailbox, list, sie, port, record>>

InitCommand == Command("init", "SIE1_INIT", "answer1")
\* Any bit of the status ends the first wait.
InitAnswer == (mailed \/ flag) /\ Mailbox("answer1", "reset")
ResetCommand == Command("reset", "HUSB_RESET", "answer2")
\* The second answer is not waited for.
ResetAnswer == (Timely => command = "none") /\ Mailbox("answer2", "probe")

Begin(s) == Goto("submit") /\ stage' = s

Probe ==
  /\ pc = "probe" /\ IF Present THEN Begin(1) ELSE Goto("no device") /\ UNCHANGED stage
  /\ UNCHANGED <<read, lcp, list, sie, port, record>>

\* (Mutant: main() goes on where it left off.)
InsertResumes ==
  /\ pc \in {"no device", "removed"} /\ Present /\ Begin(IF pc = "removed" THEN Motion ELSE 1)
  /\ UNCHANGED <<read, lcp, list, sie, port, record>>

Insert ==
  /\ pc \in {"no device", "removed"} /\ Present /\ Goto("USB_HOT_PLUG")
  /\ UNCHANGED <<stage, read, lcp, list, sie, port, record>>
-----------------------------------------------------------------------------
(* One transfer.                                                           *)
\* (Mutant: the control word is not written again.)
ArmKept == loaded' = stage /\ UNCHANGED control /\ pointer' = TRUE

\* The list is written and pointed at.
Arm == loaded' = stage /\ control' = "armed" /\ pointer' = TRUE

Submit ==
  /\ pc = "submit" /\ Goto("look") /\ Arm
  /\ UNCHANGED <<stage, read, lcp, sie, port, record>>

\* It is written again when the flag was not seen, which may be up by now.
Resubmit ==
  /\ pc = "resubmit" /\ Goto("sleep") /\ Arm
  /\ UNCHANGED <<stage, read, lcp, sie, port, record>>

Wake ==
  /\ pc = "sleep" /\ (Timely => ~pointer) /\ Goto("look")
  /\ UNCHANGED <<stage, read, lcp, list, sie, port, record>>

Look ==
  /\ pc = "look" /\ Goto(IF flag THEN "message" ELSE "resubmit")
  /\ UNCHANGED <<stage, read, lcp, list, sie, port, record>>

\* The message is read and then overwritten; any but "done" is passed over.
ReadMessage ==
  /\ pc = "message" /\ Goto("clear") /\ read' = message /\ flag' = FALSE
  /\ UNCHANGED <<stage, lcp, list, message, port, record>>

ClearMessage ==
  /\ pc = "clear" /\ message' = "none" /\ read' = "none"
  /\ Goto(IF read = "done" THEN "check" ELSE "message")
  /\ UNCHANGED <<stage, lcp, list, flag, port, record>>

\* The control word of the list decides.
Check ==
  /\ pc = "check" /\ stage < Motion
  /\ IF control = "done" THEN Begin(stage + 1) ELSE Goto("again") /\ UNCHANGED stage
  /\ UNCHANGED <<read, lcp, list, sie, port, record>>

\* Not done: the message once more; one that says "done" is cleared and
\* another waited for.
Again ==
  /\ pc = "again" /\ flag' = FALSE
  /\ Goto(IF message = "done" THEN "again clear" ELSE "reread")
  /\ UNCHANGED <<stage, read, lcp, list, message, port, record>>

AgainClear ==
  /\ pc = "again clear" /\ message' = "none" /\ Goto("wait")
  /\ UNCHANGED <<stage, read, lcp, list, flag, port, record>>

Wait ==
  /\ pc = "wait" /\ flag /\ Goto("reread")
  /\ UNCHANGED <<stage, read, lcp, list, sie, port, record>>

\* Setting the address is begun anew from the reset; the others read until
\* the word is "done".
Reread ==
  /\ pc = "reread"
  /\ IF stage = 1 THEN Goto("USB_HOT_PLUG") /\ UNCHANGED stage
     ELSE IF control = "done" THEN Begin(stage + 1)
     ELSE Goto("again") /\ UNCHANGED stage
  /\ UNCHANGED <<read, lcp, list, sie, port, record>>

Exchange(s) ==
  stage = s /\ (Submit \/ Resubmit \/ Wake \/ Look \/ ReadMessage \/ ClearMessage
                  \/ Check \/ Again \/ AgainClear \/ Wait \/ Reread)

SetAddress           == Exchange(1)
GetDeviceDescriptor1 == Exchange(2)
GetDeviceDescriptor2 == Exchange(3)
GetConfigDescriptor1 == Exchange(4)
GetConfigDescriptor2 == Exchange(5)
SetConfiguration     == Exchange(Configured)
SetIdle              == Exchange(7)
GetClassDescriptor21 == Exchange(8)
GetClassDescriptor22 == Exchange(9)
GetReport            == Exchange(Motion)
-----------------------------------------------------------------------------
(* A round of the mouse.                                                   *)
\* A list that is done has moved the mouse; one that is not stands for rest.
Move ==
  /\ pc = "check" /\ stage = Motion /\ Goto("plug")
  /\ unused' = (unused /\ control # "done")
  /\ UNCHANGED <<stage, read, lcp, list, sie, port, acked>>

\* The port is read six times in a row; a reading without a mouse is told
\* of, and the port read once more to act on.
HotPlug ==
  /\ pc = "plug"
  /\ Goto(IF Present THEN "submit" ELSE "removed")
  /\ UNCHANGED <<stage, read, lcp, list, sie, port, record>>
-----------------------------------------------------------------------------
(* The chip and the mouse.                                                 *)
Answer ==
  /\ command # "none" /\ command' = "none" /\ mailbox' = "ack" /\ mailed' = TRUE
  /\ mouse' = IF command = "HUSB_RESET" /\ Present THEN "default" ELSE mouse
  /\ UNCHANGED <<host, list, sie, plugs, record>>

\* What the mouse answers: transfer 1 without an address, the others with
\* one, and asks for movement when it is configured.
Answers == CASE loaded = 1 -> mouse = "default"
             [] loaded = Motion -> mouse = "configured"
             [] OTHER -> mouse \in {"addressed", "configured"}

Execute(ok) ==
  /\ pointer /\ (Timely => pc # "resubmit")
  /\ pointer' = FALSE /\ message' = "done" /\ flag' = TRUE
  /\ ok => Answers
  /\ ok \/ MayFail \/ ~Answers
  /\ control' = IF ok THEN "done" ELSE "failed"
  /\ mouse' = IF ~ok THEN mouse
              ELSE IF loaded = 1 THEN "addressed"
              ELSE IF loaded = Configured THEN "configured" ELSE mouse
  /\ acked' = IF ok THEN acked \cup {loaded} ELSE acked
  /\ unused' = (loaded = Motion /\ (ok \/ unused))
  /\ UNCHANGED <<host, lcp, loaded, plugs>>

Notice ==
  /\ Notices /\ message' = "other" /\ flag' = TRUE
  /\ UNCHANGED <<host, lcp, list, port, record>>

Plug ==
  /\ plugs < MaxPlugs /\ plugs' = plugs + 1
  /\ mouse' = IF Present THEN "none" ELSE "default"
  /\ UNCHANGED <<host, lcp, list, sie, record>>
-----------------------------------------------------------------------------
HostInit ==
  /\ pc = "USB_HOT_PLUG" /\ stage = 0 /\ read = "none"
  /\ command = "none" /\ mailbox = "garbage" /\ mailed = FALSE
  /\ loaded = 0 /\ control = "none" /\ pointer = FALSE /\ message = "none" /\ flag = FALSE
  /\ mouse \in {"none", "default"} /\ plugs = 0 /\ acked = {} /\ unused = FALSE

Enumerate ==
  \/ SetAddress \/ GetDeviceDescriptor1 \/ GetDeviceDescriptor2 \/ GetConfigDescriptor1
  \/ GetConfigDescriptor2 \/ SetConfiguration \/ SetIdle \/ GetClassDescriptor21
  \/ GetClassDescriptor22

Main ==
  \/ UsbSoftReset \/ InitCommand \/ InitAnswer \/ ResetCommand \/ ResetAnswer
  \/ Probe \/ Insert \/ Enumerate \/ GetReport \/ Move \/ HotPlug

Run == \E ok \in BOOLEAN : Execute(ok)
HostNext == Main \/ Answer \/ Run \/ Notice \/ Plug
HostSpec == HostInit /\ [][HostNext]_hostVars
-----------------------------------------------------------------------------
(* Every stage main() has left was answered by a mouse since the last      *)
(* reset, in spite of lists that are run twice, of messages left from the  *)
(* list before and of mice exchanged meanwhile.                            *)
PassedWereAnswered == \A s \in 1 .. stage - 1 : s \in acked

(* A movement is counted at most once: a round counts only a report that   *)
(* came for the list of that round, or of one no round has counted yet.    *)
EachReportOnce == pc = "check" /\ stage = Motion /\ control = "done" => unused

(* Both: what main() counts as done was done, once.                        *)
AnswersAreCountedOnce == PassedWereAnswered /\ EachReportOnce

(* With a chip that keeps its times and a mouse that stays, the            *)
(* enumeration ends: no message is lost between its being read and its     *)
(* being overwritten, and no stage waits for one that has been taken.      *)
EnumerationEnds == Present ~> (stage = Motion \/ ~Present)

(* A mouse pulled out while it is followed is missed, and main() then      *)
(* waits for one to be put in.                                             *)
RemovalIsMissed == stage = Motion /\ ~Present ~> pc = "removed" \/ Present

(* A mouse put in while main() waits for one is enumerated and followed    *)
(* (or pulled out again).                                                  *)
InsertionIsServed ==
  pc \in {"no device", "removed"} /\ Present ~> (stage = Motion /\ mouse = "configured") \/ ~Present

=============================================================================
