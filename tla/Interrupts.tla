----------------------------- MODULE Interrupts -----------------------------
(***************************************************************************)
(* The interrupts of the Nios II under the HAL: the status and ienable     *)
(* registers, the table alt_irq, the dispatcher alt_irq_handler() and the  *)
(* calls that change them, alt_iic_isr_register(), alt_irq_enable(),       *)
(* alt_irq_disable() and the pair alt_irq_disable_all() and                *)
(* alt_irq_enable_all(), by the program and by interrupt service routines. *)
(* An interrupt comes between any two steps.  A line stays up until its    *)
(* routine serves the device.                                              *)
(***************************************************************************)
EXTENDS Integers, Sequences

CONSTANTS NIrq,        \* the number of lines, ALT_NIRQ
          Isrs,        \* the routines a line can be given
          NoIsr,       \* no routine
          Asked,       \* the numbers drivers pass, those of no line among them
          Nesting,     \* the lines whose routine lets itself be interrupted
          IsrChanges   \* the lines that routines enable and disable

Irqs == 0 .. NIrq - 1

LinesAreReal ==
  /\ NIrq \in Nat \ {0} /\ NoIsr \notin Isrs
  /\ Asked \subseteq Int /\ Nesting \subseteq Irqs /\ IsrChanges \subseteq Irqs

VARIABLES pie, ienable,       \* the processor's registers
          alt_irq_active,     \* the copy of ienable
          alt_priority_mask,  \* the lines that may interrupt
          handler, context,   \* the table alt_irq
          lines,              \* the lines that are up
          stack               \* the program, and the dispatchers on it

cpu == <<pie, ienable>>
masks == <<alt_irq_active, alt_priority_mask>>
table == <<handler, context>>
irqVars == <<cpu, masks, table, lines, stack>>

Top == stack[Len(stack)]
At(label) == Top.pc = label
Goto(f) == stack' = [stack EXCEPT ![Len(stack)] = f]
InMain == Len(stack) = 1

\* The locals of the program and of a dispatcher: where the calls under way
\* return to, what they were asked, the statuses they saved.
Locals == [pc |-> "idle", home |-> "idle", then |-> "idle", irq |-> 0, isr |-> NoIsr, on |-> FALSE,
           status |-> FALSE, outer |-> FALSE, locked |-> FALSE, read |-> {}, old |-> {}, i |-> 0]

\* alt_irq_pending()
Pending == lines \cap ienable

\* alt_irq_entry asks whether the exception was an interrupt.
IsInterrupt == pie /\ Pending # {}
-----------------------------------------------------------------------------
(* alt_irq_disable_all(), whose callers keep the status before it, and     *)
(* alt_irq_enable_all(), which puts it back.                               *)
DisableAll == pie' = FALSE
EnableAll(status) == pie' = status

(* alt_iic_isr_register().  Its test takes the number for a signed one.    *)
InRange(irq) == irq < NIrq

RegisterIsr(irq, isr) ==
  /\ Top.pc \in {"idle", "locked"} /\ InRange(irq) /\ DisableAll
  /\ Goto([Top EXCEPT !.pc = "handler", !.irq = irq, !.isr = isr, !.outer = pie,
                      !.home = IF At("locked") THEN "leave" ELSE "idle"])
  /\ UNCHANGED <<ienable, masks, table, lines>>

\* A number below zero is a word before the table.
With(column) ==
  [j \in DOMAIN column \cup {Top.irq} |-> IF j = Top.irq THEN Top.isr ELSE column[j]]

SetHandler ==
  /\ At("handler") /\ handler' = With(handler)
  /\ Goto([Top EXCEPT !.pc = "context"])
  /\ UNCHANGED <<cpu, masks, context, lines>>

SetContext ==
  /\ At("context") /\ context' = With(context)
  /\ Goto([Top EXCEPT !.pc = "change", !.on = Top.isr # NoIsr, !.then = "restore"])
  /\ UNCHANGED <<cpu, masks, handler, lines>>

Restore ==
  /\ At("restore") /\ EnableAll(Top.outer)
  /\ Goto([Locals EXCEPT !.pc = Top.home, !.locked = Top.locked])
  /\ UNCHANGED <<ienable, masks, table, lines>>

(* alt_irq_enable() and alt_irq_disable(): with interrupts off, the copy   *)
(* is read, changed, and written to ienable.  The shift takes the number   *)
(* modulo the width of the register.                                       *)
ReadActive ==
  /\ At("change") /\ DisableAll
  /\ Goto([Top EXCEPT !.pc = "write", !.status = pie, !.read = alt_irq_active])
  /\ UNCHANGED <<ienable, masks, table, lines>>

Bit(irq) == irq % NIrq
WriteActive ==
  /\ At("write")
  /\ alt_irq_active' = IF Top.on THEN Top.read \cup {Bit(Top.irq)} ELSE Top.read \ {Bit(Top.irq)}
  /\ Goto([Top EXCEPT !.pc = "ienable", !.read = {}])
  /\ UNCHANGED <<cpu, alt_priority_mask, table, lines>>

WriteIenable ==
  /\ At("ienable") /\ ienable' = alt_irq_active /\ EnableAll(Top.status)
  /\ Goto(IF Top.then = "idle" THEN Locals ELSE [Top EXCEPT !.pc = Top.then, !.status = FALSE])
  /\ UNCHANGED <<masks, table, lines>>

(* The program: a call, or a section with interrupts off and a call in it. *)
Change(irq, on) ==
  /\ At("idle") /\ InMain /\ irq \in Irqs /\ handler[irq] # NoIsr
  /\ Goto([Top EXCEPT !.pc = "change", !.irq = irq, !.on = on])
  /\ UNCHANGED <<cpu, masks, table, lines>>

EnterSection ==
  /\ At("idle") /\ DisableAll /\ Goto([Top EXCEPT !.pc = "locked", !.locked = pie])
  /\ UNCHANGED <<ienable, masks, table, lines>>
LeaveSection ==
  /\ Top.pc \in {"locked", "leave"} /\ EnableAll(Top.locked)
  /\ Goto([Top EXCEPT !.pc = "idle", !.locked = FALSE])
  /\ UNCHANGED <<ienable, masks, table, lines>>
-----------------------------------------------------------------------------
(* An exception, be it an interrupt or not, comes to alt_irq_entry.        *)
Enter ==
  /\ IsInterrupt /\ pie' = FALSE
  /\ stack' = Append(stack, [Locals EXCEPT !.pc = "first", !.outer = pie])
  /\ UNCHANGED <<ienable, masks, table, lines>>

(* alt_irq_handler(): the lowest line that is pending, until none is.  The *)
(* first look takes for granted that there is one.                         *)
IsLowest(i, active) == i \in active \cup {NIrq} /\ \A j \in active : i <= j
Dispatch ==
  /\ At("first") \/ (At("again") /\ Pending # {})
  /\ \E i \in 0 .. NIrq : IsLowest(i, Pending) /\ Goto([Top EXCEPT !.pc = "isr", !.i = i])
  /\ UNCHANGED <<cpu, masks, table, lines>>
Return ==
  /\ At("again") /\ Pending = {} /\ pie' = Top.outer /\ stack' = SubSeq(stack, 1, Len(stack) - 1)
  /\ UNCHANGED <<ienable, masks, table, lines>>

(* A routine that lets higher ones interrupt it calls                      *)
(* alt_irq_interruptible() and, in the end, alt_irq_non_interruptible().   *)
HigherThan(i) == {j \in Irqs : j < i}
Interruptible ==
  /\ At("isr") /\ Top.i \in Nesting
  /\ alt_priority_mask' = HigherThan(Top.i)
  /\ ienable' = alt_irq_active \cap alt_priority_mask' /\ pie' = TRUE
  /\ Goto([Top EXCEPT !.pc = "body", !.old = alt_priority_mask])
  /\ UNCHANGED <<alt_irq_active, table, lines>>
Uninterruptible ==
  /\ At("isr") /\ Top.i \notin Nesting /\ Goto([Top EXCEPT !.pc = "body"])
  /\ UNCHANGED <<cpu, masks, table, lines>>

IsrChange(irq, on) ==
  /\ At("body") /\ handler[irq] # NoIsr
  /\ Goto([Top EXCEPT !.pc = "change", !.irq = irq, !.on = on, !.then = "serve"])
  /\ UNCHANGED <<cpu, masks, table, lines>>

Serve ==
  /\ Top.pc \in {"body", "serve"} /\ lines' = lines \ {Top.i}
  /\ Goto([Top EXCEPT !.pc = "end", !.irq = 0, !.on = FALSE, !.then = "idle"])
  /\ UNCHANGED <<cpu, masks, table>>

\* (Mutant: the lines below stay masked.)
EndOfNestingMasked ==
  /\ At("end") /\ Top.i \in Nesting /\ pie' = FALSE
  /\ alt_priority_mask' = Top.old /\ UNCHANGED ienable
  /\ Goto([Top EXCEPT !.pc = "again", !.i = 0, !.old = {}])
  /\ UNCHANGED <<alt_irq_active, table, lines>>
EndOfNesting ==
  /\ At("end") /\ Top.i \in Nesting /\ pie' = FALSE
  /\ alt_priority_mask' = Top.old /\ ienable' = Top.old \cap alt_irq_active
  /\ Goto([Top EXCEPT !.pc = "again", !.i = 0, !.old = {}])
  /\ UNCHANGED <<alt_irq_active, table, lines>>
EndOfIsr ==
  /\ At("end") /\ Top.i \notin Nesting /\ Goto([Top EXCEPT !.pc = "again", !.i = 0])
  /\ UNCHANGED <<cpu, masks, table, lines>>
-----------------------------------------------------------------------------
(* altera_nios2_qsys_irq_init(), the masks' first values, an empty table,  *)
(* and alt_irq_cpu_enable_interrupts().                                    *)
IrqInit ==
  /\ pie = TRUE /\ ienable = {} /\ alt_irq_active = {} /\ alt_priority_mask = Irqs
  /\ handler = [i \in Irqs |-> NoIsr] /\ context = [i \in Irqs |-> NoIsr]
  /\ lines = {} /\ stack = <<Locals>>

Raise(i) == i \notin lines /\ lines' = lines \cup {i} /\ UNCHANGED <<cpu, masks, table, stack>>

Program ==
  \/ \E irq \in Asked, isr \in Isrs \cup {NoIsr} : RegisterIsr(irq, isr)
  \/ \E irq \in Irqs, on \in BOOLEAN : Change(irq, on)
  \/ SetHandler \/ SetContext \/ Restore \/ ReadActive \/ WriteActive \/ WriteIenable
  \/ EnterSection \/ LeaveSection
Dispatcher ==
  \/ Dispatch \/ Return \/ Interruptible \/ Uninterruptible
  \/ (\E irq \in IsrChanges, on \in BOOLEAN : IsrChange(irq, on))
  \/ Serve \/ EndOfNesting \/ EndOfIsr

\* The processor takes an interrupt before its next instruction.
Processor == Enter \/ (~(pie /\ Pending # {}) /\ (Program \/ Dispatcher))
IrqNext == Processor \/ \E i \in Irqs : Raise(i)

IrqSpec == IrqInit /\ [][IrqNext]_irqVars
-----------------------------------------------------------------------------
(* A line that is dispatched has a routine, and it is called with its own  *)
(* context: nobody sees the table between its two assignments, and a line  *)
(* whose routine is taken away is disabled before the next interrupt.      *)
PairIsWhole == At("isr") /\ Top.i \in Irqs => handler[Top.i] # NoIsr /\ context[Top.i] = handler[Top.i]

(* Nothing interrupts a section between alt_irq_disable_all() and          *)
(* alt_irq_enable_all(), not even when a call in it does the same.         *)
SectionIsAlone ==
  stack[1].pc \in {"locked", "leave"} \/ stack[1].home = "leave" => InMain /\ ~pie

(* alt_irq_handler() never walks past its table.                           *)
StaysInTable == At("isr") => Top.i \in Irqs

(* Whenever the program runs outside these calls, ienable is its copy: the *)
(* masks of nested routines have left nothing behind.                      *)
CopyIsTrue == InMain /\ Top.pc \in {"idle", "locked", "leave"} => ienable = alt_irq_active

(* A write of the copy changes the bit it is about and no other: what a    *)
(* routine changed between the read and the write is not undone.           *)
OneBitChanges ==
  [][\A j \in Irqs : (j \in alt_irq_active <=> j \in alt_irq_active') \/ j = Bit(Top.irq)]_irqVars

(* A routine is only interrupted by one of higher priority.                *)
OnlyHigherInterrupts ==
  \A k \in 2 .. Len(stack) : \A l \in k + 1 .. Len(stack) :
    stack[l].pc \in {"isr", "body", "end"} => stack[l].i < stack[k].i

(* A call of alt_iic_isr_register() that succeeds has enabled the line it  *)
(* was asked for, or disabled it for a null routine.                       *)
SuccessEnables == At("restore") => Top.irq \in Irqs /\ (Top.irq \in alt_irq_active <=> Top.on)

(* The line of highest priority is served or disabled, however often the   *)
(* others are raised.                                                      *)
HighestIsServed == (0 \in lines /\ 0 \in alt_irq_active) ~> (0 \notin lines \/ 0 \notin alt_irq_active)
=============================================================================
