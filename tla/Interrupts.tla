----------------------------- MODULE Interrupts -----------------------------
(***************************************************************************)
(* The interrupt layer of src/isr.c: the dispatch table                   *)
(* interrupt_handlers[], the exception path isr_handler (an unhandled      *)
(* vector halts), the IRQ path irq_handler (EOI with irq_ack before the    *)
(* handler), and the mask writes irq_enable / irq_disable.                 *)
(*                                                                         *)
(* The two cascaded 8259 PICs are the environment.  Each has an interrupt  *)
(* mask register (imr) and an in-service register (in_service), both       *)
(* modelled as the set of their bit positions that are 1.  A line is       *)
(* delivered when it is unmasked (a slave line also needs master line 2)   *)
(* and no line of equal or higher priority is in service; a non-specific   *)
(* EOI clears the highest-priority in-service bit.  The cascade line is   *)
(* master input 2.  Handler bodies are abstract: they return.              *)
(***************************************************************************)
EXTENDS Integers, FiniteSets

CONSTANTS
    Irqs,          \* IRQ lines the devices may raise, a subset of 0..15
    ExcVectors,    \* CPU exception vectors that may be raised, in 0..31
    RegVectors,    \* vectors register_interrupt_handler may be called with
    InitImr        \* [master |-> S, slave |-> T]: masks left by the firmware

ASSUME Irqs \subseteq 0 .. 15 /\ ExcVectors \subseteq 0 .. 31
ASSUME RegVectors \subseteq 0 .. 255

VARIABLES
    handlers,      \* { n : interrupt_handlers[n] != 0 }
    imr,           \* [pic |-> set of mask bits that are 1]
    in_service,    \* [pic |-> set of in-service bits that are 1]
    cpu,           \* "task", "irq" (in irq_handler) or "halted"
    active_irq,    \* the IRQ line being handled, -1 outside irq_handler
    unmasked       \* history: IRQs whose last irq_enable/irq_disable was enable

vars == <<handlers, imr, in_service, cpu, active_irq, unmasked>>

Pics == {"master", "slave"}
Cascade == 2
IrqBase == 32

\* The PIC and bit of an IRQ line.
PicOf(irq) == IF irq < 8 THEN "master" ELSE "slave"
BitOf(irq) == IF irq < 8 THEN irq ELSE irq - 8

\* A write of a computed value to an 8-bit port keeps bits 0..7.
Trunc8(bits) == { b \in bits : 0 <= b /\ b < 8 }

\* The lowest set bit: the 8259's highest-priority in-service line.
Lowest(bits) == CHOOSE b \in bits : \A c \in bits : b <= c

\* A non-specific EOI (outb(port, 0x20)) to one PIC.
Eoi(isr, pic) ==
    IF isr[pic] = {} THEN isr ELSE [isr EXCEPT ![pic] = @ \ {Lowest(@)}]

Masked(irq) == BitOf(irq) \in imr[PicOf(irq)]

Init ==
    /\ handlers = {}
    /\ imr = InitImr
    /\ in_service = [p \in Pics |-> {}]
    /\ cpu = "task"
    /\ active_irq = -1
    /\ unmasked = { irq \in Irqs : ~Masked(irq) }

-----------------------------------------------------------------------------
(* Environment: the PIC pair raises an IRQ and the CPU takes it.           *)

Blocked(irq) ==
    IF irq < 8
    THEN \E b \in in_service["master"] : b <= irq
    ELSE \/ \E b \in in_service["master"] : b <= Cascade
         \/ \E b \in in_service["slave"] : b <= irq - 8

PicDeliver(irq) ==
    /\ cpu = "task"
    /\ ~Masked(irq)
    /\ irq >= 8 => Cascade \notin imr["master"]
    /\ ~Blocked(irq)
    /\ in_service' = IF irq < 8
                     THEN [in_service EXCEPT !["master"] = @ \cup {irq}]
                     ELSE [in_service EXCEPT !["master"] = @ \cup {Cascade},
                                             !["slave"] = @ \cup {irq - 8}]
    /\ cpu' = "irq"
    /\ active_irq' = irq
    /\ UNCHANGED <<handlers, imr, unmasked>>

-----------------------------------------------------------------------------
(* src/isr.c                                                               *)

\* Variant of irq_ack testing irq > 8 for the slave EOI.
IrqAckPastSlaveBase(isr, irq) ==
    Eoi(IF irq > 8 THEN Eoi(isr, "slave") ELSE isr, "master")

\* irq_ack: EOI to the slave if irq >= 8, then always to the master.
IrqAck(isr, irq) ==
    Eoi(IF irq >= 8 THEN Eoi(isr, "slave") ELSE isr, "master")

\* isr_init: clear interrupt_handlers[].
IsrInit ==
    /\ cpu # "halted"
    /\ handlers' = {}
    /\ UNCHANGED <<imr, in_service, cpu, active_irq, unmasked>>

\* register_interrupt_handler: interrupt_handlers[n] = handler.
RegisterInterruptHandler(n) ==
    /\ cpu # "halted"
    /\ handlers' = handlers \cup {n}
    /\ UNCHANGED <<imr, in_service, cpu, active_irq, unmasked>>

\* isr_handler on a CPU exception: run the registered handler and return,
\* or print the exception name and halt for ever.
IsrHandler(v) ==
    /\ cpu = "task"
    /\ cpu' = IF v \in handlers THEN "task" ELSE "halted"
    /\ UNCHANGED <<handlers, imr, in_service, active_irq, unmasked>>

\* irq_handler: irq_ack(int_no - 32), then the handler if one is
\* registered; the handler returns and the stub irets to the task.
IrqHandler ==
    /\ cpu = "irq"
    /\ in_service' = IrqAck(in_service, active_irq)
    /\ cpu' = "task"
    /\ active_irq' = -1
    /\ UNCHANGED <<handlers, imr, unmasked>>

\* Variant of irq_enable without the irq -= 8 for the slave.
IrqEnableNoOffset(m, irq) ==
    LET port == PicOf(irq)
    IN  [m EXCEPT ![port] = Trunc8(@ \ {irq})]

\* irq_enable on mask state m: clear the line's bit: inb(port) & ~(1 << irq).
IrqEnableWrite(m, irq) ==
    LET port == PicOf(irq)
    IN  [m EXCEPT ![port] = Trunc8(@ \ {BitOf(irq)})]

\* irq_disable on mask state m: set the line's bit: inb(port) | (1 << irq).
IrqDisableWrite(m, irq) ==
    LET port == PicOf(irq)
    IN  [m EXCEPT ![port] = Trunc8(@ \cup {BitOf(irq)})]

IrqEnable(irq) ==
    /\ cpu # "halted"
    /\ imr' = IrqEnableWrite(imr, irq)
    /\ unmasked' = unmasked \cup {irq}
    /\ UNCHANGED <<handlers, in_service, cpu, active_irq>>

IrqDisable(irq) ==
    /\ cpu # "halted"
    /\ imr' = IrqDisableWrite(imr, irq)
    /\ unmasked' = unmasked \ {irq}
    /\ UNCHANGED <<handlers, in_service, cpu, active_irq>>

Next ==
    \/ \E irq \in Irqs : PicDeliver(irq)
    \/ IsrInit
    \/ \E n \in RegVectors : RegisterInterruptHandler(n)
    \/ \E v \in ExcVectors : IsrHandler(v)
    \/ IrqHandler
    \/ \E irq \in Irqs : IrqEnable(irq) \/ IrqDisable(irq)

Spec == Init /\ [][Next]_vars

-----------------------------------------------------------------------------
(* Properties                                                              *)

\* Once irq_handler has returned to the task, irq_ack has cleared every
\* in-service bit it caused on both PICs: no device line stays blocked by
\* an unacknowledged interrupt, slave IRQs (8..15) included.
EoiBalanced ==
    cpu = "task" => in_service = [p \in Pics |-> {}]

\* The PIC masks agree with the calls made: an IRQ line is unmasked exactly
\* when the last irq_enable / irq_disable on it was irq_enable, for lines
\* of both PICs (irq_enable and irq_disable pick the port and bit).
MaskReflectsCalls ==
    \A irq \in Irqs : ~Masked(irq) <=> irq \in unmasked

====
