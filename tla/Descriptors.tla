---------------------------- MODULE Descriptors -----------------------------
(***************************************************************************)
(* The entries of the GDT and the IDT: how gdt_set_entry and idt_set_entry *)
(* take their arguments apart, and how the processor puts them together.   *)
(***************************************************************************)
EXTENDS Integers

BYTE == 256
HALF == 65536

GDT_KERNEL_CODE_SEL == 8
GDT_KERNEL_DATA_SEL == 16
GDT_TSS_SEL == 40
IDT_TYPE_INTERRUPT_GATE == 142      (* 0x8E *)
IDT_TYPE_TRAP_GATE == 143           (* 0x8F *)
IDT_FLAG_RING3 == 96                (* 0x60, no bit of which is in 0x8F *)
TSS_LIMIT == 103                    (* sizeof(tss_entry_t) - 1 *)

\* Mutant of GdtEntry: the upper bits of the limit are lost.
GdtEntryShort(base, limit, access, gran) ==
  [limit_low |-> limit % HALF,
   base_low |-> base % HALF,
   base_middle |-> (base \div HALF) % BYTE,
   access |-> access,
   granularity |-> (gran \div 16) * 16,
   base_high |-> base \div (HALF * BYTE)]

\* gdt_set_entry
GdtEntry(base, limit, access, gran) ==
  [limit_low |-> limit % HALF,
   base_low |-> base % HALF,
   base_middle |-> (base \div HALF) % BYTE,
   access |-> access,
   granularity |-> ((limit \div HALF) % 16) + (gran \div 16) * 16,
   base_high |-> base \div (HALF * BYTE)]

NullEntry == GdtEntry(0, 0, 0, 0)

\* What the processor reads from an entry.
BaseOf(e)  == e.base_low + HALF * (e.base_middle + BYTE * e.base_high)
LimitOf(e) == e.limit_low + HALF * (e.granularity % 16)
InPages(e) == e.granularity >= 128
Ring(e)    == (e.access \div 32) % 4
IsCode(e)  == e.access \div 128 = 1 /\ (e.access \div 8) % 4 = 3
IsData(e)  == e.access \div 128 = 1 /\ (e.access \div 8) % 4 = 2
IsTss(e)   == e.access \in {137, 139}

\* And what it sets in one: a segment's accessed bit, a task's busy bit.
Accessed(e) == [e EXCEPT !.access = (@ \div 2) * 2 + 1]
Busy(e)     == [e EXCEPT !.access = 139]

\* The whole address space, for one ring.
Flat(e, ring) ==
  BaseOf(e) = 0 /\ LimitOf(e) = 16 * HALF - 1 /\ InPages(e) /\ Ring(e) = ring

\* idt_set_entry
IdtEntry(handler, selector, type_attr) ==
  [handler_low |-> handler % HALF, selector |-> selector, reserved |-> 0,
   type_attr |-> type_attr, handler_high |-> (handler \div HALF) % HALF]

NoGate == [handler_low |-> 0, selector |-> 0, reserved |-> 0, type_attr |-> 0,
           handler_high |-> 0]

HandlerOf(g) == g.handler_low + HALF * g.handler_high
Present(g)   == g.type_attr \div 128 = 1
IsTrap(g)    == g.type_attr % 16 = 15
GateRing(g)  == (g.type_attr \div 32) % 4
=============================================================================
