---------------------------- MODULE KernelProofs ----------------------------
(***************************************************************************)
(* What holds of the boot sequence and of every nesting of interrupts,     *)
(* whatever memory there is, wherever the kernel's tables and stacks are,  *)
(* and whatever exceptions the program raises.                             *)
(***************************************************************************)
EXTENDS Kernel, SequenceTheorems, TLAPS

(* The descriptors: what is taken apart is put together again.             *)
LEMMA Halves ==
  ASSUME NEW a \in Nat, a \div HALF < HALF
  PROVE  /\ (a % HALF) + HALF * ((a \div HALF) % HALF) = a
         /\ (a % HALF) + HALF * (((a \div HALF) % BYTE) + BYTE * (a \div (HALF * BYTE))) = a
  BY SMT DEF HALF, BYTE

(* gdt_set_entry (gdt.c) against the processor: an entry has the base and  *)
(* the limit it was given, for all 32-bit bases and 20-bit limits.         *)
THEOREM EntryKeepsBaseAndLimit ==
  \A base, limit, access, gran \in Nat :
    base \div HALF < HALF /\ limit < 16 * HALF =>
      /\ BaseOf(GdtEntry(base, limit, access, gran)) = base
      /\ LimitOf(GdtEntry(base, limit, access, gran)) = limit
  <1>1. SUFFICES ASSUME NEW base \in Nat, NEW limit \in Nat, NEW access \in Nat, NEW gran \in Nat,
                        base \div HALF < HALF, limit < 16 * HALF
                 PROVE  /\ BaseOf(GdtEntry(base, limit, access, gran)) = base
                        /\ LimitOf(GdtEntry(base, limit, access, gran)) = limit
    OBVIOUS
  <1>2. BaseOf(GdtEntry(base, limit, access, gran)) = base
    BY <1>1, Halves DEF BaseOf, GdtEntry
  <1>3. (limit % HALF) + HALF * ((((limit \div HALF) % 16) + (gran \div 16) * 16) % 16) = limit
    BY <1>1, SMT DEF HALF
  <1> QED  BY <1>2, <1>3 DEF LimitOf, GdtEntry

(* idt_set_entry (idt.c): a gate leads to the handler it was given.        *)
THEOREM GateKeepsHandler ==
  \A handler, selector, type_attr \in Nat :
    handler \div HALF < HALF => HandlerOf(IdtEntry(handler, selector, type_attr)) = handler
  BY Halves DEF HandlerOf, IdtEntry
-----------------------------------------------------------------------------
(* The tables the boot sequence makes, in the order it makes them.         *)
G1 == Touch(NewGdt, {1, 2})
G2 == [G1 EXCEPT ![5] = GdtEntry(TssAddr, TSS_LIMIT, 137, 0)]
G3 == [G2 EXCEPT ![5] = Busy(@)]
G4 == Touch(G3, {3, 4})

LEMMA FlatEntry ==
  ASSUME NEW access \in {154, 146, 250, 242}
  PROVE  LET e == GdtEntry(0, 16 * HALF - 1, access, 207)
             m == Accessed(e)
         IN  /\ Flat(m, IF access < 200 THEN 0 ELSE 3) /\ Access(m) = access
             /\ (access \in {154, 250} => IsCode(m)) /\ (access \in {146, 242} => IsData(m))
             /\ Ring(m) = (IF access < 200 THEN 0 ELSE 3)
             /\ Access(e) = access
  <1> DEFINE e == GdtEntry(0, 16 * HALF - 1, access, 207)
  <1>1. e = [limit_low |-> 65535, base_low |-> 0, base_middle |-> 0, access |-> access,
             granularity |-> 207, base_high |-> 0]
    BY SMT DEF GdtEntry, HALF, BYTE
  <1> HIDE DEF e
  <1>2. Accessed(e) = [limit_low |-> 65535, base_low |-> 0, base_middle |-> 0, access |-> access + 1,
                       granularity |-> 207, base_high |-> 0]
    <2>1. (access \div 2) * 2 + 1 = access + 1
      BY SMT
    <2>2. e.access = access
      BY <1>1
    <2> QED  BY <1>1, <2>1, <2>2 DEF Accessed
  <1>3. Access(e) = access /\ Access(Accessed(e)) = access
    BY <1>1, <1>2, SMT DEF Access
  <1>4. Ring(Accessed(e)) = (IF access < 200 THEN 0 ELSE 3)
    BY <1>2, SMT DEF Ring
  <1>5. Flat(Accessed(e), IF access < 200 THEN 0 ELSE 3)
    BY <1>2, <1>4, SMT DEF Flat, BaseOf, LimitOf, InPages, HALF, BYTE
  <1>6. (access \in {154, 250} => IsCode(Accessed(e))) /\ (access \in {146, 242} => IsData(Accessed(e)))
    BY <1>2, SMT DEF IsCode, IsData
  <1> QED  BY <1>3, <1>4, <1>5, <1>6 DEF e
LEMMA BusyTss ==
  LET e == Busy(GdtEntry(TssAddr, TSS_LIMIT, 137, 0))
  IN  IsTss(e) /\ BaseOf(e) = TssAddr /\ LimitOf(e) = TSS_LIMIT /\ Ring(e) = 0
  <1> DEFINE t == GdtEntry(TssAddr, TSS_LIMIT, 137, 0)
  <1>1. TssAddr \in Nat /\ TssAddr \div HALF < HALF
    BY KernelAssumption
  <1>2. BaseOf(t) = TssAddr
    BY <1>1, Halves DEF BaseOf, GdtEntry
  <1>3. LimitOf(t) = TSS_LIMIT
    BY SMT DEF LimitOf, GdtEntry, TSS_LIMIT, HALF
  <1>4. /\ Busy(t).access = 139 /\ Busy(t).limit_low = t.limit_low /\ Busy(t).base_low = t.base_low
        /\ Busy(t).base_middle = t.base_middle /\ Busy(t).base_high = t.base_high
        /\ Busy(t).granularity = t.granularity
    BY DEF Busy, GdtEntry
  <1>5. BaseOf(Busy(t)) = TssAddr /\ LimitOf(Busy(t)) = TSS_LIMIT
    BY <1>2, <1>3, <1>4 DEF BaseOf, LimitOf
  <1>6. IsTss(Busy(t)) /\ Ring(Busy(t)) = 0
    BY <1>4, SMT DEF IsTss, Ring
  <1> QED  BY <1>5, <1>6

LEMMA FirstTable ==
  /\ DOMAIN G1 = 0..5
  /\ gdt_verify_integrity(G1, G1)
  /\ IsCode(G1[1]) /\ Flat(G1[1], 0) /\ Ring(G1[1]) = 0 /\ Ring(G1[2]) = 0
  /\ G1[3] = GdtEntry(0, 16 * HALF - 1, 250, 207)
  /\ G1[4] = GdtEntry(0, 16 * HALF - 1, 242, 207)
  <1>1. DOMAIN NewGdt = 0..5 /\ DOMAIN G1 = 0..5
    BY DEF G1, Touch, NewGdt
  <1>2. /\ NewGdt[0] = GdtEntry(0, 0, 0, 0)
        /\ NewGdt[1] = GdtEntry(0, 16 * HALF - 1, 154, 207)
        /\ NewGdt[2] = GdtEntry(0, 16 * HALF - 1, 146, 207)
        /\ NewGdt[3] = GdtEntry(0, 16 * HALF - 1, 250, 207)
        /\ NewGdt[4] = GdtEntry(0, 16 * HALF - 1, 242, 207)
    BY DEF NewGdt, NullEntry
  <1>3. G1[0] = NewGdt[0] /\ G1[3] = NewGdt[3] /\ G1[4] = NewGdt[4]
        /\ G1[1] = Accessed(NewGdt[1]) /\ G1[2] = Accessed(NewGdt[2])
    BY <1>1 DEF G1, Touch
  <1>4. G1[0].limit_low = 0 /\ G1[0].base_low = 0 /\ G1[0].access = 0
    BY <1>2, <1>3, SMT DEF GdtEntry, HALF
  <1>5. Access(G1[1]) = 154 /\ IsCode(G1[1]) /\ Flat(G1[1], 0) /\ Ring(G1[1]) = 0
    BY <1>2, <1>3, FlatEntry
  <1>6. Access(G1[2]) = 146 /\ Ring(G1[2]) = 0
    BY <1>2, <1>3, FlatEntry
  <1>7. Access(G1[3]) = 250 /\ Access(G1[4]) = 242
    BY <1>2, <1>3, FlatEntry
  <1> QED  BY <1>1, <1>2, <1>3, <1>4, <1>5, <1>6, <1>7 DEF gdt_verify_integrity

LEMMA LaterTables ==
  /\ DOMAIN G3 = 0..5 /\ DOMAIN G4 = 0..5
  /\ \A table \in {G3, G4} :
       /\ IsCode(table[1]) /\ Flat(table[1], 0) /\ Ring(table[1]) = 0 /\ Ring(table[2]) = 0
       /\ IsTss(table[5]) /\ BaseOf(table[5]) = TssAddr /\ LimitOf(table[5]) = TSS_LIMIT
       /\ Ring(table[5]) = 0
  /\ IsCode(G4[3]) /\ Flat(G4[3], 3) /\ IsData(G4[4]) /\ Flat(G4[4], 3)
  <1>1. DOMAIN G2 = 0..5 /\ DOMAIN G3 = 0..5 /\ DOMAIN G4 = 0..5
    BY FirstTable DEF G2, G3, G4, Touch
  <1>2. \A e \in 0..4 : G2[e] = G1[e] /\ G3[e] = G1[e]
    BY FirstTable, <1>1 DEF G2, G3
  <1>3. G3[5] = Busy(GdtEntry(TssAddr, TSS_LIMIT, 137, 0))
    BY FirstTable, <1>1 DEF G2, G3
  <1>4. G4[1] = G3[1] /\ G4[2] = G3[2] /\ G4[5] = G3[5]
        /\ G4[3] = Accessed(G3[3]) /\ G4[4] = Accessed(G3[4])
    BY <1>1 DEF G4, Touch
  <1>5. IsCode(G4[3]) /\ Flat(G4[3], 3)
    BY <1>2, <1>4, FirstTable, FlatEntry
  <1>6. IsData(G4[4]) /\ Flat(G4[4], 3)
    BY <1>2, <1>4, FirstTable, FlatEntry
  <1> QED  BY <1>1, <1>2, <1>3, <1>4, <1>5, <1>6, FirstTable, BusyTss

LEMMA Gates ==
  /\ DOMAIN NewIdt = Vectors
  /\ \A v \in Vectors : IsTrap(NewIdt[v]) => v = SYSCALL
  /\ {v \in Vectors : Present(NewIdt[v]) /\ GateRing(NewIdt[v]) = 3} = {SYSCALL}
  /\ \A v \in Irqs : Present(NewIdt[v]) /\ HandlerOf(NewIdt[v]) = Stub(v)
                     /\ NewIdt[v].selector = GDT_KERNEL_CODE_SEL
  /\ idt_verify_integrity(NewIdt)
  <1>1. /\ \A v \in Exceptions \cup Irqs : NewIdt[v] = IdtEntry(Stub(v), GDT_KERNEL_CODE_SEL, 142)
        /\ NewIdt[SYSCALL] = IdtEntry(Stub(SYSCALL), GDT_KERNEL_CODE_SEL, 239)
        /\ \A v \in Vectors \ (Exceptions \cup Irqs \cup {SYSCALL}) : NewIdt[v] = NoGate
        /\ DOMAIN NewIdt = Vectors
    <2>1. SYSCALL \notin Exceptions \cup Irqs /\ SYSCALL \in Vectors
          /\ Exceptions \cup Irqs \subseteq Vectors
      BY DEF SYSCALL, Exceptions, Irqs, TIMER, KEYBOARD, Vectors
    <2>2. IDT_TYPE_TRAP_GATE + IDT_FLAG_RING3 = 239
      BY DEF IDT_TYPE_TRAP_GATE, IDT_FLAG_RING3
    <2> QED  BY <2>1, <2>2 DEF NewIdt, Gate, IDT_TYPE_INTERRUPT_GATE
  <1>2. /\ 142 % 16 # 15 /\ (142 \div 32) % 4 = 0 /\ 142 \div 128 = 1
        /\ 239 % 16 = 15 /\ (239 \div 32) % 4 = 3 /\ 239 \div 128 = 1 /\ 0 % 16 # 15 /\ 0 \div 128 # 1
    BY SMT
  <1>3. \A v \in Exceptions \cup Irqs : NewIdt[v].type_attr = 142 /\ NewIdt[v].selector = GDT_KERNEL_CODE_SEL
    <2>1. TAKE v \in Exceptions \cup Irqs
    <2>2. NewIdt[v] = IdtEntry(Stub(v), GDT_KERNEL_CODE_SEL, 142)
      BY <1>1
    <2> QED  BY <2>2 DEF IdtEntry
  <1>4. NewIdt[SYSCALL].type_attr = 239
    BY <1>1 DEF IdtEntry
  <1>5. \A v \in Vectors \ (Exceptions \cup Irqs \cup {SYSCALL}) : NewIdt[v].type_attr = 0
    BY <1>1 DEF NoGate
  <1>6. SYSCALL \in Vectors /\ Irqs \subseteq Vectors
    BY DEF Vectors
  <1>7. \A v \in Vectors : IsTrap(NewIdt[v]) => v = SYSCALL
    BY <1>2, <1>3, <1>5 DEF IsTrap
  <1>8. {v \in Vectors : Present(NewIdt[v]) /\ GateRing(NewIdt[v]) = 3} = {SYSCALL}
    <2>1. Present(NewIdt[SYSCALL]) /\ GateRing(NewIdt[SYSCALL]) = 3
      BY <1>2, <1>4 DEF Present, GateRing
    <2>2. \A v \in Vectors : Present(NewIdt[v]) /\ GateRing(NewIdt[v]) = 3 => v = SYSCALL
      BY <1>2, <1>3, <1>5 DEF Present, GateRing
    <2> QED  BY <1>6, <2>1, <2>2
  <1>9. \A v \in Exceptions \cup Irqs : HandlerOf(NewIdt[v]) = Stub(v) /\ Stub(v) # 0
    <2>1. TAKE v \in Exceptions \cup Irqs
    <2>2. v \in 0..255
      BY DEF Exceptions, Irqs, TIMER, KEYBOARD
    <2>3. Stub(v) \in Nat \ {0} /\ Stub(v) \div HALF < HALF
      BY <2>2, KernelAssumption
    <2>4. NewIdt[v] = IdtEntry(Stub(v), GDT_KERNEL_CODE_SEL, 142)
      BY <1>1
    <2>5. HandlerOf(NewIdt[v]) = (Stub(v) % HALF) + HALF * ((Stub(v) \div HALF) % HALF)
      BY <2>4 DEF HandlerOf, IdtEntry
    <2> QED  BY <2>3, <2>5, Halves
  <1>10. 0 \in Exceptions /\ GPF \in Exceptions
    BY DEF Exceptions, GPF
  <1>11. \A v \in Irqs : Present(NewIdt[v])
    BY <1>2, <1>3 DEF Present
  <1>12. idt_verify_integrity(NewIdt)
    BY <1>9, <1>10 DEF idt_verify_integrity
  <1> QED  BY <1>1, <1>3, <1>7, <1>8, <1>9, <1>11, <1>12
-----------------------------------------------------------------------------
(* The invariant.  A context is what an interrupt may interrupt besides a  *)
(* system call; it is the bottom of the frames.                            *)
Late     == {"memory", "mount", "um_setup_env", "um_switch", "user", "idle"}
Contexts == {"gdt_setup", "idt_setup", "pic_init", "tss", "sti"} \cup Late
Context  == IF Len(frames) = 0 THEN pc ELSE frames[1].pc

Codes    == Contexts \cup {"irq_handler", "handle_syscall", "interrupt_handler", "halt"}
Stacks   == {"boot", "user", "esp0", "kernel_stack"}

Frame == [vector : 0..255, pc : Codes, ring : {0, 3}, iflag : BOOLEAN, stack : Stacks]

Types ==
  /\ frames \in Seq(Frame) /\ pc \in Codes /\ stack \in Stacks
  /\ ring \in {0, 3} /\ iflag \in BOOLEAN

(* What has been set up when.                                              *)
SetUp ==
  /\ Context \in Contexts
  /\ Context = "idt_setup" => gdt = G1 /\ "gdtr" \in tables
  /\ Context \in {"pic_init", "tss"} => gdt = G2 /\ idt = NewIdt /\ {"gdtr", "idtr"} \subseteq tables
  /\ Context \in {"tss", "sti"} \cup Late => pic = "remapped"
  /\ Context \in {"pic_init", "tss", "sti"} \cup Late => ss0 = GDT_KERNEL_DATA_SEL
  /\ Context \in {"sti"} \cup Late =>
       gdt \in {G3, G4} /\ idt = NewIdt /\ {"gdtr", "idtr", "tr"} \subseteq tables
  /\ Context = "user" => gdt = G4
  /\ Context \in ({"sti"} \cup Late) \ {"user", "idle"} => gdt = G3
  /\ iflag => Context \in Late

(* What is on the stacks, and who serves it.                               *)
Nothing == pc \in Contexts /\ service = {} /\ (ring = 3 <=> pc = "user") /\ (pc = "user" => iflag)

OneFrame ==
  LET f == frames[1] IN
  /\ ring = 0 /\ f.pc \in Late /\ f.iflag /\ (f.ring = 3 <=> f.pc = "user")
  /\ \/ pc = "irq_handler" /\ f.vector \in Irqs /\ service = {f.vector} /\ ~ iflag
     \/ pc = "handle_syscall" /\ f.vector = SYSCALL /\ service = {} /\ f.pc = "user"
     \/ /\ pc \in {"interrupt_handler", "halt"} /\ f.vector \notin Irqs
        /\ service = {} /\ ~ iflag /\ f.pc = "user"

TwoFrames ==
  LET f == frames[1]  g == frames[2] IN
  /\ ring = 0 /\ f.pc = "user" /\ f.iflag /\ f.ring = 3 /\ f.vector = SYSCALL
  /\ g.pc = "handle_syscall" /\ g.ring = 0 /\ g.vector \in Irqs
  /\ pc = "irq_handler" /\ service = {g.vector} /\ ~ iflag

Nesting ==
  /\ Len(frames) <= 2
  /\ Len(frames) = 0 => Nothing
  /\ Len(frames) = 1 => OneFrame
  /\ Len(frames) = 2 => TwoFrames

KInv == Types /\ SetUp /\ Nesting
-----------------------------------------------------------------------------
LEMMA Pushed ==
  ASSUME NEW S, NEW s \in Seq(S), NEW e \in S
  PROVE  /\ Append(s, e) \in Seq(S) /\ Len(Append(s, e)) = Len(s) + 1
         /\ Append(s, e)[Len(s) + 1] = e
         /\ \A i \in 1..Len(s) : Append(s, e)[i] = s[i]
  OBVIOUS

LEMMA Popped ==
  ASSUME NEW S, NEW s \in Seq(S), Len(s) > 0
  PROVE  /\ Front(s) \in Seq(S) /\ Len(Front(s)) = Len(s) - 1
         /\ \A i \in 1..Len(s)-1 : Front(s)[i] = s[i]
         /\ Last(s) = s[Len(s)] /\ Last(s) \in S
  <1>1. Len(s) \in Nat /\ s \in [1..Len(s) -> S]
    BY LenProperties
  <1>2. 1 \in Int /\ Len(s)-1 \in Int /\ \A i \in 1..Len(s)-1 : s[i] \in S
    BY <1>1
  <1>3. /\ SubSeq(s, 1, Len(s)-1) \in Seq(S)
        /\ Len(SubSeq(s, 1, Len(s)-1)) = IF 1 <= Len(s)-1 THEN (Len(s)-1)-1+1 ELSE 0
        /\ \A i \in 1..(Len(s)-1)-1+1 : SubSeq(s, 1, Len(s)-1)[i] = s[1+i-1]
    BY ONLY <1>2, SubSeqProperties
  <1>4. (Len(s)-1)-1+1 = Len(s)-1 /\ (~ (1 <= Len(s)-1) => Len(s)-1 = 0)
        /\ \A i \in 1..Len(s)-1 : 1+i-1 = i
    BY <1>1
  <1>5. s[Len(s)] \in S
    BY <1>1
  <1> QED  BY <1>3, <1>4, <1>5 DEF Front, Last

(* The boot sequence runs with nothing on the stacks.                      *)
LEMMA BootStep ==
  ASSUME KInv, frames' = frames, pc \in Contexts, pc' \in Contexts,
         service' = {} \/ service' = service,
         \/ ring' = ring /\ iflag' \in {iflag, TRUE} /\ pc # "user" /\ pc' # "user"
         \/ ring' = 3 /\ iflag' = TRUE /\ pc' = "user",
         stack' \in Stacks
  PROVE  Types' /\ Nesting' /\ Context' = pc' /\ Context = pc /\ Len(frames) = 0
  <1>1. Len(frames) = 0
    <2>1. Len(frames) \in Nat
      BY DEF KInv, Types
    <2>2. Len(frames) # 1
      BY DEF KInv, Nesting, OneFrame, Contexts, Late
    <2>3. Len(frames) # 2
      BY DEF KInv, Nesting, TwoFrames, Contexts, Late
    <2>4. Len(frames) <= 2
      BY DEF KInv, Nesting
    <2>5. \A n \in Nat : n <= 2 /\ n # 1 /\ n # 2 => n = 0
      BY SMT
    <2> QED  BY <2>1, <2>2, <2>3, <2>4, <2>5
  <1>2. Types'
    BY DEF KInv, Types, Codes
  <1>3. Context = pc /\ Context' = pc'
    BY <1>1 DEF Context
  <1>4. Nothing
    BY <1>1 DEF KInv, Nesting
  <1>5. Nothing'
    BY <1>4 DEF Nothing, KInv, Types
  <1> QED  BY <1>1, <1>2, <1>3, <1>5 DEF Nesting
LEMMA BootKeeps ==
  ASSUME KInv, Boot
  PROVE  KInv'
  <1> DEFINE Rest == frames' = frames /\ ring' = ring /\ stack' = stack
  <1>1. CASE GdtSetup
    <2>1. pc = "gdt_setup" /\ gdt' = G1 /\ "gdtr" \in tables' /\ pc' = "idt_setup"
          /\ Rest /\ iflag' = iflag /\ service' = service /\ idt' = idt /\ ss0' = ss0 /\ pic' = pic
      BY <1>1, FirstTable DEF GdtSetup, G1, cpu, tss, lines
    <2>2. Types' /\ Nesting' /\ Context' = pc' /\ Context = pc
      BY <2>1, BootStep DEF Contexts, KInv, Types
    <2>3. SetUp'
      BY <2>1, <2>2 DEF KInv, SetUp, Contexts, Late
    <2> QED  BY <2>2, <2>3 DEF KInv
  <1>2. CASE IdtSetup
    <2>1. pc = "idt_setup" /\ gdt' = [gdt EXCEPT ![5] = GdtEntry(TssAddr, TSS_LIMIT, 137, 0)]
          /\ idt' = NewIdt /\ ss0' = GDT_KERNEL_DATA_SEL /\ tables' = tables \cup {"idtr"}
          /\ pc' = "pic_init" /\ Rest /\ iflag' = iflag /\ service' = service /\ pic' = pic
      <3>1. GDT_TSS_SEL \div 8 = 5
        BY SMT DEF GDT_TSS_SEL
      <3> QED  BY <1>2, <3>1, Gates DEF IdtSetup, TssSetup, cpu, lines
    <2>2. Types' /\ Nesting' /\ Context' = pc' /\ Context = pc
      BY <2>1, BootStep DEF Contexts, KInv, Types
    <2>3. SetUp'
      BY <2>1, <2>2 DEF KInv, SetUp, Contexts, Late, G2
    <2> QED  BY <2>2, <2>3 DEF KInv
  <1>3. CASE PicInit
    <2>1. pc = "pic_init" /\ pc' = "tss" /\ pic' = "remapped" /\ service' = {}
          /\ Rest /\ iflag' = iflag /\ gdt' = gdt /\ idt' = idt /\ ss0' = ss0 /\ tables' = tables
      BY <1>3 DEF PicInit, cpu, tss, segment
    <2>2. Types' /\ Nesting' /\ Context' = pc' /\ Context = pc
      BY <2>1, BootStep DEF Contexts, KInv, Types
    <2>3. SetUp'
      BY <2>1, <2>2 DEF KInv, SetUp, Contexts, Late
    <2> QED  BY <2>2, <2>3 DEF KInv
  <1>4. CASE LoadTss
    <2>1. pc = "tss" /\ pc' = "sti" /\ gdt' = [gdt EXCEPT ![5] = Busy(@)]
          /\ tables' = tables \cup {"tr"} /\ ss0' = ss0
          /\ Rest /\ iflag' = iflag /\ idt' = idt /\ service' = service /\ pic' = pic
      <3>1. GDT_TSS_SEL \div 8 = 5
        BY SMT DEF GDT_TSS_SEL
      <3> QED  BY <1>4, <3>1 DEF LoadTss, cpu, lines
    <2>2. Types' /\ Nesting' /\ Context' = pc' /\ Context = pc
      BY <2>1, BootStep DEF Contexts, KInv, Types
    <2>3. SetUp'
      BY <2>1, <2>2 DEF KInv, SetUp, Contexts, Late, G3
    <2> QED  BY <2>2, <2>3 DEF KInv
  <1>5. CASE Sti
    <2>1. pc = "sti" /\ pc' = "memory" /\ iflag' = TRUE /\ Rest /\ gdt' = gdt /\ idt' = idt
          /\ tables' = tables /\ ss0' = ss0 /\ service' = service /\ pic' = pic
      BY <1>5 DEF Sti, segment, tss, lines
    <2>2. Types' /\ Nesting' /\ Context' = pc' /\ Context = pc
      BY <2>1, BootStep DEF Contexts, Late, KInv, Types
    <2>3. SetUp'
      BY <2>1, <2>2 DEF KInv, SetUp, Contexts, Late
    <2> QED  BY <2>2, <2>3 DEF KInv
  <1>6. CASE MemoryInit \/ Mount \/ UmSetupEnv
    <2>1. pc \in {"memory", "mount", "um_setup_env"} /\ pc' \in {"mount", "um_setup_env", "um_switch", "idle"}
          /\ iflag' = iflag /\ Rest /\ gdt' = gdt /\ idt' = idt
          /\ tables' = tables /\ ss0' = ss0 /\ service' = service /\ pic' = pic
      BY <1>6 DEF MemoryInit, Mount, UmSetupEnv, cpu, segment, tss, lines
    <2>2. Types' /\ Nesting' /\ Context' = pc' /\ Context = pc
      BY <2>1, BootStep DEF Contexts, Late, KInv, Types
    <2>3. SetUp'
      BY <2>1, <2>2 DEF KInv, SetUp, Contexts, Late
    <2> QED  BY <2>2, <2>3 DEF KInv
  <1>7. CASE UmSwitch
    <2>1. pc = "um_switch" /\ pc' = "user" /\ ring' = 3 /\ iflag' = TRUE /\ stack' = "user"
          /\ frames' = frames /\ gdt' = Touch(gdt, {3, 4}) /\ idt' = idt
          /\ tables' = tables /\ ss0' = ss0 /\ service' = service /\ pic' = pic
      BY <1>7 DEF UmSwitch, tss, lines
    <2>2. Types' /\ Nesting' /\ Context' = pc' /\ Context = pc
      BY <2>1, BootStep DEF Contexts, Late, Stacks, KInv, Types
    <2>3. gdt = G3
      BY <2>1, <2>2 DEF KInv, SetUp, Late
    <2>4. SetUp'
      BY <2>1, <2>2, <2>3 DEF KInv, SetUp, Contexts, Late, G4
    <2> QED  BY <2>2, <2>4 DEF KInv
  <1> QED  BY <1>1, <1>2, <1>3, <1>4, <1>5, <1>6, <1>7 DEF Boot
-----------------------------------------------------------------------------
LEMMA InContext ==
  ASSUME KInv, pc \in Contexts
  PROVE  Len(frames) = 0 /\ Nothing /\ Context = pc
  <1>1. Len(frames) \in Nat
    BY DEF KInv, Types
  <1>2. Len(frames) # 1
    BY DEF KInv, Nesting, OneFrame, Contexts, Late
  <1>3. Len(frames) # 2
    BY DEF KInv, Nesting, TwoFrames, Contexts, Late
  <1>4. Len(frames) <= 2
    BY DEF KInv, Nesting
  <1>5. \A n \in Nat : n <= 2 /\ n # 1 /\ n # 2 => n = 0
    BY SMT
  <1>6. Len(frames) = 0
    BY <1>1, <1>2, <1>3, <1>4, <1>5
  <1> QED  BY <1>6 DEF KInv, Nesting, Context

(* The frame that an entry pushes.                                         *)
Pushes(v) ==
  frames' = Append(frames, [vector |-> v, pc |-> pc, ring |-> ring, iflag |-> iflag, stack |-> stack])

LEMMA EntryPushes ==
  ASSUME KInv, NEW v \in 0..255, NEW handler, Enter(v, handler)
  PROVE  /\ frames' \in Seq(Frame) /\ Len(frames') = Len(frames) + 1
         /\ \A i \in 1..Len(frames) : frames'[i] = frames[i]
         /\ LET f == frames'[Len(frames) + 1] IN
              f.vector = v /\ f.pc = pc /\ f.ring = ring /\ f.iflag = iflag
         /\ ring' = 0 /\ pc' = handler /\ stack' \in Stacks
         /\ iflag' = (iflag /\ IsTrap(idt[v]))
         /\ gdt' = gdt /\ idt' = idt /\ tables' = tables /\ ss0' = ss0 /\ pic' = pic
  <1> DEFINE f == [vector |-> v, pc |-> pc, ring |-> ring, iflag |-> iflag, stack |-> stack]
  <1>1. f \in Frame /\ frames \in Seq(Frame)
    BY DEF KInv, Types, Frame
  <1>2. frames' = Append(frames, f)
    BY DEF Enter
  <1>3. f.vector = v /\ f.pc = pc /\ f.ring = ring /\ f.iflag = iflag
    OBVIOUS
  <1> HIDE DEF f
  <1>4. /\ Append(frames, f) \in Seq(Frame) /\ Len(Append(frames, f)) = Len(frames) + 1
        /\ Append(frames, f)[Len(frames) + 1] = f
        /\ \A i \in 1..Len(frames) : Append(frames, f)[i] = frames[i]
    BY ONLY <1>1, Pushed
  <1>5. /\ ring' = 0 /\ pc' = handler /\ stack' \in Stacks
        /\ iflag' = (iflag /\ IsTrap(idt[v]))
        /\ gdt' = gdt /\ idt' = idt /\ tables' = tables /\ ss0' = ss0 /\ pic' = pic
    BY DEF Enter, segment, tss, KInv, Types, Stacks
  <1> QED  BY <1>2, <1>3, <1>4, <1>5

(* What is set up stays when an interrupt is taken in a late context.      *)
LEMMA SetUpStays ==
  ASSUME KInv, gdt' = gdt, idt' = idt, tables' = tables, ss0' = ss0, pic' = pic,
         Context' = Context, Context \in Late
  PROVE  SetUp'
  BY DEF KInv, SetUp, Contexts, Late

LEMMA IrqEnterKeeps ==
  ASSUME KInv, NEW v \in Irqs, IrqEnter(v)
  PROVE  KInv'
  <1>1. iflag /\ Enter(v, "irq_handler") /\ service' = service \cup {v} /\ v \in 0..255
    BY DEF IrqEnter, Irqs, TIMER, KEYBOARD
  <1>2. Context \in Late /\ idt = NewIdt /\ v \in Vectors /\ v # SYSCALL
    BY <1>1 DEF KInv, SetUp, Vectors, Irqs, TIMER, KEYBOARD, SYSCALL
  <1>3. iflag' = FALSE
    BY <1>1, <1>2, EntryPushes, Gates
  <1>4. Len(frames) \in {0, 1}
    <2>1. Len(frames) \in Nat /\ Len(frames) <= 2
      BY DEF KInv, Types, Nesting
    <2>2. Len(frames) # 2
      BY <1>1 DEF KInv, Nesting, TwoFrames
    <2>3. \A n \in Nat : n <= 2 /\ n # 2 => n \in {0, 1}
      BY SMT
    <2> QED  BY <2>1, <2>2, <2>3
  <1>5. /\ frames' \in Seq(Frame) /\ Len(frames') = Len(frames) + 1
        /\ \A i \in 1..Len(frames) : frames'[i] = frames[i]
        /\ frames'[Len(frames) + 1].vector = v /\ frames'[Len(frames) + 1].pc = pc
        /\ frames'[Len(frames) + 1].ring = ring /\ frames'[Len(frames) + 1].iflag = iflag
        /\ ring' = 0 /\ pc' = "irq_handler" /\ stack' \in Stacks
        /\ gdt' = gdt /\ idt' = idt /\ tables' = tables /\ ss0' = ss0 /\ pic' = pic
    BY <1>1, EntryPushes
  <1>6. Types'
    BY <1>3, <1>5 DEF Types, Codes
  <1>7. CASE Len(frames) = 0
    <2>1. Nothing /\ Context = pc
      BY <1>7 DEF KInv, Nesting, Context
    <2>2. Len(frames') = 1 /\ frames'[1].vector = v /\ frames'[1].pc = pc
          /\ frames'[1].ring = ring /\ frames'[1].iflag = iflag
      BY <1>5, <1>7
    <2>3. OneFrame'
      BY <1>1, <1>2, <1>3, <1>5, <2>1, <2>2 DEF OneFrame, Nothing
    <2>4. Context' = Context
      BY <2>1, <2>2 DEF Context
    <2>5. SetUp'
      BY <1>2, <1>5, <2>4, SetUpStays
    <2> QED  BY <1>6, <2>2, <2>3, <2>5 DEF KInv, Nesting
  <1>8. CASE Len(frames) = 1
    <2>1. pc = "handle_syscall" /\ service = {} /\ ring = 0 /\ frames[1].pc = "user"
          /\ frames[1].vector = SYSCALL /\ frames[1].iflag /\ frames[1].ring = 3
      BY <1>1, <1>8 DEF KInv, Nesting, OneFrame
    <2>2. Len(frames') = 2 /\ frames'[1] = frames[1] /\ frames'[2].vector = v
          /\ frames'[2].pc = pc /\ frames'[2].ring = ring
      BY <1>5, <1>8
    <2>3. TwoFrames'
      BY <1>1, <1>3, <1>5, <2>1, <2>2 DEF TwoFrames
    <2>4. Context' = Context
      BY <1>8, <2>2 DEF Context
    <2>5. SetUp'
      BY <1>2, <1>5, <2>4, SetUpStays
    <2> QED  BY <1>6, <2>2, <2>3, <2>5 DEF KInv, Nesting
  <1> QED  BY <1>4, <1>7, <1>8

(* The program enters the kernel: by a system call or by an exception.     *)
LEMMA ProgramEnters ==
  ASSUME KInv, NEW v \in 0..255, NEW handler, pc = "user", Enter(v, handler), service' = service,
         \/ v = SYSCALL /\ handler = "handle_syscall"
         \/ v \in 0..31 /\ handler = "interrupt_handler"
  PROVE  KInv'
  <1>1. Len(frames) = 0 /\ Context = pc /\ service = {} /\ ring = 3 /\ iflag
    BY InContext DEF Contexts, Late, Nothing
  <1>2. /\ frames' \in Seq(Frame) /\ Len(frames') = 1
        /\ frames'[1].vector = v /\ frames'[1].pc = pc
        /\ frames'[1].ring = ring /\ frames'[1].iflag = iflag
        /\ ring' = 0 /\ pc' = handler /\ stack' \in Stacks /\ (iflag' = (iflag /\ IsTrap(idt[v])))
    <2>1. /\ frames' \in Seq(Frame) /\ Len(frames') = Len(frames) + 1
          /\ LET f == frames'[Len(frames) + 1] IN
               f.vector = v /\ f.pc = pc /\ f.ring = ring /\ f.iflag = iflag
          /\ ring' = 0 /\ pc' = handler /\ stack' \in Stacks
      BY EntryPushes
    <2>2. iflag' = (iflag /\ IsTrap(idt[v]))
      BY EntryPushes
    <2>3. Len(frames) + 1 = 1
      BY <1>1
    <2> QED  BY <2>1, <2>2, <2>3
  <1>3. Context \in Late /\ Context' = Context
    BY <1>1, <1>2 DEF Late, Context
  <1>4. SetUp'
    BY <1>3, SetUpStays, EntryPushes
  <1>5. v \in 0..31 => iflag' = FALSE /\ v \notin Irqs
    <2>1. idt = NewIdt
      BY <1>3 DEF KInv, SetUp
    <2>2. v \in 0..31 => v \in Vectors /\ v # SYSCALL /\ v \notin Irqs
      BY DEF Vectors, SYSCALL, Irqs, TIMER, KEYBOARD
    <2> QED  BY <1>2, <2>1, <2>2, Gates
  <1>6. iflag' \in BOOLEAN
    BY <1>1, <1>2 DEF IsTrap
  <1>7. Types'
    BY <1>2, <1>6 DEF Types, Codes
  <1>8. OneFrame'
    BY <1>1, <1>2, <1>5 DEF OneFrame, Late
  <1> QED  BY <1>2, <1>4, <1>7, <1>8 DEF KInv, Nesting
(* And the way back.                                                       *)
LEMMA ReturnPops ==
  ASSUME KInv, Len(frames) > 0, NEW f, Iret(f),
         f.pc \in Codes, f.ring \in {0, 3}, f.iflag \in BOOLEAN, f.ring = 3 => f.stack \in Stacks
  PROVE  /\ frames' \in Seq(Frame) /\ Len(frames') = Len(frames) - 1
         /\ \A i \in 1..Len(frames)-1 : frames'[i] = frames[i]
         /\ ring' = f.ring /\ pc' = f.pc /\ iflag' = f.iflag
         /\ gdt' = gdt /\ idt' = idt /\ tables' = tables /\ ss0' = ss0 /\ pic' = pic
         /\ Types'
  <1>1. frames \in Seq(Frame)
    BY DEF KInv, Types
  <1>2. /\ Front(frames) \in Seq(Frame) /\ Len(Front(frames)) = Len(frames) - 1
        /\ \A i \in 1..Len(frames)-1 : Front(frames)[i] = frames[i]
    BY <1>1, Popped
  <1>3. /\ frames' = Front(frames) /\ ring' = f.ring /\ pc' = f.pc /\ iflag' = f.iflag
        /\ stack' \in Stacks
        /\ gdt' = gdt /\ idt' = idt /\ tables' = tables /\ ss0' = ss0 /\ pic' = pic
    BY DEF Iret, segment, tss, KInv, Types
  <1> QED  BY <1>2, <1>3 DEF Types

LEMMA TopFrame ==
  ASSUME KInv, Len(frames) > 0
  PROVE  /\ Last(frames) = frames[Len(frames)] /\ Last(frames) \in Frame
         /\ Len(frames) \in {1, 2}
  <1>1. Last(frames) = frames[Len(frames)] /\ Last(frames) \in Frame
    BY Popped DEF KInv, Types
  <1>2. Len(frames) \in Nat /\ Len(frames) <= 2
    BY DEF KInv, Types, Nesting
  <1>3. \A n \in Nat : n <= 2 /\ n > 0 => n \in {1, 2}
    BY SMT
  <1> QED  BY <1>1, <1>2, <1>3

LEMMA InHandler ==
  ASSUME KInv, pc \in Codes \ Contexts
  PROVE  /\ Len(frames) > 0 /\ Last(frames) \in Frame
         /\ Last(frames) = frames[Len(frames)] /\ Len(frames) \in {1, 2}
  <1>1. Len(frames) \in Nat /\ Len(frames) # 0
    BY DEF KInv, Types, Nesting, Nothing
  <1>2. Len(frames) > 0
    BY <1>1
  <1> QED  BY <1>2, TopFrame

LEMMA IrqReturnKeeps ==
  ASSUME KInv, IrqReturn
  PROVE  KInv'
  <1>1. pc = "irq_handler" /\ Iret(Last(frames)) /\ service' = service \ {Last(frames).vector}
    BY DEF IrqReturn, Eoi
  <1>2. /\ Len(frames) > 0 /\ Last(frames) \in Frame
        /\ Last(frames) = frames[Len(frames)] /\ Len(frames) \in {1, 2}
    BY <1>1, InHandler DEF Codes, Contexts, Late
  <1>3. /\ frames' \in Seq(Frame) /\ Len(frames') = Len(frames) - 1
        /\ \A i \in 1..Len(frames)-1 : frames'[i] = frames[i]
        /\ ring' = Last(frames).ring /\ pc' = Last(frames).pc /\ iflag' = Last(frames).iflag
        /\ gdt' = gdt /\ idt' = idt /\ tables' = tables /\ ss0' = ss0 /\ pic' = pic
        /\ Types'
    BY <1>1, <1>2, ReturnPops DEF Frame
  <1>4. CASE Len(frames) = 1
    <2>1. frames[1].pc \in Late /\ frames[1].iflag /\ (frames[1].ring = 3 <=> frames[1].pc = "user")
          /\ service = {frames[1].vector}
      BY <1>1, <1>4 DEF KInv, Nesting, OneFrame
    <2>2. Len(frames') = 0 /\ service' = {} /\ pc' = frames[1].pc
      BY <1>1, <1>2, <1>3, <1>4, <2>1
    <2>3. Nothing'
      BY <1>2, <1>3, <1>4, <2>1, <2>2 DEF Nothing, Contexts
    <2>4. Context' = Context /\ Context \in Late
      BY <1>4, <2>1, <2>2 DEF Context
    <2>5. SetUp'
      BY <1>3, <2>4, SetUpStays
    <2>6. Types'
      BY <1>3
    <2>7. Nesting'
      BY <2>2, <2>3 DEF Nesting
    <2> QED  BY <2>5, <2>6, <2>7 DEF KInv
  <1>5. CASE Len(frames) = 2
    <2>1. /\ frames[1].pc = "user" /\ frames[1].iflag /\ frames[1].ring = 3 /\ frames[1].vector = SYSCALL
          /\ frames[2].pc = "handle_syscall" /\ frames[2].ring = 0 /\ service = {frames[2].vector}
      BY <1>5 DEF KInv, Nesting, TwoFrames
    <2>2. Len(frames') = 1 /\ frames'[1] = frames[1] /\ service' = {} /\ pc' = "handle_syscall" /\ ring' = 0
      BY <1>1, <1>2, <1>3, <1>5, <2>1
    <2>3. OneFrame'
      BY <2>1, <2>2 DEF OneFrame, Late
    <2>4. Context' = Context /\ Context \in Late
      BY <1>5, <2>1, <2>2 DEF Context, Late
    <2>5. SetUp'
      BY <1>3, <2>4, SetUpStays
    <2>6. Types'
      BY <1>3
    <2>7. Nesting'
      BY <2>2, <2>3 DEF Nesting
    <2> QED  BY <2>5, <2>6, <2>7 DEF KInv
  <1> QED  BY <1>2, <1>4, <1>5

(* A system call returns to the program, or after SYS_EXIT to the kernel.  *)
LEMMA HandlerReturns ==
  ASSUME KInv, pc \in {"handle_syscall", "interrupt_handler"}, NEW f, Iret(f), service' = service,
         f = Last(frames) \/ f = [Last(frames) EXCEPT !.ring = 0, !.pc = "idle", !.stack = "kernel_stack"]
  PROVE  KInv'
  <1>1. /\ Len(frames) > 0 /\ Last(frames) \in Frame
        /\ Last(frames) = frames[Len(frames)] /\ Len(frames) \in {1, 2}
    BY InHandler DEF Codes, Contexts, Late
  <1>2. Len(frames) = 1
    BY <1>1 DEF KInv, Nesting, TwoFrames
  <1>3. frames[1].pc = "user" /\ frames[1].ring = 3 /\ frames[1].iflag /\ service = {}
    BY <1>2 DEF KInv, Nesting, OneFrame
  <1>4. Last(frames) = frames[1]
    BY <1>1, <1>2
  <1>5. \/ f.pc = "user" /\ f.ring = 3 /\ f.stack \in Stacks
        \/ f.pc = "idle" /\ f.ring = 0
    BY <1>1, <1>3, <1>4 DEF Frame
  <1>6. f.iflag = frames[1].iflag /\ f.iflag \in BOOLEAN
    BY <1>1, <1>4 DEF Frame
  <1>7. /\ frames' \in Seq(Frame) /\ Len(frames') = Len(frames) - 1
        /\ ring' = f.ring /\ pc' = f.pc /\ iflag' = f.iflag
        /\ gdt' = gdt /\ idt' = idt /\ tables' = tables /\ ss0' = ss0 /\ pic' = pic
        /\ Types'
    BY <1>1, <1>5, <1>6, ReturnPops DEF Codes, Contexts, Late
  <1>8. Len(frames') = 0
    BY <1>2, <1>7
  <1>9. Nothing'
    BY <1>3, <1>5, <1>6, <1>7 DEF Nothing, Contexts, Late
  <1>10. Context = "user" /\ Context' \in {"user", "idle"}
    BY <1>2, <1>3, <1>5, <1>7, <1>8 DEF Context
  <1>11. SetUp'
    BY <1>7, <1>10 DEF KInv, SetUp, Contexts, Late
  <1>12. Types'
    BY <1>7
  <1>13. Nesting'
    BY <1>8, <1>9 DEF Nesting
  <1> QED  BY <1>11, <1>12, <1>13 DEF KInv
(* Steps that touch neither what executes nor what is on the stacks.       *)
LEMMA Unaffected ==
  ASSUME KInv, frames' = frames, pc' = pc, ring' = ring, iflag' = iflag, stack' = stack,
         gdt' = gdt, idt' = idt, tables' = tables, ss0' = ss0, pic' = pic, service' = service
  PROVE  KInv'
  <1>1. Context' = Context
    BY DEF Context
  <1>2. Types' /\ SetUp'
    BY <1>1 DEF KInv, Types, SetUp
  <1>3. Nesting'
    BY DEF KInv, Nesting, Nothing, OneFrame, TwoFrames
  <1> QED  BY <1>2, <1>3 DEF KInv

LEMMA HandleExceptionKeeps ==
  ASSUME KInv, HandleException
  PROVE  KInv'
  <1>1. pc = "interrupt_handler" /\ service' = service
    BY DEF HandleException, lines
  <1>2. CASE Iret(Last(frames))
    BY <1>1, <1>2, HandlerReturns
  <1>3. CASE ~ Iret(Last(frames))
    <2>1. /\ pc' = "halt" /\ frames' = frames /\ ring' = ring /\ iflag' = iflag /\ stack' = stack
          /\ gdt' = gdt /\ idt' = idt /\ tables' = tables /\ ss0' = ss0 /\ pic' = pic
      BY <1>3 DEF HandleException, cpu, segment, tss
    <2>2. Len(frames) = 1
      <3>1. Len(frames) \in {1, 2}
        BY <1>1, InHandler DEF Codes, Contexts, Late
      <3>2. Len(frames) # 2
        BY <1>1 DEF KInv, Nesting, TwoFrames
      <3> QED  BY <3>1, <3>2
    <2>3. OneFrame'
      BY <1>1, <2>1, <2>2 DEF KInv, Nesting, OneFrame
    <2>4. Context' = Context
      BY <2>1, <2>2 DEF Context
    <2>5. Types' /\ SetUp'
      BY <2>1, <2>4 DEF KInv, Types, SetUp, Codes
    <2>6. Nesting'
      BY <2>1, <2>2, <2>3 DEF Nesting
    <2> QED  BY <2>5, <2>6 DEF KInv
  <1> QED  BY <1>2, <1>3

LEMMA ProgramEntersKeeps ==
  ASSUME KInv, SyscallEnter \/ Breakpoint \/ (\E v \in Faults : Fault(v))
  PROVE  KInv'
  <1>1. pc = "user" /\ service' = service
    BY DEF SyscallEnter, Breakpoint, Fault, lines
  <1>2. Context = "user" /\ idt = NewIdt
    <2>1. Context = "user"
      BY <1>1, InContext DEF Contexts, Late
    <2> QED  BY <2>1 DEF KInv, SetUp, Late
  <1>3. CASE SyscallEnter
    <2>1. SYSCALL \in Vectors /\ SYSCALL \in 0..255
      BY DEF Vectors, SYSCALL
    <2>2. GateRing(NewIdt[SYSCALL]) = 3
      BY <2>1, Gates
    <2>3. SoftInt(SYSCALL) = SYSCALL
      BY <1>2, <2>2 DEF SoftInt
    <2>4. Enter(SYSCALL, "handle_syscall")
      BY <1>3, <2>3 DEF SyscallEnter
    <2> QED  BY <1>1, <2>1, <2>4, ProgramEnters
  <1>4. CASE Breakpoint
    <2>1. SoftInt(3) \in 0..31 /\ SoftInt(3) \in 0..255
      BY DEF SoftInt, GPF
    <2>2. Enter(SoftInt(3), "interrupt_handler")
      BY <1>4 DEF Breakpoint
    <2> HIDE DEF SoftInt
    <2> QED  BY <1>1, <2>1, <2>2, ProgramEnters
  <1>5. ASSUME NEW v \in Faults, Fault(v)
        PROVE  KInv'
    <2>1. v \in 0..31 /\ v \in 0..255
      BY KernelAssumption
    <2> QED  BY <1>1, <1>5, <2>1, ProgramEnters DEF Fault
  <1> QED  BY <1>3, <1>4, <1>5
-----------------------------------------------------------------------------
(* The invariant of the tables, of the boot sequence and of the frames on  *)
(* the stacks: it holds when kernel_entry begins (kernel.c:102), is kept   *)
(* by every step, and so holds always.                                     *)
THEOREM KInitInv == Init => KInv
  <1>1. SUFFICES ASSUME Init PROVE KInv
    OBVIOUS
  <1>2. frames = <<>> /\ frames \in Seq(Frame) /\ Len(frames) = 0
    BY <1>1 DEF Init
  <1>3. Context = "gdt_setup"
    BY <1>1, <1>2 DEF Init, Context
  <1>4. Types
    BY <1>1, <1>2 DEF Init, Types, Codes, Contexts, Stacks
  <1>5. SetUp
    BY <1>1, <1>3 DEF Init, SetUp, Contexts, Late
  <1>6. Nesting
    BY <1>1, <1>2 DEF Init, Nesting, Nothing, Contexts
  <1> QED  BY <1>4, <1>5, <1>6 DEF KInv

\* Every boot step, interrupt entry and return keeps it.
THEOREM KNextInv == KInv /\ [Next]_vars => KInv'
  <1>1. SUFFICES ASSUME KInv, [Next]_vars PROVE KInv'
    OBVIOUS
  <1>2. CASE Boot
    BY <1>1, <1>2, BootKeeps
  <1>3. ASSUME NEW v \in Irqs, Raise(v) PROVE KInv'
    <2>1. /\ frames' = frames /\ pc' = pc /\ ring' = ring /\ iflag' = iflag /\ stack' = stack
          /\ gdt' = gdt /\ idt' = idt /\ tables' = tables /\ ss0' = ss0 /\ pic' = pic
          /\ service' = service
      BY <1>3 DEF Raise, cpu, segment, tss
    <2> QED  BY <1>1, <2>1, Unaffected
  <1>4. ASSUME NEW v \in Irqs, IrqEnter(v) PROVE KInv'
    BY <1>1, <1>4, IrqEnterKeeps
  <1>5. CASE IrqReturn
    BY <1>1, <1>5, IrqReturnKeeps
  <1>6. CASE SyscallEnter \/ Breakpoint \/ (\E v \in Faults : Fault(v))
    BY <1>1, <1>6, ProgramEntersKeeps
  <1>7. CASE SyscallReturn \/ SysExit
    <2>1. pc = "handle_syscall" /\ service' = service
      BY <1>7 DEF SyscallReturn, SysExit, lines
    <2> QED  BY <1>1, <1>7, <2>1, HandlerReturns DEF SyscallReturn, SysExit
  <1>8. CASE HandleException
    BY <1>1, <1>8, HandleExceptionKeeps
  <1>9. CASE UNCHANGED vars
    <2>1. /\ frames' = frames /\ pc' = pc /\ ring' = ring /\ iflag' = iflag /\ stack' = stack
          /\ gdt' = gdt /\ idt' = idt /\ tables' = tables /\ ss0' = ss0 /\ pic' = pic
          /\ service' = service
      BY <1>9 DEF vars, cpu, segment, tss, lines
    <2> QED  BY <1>1, <2>1, Unaffected
  <1> QED  BY <1>1, <1>2, <1>3, <1>4, <1>5, <1>6, <1>7, <1>8, <1>9 DEF Next

\* And it holds in every reachable state.
THEOREM KInvariance == Spec => []KInv
  BY KInitInv, KNextInv, PTL DEF Spec

(* A system call and one interrupt are the most that is on the kernel      *)
(* stack: only the gate for system calls leaves interrupts enabled         *)
(* (idt.c:84), and an interrupt's handler runs to its iret.                *)
THEOREM KernelNesting == Spec => []NestingBounded
  <1>1. KInv => NestingBounded
    <2>1. SUFFICES ASSUME KInv PROVE NestingBounded
      OBVIOUS
    <2>2. Len(frames) \in Nat /\ Len(frames) <= 2
      BY <2>1 DEF KInv, Types, Nesting
    <2>3. \A n \in Nat : n <= 2 => n = 2 \/ 2..n = {}
      BY SMT
    <2>4. 2..2 = {2}
      BY SMT
    <2>5. CASE Len(frames) = 2
      BY <2>1, <2>4, <2>5 DEF KInv, Nesting, TwoFrames, NestingBounded
    <2>6. CASE 2..Len(frames) = {}
      BY <2>2, <2>6 DEF NestingBounded
    <2> QED  BY <2>2, <2>3, <2>5, <2>6
  <1> QED  BY <1>1, KInvariance, PTL

(* Every interrupt that was accepted is acknowledged once, by the handler  *)
(* that serves it (interrupts.c:147-152), also across SYS_EXIT.            *)
THEOREM KernelService == Spec => []InServiceIsOnStack
  <1>1. KInv => InServiceIsOnStack
    <2>1. SUFFICES ASSUME KInv PROVE InServiceIsOnStack
      OBVIOUS
    <2>2. Len(frames) \in Nat /\ Len(frames) <= 2
      BY <2>1 DEF KInv, Types, Nesting
    <2>3. \A n \in Nat : n <= 2 => n \in {0, 1, 2}
      BY SMT
    <2>4. 1..0 = {} /\ 1..1 = {1} /\ 1..2 = {1, 2}
      BY SMT
    <2>5. SYSCALL \notin Irqs
      BY DEF SYSCALL, Irqs, TIMER, KEYBOARD
    <2>6. CASE Len(frames) = 0
      BY <2>1, <2>4, <2>6 DEF KInv, Nesting, Nothing, InServiceIsOnStack
    <2>7. CASE Len(frames) = 1
      <3>1. {frames[i].vector : i \in 1..Len(frames)} = {frames[1].vector}
        BY <2>4, <2>7
      <3>2. \/ frames[1].vector \in Irqs /\ service = {frames[1].vector}
            \/ frames[1].vector \notin Irqs /\ service = {}
        BY <2>1, <2>5, <2>7 DEF KInv, Nesting, OneFrame
      <3> QED  BY <3>1, <3>2 DEF InServiceIsOnStack
    <2>8. CASE Len(frames) = 2
      <3>1. {frames[i].vector : i \in 1..Len(frames)} = {frames[1].vector, frames[2].vector}
        BY <2>4, <2>8
      <3>2. frames[1].vector \notin Irqs /\ frames[2].vector \in Irqs /\ service = {frames[2].vector}
        BY <2>1, <2>5, <2>8 DEF KInv, Nesting, TwoFrames
      <3> QED  BY <3>1, <3>2 DEF InServiceIsOnStack
    <2> QED  BY <2>2, <2>3, <2>6, <2>7, <2>8
  <1> QED  BY <1>1, KInvariance, PTL

LEMMA ProgramContext ==
  ASSUME KInv, ring = 3
  PROVE  pc = "user" /\ Context = "user"
  <1>1. Len(frames) \in Nat /\ Len(frames) <= 2
    BY DEF KInv, Types, Nesting
  <1>2. \A n \in Nat : n <= 2 => n \in {0, 1, 2}
    BY SMT
  <1>3. Len(frames) # 1 /\ Len(frames) # 2
    BY DEF KInv, Nesting, OneFrame, TwoFrames
  <1>4. Len(frames) = 0
    BY <1>1, <1>2, <1>3
  <1> QED  BY <1>4 DEF KInv, Nesting, Nothing, Context

(* What a program may load and call (gdt.c, idt.c:66-86): its own segments *)
(* and the gate for system calls, wherever the kernel's stubs are.         *)
THEOREM KernelRingThree == Spec => []RingThree
  <1>1. KInv => RingThree
    <2>1. SUFFICES ASSUME KInv, ring = 3 PROVE RingThree
      BY DEF RingThree
    <2>2. gdt = G4 /\ idt = NewIdt
      BY <2>1, ProgramContext DEF KInv, SetUp, Late
    <2>3. {v \in Vectors : Present(idt[v]) /\ GateRing(idt[v]) = 3} = {SYSCALL}
      BY <2>2, Gates
    <2>4. IsCode(gdt[3]) /\ Flat(gdt[3], 3) /\ IsData(gdt[4]) /\ Flat(gdt[4], 3)
          /\ Ring(gdt[1]) = 0 /\ Ring(gdt[2]) = 0 /\ Ring(gdt[5]) = 0
      BY <2>2, LaterTables
    <2> QED  BY <2>3, <2>4 DEF RingThree
  <1> QED  BY <1>1, KInvariance, PTL

(* The integrity checks of kernel.c:102-113 pass, wherever the stubs are,  *)
(* although the processor has written to the table.                        *)
THEOREM KernelBoots == Spec => []BootDoesNotHalt
  <1>1. KInv => BootDoesNotHalt
    <2>1. SUFFICES ASSUME KInv, pc = "halt" PROVE frames # <<>>
      BY DEF BootDoesNotHalt
    <2>2. Len(frames) # 0
      BY <2>1 DEF KInv, Nesting, Nothing, Contexts, Late
    <2> QED  BY <2>2
  <1> QED  BY <1>1, KInvariance, PTL

(* kernel.c:109-125: with interrupts enabled the processor finds the       *)
(* tables, the controller, a gate to the right stub and, from ring 3, the  *)
(* task state segment.                                                     *)
LEMMA KernelGates == Spec => []GatesReady
  <1>1. KInv => GatesReady
    <2>1. SUFFICES ASSUME KInv, iflag PROVE GatesReady
      BY DEF GatesReady
    <2>2. Context \in Late
      BY <2>1 DEF KInv, SetUp
    <2>3. gdt \in {G3, G4} /\ idt = NewIdt /\ {"gdtr", "idtr", "tr"} \subseteq tables
          /\ pic = "remapped" /\ ss0 = GDT_KERNEL_DATA_SEL
      BY <2>1, <2>2 DEF KInv, SetUp
    <2>4. \A v \in Irqs : /\ Present(idt[v]) /\ HandlerOf(idt[v]) = Stub(v)
                          /\ idt[v].selector = GDT_KERNEL_CODE_SEL
      BY <2>3, Gates
    <2>5. /\ IsCode(gdt[1]) /\ Flat(gdt[1], 0)
          /\ IsTss(gdt[5]) /\ BaseOf(gdt[5]) = TssAddr /\ LimitOf(gdt[5]) = TSS_LIMIT
      BY <2>3, LaterTables
    <2> QED  BY <2>3, <2>4, <2>5 DEF GatesReady
  <1> QED  BY <1>1, KInvariance, PTL
-----------------------------------------------------------------------------
(* What the boot sequence does with memory, and the stack in the TSS.      *)
Stacked == {"sti"} \cup Late

MInv ==
  /\ TypeOK
  /\ Context \in {"mount", "um_setup_env"} => mem_phys_start = PM!PMM_START
  /\ Context = "mount" => mem_phys_map = [i \in PM!Bytes |-> PM!Bits]
  /\ Context = "um_setup_env" => \E i \in PM!Bytes : mem_phys_map[i] # {}
  /\ Context \in Stacked => esp0 # 0

\* The part of the types that is not the memory manager's.
Machine ==
  /\ ring \in {0, 3} /\ iflag \in BOOLEAN
  /\ stack \in {"boot", "user", "esp0", "kernel_stack"}
  /\ DOMAIN gdt = 0..5 /\ DOMAIN idt = Vectors
  /\ tables \subseteq {"gdtr", "idtr", "tr"} /\ ss0 \in Nat
  /\ raised \subseteq Irqs /\ service \subseteq Irqs

LEMMA TypeParts ==
  TypeOK <=> PM!TypeOK /\ Machine /\ esp0 \in Nat /\ process_table \in [Pids -> {"unused", "running"}]
  BY DEF TypeOK, Machine

LEMMA MemorySizes ==
  /\ PM!PMM_START \in Nat \ {0} /\ PM!PMM_SECTOR_SIZE \in Nat \ {0}
  /\ WORD \in Nat \ {0} /\ PROC_MAX_COUNT + 1 \in Nat
  /\ PMM_SECTORS \in Nat \ {0} /\ PMM_SECTORS % 8 = 0
  BY KernelAssumption, SMT DEF PM!PMM_START, PM!PMM_SECTOR_SIZE

(* An interrupt may come before every step of the boot sequence, but what  *)
(* it returns to is where it came, or the idle loop after SYS_EXIT.        *)
LEMMA ContextStays ==
  ASSUME KInv, Next, ~ Boot
  PROVE  Context' = Context \/ (Context = "user" /\ Context' = "idle")
  <1>1. frames \in Seq(Frame) /\ Len(frames) \in Nat
    BY DEF KInv, Types
  <1>2. ASSUME NEW vector \in 0..255, NEW handler, Enter(vector, handler)
        PROVE  Context' = Context
    <2> DEFINE f == [vector |-> vector, pc |-> pc, ring |-> ring, iflag |-> iflag, stack |-> stack]
    <2>1. frames' = Append(frames, f) /\ f \in Frame /\ f.pc = pc
      BY <1>2 DEF Enter, KInv, Types, Frame
    <2> HIDE DEF f
    <2>2. Len(frames') = Len(frames) + 1 /\ frames'[Len(frames) + 1] = f
          /\ \A i \in 1..Len(frames) : frames'[i] = frames[i]
      BY <1>1, <2>1, Pushed
    <2>3. CASE Len(frames) = 0
      BY <2>1, <2>2, <2>3 DEF Context
    <2>4. CASE Len(frames) # 0
      <3>1. 1 \in 1..Len(frames) /\ Len(frames) + 1 # 0
        BY <1>1, <2>4
      <3> QED  BY <2>2, <2>4, <3>1 DEF Context
    <2> QED  BY <2>3, <2>4
  <1>3. ASSUME NEW f, Iret(f), pc \in Codes \ Contexts,
               f = Last(frames) \/ (f.pc = "idle" /\ pc = "handle_syscall")
        PROVE  Context' = Context \/ (Context = "user" /\ Context' = "idle")
    <2>1. /\ Len(frames) > 0 /\ Last(frames) = frames[Len(frames)] /\ Len(frames) \in {1, 2}
      BY <1>3, InHandler
    <2>2. Len(frames') = Len(frames) - 1 /\ \A i \in 1..Len(frames)-1 : frames'[i] = frames[i]
      BY <1>1, <1>3, <2>1, Popped DEF Iret
    <2>3. pc' = f.pc
      BY <1>3 DEF Iret
    <2>4. CASE Len(frames) = 1
      <3>1. Len(frames') = 0 /\ Context' = pc' /\ Context = frames[1].pc
        BY <2>2, <2>4 DEF Context
      <3>2. CASE f = Last(frames)
        BY <2>1, <2>3, <2>4, <3>1, <3>2
      <3>3. CASE f.pc = "idle" /\ pc = "handle_syscall"
        <4>1. frames[1].pc = "user"
          BY <2>4, <3>3 DEF KInv, Nesting, OneFrame
        <4> QED  BY <2>3, <3>1, <3>3, <4>1
      <3> QED  BY <1>3, <3>2, <3>3
    <2>5. CASE Len(frames) = 2
      <3>1. Len(frames') = 1 /\ frames'[1] = frames[1]
        BY <2>2, <2>5
      <3> QED  BY <2>5, <3>1 DEF Context
    <2> QED  BY <2>1, <2>4, <2>5
  <1>4. ASSUME NEW v \in Irqs, Raise(v) PROVE Context' = Context
    BY <1>4 DEF Raise, cpu, Context
  <1>5. ASSUME NEW v \in Irqs, IrqEnter(v) PROVE Context' = Context
    <2>1. v \in 0..255
      BY DEF Irqs, TIMER, KEYBOARD
    <2> QED  BY <1>2, <1>5, <2>1 DEF IrqEnter
  <1>6. CASE SyscallEnter
    <2>1. SoftInt(SYSCALL) \in 0..255
      BY DEF SoftInt, SYSCALL, GPF
    <2> HIDE DEF SoftInt
    <2>2. PICK handler : Enter(SoftInt(SYSCALL), handler)
      BY <1>6 DEF SyscallEnter
    <2> QED  BY <1>2, <2>1, <2>2
  <1>7. CASE Breakpoint
    <2>1. SoftInt(3) \in 0..255
      BY DEF SoftInt, GPF
    <2> HIDE DEF SoftInt
    <2> QED  BY <1>2, <1>7, <2>1 DEF Breakpoint
  <1>8. ASSUME NEW v \in Faults, Fault(v) PROVE Context' = Context
    <2>1. v \in 0..255
      BY KernelAssumption
    <2> QED  BY <1>2, <1>8, <2>1 DEF Fault
  <1>9. CASE IrqReturn
    <2>1. pc \in Codes \ Contexts /\ Iret(Last(frames))
      BY <1>9 DEF IrqReturn, Codes, Contexts, Late
    <2> QED  BY <1>3, <2>1
  <1>10. CASE SyscallReturn
    <2>1. pc \in Codes \ Contexts /\ Iret(Last(frames))
      BY <1>10 DEF SyscallReturn, Codes, Contexts, Late
    <2> QED  BY <1>3, <2>1
  <1>11. CASE SysExit
    <2>1. pc \in Codes \ Contexts /\ pc = "handle_syscall"
      BY <1>11 DEF SysExit, Codes, Contexts, Late
    <2> DEFINE g == [Last(frames) EXCEPT !.ring = 0, !.pc = "idle", !.stack = "kernel_stack"]
    <2>2. Iret(g) /\ g.pc = "idle"
      <3>1. Last(frames) \in Frame
        BY <2>1, InHandler
      <3> QED  BY <1>11, <3>1 DEF SysExit, Frame
    <2> HIDE DEF g
    <2> QED  BY <1>3, <2>1, <2>2
  <1>12. CASE HandleException
    <2>1. pc \in Codes \ Contexts
      BY <1>12 DEF HandleException, Codes, Contexts, Late
    <2>2. CASE Iret(Last(frames))
      BY <1>3, <2>1, <2>2
    <2>3. CASE ~ Iret(Last(frames))
      <3>1. frames' = frames
        BY <1>12, <2>3 DEF HandleException, cpu
      <3>2. Len(frames) # 0
        BY <2>1, InHandler
      <3> QED  BY <3>1, <3>2 DEF Context
    <2> QED  BY <2>2, <2>3
  <1> QED  BY <1>4, <1>5, <1>6, <1>7, <1>8, <1>9, <1>10, <1>11, <1>12 DEF Next
(* Steps that are not of the boot sequence leave memory and the TSS alone. *)
LEMMA OthersKeepMemory ==
  ASSUME Next, ~ Boot
  PROVE  UNCHANGED <<memory, segment, idt, tables, tss, process_table>>
  <1>1. ASSUME NEW vector, NEW handler, Enter(vector, handler)
        PROVE  UNCHANGED <<memory, segment, idt, tables, tss, process_table>>
    BY <1>1 DEF Enter
  <1>2. ASSUME NEW f, Iret(f)
        PROVE  UNCHANGED <<memory, segment, idt, tables, tss, process_table>>
    BY <1>2 DEF Iret
  <1>3. CASE \E v \in Irqs : Raise(v) \/ IrqEnter(v)
    BY <1>1, <1>3 DEF Raise, IrqEnter
  <1>4. CASE SyscallEnter \/ Breakpoint \/ (\E v \in Faults : Fault(v))
    BY <1>1, <1>4 DEF SyscallEnter, Breakpoint, Fault
  <1>5. CASE IrqReturn \/ SyscallReturn \/ SysExit
    BY <1>2, <1>5 DEF IrqReturn, SyscallReturn, SysExit
  <1>6. CASE HandleException
    BY <1>2, <1>6 DEF HandleException
  <1> QED  BY <1>3, <1>4, <1>5, <1>6 DEF Next

LEMMA MachineKept ==
  ASSUME KInv, KInv', Machine, [Next]_vars
  PROVE  Machine'
  <1>1. ring' \in {0, 3} /\ iflag' \in BOOLEAN /\ stack' \in {"boot", "user", "esp0", "kernel_stack"}
    BY DEF KInv, Types, Stacks
  <1>2. DOMAIN gdt' = 0..5
    <2>1. CASE GdtSetup
      BY <2>1 DEF GdtSetup, Touch, NewGdt
    <2>2. CASE IdtSetup \/ LoadTss
      BY <2>2 DEF IdtSetup, TssSetup, LoadTss, Machine
    <2>3. CASE UmSwitch
      BY <2>3 DEF UmSwitch, Touch, Machine
    <2>4. CASE PicInit \/ Sti \/ MemoryInit \/ Mount \/ UmSetupEnv
      BY <2>4 DEF PicInit, Sti, MemoryInit, Mount, UmSetupEnv, segment, Machine
    <2>5. CASE Next /\ ~ Boot
      BY <2>5, OthersKeepMemory DEF segment, Machine
    <2>6. CASE UNCHANGED vars
      BY <2>6 DEF vars, segment, Machine
    <2> QED  BY <2>1, <2>2, <2>3, <2>4, <2>5, <2>6 DEF Boot
  <1>3. DOMAIN idt' = Vectors
    <2>1. CASE IdtSetup
      BY <2>1 DEF IdtSetup, NewIdt
    <2>2. CASE Boot /\ ~ IdtSetup
      BY <2>2 DEF Boot, GdtSetup, PicInit, LoadTss, Sti, MemoryInit, Mount, UmSetupEnv, UmSwitch, Machine
    <2>3. CASE Next /\ ~ Boot
      BY <2>3, OthersKeepMemory DEF Machine
    <2>4. CASE UNCHANGED vars
      BY <2>4 DEF vars, Machine
    <2> QED  BY <2>1, <2>2, <2>3, <2>4
  <1>4. tables' \subseteq {"gdtr", "idtr", "tr"}
    <2>1. CASE Boot
      BY <2>1 DEF Boot, GdtSetup, IdtSetup, PicInit, LoadTss, Sti, MemoryInit, Mount, UmSetupEnv, UmSwitch, Machine
    <2>2. CASE Next /\ ~ Boot
      BY <2>2, OthersKeepMemory DEF Machine
    <2>3. CASE UNCHANGED vars
      BY <2>3 DEF vars, Machine
    <2> QED  BY <2>1, <2>2, <2>3
  <1>5. ss0' \in Nat
    <2>1. CASE Boot
      BY <2>1 DEF Boot, GdtSetup, IdtSetup, TssSetup, PicInit, LoadTss, Sti, MemoryInit, Mount, UmSetupEnv,
                  UmSwitch, Machine, tss, GDT_KERNEL_DATA_SEL
    <2>2. CASE Next /\ ~ Boot
      BY <2>2, OthersKeepMemory DEF tss, Machine
    <2>3. CASE UNCHANGED vars
      BY <2>3 DEF vars, tss, Machine
    <2> QED  BY <2>1, <2>2, <2>3
  <1>6. raised' \subseteq Irqs /\ service' \subseteq Irqs
    <2>1. CASE Boot
      BY <2>1 DEF Boot, GdtSetup, IdtSetup, PicInit, LoadTss, Sti, MemoryInit, Mount, UmSetupEnv,
                  UmSwitch, Machine, lines
    <2>2. CASE \E v \in Irqs : Raise(v) \/ IrqEnter(v)
      BY <2>2 DEF Raise, IrqEnter, Machine
    <2>3. CASE IrqReturn
      BY <2>3 DEF IrqReturn, Eoi, Machine
    <2>4. CASE SyscallEnter \/ SyscallReturn \/ SysExit \/ Breakpoint \/ (\E v \in Faults : Fault(v)) \/ HandleException
      BY <2>4 DEF SyscallEnter, SyscallReturn, SysExit, Breakpoint, Fault, HandleException, Machine, lines
    <2>5. CASE UNCHANGED vars
      BY <2>5 DEF vars, lines, Machine
    <2> QED  BY <2>1, <2>2, <2>3, <2>4, <2>5 DEF Next
  <1> QED  BY <1>1, <1>2, <1>3, <1>4, <1>5, <1>6 DEF Machine
-----------------------------------------------------------------------------
(* The allocator's calls, as the boot sequence makes them.                 *)
LEMMA InitialMemory ==
  ASSUME PM!TypeOK, NEW total \in Memories, PM!MemInit(total)
  PROVE  /\ PM!TypeOK' /\ mem_phys_start' = PM!PMM_START
         /\ mem_phys_map' = [i \in PM!Bytes |-> PM!Bits]
  <1>1. (total - PM!PMM_START) % WORD \in Nat
    <2>1. total - PM!PMM_START \in Int
      BY KernelAssumption, MemorySizes
    <2>2. \A a \in Int, n \in Nat \ {0} : a % n \in Nat
      BY SMT
    <2> QED  BY <2>1, <2>2, MemorySizes
  <1>2. \A a \in Nat, n \in Nat \ {0} : a \div n \in Nat
    BY SMT
  <1>3. mem_phys_sectors' \in Nat
    BY <1>1, <1>2, MemorySizes DEF PM!MemInit
  <1> QED  BY <1>3 DEF PM!MemInit, PM!Return, PM!TypeOK, PM!NULL

LEMMA RunTaken ==
  ASSUME PM!TypeOK, NEW n \in Nat, PM!AllocSectors(n)
  PROVE  /\ PM!TypeOK' /\ mem_phys_start' = mem_phys_start
         /\ \/ mem_phys_map' = mem_phys_map
            \/ \E i \in Nat : PM!ClearRun(i, n)
  <1>1. PICK stray \in PM!Stray :
          PM!AllocRunNone(n, stray) \/ \E i \in PM!Starts(n) : PM!AllocRunFound(n, i, stray)
    BY DEF PM!AllocSectors
  <1>2. ops' \in 0..(PROC_MAX_COUNT + 1) /\ UNCHANGED <<mem_phys_start, mem_phys_sectors>>
    BY MemorySizes DEF PM!AllocSectors, PM!Counted, PM!TypeOK
  <1>3. CASE PM!AllocRunNone(n, stray)
    BY <1>2, <1>3 DEF PM!AllocRunNone, PM!Return, PM!TypeOK, PM!NULL
  <1>4. ASSUME NEW i \in PM!Starts(n), PM!AllocRunFound(n, i, stray)
        PROVE  PM!TypeOK' /\ i \in Nat /\ PM!ClearRun(i, n)
    <2>1. i \in Nat
      BY DEF PM!Starts, PM!TypeOK
    <2>2. PM!Run(i, n) \subseteq Nat
      BY <2>1 DEF PM!Run
    <2>3. PM!Addr(i) \in Nat
      <3>1. mem_phys_start \in Nat
        BY MemorySizes DEF PM!TypeOK, PM!NULL
      <3> QED  BY <2>1, <3>1 DEF PM!Addr, PM!PMM_SECTOR_SIZE
    <2>4. mem_phys_map' \in [PM!Bytes -> SUBSET PM!Bits]
      BY <1>4 DEF PM!AllocRunFound, PM!ClearRun, PM!TypeOK
    <2>5. result' \in Nat /\ given' \subseteq Nat /\ owned' \subseteq Nat
      BY <1>4, <2>2, <2>3 DEF PM!AllocRunFound, PM!Return, PM!TypeOK
    <2> QED  BY <1>2, <1>4, <2>1, <2>4, <2>5 DEF PM!TypeOK, PM!AllocRunFound
  <1> QED  BY <1>1, <1>2, <1>3, <1>4 DEF PM!AllocRunNone

(* A run that is shorter than the map does not have its first and its last *)
(* sector.                                                                 *)
LEMMA SectorLeft ==
  ASSUME PM!TypeOK, mem_phys_map = [i \in PM!Bytes |-> PM!Bits],
         NEW n \in Nat, n < PMM_SECTORS, NEW i \in Nat, PM!ClearRun(i, n)
  PROVE  \E y \in PM!Bytes : mem_phys_map'[y] # {}
  <1> DEFINE m == PMM_SECTORS \div 8
  <1>1. m \in Nat \ {0} /\ PMM_SECTORS = m * 8
    BY MemorySizes
  <1>2. 0 \in PM!Bytes /\ m - 1 \in PM!Bytes /\ 0 \in PM!Bits /\ 7 \in PM!Bits
    BY <1>1 DEF PM!Bytes, PM!Bits
  <1>3. PM!Sector(0, 0) = 0 /\ PM!Sector(m - 1, 7) = PMM_SECTORS - 1
    BY <1>1 DEF PM!Sector
  <1> HIDE DEF m
  <1>4. 0 \notin PM!Run(i, n) \/ PMM_SECTORS - 1 \notin PM!Run(i, n)
    BY <1>1 DEF PM!Run
  <1>5. \A y \in PM!Bytes : mem_phys_map'[y] = {b \in PM!Bits : PM!Sector(y, b) \notin PM!Run(i, n)}
    BY DEF PM!ClearRun
  <1>6. CASE 0 \notin PM!Run(i, n)
    <2>1. 0 \in mem_phys_map'[0]
      BY <1>2, <1>3, <1>5, <1>6
    <2> QED  BY <1>2, <2>1
  <1>7. CASE PMM_SECTORS - 1 \notin PM!Run(i, n)
    <2>1. 7 \in mem_phys_map'[m - 1]
      BY <1>2, <1>3, <1>5, <1>7
    <2> QED  BY <1>2, <2>1
  <1> QED  BY <1>4, <1>6, <1>7

LEMMA SectorTaken ==
  ASSUME PM!TypeOK, PM!Alloc
  PROVE  /\ PM!TypeOK'
         /\ mem_phys_start = PM!PMM_START /\ (\E i \in PM!Bytes : mem_phys_map[i] # {}) => result' # 0
  <1>1. ops' \in 0..(PROC_MAX_COUNT + 1) /\ UNCHANGED <<mem_phys_start, mem_phys_sectors>>
    BY MemorySizes DEF PM!Alloc, PM!Counted, PM!TypeOK
  <1>2. CASE PM!AllocNone
    BY <1>1, <1>2 DEF PM!AllocNone, PM!Return, PM!TypeOK, PM!NULL
  <1>3. ASSUME NEW i \in PM!Bytes, NEW b \in PM!Bits, PM!AllocFound(i, b)
        PROVE  PM!TypeOK' /\ (mem_phys_start = PM!PMM_START => result' # 0)
    <2>1. PM!Sector(i, b) \in Nat
      BY MemorySizes DEF PM!Sector, PM!Bytes, PM!Bits
    <2>2. PM!Addr(PM!Sector(i, b)) \in Nat /\ PM!Addr(PM!Sector(i, b)) >= mem_phys_start /\ mem_phys_start \in Nat
      <3>1. mem_phys_start \in Nat
        BY MemorySizes DEF PM!TypeOK, PM!NULL
      <3> HIDE DEF PM!Sector
      <3> QED  BY <2>1, <3>1 DEF PM!Addr, PM!PMM_SECTOR_SIZE
    <2>3. mem_phys_map' \in [PM!Bytes -> SUBSET PM!Bits]
      BY <1>3 DEF PM!AllocFound, PM!TypeOK
    <2>4. result' = PM!Addr(PM!Sector(i, b)) /\ given' = {PM!Sector(i, b)} /\ owned' = owned \cup given'
      BY <1>3 DEF PM!AllocFound, PM!Return
    <2>5. PM!TypeOK'
      BY <1>1, <2>1, <2>2, <2>3, <2>4 DEF PM!TypeOK
    <2>6. mem_phys_start = PM!PMM_START => result' # 0
      BY <2>2, <2>4, MemorySizes
    <2> QED  BY <2>5, <2>6
  <1> QED  BY <1>2, <1>3 DEF PM!Alloc
-----------------------------------------------------------------------------
(* In every context the map has been set up, and a stack has been chosen,  *)
(* as far as boot has come.                                                *)
LEMMA MInitInv == Init => MInv
  <1>1. SUFFICES ASSUME Init PROVE MInv
    OBVIOUS
  <1>2. Context = "gdt_setup"
    BY <1>1 DEF Init, Context
  <1>3. PM!TypeOK
    BY <1>1, MemorySizes DEF Init, PM!Init, PM!TypeOK, PM!NULL
  <1>4. Machine /\ esp0 \in Nat /\ process_table \in [Pids -> {"unused", "running"}]
    BY <1>1 DEF Init, Machine
  <1> QED  BY <1>2, <1>3, <1>4, TypeParts DEF MInv, Stacked, Late

LEMMA MemoryUnchanged ==
  ASSUME PM!TypeOK, UNCHANGED memory
  PROVE  PM!TypeOK'
  BY DEF memory, PM!TypeOK

LEMMA BootKeepsMemory ==
  ASSUME KInv, KInv', MInv, Boot, Machine'
  PROVE  MInv'
  <1>1. PM!TypeOK /\ esp0 \in Nat /\ process_table \in [Pids -> {"unused", "running"}]
    BY TypeParts DEF MInv
  <1>2. pc \in Contexts /\ frames' = frames
    BY DEF Boot, GdtSetup, IdtSetup, PicInit, LoadTss, Sti, MemoryInit, Mount, UmSetupEnv, UmSwitch,
           cpu, Contexts, Late
  <1>3. Len(frames) = 0
    <2>1. Len(frames) \in Nat /\ Len(frames) <= 2
      BY DEF KInv, Types, Nesting
    <2>2. Len(frames) # 1 /\ Len(frames) # 2
      BY <1>2 DEF KInv, Nesting, OneFrame, TwoFrames, Contexts, Late
    <2>3. \A n \in Nat : n <= 2 /\ n # 1 /\ n # 2 => n = 0
      BY SMT
    <2> QED  BY <2>1, <2>2, <2>3
  <1>4. Context = pc /\ Context' = pc'
    BY <1>2, <1>3 DEF Context
  <1>5. SUFFICES /\ PM!TypeOK' /\ esp0' \in Nat /\ process_table' \in [Pids -> {"unused", "running"}]
                 /\ pc' \in {"mount", "um_setup_env"} => mem_phys_start' = PM!PMM_START
                 /\ pc' = "mount" => mem_phys_map' = [i \in PM!Bytes |-> PM!Bits]
                 /\ pc' = "um_setup_env" => \E i \in PM!Bytes : mem_phys_map'[i] # {}
                 /\ pc' \in Stacked => esp0' # 0
    <2>1. TypeOK'
      BY <1>5 DEF TypeOK, Machine
    <2> QED  BY <1>4, <1>5, <2>1 DEF MInv
  <1>6. CASE GdtSetup \/ IdtSetup \/ PicInit
    <2>1. PM!TypeOK'
      BY <1>1, <1>6, MemoryUnchanged DEF GdtSetup, IdtSetup, PicInit
    <2>2. pc' \in {"idt_setup", "pic_init", "tss", "halt"} /\ process_table' = process_table /\ esp0' \in {0, esp0}
      BY <1>6 DEF GdtSetup, IdtSetup, PicInit, TssSetup, tss
    <2> QED  BY <1>1, <2>1, <2>2 DEF Stacked, Late
  <1>7. CASE LoadTss
    <2>1. PM!TypeOK'
      BY <1>1, <1>7, MemoryUnchanged DEF LoadTss
    <2>2. pc' = "sti" /\ process_table' = process_table /\ esp0' = KernelStackTop
      BY <1>7 DEF LoadTss
    <2> QED  BY <1>1, <2>1, <2>2, KernelAssumption
  <1>8. CASE Sti
    <2>1. PM!TypeOK'
      BY <1>1, <1>8, MemoryUnchanged DEF Sti
    <2>2. pc' = "memory" /\ process_table' = process_table /\ esp0' = esp0 /\ esp0 # 0
      BY <1>4, <1>8 DEF Sti, MInv, Stacked, tss
    <2> QED  BY <1>1, <2>1, <2>2
  <1>9. CASE MemoryInit
    <2>1. pc' = "mount" /\ process_table' = process_table /\ esp0' = esp0 /\ esp0 # 0
      BY <1>4, <1>9 DEF MemoryInit, MInv, Stacked, Late, tss
    <2>2. PICK total \in Memories : PM!MemInit(total)
      BY <1>9 DEF MemoryInit
    <2>3. /\ PM!TypeOK' /\ mem_phys_start' = PM!PMM_START
          /\ mem_phys_map' = [i \in PM!Bytes |-> PM!Bits]
      BY <1>1, <2>2, InitialMemory
    <2> QED  BY <1>1, <2>1, <2>3
  <1>10. CASE Mount
    <2>1. process_table' = process_table /\ esp0' = esp0 /\ esp0 # 0
          /\ mem_phys_start = PM!PMM_START /\ mem_phys_map = [i \in PM!Bytes |-> PM!Bits]
      BY <1>4, <1>10 DEF Mount, MInv, Stacked, Late, tss
    <2>2. CASE pc' = "idle" /\ UNCHANGED memory
      BY <1>1, <2>1, <2>2, MemoryUnchanged
    <2>3. ASSUME NEW size \in GroupTables, kpmalloc(size), pc' \in {"idle", "um_setup_env"}
          PROVE  /\ PM!TypeOK' /\ mem_phys_start' = PM!PMM_START
                 /\ \E i \in PM!Bytes : mem_phys_map'[i] # {}
      <3> DEFINE n == SectorsFor(size)
      <3>1. n \in Nat /\ n < PMM_SECTORS
        <4>1. size \in Nat /\ SectorsFor(size) < PMM_SECTORS
          BY KernelAssumption
        <4>2. size # 0 => (size + PM!PMM_SECTOR_SIZE - 1) \div PM!PMM_SECTOR_SIZE \in Nat
          BY <4>1, SMT DEF PM!PMM_SECTOR_SIZE
        <4> QED  BY <4>1, <4>2 DEF SectorsFor
      <3>2. PM!AllocSectors(n)
        BY <2>3 DEF kpmalloc
      <3> HIDE DEF n
      <3>3. /\ PM!TypeOK' /\ mem_phys_start' = mem_phys_start
            /\ mem_phys_map' = mem_phys_map \/ \E i \in Nat : PM!ClearRun(i, n)
        BY <1>1, <3>1, <3>2, RunTaken
      <3>4. CASE mem_phys_map' = mem_phys_map
        <4>1. 0 \in PM!Bytes /\ 0 \in PM!Bits
          BY MemorySizes DEF PM!Bytes, PM!Bits
        <4> QED  BY <2>1, <3>3, <3>4, <4>1
      <3>5. CASE \E i \in Nat : PM!ClearRun(i, n)
        BY <1>1, <2>1, <3>1, <3>3, <3>5, SectorLeft
      <3> QED  BY <2>1, <3>3, <3>4, <3>5
    <2>4. CASE \E size \in GroupTables :
                 kpmalloc(size) /\ pc' = IF result' = PM!NULL THEN "idle" ELSE "um_setup_env"
      BY <1>1, <2>1, <2>3, <2>4
    <2> QED  BY <1>10, <2>2, <2>4 DEF Mount
  <1>11. CASE UmSetupEnv
    <2>1. pc' = "um_switch" /\ pc = "um_setup_env"
      BY <1>11 DEF UmSetupEnv
    <2>2. /\ esp0 # 0 /\ mem_phys_start = PM!PMM_START
          /\ \E i \in PM!Bytes : mem_phys_map[i] # {}
      BY <1>4, <2>1 DEF MInv, Stacked, Late
    <2>3. CASE Unused # {}
      <3>1. PM!Alloc /\ esp0' = result'
        BY <1>11, <2>3 DEF UmSetupEnv, ProcCreate
      <3>2. process_table' \in [Pids -> {"unused", "running"}]
        BY <1>1, <1>11, <2>3 DEF UmSetupEnv, ProcCreate
      <3>3. PM!TypeOK' /\ result' # 0
        BY <1>1, <2>2, <3>1, SectorTaken
      <3>4. result' \in Nat
        BY <3>3 DEF PM!TypeOK
      <3> QED  BY <2>1, <3>1, <3>2, <3>3, <3>4
    <2>4. CASE Unused = {}
      <3>1. UNCHANGED <<memory, process_table, tss>>
        BY <1>11, <2>4 DEF UmSetupEnv
      <3> QED  BY <1>1, <2>1, <2>2, <3>1, MemoryUnchanged DEF tss
    <2> QED  BY <2>3, <2>4
  <1>12. CASE UmSwitch
    <2>1. PM!TypeOK'
      BY <1>1, <1>12, MemoryUnchanged DEF UmSwitch
    <2>2. pc' = "user" /\ process_table' = process_table /\ esp0' = esp0 /\ esp0 # 0
      BY <1>4, <1>12 DEF UmSwitch, MInv, Stacked, Late, tss
    <2> QED  BY <1>1, <2>1, <2>2
  <1> QED  BY <1>6, <1>7, <1>8, <1>9, <1>10, <1>11, <1>12 DEF Boot

LEMMA MNextInv ==
  ASSUME KInv, KInv', MInv, [Next]_vars
  PROVE  MInv'
  <1>1. Machine'
    BY MachineKept, TypeParts DEF MInv
  <1>2. CASE Boot
    BY <1>1, <1>2, BootKeepsMemory
  <1>3. ASSUME UNCHANGED <<memory, tss, process_table>>,
               Context' = Context \/ (Context = "user" /\ Context' = "idle")
        PROVE  MInv'
    <2>1. PM!TypeOK'
      BY <1>3, TypeParts, MemoryUnchanged DEF MInv
    <2>2. TypeOK'
      BY <1>1, <1>3, <2>1, TypeParts DEF MInv, tss, TypeOK, Machine
    <2> QED  BY <1>3, <2>2 DEF MInv, memory, tss, Stacked, Late
  <1>4. CASE Next /\ ~ Boot
    BY <1>3, <1>4, ContextStays, OthersKeepMemory
  <1>5. CASE UNCHANGED vars
    BY <1>3, <1>5 DEF vars, cpu, Context
  <1> QED  BY <1>2, <1>4, <1>5

LEMMA MInvariance == Spec => []MInv
  BY MInitInv, MNextInv, KInvariance, PTL DEF Spec

(* The types of the machine, its memory manager and its processes, through *)
(* boot and every nesting of interrupts.                                   *)
THEOREM KernelTyped == Spec => []TypeOK
  <1>1. MInv => TypeOK
    BY DEF MInv
  <1> QED  BY <1>1, MInvariance, PTL

(* kernel.c:109-125: with interrupts enabled all that the processor looks  *)
(* up is ready, and from ring 3 there is a stack, although proc_create     *)
(* does not test what mem_phys_alloc returns (processes.c:35): the group   *)
(* descriptors never take the whole map.                                   *)
THEOREM KernelInterruptsReady == Spec => []InterruptsReady
  <1>1. KInv /\ MInv /\ GatesReady => InterruptsReady
    <2>1. SUFFICES ASSUME KInv, MInv, GatesReady, ring = 3 PROVE esp0 # 0
      BY DEF InterruptsReady
    <2>2. Context = "user"
      BY <2>1, ProgramContext
    <2> QED  BY <2>1, <2>2 DEF MInv, Stacked, Late
  <1> QED  BY <1>1, KInvariance, MInvariance, KernelGates, PTL
=============================================================================
