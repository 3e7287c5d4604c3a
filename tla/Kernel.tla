------------------------------- MODULE Kernel -------------------------------
(***************************************************************************)
(* kernel.c from its entry to the user program and its exit, with the      *)
(* processor state it sets up: descriptor tables, interrupt controller,    *)
(* stacks, the interrupt flag.  A step is a function of the boot sequence, *)
(* or the entry, body or return of an interrupt.  Memory comes from        *)
(* PhysMem; what is printed and read is in Console.                        *)
(***************************************************************************)
EXTENDS Descriptors, Sequences, SequencesExt

CONSTANTS
  PMM_SECTORS, WORD, Memories, KernelBytes,   (* as in PhysMem             *)
  KernelStackTop,    (* kernel_stack_top, an address in the kernel's image *)
  GroupTables,       (* sizes of the disk image's group descriptor table   *)
  PROC_MAX_COUNT,
  Stub(_),           (* per vector: the address of its entry in idt_asm    *)
  TssAddr,           (* &tss                                               *)
  Faults             (* exceptions a user program may raise                *)

VARIABLES
  mem_phys_map, mem_phys_start, mem_phys_sectors, given, result, owned, ops,
  pc,                (* what executes: a boot step, "user", "idle", ...    *)
  ring, iflag,       (* privilege level and interrupt flag                 *)
  stack,             (* the stack the processor is on                      *)
  frames,            (* the interrupt frames that are on the stacks        *)
  gdt,               (* the table, with the bits the processor sets in it  *)
  gdt_checksum,      (* the table the checksum was computed of             *)
  idt,               (* per vector: its gate                               *)
  tables,            (* the registers that were loaded: gdtr, idtr, tr     *)
  ss0, esp0,         (* of the TSS                                         *)
  pic,               (* "bios" or "remapped"                               *)
  raised, service,   (* the requests latched and in service at the PIC     *)
  process_table

PM == INSTANCE PhysMem WITH Requests <- {}, Offsets <- {}, MaxOps <- PROC_MAX_COUNT + 1

\* kpmalloc asks for the sectors for size bytes, at least one.
SectorsFor(size) ==
  IF size = 0 THEN 1 ELSE (size + PM!PMM_SECTOR_SIZE - 1) \div PM!PMM_SECTOR_SIZE

\* Addresses are 32-bit, and nothing the kernel needs is at address 0.  The map
\* has a sector left when it has given those for the group descriptors.
ASSUME KernelAssumption ==
  /\ \A v \in 0..255 : Stub(v) \in Nat \ {0} /\ Stub(v) \div HALF < HALF
  /\ TssAddr \in Nat /\ TssAddr \div HALF < HALF
  /\ Faults \subseteq 0..31
  /\ KernelStackTop \in Nat \ {0} /\ PROC_MAX_COUNT \in Nat
  /\ PMM_SECTORS \in Nat \ {0} /\ PMM_SECTORS % 8 = 0
  /\ WORD \in Nat \ {0} /\ Memories \subseteq Nat
  /\ GroupTables \subseteq Nat /\ \A size \in GroupTables : SectorsFor(size) < PMM_SECTORS

memory  == <<mem_phys_map, mem_phys_start, mem_phys_sectors, given, result, owned, ops>>
cpu     == <<ring, iflag, stack, frames>>
segment == <<gdt, gdt_checksum>>
tss     == <<ss0, esp0>>
lines   == <<raised, service>>
vars    == <<memory, pc, cpu, segment, idt, tables, tss, pic, lines, process_table>>

TIMER == 32
KEYBOARD == 33
SYSCALL == 128
GPF == 13
Irqs == {TIMER, KEYBOARD}
Exceptions == (0..8) \cup (10..14) \cup {16}
Vectors == (0..31) \cup Irqs \cup {SYSCALL}
Pids == 0..PROC_MAX_COUNT-1

\* multiboot.asm disables interrupts and sets up the boot stack.
Init ==
  /\ PM!Init
  /\ pc = "gdt_setup" /\ ring = 0 /\ iflag = FALSE /\ stack = "boot" /\ frames = <<>>
  /\ gdt = [e \in 0..5 |-> NullEntry] /\ gdt_checksum = <<>>
  /\ idt = [v \in Vectors |-> NoGate]
  /\ tables = {} /\ ss0 = 0 /\ esp0 = 0 /\ pic = "bios" /\ raised = {} /\ service = {}
  /\ process_table = [p \in Pids |-> "unused"]
-----------------------------------------------------------------------------
(* The boot sequence.                                                      *)

\* The processor marks a segment's descriptor when it loads its selector.
Touch(table, entries) ==
  [e \in DOMAIN table |-> IF e \in entries THEN Accessed(table[e]) ELSE table[e]]

\* Without the bit that the processor sets.
Access(e) == (e.access \div 2) * 2

\* The checksum stands for the table it was computed of.
gdt_verify_integrity(table, sum) ==
  /\ table = sum
  /\ table[0].limit_low = 0 /\ table[0].base_low = 0 /\ table[0].access = 0
  /\ Access(table[1]) = 154 /\ Access(table[2]) = 146
  /\ Access(table[3]) = 250 /\ Access(table[4]) = 242

NewGdt ==
  LET flat(access) == GdtEntry(0, 16 * HALF - 1, access, 207) IN
  [e \in 0..5 |->
     CASE e = 1 -> flat(154) [] e = 2 -> flat(146)
       [] e = 3 -> flat(250) [] e = 4 -> flat(242) [] OTHER -> NullEntry]

\* Mutant of GdtSetup: the checksum is computed before the table is loaded.
GdtSetupEarly ==
  /\ pc = "gdt_setup"
  /\ gdt' = Touch(NewGdt, {1, 2})
  /\ gdt_checksum' = NewGdt
  /\ tables' = tables \cup {"gdtr"}
  /\ pc' = IF gdt_verify_integrity(gdt', gdt_checksum') THEN "idt_setup" ELSE "halt"
  /\ UNCHANGED <<memory, cpu, idt, tss, pic, lines, process_table>>

\* gdt_setup loads the kernel's segments before it computes the checksum.
GdtSetup ==
  /\ pc = "gdt_setup"
  /\ gdt' = Touch(NewGdt, {1, 2})
  /\ gdt_checksum' = gdt'
  /\ tables' = tables \cup {"gdtr"}
  /\ pc' = IF gdt_verify_integrity(gdt', gdt_checksum') THEN "idt_setup" ELSE "halt"
  /\ UNCHANGED <<memory, cpu, idt, tss, pic, lines, process_table>>

Gate(v, type_attr) == IdtEntry(Stub(v), GDT_KERNEL_CODE_SEL, type_attr)

\* Mutant of NewIdt: the gates of the interrupts are trap gates.
NewIdtTraps ==
  [v \in Vectors |->
    IF v \in Exceptions THEN Gate(v, IDT_TYPE_INTERRUPT_GATE)
    ELSE IF v \in Irqs THEN Gate(v, IDT_TYPE_TRAP_GATE)
    ELSE IF v = SYSCALL THEN Gate(v, IDT_TYPE_TRAP_GATE + IDT_FLAG_RING3)
    ELSE NoGate]

NewIdt ==
  [v \in Vectors |->
    IF v \in Exceptions \cup Irqs THEN Gate(v, IDT_TYPE_INTERRUPT_GATE)
    ELSE IF v = SYSCALL THEN Gate(v, IDT_TYPE_TRAP_GATE + IDT_FLAG_RING3)
    ELSE NoGate]

\* tss_setup
TssSetup ==
  /\ ss0' = GDT_KERNEL_DATA_SEL /\ esp0' = 0
  /\ gdt' = [gdt EXCEPT ![GDT_TSS_SEL \div 8] = GdtEntry(TssAddr, TSS_LIMIT, 137, 0)]

idt_verify_integrity(table) == HandlerOf(table[0]) # 0 /\ HandlerOf(table[GPF]) # 0

\* idt_setup sets the gates, has tss_setup write GDT entry 5 and loads the IDT.
IdtSetup ==
  /\ pc = "idt_setup"
  /\ idt' = NewIdt
  /\ TssSetup
  /\ tables' = tables \cup {"idtr"}
  /\ pc' = IF idt_verify_integrity(idt') THEN "pic_init" ELSE "halt"
  /\ UNCHANGED <<memory, cpu, gdt_checksum, pic, lines, process_table>>

\* The first command word makes the controller forget what it has latched.
PicInit ==
  /\ pc = "pic_init" /\ pc' = "tss"
  /\ pic' = "remapped" /\ raised' = {} /\ service' = {}
  /\ UNCHANGED <<memory, cpu, segment, idt, tables, tss, process_table>>

\* Mutant of LoadTss: the task register is not loaded.
LoadTssForgotten ==
  /\ pc = "tss" /\ pc' = "sti"
  /\ esp0' = KernelStackTop /\ UNCHANGED ss0
  /\ UNCHANGED <<memory, cpu, segment, idt, tables, pic, lines, process_table>>

\* tss_set_kernel_stack and ltr, which marks the TSS busy.
LoadTss ==
  /\ pc = "tss" /\ pc' = "sti"
  /\ esp0' = KernelStackTop /\ UNCHANGED ss0
  /\ gdt' = [gdt EXCEPT ![GDT_TSS_SEL \div 8] = Busy(@)]
  /\ tables' = tables \cup {"tr"}
  /\ UNCHANGED <<memory, cpu, gdt_checksum, idt, pic, lines, process_table>>

Sti ==
  /\ pc = "sti" /\ pc' = "memory"
  /\ iflag' = TRUE
  /\ UNCHANGED <<memory, ring, stack, frames, segment, idt, tables, tss, pic, lines,
                 process_table>>

MemoryInit ==
  /\ pc = "memory" /\ pc' = "mount"
  /\ \E total \in Memories : PM!MemInit(total)
  /\ UNCHANGED <<cpu, segment, idt, tables, tss, pic, lines, process_table>>

kpmalloc(size) == PM!AllocSectors(SectorsFor(size))

\* ext2_mount fails without a superblock, or without memory for the group
\* descriptors; then there is no user program.
Mount ==
  /\ pc = "mount"
  /\ \/ pc' = "idle" /\ UNCHANGED memory
     \/ \E size \in GroupTables :
          /\ kpmalloc(size)
          /\ pc' = IF result' = PM!NULL THEN "idle" ELSE "um_setup_env"
  /\ UNCHANGED <<cpu, segment, idt, tables, tss, pic, lines, process_table>>

Unused == {p \in Pids : process_table[p] = "unused"}

\* proc_create: the first unused slot, with a sector for its kernel stack.
ProcCreate ==
  \E p \in Unused :
    /\ \A q \in Unused : p <= q
    /\ process_table' = [process_table EXCEPT ![p] = "running"]
    /\ PM!Alloc

\* um_setup_env.  It returns nothing: kernel_entry goes on, whether a process
\* was created, and the program found and read, or not.
UmSetupEnv ==
  /\ pc = "um_setup_env" /\ pc' = "um_switch"
  /\ IF Unused # {}
       THEN ProcCreate /\ esp0' = result' /\ UNCHANGED ss0
       ELSE UNCHANGED <<memory, process_table, tss>>
  /\ UNCHANGED <<cpu, segment, idt, tables, pic, lines>>

\* um_switch: the user's segments, and an iret that enables interrupts.
UmSwitch ==
  /\ pc = "um_switch" /\ pc' = "user"
  /\ ring' = 3 /\ iflag' = TRUE /\ stack' = "user"
  /\ gdt' = Touch(gdt, {3, 4})
  /\ UNCHANGED <<memory, frames, gdt_checksum, idt, tables, tss, pic, lines, process_table>>
-----------------------------------------------------------------------------
(* Interrupts.  From ring 3 the processor goes to the stack in the TSS; an *)
(* interrupt gate clears the interrupt flag, a trap gate does not.         *)

Enter(vector, handler) ==
  /\ Present(idt[vector])
  /\ frames' = Append(frames, [vector |-> vector, pc |-> pc,
                               ring |-> ring, iflag |-> iflag, stack |-> stack])
  /\ ring' = 0
  /\ iflag' = (iflag /\ IsTrap(idt[vector]))
  /\ stack' = IF ring = 3 THEN "esp0" ELSE stack
  /\ pc' = handler
  /\ UNCHANGED <<memory, segment, idt, tables, tss, pic, process_table>>

\* Mutant of Iret: the interrupt flag of the frame is not restored.
IretFlagLost(f) ==
  /\ frames' = Front(frames)
  /\ ring' = f.ring /\ iflag' = iflag /\ pc' = f.pc
  /\ stack' = IF f.ring = 3 THEN f.stack ELSE stack
  /\ UNCHANGED <<memory, segment, idt, tables, tss, pic, process_table>>

\* iret: the stack pointer is in the frame only for a return to ring 3.
Iret(f) ==
  /\ frames' = Front(frames)
  /\ ring' = f.ring /\ iflag' = f.iflag /\ pc' = f.pc
  /\ stack' = IF f.ring = 3 THEN f.stack ELSE stack
  /\ UNCHANGED <<memory, segment, idt, tables, tss, pic, process_table>>

Raise(v) ==
  /\ v \notin raised /\ raised' = raised \cup {v}
  /\ UNCHANGED <<memory, pc, cpu, segment, idt, tables, tss, pic, service, process_table>>

\* The PIC passes on a request of higher priority than what is in service.
IrqEnter(v) ==
  /\ iflag /\ pic = "remapped"
  /\ v \in raised /\ \A w \in service : v < w
  /\ raised' = raised \ {v} /\ service' = service \cup {v}
  /\ Enter(v, "irq_handler")

EoiForgotten(v) == UNCHANGED lines

\* irq_handler ends with the end-of-interrupt command.
Eoi(v) == service' = service \ {v} /\ UNCHANGED raised

IrqReturn ==
  /\ pc = "irq_handler"
  /\ Eoi(Last(frames).vector)
  /\ Iret(Last(frames))

\* int n is allowed from ring 3 if the gate allows it, otherwise it is a GPF.
SoftInt(v) == IF GateRing(idt[v]) = 3 THEN v ELSE GPF

SyscallEnter ==
  /\ pc = "user"
  /\ Enter(SoftInt(SYSCALL),
           IF SoftInt(SYSCALL) = SYSCALL THEN "handle_syscall" ELSE "interrupt_handler")
  /\ UNCHANGED lines

\* SYS_WRITE, SYS_READ, SYS_GETPID and unknown numbers.
SyscallReturn ==
  /\ pc = "handle_syscall"
  /\ Iret(Last(frames))
  /\ UNCHANGED lines

\* SYS_EXIT rewrites the frame: exit_to_kernel, in ring 0.
SysExit ==
  /\ pc = "handle_syscall"
  /\ Iret([Last(frames) EXCEPT !.ring = 0, !.pc = "idle", !.stack = "kernel_stack"])
  /\ UNCHANGED lines

Breakpoint ==
  /\ pc = "user" /\ Enter(SoftInt(3), "interrupt_handler") /\ UNCHANGED lines

Fault(v) ==
  /\ pc = "user" /\ Enter(v, "interrupt_handler") /\ UNCHANGED lines

\* interrupt_handler halts on every exception but the breakpoint.
HandleException ==
  /\ pc = "interrupt_handler"
  /\ IF Last(frames).vector # 3
       THEN pc' = "halt" /\ UNCHANGED <<memory, cpu, segment, idt, tables, tss, pic,
                                        process_table>>
       ELSE Iret(Last(frames))
  /\ UNCHANGED lines

Boot ==
  \/ GdtSetup \/ IdtSetup \/ PicInit \/ LoadTss \/ Sti
  \/ MemoryInit \/ Mount \/ UmSetupEnv \/ UmSwitch

Next ==
  \/ Boot
  \/ \E v \in Irqs : Raise(v) \/ IrqEnter(v)
  \/ IrqReturn
  \/ SyscallEnter \/ SyscallReturn \/ SysExit
  \/ Breakpoint \/ \E v \in Faults : Fault(v)
  \/ HandleException

Spec == Init /\ [][Next]_vars

\* The processor executes the kernel; it takes an interrupt that stays
\* requested before one of the instructions it executes with iflag set.
FairSpec ==
  /\ Spec
  /\ WF_vars(Boot) /\ WF_vars(IrqReturn) /\ WF_vars(HandleException)
  /\ SF_vars(IrqEnter(KEYBOARD))
-----------------------------------------------------------------------------
TypeOK ==
  /\ PM!TypeOK
  /\ ring \in {0, 3} /\ iflag \in BOOLEAN
  /\ stack \in {"boot", "user", "esp0", "kernel_stack"}
  /\ DOMAIN gdt = 0..5 /\ DOMAIN idt = Vectors
  /\ tables \subseteq {"gdtr", "idtr", "tr"} /\ ss0 \in Nat /\ esp0 \in Nat
  /\ raised \subseteq Irqs /\ service \subseteq Irqs
  /\ process_table \in [Pids -> {"unused", "running"}]

\* What the processor looks up for an interrupt, up to the stack.
GatesReady ==
  iflag => /\ {"gdtr", "idtr"} \subseteq tables /\ pic = "remapped"
           /\ \A v \in Irqs : /\ Present(idt[v]) /\ HandlerOf(idt[v]) = Stub(v)
                              /\ idt[v].selector = GDT_KERNEL_CODE_SEL
           /\ IsCode(gdt[1]) /\ Flat(gdt[1], 0)
           /\ ring = 3 => /\ "tr" \in tables /\ IsTss(gdt[5])
                          /\ BaseOf(gdt[5]) = TssAddr /\ LimitOf(gdt[5]) = TSS_LIMIT
                          /\ ss0 = GDT_KERNEL_DATA_SEL

(* kernel.c:109-125: whenever interrupts are enabled, a request of the     *)
(* timer or the keyboard finds the tables loaded, the controller remapped  *)
(* and a gate to its own stub and to the kernel's code, which is the whole *)
(* address space; from ring 3 it also finds the TSS and in it a stack.     *)
InterruptsReady == GatesReady /\ (ring = 3 => esp0 # 0)

(* What ring 3 may load: its own two segments of the whole address space,  *)
(* and of the gates only the one for system calls.                         *)
RingThree ==
  ring = 3 =>
    /\ IsCode(gdt[3]) /\ Flat(gdt[3], 3) /\ IsData(gdt[4]) /\ Flat(gdt[4], 3)
    /\ \A e \in {1, 2, 5} : Ring(gdt[e]) = 0
    /\ {v \in Vectors : Present(idt[v]) /\ GateRing(idt[v]) = 3} = {SYSCALL}

(* gdt.c:94-96 and the checks of kernel.c:102-113: the processor's writes  *)
(* to the table do not make the kernel take its own table for a broken     *)
(* one.  Only an exception halts it.                                       *)
BootDoesNotHalt == pc = "halt" => frames # <<>>

(* At most a system call and one interrupt are on the process's kernel     *)
(* stack at a time: handlers of interrupts are never interrupted, although *)
(* system calls are.                                                       *)
NestingBounded ==
  /\ Len(frames) <= 2
  /\ \A i \in 2..Len(frames) : frames[i].vector \in Irqs /\ frames[i].pc # "irq_handler"

(* interrupts.c:147-152: every interrupt that was accepted is acknowledged *)
(* once, by the handler that serves it: what the controller holds in       *)
(* service is what has a frame on a stack, whatever was interrupted and    *)
(* also after a program has exited from within a system call.              *)
InServiceIsOnStack ==
  service = {frames[i].vector : i \in 1..Len(frames)} \cap Irqs

(* interrupts.c:118-153: a key that is hit once pic_init has set up the    *)
(* controller (it forgets earlier ones) is handled, also when the program  *)
(* does nothing but call the kernel, and after its exit; only an exception *)
(* makes the kernel deaf.                                                  *)
KeyServed ==
  pic = "remapped" /\ KEYBOARD \in raised ~> KEYBOARD \notin raised \/ pc = "halt"

(* syscalls.c:77 says that after SYS_EXIT the kernel stack is used.        *)
ExitUsesKernelStack ==
  [][pc = "handle_syscall" /\ pc' = "idle" => stack' = "kernel_stack"]_vars

(* usermode.c:19 sets up the TSS with the process's kernel stack: the word *)
(* below esp0, the first one pushed, is in the sector that proc_create was *)
(* given, the last call for memory there is.                               *)
KernelStackIsOwned ==
  pc = "user" => \E s \in given : esp0 - 4 >= PM!Addr(s) /\ esp0 <= PM!Addr(s) + PM!PMM_SECTOR_SIZE
=============================================================================
