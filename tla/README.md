# DRUPE in TLA+

DRUPE is a small 32-bit x86 kernel: it boots through Multiboot2, sets up its
descriptor tables and the interrupt controller, mounts an ext2 image that is
linked into it, starts one user program and serves its system calls, while the
keyboard interrupt feeds a console. This directory holds its specification:
TLA+ modules translated from `src/source`, the configurations that check them
with TLC, and proofs checked by TLAPS.

## 1. Inventory

| Component | Source | State | Operations | Interacts with |
|---|---|---|---|---|
| byte streams | `system/shell/stream.[ch]` | `data`, `head`, `tail`, `count` | `stream_write`, `stream_read` | called by the shell and by SYS_READ, from the main line and from the keyboard interrupt |
| console | `system/shell/shell.[ch]` | three streams, `cursor`, `color`, the cells of the screen | `sh_write_stream`, `sh_render`, `sh_scroll`, `sh_putc`, `sh_puts`, `sh_printf`, `sh_putint`, `sh_clear` | everything that prints |
| keyboard, interrupt controller | `system/interrupts/interrupts.c` | requests and in-service bits of the 8259, keymap | `irq_handler`, `pic_init` | writes to stdin, which renders stdout and stderr too |
| exceptions | `interrupts.c`, `arch/x86/idt_asm.asm` | interrupt frames | `interrupt_handler` | console, system calls |
| system calls | `system/interrupts/syscalls.c` | the frame of the caller | SYS_WRITE, SYS_READ, SYS_EXIT, SYS_GETPID | console, and the kernel's idle loop after SYS_EXIT |
| physical memory | `system/memory/physical.[ch]` | a bitmap of 8 KB sectors, its start, a count | `mem_phys_init`, `_alloc`, `_alloc_sectors`, `_free` | boot sequence, ext2 (`kpmalloc`), processes |
| boot sequence | `kernel.c`, `arch/x86/multiboot.asm` | boot stack, interrupt flag | `kernel_entry` | all |
| descriptor tables | `boot/gdt`, `arch/x86/gdt_load.asm` | six entries, a checksum | `gdt_setup`, `gdt_set_entry`, `gdt_verify_integrity` | the processor sets bits in them |
| interrupt table, TSS | `boot/idt`, `idt_asm.asm` | gates, `esp0` | `idt_setup`, `tss_setup`, `tss_set_kernel_stack` | GDT entry 5 |
| user mode, processes | `system/usermode` | process table | `proc_create`, `um_setup_env`, `um_switch` | physical memory, TSS, ext2 |
| ext2 reader | `system/filesystem/ext2` | superblock, group descriptors | mount, read inode, file, directory | physical memory, boot |
| multiboot information | `boot/multiboot.[ch]` | none | `mb2_get_memory` | boot sequence |
| virtual memory | `system/memory/virtual.[ch]` | commented out | | |

There is one processor. What makes the code hard is the interrupt flag: system
calls enter through a *trap* gate (`idt.c:84`), which leaves it set, and
`kernel.c:125` sets it long before boot ends. The keyboard interrupt therefore
runs between any two instructions of `stream_write`, `stream_read` and
`sh_render`, and calls the same functions on the same `shell_instance_t`;
nothing locks. The Makefile passes no `-O`, so every access to a shared field is
a load or a store of its own in the object code. The other difficulties are
orders: of the boot calls with interrupts in between, of descriptor changes and
the checksum over them, of frames that change privilege on the way out; and
units: bytes, bits, sectors and addresses in the memory manager.

What makes each part correct: a stream is a bounded first-in first-out queue;
the console shows what it accepted, once and in order, stays on the screen, puts
its colour back, is a page of lines, and prints what a format says until a newline
blocks the stream; interrupts are
enabled only when everything they need is there, are acknowledged once and nest to
a bounded depth; a key is served; no sector is given out twice, nor one that is the
kernel's, nor one that is no memory; stacks lie in memory that was given for them;
a name leads to its inode and an inode to its bytes, and a read stays in its buffer. Every hazard with its line is listed in `PROJECT.json`.

## 2. Modules

| Module | Models |
|---|---|
| `ByteQueue` | abstract: what a stream promises, a bounded queue with bulk calls |
| `Stream` | `stream.c`, calls one at a time, an iteration per step, any `int` as `len`; implements `ByteQueue` |
| `StreamProofs` | theorems about `Stream`, the refinement among them |
| `Console` | `sh_write_stream`, `sh_render`, streams, keyboard interrupt, the system calls that use them, a load or store per step |
| `ConsoleHistory` | `Console` with a record of what was accepted and handled; each of its streams implements `ByteQueue` when keys are hit between calls |
| `ConsoleProofs` | theorems about `Console` under every interleaving |
| `ConsoleHistoryProofs` | theorems about `ConsoleHistory`: what holds with keys between calls, the refinement among them |
| `Terminal` | abstract: a page of lines that moves up by a line |
| `Screen` | the cells: `sh_clear`, the drawing of a character, `sh_scroll` a cell per step; implements `Terminal` |
| `Printf` | `sh_printf`, `sh_puts`, `sh_putint`, writes of texts to stdout and stderr, through the streams, on `Screen` |
| `Formats` | the text that a format and its arguments say, computed place by place and digit by digit |
| `ScreenProofs` | theorems about `Screen` and `Printf`, the refinement among them |
| `PhysMem` | the sector bitmap |
| `PhysMemProofs` | theorems about `PhysMem` and `Memory` |
| `Memory` | `mb2_get_memory` over the boot loader's tags, and `kernel_entry`'s use of the sum; extends `PhysMem` |
| `Ext2File` | `ext2_read_file` with the image and the buffer in one memory |
| `Ext2Proofs` | theorems about `Ext2File` |
| `Loader` | `ext2_mount`, `ext2_read_inode`, `ext2_read_dir` with both callbacks, `um_setup_env`; extends `Ext2File` |
| `LoaderProofs` | theorems about `Loader` |
| `Descriptors` | `gdt_set_entry`, `idt_set_entry` and what the processor reads from their results |
| `Kernel` | boot sequence, descriptor tables, interrupts, controller, stacks, processes; composes `PhysMem` (INSTANCE) and `Descriptors` |
| `KernelProofs` | theorems about `Descriptors` and `Kernel` |
| `MC*` | instances for TLC |

**Stream.** `CallWrite`/`CallRead` are the entries (with the clipping of `len`),
`WriteByte`/`ReadByte` one iteration each, `WriteReturn`/`ReadReturn` the exits.
`ReadMore` keeps the code's newline test as it is: slot number `done`, not
`tail`. `Queue`, the abstract value, are the `count` bytes from `tail` on, and
`Pending` is what the call in progress will still store.

**Console.** Two contexts, `main` and `irq`; `frame[c]` is the private data of
the call a context executes, with the register that holds a loaded value. The
interrupt runs to its end before `main` goes on (interrupt gate). Every load and
store of `streams`, `cursor` and `color` by which the contexts can disturb each
other is a step; those that commute, or touch private data, are merged. The
cells are left out, so that `Paint` only says *where* is stored and in which
colour. A slot never written holds `NUL`: the shell lives on the boot stack, in
zeroed memory. `Preemptible = FALSE` restricts keys to the time between calls.
The program is any sequence of calls; `kernel.c`'s printing is `Puts`.
In `ConsoleHistory` each stream `s` is a `ByteQueue` (`BQ(s)`): `Line` is its queue,
counting a byte from its store and until it is taken, not from when `count` says so;
`Unwritten` is what the call in progress has still to store in `s`, `Received` what it
has taken out of it. What may be offered are buffers cut to the length asked for,
and single bytes (`Offered`).

**Screen, Printf.** The other half of the console: the cells, without the
interrupt. `Draw` is the body of `sh_render`'s loops; `job` and `at` are the
place in the loop of `sh_clear` or `sh_scroll`. `Page` is the page that will be
shown when that loop is done, so that the copy of a cell is a stutter of
`Terminal` and a drawn character one of its steps. `Printf` has one action per
conversion of `sh_printf` and one per loop of `sh_putint`. Every `sh_putc`, and every
text that is written at once (`Write`), goes through a stream. Without interrupts a
stream is empty when a call begins, or it holds a newline in slot 0, and then
`stream_read` delivers nothing from it any more (`NewlineInSlotZeroIsForever`). So a
stream is the `slot` where its next byte is stored, and whether it is in `blocked`:
`Store` moves the slot on, and `Blocks` says whether this puts a newline in slot 0. The
bytes of a blocked stream are never shown, so it does not matter which of them it
keeps. `Keeps` is the clip of a text to the stream's size. `sent` is what a call has written,
`out` what of it was drawn. Characters are strings of length 1, numbers have `WORD` values. What a
format says is `Text` in `Formats`: recursive functions over the places of the format and
over the numbers, without `buffer` and without the order in which the code makes digits.

**PhysMem, Memory.** A byte of the map is the set of its bits that are set. `owned`
(what callers hold) and `given`/`result` (what the last call returned) are what the
properties need. The subtraction at `kernel.c:135` wraps modulo `WORD`. If the
boot loader reports more memory than the map covers (512 MB), the search reads
past the map: `stray`, an arbitrary choice. Properties are stated for `Covered`
states, those in which the map covers the memory. In `Memory` the boot loader's
information is a sequence of tags at the addresses they have; `tag` and
`entry_ptr` are the code's pointers, and `MemInit` gets the sum they lead to.

**Ext2File, Loader.** `mem` is all of memory: the image is linked into the kernel,
and a buffer may lie in it (`usermode.c:32` loads the program to 4 MB, which the
20 MB image covers). `Call` is the entry of `ext2_read_file` with its limit of
`buf_len`, `FillHole` and `CopyBlock` an iteration, `Copied` the byte order of
`kpmemcpy`. `Loader` adds the metadata as records at the addresses that
genext2fs gives them: `InodeAddr` computes as `ext2_read_inode` does, `InodeAt`
says what the image has there. `List` and `Pass`/`Found` are `ext2_read_dir`
with `print_dir_cb` and `find_file_callback`. A division by a number that the
image has as 0 is `DivideError`. After the mount the memory manager or the process
table may have refused (`MountFails`, `NoProcess`), and another caller may read
any file (`OtherCaller`).

**Kernel.** `pc` is the next boot step, or the handler, or `user`, `idle`,
`halt`. `Enter` and `Iret` are the processor's side: the stack from the TSS when
the privilege changes, the flag cleared by an interrupt gate, a stack pointer
popped only on a return to ring 3. `gdt` holds the entries as `GdtEntry` encodes
them, with the bits the processor sets; `idt` the gates as `IdtEntry` encodes them.
Whether an `int n` is allowed, whether the flag is cleared and where a
gate leads are decoded from those. The checksum is the table it was computed of.
`ext2_mount` makes the first allocation (`kpmalloc`), `proc_create` the second.
Requests (`Raise`) arrive at any time; `pic_init` drops those from before it (ICW1), so that
`KeyServed` is about keys hit after it, and a key that is served is one whose handler has begun.

## 3. Runs

| Run | Shows |
|---|---|
| `stream` | a stream, used one call at a time, is a FIFO queue; the newline test stays in `data`; a newline in slot 0 stops reading for good; every call returns |
| `stream_newline` | *violated*: a read stops in front of a byte that is no newline |
| `console` | with keys between any two instructions: pointers keep their ranges, no store outside the screen, no read past a caller's buffer, nothing showable left behind, colour put back, every call and interrupt returns |
| `console_quiet` | with keys between calls: each stream is a bounded FIFO queue under all its callers, every accepted byte is shown or delivered once and in order, the cursor stays on the screen, stderr is red |
| `console_count` | *violated* as soon as a key preempts a call: a lost update of `count` |
| `printing` | the screen is a page of lines; `sh_printf` prints what its format says and `sh_write_stream` the text it kept, unless a newline in slot 0 blocks the stream: then what comes before that newline, or nothing, and nothing of later calls |
| `physmem` | the memory map's sum is right; map and callers agree, nothing given twice, lowest sector and run, no refusal without need; runs of sectors are memory |
| `physmem_kernel` | *violated*: the first sector given out is the kernel's |
| `kernel` | what is ready when interrupts are enabled, what ring 3 can use, no halt without an exception, nesting, acknowledgement, a key is served |
| `kernel_exit_stack` | *violated*: SYS_EXIT does not change the stack |
| `kernel_stack` | *violated*: the process's kernel stack grows out of its sector |
| `ext2` | inodes, directory entries and file contents are found where the image has them, reports are true, reads stay in their buffer, the load ends |

More differences between code and comments are in the models without a run of
their own: SYS_WRITE returns the length asked for (`syscalls.c:50`); text of stderr
turns grey when a key preempts a render (`StderrIsRed` is checked without
preemption); `gdt_verify_integrity` would fail after `idt_setup`, were it called
again, because the checksum is older than entry 5 (`BootDoesNotHalt` says that the
code, which does not call it again, does not halt); a breakpoint in the program is
a protection fault and halts, although `interrupts.c:112` excepts breakpoints
(`RingThree`: only the gate for system calls is open); `%u` prints a number from
2^31 on as a negative one (`Said` in `Formats` reads it as `Signed` does, like the code).

**Bounds.** Streams have 3 slots: full, empty, wrapped, and newline in or out of
slot 0 all occur with requests of up to 4 bytes, more than fit. `stream` has no
bound on the number of calls. `console` allows 2 calls and 1 key: a
race needs one call and one key, the second call meets what they left; buffers of
4 bytes and single characters meet full and empty streams.
`console_quiet` has 3 calls and a key, programs that write to stdout and stderr
every buffer over three kinds of bytes, and a
2x2 screen, so that wrapping and scrolling occur in one call. `printing` has 3
lines of 4 cells, so that a line other than the first and the last is copied, 8-bit numbers
with up to 3 decimal digits (a `buffer` of 4, exactly enough, as the code's is for
32 bits), at and next to every power of the bases and at both ends of the range,
two calls after each other, and every conversion. Its streams have 4 slots: a newline
comes to slot 0 in the first call, in the second or in none, at the first character, in the
middle and at the end, in a format, a `%c` or a text, on either stream or on both, and texts
are longer and shorter than the stream. `physmem` has a
map of 16 sectors (2 bytes, runs cross them), requests of 0, 1, 2, 7 and 9, five
calls, and nine boot loaders: no magic number, no map, a map behind tags of sizes
not divisible by 8, entries of 24, 28 and 40 bytes, two maps, reserved regions
among the entries, no memory above 1 MB, holes, as much memory as the map covers and
more. `ext2` has blocks of 4 bytes, 3 direct blocks and 2 groups; images with every
pair of directory blocks out of 24 (deleted, duplicate and blank entries, a hole),
192 programs (empty, partial and full blocks, holes, one longer than its direct
blocks, blocks that the load overwrites), a last group that is not full, and images
without a magic number or with zeros to divide by; on one of
them other callers read any of these files with any offset and length from lists
that have 0, block ends, the end of the file and sums that wrap. `kernel` has no
bound on interrupts; memory is bounded by what boot allocates
(`PROC_MAX_COUNT + 1` calls).

**Fairness.** `Stream` and `Console`: weak fairness of the steps of calls, the
processor executes instructions; nobody has to call or hit a key. `Loader`: weak
fairness of its steps, which are all the kernel's own. `Kernel`: weak
fairness of boot, interrupt returns and exception handling, and strong fairness of
taking the keyboard's interrupt, because the flag is on and off as handlers come
and go while a latched request waits, and the processor takes it before an
instruction that it executes with the flag set. Nothing is assumed of the user
program. `printing`, `physmem` and `console_quiet` state no liveness.

**Deadlock** is not checked where the system stops: `Console`, `Printf` and `Memory`
when the bounds on calls are used up, `Loader` when the program is loaded or cannot
be, `Kernel` when it has halted on an exception with both requests latched. `stream`
checks it.

## 4. Proofs

*Assumptions.* One per module, evaluated by TLC in the runs of the module:

| Assumption | Says |
|---|---|
| `StreamAssumption` | a positive size; callers' buffers are sequences of bytes, closed under prefixes |
| `ConsoleAssumption` | positive sizes, a word that holds the screen and one more line; what programs and `kernel.c` print are sequences of bytes, the kernel's message not an empty one |
| `ScreenAssumption` | a positive width and height, carriage return and newline differ; what lies in video memory before boot is any page |
| `PrintfAssumption` | a word has two values at least, the buffer has a cell for every digit of a number and one more, formats are called with arguments that fit them (`Callable`), what the kernel prints by itself are characters, a null pointer is no string, streams have a slot; the two facts about powers of ten are true of all numbers, and there because the provers do not know `^` |
| `PhysMemAssumption` | a positive multiple of 8 sectors, a word that can address them, natural memory sizes |
| `MemoryAssumption` | what Multiboot2 says of the tags: the last one, and only that, is of type END, a memory map is as long as its header and its entries, and entries have a length |
| `Ext2FileAssumption` | positive sizes; the blocks of the inodes that callers pass lie in memory, and so do their buffers; a file of direct blocks does not wrap |
| `LoaderAssumption` | blocks of at least 1 KB (`MIN_BLOCK`), a multiple of its units and of an inode's size; the program's address is a buffer; images have the layout that genext2fs gives them: inode tables that hold the inodes and are apart (`TablesHold`), directory blocks filled by their entries (`Tiled`). The magic number may be missing, the counts by which the code divides may be 0 |
| `KernelAssumption` | addresses of stubs and TSS are 32-bit and stubs not at 0, the boot stack is not at 0, exceptions are numbers below 32, the group descriptors take less memory than the map covers |

They say no more than the code's constants, its types and well-formed images do.

*Stream.* `TypeOK` is not inductive: an iteration of `stream_write` tests `done <
len`, not `count`. The invariant `IInv` adds `CountIsBytes`, that what is left of
a write fits in the room there is (`WriteFits`), that what a read has taken and
what is left in the stream fit in the buffer (`ReadFits`), that queued slots hold
written bytes (`UnreadWritten`), that a newline in slot 0 is an unread byte
(`SlotZeroUnread`) and that only reads have taken anything (`OnlyReadsDeliver`).
From it follow types, `CountIsBytes`, `NewlineTestInBounds` (what is read
and what is left never exceed the size, so an unbounded request does not matter),
`OnlyWrittenBytes` and `NewlineInSlotZeroIsForever`. `StreamIsQueue` maps an
iteration of `stream_write` to `Put`, of `stream_read` to `Take`, entries and
returns to `Offer`, `Deliver` or a stutter; the arithmetic of
`(tail + i) % STREAM_BUF_SIZE` is in `SlotAfter` and its neighbours.

*Console, keys at any instruction.* Four theorems, three invariants, each built on the one before.

- `StoresOnScreen`: the code tests the cursor, loads it again and stores, and the
  interrupt may move it in between. The store is safe because the interrupt, if it
  begins with the cursor on the screen, takes it back there before it returns. That
  is not so if it begins at another place, so the invariant `PInv` says it for one
  place only: while the main line is between test and load (`cell`), `OnTheWay` bounds
  cursor and register at each point of the interrupt, up to a line beyond the screen
  before it scrolls. Elsewhere the cursor is only known to be in its type.
- `TextIsNotLeftRed`: `CInv` says that a context that shows stderr has grey saved,
  that the colour is grey while neither the interrupt nor the main line shows
  stderr, and that an interrupt that has begun has made it grey; also that
  SYS_READ never gets into `sh_render`.
- `ConsoleTyped`, `ClipsDown`, `NothingIsLeft`: `SInv` has the frames' types by place
  (`Types`, `Asked`, `Taken`, `Held`) and three facts about the two contexts. `Clipping`:
  while a write goes from its test of the room to its second reading of it, the stream
  does not get emptier. For that, the interrupt must not take a byte from a stream
  that the main line writes to, although its `sh_render` may take some from all: `Rest`
  says that stdout and stderr cannot be shown (`Blocked`: empty, or a newline in slot 0)
  unless the main line has written to them and not rendered them yet (`Busy`), and that the
  interrupt takes bytes from a busy stream only (`Taking`). It also is what `NothingIsLeft`
  needs: with no call and no handler executing, no stream is busy. `Key`: the
  interrupt writes to stdin only, and nobody changes that stream under it.

`count` may be anything there: the two contexts lose each other's updates.

*Console, keys between calls* (`~ Preemptible`, the hypothesis of the theorems in
`ConsoleHistoryProofs`; the run `console_count` shows that `CountIsBytes` fails without it).
Only one context has begun a call at a time (`Alone`, `Active`). `head`, `tail` and
`count` lag behind the bytes, so the invariant speaks of the values that they are going to have
(`HeadOf`, `TailOf`, `CountOf`): these are changed by two steps only, the store of a byte
and the taking of one, and all other steps leave the queue `Line` as it is. `HInv` is
`accepted = handled \o Owed \o Line` for each stream, where `Owed` are the bytes taken
and not yet painted or delivered, with the invariants above, with what a call has in
its registers (`Registers`), what still fits (`Fitting`), where the
cursor is at each place of `sh_putc` (`OnCourse`) and that stderr is being shown in
red (`InRed`). From it follow `BytesAreConserved`, `CountIsKept`, `CursorComesBack` and
`StderrStaysRed`.

`ConsoleImplementsQueues` says what `ImplementsQueue` says of `Stream`, of the three streams
under their real callers and a load or store at a time. The store of a byte is `Put`,
the reading of one `Take`, the clip at the entry of `stream_write` `Offer`, the end of
`stream_read` `Deliver`; every other step of the context that executes, and every step for
the other two streams, is a stutter (`Moves`, `StepMoves`, `MovesAreSteps`). `RInv` adds to the
invariant above what only this mapping needs: what a write has been asked to store is
one of the buffers that may be offered (`Offering`), whichever of `sh_putc`, `sh_puts`, a
system call or a key has asked. A write that keeps nothing is a stutter: the refinement
bounds what is kept by the room there is and orders it, it does not say that room is used.

*Screen.* Types, and `ScreenIsTerminal`: `Page`, the page when the loop of `sh_clear` or
`sh_scroll` is done, is what `Terminal` has. The copy of a cell is a stutter because what is still
to be copied is read from cells that this loop has not reached: row and column of
a cell, one line apart, are determined by its place (`DivMod`, `Unique`).

*Printf.* `PrintfInv` says where `sh_printf` is: what is left of the format begins at a
piece (a conversion, `%%`, or a character), and what is left of the arguments at the one
that `Plans` gives this piece (`Parsed`), so that each conversion finds an argument of its
type (`PrintfTyped`). Then every step draws one character, or works on the cells, or leaves
them alone (a character that stays in a blocked stream does), so that `ScreenStepInv` gives
`PrintfIsTerminal` from the lemmas about `Screen`: the screen is a page of lines whichever
characters come through.
`PrintfSaysFormat` is about `sent`, what the call has written to its stream. It compares the steps with a condition on the text, `Says`: it is put
together of parts that are what the pieces print, and a numeral is one when its first
digits stand for a chain of numbers (`Denotes`). It needs what is written so far (`Progress`): between pieces, what the
format says up to here (`UpTo`); within one, that and what is still owed (`Owed`), which for
a number goes through the stages of `sh_putint`: sign or prefix printed (`Led`), digits
stored (`Counted`), digits printed. `Digitized` is the loop that divides: the quotients,
read backwards, are the numbers that the first digits of the numeral stand for
(`AllDigits`). That the loop ends because nothing is left, never because the buffer is full,
is the bound `uvalue < 10^(BUFFER - 1 - Len(buffer))`. The negative number of the largest
magnitude is in it: `(-value) % WORD` is its magnitude (`Bits`). `PrintfPrintsText`, the
theorem about `PrintsWhatItSays`, adds two things. One is what of `sent` is drawn
(`Delivery`): nothing if the stream was blocked when the call began, what comes before a newline or nothing (`CutShort`) if it
was blocked in between, and otherwise all, but for what a text written at once has
still to draw. The other is that `Says` allows one text only, `Text`
(`SaysText`): a numeral's last digit is the remainder and the rest of it a numeral
of the quotient (`LastDigit`, `DenotesInBase`), and the text from a place on is the piece
there and the text from the next piece on. These are inductions in the form of a least
counterexample (`LeastNumber`, from the well-foundedness of `<`), and so is that the
recursive functions `InBase` and `Text` exist (`InBaseIs`, `TextIs`).

*PhysMem, Memory.* The invariant is `TypeOK`, `BooksBalance`, and that before
`mem_phys_init` nothing is held. The lemmas `SectorBit`, `BitSector`, `SectorOfAddr` say
that byte and bit, sector number and address mean the same sector. From these
follow `NoDoubleAllocation` and, with the searches' guards, `LowestSector` and
`LowestRun`, each of which is an equivalence: a call refuses exactly when it must. The
invariant holds of any natural number handed to `mem_phys_init`. For `Memory`, `WalkInv`
says where the walk is: at the address of a tag with no memory map before it (`AtTag`; two tags
are never at one address, `AddrOfIncreases`), and in a memory map a whole number of
entries behind its header, with the sum of the entries passed (`AtEntry`). So an entry that
begins before the map's end is one of the map's (`MemoryMapIsWalked`), and at the end all are
added up (`MemoryIsTheSum`). `MemoryIsGiven` is a count: disjoint regions that end at an
address or before are no longer, together, than the address (`DisjointRegions`, by the
cardinality of the set of bytes they have), so that the sectors that fit behind 1 MB in
the sum fit in the stretch that begins there. The addresses of tags (`AddrOf`) and the sum
(`Sum`) are recursive functions. That there are such functions is `RunningSum`, again
a least counterexample.

*Ext2File.* The invariant `FInv` of the loop: before the first block nothing is read;
after block `b - 1` everything up to its end or to the end of the request is
(`Progress`), and that part of the buffer holds the file (`Filled`), provided the
sums do not wrap and, for the contents, the buffer does not overlap the file's
blocks (`Apart`). Types hold without these conditions (`ReadFileTypes`): in particular the
unsigned `i_size_lo - offset` is not negative, and no copy leaves memory.
`StaysInBuffer` needs only the first. These are theorems of `FSpec`, any
sequence of calls of `ext2_read_file`.

*Loader.* `LoaderReadsTheFile` and `LoaderStaysInBuffer`: every step of `Loader` is one of
`FSpec` or leaves its variables alone, because the inodes that it passes are among
`Inodes` and `USER_CODE_BASE` is a buffer. `LInv` adds to `FInv` the types (the walk never leaves the
blocks of the directory), what the mount has read (`MountInv`), how far the directory is
walked (`WalkInv`: the entries listed are the visible ones before the current place, in
order, and the searched name is not among those passed) and what is being loaded
(`LoadInv`). `LoaderFindsInodes` is the arithmetic of groups, table blocks and inodes per
block: `ext2_read_inode`'s address is the one at which the image has the inode
(`AddrIsHome`), and no two inodes are at the same address (`HomesAreApart`). `DirectoryIsWalked`
is for directories without holes, as the property is: the walk ends at the first one.
`ReportsAreTrue` joins this with `FileIsRead`: a report that no program was found is true of
directories without holes, and a whole load holds the file if moreover the sums do not wrap
(`NoWrap`) and the load does not reach the file's blocks (`Apart`).

*Kernel.* First the encodings: an entry keeps its base and limit, a gate its
handler, for all 32-bit addresses. The invariant `KInv` has three parts: which of
four tables the GDT is at each step of boot (the processor's bits included), what
boot has loaded by then, and the frames: at most two, the upper one of an
interrupt, entered from a system call or not from a handler at all, each with the context
it interrupted. From it follow nesting, acknowledgement, what ring 3 can use, that
boot does not halt, and `GatesReady`. `MInv` adds types (`KernelTyped`) and what
`InterruptsReady` needs of memory: `proc_create` does not test the stack that it is given,
and `esp0` is not 0 only because the mount, the one allocation before it, leaves a
sector of the map free.

*Only model-checked:* liveness, `CallReturns`, `CallsReturn`, `KeyServed` and `LoadEnds`.
Fairness is outside the prover. Every safety property of the passing runs is a theorem.

## 5. Not modelled

- The keymap: only whether a key gives a character. `irq_enable`, `irq_disable`,
  `keyboard_test`, `proc_mgr_init` and `proc_current` have no caller.
- The cells together with the interrupt: `sh_scroll` interrupted in the middle.
  `Console` has every interleaving without the cells, `Screen` the cells without
  interleavings; both together are out of TLC's reach.
- `sh_printf` and the streams together with the interrupt. `Printf` is uninterrupted, which is why a stream
  that is not blocked is empty between its calls; what interrupts do to streams is in `Console`.
- Formats that end in `%`: `sh_printf` would go on behind the end of the string; no
  caller has one.
- Spurious and non-maskable interrupts, exceptions raised in ring 0 (but for the
  divisions in `Loader`, where the model ends), the fields of the TSS that only a
  task switch reads.
- More than one process: `um_setup_env` is called once.
- `virtual.c` is commented out. The build has no state; the layout that genext2fs
  gives the image is taken from how the code uses it.

## 6. Plan

The plan is carried out: every part that changes state and that the code uses is
modelled, and every safety property of a passing run is a theorem. What is open is listed in
section 5 and under *Only model-checked* in section 4.
