------------------------------ MODULE Console -------------------------------
(***************************************************************************)
(* The shared console of system/shell, as its two users run it: the main   *)
(* line (the kernel's own printing and the system calls of the user        *)
(* program) and the keyboard interrupt, which the processor takes between  *)
(* any two instructions, because interrupts stay enabled in both.  A step  *)
(* touches the shared shell_instance_t once, with a load or a store, as in *)
(* the code gcc emits for `-m32' without -O; steps that only differ in     *)
(* private data, or that commute with the other context, are merged.  What *)
(* the cells of the screen hold is left out.                               *)
(***************************************************************************)
EXTENDS Integers, Sequences

CONSTANTS
  Byte, NL, CR,           (* the bytes written; '\n' and '\r'              *)
  NUL,                    (* the byte in a slot that was never written     *)
  STREAM_BUF_SIZE,
  RENDER_BUF,             (* sizeof(buf) in sh_render                      *)
  WIDTH, HEIGHT,
  WORD,                   (* cursor is a size_t: arithmetic is modulo WORD *)
  Fds,                    (* the stream numbers programs pass              *)
  Buffers, Lens,          (* the buffers and lengths programs pass         *)
  Message,                (* a text the kernel prints                      *)
  Keys,                   (* the characters keys give                      *)
  Preemptible,            (* FALSE: keys are hit only between calls        *)
  MaxCalls, MaxKeys       (* bounds on what is modelled                    *)

STDIN == 0
STDOUT == 1
STDERR == 2
Streams == {STDIN, STDOUT, STDERR}
Slots == 0..STREAM_BUF_SIZE-1
SIZE == WIDTH * HEIGHT
GREY == 7
RED == 4

ASSUME ConsoleAssumption ==
  /\ {STREAM_BUF_SIZE, RENDER_BUF, WIDTH, HEIGHT} \subseteq Nat \ {0}
  /\ WORD \in Nat /\ WORD > SIZE + WIDTH
  /\ {NL, CR} \subseteq Byte /\ NUL \notin Byte
  /\ Fds \subseteq Int /\ Lens \subseteq Int
  /\ Buffers \subseteq Seq(Byte) /\ Keys \subseteq Byte
  /\ Message \in Seq(Byte) /\ Message # <<>>
  /\ Preemptible \in BOOLEAN /\ MaxCalls \in Nat /\ MaxKeys \in Nat

VARIABLES
  streams, cursor, color,   (* the fields of the shell_instance_t          *)
  frame,                    (* per context: the call it is executing       *)
  eax,                      (* what the last system call returned          *)
  calls, keys               (* calls and key presses so far                *)

shell == <<streams, cursor, color>>
count == <<calls, keys>>
vars  == <<streams, cursor, color, frame, eax, calls, keys>>

(* The private data of a call: buf, len and written (done) of stream_write *)
(* or len, read (done) and buf (out) of stream_read, the register that     *)
(* holds the last value loaded, saved_color, the text still to print, and  *)
(* what the caller asked for.                                              *)
Idle == [op |-> "none", pc |-> "idle", s |-> STDIN, buf |-> <<>>, len |-> 0,
         done |-> 0, out |-> <<>>, reg |-> 0, saved |-> GREY, todo |-> <<>>,
         asked |-> 0]

Init ==
  /\ streams = [s \in Streams |->
                 [data |-> [i \in Slots |-> NUL], head |-> 0, tail |-> 0, count |-> 0]]
  /\ cursor = 0 /\ color = GREY
  /\ frame = [c \in {"main", "irq"} |-> Idle]
  /\ eax = 0 /\ calls = 0 /\ keys = 0

(* An interrupt handler runs to its end before the main line goes on: it   *)
(* came through an interrupt gate.                                         *)
Running(c) == frame["irq"].pc # "idle" => c = "irq"
At(c, pc)  == Running(c) /\ frame[c].pc = pc
F(c) == frame[c]
S(c) == streams[frame[c].s]

Goto(c, f) == frame' = [frame EXCEPT ![c] = f]
Local == UNCHANGED <<shell, eax, count>>

Load(c, from, to, value) ==
  At(c, from) /\ Goto(c, [F(c) EXCEPT !.pc = to, !.reg = value]) /\ Local

SetStream(c, field, value) ==
  /\ streams' = [streams EXCEPT ![F(c).s][field] = value]
  /\ UNCHANGED <<cursor, color, eax, count>>

SetCursor(value) ==
  cursor' = value /\ UNCHANGED <<streams, color, eax, count>>

SetColor(value) ==
  color' = value /\ UNCHANGED <<streams, cursor, eax, count>>
-----------------------------------------------------------------------------
(* The calls of the main line, and the key press that interrupts it.       *)

Call(f) ==
  /\ \A c \in {"main", "irq"} : frame[c].pc = "idle"
  /\ calls < MaxCalls /\ calls' = calls + 1
  /\ Goto("main", f)
  /\ UNCHANGED <<shell, eax, keys>>

Putc(c, text) == [c EXCEPT !.pc = "index", !.s = STDOUT, !.buf = <<Head(text)>>,
                           !.len = 1, !.asked = 1, !.done = 0, !.todo = Tail(text)]

\* sh_puts: every character is an sh_write_stream of its own.
Puts(text) == Call(Putc([Idle EXCEPT !.op = "print"], text))

SysWrite(fd, b, n) ==
  /\ n <= Len(b)
  /\ Call([Idle EXCEPT !.op = "sys_write", !.pc = "index", !.s = fd, !.buf = b,
                       !.len = n, !.asked = n])

SysRead(n) ==
  Call([Idle EXCEPT !.op = "sys_read", !.pc = "read", !.s = STDIN, !.len = n, !.asked = n])

\* Either call with a buffer that is not in user memory, or an unknown number.
SysBadPointer == Call(Putc([Idle EXCEPT !.op = "sys_bad"], Message))

\* Either call with a null buffer, and SYS_GETPID: no output.
SysAtOnce(value) ==
  /\ \A c \in {"main", "irq"} : frame[c].pc = "idle"
  /\ calls < MaxCalls /\ calls' = calls + 1
  /\ eax' = value
  /\ UNCHANGED <<shell, frame, keys>>

\* irq_handler; a key that gives no character leaves the console alone.
KeyPress(k) ==
  /\ frame["irq"].pc = "idle"
  /\ Preemptible \/ frame["main"].pc = "idle"
  /\ keys < MaxKeys /\ keys' = keys + 1
  /\ Goto("irq", [Idle EXCEPT !.op = "key", !.pc = "index", !.s = STDIN,
                              !.buf = <<k>>, !.len = 1, !.asked = 1])
  /\ UNCHANGED <<shell, eax, calls>>

\* A call returns; a text that is being printed goes on with its next byte.
\* handle_syscall reports arg2 for a write, whatever sh_write_stream returned.
Finish(c) ==
  IF F(c).todo # <<>>
    THEN Goto(c, Putc(F(c), F(c).todo)) /\ UNCHANGED eax
    ELSE /\ Goto(c, Idle)
         /\ eax' = CASE F(c).op = "sys_write" -> F(c).asked
                     [] F(c).op = "sys_read"  -> F(c).done
                     [] F(c).op = "sys_bad"   -> -1
                     [] OTHER                 -> eax
-----------------------------------------------------------------------------
(* sh_write_stream and stream_write.                                       *)

CheckStream(c) ==
  /\ At(c, "index")
  /\ UNCHANGED <<streams, cursor, count>>
  /\ IF F(c).s \in Streams
       THEN /\ color' = GREY
            /\ Goto(c, [F(c) EXCEPT !.pc = "clip"]) /\ UNCHANGED eax
       ELSE /\ Goto(c, [F(c) EXCEPT !.pc = "badstream"])
            /\ UNCHANGED <<color, eax>>

BadStream(c) == At(c, "badstream") /\ Finish(c) /\ UNCHANGED <<shell, count>>

Room(c) == STREAM_BUF_SIZE - S(c).count

\* Mutant of TestRoom: one byte too many fits.
TestRoomOffByOne(c) ==
  /\ At(c, "clip")
  /\ Goto(c, [F(c) EXCEPT !.pc = IF F(c).len > Room(c) + 1 THEN "clip2" ELSE "write"])
  /\ Local

\* count is loaded for the test and again for the new len.
TestRoom(c) ==
  /\ At(c, "clip")
  /\ Goto(c, [F(c) EXCEPT !.pc = IF F(c).len > Room(c) THEN "clip2" ELSE "write"])
  /\ Local

Clip(c) ==
  /\ At(c, "clip2")
  /\ Goto(c, [F(c) EXCEPT !.len = Room(c), !.pc = "write"])
  /\ Local

LoadHead(c) == F(c).done < F(c).len /\ Load(c, "write", "store", S(c).head)

StoreByte(c) ==
  /\ At(c, "store")
  /\ LET byte == F(c).buf[F(c).done + 1] IN
       SetStream(c, "data", [S(c).data EXCEPT ![F(c).reg] = byte])
  /\ Goto(c, [F(c) EXCEPT !.pc = "head"])

LoadHeadAgain(c) == Load(c, "head", "head2", S(c).head)

NextSlotNoWrap(i) == i + 1
NextSlot(i) == (i + 1) % STREAM_BUF_SIZE

StoreHead(c) ==
  /\ At(c, "head2")
  /\ SetStream(c, "head", NextSlot(F(c).reg))
  /\ Goto(c, [F(c) EXCEPT !.pc = "count"])

LoadCount(c) == Load(c, "count", "count2", S(c).count)

StoreCount(c) ==
  /\ At(c, "count2")
  /\ SetStream(c, "count", F(c).reg + 1)
  /\ Goto(c, [F(c) EXCEPT !.done = @ + 1, !.pc = "write"])

\* stream_write returns, sh_render is entered and calls stream_read.
StartRead(f, s) ==
  [f EXCEPT !.pc = "read", !.s = s, !.len = RENDER_BUF, !.done = 0, !.out = <<>>]

\* Mutant of WriteReturn: a short write returns at once, without sh_render.
WriteReturnShort(c) ==
  /\ At(c, "write") /\ F(c).done >= F(c).len
  /\ IF F(c).done < F(c).asked
       THEN Finish(c) /\ UNCHANGED <<shell, count>>
       ELSE Goto(c, [StartRead(F(c), STDOUT) EXCEPT !.buf = <<>>]) /\ Local

WriteReturn(c) ==
  /\ At(c, "write") /\ F(c).done >= F(c).len
  /\ Goto(c, [StartRead(F(c), STDOUT) EXCEPT !.buf = <<>>])
  /\ Local
-----------------------------------------------------------------------------
(* stream_read.                                                            *)

\* A program can ask for more than STREAM_BUF_SIZE bytes: the newline test
\* then looks past data, at whatever is there.
AtNewline(c) == IF F(c).done \in Slots THEN {S(c).data[F(c).done] = NL} ELSE BOOLEAN

ReadMoreOffByOne(c, stop) == F(c).done < F(c).len /\ S(c).count > 1 /\ ~stop
ReadMore(c, stop) == F(c).done < F(c).len /\ S(c).count > 0 /\ ~stop

TestRead(c) ==
  /\ At(c, "read")
  /\ \E stop \in AtNewline(c) : ReadMore(c, stop)
  /\ Goto(c, [F(c) EXCEPT !.pc = "take"])
  /\ Local

\* Mutant of TakeByte: the byte comes from slot number done.
TakeByteAtDone(c) ==
  /\ At(c, "take")
  /\ Goto(c, [F(c) EXCEPT !.out = Append(@, S(c).data[F(c).done]), !.pc = "tail"])
  /\ Local

TakeByte(c) ==
  /\ At(c, "take")
  /\ Goto(c, [F(c) EXCEPT !.out = Append(@, S(c).data[S(c).tail]), !.pc = "tail"])
  /\ Local

LoadTail(c) == Load(c, "tail", "tail2", S(c).tail)

StoreTail(c) ==
  /\ At(c, "tail2")
  /\ SetStream(c, "tail", NextSlot(F(c).reg))
  /\ Goto(c, [F(c) EXCEPT !.pc = "dec"])

LoadCountToRead(c) == Load(c, "dec", "dec2", S(c).count)

StoreCountRead(c) ==
  /\ At(c, "dec2")
  /\ SetStream(c, "count", F(c).reg - 1)
  /\ Goto(c, [F(c) EXCEPT !.done = @ + 1, !.pc = "read"])

ReadEnds(c) == At(c, "read") /\ \E stop \in AtNewline(c) : ~ReadMore(c, stop)

\* To the program: SYS_READ returns the number of bytes read.
Deliver(c) ==
  /\ ReadEnds(c) /\ F(c).op = "sys_read"
  /\ Finish(c)
  /\ UNCHANGED <<shell, count>>

\* To sh_render: bytes to show, or the end of this stream.
ReadReturn(c) ==
  /\ ReadEnds(c) /\ F(c).op # "sys_read"
  /\ Goto(c, [F(c) EXCEPT !.pc = IF F(c).done > 0   THEN "byte"
                            ELSE IF F(c).s = STDOUT THEN "save" ELSE "restore"])
  /\ Local
-----------------------------------------------------------------------------
(* sh_render: what it does with the bytes, and its change of colour.       *)

ByteIs(c, b) == At(c, "byte") /\ Head(F(c).out) = b

\* The loop over buf goes on; after its last byte stream_read is called.
NextByte(c) ==
  IF Len(F(c).out) > 1 THEN [F(c) EXCEPT !.out = Tail(@), !.pc = "byte"]
                       ELSE StartRead(F(c), F(c).s)

\* The left-hand side's cursor is loaded first, then the one under `%'.
CarriageReturn(c) == ByteIs(c, CR) /\ Load(c, "byte", "cr", cursor)
StartOfLine(c) ==
  Load(c, "cr", "cr2", (F(c).reg - (cursor % WIDTH)) % WORD)
StoreStartOfLine(c) ==
  At(c, "cr2") /\ SetCursor(F(c).reg) /\ Goto(c, NextByte(c))

LineFeed(c) == ByteIs(c, NL) /\ Load(c, "byte", "nl", cursor)
NextLine(c) ==
  Load(c, "nl", "moved", (F(c).reg + WIDTH - (cursor % WIDTH)) % WORD)

OnScreenOffByOne(c) == cursor <= SIZE
OnScreen(c) == cursor < SIZE
IsGlyph(c) == At(c, "byte") /\ Head(F(c).out) \notin {CR, NL}

\* Mutant of Ignore: the loop does not go on to the next byte.
IgnoreForever(c) == IsGlyph(c) /\ ~OnScreen(c) /\ UNCHANGED vars

Fits(c)   == IsGlyph(c) /\ OnScreen(c) /\ Goto(c, [F(c) EXCEPT !.pc = "cell"]) /\ Local
Ignore(c) == IsGlyph(c) /\ ~OnScreen(c) /\ Goto(c, NextByte(c)) /\ Local

LoadCell(c) == Load(c, "cell", "paint", cursor)

\* The character and the colour are stored in the cell that reg points to.
Paint(c) == At(c, "paint") /\ Goto(c, [F(c) EXCEPT !.pc = "inc"]) /\ Local

Advance(c) == Load(c, "inc", "moved", (cursor + 1) % WORD)

StoreCursor(c) ==
  At(c, "moved") /\ SetCursor(F(c).reg) /\ Goto(c, [F(c) EXCEPT !.pc = "wrap"])

AtEndOffByOne(c) == cursor > SIZE
AtEnd(c) == cursor >= SIZE

NoWrap(c) == At(c, "wrap") /\ ~AtEnd(c) /\ Goto(c, NextByte(c)) /\ Local
Wrap(c)   == At(c, "wrap") /\ AtEnd(c) /\ Goto(c, [F(c) EXCEPT !.pc = "scroll"]) /\ Local

\* sh_scroll, then the line that was scrolled away is taken off the cursor.
Scroll(c) == Load(c, "scroll", "scrolled", (cursor - WIDTH) % WORD)
StoreScrolled(c) ==
  At(c, "scrolled") /\ SetCursor(F(c).reg) /\ Goto(c, NextByte(c))

SaveColor(c) ==
  At(c, "save") /\ Goto(c, [F(c) EXCEPT !.saved = color, !.pc = "red"]) /\ Local

SetRedForgotten(c) ==
  At(c, "red") /\ Goto(c, StartRead(F(c), STDERR)) /\ Local

SetRed(c) ==
  At(c, "red") /\ SetColor(RED) /\ Goto(c, StartRead(F(c), STDERR))

RestoreColorForgotten(c) ==
  At(c, "restore") /\ Finish(c) /\ UNCHANGED <<shell, count>>

RestoreColor(c) ==
  /\ At(c, "restore") /\ Finish(c)
  /\ color' = F(c).saved
  /\ UNCHANGED <<streams, cursor, count>>
-----------------------------------------------------------------------------
Step(c) ==
  \/ CheckStream(c) \/ BadStream(c) \/ TestRoom(c) \/ Clip(c)
  \/ LoadHead(c) \/ StoreByte(c) \/ LoadHeadAgain(c) \/ StoreHead(c)
  \/ LoadCount(c) \/ StoreCount(c) \/ WriteReturn(c)
  \/ TestRead(c) \/ TakeByte(c) \/ LoadTail(c) \/ StoreTail(c)
  \/ LoadCountToRead(c) \/ StoreCountRead(c) \/ Deliver(c) \/ ReadReturn(c)
  \/ CarriageReturn(c) \/ StartOfLine(c) \/ StoreStartOfLine(c)
  \/ LineFeed(c) \/ NextLine(c) \/ Fits(c) \/ Ignore(c) \/ LoadCell(c) \/ Paint(c)
  \/ Advance(c) \/ StoreCursor(c) \/ NoWrap(c) \/ Wrap(c) \/ Scroll(c) \/ StoreScrolled(c)
  \/ SaveColor(c) \/ SetRed(c) \/ RestoreColor(c)

Next ==
  \/ Puts(Message) \/ SysBadPointer \/ SysAtOnce(-1) \/ SysAtOnce(1)
  \/ \E fd \in Fds, b \in Buffers, n \in Lens : SysWrite(fd, b, n)
  \/ \E n \in Lens : SysRead(n)
  \/ \E k \in Keys : KeyPress(k)
  \/ \E c \in {"main", "irq"} : Step(c)

Spec == Init /\ [][Next]_vars

\* The processor executes instructions; nobody has to call or hit a key.
FairSpec == Spec /\ WF_vars(\E c \in {"main", "irq"} : Step(c))
-----------------------------------------------------------------------------
Quiescent == \A c \in {"main", "irq"} : frame[c].pc = "idle"

(* The pointers stay inside data and the cursor inside its type, whatever  *)
(* the interrupt does between two instructions.                            *)
TypeOK ==
  /\ \A s \in Streams :
       /\ streams[s].data \in [Slots -> Byte \cup {NUL}]
       /\ streams[s].head \in Slots /\ streams[s].tail \in Slots
       /\ streams[s].count \in Int
  /\ cursor \in 0..WORD-1 /\ color \in {GREY, RED}
  /\ DOMAIN frame = {"main", "irq"}
  /\ \A c \in {"main", "irq"} : DOMAIN frame[c] = DOMAIN Idle
  /\ calls \in 0..MaxCalls /\ keys \in 0..MaxKeys

(* shell.c:74-75 tests the cursor and loads it again for the store.  The   *)
(* interrupt may move it in between, but never off the screen: no store    *)
(* goes outside the video memory.                                          *)
PaintInBounds ==
  \A c \in {"main", "irq"} : frame[c].pc = "paint" => frame[c].reg < SIZE

(* stream.c:6-7 loads count for the test and again to compute the room.    *)
(* The interrupt may read bytes in between, yet len never grows beyond     *)
(* what the caller passed, so nothing is read past the end of its buffer.  *)
Writing == {"write", "store", "head", "head2", "count", "count2"}
ClipNeverGrows ==
  \A c \in {"main", "irq"} : frame[c].pc \in Writing => frame[c].len <= frame[c].asked

(* When no call is executing, sh_render left nothing it could have shown:  *)
(* stdout and stderr are empty by their count, or blocked by a newline in  *)
(* slot 0, also when the interrupt rendered in the middle of a render.     *)
Drained ==
  Quiescent => \A s \in {STDOUT, STDERR} :
                 streams[s].count <= 0 \/ streams[s].data[0] = NL

(* shell.c:33,86-87,111 set, save and restore the colour in both contexts: *)
(* text is never left red once the calls are over.                         *)
ColorRestored == Quiescent => color = GREY

(* Every call returns if keys stop being hit, and so does every interrupt. *)
CallsReturn == \A c \in {"main", "irq"} : frame[c].pc # "idle" ~> frame[c].pc = "idle"

(* stream.h:11 calls count the number of bytes in the buffer.              *)
CountIsBytes ==
  Quiescent => \A s \in Streams :
    /\ streams[s].count \in 0..STREAM_BUF_SIZE
    /\ streams[s].head = (streams[s].tail + streams[s].count) % STREAM_BUF_SIZE

(* The cursor is on the screen when no call is executing.                  *)
CursorOnScreen == Quiescent => cursor < SIZE

(* shell.c:85 says of stderr that it is processed in red.                  *)
StderrIsRed ==
  [][\A c \in {"main", "irq"} :
       Paint(c) => color = IF frame[c].s = STDERR THEN RED ELSE GREY]_vars
=============================================================================
