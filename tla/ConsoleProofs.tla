---------------------------- MODULE ConsoleProofs ----------------------------
(***************************************************************************)
(* What the keyboard interrupt cannot spoil, at whichever instruction it   *)
(* comes: stores to the screen stay on it, its colour is restored, stream  *)
(* pointers keep their ranges, a clipped length never exceeds what the     *)
(* caller passed, and nothing that could be shown is left behind.  For     *)
(* every size of screen and buffers, and any number of calls.              *)
(***************************************************************************)
EXTENDS Console, TLAPS

Ctx    == {"main", "irq"}
Fields == {"op", "pc", "s", "buf", "len", "done", "out", "reg", "saved", "todo", "asked"}

Frames == DOMAIN frame = Ctx /\ \A c \in Ctx : DOMAIN frame[c] = Fields

LEMMA IdleFields == DOMAIN Idle = Fields /\ Idle.pc = "idle" /\ Idle.saved = GREY /\ Idle.s = STDIN
  BY DEF Idle, Fields

LEMMA Goes ==
  ASSUME Frames, NEW c \in Ctx, NEW f, Goto(c, f), DOMAIN f = Fields
  PROVE  Frames' /\ frame'[c] = f /\ \A d \in Ctx \ {c} : frame'[d] = frame[d]
  BY DEF Frames, Goto

(* The frames that the actions make: where they go and what they keep.     *)
LEMMA Made ==
  ASSUME Frames, NEW c \in Ctx
  PROVE  /\ \A to, value : LET f == [F(c) EXCEPT !.pc = to, !.reg = value] IN
              DOMAIN f = Fields /\ f.pc = to /\ f.reg = value /\ f.s = F(c).s /\ f.saved = F(c).saved
                /\ f.op = F(c).op
         /\ \A to : LET f == [F(c) EXCEPT !.pc = to] IN
              DOMAIN f = Fields /\ f.pc = to /\ f.reg = F(c).reg /\ f.s = F(c).s
                /\ f.saved = F(c).saved /\ f.op = F(c).op
  BY DEF Frames, F, Fields

LEMMA MadeNextByte ==
  ASSUME Frames, NEW c \in Ctx
  PROVE  /\ DOMAIN NextByte(c) = Fields /\ NextByte(c).pc \in {"byte", "read"}
         /\ NextByte(c).s = F(c).s /\ NextByte(c).saved = F(c).saved /\ NextByte(c).op = F(c).op
  BY DEF Frames, F, Fields, NextByte, StartRead

LEMMA MadePutc ==
  ASSUME Frames, NEW c \in Ctx, NEW f, f = F(c) \/ f = [Idle EXCEPT !.op = "print"]
           \/ f = [Idle EXCEPT !.op = "sys_bad"] \/ f = Idle, NEW text
  PROVE  DOMAIN Putc(f, text) = Fields /\ Putc(f, text).pc = "index" /\ Putc(f, text).s = STDOUT
  <1>1. DOMAIN f = Fields
    BY IdleFields DEF Frames, F
  <1> QED  BY <1>1 DEF Putc, Fields
-----------------------------------------------------------------------------
(* Where the cursor is, or is going to be.                                 *)
Holding == {"cr", "cr2", "nl", "paint", "moved", "scrolled"}
Moving  == Holding \cup {"cell", "wrap", "scroll"}

(* While the main line is between its test of the cursor and its load for  *)
(* the store, the interrupt starts with the cursor on the screen and takes *)
(* it back there, whatever it shows.                                       *)
OnTheWay ==
  LET p == frame["irq"].pc  r == frame["irq"].reg IN
  /\ p \notin {"wrap", "scroll", "scrolled"} => cursor < SIZE
  /\ p \in {"cr", "nl"} => r = cursor
  /\ p \in {"cr2", "scrolled"} => r < SIZE
  /\ p = "moved" => r < SIZE + WIDTH
  /\ p = "wrap" => cursor < SIZE + WIDTH
  /\ p = "scroll" => SIZE <= cursor /\ cursor < SIZE + WIDTH

PInv ==
  /\ cursor \in 0..WORD-1
  /\ \A c \in Ctx : /\ frame[c].pc \in Holding => frame[c].reg \in 0..WORD-1
                    /\ frame[c].pc = "paint" => frame[c].reg < SIZE
  /\ frame["irq"].pc = "cell" => cursor < SIZE
  /\ frame["main"].pc = "cell" => OnTheWay

(* A step of c: the other context is where it was, and if c is the main    *)
(* line, the interrupt is idle.                                            *)
Goes1(c) ==
  /\ Frames /\ Frames' /\ Running(c)
  /\ \A d \in Ctx \ {c} : frame'[d] = frame[d]

LEMMA Context ==
  ASSUME NEW c \in Ctx, Goes1(c)
  PROVE  \/ c = "irq" /\ frame'["main"] = frame["main"]
         \/ c = "main" /\ frame["irq"].pc = "idle" /\ frame'["irq"] = frame["irq"]
  BY DEF Ctx, Goes1, Running

LEMMA Numbers ==
  /\ WIDTH \in Nat \ {0} /\ SIZE \in Nat /\ WIDTH <= SIZE /\ WORD \in Nat /\ WORD > SIZE + WIDTH
  <1>1. WIDTH \in Nat \ {0} /\ HEIGHT \in Nat \ {0} /\ WORD \in Nat /\ WORD > SIZE + WIDTH
    BY ConsoleAssumption
  <1>2. \A w, h \in Nat \ {0} : w * h \in Nat /\ w <= w * h
    BY SMT
  <1> QED  BY <1>1, <1>2 DEF SIZE

LEMMA ModRange ==
  ASSUME NEW a \in Int, NEW n \in Nat \ {0}
  PROVE  a % n \in 0..n-1
  BY SMT

LEMMA ModSmall ==
  ASSUME NEW a \in Nat, NEW n \in Nat, a < n
  PROVE  a % n = a
  BY SMT

LEMMA ModAtMost ==
  ASSUME NEW a \in Nat, NEW n \in Nat \ {0}
  PROVE  a % n <= a
  BY SMT

(* What the two line movements compute from the cursor, when it is loaded  *)
(* twice (r and x) and when both loads give the same.                      *)
LEMMA Lines ==
  ASSUME NEW x \in 0..WORD-1, NEW r \in 0..WORD-1
  PROVE  /\ (r - (x % WIDTH)) % WORD \in 0..WORD-1
         /\ (r + WIDTH - (x % WIDTH)) % WORD \in 0..WORD-1
         /\ x < SIZE /\ r = x => /\ (r - (x % WIDTH)) % WORD < SIZE
                                 /\ (r + WIDTH - (x % WIDTH)) % WORD < SIZE + WIDTH
  <1> DEFINE column == x % WIDTH
  <1>1. x \in Nat /\ r \in Nat /\ WORD \in Nat \ {0} /\ column \in 0..WIDTH-1 /\ column <= x
    <2>1. x \in Nat /\ r \in Nat /\ WORD \in Nat \ {0} /\ WIDTH \in Nat \ {0} /\ x \in Int
      BY Numbers
    <2>2. x % WIDTH \in 0..WIDTH-1
      BY ONLY <2>1, ModRange
    <2>3. x % WIDTH <= x
      BY ONLY <2>1, ModAtMost
    <2> QED  BY <2>1, <2>2, <2>3
  <1> HIDE DEF column
  <1>2. r - column \in Int /\ r + WIDTH - column \in Int
    BY <1>1, Numbers
  <1>3. (r - column) % WORD \in 0..WORD-1 /\ (r + WIDTH - column) % WORD \in 0..WORD-1
    BY ONLY <1>1, <1>2, ModRange
  <1>4. ASSUME x < SIZE, r = x
        PROVE  (r - column) % WORD < SIZE /\ (r + WIDTH - column) % WORD < SIZE + WIDTH
    <2>1. r - column \in Nat /\ r - column < SIZE /\ r - column < WORD
      BY <1>1, <1>4, Numbers
    <2>2. r + WIDTH - column \in Nat /\ r + WIDTH - column < SIZE + WIDTH /\ r + WIDTH - column < WORD
      BY <1>1, <1>4, Numbers
    <2>3. (r - column) % WORD = r - column
      BY ONLY <1>1, <2>1, ModSmall
    <2>4. (r + WIDTH - column) % WORD = r + WIDTH - column
      BY ONLY <1>1, <2>2, ModSmall
    <2> QED  BY <2>1, <2>2, <2>3, <2>4
  <1> QED  BY <1>3, <1>4 DEF column

(* Steps that leave the cursor alone and do not prepare to move it.        *)
LEMMA QuietKeeps ==
  ASSUME PInv, NEW c \in Ctx, Goes1(c), cursor' = cursor,
         frame[c].pc \notin {"wrap", "scroll", "scrolled"}, frame'[c].pc \notin Moving
  PROVE  PInv'
  BY Context DEF PInv, OnTheWay, Moving, Holding, Ctx

(* The cursor is loaded, changed in a register, and stored.                *)
LEMMA LineKeeps ==
  ASSUME PInv, NEW c \in Ctx, Goes1(c), cursor' = cursor,
         \/ frame[c].pc = "byte" /\ frame'[c].pc \in {"cr", "nl"} /\ frame'[c].reg = cursor
         \/ frame[c].pc = "cr" /\ frame'[c].pc = "cr2"
              /\ frame'[c].reg = (frame[c].reg - (cursor % WIDTH)) % WORD
         \/ frame[c].pc = "nl" /\ frame'[c].pc = "moved"
              /\ frame'[c].reg = (frame[c].reg + WIDTH - (cursor % WIDTH)) % WORD
  PROVE  PInv'
  <1>1. cursor \in 0..WORD-1
    BY DEF PInv
  <1>2. frame[c].pc \in {"cr", "nl"} => frame[c].reg \in 0..WORD-1
    BY DEF PInv, Holding
  <1>3. frame'[c].reg \in 0..WORD-1
    BY <1>1, <1>2, Lines
  <1>4. ASSUME cursor < SIZE, frame[c].reg = cursor
        PROVE  /\ (frame[c].reg - (cursor % WIDTH)) % WORD < SIZE
               /\ (frame[c].reg + WIDTH - (cursor % WIDTH)) % WORD < SIZE + WIDTH
    BY <1>1, <1>4, Lines
  <1>5. CASE c = "irq"
    <2>1. frame'["main"] = frame["main"]
      BY <1>5, Context
    <2>2. frame["main"].pc = "cell" => OnTheWay'
      BY <1>4, <1>5 DEF PInv, OnTheWay
    <2> QED  BY <1>3, <1>5, <2>1, <2>2 DEF PInv, Holding, Ctx
  <1>6. CASE c = "main"
    <2>1. frame'["irq"] = frame["irq"]
      BY <1>6, Context
    <2> QED  BY <1>3, <1>6, <2>1 DEF PInv, Holding, Ctx
  <1> QED  BY <1>5, <1>6 DEF Ctx
\* Loads and tests from here on.
LEMMA CellKeeps ==
  ASSUME PInv, NEW c \in Ctx, Goes1(c), cursor' = cursor,
         \/ frame[c].pc = "byte" /\ cursor < SIZE /\ frame'[c].pc = "cell"
         \/ frame[c].pc = "cell" /\ frame'[c].pc = "paint" /\ frame'[c].reg = cursor
  PROVE  PInv'
  <1>1. CASE c = "irq"
    <2>1. frame'["main"] = frame["main"]
      BY <1>1, Context
    <2> QED  BY <1>1, <2>1 DEF PInv, OnTheWay, Holding, Ctx
  <1>2. CASE c = "main"
    <2>1. frame'["irq"] = frame["irq"] /\ frame["irq"].pc = "idle"
      BY <1>2, Context
    <2> QED  BY <1>2, <2>1 DEF PInv, OnTheWay, Holding, Ctx
  <1> QED  BY <1>1, <1>2 DEF Ctx

LEMMA AdvanceKeeps ==
  ASSUME PInv, NEW c \in Ctx, Goes1(c), cursor' = cursor,
         frame[c].pc = "inc", frame'[c].pc = "moved", frame'[c].reg = (cursor + 1) % WORD
  PROVE  PInv'
  <1>1. cursor \in Nat /\ cursor < WORD /\ WORD \in Nat \ {0} /\ cursor + 1 \in Nat /\ cursor + 1 \in Int
    BY Numbers DEF PInv
  <1>2. (cursor + 1) % WORD \in 0..WORD-1
    BY ONLY <1>1, ModRange
  <1>3. cursor < SIZE => (cursor + 1) % WORD < SIZE + WIDTH
    <2>1. cursor < SIZE => cursor + 1 < SIZE + WIDTH /\ cursor + 1 < WORD
      BY <1>1, Numbers
    <2>2. cursor + 1 < WORD => (cursor + 1) % WORD = cursor + 1
      BY ONLY <1>1, ModSmall
    <2> QED  BY <2>1, <2>2
  <1>4. CASE c = "irq"
    <2>1. frame'["main"] = frame["main"]
      BY <1>4, Context
    <2> QED  BY <1>2, <1>3, <1>4, <2>1 DEF PInv, OnTheWay, Holding, Ctx
  <1>5. CASE c = "main"
    <2>1. frame'["irq"] = frame["irq"]
      BY <1>5, Context
    <2> QED  BY <1>2, <1>5, <2>1 DEF PInv, Holding, Ctx
  <1> QED  BY <1>4, <1>5 DEF Ctx

\* Tests of the end of the screen, and the line that is taken off.
LEMMA ScrollKeeps ==
  ASSUME PInv, NEW c \in Ctx, Goes1(c), cursor' = cursor,
         \/ frame[c].pc = "wrap" /\ cursor < SIZE /\ frame'[c].pc \notin Moving
         \/ frame[c].pc = "wrap" /\ cursor >= SIZE /\ frame'[c].pc = "scroll"
         \/ frame[c].pc = "scroll" /\ frame'[c].pc = "scrolled"
              /\ frame'[c].reg = (cursor - WIDTH) % WORD
  PROVE  PInv'
  <1>1. cursor \in Nat /\ cursor < WORD /\ WORD \in Nat \ {0} /\ cursor - WIDTH \in Int
    BY Numbers DEF PInv
  <1>2. (cursor - WIDTH) % WORD \in 0..WORD-1
    BY ONLY <1>1, ModRange
  <1>3. SIZE <= cursor /\ cursor < SIZE + WIDTH => (cursor - WIDTH) % WORD < SIZE
    <2>1. SIZE <= cursor /\ cursor < SIZE + WIDTH =>
            cursor - WIDTH \in Nat /\ cursor - WIDTH < SIZE /\ cursor - WIDTH < WORD
      BY <1>1, Numbers
    <2>2. cursor - WIDTH \in Nat /\ cursor - WIDTH < WORD => (cursor - WIDTH) % WORD = cursor - WIDTH
      BY ONLY <1>1, ModSmall
    <2> QED  BY <2>1, <2>2
  <1>4. CASE c = "irq"
    <2>1. frame'["main"] = frame["main"]
      BY <1>4, Context
    <2>2. frame["main"].pc = "cell" => OnTheWay'
      BY <1>1, <1>3, <1>4, Numbers DEF PInv, OnTheWay, Moving, Holding
    <2> QED  BY <1>2, <1>4, <2>1, <2>2 DEF PInv, Moving, Holding, Ctx
  <1>5. CASE c = "main"
    <2>1. frame'["irq"] = frame["irq"]
      BY <1>5, Context
    <2> QED  BY <1>2, <1>5, <2>1 DEF PInv, Moving, Holding, Ctx
  <1> QED  BY <1>4, <1>5 DEF Ctx

LEMMA StoreKeeps ==
  ASSUME PInv, NEW c \in Ctx, Goes1(c), cursor' = frame[c].reg,
         \/ frame[c].pc \in {"cr2", "scrolled"} /\ frame'[c].pc \notin Moving
         \/ frame[c].pc = "moved" /\ frame'[c].pc = "wrap"
  PROVE  PInv'
  <1>1. frame[c].reg \in 0..WORD-1
    BY DEF PInv, Holding
  <1>2. CASE c = "irq"
    <2>1. frame'["main"] = frame["main"]
      BY <1>2, Context
    <2>2. frame["main"].pc = "cell" => OnTheWay'
      BY <1>2 DEF PInv, OnTheWay, Moving, Holding
    <2> QED  BY <1>1, <1>2, <2>1, <2>2 DEF PInv, Moving, Holding, Ctx
  <1>3. CASE c = "main"
    <2>1. frame'["irq"] = frame["irq"] /\ frame["irq"].pc = "idle"
      BY <1>3, Context
    <2> QED  BY <1>1, <1>3, <2>1 DEF PInv, Moving, Holding, Ctx
  <1> QED  BY <1>2, <1>3 DEF Ctx
-----------------------------------------------------------------------------
(* Every step of a call is one of these.                                   *)
LEMMA Finished ==
  ASSUME Frames, NEW c \in Ctx, Finish(c)
  PROVE  /\ Frames' /\ \A d \in Ctx \ {c} : frame'[d] = frame[d]
         /\ \/ frame'[c] = Idle
            \/ frame'[c].pc = "index" /\ frame'[c].s = STDOUT
  <1>1. CASE F(c).todo # <<>>
    <2>1. Goto(c, Putc(F(c), F(c).todo))
      BY <1>1 DEF Finish
    <2>2. DOMAIN Putc(F(c), F(c).todo) = Fields /\ Putc(F(c), F(c).todo).pc = "index"
          /\ Putc(F(c), F(c).todo).s = STDOUT
      BY MadePutc
    <2> QED  BY <2>1, <2>2, Goes
  <1>2. CASE F(c).todo = <<>>
    <2>1. Goto(c, Idle)
      BY <1>2 DEF Finish
    <2> QED  BY <2>1, Goes, IdleFields
  <1> QED  BY <1>1, <1>2

LEMMA Loaded ==
  ASSUME Frames, NEW c \in Ctx, NEW from, NEW to, NEW value, Load(c, from, to, value)
  PROVE  /\ Goes1(c) /\ frame[c].pc = from /\ frame'[c].pc = to /\ frame'[c].reg = value
         /\ frame'[c].s = frame[c].s /\ frame'[c].saved = frame[c].saved /\ frame'[c].op = frame[c].op
         /\ cursor' = cursor /\ color' = color
  <1> DEFINE f == [F(c) EXCEPT !.pc = to, !.reg = value]
  <1>1. Goto(c, f) /\ cursor' = cursor /\ color' = color /\ Running(c) /\ frame[c].pc = from
    BY DEF Load, Local, At, F, shell
  <1>2. DOMAIN f = Fields /\ f.pc = to /\ f.reg = value /\ f.s = frame[c].s
        /\ f.saved = frame[c].saved /\ f.op = frame[c].op
    BY Made DEF F
  <1> HIDE DEF f
  <1>3. Frames' /\ frame'[c] = f /\ \A d \in Ctx \ {c} : frame'[d] = frame[d]
    BY ONLY <1>1, <1>2, Goes, Frames
  <1> QED  BY <1>1, <1>2, <1>3 DEF Goes1

\* A step within stream_write or stream_read, up to the end of a read.
Streaming ==
  {"index", "clip", "clip2", "write", "store", "head", "head2", "count", "count2",
   "read", "take", "tail", "tail2", "dec", "dec2"}

LEMMA WritingStep ==
  ASSUME Frames, NEW c \in Ctx,
         \/ TestRoom(c) \/ Clip(c) \/ LoadHead(c) \/ StoreByte(c) \/ LoadHeadAgain(c)
         \/ StoreHead(c) \/ LoadCount(c) \/ StoreCount(c)
  PROVE  /\ Goes1(c) /\ cursor' = cursor /\ color' = color
         /\ frame[c].pc \in Streaming \ {"index", "read", "take", "tail", "tail2", "dec", "dec2"}
         /\ frame'[c].pc \in Streaming \ {"index", "read", "take", "tail", "tail2", "dec", "dec2"}
         /\ frame'[c].s = frame[c].s /\ frame'[c].saved = frame[c].saved /\ frame'[c].op = frame[c].op
  <1>1. CASE TestRoom(c) \/ Clip(c) \/ StoreByte(c) \/ StoreHead(c) \/ StoreCount(c)
    <2>1. /\ cursor' = cursor /\ color' = color /\ Running(c)
          /\ frame[c].pc \in {"clip", "clip2", "store", "head2", "count2"}
      BY <1>1 DEF TestRoom, Clip, StoreByte, StoreHead, StoreCount, At, Local, shell, SetStream
    <2>2. /\ Frames' /\ \A d \in Ctx \ {c} : frame'[d] = frame[d]
          /\ frame'[c].pc \in {"clip2", "write", "head", "count"}
          /\ frame'[c].s = frame[c].s /\ frame'[c].saved = frame[c].saved /\ frame'[c].op = frame[c].op
      <3>1. CASE TestRoom(c)
        BY <3>1 DEF TestRoom, Goto, F, Frames, Fields
      <3>2. CASE Clip(c)
        BY <3>2 DEF Clip, Goto, F, Frames, Fields
      <3>3. CASE StoreByte(c)
        BY <3>3 DEF StoreByte, Goto, F, Frames, Fields
      <3>4. CASE StoreHead(c)
        BY <3>4 DEF StoreHead, Goto, F, Frames, Fields
      <3>5. CASE StoreCount(c)
        BY <3>5 DEF StoreCount, Goto, F, Frames, Fields
      <3> QED  BY <1>1, <3>1, <3>2, <3>3, <3>4, <3>5
    <2> QED  BY <2>1, <2>2 DEF Goes1, Streaming
  <1>2. CASE LoadHead(c) \/ LoadHeadAgain(c) \/ LoadCount(c)
    BY <1>2, Loaded DEF LoadHead, LoadHeadAgain, LoadCount, Streaming
  <1> QED  BY <1>1, <1>2
Reading   == {"read", "take", "tail", "tail2", "dec", "dec2"}
Rendering == {"read", "byte", "inc"} \cup Moving

LEMMA ReadingStep ==
  ASSUME Frames, NEW c \in Ctx,
         \/ TestRead(c) \/ TakeByte(c) \/ LoadTail(c) \/ StoreTail(c)
         \/ LoadCountToRead(c) \/ StoreCountRead(c)
  PROVE  /\ Goes1(c) /\ cursor' = cursor /\ color' = color
         /\ frame[c].pc \in Reading /\ frame'[c].pc \in Reading
         /\ frame'[c].s = frame[c].s /\ frame'[c].saved = frame[c].saved /\ frame'[c].op = frame[c].op
  <1>1. CASE TestRead(c) \/ TakeByte(c) \/ StoreTail(c) \/ StoreCountRead(c)
    <2>1. /\ cursor' = cursor /\ color' = color /\ Running(c) /\ frame[c].pc \in Reading
      BY <1>1 DEF TestRead, TakeByte, StoreTail, StoreCountRead, At, Local, shell, SetStream, Reading
    <2>2. /\ Frames' /\ \A d \in Ctx \ {c} : frame'[d] = frame[d]
          /\ frame'[c].pc \in Reading
          /\ frame'[c].s = frame[c].s /\ frame'[c].saved = frame[c].saved /\ frame'[c].op = frame[c].op
      <3>1. CASE TestRead(c)
        BY <3>1 DEF TestRead, Goto, F, Frames, Fields, Reading
      <3>2. CASE TakeByte(c)
        BY <3>2 DEF TakeByte, Goto, F, Frames, Fields, Reading
      <3>3. CASE StoreTail(c)
        BY <3>3 DEF StoreTail, Goto, F, Frames, Fields, Reading
      <3>4. CASE StoreCountRead(c)
        BY <3>4 DEF StoreCountRead, Goto, F, Frames, Fields, Reading
      <3> QED  BY <1>1, <3>1, <3>2, <3>3, <3>4
    <2> QED  BY <2>1, <2>2 DEF Goes1
  <1>2. CASE LoadTail(c) \/ LoadCountToRead(c)
    BY <1>2, Loaded DEF LoadTail, LoadCountToRead, Reading
  <1> QED  BY <1>1, <1>2

\* The steps that hold the cursor in a register, one by one.
LEMMA CursorLoads ==
  ASSUME Frames, NEW c \in Ctx,
         \/ CarriageReturn(c) \/ StartOfLine(c) \/ LineFeed(c) \/ NextLine(c)
         \/ LoadCell(c) \/ Advance(c) \/ Scroll(c)
  PROVE  /\ Goes1(c) /\ cursor' = cursor /\ color' = color
         /\ frame[c].pc \in Rendering /\ frame'[c].pc \in Rendering
         /\ frame'[c].s = frame[c].s /\ frame'[c].saved = frame[c].saved /\ frame'[c].op = frame[c].op
         /\ \/ frame[c].pc = "byte" /\ frame'[c].pc \in {"cr", "nl"} /\ frame'[c].reg = cursor
            \/ frame[c].pc = "cr" /\ frame'[c].pc = "cr2"
                 /\ frame'[c].reg = (frame[c].reg - (cursor % WIDTH)) % WORD
            \/ frame[c].pc = "nl" /\ frame'[c].pc = "moved"
                 /\ frame'[c].reg = (frame[c].reg + WIDTH - (cursor % WIDTH)) % WORD
            \/ frame[c].pc = "cell" /\ frame'[c].pc = "paint" /\ frame'[c].reg = cursor
            \/ frame[c].pc = "inc" /\ frame'[c].pc = "moved" /\ frame'[c].reg = (cursor + 1) % WORD
            \/ frame[c].pc = "scroll" /\ frame'[c].pc = "scrolled"
                 /\ frame'[c].reg = (cursor - WIDTH) % WORD
  <1>1. CASE CarriageReturn(c)
    BY <1>1, Loaded DEF CarriageReturn, Rendering, Moving, Holding
  <1>2. CASE StartOfLine(c)
    BY <1>2, Loaded DEF StartOfLine, Rendering, Moving, Holding, F
  <1>3. CASE LineFeed(c)
    BY <1>3, Loaded DEF LineFeed, Rendering, Moving, Holding
  <1>4. CASE NextLine(c)
    BY <1>4, Loaded DEF NextLine, Rendering, Moving, Holding, F
  <1>5. CASE LoadCell(c)
    BY <1>5, Loaded DEF LoadCell, Rendering, Moving, Holding
  <1>6. CASE Advance(c)
    BY <1>6, Loaded DEF Advance, Rendering, Moving, Holding
  <1>7. CASE Scroll(c)
    BY <1>7, Loaded DEF Scroll, Rendering, Moving, Holding
  <1> QED  BY <1>1, <1>2, <1>3, <1>4, <1>5, <1>6, <1>7

\* The loop over the bytes goes on: nothing is painted, or it was stored.
LEMMA GoesOn ==
  ASSUME Frames, NEW c \in Ctx, Goto(c, NextByte(c)), Running(c)
  PROVE  /\ Goes1(c) /\ frame'[c].pc \in {"byte", "read"}
         /\ frame'[c].s = frame[c].s /\ frame'[c].saved = frame[c].saved /\ frame'[c].op = frame[c].op
  <1> DEFINE f == NextByte(c)
  <1>1. Goto(c, f)
    OBVIOUS
  <1>2. DOMAIN f = Fields /\ f.pc \in {"byte", "read"} /\ f.s = frame[c].s
        /\ f.saved = frame[c].saved /\ f.op = frame[c].op
    BY MadeNextByte DEF F
  <1> HIDE DEF f
  <1>3. Frames' /\ frame'[c] = f /\ \A d \in Ctx \ {c} : frame'[d] = frame[d]
    BY ONLY <1>1, <1>2, Goes, Frames
  <1> QED  BY <1>2, <1>3 DEF Goes1

LEMMA CursorSteps ==
  ASSUME Frames, NEW c \in Ctx,
         \/ StoreStartOfLine(c) \/ Ignore(c) \/ NoWrap(c) \/ StoreScrolled(c)
         \/ Fits(c) \/ Paint(c) \/ StoreCursor(c) \/ Wrap(c)
  PROVE  /\ Goes1(c) /\ color' = color
         /\ frame[c].pc \in Rendering /\ frame'[c].pc \in Rendering
         /\ frame'[c].s = frame[c].s /\ frame'[c].saved = frame[c].saved /\ frame'[c].op = frame[c].op
         /\ \/ frame[c].pc \in {"cr2", "scrolled"} /\ frame'[c].pc \notin Moving /\ cursor' = frame[c].reg
            \/ frame[c].pc = "moved" /\ frame'[c].pc = "wrap" /\ cursor' = frame[c].reg
            \/ frame[c].pc \in {"byte", "paint"} /\ frame'[c].pc \notin Moving /\ cursor' = cursor
            \/ frame[c].pc = "wrap" /\ ~ (cursor >= SIZE) /\ frame'[c].pc \notin Moving /\ cursor' = cursor
            \/ frame[c].pc = "byte" /\ cursor < SIZE /\ frame'[c].pc = "cell" /\ cursor' = cursor
            \/ frame[c].pc = "wrap" /\ cursor >= SIZE /\ frame'[c].pc = "scroll" /\ cursor' = cursor
  <1>1. CASE StoreStartOfLine(c) \/ Ignore(c) \/ NoWrap(c) \/ StoreScrolled(c)
    <2>1. Goto(c, NextByte(c)) /\ Running(c) /\ color' = color
      BY <1>1 DEF StoreStartOfLine, Ignore, NoWrap, StoreScrolled, IsGlyph, At, Local, SetCursor, shell
    <2>2. \/ frame[c].pc \in {"cr2", "scrolled"} /\ cursor' = frame[c].reg
          \/ frame[c].pc = "byte" /\ cursor' = cursor
          \/ frame[c].pc = "wrap" /\ ~ (cursor >= SIZE) /\ cursor' = cursor
      <3>1. CASE StoreStartOfLine(c) \/ StoreScrolled(c)
        BY <3>1 DEF StoreStartOfLine, StoreScrolled, At, SetCursor, F
      <3>2. CASE Ignore(c)
        BY <3>2 DEF Ignore, IsGlyph, At, Local, shell
      <3>3. CASE NoWrap(c)
        BY <3>3 DEF NoWrap, AtEnd, At, Local, shell
      <3> QED  BY <1>1, <3>1, <3>2, <3>3
    <2>3. /\ Goes1(c) /\ frame'[c].pc \in {"byte", "read"}
          /\ frame'[c].s = frame[c].s /\ frame'[c].saved = frame[c].saved /\ frame'[c].op = frame[c].op
      BY <2>1, GoesOn
    <2> QED  BY <2>1, <2>2, <2>3 DEF Rendering, Moving, Holding
  <1>2. CASE Fits(c) \/ Paint(c) \/ StoreCursor(c) \/ Wrap(c)
    <2>1. Running(c) /\ color' = color
      BY <1>2 DEF Fits, Paint, StoreCursor, Wrap, IsGlyph, At, Local, SetCursor, shell
    <2>2. CASE Fits(c)
      <3>1. frame[c].pc = "byte" /\ cursor < SIZE /\ cursor' = cursor
        BY <2>2 DEF Fits, IsGlyph, OnScreen, At, Local, shell
      <3>2. Goes1(c) /\ frame'[c].pc = "cell"
            /\ frame'[c].s = frame[c].s /\ frame'[c].saved = frame[c].saved /\ frame'[c].op = frame[c].op
        BY <2>1, <2>2 DEF Fits, Goto, F, Frames, Fields, Goes1
      <3> QED  BY <2>1, <3>1, <3>2 DEF Rendering, Moving, Holding
    <2>3. CASE Paint(c)
      <3>1. frame[c].pc = "paint" /\ cursor' = cursor
        BY <2>3 DEF Paint, At, Local, shell
      <3>2. Goes1(c) /\ frame'[c].pc = "inc"
            /\ frame'[c].s = frame[c].s /\ frame'[c].saved = frame[c].saved /\ frame'[c].op = frame[c].op
        BY <2>1, <2>3 DEF Paint, Goto, F, Frames, Fields, Goes1
      <3> QED  BY <2>1, <3>1, <3>2 DEF Rendering, Moving, Holding
    <2>4. CASE StoreCursor(c)
      <3>1. frame[c].pc = "moved" /\ cursor' = frame[c].reg
        BY <2>4 DEF StoreCursor, At, SetCursor, F
      <3>2. Goes1(c) /\ frame'[c].pc = "wrap"
            /\ frame'[c].s = frame[c].s /\ frame'[c].saved = frame[c].saved /\ frame'[c].op = frame[c].op
        BY <2>1, <2>4 DEF StoreCursor, Goto, F, Frames, Fields, Goes1
      <3> QED  BY <2>1, <3>1, <3>2 DEF Rendering, Moving, Holding
    <2>5. CASE Wrap(c)
      <3>1. frame[c].pc = "wrap" /\ cursor >= SIZE /\ cursor' = cursor
        BY <2>5 DEF Wrap, AtEnd, At, Local, shell
      <3>2. Goes1(c) /\ frame'[c].pc = "scroll"
            /\ frame'[c].s = frame[c].s /\ frame'[c].saved = frame[c].saved /\ frame'[c].op = frame[c].op
        BY <2>1, <2>5 DEF Wrap, Goto, F, Frames, Fields, Goes1
      <3> QED  BY <2>1, <3>1, <3>2 DEF Rendering, Moving, Holding
    <2> QED  BY <1>2, <2>2, <2>3, <2>4, <2>5
  <1> QED  BY <1>1, <1>2
\* The steps between streams, and the returns.
LEMMA Turns ==
  ASSUME Frames, NEW c \in Ctx
  PROVE  /\ CheckStream(c) =>
              /\ Goes1(c) /\ cursor' = cursor /\ frame[c].pc = "index"
              /\ frame'[c].s = frame[c].s /\ frame'[c].saved = frame[c].saved /\ frame'[c].op = frame[c].op
              /\ \/ frame[c].s \in Streams /\ frame'[c].pc = "clip" /\ color' = GREY
                 \/ frame[c].s \notin Streams /\ frame'[c].pc = "badstream" /\ color' = color
         /\ WriteReturn(c) =>
              /\ Goes1(c) /\ cursor' = cursor /\ color' = color
              /\ frame[c].pc = "write" /\ frame'[c].pc = "read" /\ frame'[c].s = STDOUT
              /\ frame'[c].saved = frame[c].saved /\ frame'[c].op = frame[c].op
         /\ ReadReturn(c) =>
              /\ Goes1(c) /\ cursor' = cursor /\ color' = color
              /\ frame[c].pc = "read" /\ frame[c].op # "sys_read"
              /\ frame'[c].s = frame[c].s /\ frame'[c].saved = frame[c].saved /\ frame'[c].op = frame[c].op
              /\ \/ frame'[c].pc = "byte"
                 \/ frame'[c].pc = "save" /\ frame[c].s = STDOUT
                 \/ frame'[c].pc = "restore" /\ frame[c].s # STDOUT
         /\ SaveColor(c) =>
              /\ Goes1(c) /\ cursor' = cursor /\ color' = color
              /\ frame[c].pc = "save" /\ frame'[c].pc = "red" /\ frame'[c].saved = color
              /\ frame'[c].s = frame[c].s /\ frame'[c].op = frame[c].op
         /\ SetRed(c) =>
              /\ Goes1(c) /\ cursor' = cursor /\ color' = RED
              /\ frame[c].pc = "red" /\ frame'[c].pc = "read" /\ frame'[c].s = STDERR
              /\ frame'[c].saved = frame[c].saved /\ frame'[c].op = frame[c].op
  <1>1. ASSUME CheckStream(c)
        PROVE  /\ Goes1(c) /\ cursor' = cursor /\ frame[c].pc = "index"
               /\ frame'[c].s = frame[c].s /\ frame'[c].saved = frame[c].saved /\ frame'[c].op = frame[c].op
               /\ \/ frame[c].s \in Streams /\ frame'[c].pc = "clip" /\ color' = GREY
                  \/ frame[c].s \notin Streams /\ frame'[c].pc = "badstream" /\ color' = color
    BY <1>1 DEF CheckStream, Goto, F, Frames, Fields, Goes1, At
  <1>2. ASSUME WriteReturn(c)
        PROVE  /\ Goes1(c) /\ cursor' = cursor /\ color' = color
               /\ frame[c].pc = "write" /\ frame'[c].pc = "read" /\ frame'[c].s = STDOUT
               /\ frame'[c].saved = frame[c].saved /\ frame'[c].op = frame[c].op
    BY <1>2 DEF WriteReturn, StartRead, Goto, F, Frames, Fields, Goes1, At, Local, shell
  <1>3. ASSUME ReadReturn(c)
        PROVE  /\ Goes1(c) /\ cursor' = cursor /\ color' = color
               /\ frame[c].pc = "read" /\ frame[c].op # "sys_read"
               /\ frame'[c].s = frame[c].s /\ frame'[c].saved = frame[c].saved /\ frame'[c].op = frame[c].op
               /\ \/ frame'[c].pc = "byte"
                  \/ frame'[c].pc = "save" /\ frame[c].s = STDOUT
                  \/ frame'[c].pc = "restore" /\ frame[c].s # STDOUT
    <2>1. Running(c) /\ frame[c].pc = "read" /\ frame[c].op # "sys_read" /\ cursor' = cursor /\ color' = color
      BY <1>3 DEF ReadReturn, ReadEnds, At, F, Local, shell
    <2> DEFINE to == IF F(c).done > 0 THEN "byte" ELSE IF F(c).s = STDOUT THEN "save" ELSE "restore"
    <2>2. Goto(c, [F(c) EXCEPT !.pc = to])
      BY <1>3 DEF ReadReturn
    <2>3. \/ to = "byte"
          \/ to = "save" /\ frame[c].s = STDOUT
          \/ to = "restore" /\ frame[c].s # STDOUT
      BY DEF F
    <2> HIDE DEF to
    <2> QED  BY <2>1, <2>2, <2>3 DEF Goto, F, Frames, Fields, Goes1
  <1>4. ASSUME SaveColor(c)
        PROVE  /\ Goes1(c) /\ cursor' = cursor /\ color' = color
               /\ frame[c].pc = "save" /\ frame'[c].pc = "red" /\ frame'[c].saved = color
               /\ frame'[c].s = frame[c].s /\ frame'[c].op = frame[c].op
    BY <1>4 DEF SaveColor, Goto, F, Frames, Fields, Goes1, At, Local, shell
  <1>5. ASSUME SetRed(c)
        PROVE  /\ Goes1(c) /\ cursor' = cursor /\ color' = RED
               /\ frame[c].pc = "red" /\ frame'[c].pc = "read" /\ frame'[c].s = STDERR
               /\ frame'[c].saved = frame[c].saved /\ frame'[c].op = frame[c].op
    BY <1>5 DEF SetRed, SetColor, StartRead, Goto, F, Frames, Fields, Goes1, At
  <1> QED  BY <1>1, <1>2, <1>3, <1>4, <1>5

LEMMA Returns ==
  ASSUME Frames, NEW c \in Ctx, BadStream(c) \/ Deliver(c) \/ RestoreColor(c)
  PROVE  /\ Goes1(c) /\ cursor' = cursor
         /\ \/ frame[c].pc = "badstream" /\ color' = color
            \/ frame[c].pc = "read" /\ frame[c].op = "sys_read" /\ color' = color
            \/ frame[c].pc = "restore" /\ color' = frame[c].saved
         /\ (frame'[c] = Idle \/ (frame'[c].pc = "index" /\ frame'[c].s = STDOUT))
  <1>1. Finish(c) /\ Running(c) /\ cursor' = cursor
    BY DEF BadStream, Deliver, ReadEnds, RestoreColor, At, shell
  <1>2. \/ frame[c].pc = "badstream" /\ color' = color
        \/ frame[c].pc = "read" /\ frame[c].op = "sys_read" /\ color' = color
        \/ frame[c].pc = "restore" /\ color' = frame[c].saved
    BY DEF BadStream, Deliver, ReadEnds, RestoreColor, At, shell, F
  <1> QED  BY <1>1, <1>2, Finished DEF Goes1
-----------------------------------------------------------------------------
(* Calls begin, and keys are hit, when nothing is executed.                *)
LEMMA Begins ==
  ASSUME Frames,
         \/ Puts(Message) \/ SysBadPointer
         \/ (\E fd \in Fds, b \in Buffers, n \in Lens : SysWrite(fd, b, n))
         \/ (\E n \in Lens : SysRead(n))
  PROVE  /\ Goes1("main") /\ cursor' = cursor /\ color' = color
         /\ frame["main"].pc = "idle"
         /\ \/ frame'["main"].pc = "index" /\ frame'["main"].op # "sys_read"
            \/ frame'["main"].pc = "read" /\ frame'["main"].s = STDIN /\ frame'["main"].op = "sys_read"
  <1>1. ASSUME NEW f, Call(f), DOMAIN f = Fields,
               \/ f.pc = "index" /\ f.op # "sys_read"
               \/ f.pc = "read" /\ f.s = STDIN /\ f.op = "sys_read"
        PROVE  /\ Goes1("main") /\ cursor' = cursor /\ color' = color
               /\ frame["main"].pc = "idle"
               /\ \/ frame'["main"].pc = "index" /\ frame'["main"].op # "sys_read"
                  \/ frame'["main"].pc = "read" /\ frame'["main"].s = STDIN /\ frame'["main"].op = "sys_read"
    <2>1. Goto("main", f) /\ cursor' = cursor /\ color' = color /\ "main" \in Ctx
          /\ frame["main"].pc = "idle" /\ frame["irq"].pc = "idle"
      BY <1>1 DEF Call, shell, Ctx
    <2>2. Frames' /\ frame'["main"] = f /\ \A d \in Ctx \ {"main"} : frame'[d] = frame[d]
      BY <1>1, <2>1, Goes
    <2> QED  BY <1>1, <2>1, <2>2 DEF Goes1, Running
  <1>2. CASE Puts(Message)
    <2> DEFINE f == Putc([Idle EXCEPT !.op = "print"], Message)
    <2>1. Call(f)
      BY <1>2 DEF Puts
    <2>2. DOMAIN f = Fields /\ f.pc = "index" /\ f.op = "print"
      BY DEF Putc, Idle, Fields
    <2> HIDE DEF f
    <2> QED  BY <1>1, <2>1, <2>2
  <1>3. CASE SysBadPointer
    <2> DEFINE f == Putc([Idle EXCEPT !.op = "sys_bad"], Message)
    <2>1. Call(f)
      BY <1>3 DEF SysBadPointer
    <2>2. DOMAIN f = Fields /\ f.pc = "index" /\ f.op = "sys_bad"
      BY DEF Putc, Idle, Fields
    <2> HIDE DEF f
    <2> QED  BY <1>1, <2>1, <2>2
  <1>4. ASSUME NEW fd \in Fds, NEW b \in Buffers, NEW n \in Lens, SysWrite(fd, b, n)
        PROVE  /\ Goes1("main") /\ cursor' = cursor /\ color' = color
               /\ frame["main"].pc = "idle"
               /\ frame'["main"].pc = "index" /\ frame'["main"].op # "sys_read"
    <2> DEFINE f == [Idle EXCEPT !.op = "sys_write", !.pc = "index", !.s = fd, !.buf = b,
                                 !.len = n, !.asked = n]
    <2>1. Call(f)
      BY <1>4 DEF SysWrite
    <2>2. DOMAIN f = Fields /\ f.pc = "index" /\ f.op = "sys_write"
      BY DEF Idle, Fields
    <2> HIDE DEF f
    <2>3. Goto("main", f) /\ "main" \in Ctx
      BY <2>1 DEF Call, Ctx
    <2> QED  BY <1>1, <2>1, <2>2, <2>3, Goes
  <1>5. ASSUME NEW n \in Lens, SysRead(n)
        PROVE  /\ Goes1("main") /\ cursor' = cursor /\ color' = color
               /\ frame["main"].pc = "idle"
               /\ frame'["main"].pc = "read" /\ frame'["main"].s = STDIN /\ frame'["main"].op = "sys_read"
    <2> DEFINE f == [Idle EXCEPT !.op = "sys_read", !.pc = "read", !.s = STDIN, !.len = n, !.asked = n]
    <2>1. Call(f)
      BY <1>5 DEF SysRead
    <2>2. DOMAIN f = Fields /\ f.pc = "read" /\ f.op = "sys_read" /\ f.s = STDIN
      BY DEF Idle, Fields
    <2> HIDE DEF f
    <2>3. Goto("main", f) /\ "main" \in Ctx
      BY <2>1 DEF Call, Ctx
    <2> QED  BY <1>1, <2>1, <2>2, <2>3, Goes
  <1> QED  BY <1>2, <1>3, <1>4, <1>5, <1>1

LEMMA KeyHit ==
  ASSUME Frames, NEW k \in Keys, KeyPress(k)
  PROVE  /\ Goes1("irq") /\ cursor' = cursor /\ color' = color
         /\ frame["irq"].pc = "idle" /\ frame'["irq"].pc = "index"
         /\ frame'["irq"].s = STDIN /\ frame'["irq"].op # "sys_read"
  <1> DEFINE f == [Idle EXCEPT !.op = "key", !.pc = "index", !.s = STDIN,
                               !.buf = <<k>>, !.len = 1, !.asked = 1]
  <1>1. Goto("irq", f) /\ cursor' = cursor /\ color' = color /\ frame["irq"].pc = "idle" /\ "irq" \in Ctx
    BY DEF KeyPress, shell, Ctx
  <1>2. DOMAIN f = Fields /\ f.pc = "index" /\ f.op = "key" /\ f.s = STDIN
    BY DEF Idle, Fields
  <1> HIDE DEF f
  <1>3. Frames' /\ frame'["irq"] = f /\ \A d \in Ctx \ {"irq"} : frame'[d] = frame[d]
    BY <1>1, <1>2, Goes
  <1> QED  BY <1>1, <1>2, <1>3 DEF Goes1, Running
-----------------------------------------------------------------------------
(* No store goes outside the video memory.                                 *)
LEMMA StepKeeps ==
  ASSUME Frames, PInv, NEW c \in Ctx, Step(c)
  PROVE  Frames' /\ PInv'
  <1>1. CASE \/ TestRoom(c) \/ Clip(c) \/ LoadHead(c) \/ StoreByte(c) \/ LoadHeadAgain(c)
             \/ StoreHead(c) \/ LoadCount(c) \/ StoreCount(c)
    BY <1>1, WritingStep, QuietKeeps DEF Streaming, Moving, Holding, Goes1
  <1>2. CASE \/ TestRead(c) \/ TakeByte(c) \/ LoadTail(c) \/ StoreTail(c)
             \/ LoadCountToRead(c) \/ StoreCountRead(c)
    BY <1>2, ReadingStep, QuietKeeps DEF Reading, Moving, Holding, Goes1
  <1>3. CASE CheckStream(c) \/ WriteReturn(c) \/ ReadReturn(c) \/ SaveColor(c) \/ SetRed(c)
    BY <1>3, Turns, QuietKeeps DEF Moving, Holding, Goes1
  <1>4. CASE BadStream(c) \/ Deliver(c) \/ RestoreColor(c)
    BY <1>4, Returns, IdleFields, QuietKeeps DEF Moving, Holding, Goes1
  <1>5. CASE \/ CarriageReturn(c) \/ StartOfLine(c) \/ LineFeed(c) \/ NextLine(c)
             \/ LoadCell(c) \/ Advance(c) \/ Scroll(c)
    BY <1>5, CursorLoads, LineKeeps, CellKeeps, AdvanceKeeps, ScrollKeeps DEF Goes1
  <1>6. CASE \/ StoreStartOfLine(c) \/ Ignore(c) \/ NoWrap(c) \/ StoreScrolled(c)
             \/ Fits(c) \/ Paint(c) \/ StoreCursor(c) \/ Wrap(c)
    <2>1. ~ (cursor >= SIZE) => cursor < SIZE
      BY Numbers DEF PInv
    <2>2. PInv'
      BY <1>6, <2>1, CursorSteps, QuietKeeps, CellKeeps, ScrollKeeps, StoreKeeps
    <2> QED  BY <1>6, <2>2, CursorSteps DEF Goes1
  <1> QED  BY <1>1, <1>2, <1>3, <1>4, <1>5, <1>6 DEF Step

LEMMA PNextInv ==
  ASSUME Frames, PInv, [Next]_vars
  PROVE  Frames' /\ PInv'
  <1>1. CASE \/ Puts(Message) \/ SysBadPointer
             \/ (\E fd \in Fds, b \in Buffers, n \in Lens : SysWrite(fd, b, n))
             \/ (\E n \in Lens : SysRead(n))
    <2>1. "main" \in Ctx
      BY DEF Ctx
    <2> QED  BY <1>1, <2>1, Begins, QuietKeeps DEF Moving, Holding, Goes1
  <1>2. CASE \E k \in Keys : KeyPress(k)
    <2>1. "irq" \in Ctx
      BY DEF Ctx
    <2> QED  BY <1>2, <2>1, KeyHit, QuietKeeps DEF Moving, Holding, Goes1
  <1>3. CASE SysAtOnce(-1) \/ SysAtOnce(1) \/ UNCHANGED vars
    <2>1. frame' = frame /\ cursor' = cursor
      BY <1>3 DEF SysAtOnce, vars, shell
    <2> QED  BY <2>1 DEF Frames, PInv, OnTheWay
  <1>4. CASE \E c \in {"main", "irq"} : Step(c)
    BY <1>4, StepKeeps DEF Ctx
  <1> QED  BY <1>1, <1>2, <1>3, <1>4 DEF Next

LEMMA PInitInv == Init => Frames /\ PInv
  <1> SUFFICES ASSUME Init PROVE Frames /\ PInv
    OBVIOUS
  <1>1. DOMAIN frame = Ctx /\ \A c \in Ctx : frame[c] = Idle
    BY DEF Init, Ctx
  <1>2. cursor \in 0..WORD-1
    BY Numbers DEF Init
  <1>3. \A c \in Ctx : frame[c].pc \notin Moving
    BY <1>1, IdleFields DEF Moving, Holding
  <1> QED  BY <1>1, <1>2, <1>3, IdleFields DEF Frames, PInv, Moving, Holding, Ctx

(* shell.c:74-75: at whichever instruction keys are hit, the store that    *)
(* follows the test of the cursor stays inside the video memory.           *)
THEOREM StoresOnScreen == Spec => []PaintInBounds
  <1>1. Frames /\ PInv => PaintInBounds
    BY DEF PInv, PaintInBounds, Ctx
  <1> QED  BY <1>1, PInitInv, PNextInv, PTL DEF Spec
-----------------------------------------------------------------------------
(* The colour.  While a context shows stderr, the colour it saved is grey; *)
(* while neither the interrupt nor the main line shows stderr, the colour  *)
(* is grey; an interrupt that begins makes it grey, whatever it was.       *)
Showing   == Reading \cup Rendering
Red(c)  == frame[c].s = STDERR /\ frame[c].pc \in Showing \cup {"restore"}
Begun   == frame["irq"].pc \notin {"idle", "index"}

Own(c) ==
  /\ frame[c].pc = "red" \/ Red(c) => frame[c].saved = GREY
  /\ frame[c].pc \in {"save", "red"} \/ Red(c) => frame[c].op # "sys_read"
  /\ frame[c].pc \in Showing /\ frame[c].op # "sys_read" => frame[c].s \in {STDOUT, STDERR}
  /\ frame[c].pc = "restore" => frame[c].s = STDERR

CInv ==
  /\ \A c \in Ctx : Own(c)
  /\ frame["irq"].pc = "index" => frame["irq"].s \in Streams
  /\ Begun /\ ~ Red("irq") => color = GREY
  /\ ~ Begun /\ ~ Red("main") => color = GREY

LEMMA Grey ==
  ASSUME CInv, NEW c \in Ctx, Goes1(c), ~ Red(c), frame[c].pc \notin {"idle", "index"}
  PROVE  color = GREY
  BY Context DEF CInv, Begun, Ctx

LEMMA ColorKeeps ==
  ASSUME CInv, NEW c \in Ctx, Goes1(c), Own(c)',
         c = "irq" /\ frame'[c].pc = "index" => frame'[c].s \in Streams,
         \/ color' = GREY
         \/ Red(c)'
         \/ color' = color /\ (Red(c) => Red(c)')
              /\ (c = "irq" => {frame[c].pc, frame'[c].pc} \cap {"idle", "index"} = {})
  PROVE  CInv'
  <1>1. CASE c = "irq"
    <2>1. frame'["main"] = frame["main"]
      BY <1>1, Context
    <2>2. Own("main")' /\ Red("main")' = Red("main")
      BY <2>1 DEF CInv, Own, Red, Ctx
    <2>3. Red("irq")' => Begun'
      BY DEF Red, Begun, Showing, Reading, Rendering, Moving, Holding
    <2>4. Begun' /\ ~ Red("irq")' => color' = GREY
      BY <1>1 DEF CInv, Begun
    <2>5. ~ Begun' /\ ~ Red("main")' => color' = GREY
      BY <1>1, <2>2, <2>3 DEF CInv, Begun
    <2> QED  BY <1>1, <2>2, <2>4, <2>5 DEF CInv, Ctx
  <1>2. CASE c = "main"
    <2>1. frame'["irq"] = frame["irq"] /\ frame["irq"].pc = "idle"
      BY <1>2, Context
    <2>2. Own("irq")' /\ ~ Begun' /\ ~ Begun
      BY <2>1 DEF CInv, Own, Red, Ctx, Begun
    <2>3. ~ Red("main")' => color' = GREY
      BY <1>2, <2>2 DEF CInv
    <2> QED  BY <1>2, <2>1, <2>2, <2>3 DEF CInv, Ctx
  <1> QED  BY <1>1, <1>2 DEF Ctx
LEMMA ColorStep ==
  ASSUME Frames, CInv, NEW c \in Ctx, Step(c)
  PROVE  CInv'
  <1>1. CASE \/ TestRoom(c) \/ Clip(c) \/ LoadHead(c) \/ StoreByte(c) \/ LoadHeadAgain(c)
             \/ StoreHead(c) \/ LoadCount(c) \/ StoreCount(c)
    <2>1. /\ Goes1(c) /\ color' = color
          /\ {frame[c].pc, frame'[c].pc} \subseteq
               {"clip", "clip2", "write", "store", "head", "head2", "count", "count2"}
      BY <1>1, WritingStep DEF Streaming
    <2>2. ~ Red(c) /\ Own(c)'
      BY <2>1 DEF Red, Own, Showing, Reading, Rendering, Moving, Holding
    <2> QED  BY <2>1, <2>2, ColorKeeps
  <1>2. CASE \/ TestRead(c) \/ TakeByte(c) \/ LoadTail(c) \/ StoreTail(c)
             \/ LoadCountToRead(c) \/ StoreCountRead(c)
             \/ CarriageReturn(c) \/ StartOfLine(c) \/ LineFeed(c) \/ NextLine(c)
             \/ LoadCell(c) \/ Advance(c) \/ Scroll(c)
             \/ StoreStartOfLine(c) \/ Ignore(c) \/ NoWrap(c) \/ StoreScrolled(c)
             \/ Fits(c) \/ Paint(c) \/ StoreCursor(c) \/ Wrap(c)
    <2>1. /\ Goes1(c) /\ color' = color /\ frame[c].pc \in Showing /\ frame'[c].pc \in Showing
          /\ frame'[c].s = frame[c].s /\ frame'[c].saved = frame[c].saved /\ frame'[c].op = frame[c].op
      BY <1>2, ReadingStep, CursorLoads, CursorSteps DEF Showing
    <2>2. Red(c)' = Red(c)
      BY <2>1 DEF Red
    <2>3. {frame[c].pc, frame'[c].pc} \cap {"idle", "index", "save", "red", "restore"} = {}
      BY <2>1 DEF Showing, Reading, Rendering, Moving, Holding
    <2>4. Own(c)'
      BY <2>1, <2>2, <2>3 DEF CInv, Own
    <2> QED  BY <2>1, <2>2, <2>3, <2>4, ColorKeeps
  <1>3. CASE CheckStream(c)
    <2>1. /\ Goes1(c) /\ frame[c].pc = "index" /\ frame'[c].pc \in {"clip", "badstream"}
          /\ frame'[c].s = frame[c].s
          /\ color' = GREY \/ (color' = color /\ frame[c].s \notin Streams)
      BY <1>3, Turns
    <2>2. ~ Red(c) /\ Own(c)'
      BY <2>1 DEF Red, Own, Showing, Reading, Rendering, Moving, Holding
    <2>3. color' = GREY \/ (color' = color /\ c # "irq")
      BY <2>1 DEF CInv
    <2> QED  BY <2>1, <2>2, <2>3, ColorKeeps
  <1>4. CASE WriteReturn(c)
    <2>1. /\ Goes1(c) /\ color' = color /\ frame[c].pc = "write"
          /\ frame'[c].pc = "read" /\ frame'[c].s = STDOUT
      BY <1>4, Turns
    <2>2. ~ Red(c) /\ Own(c)'
      BY <2>1 DEF Red, Own, Showing, Reading, Rendering, Moving, Holding, STDOUT, STDERR
    <2> QED  BY <2>1, <2>2, ColorKeeps
  <1>5. CASE ReadReturn(c)
    <2>1. /\ Goes1(c) /\ color' = color /\ frame[c].pc = "read" /\ frame[c].op # "sys_read"
          /\ frame'[c].s = frame[c].s /\ frame'[c].saved = frame[c].saved /\ frame'[c].op = frame[c].op
          /\ \/ frame'[c].pc = "byte"
             \/ frame'[c].pc = "save" /\ frame[c].s = STDOUT
             \/ frame'[c].pc = "restore" /\ frame[c].s # STDOUT
      BY <1>5, Turns
    <2>2. Own(c) /\ frame[c].s \in {STDOUT, STDERR}
      BY <2>1 DEF CInv, Own, Showing, Reading
    <2>3. (Red(c)' <=> Red(c)) /\ Own(c)'
      BY <2>1, <2>2 DEF Own, Red, Showing, Reading, Rendering, Moving, Holding, STDOUT, STDERR
    <2> QED  BY <2>1, <2>3, ColorKeeps
  <1>6. CASE SaveColor(c)
    <2>1. /\ Goes1(c) /\ color' = color /\ frame[c].pc = "save" /\ frame'[c].pc = "red"
          /\ frame'[c].saved = color /\ frame'[c].op = frame[c].op
      BY <1>6, Turns
    <2>2. ~ Red(c) /\ frame[c].op # "sys_read"
      BY <2>1 DEF CInv, Own, Red, Showing, Reading, Rendering, Moving, Holding
    <2>3. color = GREY
      BY <2>1, <2>2, Grey
    <2>4. Own(c)'
      BY <2>1, <2>2, <2>3 DEF Own, Red, Showing, Reading, Rendering, Moving, Holding
    <2> QED  BY <2>1, <2>3, <2>4, ColorKeeps
  <1>7. CASE SetRed(c)
    <2>1. /\ Goes1(c) /\ frame[c].pc = "red" /\ frame'[c].pc = "read" /\ frame'[c].s = STDERR
          /\ frame'[c].saved = frame[c].saved /\ frame'[c].op = frame[c].op
      BY <1>7, Turns
    <2>2. frame[c].saved = GREY /\ frame[c].op # "sys_read"
      BY <2>1 DEF CInv, Own
    <2>3. Red(c)' /\ Own(c)'
      BY <2>1, <2>2 DEF Own, Red, Showing, Reading
    <2> QED  BY <2>1, <2>3, ColorKeeps
  <1>8. CASE BadStream(c) \/ Deliver(c) \/ RestoreColor(c)
    <2>1. /\ Goes1(c)
          /\ \/ frame[c].pc = "badstream" /\ color' = color
             \/ frame[c].pc = "read" /\ frame[c].op = "sys_read" /\ color' = color
             \/ frame[c].pc = "restore" /\ color' = frame[c].saved
          /\ (frame'[c] = Idle \/ (frame'[c].pc = "index" /\ frame'[c].s = STDOUT))
      BY <1>8, Returns
    <2>2. ASSUME frame[c].pc = "restore", color' = frame[c].saved
          PROVE  color' = GREY
      BY <2>2 DEF CInv, Own, Red
    <2>3. ASSUME color' = color,
                 frame[c].pc = "badstream" \/ (frame[c].pc = "read" /\ frame[c].op = "sys_read")
          PROVE  color' = GREY
      <3>1. ~ Red(c)
        BY <2>3 DEF CInv, Own, Red, Showing, Reading, Rendering, Moving, Holding
      <3> QED  BY <2>1, <2>3, <3>1, Grey
    <2>4. color' = GREY
      BY <2>1, <2>2, <2>3
    <2>5. Own(c)'
      BY <2>1, IdleFields DEF Own, Red, Showing, Reading, Rendering, Moving, Holding
    <2> QED  BY <2>1, <2>4, <2>5, IdleFields, ColorKeeps DEF Streams
  <1> QED  BY <1>1, <1>2, <1>3, <1>4, <1>5, <1>6, <1>7, <1>8 DEF Step

LEMMA ColorNext ==
  ASSUME Frames, CInv, [Next]_vars
  PROVE  CInv'
  <1>1. CASE \/ Puts(Message) \/ SysBadPointer
             \/ (\E fd \in Fds, b \in Buffers, n \in Lens : SysWrite(fd, b, n))
             \/ (\E n \in Lens : SysRead(n))
    <2>1. /\ Goes1("main") /\ color' = color /\ frame["main"].pc = "idle"
          /\ \/ frame'["main"].pc = "index"
             \/ frame'["main"].pc = "read" /\ frame'["main"].s = STDIN /\ frame'["main"].op = "sys_read"
      BY <1>1, Begins
    <2>2. ~ Red("main") /\ Own("main")' /\ "main" \in Ctx
      BY <2>1 DEF Own, Red, Showing, Reading, Rendering, Moving, Holding, Ctx, STDIN, STDERR
    <2> QED  BY <2>1, <2>2, ColorKeeps
  <1>2. CASE \E k \in Keys : KeyPress(k)
    <2>1. /\ Goes1("irq") /\ color' = color /\ frame["irq"].pc = "idle"
          /\ frame'["irq"].pc = "index" /\ frame'["irq"].s = STDIN
      BY <1>2, KeyHit
    <2>2. frame'["main"] = frame["main"]
      BY <2>1, Context DEF Ctx
    <2>3. Own("irq")' /\ Own("main")' /\ Red("main")' = Red("main")
      BY <2>1, <2>2 DEF CInv, Own, Red, Showing, Reading, Rendering, Moving, Holding, Ctx
    <2> QED  BY <2>1, <2>3 DEF CInv, Begun, Ctx, Streams
  <1>3. CASE SysAtOnce(-1) \/ SysAtOnce(1) \/ UNCHANGED vars
    <2>1. frame' = frame /\ color' = color
      BY <1>3 DEF SysAtOnce, vars, shell
    <2> QED  BY <2>1 DEF CInv, Own, Red, Begun
  <1>4. CASE \E c \in {"main", "irq"} : Step(c)
    BY <1>4, ColorStep DEF Ctx
  <1> QED  BY <1>1, <1>2, <1>3, <1>4 DEF Next

LEMMA ColorInit == Init => CInv
  <1> SUFFICES ASSUME Init PROVE CInv
    OBVIOUS
  <1>1. color = GREY /\ \A c \in Ctx : frame[c] = Idle
    BY DEF Init, Ctx
  <1>2. \A c \in Ctx : frame[c].pc = "idle" /\ Own(c)
    BY <1>1, IdleFields DEF Own, Red, Showing, Reading, Rendering, Moving, Holding
  <1> QED  BY <1>1, <1>2 DEF CInv, Begun, Ctx

(* shell.c:33, 86-87 and 111: when the calls are over, no text that comes  *)
(* later is left red, whichever instructions the interrupt came between.   *)
THEOREM TextIsNotLeftRed == Spec => []ColorRestored
  <1>1. Frames /\ PInv /\ CInv => ColorRestored
    BY DEF CInv, Begun, Red, Showing, Reading, Rendering, Moving, Holding, ColorRestored, Quiescent, Ctx
  <1> QED  BY <1>1, PInitInv, PNextInv, ColorInit, ColorNext, PTL DEF Spec
-----------------------------------------------------------------------------
(* The streams.  A call that writes has the buffer and the length of its   *)
(* caller, and len is no more than that; the room that Clip takes for len  *)
(* was seen to be less.                                                    *)
Entering == {"index", "clip", "clip2"}
Storing  == Writing \ {"write"}
Written  == Entering \cup Writing

Types(f) == f.done \in Nat /\ f.len \in Int /\ f.asked \in Int
              /\ f.buf \in Seq(Byte) /\ f.todo \in Seq(Byte)

Asked(f) ==
  /\ f.pc \in Written => f.asked <= Len(f.buf) /\ f.op # "sys_read"
  /\ f.pc \in Entering => f.len = f.asked /\ f.done = 0
  /\ f.pc \in Writing => f.len <= f.asked
  /\ f.pc \in Storing => f.done < f.len
  /\ f.pc \in Written \ {"index"} => f.s \in Streams

Taken(f) ==
  /\ f.op = "sys_read" => f.pc \in Reading /\ f.s = STDIN /\ f.todo = <<>>
  /\ f.op # "sys_read" /\ f.pc \in Reading => f.len = RENDER_BUF
  /\ f.pc = "save" => f.s = STDOUT

Held(f) ==
  /\ f.pc \in {"store", "head2", "tail2"} => f.reg \in Slots
  /\ f.pc \in {"count2", "dec2"} => f.reg \in Int

Clipping == \A c \in Ctx : frame[c].pc = "clip2" => frame[c].len > Room(c)

StreamType ==
  [data : [Slots -> Byte \cup {NUL}], head : Slots, tail : Slots, count : Int]

(* The interrupt writes to stdin only, and nobody changes that under it.   *)
Key ==
  LET f == frame["irq"] IN
  /\ f.todo = <<>> /\ f.op # "sys_read"
  /\ f.pc \in Written => f.s = STDIN
  /\ f.pc = "count2" => f.reg = streams[STDIN].count

(* Nothing of o can be shown: sh_render would stop at once.  That is so    *)
(* unless the main line has written to o and not yet rendered it.  The     *)
(* interrupt takes bytes only from a stream of which it is not so, and     *)
(* that stays so while it does.                                            *)
Blocked(o) == streams[o].count <= 0 \/ streams[o].data[0] = NL
Busy(o) ==
  LET f == frame["main"] IN
  \/ f.pc \in Writing /\ f.s = o
  \/ f.pc \in Showing /\ f.s \in {STDOUT, o}
  \/ f.pc \in {"save", "red"} /\ o = STDERR
Taking ==
  LET f == frame["irq"] IN f.pc \in Reading /\ (f.pc = "read" => f.done > 0)
Rest ==
  /\ \A o \in {STDOUT, STDERR} : Blocked(o) \/ Busy(o)
  /\ Taking => Busy(frame["irq"].s)

SInv ==
  /\ streams \in [Streams -> StreamType]
  /\ \A c \in Ctx : Types(frame[c]) /\ Asked(frame[c]) /\ Taken(frame[c]) /\ Held(frame[c])
  /\ Clipping /\ Key /\ Rest
-----------------------------------------------------------------------------
(* What the steps of a call do to its frame and to its stream.             *)
Same(c) ==
  /\ frame'[c].op = frame[c].op /\ frame'[c].s = frame[c].s /\ frame'[c].buf = frame[c].buf
  /\ frame'[c].todo = frame[c].todo /\ frame'[c].asked = frame[c].asked
SameLength(c) == frame'[c].len = frame[c].len /\ frame'[c].done = frame[c].done

LEMMA SetsStream ==
  ASSUME streams \in [Streams -> StreamType], NEW c \in Ctx, frame[c].s \in Streams,
         NEW field \in {"data", "head", "tail", "count"}, NEW value, SetStream(c, field, value)
  PROVE  LET s == frame[c].s IN
         /\ DOMAIN streams' = Streams
         /\ \A o \in Streams \ {s} : streams'[o] = streams[o]
         /\ DOMAIN streams'[s] = {"data", "head", "tail", "count"}
         /\ streams'[s][field] = value
         /\ \A other \in {"data", "head", "tail", "count"} \ {field} :
              streams'[s][other] = streams[s][other]
         /\ streams'[s] = [streams[s] EXCEPT ![field] = value]
  BY DEF SetStream, F, StreamType

LEMMA LoadedSame ==
  ASSUME Frames, NEW c \in Ctx, NEW from, NEW to, NEW value, Load(c, from, to, value)
  PROVE  Same(c) /\ SameLength(c) /\ streams' = streams
  BY DEF Load, Goto, F, Frames, Fields, Same, SameLength, Local, shell

LEMMA ClipSteps ==
  ASSUME Frames, NEW c \in Ctx
  PROVE  /\ CheckStream(c) =>
              /\ Same(c) /\ SameLength(c) /\ streams' = streams /\ frame[c].pc = "index"
              /\ \/ frame[c].s \in Streams /\ frame'[c].pc = "clip"
                 \/ frame'[c].pc = "badstream"
         /\ TestRoom(c) =>
              /\ Same(c) /\ SameLength(c) /\ streams' = streams /\ frame[c].pc = "clip"
              /\ \/ frame[c].len > Room(c) /\ frame'[c].pc = "clip2"
                 \/ frame'[c].pc = "write"
         /\ Clip(c) =>
              /\ Same(c) /\ streams' = streams /\ frame[c].pc = "clip2" /\ frame'[c].pc = "write"
              /\ frame'[c].len = Room(c) /\ frame'[c].done = frame[c].done
  <1>1. CheckStream(c) =>
          /\ Same(c) /\ SameLength(c) /\ streams' = streams /\ frame[c].pc = "index"
          /\ \/ frame[c].s \in Streams /\ frame'[c].pc = "clip"
             \/ frame'[c].pc = "badstream"
    BY DEF CheckStream, At, Goto, F, Frames, Fields, Same, SameLength
  <1>2. ASSUME TestRoom(c)
        PROVE  /\ Same(c) /\ SameLength(c) /\ streams' = streams /\ frame[c].pc = "clip"
               /\ \/ frame[c].len > Room(c) /\ frame'[c].pc = "clip2"
                  \/ frame'[c].pc = "write"
    <2> DEFINE to == IF F(c).len > Room(c) THEN "clip2" ELSE "write"
    <2>1. Goto(c, [F(c) EXCEPT !.pc = to]) /\ streams' = streams /\ frame[c].pc = "clip"
      BY <1>2 DEF TestRoom, At, Local, shell, F
    <2>2. (frame[c].len > Room(c) /\ to = "clip2") \/ to = "write"
      BY DEF F
    <2> HIDE DEF to
    <2> QED  BY <2>1, <2>2 DEF Goto, F, Frames, Fields, Same, SameLength
  <1>3. ASSUME Clip(c)
        PROVE  /\ Same(c) /\ streams' = streams /\ frame[c].pc = "clip2" /\ frame'[c].pc = "write"
               /\ frame'[c].len = Room(c) /\ frame'[c].done = frame[c].done
    <2> DEFINE room == Room(c)
    <2>1. Goto(c, [F(c) EXCEPT !.len = room, !.pc = "write"]) /\ streams' = streams
          /\ frame[c].pc = "clip2"
      BY <1>3 DEF Clip, At, Local, shell, F
    <2> HIDE DEF room
    <2>2. Same(c) /\ frame'[c].pc = "write" /\ frame'[c].len = room /\ frame'[c].done = frame[c].done
      BY <2>1 DEF Goto, F, Frames, Fields, Same
    <2> QED  BY <2>1, <2>2 DEF room
  <1> QED  BY <1>1, <1>2, <1>3

LEMMA StoreSteps ==
  ASSUME Frames, NEW c \in Ctx
  PROVE  /\ LoadHead(c) =>
              /\ Same(c) /\ SameLength(c) /\ streams' = streams /\ frame[c].done < frame[c].len
              /\ frame[c].pc = "write" /\ frame'[c].pc = "store" /\ frame'[c].reg = S(c).head
         /\ StoreByte(c) =>
              /\ Same(c) /\ SameLength(c) /\ frame[c].pc = "store" /\ frame'[c].pc = "head"
              /\ SetStream(c, "data", [S(c).data EXCEPT ![frame[c].reg] = frame[c].buf[frame[c].done + 1]])
         /\ LoadHeadAgain(c) =>
              /\ Same(c) /\ SameLength(c) /\ streams' = streams
              /\ frame[c].pc = "head" /\ frame'[c].pc = "head2" /\ frame'[c].reg = S(c).head
         /\ StoreHead(c) =>
              /\ Same(c) /\ SameLength(c) /\ frame[c].pc = "head2" /\ frame'[c].pc = "count"
              /\ SetStream(c, "head", NextSlot(frame[c].reg))
         /\ LoadCount(c) =>
              /\ Same(c) /\ SameLength(c) /\ streams' = streams
              /\ frame[c].pc = "count" /\ frame'[c].pc = "count2" /\ frame'[c].reg = S(c).count
         /\ StoreCount(c) =>
              /\ Same(c) /\ frame[c].pc = "count2" /\ frame'[c].pc = "write"
              /\ frame'[c].len = frame[c].len /\ frame'[c].done = frame[c].done + 1
              /\ SetStream(c, "count", frame[c].reg + 1)
  <1>1. LoadHead(c) =>
          /\ Same(c) /\ SameLength(c) /\ streams' = streams /\ frame[c].done < frame[c].len
          /\ frame[c].pc = "write" /\ frame'[c].pc = "store" /\ frame'[c].reg = S(c).head
    BY Loaded, LoadedSame DEF LoadHead, F
  <1>2. StoreByte(c) =>
          /\ Same(c) /\ SameLength(c) /\ frame[c].pc = "store" /\ frame'[c].pc = "head"
          /\ SetStream(c, "data", [S(c).data EXCEPT ![frame[c].reg] = frame[c].buf[frame[c].done + 1]])
    BY DEF StoreByte, At, Goto, F, Frames, Fields, Same, SameLength
  <1>3. LoadHeadAgain(c) =>
          /\ Same(c) /\ SameLength(c) /\ streams' = streams
          /\ frame[c].pc = "head" /\ frame'[c].pc = "head2" /\ frame'[c].reg = S(c).head
    BY Loaded, LoadedSame DEF LoadHeadAgain
  <1>4. StoreHead(c) =>
          /\ Same(c) /\ SameLength(c) /\ frame[c].pc = "head2" /\ frame'[c].pc = "count"
          /\ SetStream(c, "head", NextSlot(frame[c].reg))
    BY DEF StoreHead, At, Goto, F, Frames, Fields, Same, SameLength
  <1>5. LoadCount(c) =>
          /\ Same(c) /\ SameLength(c) /\ streams' = streams
          /\ frame[c].pc = "count" /\ frame'[c].pc = "count2" /\ frame'[c].reg = S(c).count
    BY Loaded, LoadedSame DEF LoadCount
  <1>6. StoreCount(c) =>
          /\ Same(c) /\ frame[c].pc = "count2" /\ frame'[c].pc = "write"
          /\ frame'[c].len = frame[c].len /\ frame'[c].done = frame[c].done + 1
          /\ SetStream(c, "count", frame[c].reg + 1)
    BY DEF StoreCount, At, Goto, F, Frames, Fields, Same
  <1> QED  BY <1>1, <1>2, <1>3, <1>4, <1>5, <1>6
Good(c) == Types(frame[c]) /\ Asked(frame[c]) /\ Taken(frame[c]) /\ Held(frame[c])

LEMMA ReadSteps ==
  ASSUME Frames, NEW c \in Ctx
  PROVE  /\ TestRead(c) =>
              /\ Same(c) /\ SameLength(c) /\ streams' = streams
              /\ frame[c].pc = "read" /\ frame'[c].pc = "take"
              /\ frame[c].done = 0 => S(c).count > 0 /\ S(c).data[0] # NL
         /\ TakeByte(c) =>
              /\ Same(c) /\ SameLength(c) /\ streams' = streams
              /\ frame[c].pc = "take" /\ frame'[c].pc = "tail"
         /\ LoadTail(c) =>
              /\ Same(c) /\ SameLength(c) /\ streams' = streams
              /\ frame[c].pc = "tail" /\ frame'[c].pc = "tail2" /\ frame'[c].reg = S(c).tail
         /\ StoreTail(c) =>
              /\ Same(c) /\ SameLength(c) /\ frame[c].pc = "tail2" /\ frame'[c].pc = "dec"
              /\ SetStream(c, "tail", NextSlot(frame[c].reg))
         /\ LoadCountToRead(c) =>
              /\ Same(c) /\ SameLength(c) /\ streams' = streams
              /\ frame[c].pc = "dec" /\ frame'[c].pc = "dec2" /\ frame'[c].reg = S(c).count
         /\ StoreCountRead(c) =>
              /\ Same(c) /\ frame[c].pc = "dec2" /\ frame'[c].pc = "read"
              /\ frame'[c].len = frame[c].len /\ frame'[c].done = frame[c].done + 1
              /\ SetStream(c, "count", frame[c].reg - 1)
  <1>0. 0 \in Slots
    BY ConsoleAssumption DEF Slots
  <1>1. ASSUME TestRead(c)
        PROVE  /\ Same(c) /\ SameLength(c) /\ streams' = streams
               /\ frame[c].pc = "read" /\ frame'[c].pc = "take"
               /\ frame[c].done = 0 => S(c).count > 0 /\ S(c).data[0] # NL
    <2>1. Same(c) /\ SameLength(c) /\ streams' = streams /\ frame[c].pc = "read" /\ frame'[c].pc = "take"
      BY <1>1 DEF TestRead, At, Goto, F, Frames, Fields, Same, SameLength, Local, shell
    <2>2. PICK stop \in AtNewline(c) : ReadMore(c, stop)
      BY <1>1 DEF TestRead
    <2>3. frame[c].done = 0 => stop = (S(c).data[0] = NL)
      BY <1>0, <2>2 DEF AtNewline, F
    <2> QED  BY <2>1, <2>2, <2>3 DEF ReadMore
  <1>2. TakeByte(c) =>
          /\ Same(c) /\ SameLength(c) /\ streams' = streams
          /\ frame[c].pc = "take" /\ frame'[c].pc = "tail"
    BY DEF TakeByte, At, Goto, F, Frames, Fields, Same, SameLength, Local, shell
  <1>3. LoadTail(c) =>
          /\ Same(c) /\ SameLength(c) /\ streams' = streams
          /\ frame[c].pc = "tail" /\ frame'[c].pc = "tail2" /\ frame'[c].reg = S(c).tail
    BY Loaded, LoadedSame DEF LoadTail
  <1>4. StoreTail(c) =>
          /\ Same(c) /\ SameLength(c) /\ frame[c].pc = "tail2" /\ frame'[c].pc = "dec"
          /\ SetStream(c, "tail", NextSlot(frame[c].reg))
    BY DEF StoreTail, At, Goto, F, Frames, Fields, Same, SameLength
  <1>5. LoadCountToRead(c) =>
          /\ Same(c) /\ SameLength(c) /\ streams' = streams
          /\ frame[c].pc = "dec" /\ frame'[c].pc = "dec2" /\ frame'[c].reg = S(c).count
    BY Loaded, LoadedSame DEF LoadCountToRead
  <1>6. StoreCountRead(c) =>
          /\ Same(c) /\ frame[c].pc = "dec2" /\ frame'[c].pc = "read"
          /\ frame'[c].len = frame[c].len /\ frame'[c].done = frame[c].done + 1
          /\ SetStream(c, "count", frame[c].reg - 1)
    BY DEF StoreCountRead, At, Goto, F, Frames, Fields, Same
  <1> QED  BY <1>1, <1>2, <1>3, <1>4, <1>5, <1>6

LEMMA TurnsSame ==
  ASSUME Frames, NEW c \in Ctx
  PROVE  /\ WriteReturn(c) =>
              /\ streams' = streams /\ frame'[c].op = frame[c].op /\ frame'[c].asked = frame[c].asked
              /\ frame'[c].todo = frame[c].todo /\ frame'[c].buf = <<>>
              /\ frame'[c].len = RENDER_BUF /\ frame'[c].done = 0
         /\ SaveColor(c) => Same(c) /\ SameLength(c) /\ streams' = streams
         /\ SetRed(c) =>
              /\ streams' = streams /\ frame'[c].op = frame[c].op /\ frame'[c].asked = frame[c].asked
              /\ frame'[c].todo = frame[c].todo /\ frame'[c].buf = frame[c].buf
              /\ frame'[c].len = RENDER_BUF /\ frame'[c].done = 0
         /\ ReadReturn(c) =>
              /\ Same(c) /\ SameLength(c) /\ streams' = streams
              /\ frame[c].done = 0 /\ frame[c].len = RENDER_BUF =>
                   S(c).count <= 0 \/ S(c).data[0] = NL \/ S(c).count \notin Int
              /\ frame[c].done > 0 => frame'[c].pc = "byte"
              /\ frame[c].done = 0 => frame'[c].pc = IF frame[c].s = STDOUT THEN "save" ELSE "restore"
  <1>0. 0 \in Slots /\ RENDER_BUF \in Nat /\ 0 < RENDER_BUF
    BY ConsoleAssumption DEF Slots
  <1>1. WriteReturn(c) =>
          /\ streams' = streams /\ frame'[c].op = frame[c].op /\ frame'[c].asked = frame[c].asked
          /\ frame'[c].todo = frame[c].todo /\ frame'[c].buf = <<>>
          /\ frame'[c].len = RENDER_BUF /\ frame'[c].done = 0
    BY DEF WriteReturn, StartRead, Goto, F, Frames, Fields, Local, shell
  <1>2. SaveColor(c) => Same(c) /\ SameLength(c) /\ streams' = streams
    BY DEF SaveColor, Goto, F, Frames, Fields, Local, shell, Same, SameLength
  <1>3. SetRed(c) =>
          /\ streams' = streams /\ frame'[c].op = frame[c].op /\ frame'[c].asked = frame[c].asked
          /\ frame'[c].todo = frame[c].todo /\ frame'[c].buf = frame[c].buf
          /\ frame'[c].len = RENDER_BUF /\ frame'[c].done = 0
    BY DEF SetRed, SetColor, StartRead, Goto, F, Frames, Fields
  <1>4. ASSUME ReadReturn(c)
        PROVE  /\ Same(c) /\ SameLength(c) /\ streams' = streams
               /\ frame[c].done = 0 /\ frame[c].len = RENDER_BUF =>
                    S(c).count <= 0 \/ S(c).data[0] = NL \/ S(c).count \notin Int
               /\ frame[c].done > 0 => frame'[c].pc = "byte"
               /\ frame[c].done = 0 => frame'[c].pc = IF frame[c].s = STDOUT THEN "save" ELSE "restore"
    <2> DEFINE to == IF F(c).done > 0 THEN "byte" ELSE IF F(c).s = STDOUT THEN "save" ELSE "restore"
    <2>1. Goto(c, [F(c) EXCEPT !.pc = to]) /\ streams' = streams
      BY <1>4 DEF ReadReturn, Local, shell
    <2>2. /\ frame[c].done > 0 => to = "byte"
          /\ frame[c].done = 0 => to = IF frame[c].s = STDOUT THEN "save" ELSE "restore"
      BY DEF F
    <2> HIDE DEF to
    <2>3. Same(c) /\ SameLength(c) /\ frame'[c].pc = to
      BY <2>1 DEF Goto, F, Frames, Fields, Same, SameLength
    <2>4. PICK stop \in AtNewline(c) : ~ReadMore(c, stop)
      BY <1>4 DEF ReadReturn, ReadEnds
    <2>5. frame[c].done = 0 => stop = (S(c).data[0] = NL)
      BY <1>0, <2>4 DEF AtNewline, F
    <2>6. frame[c].done = 0 /\ frame[c].len = RENDER_BUF =>
            S(c).count <= 0 \/ S(c).data[0] = NL \/ S(c).count \notin Int
      <3>1. frame[c].done = 0 /\ frame[c].len = RENDER_BUF =>
              ~ (frame[c].done < frame[c].len) \/ ~ (S(c).count > 0) \/ S(c).data[0] = NL
        BY <2>4, <2>5 DEF ReadMore, F
      <3> QED  BY <1>0, <3>1
    <2> QED  BY <2>1, <2>2, <2>3, <2>6
  <1> QED  BY <1>1, <1>2, <1>3, <1>4
LEMMA ShowSteps ==
  ASSUME Frames, NEW c \in Ctx,
         \/ CarriageReturn(c) \/ StartOfLine(c) \/ LineFeed(c) \/ NextLine(c)
         \/ LoadCell(c) \/ Advance(c) \/ Scroll(c)
         \/ StoreStartOfLine(c) \/ Ignore(c) \/ NoWrap(c) \/ StoreScrolled(c)
         \/ Fits(c) \/ Paint(c) \/ StoreCursor(c) \/ Wrap(c)
  PROVE  /\ Same(c) /\ streams' = streams
         /\ \/ frame'[c].pc # "read" /\ SameLength(c)
            \/ frame'[c].pc = "read" /\ frame'[c].len = RENDER_BUF /\ frame'[c].done = 0
  <1>1. CASE \/ CarriageReturn(c) \/ StartOfLine(c) \/ LineFeed(c) \/ NextLine(c)
             \/ LoadCell(c) \/ Advance(c) \/ Scroll(c)
    <2>1. Same(c) /\ SameLength(c) /\ streams' = streams
      BY <1>1, LoadedSame
         DEF CarriageReturn, StartOfLine, LineFeed, NextLine, LoadCell, Advance, Scroll
    <2>2. frame'[c].pc # "read"
      BY <1>1, CursorLoads
    <2> QED  BY <2>1, <2>2
  <1>2. CASE StoreStartOfLine(c) \/ Ignore(c) \/ NoWrap(c) \/ StoreScrolled(c)
    <2>1. Goto(c, NextByte(c)) /\ streams' = streams
      BY <1>2 DEF StoreStartOfLine, Ignore, NoWrap, StoreScrolled, Local, SetCursor, shell
    <2>2. CASE Len(F(c).out) > 1
      BY <2>1, <2>2 DEF NextByte, Goto, F, Frames, Fields, Same, SameLength
    <2>3. CASE ~ (Len(F(c).out) > 1)
      BY <2>1, <2>3 DEF NextByte, StartRead, Goto, F, Frames, Fields, Same
    <2> QED  BY <2>2, <2>3
  <1>3. CASE Fits(c)
    BY <1>3 DEF Fits, Goto, F, Frames, Fields, Same, SameLength, Local, shell
  <1>4. CASE Paint(c)
    BY <1>4 DEF Paint, Goto, F, Frames, Fields, Same, SameLength, Local, shell
  <1>5. CASE StoreCursor(c)
    BY <1>5 DEF StoreCursor, SetCursor, Goto, F, Frames, Fields, Same, SameLength
  <1>6. CASE Wrap(c)
    BY <1>6 DEF Wrap, Goto, F, Frames, Fields, Same, SameLength, Local, shell
  <1> QED  BY <1>1, <1>2, <1>3, <1>4, <1>5, <1>6

(* One byte of a text is a write of its own.                               *)
LEMMA TextParts ==
  ASSUME NEW text \in Seq(Byte), text # <<>>
  PROVE  <<Head(text)>> \in Seq(Byte) /\ Len(<<Head(text)>>) = 1 /\ Tail(text) \in Seq(Byte)
  OBVIOUS

LEMMA GoodIdle ==
  ASSUME NEW c \in Ctx, frame[c] = Idle
  PROVE  Good(c)
  BY DEF Good, Idle, Types, Asked, Taken, Held, Entering, Storing, Written, Writing, Reading, STDIN

LEMMA FinishSteps ==
  ASSUME Frames, NEW c \in Ctx, Good(c), Finish(c)
  PROVE  Good(c)' /\ (frame[c].todo = <<>> => frame'[c] = Idle)
  <1>1. CASE F(c).todo # <<>>
    <2> DEFINE b == <<Head(F(c).todo)>>
               rest == Tail(F(c).todo)
    <2>1. Goto(c, [F(c) EXCEPT !.pc = "index", !.s = STDOUT, !.buf = b, !.len = 1,
                               !.asked = 1, !.done = 0, !.todo = rest])
      BY <1>1 DEF Finish, Putc
    <2>2. b \in Seq(Byte) /\ Len(b) = 1 /\ rest \in Seq(Byte)
      BY <1>1, TextParts DEF Good, Types, F
    <2> HIDE DEF b, rest
    <2>3. /\ frame'[c].pc = "index" /\ frame'[c].s = STDOUT /\ frame'[c].buf = b
          /\ frame'[c].len = 1 /\ frame'[c].asked = 1 /\ frame'[c].done = 0
          /\ frame'[c].todo = rest /\ frame'[c].op = frame[c].op
      BY <2>1 DEF Goto, F, Frames, Fields
    <2>4. frame[c].op # "sys_read"
      BY <1>1 DEF Good, Taken, F
    <2>5. Types(frame[c])'
      BY <2>2, <2>3 DEF Types
    <2>6. Asked(frame[c])' /\ Taken(frame[c])' /\ Held(frame[c])'
      <3>1. frame'[c].pc \in Entering \cap Written
            /\ frame'[c].pc \notin Writing \cup Storing \cup Reading
        BY <2>3 DEF Entering, Storing, Written, Writing, Reading
      <3>2. Len(frame'[c].buf) = 1
        BY <2>2, <2>3
      <3>3. Asked(frame[c])'
        BY <2>3, <2>4, <3>1, <3>2 DEF Asked
      <3>4. Taken(frame[c])'
        BY <2>3, <2>4, <3>1 DEF Taken
      <3>5. Held(frame[c])'
        BY <2>3, <3>1 DEF Held
      <3> QED  BY <3>3, <3>4, <3>5
    <2> QED  BY <1>1, <2>5, <2>6 DEF Good, F
  <1>2. CASE F(c).todo = <<>>
    <2>1. frame'[c] = Idle
      BY <1>2 DEF Finish, Goto, Frames
    <2>2. Good(c)'
      BY <2>1 DEF Good, Idle, Types, Asked, Taken, Held, Entering, Storing, Written, Writing,
                  Reading, STDIN
    <2> QED  BY <2>1, <2>2
  <1> QED  BY <1>1, <1>2 DEF F
(* A frame that a call begins with, given by its fields.                   *)
LEMMA GoodStart ==
  ASSUME Frames, NEW c \in Ctx, NEW f, Goto(c, f), f.done = 0, f.len \in Int, f.asked = f.len,
         f.buf \in Seq(Byte), f.todo \in Seq(Byte),
         \/ f.pc = "index" /\ f.len <= Len(f.buf) /\ f.op # "sys_read"
         \/ f.pc = "read" /\ f.op = "sys_read" /\ f.s = STDIN /\ f.todo = <<>>
  PROVE  Good(c)' /\ frame'[c] = f
  <1>1. frame'[c] = f
    BY DEF Goto, Frames
  <1>2. Types(f)
    BY DEF Types
  <1>3. \/ f.pc = "index" /\ f.pc \in Entering \cap Written /\ f.pc \notin Writing \cup Storing \cup Reading
        \/ f.pc = "read" /\ f.pc \in Reading /\ f.pc \notin Entering \cup Written \cup Writing \cup Storing
    BY DEF Entering, Storing, Written, Writing, Reading
  <1>4. Asked(f)
    BY <1>3 DEF Asked
  <1>5. Taken(f)
    BY <1>3 DEF Taken
  <1>6. Held(f)
    BY <1>3 DEF Held
  <1> QED  BY <1>1, <1>2, <1>4, <1>5, <1>6 DEF Good

LEMMA BeginSteps ==
  ASSUME Frames,
         \/ Puts(Message) \/ SysBadPointer
         \/ (\E fd \in Fds, b \in Buffers, n \in Lens : SysWrite(fd, b, n))
         \/ (\E n \in Lens : SysRead(n))
  PROVE  Good("main")' /\ streams' = streams
  <1>0. "main" \in Ctx
    BY DEF Ctx
  <1>1. ASSUME NEW op \in {"print", "sys_bad"}, Call(Putc([Idle EXCEPT !.op = op], Message))
        PROVE  Good("main")' /\ streams' = streams
    <2> DEFINE b == <<Head(Message)>>
               rest == Tail(Message)
               f == [[Idle EXCEPT !.op = op] EXCEPT !.pc = "index", !.s = STDOUT, !.buf = b,
                       !.len = 1, !.asked = 1, !.done = 0, !.todo = rest]
    <2>1. b \in Seq(Byte) /\ Len(b) = 1 /\ rest \in Seq(Byte)
      BY ConsoleAssumption, TextParts
    <2>2. Goto("main", f) /\ streams' = streams
      BY <1>1 DEF Call, Putc, shell
    <2> HIDE DEF b, rest
    <2>3. /\ f.pc = "index" /\ f.op = op /\ f.buf = b /\ f.len = 1 /\ f.asked = 1 /\ f.done = 0
          /\ f.todo = rest
      BY DEF Idle
    <2> HIDE DEF f
    <2>4. Len(f.buf) = 1
      BY ONLY <2>1, <2>3
    <2>5. f.len \in Int /\ f.len <= Len(f.buf) /\ f.asked = f.len /\ f.op # "sys_read"
      BY <2>3, <2>4
    <2> QED  BY <1>0, <2>1, <2>2, <2>3, <2>5, GoodStart
  <1>2. CASE Puts(Message)
    BY <1>1, <1>2 DEF Puts
  <1>3. ASSUME NEW fd \in Fds, NEW b \in Buffers, NEW n \in Lens, SysWrite(fd, b, n)
        PROVE  Good("main")' /\ streams' = streams
    <2> DEFINE f == [Idle EXCEPT !.op = "sys_write", !.pc = "index", !.s = fd, !.buf = b,
                                 !.len = n, !.asked = n]
    <2>0. n <= Len(b)
      BY <1>3 DEF SysWrite
    <2>1. b \in Seq(Byte) /\ n \in Int /\ <<>> \in Seq(Byte)
      BY ConsoleAssumption
    <2>2. Goto("main", f) /\ streams' = streams
      BY <1>3 DEF SysWrite, Call, shell
    <2>3. /\ f.pc = "index" /\ f.op = "sys_write" /\ f.buf = b /\ f.len = n /\ f.asked = n
          /\ f.done = 0 /\ f.todo = <<>>
      BY DEF Idle
    <2> HIDE DEF f
    <2>4. f.len \in Int /\ f.len <= Len(f.buf) /\ f.asked = f.len /\ f.op # "sys_read"
      BY <2>0, <2>1, <2>3
    <2> QED  BY <1>0, <2>1, <2>2, <2>3, <2>4, GoodStart
  <1>4. ASSUME NEW n \in Lens, SysRead(n)
        PROVE  Good("main")' /\ streams' = streams
    <2> DEFINE f == [Idle EXCEPT !.op = "sys_read", !.pc = "read", !.s = STDIN, !.len = n, !.asked = n]
    <2>1. n \in Int /\ <<>> \in Seq(Byte)
      BY ConsoleAssumption
    <2>2. Goto("main", f) /\ streams' = streams
      BY <1>4 DEF SysRead, Call, shell
    <2>3. /\ f.pc = "read" /\ f.op = "sys_read" /\ f.buf = <<>> /\ f.len = n /\ f.asked = n
          /\ f.done = 0 /\ f.todo = <<>> /\ f.s = STDIN
      BY DEF Idle
    <2> HIDE DEF f
    <2> QED  BY <1>0, <2>1, <2>2, <2>3, GoodStart
  <1>5. CASE SysBadPointer
    BY <1>1, <1>5 DEF SysBadPointer
  <1> QED  BY <1>2, <1>3, <1>4, <1>5

LEMMA KeySteps ==
  ASSUME Frames, NEW k \in Keys, KeyPress(k)
  PROVE  /\ Good("irq")' /\ streams' = streams
         /\ frame'["irq"].todo = <<>> /\ frame'["irq"].s = STDIN
  <1> DEFINE f == [Idle EXCEPT !.op = "key", !.pc = "index", !.s = STDIN,
                               !.buf = <<k>>, !.len = 1, !.asked = 1]
  <1>0. "irq" \in Ctx
    BY DEF Ctx
  <1>1. Goto("irq", f) /\ streams' = streams
    BY DEF KeyPress, shell
  <1>2. /\ f.pc = "index" /\ f.op = "key" /\ f.buf = <<k>> /\ f.len = 1 /\ f.asked = 1
        /\ f.done = 0 /\ f.todo = <<>> /\ f.s = STDIN
    BY DEF Idle
  <1>3. <<k>> \in Seq(Byte) /\ Len(<<k>>) = 1 /\ <<>> \in Seq(Byte)
    BY ConsoleAssumption
  <1> HIDE DEF f
  <1>4. Len(f.buf) = 1
    BY ONLY <1>2, <1>3
  <1>5. f.len \in Int /\ f.len <= Len(f.buf) /\ f.asked = f.len /\ f.op # "sys_read"
    BY <1>2, <1>4
  <1> QED  BY <1>0, <1>1, <1>2, <1>3, <1>5, GoodStart
-----------------------------------------------------------------------------
(* A step of one context leaves alone what the other relies on.            *)
LEMMA Joined ==
  ASSUME SInv, NEW c \in Ctx, Goes1(c), Good(c)', streams' \in [Streams -> StreamType],
         frame'[c].pc = "clip2" => frame'[c].len > Room(c)',
         c = "main" => \A o \in {STDOUT, STDERR} : Blocked(o)' \/ Busy(o)',
         c = "irq" =>
           /\ Key'
           /\ Taking' => Busy(frame'["irq"].s)
           /\ \A o \in Streams :
                \/ streams'[o] = streams[o]
                \/ Taking /\ o = frame["irq"].s
                \/ o = STDIN /\ streams'[o].count >= streams[o].count
  PROVE  SInv'
  <1>1. CASE c = "irq"
    <2>1. frame'["main"] = frame["main"]
      BY <1>1, Context
    <2>2. \A o : Busy(o)' <=> Busy(o)
      BY <2>1 DEF Busy
    <2>3. ASSUME NEW o \in {STDOUT, STDERR}
          PROVE  Blocked(o)' \/ Busy(o)'
      <3>1. o \in Streams /\ o # STDIN
        BY DEF Streams, STDIN, STDOUT, STDERR
      <3>2. Blocked(o) \/ Busy(o)
        BY DEF SInv, Rest
      <3>3. streams'[o] = streams[o] \/ Busy(o)
        BY <1>1, <3>1 DEF SInv, Rest
      <3> QED  BY <2>2, <3>2, <3>3 DEF Blocked
    <2>4. ASSUME frame["main"].pc = "clip2"
          PROVE  frame'["main"].len > Room("main")'
      <3> DEFINE o == frame["main"].s
      <3>1. o \in Streams /\ frame["main"].len > Room("main") /\ frame["main"].len \in Int
        BY <2>4 DEF SInv, Clipping, Ctx, Asked, Types, Written, Entering
      <3>2. ~ Busy(o)
        BY <2>4 DEF Busy, Writing, Showing, Reading, Rendering, Moving, Holding
      <3>3. \/ streams'[o] = streams[o]
            \/ o = STDIN /\ streams'[o].count >= streams[o].count
        BY <1>1, <3>1, <3>2 DEF SInv, Rest
      <3>4. STREAM_BUF_SIZE \in Int
        BY ConsoleAssumption
      <3>5. streams[o].count \in Int /\ streams'[o].count \in Int
        BY <3>1 DEF SInv, StreamType
      <3>6. Room("main") = STREAM_BUF_SIZE - streams[o].count
            /\ Room("main")' = STREAM_BUF_SIZE - streams'[o].count
        BY <2>1 DEF Room, S
      <3> HIDE DEF o
      <3> QED  BY <2>1, <3>1, <3>3, <3>4, <3>5, <3>6
    <2>5. Clipping'
      BY <1>1, <2>1, <2>4 DEF Clipping, Ctx
    <2>6. Rest'
      BY <1>1, <2>2, <2>3 DEF Rest
    <2>7. Good("main")' /\ Good("irq")'
      BY <1>1, <2>1 DEF SInv, Good, Ctx
    <2> QED  BY <1>1, <2>5, <2>6, <2>7 DEF SInv, Good, Ctx
  <1>2. CASE c = "main"
    <2>1. frame["irq"].pc = "idle" /\ frame'["irq"] = frame["irq"]
      BY <1>2, Context
    <2>2. Clipping'
      BY <1>2, <2>1 DEF Clipping, Ctx
    <2>3. Key'
      BY <2>1 DEF SInv, Key
    <2>4. ~ Taking'
      BY <2>1 DEF Taking, Reading
    <2>5. Rest'
      BY <1>2, <2>4 DEF Rest
    <2>6. Good("main")' /\ Good("irq")'
      BY <1>2, <2>1 DEF SInv, Good, Ctx
    <2> QED  BY <2>2, <2>3, <2>5, <2>6 DEF SInv, Good, Ctx
  <1> QED  BY <1>1, <1>2 DEF Ctx

\* As above, for a step that leaves the streams themselves alone.
LEMMA JoinedSame ==
  ASSUME SInv, NEW c \in Ctx, Goes1(c), Good(c)', streams' = streams,
         frame'[c].pc = "clip2" => frame'[c].len > Room(c)',
         c = "main" => \A o \in {STDOUT, STDERR} : Busy(o) => Blocked(o) \/ Busy(o)',
         c = "irq" => Key' /\ (Taking' => Busy(frame'["irq"].s))
  PROVE  SInv'
  <1>1. \A o : Blocked(o)' <=> Blocked(o)
    BY DEF Blocked
  <1>2. c = "main" => \A o \in {STDOUT, STDERR} : Blocked(o)' \/ Busy(o)'
    BY <1>1 DEF SInv, Rest
  <1>3. streams' \in [Streams -> StreamType]
    BY DEF SInv
  <1> QED  BY <1>2, <1>3, Joined
(* The steps of stream_write that leave the stream alone.                  *)
LEMMA WriteLoads ==
  ASSUME Frames, SInv, NEW c \in Ctx,
         \/ CheckStream(c) \/ TestRoom(c) \/ Clip(c)
         \/ LoadHead(c) \/ LoadHeadAgain(c) \/ LoadCount(c)
  PROVE  SInv'
  <1>1. Goes1(c)
    BY Turns, WritingStep
  <1>2. Good(c) /\ streams \in [Streams -> StreamType] /\ (c = "irq" => Key)
    BY DEF SInv, Good
  <1>3. /\ streams' = streams /\ Same(c) /\ frame'[c].done = frame[c].done
        /\ frame[c].pc \in Written
        /\ frame'[c].pc \in (Written \ {"index"}) \cup {"badstream"}
        /\ frame[c].pc \in Writing => frame'[c].pc \in Writing
    <2>1. CASE CheckStream(c)
      BY <2>1, ClipSteps DEF SameLength, Written, Entering, Writing
    <2>2. CASE TestRoom(c)
      BY <2>2, ClipSteps DEF SameLength, Written, Entering, Writing
    <2>3. CASE Clip(c)
      BY <2>3, ClipSteps DEF Written, Entering, Writing
    <2>4. CASE LoadHead(c) \/ LoadHeadAgain(c) \/ LoadCount(c)
      BY <2>4, StoreSteps DEF SameLength, Written, Entering, Writing
    <2> QED  BY <2>1, <2>2, <2>3, <2>4
  <1>4. Good(c)'
    <2>1. CASE CheckStream(c)
      <3>1. SameLength(c) /\ \/ frame'[c].pc = "badstream"
                             \/ frame'[c].pc = "clip" /\ frame[c].s \in Streams
        BY <2>1, ClipSteps
      <3>2. frame[c].pc = "index"
        BY <2>1, ClipSteps
      <3> QED  BY <1>2, <1>3, <3>1, <3>2
               DEF Good, Types, Asked, Taken, Held, Written, Entering, Storing, Writing, Reading,
                   Same, SameLength
    <2>2. CASE TestRoom(c)
      <3>1. SameLength(c) /\ frame[c].pc = "clip" /\ frame'[c].pc \in {"clip2", "write"}
        BY <2>2, ClipSteps
      <3> QED  BY <1>2, <1>3, <3>1
               DEF Good, Types, Asked, Taken, Held, Written, Entering, Storing, Writing, Reading,
                   Same, SameLength
    <2>3. CASE Clip(c)
      <3>1. frame[c].pc = "clip2" /\ frame'[c].pc = "write" /\ frame'[c].len = Room(c)
        BY <2>3, ClipSteps
      <3>2. Room(c) \in Int /\ frame[c].len > Room(c) /\ frame[c].s \in Streams
        <4>1. frame[c].s \in Streams /\ STREAM_BUF_SIZE \in Int
          BY <1>2, <3>1, ConsoleAssumption DEF Good, Asked, Written, Entering
        <4>2. streams[frame[c].s].count \in Int
          BY <1>2, <4>1 DEF StreamType
        <4> QED  BY <3>1, <4>1, <4>2 DEF Room, S, SInv, Clipping
      <3>3. frame[c].len = frame[c].asked /\ frame[c].len \in Int
        BY <1>2, <3>1 DEF Good, Types, Asked, Entering
      <3>4. frame'[c].len <= frame'[c].asked /\ frame'[c].len \in Int
        BY <1>3, <3>1, <3>2, <3>3 DEF Same
      <3> QED  BY <1>2, <1>3, <3>1, <3>2, <3>4
               DEF Good, Types, Asked, Taken, Held, Written, Entering, Storing, Writing, Reading, Same
    <2>4. CASE LoadHead(c) \/ LoadHeadAgain(c)
      <3>1. /\ SameLength(c) /\ frame'[c].reg = S(c).head
            /\ \/ frame[c].pc = "write" /\ frame[c].done < frame[c].len /\ frame'[c].pc = "store"
               \/ frame[c].pc = "head" /\ frame'[c].pc = "head2"
        BY <2>4, StoreSteps
      <3>2. frame[c].s \in Streams
        BY <1>2, <3>1 DEF Good, Asked, Written, Writing
      <3>3. S(c).head \in Slots
        BY <1>2, <3>2 DEF S, StreamType
      <3> QED  BY <1>2, <1>3, <3>1, <3>2, <3>3
               DEF Good, Types, Asked, Taken, Held, Written, Entering, Storing, Writing, Reading,
                   Same, SameLength
    <2>5. CASE LoadCount(c)
      <3>1. SameLength(c) /\ frame'[c].reg = S(c).count /\ frame[c].pc = "count" /\ frame'[c].pc = "count2"
        BY <2>5, StoreSteps
      <3>2. frame[c].s \in Streams
        BY <1>2, <3>1 DEF Good, Asked, Written, Writing
      <3>3. S(c).count \in Int
        BY <1>2, <3>2 DEF S, StreamType
      <3> QED  BY <1>2, <1>3, <3>1, <3>2, <3>3
               DEF Good, Types, Asked, Taken, Held, Written, Entering, Storing, Writing, Reading,
                   Same, SameLength
    <2> QED  BY <2>1, <2>2, <2>3, <2>4, <2>5
  <1>5. frame'[c].pc = "clip2" => frame'[c].len > Room(c)'
    <2>1. frame'[c].pc = "clip2" => TestRoom(c)
      BY ClipSteps, StoreSteps
    <2>2. Room(c)' = Room(c)
      BY <1>3 DEF Room, S, Same
    <2> QED  BY <2>1, <2>2, ClipSteps DEF SameLength
  <1>6. ASSUME NEW o \in {STDOUT, STDERR}, c = "main", Busy(o)
        PROVE  Busy(o)'
    BY <1>3, <1>6 DEF Busy, Same, Written, Entering, Writing, Showing, Reading, Rendering, Moving, Holding
  <1>7. ASSUME c = "irq"
        PROVE  Key' /\ ~ Taking'
    <2>1. ~ Taking'
      BY <1>3, <1>7 DEF Taking, Reading, Written, Entering, Writing
    <2>2. frame'["irq"].pc = "count2" => frame'["irq"].reg = streams'[STDIN].count
      <3>1. frame'[c].pc = "count2" => LoadCount(c)
        BY ClipSteps, StoreSteps
      <3>2. frame[c].s = STDIN
        BY <1>2, <1>3, <1>7 DEF Key
      <3> QED  BY <1>3, <1>7, <3>1, <3>2, StoreSteps DEF S
    <2>3. Key'
      BY <1>2, <1>3, <1>7, <2>2 DEF Key, Same
    <2> QED  BY <2>1, <2>3
  <1> QED  BY <1>1, <1>3, <1>4, <1>5, <1>6, <1>7, JoinedSame

LEMMA Slot ==
  ASSUME NEW i \in Slots
  PROVE  NextSlot(i) \in Slots
  <1>1. STREAM_BUF_SIZE \in Nat \ {0} /\ i + 1 \in Int
    BY ConsoleAssumption DEF Slots
  <1>2. (i + 1) % STREAM_BUF_SIZE \in 0..STREAM_BUF_SIZE-1
    BY ONLY <1>1, ModRange
  <1> QED  BY <1>2 DEF NextSlot, Slots

(* A field of a stream gets a value of its type.                           *)
LEMMA StreamSet ==
  ASSUME streams \in [Streams -> StreamType], NEW c \in Ctx, frame[c].s \in Streams,
         NEW field \in {"data", "head", "tail", "count"}, NEW value, SetStream(c, field, value),
         \/ field = "data" /\ value \in [Slots -> Byte \cup {NUL}]
         \/ field \in {"head", "tail"} /\ value \in Slots
         \/ field = "count" /\ value \in Int
  PROVE  streams' \in [Streams -> StreamType]
  <1> DEFINE s == frame[c].s
             t == [streams[s] EXCEPT ![field] = value]
  <1>1. streams' = [streams EXCEPT ![s] = t]
    BY DEF SetStream, F
  <1>2. streams[s] \in StreamType
    OBVIOUS
  <1>3. t \in StreamType
    BY <1>2 DEF StreamType
  <1> HIDE DEF t
  <1> QED  BY <1>1, <1>3
(* The steps of stream_write that change the stream.                       *)
LEMMA WriteStores ==
  ASSUME Frames, SInv, NEW c \in Ctx, StoreByte(c) \/ StoreHead(c) \/ StoreCount(c)
  PROVE  SInv'
  <1> DEFINE s == frame[c].s
  <1>1. Goes1(c)
    BY WritingStep
  <1>2. Good(c) /\ streams \in [Streams -> StreamType] /\ (c = "irq" => Key)
    BY DEF SInv, Good
  <1>3. /\ Same(c) /\ frame'[c].len = frame[c].len
        /\ \/ frame[c].pc = "store" /\ frame'[c].pc = "head" /\ frame'[c].done = frame[c].done
           \/ frame[c].pc = "head2" /\ frame'[c].pc = "count" /\ frame'[c].done = frame[c].done
           \/ frame[c].pc = "count2" /\ frame'[c].pc = "write" /\ frame'[c].done = frame[c].done + 1
    BY StoreSteps DEF SameLength
  <1>4. s \in Streams /\ frame[c].pc \in Storing /\ frame'[c].pc \in Writing
    BY <1>2, <1>3 DEF Good, Asked, Written, Writing, Storing, Entering
  <1>5. Good(c)'
    BY <1>2, <1>3, <1>4
       DEF Good, Types, Asked, Taken, Held, Written, Entering, Storing, Writing, Reading, Same
  <1>6. /\ streams' \in [Streams -> StreamType]
        /\ \A o \in Streams \ {s} : streams'[o] = streams[o]
        /\ c = "irq" => streams'[s].count >= streams[s].count
    <2>1. CASE StoreByte(c)
      <3> DEFINE byte == frame[c].buf[frame[c].done + 1]
                 data == [streams[s].data EXCEPT ![frame[c].reg] = byte]
      <3>1. frame[c].pc = "store" /\ SetStream(c, "data", data)
        BY <2>1, StoreSteps DEF S
      <3>2. byte \in Byte
        <4>1. frame[c].done \in Nat /\ frame[c].len \in Int /\ frame[c].asked \in Int
              /\ frame[c].done < frame[c].len /\ frame[c].len <= frame[c].asked
              /\ frame[c].asked <= Len(frame[c].buf)
          BY <1>2, <3>1 DEF Good, Types, Asked, Written, Writing, Storing, Entering
        <4>2. frame[c].buf \in Seq(Byte)
          BY <1>2 DEF Good, Types
        <4>3. Len(frame[c].buf) \in Nat
          BY <4>2
        <4>4. frame[c].done + 1 \in 1..Len(frame[c].buf)
          BY <4>1, <4>3
        <4> QED  BY <4>2, <4>4
      <3>3. streams[s].data \in [Slots -> Byte \cup {NUL}] /\ frame[c].reg \in Slots
        BY <1>2, <1>4, <3>1 DEF StreamType, Good, Held
      <3>4. data \in [Slots -> Byte \cup {NUL}]
        BY <3>2, <3>3
      <3> HIDE DEF data
      <3>5. streams'[s].count = streams[s].count /\ \A o \in Streams \ {s} : streams'[o] = streams[o]
        BY <1>2, <1>4, <3>1, SetsStream
      <3>6. streams' \in [Streams -> StreamType]
        BY <1>2, <1>4, <3>1, <3>4, StreamSet
      <3>7. streams[s].count \in Int
        BY <1>2, <1>4 DEF StreamType
      <3> QED  BY <3>5, <3>6, <3>7
    <2>2. CASE StoreHead(c)
      <3>1. frame[c].pc = "head2" /\ SetStream(c, "head", NextSlot(frame[c].reg))
        BY <2>2, StoreSteps
      <3>2. NextSlot(frame[c].reg) \in Slots
        BY <1>2, <3>1, Slot DEF Good, Held
      <3>3. streams'[s].count = streams[s].count /\ \A o \in Streams \ {s} : streams'[o] = streams[o]
        BY <1>2, <1>4, <3>1, SetsStream
      <3>4. streams' \in [Streams -> StreamType]
        BY <1>2, <1>4, <3>1, <3>2, StreamSet
      <3>5. streams[s].count \in Int
        BY <1>2, <1>4 DEF StreamType
      <3> QED  BY <3>3, <3>4, <3>5
    <2>3. CASE StoreCount(c)
      <3> DEFINE value == frame[c].reg + 1
      <3>1. frame[c].pc = "count2" /\ SetStream(c, "count", value)
        BY <2>3, StoreSteps
      <3>2. value \in Int /\ frame[c].reg \in Int /\ value >= frame[c].reg
        BY <1>2, <3>1 DEF Good, Held
      <3> HIDE DEF value
      <3>3. streams'[s].count = value /\ \A o \in Streams \ {s} : streams'[o] = streams[o]
        BY <1>2, <1>4, <3>1, SetsStream
      <3>4. streams' \in [Streams -> StreamType]
        BY <1>2, <1>4, <3>1, <3>2, StreamSet
      <3>5. c = "irq" => frame[c].reg = streams[s].count
        BY <1>2, <3>1 DEF Key, Written, Writing
      <3> QED  BY <3>2, <3>3, <3>4, <3>5
    <2> QED  BY <2>1, <2>2, <2>3
  <1>7. c = "main" => \A o \in {STDOUT, STDERR} : Blocked(o)' \/ Busy(o)'
    <2> SUFFICES ASSUME c = "main", NEW o \in {STDOUT, STDERR}
                 PROVE  Blocked(o)' \/ Busy(o)'
      OBVIOUS
    <2>1. o \in Streams /\ (Blocked(o) \/ Busy(o))
      BY DEF Streams, SInv, Rest
    <2>2. CASE o = s
      BY <1>3, <1>4, <2>2 DEF Busy, Same
    <2>3. CASE o # s
      <3>1. ~ Busy(o)
        BY <1>3, <2>3 DEF Busy, Writing, Showing, Reading, Rendering, Moving, Holding
      <3> QED  BY <1>6, <2>1, <2>3, <3>1 DEF Blocked
    <2> QED  BY <2>2, <2>3
  <1>8. c = "irq" => s = STDIN
    BY <1>2, <1>3 DEF Key, Written, Writing
  <1>9. c = "irq" => Key'
    BY <1>2, <1>3, <1>4, <1>8 DEF Key, Same
  <1>10. c = "irq" => ~ Taking'
    BY <1>3 DEF Taking, Reading
  <1>11. frame'[c].pc # "clip2"
    BY <1>3
  <1>12. c = "irq" => \A o \in Streams : \/ streams'[o] = streams[o]
                                         \/ o = STDIN /\ streams'[o].count >= streams[o].count
    BY <1>6, <1>8
  <1> HIDE DEF s
  <1> QED  BY <1>1, <1>5, <1>6, <1>7, <1>9, <1>10, <1>11, <1>12, Joined
(* The steps of stream_read: a stream from which something can be taken is *)
(* being rendered by the main line, or its own.                            *)
LEMMA ReadLoads ==
  ASSUME Frames, SInv, CInv, NEW c \in Ctx,
         TestRead(c) \/ TakeByte(c) \/ LoadTail(c) \/ LoadCountToRead(c)
  PROVE  SInv'
  <1>1. Goes1(c)
    BY ReadingStep
  <1>2. Good(c) /\ streams \in [Streams -> StreamType] /\ (c = "irq" => Key)
    BY DEF SInv, Good
  <1>3. /\ Same(c) /\ SameLength(c) /\ streams' = streams
        /\ frame[c].pc \in Reading /\ frame'[c].pc \in Reading \ {"read"}
    BY ReadSteps DEF Reading
  <1>4. \/ frame[c].pc = "read" /\ frame'[c].pc = "take"
             /\ (frame[c].done = 0 => S(c).count > 0 /\ S(c).data[0] # NL)
        \/ frame[c].pc # "read" /\ frame'[c].pc # "tail2" /\ frame'[c].pc # "dec2"
        \/ frame[c].pc = "tail" /\ frame'[c].pc = "tail2" /\ frame'[c].reg = S(c).tail
        \/ frame[c].pc = "dec" /\ frame'[c].pc = "dec2" /\ frame'[c].reg = S(c).count
    BY ReadSteps
  <1>5. Own(c) /\ (frame[c].op = "sys_read" => frame[c].s = STDIN)
    BY <1>2 DEF CInv, Good, Taken
  <1>6. frame[c].s \in Streams
    BY <1>3, <1>5 DEF Own, Showing, Streams
  <1>7. S(c) \in StreamType
    BY <1>2, <1>6 DEF S
  <1>8. Held(frame[c])'
    BY <1>3, <1>4, <1>7 DEF Held, StreamType, Reading
  <1>9. Good(c)'
    BY <1>2, <1>3, <1>8
       DEF Good, Types, Asked, Taken, Written, Entering, Storing, Writing, Reading, Same, SameLength
  <1>10. ASSUME NEW o \in {STDOUT, STDERR}, c = "main", Busy(o)
         PROVE  Busy(o)'
    BY <1>3, <1>10 DEF Busy, Same, Showing, Reading, Writing
  <1>11. ASSUME c = "irq"
         PROVE  Busy(frame'["irq"].s)
    <2>1. frame[c].s \in {STDOUT, STDERR}
      BY <1>2, <1>3, <1>5, <1>11 DEF Key, Own, Showing
    <2>2. CASE Taking
      BY <1>3, <1>11, <2>2 DEF SInv, Rest, Same
    <2>3. CASE ~ Taking
      <3>1. frame[c].pc = "read" /\ ~ (frame[c].done > 0) /\ frame[c].done \in Nat
        BY <1>2, <1>3, <1>11, <2>3 DEF Taking, Good, Types
      <3>2. S(c).count > 0 /\ S(c).data[0] # NL
        BY <1>4, <3>1
      <3>3. ~ (S(c).count <= 0)
        BY <1>7, <3>2 DEF StreamType
      <3>4. ~ Blocked(frame[c].s)
        BY <3>2, <3>3 DEF Blocked, S
      <3> QED  BY <1>3, <1>11, <2>1, <3>4 DEF SInv, Rest, Same
    <2> QED  BY <2>2, <2>3
  <1>12. c = "irq" => Key'
    BY <1>2, <1>3 DEF Key, Same, Written, Entering, Writing, Reading
  <1>13. frame'[c].pc # "clip2"
    BY <1>3 DEF Reading
  <1> QED  BY <1>1, <1>3, <1>9, <1>10, <1>11, <1>12, <1>13, JoinedSame

LEMMA ReadStores ==
  ASSUME Frames, SInv, CInv, NEW c \in Ctx, StoreTail(c) \/ StoreCountRead(c)
  PROVE  SInv'
  <1> DEFINE s == frame[c].s
  <1>1. Goes1(c)
    BY ReadingStep
  <1>2. Good(c) /\ streams \in [Streams -> StreamType] /\ (c = "irq" => Key)
    BY DEF SInv, Good
  <1>3. /\ Same(c) /\ frame'[c].len = frame[c].len
        /\ \/ frame[c].pc = "tail2" /\ frame'[c].pc = "dec" /\ frame'[c].done = frame[c].done
           \/ frame[c].pc = "dec2" /\ frame'[c].pc = "read" /\ frame'[c].done = frame[c].done + 1
    BY ReadSteps DEF SameLength
  <1>4. frame[c].pc \in Reading \ {"read"} /\ frame'[c].pc \in Reading
    BY <1>3 DEF Reading
  <1>5. Own(c) /\ (frame[c].op = "sys_read" => s = STDIN)
    BY <1>2 DEF CInv, Good, Taken
  <1>6. s \in Streams
    BY <1>4, <1>5 DEF Own, Showing, Streams
  <1>7. Good(c)'
    BY <1>2, <1>3, <1>4
       DEF Good, Types, Asked, Taken, Held, Written, Entering, Storing, Writing, Reading, Same
  <1>8. /\ streams' \in [Streams -> StreamType]
        /\ \A o \in Streams \ {s} : streams'[o] = streams[o]
    <2>1. CASE StoreTail(c)
      <3>1. frame[c].pc = "tail2" /\ SetStream(c, "tail", NextSlot(frame[c].reg))
        BY <2>1, ReadSteps
      <3>2. NextSlot(frame[c].reg) \in Slots
        BY <1>2, <3>1, Slot DEF Good, Held
      <3>3. \A o \in Streams \ {s} : streams'[o] = streams[o]
        BY <1>2, <1>6, <3>1, SetsStream
      <3>4. streams' \in [Streams -> StreamType]
        BY <1>2, <1>6, <3>1, <3>2, StreamSet
      <3> QED  BY <3>3, <3>4
    <2>2. CASE StoreCountRead(c)
      <3> DEFINE value == frame[c].reg - 1
      <3>1. frame[c].pc = "dec2" /\ SetStream(c, "count", value)
        BY <2>2, ReadSteps
      <3>2. value \in Int
        BY <1>2, <3>1 DEF Good, Held
      <3> HIDE DEF value
      <3>3. \A o \in Streams \ {s} : streams'[o] = streams[o]
        BY <1>2, <1>6, <3>1, SetsStream
      <3>4. streams' \in [Streams -> StreamType]
        BY <1>2, <1>6, <3>1, <3>2, StreamSet
      <3> QED  BY <3>3, <3>4
    <2> QED  BY <2>1, <2>2
  <1>9. c = "main" => \A o \in {STDOUT, STDERR} : Blocked(o)' \/ Busy(o)'
    <2> SUFFICES ASSUME c = "main", NEW o \in {STDOUT, STDERR}
                 PROVE  Blocked(o)' \/ Busy(o)'
      OBVIOUS
    <2>1. o \in Streams /\ o # STDIN /\ (Blocked(o) \/ Busy(o))
      BY DEF Streams, STDIN, STDOUT, STDERR, SInv, Rest
    <2>2. Busy(o) => Busy(o)'
      BY <1>3, <1>4 DEF Busy, Same, Showing, Reading, Writing
    <2>3. CASE o = s
      BY <1>3, <1>4, <2>3 DEF Busy, Same, Showing
    <2>4. CASE o # s
      BY <1>8, <2>1, <2>2, <2>4 DEF Blocked
    <2> QED  BY <2>3, <2>4
  <1>10. c = "irq" => Key'
    BY <1>2, <1>3, <1>4 DEF Key, Same, Written, Entering, Writing, Reading
  <1>11. c = "irq" => Taking
    BY <1>4 DEF Taking
  <1>12. c = "irq" => Busy(frame'["irq"].s)
    BY <1>3, <1>11 DEF SInv, Rest, Same
  <1>13. frame'[c].pc # "clip2"
    BY <1>3
  <1>14. c = "irq" => \A o \in Streams : streams'[o] = streams[o] \/ (Taking /\ o = frame["irq"].s)
    BY <1>8, <1>11
  <1> HIDE DEF s
  <1> QED  BY <1>1, <1>7, <1>8, <1>9, <1>10, <1>12, <1>13, <1>14, Joined
(* The steps of sh_render with a byte, and between the streams.            *)
LEMMA ShowKeeps ==
  ASSUME Frames, SInv, NEW c \in Ctx,
         \/ CarriageReturn(c) \/ StartOfLine(c) \/ LineFeed(c) \/ NextLine(c)
         \/ LoadCell(c) \/ Advance(c) \/ Scroll(c)
         \/ StoreStartOfLine(c) \/ Ignore(c) \/ NoWrap(c) \/ StoreScrolled(c)
         \/ Fits(c) \/ Paint(c) \/ StoreCursor(c) \/ Wrap(c)
  PROVE  SInv'
  <1>1. Goes1(c) /\ frame[c].pc \in Rendering \ {"read"} /\ frame'[c].pc \in Rendering
    BY CursorLoads, CursorSteps
  <1>2. /\ Same(c) /\ streams' = streams
        /\ \/ frame'[c].pc # "read" /\ SameLength(c)
           \/ frame'[c].pc = "read" /\ frame'[c].len = RENDER_BUF /\ frame'[c].done = 0
    BY ShowSteps
  <1>3. Good(c) /\ (c = "irq" => Key) /\ RENDER_BUF \in Nat
    BY ConsoleAssumption DEF SInv, Good
  <1>4. frame[c].pc \notin Reading /\ frame'[c].pc \notin Reading \ {"read"} /\ frame'[c].pc \notin Written
        /\ frame'[c].pc \notin {"save", "clip2", "red"}
    BY <1>1 DEF Rendering, Moving, Holding, Reading, Written, Entering, Writing
  <1>5. Good(c)'
    <2>1. Types(frame[c])'
      BY <1>2, <1>3 DEF Good, Types, Same, SameLength
    <2>2. Asked(frame[c])' /\ Held(frame[c])'
      BY <1>4 DEF Asked, Held, Written, Entering, Storing, Writing, Reading
    <2>3. Taken(frame[c])'
      BY <1>2, <1>3, <1>4 DEF Good, Taken, Same
    <2> QED  BY <2>1, <2>2, <2>3 DEF Good
  <1>6. ASSUME NEW o \in {STDOUT, STDERR}, c = "main", Busy(o)
        PROVE  Busy(o)'
    <2>1. frame[c].pc \in Showing /\ frame'[c].pc \in Showing /\ frame[c].pc \notin Writing \cup {"save", "red"}
      BY <1>1 DEF Showing, Rendering, Moving, Holding, Writing
    <2> QED  BY <1>2, <1>6, <2>1 DEF Busy, Same
  <1>7. c = "irq" => Key' /\ ~ Taking'
    <2>1. c = "irq" => ~ Taking'
      BY <1>2, <1>4 DEF Taking
    <2>2. c = "irq" => Key'
      BY <1>2, <1>3, <1>4 DEF Key, Same, Written, Writing
    <2> QED  BY <2>1, <2>2
  <1> QED  BY <1>1, <1>2, <1>4, <1>5, <1>6, <1>7, JoinedSame

LEMMA TurnKeeps ==
  ASSUME Frames, SInv, CInv, NEW c \in Ctx,
         WriteReturn(c) \/ ReadReturn(c) \/ SaveColor(c) \/ SetRed(c)
  PROVE  SInv'
  <1>1. Good(c) /\ (c = "irq" => Key) /\ RENDER_BUF \in Nat /\ <<>> \in Seq(Byte)
    BY ConsoleAssumption DEF SInv, Good
  <1>2. ASSUME Goes1(c), streams' = streams, Types(frame[c])', Taken(frame[c])',
               frame'[c].pc \in {"read", "byte", "save", "red", "restore"},
               frame'[c].pc = "read" => frame'[c].done = 0,
               frame'[c].todo = frame[c].todo, frame'[c].op = frame[c].op,
               \A o \in {STDOUT, STDERR} : Busy(o) /\ c = "main" => Blocked(o) \/ Busy(o)'
        PROVE  SInv'
    <2>1. frame'[c].pc \notin Written \cup Writing \cup (Reading \ {"read"})
      BY <1>2 DEF Written, Entering, Writing, Reading
    <2>2. Good(c)'
      BY <1>2, <2>1 DEF Good, Asked, Held, Written, Storing, Reading
    <2>3. c = "irq" => Key' /\ ~ Taking'
      BY <1>1, <1>2, <2>1 DEF Key, Taking, Writing
    <2> QED  BY <1>2, <2>2, <2>3, JoinedSame
  <1>3. CASE WriteReturn(c)
    <2>1. /\ Goes1(c) /\ frame[c].pc = "write" /\ frame'[c].pc = "read" /\ frame'[c].s = STDOUT
          /\ frame'[c].op = frame[c].op
      BY <1>3, Turns
    <2>2. /\ streams' = streams /\ frame'[c].asked = frame[c].asked
          /\ frame'[c].todo = frame[c].todo /\ frame'[c].buf = <<>>
          /\ frame'[c].len = RENDER_BUF /\ frame'[c].done = 0
      BY <1>3, TurnsSame
    <2>3. Types(frame[c])'
      BY <1>1, <2>2 DEF Good, Types
    <2>4. frame[c].op # "sys_read"
      BY <1>1, <2>1 DEF Good, Asked, Written, Writing
    <2>5. Taken(frame[c])'
      BY <2>1, <2>2, <2>4 DEF Taken
    <2>6. \A o \in {STDOUT, STDERR} : c = "main" => Busy(o)'
      BY <2>1 DEF Busy, Showing, Reading
    <2> QED  BY <1>2, <2>1, <2>2, <2>3, <2>5, <2>6
  <1>4. CASE SaveColor(c)
    <2>1. /\ Goes1(c) /\ frame[c].pc = "save" /\ frame'[c].pc = "red"
          /\ Same(c) /\ SameLength(c) /\ streams' = streams
      BY <1>4, Turns, TurnsSame
    <2>2. Types(frame[c])'
      BY <1>1, <2>1 DEF Good, Types, Same, SameLength
    <2>3. Taken(frame[c])'
      BY <1>1, <2>1 DEF Good, Taken, Same, Reading
    <2>4. \A o \in {STDOUT, STDERR} : Busy(o) /\ c = "main" => Busy(o)'
      BY <2>1 DEF Busy, Same, Writing, Showing, Reading, Rendering, Moving, Holding
    <2> QED  BY <1>2, <2>1, <2>2, <2>3, <2>4 DEF Same
  <1>5. CASE SetRed(c)
    <2>1. /\ Goes1(c) /\ frame[c].pc = "red" /\ frame'[c].pc = "read" /\ frame'[c].s = STDERR
          /\ frame'[c].op = frame[c].op
      BY <1>5, Turns
    <2>2. /\ streams' = streams /\ frame'[c].asked = frame[c].asked
          /\ frame'[c].todo = frame[c].todo /\ frame'[c].buf = frame[c].buf
          /\ frame'[c].len = RENDER_BUF /\ frame'[c].done = 0
      BY <1>5, TurnsSame
    <2>3. Types(frame[c])'
      BY <1>1, <2>2 DEF Good, Types
    <2>4. frame[c].op # "sys_read"
      BY <1>1, <2>1 DEF Good, Taken, Reading
    <2>5. Taken(frame[c])'
      BY <2>1, <2>2, <2>4 DEF Taken
    <2>6. \A o \in {STDOUT, STDERR} : Busy(o) /\ c = "main" => Busy(o)'
      BY <2>1 DEF Busy, Writing, Showing, Reading, Rendering, Moving, Holding
    <2> QED  BY <1>2, <2>1, <2>2, <2>3, <2>5, <2>6
  <1>6. CASE ReadReturn(c)
    <2>1. Goes1(c) /\ frame[c].pc = "read" /\ frame[c].op # "sys_read"
      BY <1>6, Turns
    <2>2. /\ Same(c) /\ SameLength(c) /\ streams' = streams
          /\ frame[c].done = 0 /\ frame[c].len = RENDER_BUF =>
               S(c).count <= 0 \/ S(c).data[0] = NL \/ S(c).count \notin Int
          /\ frame[c].done > 0 => frame'[c].pc = "byte"
          /\ frame[c].done = 0 => frame'[c].pc = IF frame[c].s = STDOUT THEN "save" ELSE "restore"
      BY <1>6, TurnsSame
    <2>3. frame[c].len = RENDER_BUF /\ frame[c].done \in Nat /\ frame[c].s \in {STDOUT, STDERR}
      BY <1>1, <2>1 DEF Good, Taken, Types, Reading, CInv, Own, Showing
    <2>4. \/ frame'[c].pc = "byte"
          \/ frame[c].done = 0 /\ frame'[c].pc \in {"save", "restore"}
               /\ (frame'[c].pc = "save" <=> frame[c].s = STDOUT)
      BY <2>2, <2>3
    <2>5. ASSUME frame[c].done = 0
          PROVE  Blocked(frame[c].s)
      <3>1. S(c).count \in Int
        BY <2>3 DEF SInv, StreamType, S, Streams
      <3> QED  BY <2>2, <2>3, <2>5, <3>1 DEF Blocked, S
    <2>6. Types(frame[c])'
      BY <1>1, <2>2 DEF Good, Types, Same, SameLength
    <2>7. Taken(frame[c])'
      BY <2>1, <2>2, <2>4 DEF Taken, Same, Reading
    <2>8. ASSUME NEW o \in {STDOUT, STDERR}, Busy(o), c = "main"
          PROVE  Blocked(o) \/ Busy(o)'
      <3>1. frame[c].s \in {STDOUT, o}
        BY <2>1, <2>8 DEF Busy, Writing
      <3>2. CASE frame'[c].pc = "byte"
        BY <2>2, <2>8, <3>1, <3>2 DEF Busy, Same, Showing, Rendering
      <3>3. CASE frame'[c].pc = "save"
        <4>1. frame[c].s = STDOUT /\ Blocked(STDOUT)
          BY <2>4, <2>5, <3>3
        <4> QED  BY <2>8, <3>3, <4>1 DEF Busy
      <3>4. CASE frame'[c].pc = "restore"
        <4>1. frame[c].s # STDOUT /\ Blocked(frame[c].s)
          BY <2>4, <2>5, <3>4
        <4> QED  BY <3>1, <4>1
      <3> QED  BY <2>4, <3>2, <3>3, <3>4
    <2> QED  BY <1>2, <2>1, <2>2, <2>4, <2>6, <2>7, <2>8 DEF Same
  <1> QED  BY <1>3, <1>4, <1>5, <1>6
LEMMA ReturnKeeps ==
  ASSUME Frames, SInv, CInv, NEW c \in Ctx, BadStream(c) \/ Deliver(c) \/ RestoreColor(c)
  PROVE  SInv'
  <1>1. Good(c) /\ (c = "irq" => Key)
    BY DEF SInv, Good
  <1>2. Finish(c) /\ streams' = streams
    BY DEF BadStream, Deliver, RestoreColor, shell
  <1>3. /\ Goes1(c)
        /\ frame[c].pc = "badstream" \/ frame[c].pc = "restore"
             \/ (frame[c].pc = "read" /\ frame[c].op = "sys_read")
        /\ (frame'[c] = Idle \/ (frame'[c].pc = "index" /\ frame'[c].s = STDOUT))
    BY Returns
  <1>4. Good(c)' /\ (frame[c].todo = <<>> => frame'[c] = Idle)
    BY <1>1, <1>2, FinishSteps
  <1>5. c = "irq" => Key' /\ ~ Taking'
    <2>1. c = "irq" => frame'["irq"] = Idle
      BY <1>1, <1>4 DEF Key
    <2> QED  BY <2>1 DEF Key, Taking, Idle, Written, Entering, Writing, Reading
  <1>6. ASSUME NEW o \in {STDOUT, STDERR}, c = "main", Busy(o)
        PROVE  FALSE
    <2>1. frame[c].op = "sys_read" => frame[c].s = STDIN
      BY <1>1 DEF Good, Taken
    <2> QED  BY <1>3, <1>6, <2>1
             DEF Busy, Writing, Showing, Reading, Rendering, Moving, Holding, STDIN, STDOUT, STDERR
  <1>7. frame'[c].pc # "clip2"
    BY <1>3, IdleFields
  <1> QED  BY <1>2, <1>3, <1>4, <1>5, <1>6, <1>7, JoinedSame

LEMMA StreamStep ==
  ASSUME Frames, SInv, CInv, NEW c \in Ctx, Step(c)
  PROVE  SInv'
  <1>1. CASE \/ CheckStream(c) \/ TestRoom(c) \/ Clip(c)
             \/ LoadHead(c) \/ LoadHeadAgain(c) \/ LoadCount(c)
    BY <1>1, WriteLoads
  <1>2. CASE StoreByte(c) \/ StoreHead(c) \/ StoreCount(c)
    BY <1>2, WriteStores
  <1>3. CASE TestRead(c) \/ TakeByte(c) \/ LoadTail(c) \/ LoadCountToRead(c)
    BY <1>3, ReadLoads
  <1>4. CASE StoreTail(c) \/ StoreCountRead(c)
    BY <1>4, ReadStores
  <1>5. CASE \/ CarriageReturn(c) \/ StartOfLine(c) \/ LineFeed(c) \/ NextLine(c)
             \/ LoadCell(c) \/ Advance(c) \/ Scroll(c)
             \/ StoreStartOfLine(c) \/ Ignore(c) \/ NoWrap(c) \/ StoreScrolled(c)
             \/ Fits(c) \/ Paint(c) \/ StoreCursor(c) \/ Wrap(c)
    BY <1>5, ShowKeeps
  <1>6. CASE WriteReturn(c) \/ ReadReturn(c) \/ SaveColor(c) \/ SetRed(c)
    BY <1>6, TurnKeeps
  <1>7. CASE BadStream(c) \/ Deliver(c) \/ RestoreColor(c)
    BY <1>7, ReturnKeeps
  <1> QED  BY <1>1, <1>2, <1>3, <1>4, <1>5, <1>6, <1>7 DEF Step

LEMMA StreamNext ==
  ASSUME Frames, SInv, CInv, [Next]_vars
  PROVE  SInv'
  <1>1. CASE \/ Puts(Message) \/ SysBadPointer
             \/ (\E fd \in Fds, b \in Buffers, n \in Lens : SysWrite(fd, b, n))
             \/ (\E n \in Lens : SysRead(n))
    <2>1. "main" \in Ctx
      BY DEF Ctx
    <2>2. Goes1("main") /\ frame["main"].pc = "idle" /\ frame'["main"].pc \in {"index", "read"}
      BY <1>1, Begins
    <2>3. Good("main")' /\ streams' = streams
      BY <1>1, BeginSteps
    <2>4. \A o \in {STDOUT, STDERR} : ~ Busy(o)
      BY <2>2 DEF Busy, Writing, Showing, Reading, Rendering, Moving, Holding
    <2> QED  BY <2>1, <2>2, <2>3, <2>4, JoinedSame
  <1>2. CASE \E k \in Keys : KeyPress(k)
    <2>1. PICK k \in Keys : KeyPress(k)
      BY <1>2
    <2>2. /\ Goes1("irq") /\ frame'["irq"].pc = "index" /\ frame'["irq"].op # "sys_read" /\ "irq" \in Ctx
      BY <2>1, KeyHit DEF Ctx
    <2>3. Good("irq")' /\ streams' = streams /\ frame'["irq"].todo = <<>> /\ frame'["irq"].s = STDIN
      BY <2>1, KeySteps
    <2>4. Key' /\ ~ Taking'
      BY <2>2, <2>3 DEF Key, Taking, Reading
    <2> QED  BY <2>2, <2>3, <2>4, JoinedSame
  <1>3. CASE SysAtOnce(-1) \/ SysAtOnce(1) \/ UNCHANGED vars
    <2>1. frame' = frame /\ streams' = streams
      BY <1>3 DEF SysAtOnce, vars, shell
    <2>2. Clipping' /\ Key'
      BY <2>1 DEF SInv, Clipping, Key, Room, S
    <2>3. Rest'
      BY <2>1 DEF SInv, Rest, Blocked, Busy, Taking
    <2> QED  BY <2>1, <2>2, <2>3 DEF SInv
  <1>4. CASE \E c \in {"main", "irq"} : Step(c)
    BY <1>4, StreamStep DEF Ctx
  <1> QED  BY <1>1, <1>2, <1>3, <1>4 DEF Next

LEMMA StreamInit == Init => SInv
  <1> SUFFICES ASSUME Init PROVE SInv
    OBVIOUS
  <1>1. \A c \in Ctx : frame[c] = Idle /\ Good(c)
    BY GoodIdle DEF Init, Ctx
  <1>2. /\ streams \in [Streams -> StreamType]
        /\ \A o \in Streams : streams[o].count = 0
    BY ConsoleAssumption DEF Init, StreamType, Slots
  <1>3. Clipping /\ Key
    BY <1>1, IdleFields DEF Clipping, Key, Idle, Ctx, Written, Entering, Writing
  <1>4. Rest
    BY <1>1, <1>2, IdleFields DEF Rest, Blocked, Taking, Reading, Ctx, Streams
  <1> QED  BY <1>1, <1>2, <1>3, <1>4 DEF SInv, Good

(* The colour is one of two, and the numbers of calls stay in their bound. *)
Bounded == color \in {GREY, RED} /\ calls \in 0..MaxCalls /\ keys \in 0..MaxKeys

LEMMA StepBounded ==
  ASSUME Frames, CInv, Bounded, NEW c \in Ctx, Step(c)
  PROVE  Bounded'
  <1>1. color' \in {GREY, RED}
    <2>1. CASE \/ TestRoom(c) \/ Clip(c) \/ LoadHead(c) \/ StoreByte(c) \/ LoadHeadAgain(c)
               \/ StoreHead(c) \/ LoadCount(c) \/ StoreCount(c)
      BY <2>1, WritingStep DEF Bounded
    <2>2. CASE \/ TestRead(c) \/ TakeByte(c) \/ LoadTail(c) \/ StoreTail(c)
               \/ LoadCountToRead(c) \/ StoreCountRead(c)
               \/ CarriageReturn(c) \/ StartOfLine(c) \/ LineFeed(c) \/ NextLine(c)
               \/ LoadCell(c) \/ Advance(c) \/ Scroll(c)
               \/ StoreStartOfLine(c) \/ Ignore(c) \/ NoWrap(c) \/ StoreScrolled(c)
               \/ Fits(c) \/ Paint(c) \/ StoreCursor(c) \/ Wrap(c)
      BY <2>2, ReadingStep, CursorLoads, CursorSteps DEF Bounded
    <2>3. CASE CheckStream(c) \/ WriteReturn(c) \/ ReadReturn(c) \/ SaveColor(c) \/ SetRed(c)
      BY <2>3, Turns DEF Bounded
    <2>4. CASE BadStream(c) \/ Deliver(c) \/ RestoreColor(c)
      <3>1. color' = color \/ (frame[c].pc = "restore" /\ color' = frame[c].saved)
        BY <2>4, Returns
      <3>2. frame[c].pc = "restore" => frame[c].saved = GREY
        BY DEF CInv, Own, Red
      <3> QED  BY <3>1, <3>2 DEF Bounded
    <2> QED  BY <2>1, <2>2, <2>3, <2>4 DEF Step
  <1>2. calls' = calls /\ keys' = keys
    <2>1. CASE \/ CheckStream(c) \/ BadStream(c) \/ TestRoom(c) \/ Clip(c)
               \/ LoadHead(c) \/ StoreByte(c) \/ LoadHeadAgain(c) \/ StoreHead(c)
               \/ LoadCount(c) \/ StoreCount(c) \/ WriteReturn(c)
      BY <2>1 DEF CheckStream, BadStream, TestRoom, Clip, LoadHead, StoreByte, LoadHeadAgain,
         StoreHead, LoadCount, StoreCount, WriteReturn, Load, Local, SetStream, count
    <2>2. CASE \/ TestRead(c) \/ TakeByte(c) \/ LoadTail(c) \/ StoreTail(c)
               \/ LoadCountToRead(c) \/ StoreCountRead(c) \/ Deliver(c) \/ ReadReturn(c)
      BY <2>2 DEF TestRead, TakeByte, LoadTail, StoreTail, LoadCountToRead, StoreCountRead,
         Deliver, ReadReturn, Load, Local, SetStream, count
    <2>3. CASE \/ CarriageReturn(c) \/ StartOfLine(c) \/ StoreStartOfLine(c)
               \/ LineFeed(c) \/ NextLine(c) \/ Fits(c) \/ Ignore(c) \/ LoadCell(c) \/ Paint(c)
               \/ Advance(c) \/ StoreCursor(c) \/ NoWrap(c) \/ Wrap(c) \/ Scroll(c)
               \/ StoreScrolled(c) \/ SaveColor(c) \/ SetRed(c) \/ RestoreColor(c)
      BY <2>3 DEF CarriageReturn, StartOfLine, StoreStartOfLine, LineFeed, NextLine, Fits, Ignore,
         LoadCell, Paint, Advance, StoreCursor, NoWrap, Wrap, Scroll, StoreScrolled, SaveColor,
         SetRed, RestoreColor, Load, Local, SetCursor, SetColor, count
    <2> QED  BY <2>1, <2>2, <2>3 DEF Step
  <1> QED  BY <1>1, <1>2 DEF Bounded

LEMMA NextBounded ==
  ASSUME Frames, CInv, Bounded, [Next]_vars
  PROVE  Bounded'
  <1>0. MaxCalls \in Nat /\ MaxKeys \in Nat
    BY ConsoleAssumption
  <1>1. CASE \/ Puts(Message) \/ SysBadPointer
             \/ (\E fd \in Fds, b \in Buffers, n \in Lens : SysWrite(fd, b, n))
             \/ (\E n \in Lens : SysRead(n))
    <2>1. calls < MaxCalls /\ calls' = calls + 1 /\ keys' = keys /\ color' = color
      BY <1>1 DEF Puts, SysBadPointer, SysWrite, SysRead, Call, shell
    <2> QED  BY <1>0, <2>1 DEF Bounded
  <1>2. CASE \E k \in Keys : KeyPress(k)
    <2>1. keys < MaxKeys /\ keys' = keys + 1 /\ calls' = calls /\ color' = color
      BY <1>2 DEF KeyPress, shell
    <2> QED  BY <1>0, <2>1 DEF Bounded
  <1>3. CASE SysAtOnce(-1) \/ SysAtOnce(1)
    <2>1. calls < MaxCalls /\ calls' = calls + 1 /\ keys' = keys /\ color' = color
      BY <1>3 DEF SysAtOnce, shell
    <2> QED  BY <1>0, <2>1 DEF Bounded
  <1>4. CASE UNCHANGED vars
    BY <1>4 DEF vars, Bounded
  <1>5. CASE \E c \in {"main", "irq"} : Step(c)
    BY <1>5, StepBounded DEF Ctx
  <1> QED  BY <1>1, <1>2, <1>3, <1>4, <1>5 DEF Next

LEMMA InvInit == Init => Frames /\ PInv /\ CInv /\ SInv /\ Bounded
  <1>1. Init => Bounded
    BY ConsoleAssumption DEF Init, Bounded
  <1> QED  BY <1>1, PInitInv, ColorInit, StreamInit

(* The pointers of the streams stay inside data and the cursor inside its  *)
(* type, whatever the interrupt does between two instructions (stream.c,   *)
(* shell.c).                                                               *)
THEOREM ConsoleTyped == Spec => []TypeOK
  <1>1. Frames /\ PInv /\ SInv /\ Bounded => TypeOK
    BY IdleFields DEF Frames, PInv, SInv, StreamType, Bounded, TypeOK, Ctx
  <1> QED  BY <1>1, InvInit, PNextInv, ColorNext, StreamNext, NextBounded, PTL DEF Spec

(* stream.c:6-7: though count is loaded once for the test and again for    *)
(* the room, and the interrupt may read bytes in between, a write never    *)
(* takes more than its caller passed.                                      *)
THEOREM ClipsDown == Spec => []ClipNeverGrows
  <1>1. SInv => ClipNeverGrows
    BY DEF SInv, Asked, ClipNeverGrows, Ctx
  <1> QED  BY <1>1, InvInit, PNextInv, ColorNext, StreamNext, PTL DEF Spec

(* shell.c:81-112: when no call is executing, sh_render left nothing that  *)
(* it could have shown, also when the interrupt rendered in the middle of  *)
(* a render of the main line, or the other way round.                      *)
THEOREM NothingIsLeft == Spec => []Drained
  <1>1. SInv => Drained
    <2> SUFFICES ASSUME SInv, Quiescent, NEW s \in {STDOUT, STDERR}
                 PROVE  Blocked(s)
      BY DEF Drained, Blocked
    <2>1. frame["main"].pc = "idle"
      BY DEF Quiescent
    <2>2. ~ Busy(s)
      BY <2>1 DEF Busy, Writing, Showing, Reading, Rendering, Moving, Holding
    <2> QED  BY <2>2 DEF SInv, Rest
  <1> QED  BY <1>1, InvInit, PNextInv, ColorNext, StreamNext, PTL DEF Spec
=============================================================================
