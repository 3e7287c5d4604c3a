------------------------ MODULE ConsoleHistoryProofs ------------------------
(***************************************************************************)
(* What the console promises when keys are hit only between calls: every   *)
(* accepted byte is shown or delivered, once and in order; stderr is red;  *)
(* the cursor comes back to the screen and count stays the number of       *)
(* bytes.  Each stream implements ByteQueue.  For every size, any buffers  *)
(* and any number of calls and keys.                                       *)
(***************************************************************************)
EXTENDS ConsoleHistory, ConsoleProofs, SequenceTheorems

(* Nobody but the context that executes has begun.                         *)
Alone(c) == \A d \in Ctx \ {c} : frame[d].pc = "idle"

HeadOf(c, o) ==
  IF On(c, o, {"head", "head2"}) THEN NextSlot(streams[o].head) ELSE streams[o].head

Balanced(c) ==
  \A o \in Streams :
    /\ CountOf(c, o) \in 0..STREAM_BUF_SIZE
    /\ HeadOf(c, o) = (TailOf(c, o) + CountOf(c, o)) % STREAM_BUF_SIZE

(* Nobody changes a stream between a load and the store that depends on    *)
(* it, nor between a test of count and the byte that was tested for.       *)
Registers(c) ==
  /\ frame[c].pc \in {"store", "head2"} => frame[c].reg = S(c).head
  /\ frame[c].pc \in {"count2", "dec2"} => frame[c].reg = S(c).count
  /\ frame[c].pc = "tail2" => frame[c].reg = S(c).tail

Fitting(c) ==
  /\ frame[c].pc \in Writing /\ frame[c].done < frame[c].len =>
       S(c).count + (frame[c].len - frame[c].done) <= STREAM_BUF_SIZE
  /\ frame[c].pc = "take" => S(c).count > 0

Result(c) ==
  /\ frame[c].out \in Seq(Byte \cup {NUL})
  /\ frame[c].pc \in {"read", "take"} => Len(frame[c].out) = frame[c].done
  /\ frame[c].pc \in HasTaken => Len(frame[c].out) = frame[c].done + 1
  /\ frame[c].pc \in Rendering \ {"read"} => frame[c].out # <<>>

OnCourse(c) ==
  LET p == frame[c].pc  r == frame[c].reg IN
  /\ p \notin {"wrap", "scroll", "scrolled"} => cursor < SIZE
  /\ p \in {"cr", "nl"} => r = cursor
  /\ p \in {"cr2", "scrolled"} => r < SIZE
  /\ p = "moved" => r < SIZE + WIDTH
  /\ p = "wrap" => cursor < SIZE + WIDTH
  /\ p = "scroll" => SIZE <= cursor /\ cursor < SIZE + WIDTH

InRed(c) == Red(c) /\ frame[c].pc # "restore" => color = RED

Quiet(c) == Balanced(c) /\ Registers(c) /\ Fitting(c) /\ OnCourse(c) /\ InRed(c)

Base == Frames /\ PInv /\ CInv /\ SInv
QInv == Base /\ (\A c \in Ctx : Result(c)) /\ Alone(Active) /\ Quiet(Active)

(* The bytes that were taken and neither shown nor delivered, and those    *)
(* that are still to be taken.                                             *)
Passed == {"cr", "cr2", "nl", "inc", "moved", "wrap", "scroll", "scrolled"}
Owed(c, o) ==
  IF On(c, o, Reading \cup {"byte", "cell", "paint"}) THEN frame[c].out
  ELSE IF On(c, o, Passed) THEN Tail(frame[c].out) ELSE <<>>

Logs == [Streams -> Seq(Byte \cup {NUL})]
Logged(c) == \A o \in Streams : accepted[o] = handled[o] \o Owed(c, o) \o Line(c, o)
HInv == QInv /\ {accepted, handled} \subseteq Logs /\ Logged(Active)
-----------------------------------------------------------------------------
(* Slots: one addition modulo the size wraps at most once.                 *)
LEMMA SlotAfter ==
  ASSUME NEW t \in Slots, NEW n \in 0..STREAM_BUF_SIZE
  PROVE  /\ (t + n) % STREAM_BUF_SIZE
              = IF t + n < STREAM_BUF_SIZE THEN t + n ELSE t + n - STREAM_BUF_SIZE
         /\ (t + n) % STREAM_BUF_SIZE \in Slots
  <1> DEFINE size == STREAM_BUF_SIZE
             m == t + n - size
  <1>0. size \in Nat \ {0} /\ t \in 0..size-1 /\ n \in 0..size
    BY ConsoleAssumption DEF Slots
  <1> HIDE DEF size
  <1>1. CASE t + n < size
    <2>1. (t + n) % size = t + n
      BY <1>0, <1>1, ModSmall
    <2> QED  BY <1>0, <1>1, <2>1 DEF size, Slots
  <1>2. CASE ~ (t + n < size)
    <2>1. m \in Nat /\ m < size
      BY <1>0, <1>2
    <2>2. (t + n) % size = m
      BY ONLY <1>0, <2>1
    <2> QED  BY <1>0, <1>2, <2>1, <2>2 DEF size, Slots
  <1> QED  BY <1>1, <1>2

LEMMA NextSlotValue ==
  ASSUME NEW i \in Slots
  PROVE  NextSlot(i) = (IF i + 1 = STREAM_BUF_SIZE THEN 0 ELSE i + 1) /\ NextSlot(i) \in Slots
  <1>1. STREAM_BUF_SIZE \in Nat \ {0} /\ 1 \in 0..STREAM_BUF_SIZE
    BY ConsoleAssumption
  <1>2. /\ NextSlot(i) = IF i + 1 < STREAM_BUF_SIZE THEN i + 1 ELSE i + 1 - STREAM_BUF_SIZE
        /\ NextSlot(i) \in Slots
    BY <1>1, SlotAfter DEF NextSlot
  <1> QED  BY <1>1, <1>2 DEF Slots

Values == Byte \cup {NUL}
Data   == [Slots -> Values]

LEMMA SliceIsSeq ==
  ASSUME NEW data \in Data, NEW t \in Slots, NEW n \in 0..STREAM_BUF_SIZE
  PROVE  /\ Slice(data, t, n) \in Seq(Values) /\ Len(Slice(data, t, n)) = n
         /\ \A i \in 1..n : Slice(data, t, n)[i] = data[(t + (i - 1)) % STREAM_BUF_SIZE]
  <1>0. STREAM_BUF_SIZE \in Nat /\ t \in Nat
    BY ConsoleAssumption DEF Slots
  <1>1. ASSUME NEW i \in 1..n
        PROVE  data[(t + i - 1) % STREAM_BUF_SIZE] \in Values /\ t + i - 1 = t + (i - 1)
    <2>1. i - 1 \in 0..STREAM_BUF_SIZE /\ t + i - 1 = t + (i - 1)
      BY <1>0
    <2> QED  BY <2>1, SlotAfter DEF Data
  <1>2. Slice(data, t, n) \in [1..n -> Values]
    BY <1>1 DEF Slice
  <1>3. Slice(data, t, n) \in Seq(Values) /\ Len(Slice(data, t, n)) = n
    BY <1>0, <1>2
  <1> QED  BY <1>1, <1>3 DEF Slice

\* A byte is stored behind the last one.
LEMMA SliceGrows ==
  ASSUME NEW data \in Data, NEW t \in Slots, NEW n \in 0..STREAM_BUF_SIZE-1, NEW b \in Values
  PROVE  LET h == (t + n) % STREAM_BUF_SIZE IN
         Slice([data EXCEPT ![h] = b], t, n + 1) = Slice(data, t, n) \o <<b>>
  <1> DEFINE h == (t + n) % STREAM_BUF_SIZE
             changed == [data EXCEPT ![h] = b]
             long == Slice(changed, t, n + 1)
             short == Slice(data, t, n)
  <1>0. STREAM_BUF_SIZE \in Nat \ {0} /\ n \in 0..STREAM_BUF_SIZE /\ n + 1 \in 0..STREAM_BUF_SIZE
    BY ConsoleAssumption
  <1>1. h \in Slots /\ h = IF t + n < STREAM_BUF_SIZE THEN t + n ELSE t + n - STREAM_BUF_SIZE
    BY <1>0, SlotAfter
  <1>2. changed \in Data /\ changed[h] = b /\ \A i \in Slots \ {h} : changed[i] = data[i]
    BY <1>1 DEF Data
  <1>3. /\ long \in Seq(Values) /\ Len(long) = n + 1
        /\ \A i \in 1..n + 1 : long[i] = changed[(t + (i - 1)) % STREAM_BUF_SIZE]
    <2> HIDE DEF changed
    <2> QED  BY <1>0, <1>2, SliceIsSeq
  <1>4. /\ short \in Seq(Values) /\ Len(short) = n
        /\ \A i \in 1..n : short[i] = data[(t + (i - 1)) % STREAM_BUF_SIZE]
    BY <1>0, SliceIsSeq
  <1>5. ASSUME NEW i \in 1..n
        PROVE  long[i] = short[i]
    <2>1. i - 1 \in 0..STREAM_BUF_SIZE /\ i - 1 < n /\ i \in 1..n + 1
      BY <1>0
    <2> DEFINE k == (t + (i - 1)) % STREAM_BUF_SIZE
    <2>2. k \in Slots /\ k = IF t + (i - 1) < STREAM_BUF_SIZE
                             THEN t + (i - 1) ELSE t + (i - 1) - STREAM_BUF_SIZE
      BY <2>1, SlotAfter
    <2>3. long[i] = changed[k] /\ short[i] = data[k]
      BY <1>3, <1>4, <2>1
    <2> HIDE DEF k, h
    <2>4. k # h
      BY <1>0, <1>1, <2>1, <2>2 DEF Slots
    <2> QED  BY <1>2, <2>2, <2>3, <2>4
  <1>6. long[n + 1] = b
    <2>1. n + 1 \in 1..n + 1 /\ (n + 1) - 1 = n
      BY <1>0
    <2>2. long[n + 1] = changed[(t + ((n + 1) - 1)) % STREAM_BUF_SIZE]
      BY <1>3, <2>1
    <2>3. long[n + 1] = changed[h]
      BY <2>1, <2>2
    <2> QED  BY <1>2, <2>3
  <1> HIDE DEF long, short, changed, h
  <1>7. long = short \o <<b>>
    BY <1>0, <1>3, <1>4, <1>5, <1>6
  <1> QED  BY <1>7 DEF long, short, changed, h

\* The first byte is taken.
LEMMA SliceShrinks ==
  ASSUME NEW data \in Data, NEW t \in Slots, NEW n \in 1..STREAM_BUF_SIZE
  PROVE  Slice(data, t, n) = <<data[t]>> \o Slice(data, NextSlot(t), n - 1)
  <1> DEFINE u == NextSlot(t)
             long == Slice(data, t, n)
             short == Slice(data, u, n - 1)
  <1>0. STREAM_BUF_SIZE \in Nat \ {0} /\ n \in 0..STREAM_BUF_SIZE /\ n - 1 \in 0..STREAM_BUF_SIZE
    BY ConsoleAssumption
  <1>1. u \in Slots /\ u = IF t + 1 = STREAM_BUF_SIZE THEN 0 ELSE t + 1
    BY NextSlotValue
  <1> HIDE DEF u
  <1>3. /\ long \in Seq(Values) /\ Len(long) = n
        /\ \A i \in 1..n : long[i] = data[(t + (i - 1)) % STREAM_BUF_SIZE]
    BY <1>0, SliceIsSeq
  <1>4. /\ short \in Seq(Values) /\ Len(short) = n - 1
        /\ \A i \in 1..n-1 : short[i] = data[(u + (i - 1)) % STREAM_BUF_SIZE]
    BY <1>0, <1>1, SliceIsSeq
  <1>5. ASSUME NEW i \in 1..n-1
        PROVE  long[i + 1] = short[i]
    <2>1. i - 1 \in 0..STREAM_BUF_SIZE /\ i \in 0..STREAM_BUF_SIZE /\ i + 1 \in 1..n /\ (i + 1) - 1 = i
      BY <1>0
    <2>2. (t + i) % STREAM_BUF_SIZE
            = IF t + i < STREAM_BUF_SIZE THEN t + i ELSE t + i - STREAM_BUF_SIZE
      BY <2>1, SlotAfter
    <2>3. (u + (i - 1)) % STREAM_BUF_SIZE
            = IF u + (i - 1) < STREAM_BUF_SIZE THEN u + (i - 1) ELSE u + (i - 1) - STREAM_BUF_SIZE
      BY <1>1, <2>1, SlotAfter
    <2> DEFINE k == (t + i) % STREAM_BUF_SIZE
               l == (u + (i - 1)) % STREAM_BUF_SIZE
    <2>5. long[i + 1] = data[(t + ((i + 1) - 1)) % STREAM_BUF_SIZE] /\ short[i] = data[l]
      BY <1>3, <1>4, <2>1
    <2>6. long[i + 1] = data[k]
      BY <2>1, <2>5
    <2>7. k = l
      <3> HIDE DEF k, l
      <3>1. /\ k = IF t + i < STREAM_BUF_SIZE THEN t + i ELSE t + i - STREAM_BUF_SIZE
            /\ l = IF u + (i - 1) < STREAM_BUF_SIZE
                   THEN u + (i - 1) ELSE u + (i - 1) - STREAM_BUF_SIZE
        BY <2>2, <2>3 DEF k, l
      <3> QED  BY <1>0, <1>1, <2>1, <3>1 DEF Slots
    <2> QED  BY <2>5, <2>6, <2>7
  <1>6. long[1] = data[t]
    <2>1. 1 \in 1..n /\ 1 - 1 = 0 /\ t + 0 = t /\ t \in Nat /\ t < STREAM_BUF_SIZE
      BY <1>0 DEF Slots
    <2>2. t % STREAM_BUF_SIZE = t
      BY <1>0, <2>1, ModSmall
    <2>3. long[1] = data[(t + (1 - 1)) % STREAM_BUF_SIZE]
      BY <1>3, <2>1
    <2> QED  BY <2>1, <2>2, <2>3
  <1>7. data[t] \in Values
    BY DEF Data
  <1> HIDE DEF long, short
  <1>8. long = <<data[t]>> \o short
    <2>1. /\ <<data[t]>> \o short \in Seq(Values) /\ Len(<<data[t]>> \o short) = n
          /\ (<<data[t]>> \o short)[1] = data[t]
          /\ \A i \in 1..n-1 : (<<data[t]>> \o short)[i + 1] = short[i]
      BY <1>0, <1>4, <1>7
    <2>2. \A i \in 1..n : i = 1 \/ (i - 1 \in 1..n-1 /\ (i - 1) + 1 = i)
      BY <1>0
    <2>3. \A i \in 1..n : long[i] = (<<data[t]>> \o short)[i]
      BY <1>5, <1>6, <2>1, <2>2
    <2> QED  BY <1>3, <2>1, <2>3
  <1> QED  BY <1>8 DEF long, short, u
-----------------------------------------------------------------------------
(* What the steps do to the bytes that were taken.                         *)
LEMMA KeepsOut ==
  ASSUME Frames, NEW c \in Ctx,
         \/ CheckStream(c) \/ TestRoom(c) \/ Clip(c) \/ LoadHead(c) \/ StoreByte(c)
         \/ LoadHeadAgain(c) \/ StoreHead(c) \/ LoadCount(c) \/ StoreCount(c)
         \/ TestRead(c) \/ LoadTail(c) \/ StoreTail(c) \/ LoadCountToRead(c) \/ StoreCountRead(c)
         \/ ReadReturn(c) \/ SaveColor(c)
         \/ CarriageReturn(c) \/ StartOfLine(c) \/ LineFeed(c) \/ NextLine(c)
         \/ LoadCell(c) \/ Advance(c) \/ Scroll(c)
         \/ Fits(c) \/ Paint(c) \/ StoreCursor(c) \/ Wrap(c)
  PROVE  frame'[c].out = frame[c].out
  <1>1. CASE \/ CheckStream(c) \/ TestRoom(c) \/ Clip(c) \/ LoadHead(c) \/ StoreByte(c)
             \/ LoadHeadAgain(c) \/ StoreHead(c) \/ LoadCount(c) \/ StoreCount(c)
    BY <1>1 DEF CheckStream, TestRoom, Clip, LoadHead, StoreByte, LoadHeadAgain, StoreHead,
       LoadCount, StoreCount, Load, Goto, F, Frames, Fields
  <1>2. CASE \/ TestRead(c) \/ LoadTail(c) \/ StoreTail(c) \/ LoadCountToRead(c)
             \/ StoreCountRead(c) \/ ReadReturn(c) \/ SaveColor(c)
    BY <1>2 DEF TestRead, LoadTail, StoreTail, LoadCountToRead, StoreCountRead, ReadReturn,
       SaveColor, Load, Goto, F, Frames, Fields
  <1>3. CASE \/ CarriageReturn(c) \/ StartOfLine(c) \/ LineFeed(c) \/ NextLine(c)
             \/ LoadCell(c) \/ Advance(c) \/ Scroll(c)
    BY <1>3 DEF CarriageReturn, StartOfLine, LineFeed, NextLine, LoadCell, Advance, Scroll,
       Load, Goto, F, Frames, Fields
  <1>4. CASE Fits(c) \/ Paint(c) \/ StoreCursor(c) \/ Wrap(c)
    BY <1>4 DEF Fits, Paint, StoreCursor, Wrap, Goto, F, Frames, Fields
  <1> QED  BY <1>1, <1>2, <1>3, <1>4

LEMMA SetsOut ==
  ASSUME Frames, NEW c \in Ctx
  PROVE  /\ TakeByte(c) => frame'[c].out = Append(frame[c].out, S(c).data[S(c).tail])
         /\ WriteReturn(c) \/ SetRed(c) => frame'[c].out = <<>>
         /\ Finish(c) => frame'[c].out \in {frame[c].out, <<>>}
  <1>1. TakeByte(c) => frame'[c].out = Append(frame[c].out, S(c).data[S(c).tail])
    BY DEF TakeByte, Goto, F, Frames, Fields
  <1>2. WriteReturn(c) \/ SetRed(c) => frame'[c].out = <<>>
    BY DEF WriteReturn, SetRed, StartRead, Goto, F, Frames, Fields
  <1>3. Finish(c) => frame'[c].out \in {frame[c].out, <<>>}
    <2>1. Finish(c) => frame'[c] \in {Putc(F(c), F(c).todo), Idle}
      BY DEF Finish, Goto, Frames
    <2>2. Putc(F(c), F(c).todo).out = F(c).out /\ Idle.out = <<>>
      BY DEF Putc, Idle, F, Frames, Fields
    <2> QED  BY <2>1, <2>2 DEF F
  <1> QED  BY <1>1, <1>2, <1>3

\* The loop of sh_render: the next byte, or the next stream_read.
LEMMA TailOut ==
  ASSUME Frames, NEW c \in Ctx, Goto(c, NextByte(c))
  PROVE  \/ /\ Len(frame[c].out) > 1 /\ frame'[c].out = Tail(frame[c].out)
            /\ frame'[c].pc = "byte" /\ frame'[c].s = frame[c].s
         \/ /\ ~ (Len(frame[c].out) > 1) /\ frame'[c].out = <<>>
            /\ frame'[c].pc = "read" /\ frame'[c].s = frame[c].s /\ frame'[c].done = 0
  <1>1. CASE Len(F(c).out) > 1
    <2>1. Goto(c, [F(c) EXCEPT !.out = Tail(F(c).out), !.pc = "byte"])
      BY <1>1 DEF NextByte
    <2> QED  BY <1>1, <2>1 DEF Goto, F, Frames, Fields
  <1>2. CASE ~ (Len(F(c).out) > 1)
    <2>1. Goto(c, StartRead(F(c), F(c).s))
      BY <1>2 DEF NextByte
    <2> QED  BY <1>2, <2>1 DEF StartRead, Goto, F, Frames, Fields
  <1> QED  BY <1>1, <1>2
-----------------------------------------------------------------------------
(* What the streams are going to be.  Only two steps change that.          *)
Half == HasStored \cup HasTaken
SameQueues(c) ==
  \A o \in Streams :
    /\ HeadOf(c, o)' = HeadOf(c, o) /\ TailOf(c, o)' = TailOf(c, o)
    /\ CountOf(c, o)' = CountOf(c, o) /\ streams'[o].data = streams[o].data

LEMMA KnownStream ==
  ASSUME SInv, CInv, NEW c \in Ctx, frame[c].pc \in Writing \cup Reading
  PROVE  frame[c].s \in Streams
  BY DEF SInv, CInv, Own, Asked, Taken, Written, Writing, Showing, Reading, Entering, Streams

LEMMA StreamTypes ==
  ASSUME SInv, NEW o \in Streams
  PROVE  /\ streams[o].data \in Data /\ streams[o].head \in Slots /\ streams[o].tail \in Slots
         /\ streams[o].count \in Int
         /\ DOMAIN streams[o] = {"data", "head", "tail", "count"}
  BY DEF SInv, StreamType, Data, Values

LEMMA NotHalf ==
  ASSUME NEW c \in Ctx, streams' = streams, {frame[c].pc, frame'[c].pc} \cap Half = {}
  PROVE  SameQueues(c)
  BY DEF SameQueues, HeadOf, TailOf, CountOf, On, Half, HasStored, HasTaken

LEMMA HalfLoads ==
  ASSUME Frames, NEW c \in Ctx,
         LoadHeadAgain(c) \/ LoadCount(c) \/ LoadTail(c) \/ LoadCountToRead(c)
  PROVE  SameQueues(c)
  <1>1. /\ streams' = streams /\ frame'[c].s = frame[c].s
        /\ \/ frame[c].pc = "head" /\ frame'[c].pc = "head2"
           \/ frame[c].pc = "count" /\ frame'[c].pc = "count2"
           \/ frame[c].pc = "tail" /\ frame'[c].pc = "tail2"
           \/ frame[c].pc = "dec" /\ frame'[c].pc = "dec2"
    BY StoreSteps, ReadSteps DEF Same
  <1> QED  BY <1>1 DEF SameQueues, HeadOf, TailOf, CountOf, On, HasStored, HasTaken

\* A field is set, the other fields and streams stay.
LEMMA SetsField ==
  ASSUME streams \in [Streams -> StreamType], NEW c \in Ctx, NEW s \in Streams, frame[c].s = s,
         NEW field \in {"data", "head", "tail", "count"}, NEW value, SetStream(c, field, value)
  PROVE  /\ \A o \in Streams \ {s} : streams'[o] = streams[o]
         /\ streams'[s].data  = IF field = "data"  THEN value ELSE streams[s].data
         /\ streams'[s].head  = IF field = "head"  THEN value ELSE streams[s].head
         /\ streams'[s].tail  = IF field = "tail"  THEN value ELSE streams[s].tail
         /\ streams'[s].count = IF field = "count" THEN value ELSE streams[s].count
  <1>1. /\ \A o \in Streams \ {s} : streams'[o] = streams[o]
        /\ streams'[s] = [streams[s] EXCEPT ![field] = value]
    BY SetsStream
  <1>2. streams[s] \in StreamType
    OBVIOUS
  <1> QED  BY <1>1, <1>2 DEF StreamType

LEMMA HalfStores ==
  ASSUME Frames, SInv, CInv, NEW c \in Ctx, Registers(c),
         StoreHead(c) \/ StoreCount(c) \/ StoreTail(c) \/ StoreCountRead(c)
  PROVE  SameQueues(c)
  <1> DEFINE s == frame[c].s
  <1>1. frame[c].pc \in {"head2", "count2", "tail2", "dec2"} /\ frame'[c].s = s
    BY StoreSteps, ReadSteps DEF Same
  <1>2. s \in Streams
    BY <1>1, KnownStream DEF Writing, Reading
  <1>3. streams \in [Streams -> StreamType] /\ S(c) = streams[s]
    BY DEF SInv, S
  <1>4. CASE StoreHead(c)
    <2>1. /\ frame[c].pc = "head2" /\ frame'[c].pc = "count" /\ frame[c].reg = streams[s].head
          /\ SetStream(c, "head", NextSlot(frame[c].reg))
      BY <1>3, <1>4, StoreSteps DEF Registers
    <2>2. /\ \A o \in Streams \ {s} : streams'[o] = streams[o]
          /\ streams'[s].head = NextSlot(streams[s].head) /\ streams'[s].tail = streams[s].tail
          /\ streams'[s].count = streams[s].count /\ streams'[s].data = streams[s].data
      BY <1>2, <1>3, <2>1, SetsField
    <2> HIDE DEF s
    <2> QED  BY <1>1, <1>2, <2>1, <2>2 DEF SameQueues, HeadOf, TailOf, CountOf, On, HasStored, HasTaken, s
  <1>5. CASE StoreTail(c)
    <2>1. /\ frame[c].pc = "tail2" /\ frame'[c].pc = "dec" /\ frame[c].reg = streams[s].tail
          /\ SetStream(c, "tail", NextSlot(frame[c].reg))
      BY <1>3, <1>5, ReadSteps DEF Registers
    <2>2. /\ \A o \in Streams \ {s} : streams'[o] = streams[o]
          /\ streams'[s].head = streams[s].head /\ streams'[s].tail = NextSlot(streams[s].tail)
          /\ streams'[s].count = streams[s].count /\ streams'[s].data = streams[s].data
      BY <1>2, <1>3, <2>1, SetsField
    <2> QED  BY <1>1, <1>2, <2>1, <2>2 DEF SameQueues, HeadOf, TailOf, CountOf, On, HasStored, HasTaken
  <1>6. CASE StoreCount(c)
    <2>1. /\ frame[c].pc = "count2" /\ frame'[c].pc = "write" /\ frame[c].reg = streams[s].count
          /\ SetStream(c, "count", frame[c].reg + 1)
      BY <1>3, <1>6, StoreSteps DEF Registers
    <2>2. /\ \A o \in Streams \ {s} : streams'[o] = streams[o]
          /\ streams'[s].head = streams[s].head /\ streams'[s].tail = streams[s].tail
          /\ streams'[s].count = streams[s].count + 1 /\ streams'[s].data = streams[s].data
      BY <1>2, <1>3, <2>1, SetsField
    <2> QED  BY <1>1, <1>2, <2>1, <2>2 DEF SameQueues, HeadOf, TailOf, CountOf, On, HasStored, HasTaken
  <1>7. CASE StoreCountRead(c)
    <2>1. /\ frame[c].pc = "dec2" /\ frame'[c].pc = "read" /\ frame[c].reg = streams[s].count
          /\ SetStream(c, "count", frame[c].reg - 1)
      BY <1>3, <1>7, ReadSteps DEF Registers
    <2>2. /\ \A o \in Streams \ {s} : streams'[o] = streams[o]
          /\ streams'[s].head = streams[s].head /\ streams'[s].tail = streams[s].tail
          /\ streams'[s].count = streams[s].count - 1 /\ streams'[s].data = streams[s].data
      BY <1>2, <1>3, <2>1, SetsField
    <2> QED  BY <1>1, <1>2, <2>1, <2>2 DEF SameQueues, HeadOf, TailOf, CountOf, On, HasStored, HasTaken
  <1> QED  BY <1>4, <1>5, <1>6, <1>7

LEMMA StoreQueue ==
  ASSUME Frames, SInv, CInv, NEW c \in Ctx, Registers(c), Fitting(c), StoreByte(c)
  PROVE  LET s == frame[c].s
             b == frame[c].buf[frame[c].done + 1]
         IN  /\ s \in Streams /\ b \in Values /\ frame'[c].s = s
             /\ \A o \in Streams \ {s} :
                  /\ HeadOf(c, o)' = HeadOf(c, o) /\ TailOf(c, o)' = TailOf(c, o)
                  /\ CountOf(c, o)' = CountOf(c, o) /\ streams'[o].data = streams[o].data
             /\ TailOf(c, s) \in Slots /\ TailOf(c, s)' = TailOf(c, s)
             /\ CountOf(c, s) < STREAM_BUF_SIZE /\ CountOf(c, s)' = CountOf(c, s) + 1
             /\ HeadOf(c, s)' = NextSlot(HeadOf(c, s))
             /\ streams'[s].data = [streams[s].data EXCEPT ![HeadOf(c, s)] = b]
  <1> DEFINE s == frame[c].s
             b == frame[c].buf[frame[c].done + 1]
             data == [streams[s].data EXCEPT ![frame[c].reg] = b]
  <1>1. /\ frame[c].pc = "store" /\ frame'[c].pc = "head" /\ frame'[c].s = s
        /\ SetStream(c, "data", data)
    BY StoreSteps DEF Same, S
  <1>2. s \in Streams
    BY <1>1, KnownStream DEF Writing, Reading
  <1>3. streams \in [Streams -> StreamType] /\ S(c) = streams[s]
    BY DEF SInv, S
  <1>4. Types(frame[c]) /\ Asked(frame[c])
    BY DEF SInv
  <1>5. frame[c].done < frame[c].len /\ frame[c].len <= frame[c].asked /\ frame[c].asked <= Len(frame[c].buf)
    BY <1>1, <1>4 DEF Asked, Storing, Written, Writing
  <1>6. b \in Values
    BY <1>4, <1>5 DEF Types, Values
  <1>7. frame[c].reg = streams[s].head /\ streams[s].count + (frame[c].len - frame[c].done) <= STREAM_BUF_SIZE
    BY <1>1, <1>3, <1>5 DEF Registers, Fitting, Writing
  <1>8. /\ \A o \in Streams \ {s} : streams'[o] = streams[o]
        /\ streams'[s].head = streams[s].head /\ streams'[s].tail = streams[s].tail
        /\ streams'[s].count = streams[s].count /\ streams'[s].data = data
    <2> HIDE DEF data
    <2> QED  BY <1>1, <1>2, <1>3, SetsField
  <1>9. streams[s].tail \in Slots /\ streams[s].count \in Int
    BY <1>2, StreamTypes
  <1>10. streams[s].count < STREAM_BUF_SIZE
    BY <1>4, <1>5, <1>7, <1>9, ConsoleAssumption DEF Types
  <1>11. /\ HeadOf(c, s) = streams[s].head /\ TailOf(c, s) = streams[s].tail
         /\ CountOf(c, s) = streams[s].count
    BY <1>1 DEF HeadOf, TailOf, CountOf, On, HasStored, HasTaken
  <1>12. /\ HeadOf(c, s)' = NextSlot(streams[s].head) /\ TailOf(c, s)' = streams[s].tail
         /\ CountOf(c, s)' = streams[s].count + 1
    BY <1>1, <1>8 DEF HeadOf, TailOf, CountOf, On, HasStored, HasTaken
  <1>13. \A o \in Streams \ {s} :
           /\ HeadOf(c, o)' = HeadOf(c, o) /\ TailOf(c, o)' = TailOf(c, o)
           /\ CountOf(c, o)' = CountOf(c, o) /\ streams'[o].data = streams[o].data
    BY <1>1, <1>8 DEF HeadOf, TailOf, CountOf, On
  <1> HIDE DEF b, s
  <1> QED  BY <1>1, <1>2, <1>6, <1>7, <1>8, <1>9, <1>10, <1>11, <1>12, <1>13 DEF s, b

LEMMA TakeQueue ==
  ASSUME Frames, SInv, CInv, NEW c \in Ctx, Fitting(c), TakeByte(c)
  PROVE  LET s == frame[c].s IN
         /\ s \in Streams /\ frame'[c].s = s /\ streams' = streams
         /\ \A o \in Streams \ {s} :
              /\ HeadOf(c, o)' = HeadOf(c, o) /\ TailOf(c, o)' = TailOf(c, o)
              /\ CountOf(c, o)' = CountOf(c, o)
         /\ TailOf(c, s) \in Slots /\ TailOf(c, s)' = NextSlot(TailOf(c, s))
         /\ CountOf(c, s) > 0 /\ CountOf(c, s)' = CountOf(c, s) - 1
         /\ HeadOf(c, s)' = HeadOf(c, s)
         /\ frame'[c].out = Append(frame[c].out, streams[s].data[TailOf(c, s)])
         /\ streams[s].data[TailOf(c, s)] \in Values
  <1> DEFINE s == frame[c].s
  <1>1. frame[c].pc = "take" /\ frame'[c].pc = "tail" /\ frame'[c].s = s /\ streams' = streams
    BY ReadSteps DEF Same
  <1>2. s \in Streams
    BY <1>1, KnownStream DEF Writing, Reading
  <1>3. S(c) = streams[s] /\ streams[s].tail \in Slots /\ streams[s].count \in Int /\ streams[s].data \in Data
    BY <1>2, StreamTypes DEF S
  <1>4. streams[s].count > 0
    BY <1>1, <1>3 DEF Fitting
  <1>5. /\ HeadOf(c, s) = streams[s].head /\ TailOf(c, s) = streams[s].tail
        /\ CountOf(c, s) = streams[s].count
    BY <1>1 DEF HeadOf, TailOf, CountOf, On, HasStored, HasTaken
  <1>6. /\ HeadOf(c, s)' = streams[s].head /\ TailOf(c, s)' = NextSlot(streams[s].tail)
        /\ CountOf(c, s)' = streams[s].count - 1
    BY <1>1 DEF HeadOf, TailOf, CountOf, On, HasStored, HasTaken
  <1>7. \A o \in Streams \ {s} :
          /\ HeadOf(c, o)' = HeadOf(c, o) /\ TailOf(c, o)' = TailOf(c, o)
          /\ CountOf(c, o)' = CountOf(c, o)
    BY <1>1 DEF HeadOf, TailOf, CountOf, On
  <1>8. frame'[c].out = Append(frame[c].out, streams[s].data[streams[s].tail])
    BY <1>3, SetsOut
  <1>9. streams[s].data[streams[s].tail] \in Values
    BY <1>3 DEF Data
  <1> HIDE DEF s
  <1> QED  BY <1>1, <1>2, <1>3, <1>4, <1>5, <1>6, <1>7, <1>8, <1>9 DEF s

\* The slot behind the last byte, when a byte is stored and when one is taken.
LEMMA EndOfLine ==
  ASSUME NEW t \in Slots
  PROVE  /\ \A n \in 0..STREAM_BUF_SIZE-1 :
              NextSlot((t + n) % STREAM_BUF_SIZE) = (t + (n + 1)) % STREAM_BUF_SIZE
         /\ \A n \in 1..STREAM_BUF_SIZE :
              (NextSlot(t) + (n - 1)) % STREAM_BUF_SIZE = (t + n) % STREAM_BUF_SIZE
  <1>0. STREAM_BUF_SIZE \in Nat \ {0} /\ t \in Nat /\ t < STREAM_BUF_SIZE
    BY ConsoleAssumption DEF Slots
  <1>1. ASSUME NEW n \in 0..STREAM_BUF_SIZE-1
        PROVE  NextSlot((t + n) % STREAM_BUF_SIZE) = (t + (n + 1)) % STREAM_BUF_SIZE
    <2> DEFINE h == (t + n) % STREAM_BUF_SIZE
               k == (t + (n + 1)) % STREAM_BUF_SIZE
    <2>1. n \in 0..STREAM_BUF_SIZE /\ n + 1 \in 0..STREAM_BUF_SIZE
      BY <1>0
    <2>2. h \in Slots /\ h = IF t + n < STREAM_BUF_SIZE THEN t + n ELSE t + n - STREAM_BUF_SIZE
      BY <2>1, SlotAfter
    <2>3. k = IF t + (n + 1) < STREAM_BUF_SIZE THEN t + (n + 1) ELSE t + (n + 1) - STREAM_BUF_SIZE
      BY <2>1, SlotAfter
    <2> HIDE DEF h, k
    <2>4. NextSlot(h) = IF h + 1 = STREAM_BUF_SIZE THEN 0 ELSE h + 1
      BY <2>2, NextSlotValue
    <2>5. NextSlot(h) = k
      BY <1>0, <2>2, <2>3, <2>4 DEF Slots
    <2> QED  BY <2>5 DEF h, k
  <1>2. ASSUME NEW n \in 1..STREAM_BUF_SIZE
        PROVE  (NextSlot(t) + (n - 1)) % STREAM_BUF_SIZE = (t + n) % STREAM_BUF_SIZE
    <2> DEFINE u == NextSlot(t)
               h == (u + (n - 1)) % STREAM_BUF_SIZE
               k == (t + n) % STREAM_BUF_SIZE
    <2>1. n \in 0..STREAM_BUF_SIZE /\ n - 1 \in 0..STREAM_BUF_SIZE
      BY <1>0
    <2>2. u \in Slots /\ u = IF t + 1 = STREAM_BUF_SIZE THEN 0 ELSE t + 1
      BY NextSlotValue
    <2> HIDE DEF u
    <2>3. h = IF u + (n - 1) < STREAM_BUF_SIZE THEN u + (n - 1) ELSE u + (n - 1) - STREAM_BUF_SIZE
      BY <2>1, <2>2, SlotAfter
    <2>4. k = IF t + n < STREAM_BUF_SIZE THEN t + n ELSE t + n - STREAM_BUF_SIZE
      BY <2>1, SlotAfter
    <2> HIDE DEF h, k
    <2>5. h = k
      BY <1>0, <2>2, <2>3, <2>4 DEF Slots
    <2> QED  BY <2>5 DEF u, h, k
  <1> QED  BY <1>1, <1>2

LEMMA BalancedSame ==
  ASSUME NEW c \in Ctx, Balanced(c), SameQueues(c)
  PROVE  Balanced(c)'
  BY DEF Balanced, SameQueues

LEMMA BalancedStore ==
  ASSUME Frames, SInv, CInv, NEW c \in Ctx, Balanced(c), Registers(c), Fitting(c), StoreByte(c)
  PROVE  Balanced(c)'
  <1> DEFINE s == frame[c].s
  <1> SUFFICES ASSUME NEW o \in Streams
               PROVE  /\ CountOf(c, o)' \in 0..STREAM_BUF_SIZE
                      /\ HeadOf(c, o)' = (TailOf(c, o)' + CountOf(c, o)') % STREAM_BUF_SIZE
    BY DEF Balanced
  <1>0. STREAM_BUF_SIZE \in Nat \ {0}
    BY ConsoleAssumption
  <1>1. CountOf(c, o) \in 0..STREAM_BUF_SIZE /\ HeadOf(c, o) = (TailOf(c, o) + CountOf(c, o)) % STREAM_BUF_SIZE
    BY DEF Balanced
  <1>2. CASE o # s
    BY <1>1, <1>2, StoreQueue
  <1>3. CASE o = s
    <2>1. /\ TailOf(c, o) \in Slots /\ TailOf(c, o)' = TailOf(c, o)
          /\ CountOf(c, o) < STREAM_BUF_SIZE /\ CountOf(c, o)' = CountOf(c, o) + 1
          /\ HeadOf(c, o)' = NextSlot(HeadOf(c, o))
      BY <1>3, StoreQueue
    <2>2. CountOf(c, o) \in 0..STREAM_BUF_SIZE-1
      BY <1>0, <1>1, <2>1
    <2>3. NextSlot((TailOf(c, o) + CountOf(c, o)) % STREAM_BUF_SIZE)
            = (TailOf(c, o) + (CountOf(c, o) + 1)) % STREAM_BUF_SIZE
      BY <2>1, <2>2, EndOfLine
    <2>4. CountOf(c, o) + 1 \in 0..STREAM_BUF_SIZE
      BY <1>0, <2>2
    <2> QED  BY <1>1, <2>1, <2>3, <2>4
  <1> QED  BY <1>2, <1>3

LEMMA BalancedTake ==
  ASSUME Frames, SInv, CInv, NEW c \in Ctx, Balanced(c), Fitting(c), TakeByte(c)
  PROVE  Balanced(c)'
  <1> DEFINE s == frame[c].s
  <1> SUFFICES ASSUME NEW o \in Streams
               PROVE  /\ CountOf(c, o)' \in 0..STREAM_BUF_SIZE
                      /\ HeadOf(c, o)' = (TailOf(c, o)' + CountOf(c, o)') % STREAM_BUF_SIZE
    BY DEF Balanced
  <1>0. STREAM_BUF_SIZE \in Nat \ {0}
    BY ConsoleAssumption
  <1>1. CountOf(c, o) \in 0..STREAM_BUF_SIZE /\ HeadOf(c, o) = (TailOf(c, o) + CountOf(c, o)) % STREAM_BUF_SIZE
    BY DEF Balanced
  <1>2. CASE o # s
    BY <1>1, <1>2, TakeQueue
  <1>3. CASE o = s
    <2>1. /\ TailOf(c, o) \in Slots /\ TailOf(c, o)' = NextSlot(TailOf(c, o))
          /\ CountOf(c, o) > 0 /\ CountOf(c, o)' = CountOf(c, o) - 1
          /\ HeadOf(c, o)' = HeadOf(c, o)
      BY <1>3, TakeQueue
    <2>2. CountOf(c, o) \in 1..STREAM_BUF_SIZE
      BY <1>0, <1>1, <2>1
    <2>3. (NextSlot(TailOf(c, o)) + (CountOf(c, o) - 1)) % STREAM_BUF_SIZE
            = (TailOf(c, o) + CountOf(c, o)) % STREAM_BUF_SIZE
      BY <2>1, <2>2, EndOfLine
    <2>4. CountOf(c, o) - 1 \in 0..STREAM_BUF_SIZE
      BY <1>0, <2>2
    <2> QED  BY <1>1, <2>1, <2>3, <2>4
  <1> QED  BY <1>2, <1>3
-----------------------------------------------------------------------------
(* The steps that are not within the loops of stream_write and stream_read.*)
Outside(c) ==
  \/ CheckStream(c) \/ WriteReturn(c) \/ ReadReturn(c) \/ SaveColor(c) \/ SetRed(c)
  \/ BadStream(c) \/ Deliver(c) \/ RestoreColor(c)
  \/ CarriageReturn(c) \/ StartOfLine(c) \/ LineFeed(c) \/ NextLine(c)
  \/ LoadCell(c) \/ Advance(c) \/ Scroll(c)
  \/ StoreStartOfLine(c) \/ Ignore(c) \/ NoWrap(c) \/ StoreScrolled(c)
  \/ Fits(c) \/ Paint(c) \/ StoreCursor(c) \/ Wrap(c)

LEMMA OutsideStep ==
  ASSUME Frames, NEW c \in Ctx, Outside(c)
  PROVE  /\ streams' = streams
         /\ frame[c].pc \notin Half \cup {"idle"}
         /\ frame'[c].pc \notin Writing \cup (Reading \ {"read"})
  <1>1. CASE CheckStream(c) \/ WriteReturn(c) \/ ReadReturn(c) \/ SaveColor(c) \/ SetRed(c)
    <2>1. streams' = streams
      BY <1>1, ClipSteps, TurnsSame
    <2> QED  BY <1>1, <2>1, Turns DEF Half, HasStored, HasTaken, Writing, Reading
  <1>2. CASE BadStream(c) \/ Deliver(c) \/ RestoreColor(c)
    <2>1. streams' = streams
      BY <1>2 DEF BadStream, Deliver, RestoreColor, shell
    <2>2. frame'[c].pc \in {"idle", "index"} /\ frame[c].pc \in {"badstream", "read", "restore"}
      BY <1>2, Returns, IdleFields
    <2> QED  BY <2>1, <2>2 DEF Half, HasStored, HasTaken, Writing, Reading
  <1>3. CASE \/ CarriageReturn(c) \/ StartOfLine(c) \/ LineFeed(c) \/ NextLine(c)
             \/ LoadCell(c) \/ Advance(c) \/ Scroll(c)
    <2>1. streams' = streams
      BY <1>3, ShowSteps
    <2> QED  BY <1>3, <2>1, CursorLoads
               DEF Half, HasStored, HasTaken, Writing, Reading, Rendering, Moving, Holding
  <1>4. CASE \/ StoreStartOfLine(c) \/ Ignore(c) \/ NoWrap(c) \/ StoreScrolled(c)
             \/ Fits(c) \/ Paint(c) \/ StoreCursor(c) \/ Wrap(c)
    <2>1. streams' = streams
      BY <1>4, ShowSteps
    <2> QED  BY <1>4, <2>1, CursorSteps
               DEF Half, HasStored, HasTaken, Writing, Reading, Rendering, Moving, Holding
  <1> QED  BY <1>1, <1>2, <1>3, <1>4 DEF Outside

LEMMA StepKinds ==
  ASSUME NEW c \in Ctx, Step(c)
  PROVE  \/ Outside(c)
         \/ TestRoom(c) \/ Clip(c) \/ LoadHead(c) \/ StoreByte(c) \/ LoadHeadAgain(c)
         \/ StoreHead(c) \/ LoadCount(c) \/ StoreCount(c)
         \/ TestRead(c) \/ TakeByte(c) \/ LoadTail(c) \/ StoreTail(c)
         \/ LoadCountToRead(c) \/ StoreCountRead(c)
  BY DEF Step, Outside

LEMMA QueuesStay ==
  ASSUME Frames, SInv, CInv, NEW c \in Ctx, Registers(c), Step(c), ~ StoreByte(c), ~ TakeByte(c)
  PROVE  SameQueues(c)
  <1>1. CASE Outside(c)
    <2>1. frame'[c].pc \notin Half
      BY <1>1, OutsideStep DEF Half, HasStored, HasTaken, Writing, Reading
    <2> QED  BY <1>1, <2>1, OutsideStep, NotHalf
  <1>2. CASE TestRoom(c) \/ Clip(c) \/ LoadHead(c) \/ TestRead(c)
    <2>1. /\ streams' = streams
          /\ frame[c].pc \in {"clip", "clip2", "write", "read"}
          /\ frame'[c].pc \in {"clip2", "write", "store", "take"}
      BY <1>2, ClipSteps, StoreSteps, ReadSteps
    <2> QED  BY <2>1, NotHalf DEF Half, HasStored, HasTaken
  <1>3. CASE LoadHeadAgain(c) \/ LoadCount(c) \/ LoadTail(c) \/ LoadCountToRead(c)
    BY <1>3, HalfLoads
  <1>4. CASE StoreHead(c) \/ StoreCount(c) \/ StoreTail(c) \/ StoreCountRead(c)
    BY <1>4, HalfStores
  <1> QED  BY <1>1, <1>2, <1>3, <1>4, StepKinds

LEMMA StepBalanced ==
  ASSUME Frames, SInv, CInv, NEW c \in Ctx, Balanced(c), Registers(c), Fitting(c), Step(c)
  PROVE  Balanced(c)'
  BY QueuesStay, BalancedSame, BalancedStore, BalancedTake

LEMMA StepRegisters ==
  ASSUME Frames, NEW c \in Ctx, Step(c)
  PROVE  Registers(c)'
  <1>1. CASE Outside(c)
    BY <1>1, OutsideStep DEF Registers, Writing, Reading
  <1>2. CASE \/ TestRoom(c) \/ Clip(c) \/ StoreByte(c) \/ StoreHead(c) \/ StoreCount(c)
             \/ TestRead(c) \/ TakeByte(c) \/ StoreTail(c) \/ StoreCountRead(c)
    <2>1. frame'[c].pc \in {"clip2", "write", "head", "count", "take", "tail", "dec", "read"}
      BY <1>2, ClipSteps, StoreSteps, ReadSteps
    <2> QED  BY <2>1 DEF Registers
  <1>3. CASE \/ LoadHead(c) \/ LoadHeadAgain(c) \/ LoadCount(c) \/ LoadTail(c)
             \/ LoadCountToRead(c)
    <2>1. /\ S(c)' = S(c)
          /\ \/ frame'[c].pc \in {"store", "head2"} /\ frame'[c].reg = S(c).head
             \/ frame'[c].pc \in {"count2", "dec2"} /\ frame'[c].reg = S(c).count
             \/ frame'[c].pc = "tail2" /\ frame'[c].reg = S(c).tail
      BY <1>3, StoreSteps, ReadSteps DEF Same, S
    <2> QED  BY <2>1 DEF Registers
  <1> QED  BY <1>1, <1>2, <1>3, StepKinds

LEMMA StepFitting ==
  ASSUME Frames, SInv, CInv, NEW c \in Ctx, Registers(c), Fitting(c), Step(c)
  PROVE  Fitting(c)'
  <1>0. STREAM_BUF_SIZE \in Nat /\ Types(frame[c]) /\ Asked(frame[c])
    BY ConsoleAssumption DEF SInv
  <1>1. CASE Outside(c)
    BY <1>1, OutsideStep DEF Fitting, Writing, Reading
  <1>2. CASE TestRoom(c) \/ Clip(c)
    <2>1. /\ Same(c) /\ streams' = streams /\ frame[c].pc \in {"clip", "clip2"}
          /\ frame'[c].done = frame[c].done
          /\ \/ frame'[c].pc = "clip2"
             \/ frame'[c].pc = "write" /\ frame'[c].len = frame[c].len /\ ~ (frame[c].len > Room(c))
             \/ frame'[c].pc = "write" /\ frame'[c].len = Room(c)
      <3>1. TestRoom(c) => frame'[c].pc = IF frame[c].len > Room(c) THEN "clip2" ELSE "write"
        BY DEF TestRoom, Goto, F, Frames, Fields
      <3> QED  BY <1>2, <3>1, ClipSteps DEF SameLength
    <2>2. frame[c].s \in Streams /\ frame[c].done = 0
      BY <1>0, <2>1 DEF Asked, Written, Entering
    <2>3. S(c)' = S(c) /\ S(c).count \in Int /\ Room(c) = STREAM_BUF_SIZE - S(c).count
      BY <2>1, <2>2, StreamTypes DEF S, Same, Room
    <2>4. frame'[c].pc = "write" => S(c).count + (frame'[c].len - frame'[c].done) <= STREAM_BUF_SIZE
      BY <1>0, <2>1, <2>2, <2>3 DEF Types
    <2> QED  BY <2>1, <2>3, <2>4 DEF Fitting, Writing
  <1>3. CASE \/ LoadHead(c) \/ StoreByte(c) \/ LoadHeadAgain(c) \/ StoreHead(c) \/ LoadCount(c)
    <2>1. /\ Same(c) /\ SameLength(c) /\ frame[c].pc \in Writing /\ frame'[c].pc \in Writing
          /\ frame'[c].pc # "take"
      BY <1>3, StoreSteps DEF Writing
    <2>2. frame[c].s \in Streams /\ streams \in [Streams -> StreamType]
      BY <2>1, KnownStream DEF SInv
    <2>3. S(c)'.count = S(c).count
      <3>1. CASE LoadHead(c) \/ LoadHeadAgain(c) \/ LoadCount(c)
        BY <2>1, <3>1, StoreSteps DEF S, Same
      <3>2. CASE StoreByte(c) \/ StoreHead(c)
        <4>1. PICK field \in {"data", "head"} : \E value : SetStream(c, field, value)
          BY <3>2, StoreSteps
        <4>2. PICK value : SetStream(c, field, value)
          BY <4>1
        <4>3. field \in {"data", "head", "tail", "count"} /\ field # "count"
          BY <4>1
        <4> QED  BY <2>1, <2>2, <4>2, <4>3, SetsField DEF S, Same
      <3> QED  BY <1>3, <3>1, <3>2
    <2> QED  BY <2>1, <2>3 DEF Fitting, SameLength
  <1>4. CASE StoreCount(c)
    <2>1. /\ Same(c) /\ frame[c].pc = "count2" /\ frame'[c].pc = "write"
          /\ frame'[c].len = frame[c].len /\ frame'[c].done = frame[c].done + 1
          /\ SetStream(c, "count", frame[c].reg + 1) /\ frame[c].reg = S(c).count
      BY <1>4, StoreSteps DEF Registers
    <2>2. frame[c].s \in Streams /\ streams \in [Streams -> StreamType]
      BY <2>1, KnownStream DEF SInv, Writing
    <2>3. S(c)'.count = S(c).count + 1 /\ S(c).count \in Int
      BY <2>1, <2>2, SetsField, StreamTypes DEF S, Same
    <2>4. frame[c].done < frame[c].len
      BY <1>0, <2>1 DEF Asked, Storing, Writing
    <2>5. S(c).count + (frame[c].len - frame[c].done) <= STREAM_BUF_SIZE
      BY <2>1, <2>4 DEF Fitting, Writing
    <2>6. S(c)'.count + (frame'[c].len - frame'[c].done) <= STREAM_BUF_SIZE
      BY <1>0, <2>1, <2>3, <2>5 DEF Types
    <2> QED  BY <2>1, <2>6 DEF Fitting
  <1>5. CASE TestRead(c)
    <2>1. frame'[c].pc = "take" /\ S(c)' = S(c)
      BY <1>5, ReadSteps DEF Same, S
    <2>2. S(c).count > 0
      BY <1>5 DEF TestRead, ReadMore
    <2> QED  BY <2>1, <2>2 DEF Fitting, Writing
  <1>6. CASE TakeByte(c) \/ LoadTail(c) \/ StoreTail(c) \/ LoadCountToRead(c) \/ StoreCountRead(c)
    <2>1. frame'[c].pc \in {"tail", "tail2", "dec", "dec2", "read"}
      BY <1>6, ReadSteps
    <2> QED  BY <2>1 DEF Fitting, Writing
  <1> QED  BY <1>1, <1>2, <1>3, <1>4, <1>5, <1>6, StepKinds

LEMMA RestOfSeq ==
  ASSUME NEW T, NEW q \in Seq(T), q # <<>>
  PROVE  /\ q = <<Head(q)>> \o Tail(q) /\ Head(q) \in T /\ Tail(q) \in Seq(T)
         /\ Len(q) > 1 => Tail(q) # <<>>
         /\ ~ (Len(q) > 1) => Tail(q) = <<>>
  OBVIOUS

LEMMA StepResult ==
  ASSUME Frames, SInv, CInv, NEW c \in Ctx, Result(c), Fitting(c), Step(c)
  PROVE  Result(c)'
  <1>0. frame[c].done \in Nat /\ frame[c].out \in Seq(Values)
    BY DEF SInv, Types, Result, Values
  <1>1. CASE \/ TestRoom(c) \/ Clip(c) \/ LoadHead(c) \/ StoreByte(c) \/ LoadHeadAgain(c)
             \/ StoreHead(c) \/ LoadCount(c) \/ StoreCount(c)
    <2>1. frame'[c].out = frame[c].out
      BY <1>1, KeepsOut
    <2> QED  BY <1>1, <2>1, WritingStep
               DEF Result, Streaming, HasTaken, Rendering, Moving, Holding
  <1>2. CASE TakeByte(c)
    <2>1. /\ frame[c].pc = "take" /\ frame'[c].pc = "tail" /\ frame'[c].done = frame[c].done
          /\ frame'[c].out = Append(frame[c].out, streams[frame[c].s].data[TailOf(c, frame[c].s)])
          /\ streams[frame[c].s].data[TailOf(c, frame[c].s)] \in Values
      BY <1>2, ReadSteps, TakeQueue DEF SameLength
    <2>2. Len(frame[c].out) = frame[c].done
      BY <2>1 DEF Result
    <2>3. frame'[c].out \in Seq(Values) /\ Len(frame'[c].out) = frame[c].done + 1
      BY <1>0, <2>1, <2>2
    <2> QED  BY <2>1, <2>3 DEF Result, Values, HasTaken, Rendering, Moving, Holding
  <1>3. CASE \/ TestRead(c) \/ LoadTail(c) \/ StoreTail(c) \/ LoadCountToRead(c) \/ StoreCountRead(c)
    <2>1. frame'[c].out = frame[c].out
      BY <1>3, KeepsOut
    <2>2. \/ frame[c].pc = "read" /\ frame'[c].pc = "take" /\ frame'[c].done = frame[c].done
          \/ frame[c].pc \in {"tail", "tail2", "dec"} /\ frame'[c].pc \in {"tail2", "dec", "dec2"}
               /\ frame'[c].done = frame[c].done
          \/ frame[c].pc = "dec2" /\ frame'[c].pc = "read" /\ frame'[c].done = frame[c].done + 1
      BY <1>3, ReadSteps DEF SameLength
    <2> QED  BY <2>1, <2>2 DEF Result, HasTaken, Rendering, Moving, Holding
  <1>4. CASE WriteReturn(c) \/ SetRed(c)
    <2>1. frame'[c].out = <<>> /\ frame'[c].pc = "read" /\ frame'[c].done = 0
      BY <1>4, SetsOut, Turns, TurnsSame
    <2>2. <<>> \in Seq(Byte \cup {NUL}) /\ Len(<<>>) = 0
      OBVIOUS
    <2> QED  BY <2>1, <2>2 DEF Result, HasTaken
  <1>5. CASE CheckStream(c) \/ ReadReturn(c) \/ SaveColor(c)
    <2>1. frame'[c].out = frame[c].out
      BY <1>5, KeepsOut
    <2>2. \/ frame'[c].pc \in {"clip", "badstream", "save", "restore", "red"}
          \/ frame'[c].pc = "byte" /\ frame[c].pc = "read" /\ frame[c].done # 0
      BY <1>5, Turns, TurnsSame
    <2>3. frame[c].pc = "read" /\ frame[c].done # 0 => frame[c].out # <<>>
      BY <1>0 DEF Result
    <2>4. frame'[c].pc \notin {"read", "take"} \cup HasTaken
      BY <2>2 DEF HasTaken
    <2>5. frame'[c].pc \in Rendering => frame[c].out # <<>>
      BY <2>2, <2>3 DEF Rendering, Moving, Holding
    <2> QED  BY <2>1, <2>4, <2>5 DEF Result
  <1>6. CASE BadStream(c) \/ Deliver(c) \/ RestoreColor(c)
    <2>1. frame'[c].out \in {frame[c].out, <<>>}
      BY <1>6, SetsOut DEF BadStream, Deliver, RestoreColor
    <2>2. frame'[c].pc \in {"idle", "index"}
      BY <1>6, Returns, IdleFields
    <2>3. frame'[c].out \in Seq(Byte \cup {NUL})
      <3>1. <<>> \in Seq(Byte \cup {NUL}) /\ frame[c].out \in Seq(Byte \cup {NUL})
        BY DEF Result
      <3> QED  BY <2>1, <3>1
    <2> QED  BY <2>2, <2>3 DEF Result, HasTaken, Rendering, Moving, Holding
  <1>7. CASE \/ CarriageReturn(c) \/ StartOfLine(c) \/ LineFeed(c) \/ NextLine(c)
             \/ LoadCell(c) \/ Advance(c) \/ Scroll(c)
             \/ Fits(c) \/ Paint(c) \/ StoreCursor(c) \/ Wrap(c)
    <2>1. frame'[c].out = frame[c].out
      BY <1>7, KeepsOut
    <2>2. frame[c].pc \in Rendering \ {"read"} /\ frame'[c].pc \in Rendering \ {"read"}
      <3>1. CASE \/ CarriageReturn(c) \/ StartOfLine(c) \/ LineFeed(c) \/ NextLine(c)
                 \/ LoadCell(c) \/ Advance(c) \/ Scroll(c)
        BY <3>1, CursorLoads
      <3>2. CASE Fits(c) \/ Paint(c) \/ StoreCursor(c) \/ Wrap(c)
        BY <3>2 DEF Fits, Paint, StoreCursor, Wrap, IsGlyph, At, Goto, F, Frames, Fields,
           Rendering, Moving, Holding
      <3> QED  BY <1>7, <3>1, <3>2
    <2>3. frame'[c].pc \notin {"take"} \cup HasTaken
      BY <2>2 DEF Rendering, Moving, Holding, HasTaken
    <2> QED  BY <2>1, <2>2, <2>3 DEF Result
  <1>8. CASE StoreStartOfLine(c) \/ Ignore(c) \/ NoWrap(c) \/ StoreScrolled(c)
    <2>1. Goto(c, NextByte(c))
      BY <1>8 DEF StoreStartOfLine, Ignore, NoWrap, StoreScrolled
    <2>2. \/ /\ Len(frame[c].out) > 1 /\ frame'[c].out = Tail(frame[c].out) /\ frame'[c].pc = "byte"
          \/ frame'[c].out = <<>> /\ frame'[c].pc = "read" /\ frame'[c].done = 0
      BY <2>1, TailOut
    <2>3. CASE Len(frame[c].out) > 1 /\ frame'[c].out = Tail(frame[c].out) /\ frame'[c].pc = "byte"
      <3>1. Tail(frame[c].out) \in Seq(Values) /\ Tail(frame[c].out) # <<>>
        <4> DEFINE q == frame[c].out
        <4>1. q \in Seq(Values) /\ Len(q) > 1
          BY <1>0, <2>3
        <4> HIDE DEF q
        <4>2. q # <<>>
          BY <4>1
        <4>3. Tail(q) \in Seq(Values) /\ Tail(q) # <<>>
          BY <4>1, <4>2, RestOfSeq
        <4> QED  BY <4>3 DEF q
      <3> QED  BY <2>3, <3>1 DEF Result, Values, HasTaken
    <2>4. CASE frame'[c].out = <<>> /\ frame'[c].pc = "read" /\ frame'[c].done = 0
      BY <2>4 DEF Result, HasTaken
    <2> QED  BY <2>2, <2>3, <2>4
  <1> QED  BY <1>1, <1>2, <1>3, <1>4, <1>5, <1>6, <1>7, <1>8, StepKinds DEF Outside

\* The cursor leaves the screen only on the way to sh_scroll.
LEMMA StepOnCourse ==
  ASSUME Frames, PInv, NEW c \in Ctx, OnCourse(c), Step(c)
  PROVE  OnCourse(c)'
  <1>0. /\ WIDTH \in Nat \ {0} /\ SIZE \in Nat /\ WIDTH <= SIZE /\ WORD \in Nat /\ WORD > SIZE + WIDTH
        /\ cursor \in 0..WORD-1 /\ (frame[c].pc \in Holding => frame[c].reg \in 0..WORD-1)
    BY Numbers DEF PInv
  <1>1. ASSUME cursor' = cursor, frame[c].pc \notin {"wrap", "scroll", "scrolled"},
               frame'[c].pc \notin Moving \/ frame'[c].pc \in {"cell", "paint"}
        PROVE  OnCourse(c)'
    BY <1>1 DEF OnCourse, Moving, Holding
  <1>2. CASE \/ TestRoom(c) \/ Clip(c) \/ LoadHead(c) \/ StoreByte(c) \/ LoadHeadAgain(c)
             \/ StoreHead(c) \/ LoadCount(c) \/ StoreCount(c)
    BY <1>1, <1>2, WritingStep DEF Streaming, Moving, Holding
  <1>3. CASE \/ TestRead(c) \/ TakeByte(c) \/ LoadTail(c) \/ StoreTail(c)
             \/ LoadCountToRead(c) \/ StoreCountRead(c)
    BY <1>1, <1>3, ReadingStep DEF Reading, Moving, Holding
  <1>4. CASE CheckStream(c) \/ WriteReturn(c) \/ ReadReturn(c) \/ SaveColor(c) \/ SetRed(c)
    BY <1>1, <1>4, Turns DEF Moving, Holding
  <1>5. CASE BadStream(c) \/ Deliver(c) \/ RestoreColor(c)
    BY <1>1, <1>5, Returns, IdleFields DEF Moving, Holding
  <1>6. CASE \/ CarriageReturn(c) \/ StartOfLine(c) \/ LineFeed(c) \/ NextLine(c)
             \/ LoadCell(c) \/ Advance(c) \/ Scroll(c)
    <2> DEFINE p == frame[c].pc
               r == frame[c].reg
               q == frame'[c].pc
               column == cursor % WIDTH
    <2>0. cursor' = cursor
      BY <1>6, CursorLoads
    <2>1. CASE p = "byte" /\ q \in {"cr", "nl"} /\ frame'[c].reg = cursor
      BY <2>0, <2>1 DEF OnCourse
    <2>2. CASE \/ p = "cr" /\ q = "cr2" /\ frame'[c].reg = (r - (cursor % WIDTH)) % WORD
               \/ p = "nl" /\ q = "moved" /\ frame'[c].reg = (r + WIDTH - (cursor % WIDTH)) % WORD
      <3>1. cursor < SIZE /\ r = cursor
        BY <2>2 DEF OnCourse
      <3>2. /\ (r - (cursor % WIDTH)) % WORD < SIZE
            /\ (r + WIDTH - (cursor % WIDTH)) % WORD < SIZE + WIDTH
        BY <1>0, <3>1, Lines
      <3> QED  BY <2>0, <2>2, <3>1, <3>2 DEF OnCourse
    <2>3. CASE p = "cell" /\ q = "paint"
      BY <2>0, <2>3 DEF OnCourse
    <2>4. CASE p = "inc" /\ q = "moved" /\ frame'[c].reg = (cursor + 1) % WORD
      <3>1. cursor < SIZE
        BY <2>4 DEF OnCourse
      <3>2. (cursor + 1) % WORD = cursor + 1
        BY <1>0, <3>1, ModSmall
      <3>3. frame'[c].reg < SIZE + WIDTH
        BY <1>0, <2>4, <3>1, <3>2
      <3> QED  BY <2>0, <2>4, <3>1, <3>3 DEF OnCourse
    <2>5. CASE p = "scroll" /\ q = "scrolled" /\ frame'[c].reg = (cursor - WIDTH) % WORD
      <3>1. SIZE <= cursor /\ cursor < SIZE + WIDTH
        BY <2>5 DEF OnCourse
      <3>2. cursor - WIDTH \in Nat /\ cursor - WIDTH < SIZE /\ cursor - WIDTH < WORD
        BY <1>0, <3>1
      <3>3. frame'[c].reg = cursor - WIDTH
        BY <1>0, <2>5, <3>2, ModSmall
      <3> QED  BY <2>0, <2>5, <3>2, <3>3 DEF OnCourse
    <2> QED  BY <1>6, <2>1, <2>2, <2>3, <2>4, <2>5, CursorLoads
  <1>7. CASE \/ StoreStartOfLine(c) \/ Ignore(c) \/ NoWrap(c) \/ StoreScrolled(c)
             \/ Fits(c) \/ Paint(c) \/ StoreCursor(c) \/ Wrap(c)
    <2> DEFINE p == frame[c].pc
               q == frame'[c].pc
    <2>1. CASE p \in {"cr2", "scrolled"} /\ q \notin Moving /\ cursor' = frame[c].reg
      BY <2>1 DEF OnCourse, Moving, Holding
    <2>2. CASE p = "moved" /\ q = "wrap" /\ cursor' = frame[c].reg
      BY <2>2 DEF OnCourse
    <2>3. CASE p \in {"byte", "paint"} /\ q \notin Moving /\ cursor' = cursor
      BY <1>1, <2>3
    <2>4. CASE p = "wrap" /\ ~ (cursor >= SIZE) /\ q \notin Moving /\ cursor' = cursor
      BY <1>0, <2>4 DEF OnCourse, Moving, Holding
    <2>5. CASE p = "byte" /\ cursor < SIZE /\ q = "cell" /\ cursor' = cursor
      BY <1>1, <2>5
    <2>6. CASE p = "wrap" /\ cursor >= SIZE /\ q = "scroll" /\ cursor' = cursor
      BY <1>0, <2>6 DEF OnCourse
    <2> QED  BY <1>7, <2>1, <2>2, <2>3, <2>4, <2>5, <2>6, CursorSteps
  <1> QED  BY <1>2, <1>3, <1>4, <1>5, <1>6, <1>7, StepKinds DEF Outside

LEMMA StepInRed ==
  ASSUME Frames, NEW c \in Ctx, InRed(c), Step(c)
  PROVE  InRed(c)'
  <1>1. CASE \/ TestRoom(c) \/ Clip(c) \/ LoadHead(c) \/ StoreByte(c) \/ LoadHeadAgain(c)
             \/ StoreHead(c) \/ LoadCount(c) \/ StoreCount(c)
    BY <1>1, WritingStep DEF InRed, Red, Streaming, Showing, Reading, Rendering, Moving, Holding
  <1>2. CASE \/ TestRead(c) \/ TakeByte(c) \/ LoadTail(c) \/ StoreTail(c)
             \/ LoadCountToRead(c) \/ StoreCountRead(c)
             \/ CarriageReturn(c) \/ StartOfLine(c) \/ LineFeed(c) \/ NextLine(c)
             \/ LoadCell(c) \/ Advance(c) \/ Scroll(c)
             \/ StoreStartOfLine(c) \/ Ignore(c) \/ NoWrap(c) \/ StoreScrolled(c)
             \/ Fits(c) \/ Paint(c) \/ StoreCursor(c) \/ Wrap(c)
    <2>1. /\ color' = color /\ frame'[c].s = frame[c].s
          /\ frame[c].pc \in Reading \cup Rendering
      BY <1>2, ReadingStep, CursorLoads, CursorSteps
    <2>2. Red(c)' => Red(c) /\ frame[c].pc # "restore"
      BY <2>1 DEF Red, Showing, Reading, Rendering, Moving, Holding
    <2> QED  BY <2>1, <2>2 DEF InRed
  <1>3. CASE CheckStream(c) \/ WriteReturn(c) \/ ReadReturn(c) \/ SaveColor(c) \/ SetRed(c)
    BY <1>3, Turns DEF InRed, Red, Showing, Reading, Rendering, Moving, Holding, STDOUT, STDERR
  <1>4. CASE BadStream(c) \/ Deliver(c) \/ RestoreColor(c)
    BY <1>4, Returns, IdleFields DEF InRed, Red, Showing, Reading, Rendering, Moving, Holding
  <1> QED  BY <1>1, <1>2, <1>3, <1>4, StepKinds DEF Outside
-----------------------------------------------------------------------------
(* One context at a time.                                                  *)
LEMMA StepGoes ==
  ASSUME Frames, NEW c \in Ctx, Step(c)
  PROVE  Goes1(c) /\ frame[c].pc # "idle"
  <1>1. CASE \/ TestRoom(c) \/ Clip(c) \/ LoadHead(c) \/ StoreByte(c) \/ LoadHeadAgain(c)
             \/ StoreHead(c) \/ LoadCount(c) \/ StoreCount(c)
    BY <1>1, WritingStep DEF Streaming
  <1>2. CASE \/ TestRead(c) \/ TakeByte(c) \/ LoadTail(c) \/ StoreTail(c)
             \/ LoadCountToRead(c) \/ StoreCountRead(c)
    BY <1>2, ReadingStep DEF Reading
  <1>3. CASE Outside(c)
    BY <1>3, OutsideStep, Turns, Returns, CursorLoads, CursorSteps DEF Outside
  <1> QED  BY <1>1, <1>2, <1>3, StepKinds

LEMMA OnlyActive ==
  ASSUME Frames, NEW c \in Ctx, Step(c)
  PROVE  c = Active
  BY StepGoes DEF Goes1, Running, Active, Ctx

LEMMA IdleQuiet ==
  ASSUME NEW c \in Ctx, NEW d \in Ctx, frame[c].pc = "idle", frame[d].pc = "idle", Quiet(c)
  PROVE  Quiet(d)
  <1>1. Balanced(d)
    BY DEF Quiet, Balanced, HeadOf, TailOf, CountOf, On, HasStored, HasTaken
  <1>2. Registers(d) /\ Fitting(d) /\ OnCourse(d)
    BY DEF Quiet, Registers, Fitting, OnCourse, Writing
  <1>3. InRed(d)
    BY DEF InRed, Red, Showing, Reading, Rendering, Moving, Holding
  <1> QED  BY <1>1, <1>2, <1>3 DEF Quiet

\* After a step of c: it goes on, or all are idle.
LEMMA Arrives ==
  ASSUME Base', NEW c \in Ctx, \A d \in Ctx : Result(d)', Alone(c)', Quiet(c)'
  PROVE  QInv'
  <1>1. CASE Active' = c
    BY <1>1 DEF QInv
  <1>2. CASE Active' # c
    <2>1. c = "irq" /\ Active' = "main" /\ frame'["irq"].pc = "idle" /\ frame'["main"].pc = "idle"
      BY <1>2 DEF Active, Alone, Ctx
    <2>2. Balanced("main")'
      BY <2>1 DEF Quiet, Balanced, HeadOf, TailOf, CountOf, On, HasStored, HasTaken
    <2>3. Registers("main")' /\ Fitting("main")' /\ OnCourse("main")'
      BY <2>1 DEF Quiet, Registers, Fitting, OnCourse, Writing
    <2>4. InRed("main")'
      BY <2>1 DEF InRed, Red, Showing, Reading, Rendering, Moving, Holding
    <2>5. Alone("main")'
      BY <2>1 DEF Alone, Ctx
    <2> QED  BY <2>1, <2>2, <2>3, <2>4, <2>5 DEF QInv, Quiet
  <1> QED  BY <1>1, <1>2

LEMMA StepQuiet ==
  ASSUME QInv, NEW c \in Ctx, Step(c)
  PROVE  QInv'
  <1>1. Frames /\ PInv /\ CInv /\ SInv /\ c = Active
    BY OnlyActive DEF QInv, Base
  <1>2. Base'
    BY <1>1, StepKeeps, ColorStep, StreamStep DEF Base
  <1>3. Balanced(c) /\ Registers(c) /\ Fitting(c) /\ OnCourse(c) /\ InRed(c) /\ Result(c) /\ Alone(c)
    BY <1>1 DEF QInv, Quiet
  <1>4. Balanced(c)' /\ Registers(c)' /\ Fitting(c)'
    BY <1>1, <1>3, StepBalanced, StepRegisters, StepFitting
  <1>5. OnCourse(c)' /\ InRed(c)' /\ Result(c)'
    BY <1>1, <1>3, StepOnCourse, StepInRed, StepResult
  <1>6. \A d \in Ctx \ {c} : frame'[d] = frame[d]
    BY <1>1, StepGoes DEF Goes1
  <1>7. \A d \in Ctx : Result(d)'
    BY <1>5, <1>6 DEF QInv, Result
  <1>8. Alone(c)'
    BY <1>3, <1>6 DEF Alone
  <1> QED  BY <1>2, <1>4, <1>5, <1>7, <1>8, Arrives DEF Quiet

(* A call begins, or a key is hit, when nothing is executed.               *)
LEMMA BeginsOut ==
  ASSUME Frames,
         \/ Puts(Message) \/ SysBadPointer
         \/ (\E fd \in Fds, b \in Buffers, n \in Lens : SysWrite(fd, b, n))
         \/ (\E n \in Lens : SysRead(n))
  PROVE  /\ frame'["main"].out = <<>> /\ frame'["main"].done = 0
         /\ \A d \in Ctx : frame[d].pc = "idle"
  <1>1. ASSUME NEW f, Call(f), f.out = <<>>, f.done = 0
        PROVE  /\ frame'["main"].out = <<>> /\ frame'["main"].done = 0
               /\ \A d \in Ctx : frame[d].pc = "idle"
    <2>1. frame'["main"] = f
      BY <1>1 DEF Call, Goto, Frames, Ctx
    <2> QED  BY <1>1, <2>1 DEF Call, Ctx
  <1>2. CASE Puts(Message) \/ SysBadPointer
    <2>1. PICK op : Call(Putc([Idle EXCEPT !.op = op], Message))
      BY <1>2 DEF Puts, SysBadPointer
    <2>2. Putc([Idle EXCEPT !.op = op], Message).out = <<>>
          /\ Putc([Idle EXCEPT !.op = op], Message).done = 0
      BY DEF Putc, Idle
    <2> HIDE DEF Putc
    <2> QED  BY <1>1, <2>1, <2>2
  <1>3. CASE \E fd \in Fds, b \in Buffers, n \in Lens : SysWrite(fd, b, n)
    <2>1. PICK fd \in Fds, b \in Buffers, n \in Lens : SysWrite(fd, b, n)
      BY <1>3
    <2> DEFINE f == [Idle EXCEPT !.op = "sys_write", !.pc = "index", !.s = fd, !.buf = b,
                                 !.len = n, !.asked = n]
    <2>2. Call(f) /\ f.out = <<>> /\ f.done = 0
      BY <2>1 DEF SysWrite, Idle
    <2> HIDE DEF f
    <2> QED  BY <1>1, <2>2
  <1>4. CASE \E n \in Lens : SysRead(n)
    <2>1. PICK n \in Lens : SysRead(n)
      BY <1>4
    <2> DEFINE f == [Idle EXCEPT !.op = "sys_read", !.pc = "read", !.s = STDIN, !.len = n,
                                 !.asked = n]
    <2>2. Call(f) /\ f.out = <<>> /\ f.done = 0
      BY <2>1 DEF SysRead, Idle
    <2> HIDE DEF f
    <2> QED  BY <1>1, <2>2
  <1> QED  BY <1>2, <1>3, <1>4

LEMMA BeginQuiet ==
  ASSUME QInv, Base', NEW c \in Ctx, Goes1(c), \A d \in Ctx : frame[d].pc = "idle",
         streams' = streams, cursor' = cursor,
         \/ frame'[c].pc = "index"
         \/ frame'[c].pc = "read" /\ frame'[c].s = STDIN,
         frame'[c].out = <<>>, frame'[c].done = 0
  PROVE  QInv' /\ SameQueues(c)
  <1>1. Quiet(c) /\ Alone(c)
    <2>1. Active \in Ctx
      BY DEF Active, Ctx
    <2> QED  BY <2>1, IdleQuiet DEF QInv, Alone
  <1>2. {frame[c].pc, frame'[c].pc} \cap Half = {}
    BY DEF Half, HasStored, HasTaken
  <1>3. SameQueues(c)
    BY <1>2, NotHalf
  <1>4. Balanced(c)'
    BY <1>1, <1>3, BalancedSame DEF Quiet
  <1>5. Registers(c)' /\ Fitting(c)'
    BY DEF Registers, Fitting, Writing
  <1>6. OnCourse(c)'
    BY <1>1 DEF Quiet, OnCourse
  <1>7. InRed(c)'
    BY DEF InRed, Red, Showing, Reading, Rendering, Moving, Holding, STDIN, STDERR
  <1>8. Result(c)'
    <2>1. <<>> \in Seq(Byte \cup {NUL}) /\ Len(<<>>) = 0
      OBVIOUS
    <2> QED  BY <2>1 DEF Result, HasTaken, Rendering, Moving, Holding
  <1>9. \A d \in Ctx \ {c} : frame'[d] = frame[d]
    BY DEF Goes1
  <1>10. (\A d \in Ctx : Result(d)') /\ Alone(c)'
    BY <1>1, <1>8, <1>9 DEF QInv, Result, Alone
  <1> QED  BY <1>3, <1>4, <1>5, <1>6, <1>7, <1>10, Arrives DEF Quiet

LEMMA KeyWaits ==
  ASSUME ~ Preemptible, Frames, NEW k \in Keys, KeyPress(k)
  PROVE  /\ frame'["irq"].out = <<>> /\ frame'["irq"].done = 0
         /\ \A d \in Ctx : frame[d].pc = "idle"
  <1>0. "irq" \in Ctx
    BY DEF Ctx
  <1> QED  BY <1>0 DEF KeyPress, Goto, Idle, Frames, Ctx

LEMMA QNextInv ==
  ASSUME ~ Preemptible, QInv, [Next]_vars
  PROVE  QInv'
  <1>0. Base'
    BY PNextInv, ColorNext, StreamNext DEF QInv, Base
  <1>1. Frames /\ {"main", "irq"} \subseteq Ctx
    BY DEF QInv, Base, Ctx
  <1>2. CASE \/ Puts(Message) \/ SysBadPointer
             \/ (\E fd \in Fds, b \in Buffers, n \in Lens : SysWrite(fd, b, n))
             \/ (\E n \in Lens : SysRead(n))
    <2>1. /\ Goes1("main") /\ cursor' = cursor /\ streams' = streams
          /\ \/ frame'["main"].pc = "index"
             \/ frame'["main"].pc = "read" /\ frame'["main"].s = STDIN
      BY <1>1, <1>2, Begins, BeginSteps
    <2> QED  BY <1>0, <1>1, <1>2, <2>1, BeginsOut, BeginQuiet
  <1>3. CASE \E k \in Keys : KeyPress(k)
    <2>1. PICK k \in Keys : KeyPress(k)
      BY <1>3
    <2>2. Goes1("irq") /\ cursor' = cursor /\ streams' = streams /\ frame'["irq"].pc = "index"
      BY <1>1, <2>1, KeyHit, KeySteps
    <2> QED  BY <1>0, <1>1, <2>1, <2>2, KeyWaits, BeginQuiet
  <1>4. CASE SysAtOnce(-1) \/ SysAtOnce(1) \/ UNCHANGED vars
    <2>1. frame' = frame /\ cursor' = cursor /\ streams' = streams /\ color' = color
      BY <1>4 DEF SysAtOnce, vars, shell
    <2>2. Active' = Active
      BY <2>1 DEF Active
    <2>3. Alone(Active)' /\ \A c \in Ctx : Result(c)'
      BY <2>1, <2>2 DEF QInv, Alone, Result
    <2>4. Balanced(Active)' /\ Registers(Active)' /\ Fitting(Active)' /\ OnCourse(Active)' /\ InRed(Active)'
      BY <2>1, <2>2 DEF QInv, Quiet, Balanced, HeadOf, TailOf, CountOf, On, Registers, Fitting,
         OnCourse, InRed, Red, S
    <2> QED  BY <1>0, <2>3, <2>4 DEF QInv, Quiet
  <1>5. CASE \E c \in {"main", "irq"} : Step(c)
    BY <1>1, <1>5, StepQuiet
  <1> QED  BY <1>2, <1>3, <1>4, <1>5 DEF Next

LEMMA QInitInv == Init => QInv
  <1> SUFFICES ASSUME Init PROVE QInv
    OBVIOUS
  <1>1. Base
    BY PInitInv, ColorInit, StreamInit DEF Base
  <1>2. \A c \in Ctx : frame[c] = Idle
    BY DEF Init, Ctx
  <1>3. Active \in Ctx /\ Alone(Active)
    BY <1>2, IdleFields DEF Active, Alone, Ctx
  <1>4. Idle.pc = "idle" /\ Idle.out = <<>> /\ Idle.s = STDIN
    BY DEF Idle
  <1>5. \A c \in Ctx : Result(c)
    <2>1. <<>> \in Seq(Byte \cup {NUL})
      OBVIOUS
    <2> QED  BY <1>2, <1>4, <2>1 DEF Result, HasTaken, Rendering, Moving, Holding
  <1>6. /\ \A o \in Streams : streams[o].head = 0 /\ streams[o].tail = 0 /\ streams[o].count = 0
        /\ cursor = 0
    BY DEF Init
  <1>7. STREAM_BUF_SIZE \in Nat \ {0} /\ 0 \in Slots /\ 0 < SIZE
    BY Numbers, ConsoleAssumption DEF Slots
  <1>8. ASSUME NEW c \in Ctx
        PROVE  Quiet(c)
    <2>1. frame[c].pc = "idle"
      BY <1>2, <1>4
    <2>2. (0 + 0) % STREAM_BUF_SIZE = 0
      BY <1>7, ModSmall
    <2>3. Balanced(c)
      BY <1>6, <1>7, <2>1, <2>2 DEF Balanced, HeadOf, TailOf, CountOf, On, HasStored, HasTaken
    <2>4. Registers(c) /\ Fitting(c) /\ OnCourse(c)
      BY <1>6, <1>7, <2>1 DEF Registers, Fitting, OnCourse, Writing
    <2>5. InRed(c)
      BY <2>1 DEF InRed, Red, Showing, Reading, Rendering, Moving, Holding
    <2> QED  BY <2>3, <2>4, <2>5 DEF Quiet
  <1> QED  BY <1>1, <1>3, <1>5, <1>8 DEF QInv
-----------------------------------------------------------------------------
(* stream.h:11: with keys between calls, count is the number of bytes      *)
(* between tail and head whenever no call is executing.                    *)
THEOREM CountIsKept == ASSUME ~ Preemptible PROVE Spec => []CountIsBytes
  <1>1. QInv => CountIsBytes
    <2> SUFFICES ASSUME QInv, Quiescent, NEW s \in Streams
                 PROVE  /\ streams[s].count \in 0..STREAM_BUF_SIZE
                        /\ streams[s].head = (streams[s].tail + streams[s].count) % STREAM_BUF_SIZE
      BY DEF CountIsBytes
    <2>1. frame[Active].pc = "idle"
      BY DEF Quiescent, Active
    <2> QED  BY <2>1 DEF QInv, Quiet, Balanced, HeadOf, TailOf, CountOf, On, HasStored, HasTaken
  <1> QED  BY <1>1, QInitInv, QNextInv, PTL DEF Spec

(* shell.c:81-112: with keys between calls, sh_render and sh_scroll always *)
(* take the cursor back to the screen before they return.                  *)
THEOREM CursorComesBack == ASSUME ~ Preemptible PROVE Spec => []CursorOnScreen
  <1>1. QInv => CursorOnScreen
    <2> SUFFICES ASSUME QInv, Quiescent PROVE cursor < SIZE
      BY DEF CursorOnScreen
    <2>1. frame[Active].pc = "idle"
      BY DEF Quiescent, Active
    <2> QED  BY <2>1 DEF QInv, Quiet, OnCourse
  <1> QED  BY <1>1, QInitInv, QNextInv, PTL DEF Spec

(* shell.c:85: with keys between calls, every character of stderr is       *)
(* painted red, and every other one grey.                                  *)
THEOREM StderrStaysRed == ASSUME ~ Preemptible PROVE Spec => StderrIsRed
  <1>1. ASSUME QInv, NEW c \in {"main", "irq"}, Paint(c)
        PROVE  color = IF frame[c].s = STDERR THEN RED ELSE GREY
    <2>1. c \in Ctx /\ Frames /\ CInv /\ Step(c)
      BY <1>1 DEF QInv, Base, Ctx, Step
    <2>2. c = Active /\ Goes1(c)
      BY <2>1, OnlyActive, StepGoes
    <2>3. frame[c].pc = "paint"
      BY <1>1 DEF Paint, At
    <2>4. CASE frame[c].s = STDERR
      <3>1. Red(c)
        BY <2>3, <2>4 DEF Red, Showing, Rendering, Moving, Holding
      <3>2. InRed(c)
        BY <1>1, <2>2 DEF QInv, Quiet
      <3> QED  BY <2>3, <2>4, <3>1, <3>2 DEF InRed
    <2>5. CASE frame[c].s # STDERR
      <3>1. ~ Red(c)
        BY <2>5 DEF Red
      <3> QED  BY <2>1, <2>2, <2>3, <2>5, <3>1, Grey
    <2> QED  BY <2>4, <2>5
  <1>2. QInv => [\A c \in {"main", "irq"} :
                   Paint(c) => color = IF frame[c].s = STDERR THEN RED ELSE GREY]_vars
    BY <1>1
  <1> QED  BY <1>2, QInitInv, QNextInv, PTL DEF Spec, StderrIsRed
-----------------------------------------------------------------------------
(* Sequences: what is moved from one end of a log to the other.            *)
LEMMA Assoc ==
  ASSUME NEW x \in Seq(Values), NEW y \in Seq(Values), NEW z \in Seq(Values)
  PROVE  (x \o y) \o z = x \o (y \o z)
  BY ConcatAssociative

LEMMA Singles ==
  ASSUME NEW h \in Seq(Values), NEW w \in Seq(Values), NEW b \in Values
  PROVE  h \o w \in Seq(Values) /\ <<b>> \in Seq(Values) /\ Append(w, b) = w \o <<b>>
  OBVIOUS

\* A byte is taken from the line, a byte is stored, a byte is shown.
LEMMA MoveTaken ==
  ASSUME NEW h \in Seq(Values), NEW w \in Seq(Values), NEW l \in Seq(Values), NEW b \in Values
  PROVE  (h \o w) \o (<<b>> \o l) = (h \o Append(w, b)) \o l
  <1>1. h \o w \in Seq(Values) /\ <<b>> \in Seq(Values) /\ Append(w, b) = w \o <<b>>
    BY Singles
  <1>2. (h \o w) \o (<<b>> \o l) = ((h \o w) \o <<b>>) \o l
    BY <1>1, Assoc, Zenon
  <1>3. (h \o w) \o <<b>> = h \o (w \o <<b>>)
    BY <1>1, Assoc, Zenon
  <1> QED  BY <1>1, <1>2, <1>3, Zenon

LEMMA MoveStored ==
  ASSUME NEW h \in Seq(Values), NEW w \in Seq(Values), NEW l \in Seq(Values), NEW b \in Values
  PROVE  ((h \o w) \o l) \o <<b>> = (h \o w) \o (l \o <<b>>)
  <1>1. h \o w \in Seq(Values) /\ <<b>> \in Seq(Values)
    BY Singles
  <1> QED  BY <1>1, Assoc, Zenon

LEMMA MoveShown ==
  ASSUME NEW h \in Seq(Values), NEW w \in Seq(Values), w # <<>>
  PROVE  (h \o <<Head(w)>>) \o Tail(w) = h \o w
  <1>1. w = <<Head(w)>> \o Tail(w) /\ Head(w) \in Values /\ Tail(w) \in Seq(Values)
    BY RestOfSeq
  <1>2. <<Head(w)>> \in Seq(Values)
    BY <1>1
  <1>3. (h \o <<Head(w)>>) \o Tail(w) = h \o (<<Head(w)>> \o Tail(w))
    BY <1>1, <1>2, Assoc, Zenon
  <1> QED  BY <1>1, <1>3, Zenon
-----------------------------------------------------------------------------
(* What the logs record of a step.                                         *)
LEMMA LogPcs ==
  ASSUME NEW c \in Ctx
  PROVE  /\ StoreByte(c) => frame[c].pc = "store"
         /\ CarriageReturn(c) \/ LineFeed(c) => frame[c].pc = "byte"
         /\ Paint(c) => frame[c].pc = "paint"
         /\ Deliver(c) => frame[c].pc = "read"
  BY DEF StoreByte, CarriageReturn, LineFeed, ByteIs, Paint, Deliver, ReadEnds, At

LEMMA Unrecorded ==
  ASSUME HNext, NEW c \in Ctx, c = Active
  PROVE  /\ ~ StoreByte(c) => accepted' = accepted
         /\ ~ (CarriageReturn(c) \/ LineFeed(c) \/ Paint(c) \/ Deliver(c)) => handled' = handled
  <1> DEFINE Add(log, bytes) ==
               IF bytes = <<>> THEN log ELSE [log EXCEPT ![frame[c].s] = @ \o bytes]
  <1>1. accepted' = Add(accepted, Stored(c)) /\ handled' = Add(handled, Shown(c) \o Delivered(c))
    BY DEF HNext, Active, F
  <1>2. <<>> \o <<>> = <<>>
    BY ConcatEmptySeq
  <1> QED  BY <1>1, <1>2 DEF Stored, Shown, Delivered

LEMMA Recorded ==
  ASSUME HNext, {accepted, handled} \subseteq Logs, NEW c \in Ctx, c = Active,
         frame[c].out \in Seq(Values)
  PROVE  LET s == frame[c].s IN
         /\ StoreByte(c) =>
              accepted' = [accepted EXCEPT ![s] = @ \o <<frame[c].buf[frame[c].done + 1]>>]
         /\ CarriageReturn(c) \/ LineFeed(c) \/ Paint(c) =>
              handled' = [handled EXCEPT ![s] = @ \o <<Head(frame[c].out)>>]
         /\ Deliver(c) /\ s \in Streams =>
              handled' = [handled EXCEPT ![s] = @ \o frame[c].out]
  <1> DEFINE s == frame[c].s
             out == frame[c].out
             Add(log, bytes) ==
               IF bytes = <<>> THEN log ELSE [log EXCEPT ![s] = @ \o bytes]
  <1>1. accepted' = Add(accepted, Stored(c)) /\ handled' = Add(handled, Shown(c) \o Delivered(c))
    BY DEF HNext, Active, F
  <1>2. \A b : <<b>> # <<>> /\ <<b>> \o <<>> = <<b>>
    OBVIOUS
  <1>3. <<>> \o <<>> = <<>> /\ <<>> \o out = out
    BY ConcatEmptySeq
  <1>4. StoreByte(c) => accepted' = [accepted EXCEPT ![s] = @ \o <<frame[c].buf[frame[c].done + 1]>>]
    BY <1>1, <1>2 DEF Stored, F
  <1>5. ASSUME CarriageReturn(c) \/ LineFeed(c) \/ Paint(c)
        PROVE  handled' = [handled EXCEPT ![s] = @ \o <<Head(out)>>]
    <2>1. ~ Deliver(c)
      BY <1>5, LogPcs
    <2>2. Shown(c) \o Delivered(c) = <<Head(out)>>
      BY <1>2, <1>5, <2>1 DEF Shown, Delivered, F
    <2> QED  BY <1>1, <1>2, <2>2
  <1>6. ASSUME Deliver(c), s \in Streams
        PROVE  handled' = [handled EXCEPT ![s] = @ \o out]
    <2>1. ~ (CarriageReturn(c) \/ LineFeed(c) \/ Paint(c))
      BY <1>6, LogPcs
    <2>2. Shown(c) \o Delivered(c) = out
      BY <1>3, <1>6, <2>1 DEF Shown, Delivered, F
    <2>3. handled' = IF out = <<>> THEN handled ELSE [handled EXCEPT ![s] = @ \o out]
      BY <1>1, <2>2
    <2>4. handled \in [Streams -> Seq(Values)]
      BY DEF Logs, Values
    <2>5. out = <<>> => handled[s] \o out = handled[s]
      BY <1>6, <2>4, ConcatEmptySeq
    <2> QED  BY <1>6, <2>3, <2>4, <2>5
  <1> QED  BY <1>4, <1>5, <1>6
-----------------------------------------------------------------------------
(* What is owed, and what lies in the streams.                             *)
LEMMA TypedLines ==
  ASSUME SInv, NEW c \in Ctx, Balanced(c), Result(c), NEW o \in Streams
  PROVE  /\ Owed(c, o) \in Seq(Values) /\ Line(c, o) \in Seq(Values)
         /\ TailOf(c, o) \in Slots /\ CountOf(c, o) \in 0..STREAM_BUF_SIZE
  <1>1. TailOf(c, o) \in Slots
    BY StreamTypes, NextSlotValue DEF TailOf
  <1>2. CountOf(c, o) \in 0..STREAM_BUF_SIZE
    BY DEF Balanced
  <1>3. streams[o].data \in Data
    BY StreamTypes
  <1>4. Line(c, o) \in Seq(Values)
    BY <1>1, <1>2, <1>3, SliceIsSeq DEF Line
  <1>5. frame[c].out \in Seq(Values)
    BY DEF Result, Values
  <1>6. On(c, o, Passed) => Tail(frame[c].out) \in Seq(Values)
    <2>1. On(c, o, Passed) => frame[c].pc \in Rendering \ {"read"}
      BY DEF On, Passed, Rendering, Moving, Holding
    <2>2. On(c, o, Passed) => frame[c].out # <<>>
      BY <2>1 DEF Result
    <2> QED  BY <1>5, <2>2, RestOfSeq
  <1>7. <<>> \in Seq(Values)
    OBVIOUS
  <1>8. Owed(c, o) \in Seq(Values)
    BY <1>5, <1>6, <1>7 DEF Owed
  <1> QED  BY <1>1, <1>2, <1>4, <1>8

\* Where bytes are owed in which form.
Whole == Reading \cup {"byte", "cell", "paint"}

LEMMA OwedIs ==
  ASSUME NEW c \in Ctx, NEW o \in Streams
  PROVE  /\ frame[c].s # o \/ frame[c].pc \notin Whole \cup Passed => Owed(c, o) = <<>>
         /\ frame[c].s = o /\ frame[c].pc \in Whole => Owed(c, o) = frame[c].out
         /\ frame[c].s = o /\ frame[c].pc \in Passed => Owed(c, o) = Tail(frame[c].out)
         /\ frame'[c].s # o \/ frame'[c].pc \notin Whole \cup Passed => Owed(c, o)' = <<>>
         /\ frame'[c].s = o /\ frame'[c].pc \in Whole => Owed(c, o)' = frame'[c].out
         /\ frame'[c].s = o /\ frame'[c].pc \in Passed => Owed(c, o)' = Tail(frame'[c].out)
  BY DEF Owed, On, Whole, Passed, Reading

\* The steps within a loop, and those that return nothing.
LEMMA OwedStays ==
  ASSUME Frames, NEW c \in Ctx, NEW o \in Streams, frame'[c].s = frame[c].s,
         frame'[c].out = frame[c].out,
         \/ {frame[c].pc, frame'[c].pc} \cap (Whole \cup Passed) = {}
         \/ {frame[c].pc, frame'[c].pc} \subseteq Whole
         \/ {frame[c].pc, frame'[c].pc} \subseteq Passed
  PROVE  Owed(c, o)' = Owed(c, o)
  <1>1. CASE frame[c].s = o
    BY <1>1 DEF Owed, On, Whole, Passed, Reading
  <1>2. CASE frame[c].s # o
    BY <1>2 DEF Owed, On
  <1> QED  BY <1>1, <1>2

LEMMA OwedKept ==
  ASSUME Frames, PInv, SInv, CInv, NEW c \in Ctx, Result(c), OnCourse(c), Step(c), NEW o \in Streams,
         ~ (CarriageReturn(c) \/ LineFeed(c) \/ Paint(c) \/ Deliver(c) \/ TakeByte(c))
  PROVE  Owed(c, o)' = Owed(c, o)
  <1> USE DEF Whole, Passed, Reading
  <1>1. CASE \/ TestRoom(c) \/ Clip(c) \/ LoadHead(c) \/ StoreByte(c) \/ LoadHeadAgain(c)
             \/ StoreHead(c) \/ LoadCount(c) \/ StoreCount(c)
    BY <1>1, WritingStep, KeepsOut, OwedStays DEF Streaming
  <1>2. CASE \/ TestRead(c) \/ LoadTail(c) \/ StoreTail(c) \/ LoadCountToRead(c) \/ StoreCountRead(c)
    BY <1>2, ReadingStep, KeepsOut, OwedStays
  <1>3. CASE CheckStream(c) \/ SaveColor(c)
    BY <1>3, Turns, KeepsOut, OwedStays
  <1>4. CASE WriteReturn(c) \/ SetRed(c)
    <2>1. frame[c].pc \in {"write", "red"} /\ frame'[c].out = <<>> /\ frame'[c].pc = "read"
      BY <1>4, Turns, SetsOut
    <2> QED  BY <2>1, OwedIs
  <1>5. CASE ReadReturn(c)
    <2>1. /\ frame[c].pc = "read" /\ frame'[c].s = frame[c].s /\ frame'[c].out = frame[c].out
          /\ \/ frame'[c].pc = "byte"
             \/ frame'[c].pc \in {"save", "restore"} /\ frame[c].done = 0
      <3>1. frame[c].done \in Nat
        BY DEF SInv, Types
      <3> QED  BY <1>5, <3>1, Turns, TurnsSame, KeepsOut
    <2>2. CASE frame'[c].pc = "byte"
      BY <2>1, <2>2, OwedStays
    <2>3. CASE frame'[c].pc \in {"save", "restore"} /\ frame[c].done = 0
      <3>1. Len(frame[c].out) = 0 /\ frame[c].out \in Seq(Byte \cup {NUL})
        BY <2>1, <2>3 DEF Result
      <3>2. frame[c].out = <<>>
        BY <3>1
      <3> QED  BY <2>1, <2>3, <3>2, OwedIs
    <2> QED  BY <2>1, <2>2, <2>3
  <1>6. CASE BadStream(c) \/ RestoreColor(c)
    <2>1. frame[c].pc \in {"badstream", "restore"} /\ frame'[c].pc \in {"idle", "index"}
      BY <1>6, Returns, IdleFields DEF BadStream, RestoreColor, At
    <2> QED  BY <2>1, OwedIs
  <1>7. CASE StartOfLine(c) \/ NextLine(c) \/ LoadCell(c) \/ Advance(c) \/ Scroll(c)
    <2>1. \/ frame[c].pc = "cr" /\ frame'[c].pc = "cr2"
          \/ frame[c].pc = "nl" /\ frame'[c].pc = "moved"
          \/ frame[c].pc = "cell" /\ frame'[c].pc = "paint"
          \/ frame[c].pc = "inc" /\ frame'[c].pc = "moved"
          \/ frame[c].pc = "scroll" /\ frame'[c].pc = "scrolled"
      BY <1>7, Loaded DEF StartOfLine, NextLine, LoadCell, Advance, Scroll
    <2>2. frame'[c].s = frame[c].s /\ frame'[c].out = frame[c].out
      BY <1>7, CursorLoads, KeepsOut
    <2> QED  BY <2>1, <2>2, OwedStays
  <1>8. CASE Fits(c) \/ StoreCursor(c) \/ Wrap(c)
    <2>1. \/ frame[c].pc = "byte" /\ frame'[c].pc = "cell"
          \/ frame[c].pc = "moved" /\ frame'[c].pc = "wrap"
          \/ frame[c].pc = "wrap" /\ frame'[c].pc = "scroll"
      BY <1>8 DEF Fits, StoreCursor, Wrap, IsGlyph, At, Goto, F, Frames, Fields
    <2>2. frame'[c].s = frame[c].s /\ frame'[c].out = frame[c].out
      BY <1>8, CursorSteps, KeepsOut
    <2> QED  BY <2>1, <2>2, OwedStays
  <1>9. CASE StoreStartOfLine(c) \/ NoWrap(c) \/ StoreScrolled(c)
    <2>1. frame[c].pc \in {"cr2", "wrap", "scrolled"} /\ Goto(c, NextByte(c))
      BY <1>9 DEF StoreStartOfLine, NoWrap, StoreScrolled, At
    <2>2. frame[c].out \in Seq(Values) /\ frame[c].out # <<>>
      BY <2>1 DEF Result, Values, Rendering, Moving, Holding
    <2>3. /\ frame'[c].pc \in {"byte", "read"} /\ frame'[c].s = frame[c].s
          /\ frame'[c].out = Tail(frame[c].out)
      BY <2>1, <2>2, TailOut, RestOfSeq
    <2>4. CASE frame[c].s = o
      BY <2>1, <2>3, <2>4, OwedIs
    <2>5. CASE frame[c].s # o
      BY <2>3, <2>5, OwedIs
    <2> QED  BY <2>4, <2>5
  <1>10. ~ Ignore(c)
    <2>1. SUFFICES ASSUME Ignore(c) PROVE FALSE
      OBVIOUS
    <2>2. frame[c].pc = "byte" /\ ~ (cursor < SIZE)
      BY <2>1 DEF Ignore, IsGlyph, At, OnScreen
    <2> QED  BY <2>2 DEF OnCourse
  <1> QED  BY <1>1, <1>2, <1>3, <1>4, <1>5, <1>6, <1>7, <1>8, <1>9, <1>10, StepKinds DEF Outside

LEMMA OwedShown ==
  ASSUME Frames, SInv, CInv, NEW c \in Ctx, Result(c),
         CarriageReturn(c) \/ LineFeed(c) \/ Paint(c)
  PROVE  LET s == frame[c].s IN
         /\ s \in Streams /\ frame[c].out \in Seq(Values) /\ frame[c].out # <<>>
         /\ \A o \in {s} : Owed(c, o) = frame[c].out /\ Owed(c, o)' = Tail(frame[c].out)
         /\ \A o \in Streams \ {s} : Owed(c, o)' = Owed(c, o)
  <1> USE DEF Whole, Passed, Reading
  <1>1. /\ frame[c].pc \in {"byte", "paint"} /\ frame'[c].pc \in {"cr", "nl", "inc"}
        /\ frame'[c].s = frame[c].s /\ frame'[c].out = frame[c].out
    <2>1. CASE CarriageReturn(c) \/ LineFeed(c)
      <3>1. frame[c].pc = "byte" /\ frame'[c].pc \in {"cr", "nl"}
        BY <2>1, Loaded DEF CarriageReturn, LineFeed
      <3> QED  BY <2>1, <3>1, CursorLoads, KeepsOut
    <2>2. CASE Paint(c)
      <3>1. frame[c].pc = "paint" /\ frame'[c].pc = "inc"
        BY <2>2 DEF Paint, At, Goto, F, Frames, Fields
      <3> QED  BY <2>2, <3>1, CursorSteps, KeepsOut
    <2> QED  BY <2>1, <2>2
  <1>2. frame[c].s \in Streams
    BY <1>1 DEF SInv, CInv, Own, Taken, Showing, Rendering, Moving, Holding, Streams
  <1>3. frame[c].out \in Seq(Values) /\ frame[c].out # <<>>
    BY <1>1 DEF Result, Values, Rendering, Moving, Holding
  <1>4. ASSUME NEW o \in Streams, o = frame[c].s
        PROVE  Owed(c, o) = frame[c].out /\ Owed(c, o)' = Tail(frame[c].out)
    BY <1>1, <1>4, OwedIs
  <1>5. \A o \in Streams \ {frame[c].s} : Owed(c, o)' = Owed(c, o)
    BY <1>1, OwedIs
  <1> QED  BY <1>2, <1>3, <1>4, <1>5

LEMMA OwedDelivered ==
  ASSUME Frames, SInv, CInv, NEW c \in Ctx, Result(c), Deliver(c)
  PROVE  LET s == frame[c].s IN
         /\ s \in Streams /\ Owed(c, s) = frame[c].out /\ frame[c].out \in Seq(Values)
         /\ \A o \in Streams : Owed(c, o)' = <<>>
         /\ \A o \in Streams \ {s} : Owed(c, o) = <<>>
  <1> USE DEF Whole, Passed, Reading
  <1>1. frame[c].pc = "read" /\ frame'[c].pc \in {"idle", "index"}
    BY Returns, LogPcs, IdleFields
  <1>2. frame[c].s \in Streams /\ frame[c].out \in Seq(Values)
    BY <1>1, KnownStream DEF Result, Values
  <1>3. Owed(c, frame[c].s) = frame[c].out
    BY <1>1, <1>2, OwedIs
  <1>4. \A o \in Streams : Owed(c, o)' = <<>>
    BY <1>1, OwedIs
  <1>5. \A o \in Streams \ {frame[c].s} : Owed(c, o) = <<>>
    BY OwedIs
  <1> QED  BY <1>2, <1>3, <1>4, <1>5
-----------------------------------------------------------------------------
(* The log of a stream is what is owed and queued, after every step.       *)
LEMMA LineKept ==
  ASSUME NEW c \in Ctx, SameQueues(c), NEW o \in Streams
  PROVE  Line(c, o)' = Line(c, o)
  BY DEF Line, Slice, SameQueues

LEMMA LogTypes ==
  ASSUME HInv, NEW c \in Ctx, c = Active, NEW o \in Streams
  PROVE  /\ accepted[o] \in Seq(Values) /\ handled[o] \in Seq(Values)
         /\ Owed(c, o) \in Seq(Values) /\ Line(c, o) \in Seq(Values)
         /\ accepted[o] = (handled[o] \o Owed(c, o)) \o Line(c, o)
  <1>1. SInv /\ Balanced(c) /\ Result(c)
    BY DEF HInv, QInv, Base, Quiet
  <1>2. Owed(c, o) \in Seq(Values) /\ Line(c, o) \in Seq(Values)
    BY <1>1, TypedLines
  <1> QED  BY <1>2 DEF HInv, Logs, Logged, Values

LEMMA LineStored ==
  ASSUME Frames, SInv, CInv, NEW c \in Ctx, Balanced(c), Registers(c), Fitting(c), StoreByte(c),
         NEW s \in Streams, frame[c].s = s
  PROVE  /\ Line(c, s)' = Line(c, s) \o <<frame[c].buf[frame[c].done + 1]>>
         /\ frame[c].buf[frame[c].done + 1] \in Values
         /\ \A o \in Streams \ {s} : Line(c, o)' = Line(c, o)
  <1> DEFINE b == frame[c].buf[frame[c].done + 1]
             n == CountOf(c, s)
             t == TailOf(c, s)
             data == streams[s].data
             h == HeadOf(c, s)
  <1>1. /\ b \in Values /\ t \in Slots /\ TailOf(c, s)' = t
        /\ \A o \in Streams \ {s} :
             /\ TailOf(c, o)' = TailOf(c, o) /\ CountOf(c, o)' = CountOf(c, o)
             /\ streams'[o].data = streams[o].data
        /\ n < STREAM_BUF_SIZE /\ CountOf(c, s)' = n + 1
        /\ streams'[s].data = [data EXCEPT ![h] = b]
    BY StoreQueue
  <1>2. n \in 0..STREAM_BUF_SIZE-1 /\ h = (t + n) % STREAM_BUF_SIZE
    BY <1>1, ConsoleAssumption DEF Balanced
  <1>3. data \in Data
    BY <1>1, StreamTypes
  <1>4. Line(c, s)' = Slice([data EXCEPT ![h] = b], t, n + 1)
    BY <1>1 DEF Line, Slice
  <1>5. Line(c, s) = Slice(data, t, n)
    BY DEF Line
  <1>6. \A o \in Streams \ {s} : Line(c, o)' = Line(c, o)
    BY <1>1 DEF Line, Slice
  <1> HIDE DEF b, n, t, data, h
  <1>7. Slice([data EXCEPT ![(t + n) % STREAM_BUF_SIZE] = b], t, n + 1) = Slice(data, t, n) \o <<b>>
    BY <1>1, <1>2, <1>3, SliceGrows
  <1>8. Line(c, s)' = Line(c, s) \o <<b>>
    BY <1>2, <1>4, <1>5, <1>7
  <1> QED  BY <1>1, <1>6, <1>8 DEF b

LEMMA LineTaken ==
  ASSUME Frames, SInv, CInv, NEW c \in Ctx, Balanced(c), Fitting(c), TakeByte(c),
         NEW s \in Streams, frame[c].s = s
  PROVE  /\ Line(c, s) = <<streams[s].data[TailOf(c, s)]>> \o Line(c, s)'
         /\ Line(c, s)' \in Seq(Values)
         /\ \A o \in Streams \ {s} : Line(c, o)' = Line(c, o)
  <1> DEFINE n == CountOf(c, s)
             t == TailOf(c, s)
             data == streams[s].data
  <1>1. /\ streams' = streams
        /\ \A o \in Streams \ {s} :
             TailOf(c, o)' = TailOf(c, o) /\ CountOf(c, o)' = CountOf(c, o)
        /\ t \in Slots /\ TailOf(c, s)' = NextSlot(t)
        /\ n > 0 /\ CountOf(c, s)' = n - 1
    BY TakeQueue
  <1>2. n \in 1..STREAM_BUF_SIZE /\ n - 1 \in 0..STREAM_BUF_SIZE /\ NextSlot(t) \in Slots
    BY <1>1, NextSlotValue, ConsoleAssumption DEF Balanced
  <1>3. data \in Data
    BY <1>1, StreamTypes
  <1>4. Line(c, s)' = Slice(data, NextSlot(t), n - 1)
    BY <1>1 DEF Line, Slice
  <1>5. Line(c, s) = Slice(data, t, n)
    BY DEF Line
  <1>6. \A o \in Streams \ {s} : Line(c, o)' = Line(c, o)
    BY <1>1 DEF Line, Slice
  <1> HIDE DEF n, t, data
  <1>7. Line(c, s) = <<data[t]>> \o Line(c, s)' /\ Line(c, s)' \in Seq(Values)
    BY <1>1, <1>2, <1>3, <1>4, <1>5, SliceShrinks, SliceIsSeq
  <1> QED  BY <1>6, <1>7 DEF data, t

LEMMA LogStore ==
  ASSUME HInv, HNext, NEW c \in Ctx, c = Active, Step(c), StoreByte(c)
  PROVE  {accepted', handled'} \subseteq Logs /\ Logged(c)'
  <1>0. Frames /\ PInv /\ CInv /\ SInv /\ Balanced(c) /\ Registers(c) /\ Fitting(c) /\ OnCourse(c) /\ Result(c)
    BY DEF HInv, QInv, Base, Quiet
  <1>1. PICK s \in Streams : s = frame[c].s
    BY <1>0, StoreQueue
  <1> DEFINE b == frame[c].buf[frame[c].done + 1]
             n == CountOf(c, s)
             t == TailOf(c, s)
  <1>2. /\ s \in Streams /\ b \in Values
        /\ \A o \in Streams \ {s} :
             /\ HeadOf(c, o)' = HeadOf(c, o) /\ TailOf(c, o)' = TailOf(c, o)
             /\ CountOf(c, o)' = CountOf(c, o) /\ streams'[o].data = streams[o].data
        /\ t \in Slots /\ TailOf(c, s)' = t
        /\ n < STREAM_BUF_SIZE /\ CountOf(c, s)' = n + 1
        /\ streams'[s].data = [streams[s].data EXCEPT ![HeadOf(c, s)] = b]
    BY <1>0, <1>1, StoreQueue
  <1>3. ~ (CarriageReturn(c) \/ LineFeed(c) \/ Paint(c) \/ Deliver(c) \/ TakeByte(c))
    BY LogPcs DEF StoreByte, TakeByte, At
  <1>4. \A o \in Streams : Owed(c, o)' = Owed(c, o)
    BY <1>0, <1>3, OwedKept
  <1>5. frame[c].out \in Seq(Values) /\ {accepted, handled} \subseteq Logs
    BY <1>0 DEF Result, Values, HInv
  <1>6. accepted' = [accepted EXCEPT ![s] = @ \o <<b>>] /\ handled' = handled
    BY <1>1, <1>3, <1>5, Recorded, Unrecorded
  <1>7. Line(c, s)' = Line(c, s) \o <<b>>
    BY <1>0, <1>1, LineStored
  <1>8. \A o \in Streams \ {s} : Line(c, o)' = Line(c, o)
    BY <1>2 DEF Line, Slice
  <1> HIDE DEF b, n, t
  <1>9. <<b>> \in Seq(Values)
    BY <1>2
  <1>10. /\ accepted' \in Logs /\ accepted'[s] = accepted[s] \o <<b>>
         /\ \A o \in Streams \ {s} : accepted'[o] = accepted[o]
    <2> DEFINE w == <<b>>
    <2>1. /\ w \in Seq(Values) /\ accepted \in [Streams -> Seq(Values)]
          /\ accepted' = [accepted EXCEPT ![s] = @ \o w]
      BY <1>5, <1>6, <1>9 DEF Logs, Values
    <2> HIDE DEF w
    <2>2. /\ accepted' \in Logs /\ accepted'[s] = accepted[s] \o w
          /\ \A o \in Streams \ {s} : accepted'[o] = accepted[o]
      BY <2>1 DEF Logs, Values
    <2> QED  BY <2>2 DEF w
  <1>11. ASSUME NEW o \in Streams
         PROVE  accepted'[o] = handled'[o] \o Owed(c, o)' \o Line(c, o)'
    <2>1. CASE o = s
      <3>1. accepted[s] \o <<b>> = (handled[s] \o Owed(c, s)) \o (Line(c, s) \o <<b>>)
        <4> DEFINE h == handled[s]
                   w == Owed(c, s)
                   l == Line(c, s)
        <4>1. h \in Seq(Values) /\ w \in Seq(Values) /\ l \in Seq(Values) /\ accepted[s] = (h \o w) \o l
          BY LogTypes
        <4> HIDE DEF h, w, l
        <4>2. b \in Values
          BY <1>2
        <4>3. ((h \o w) \o l) \o <<b>> = (h \o w) \o (l \o <<b>>)
          BY <4>1, <4>2, MoveStored, Zenon
        <4> QED  BY <4>1, <4>3 DEF h, w, l
      <3> QED  BY <1>4, <1>6, <1>7, <1>10, <2>1, <3>1
    <2>2. CASE o # s
      BY <1>4, <1>6, <1>8, <1>10, <2>2, LogTypes
    <2> QED  BY <2>1, <2>2
  <1> QED  BY <1>5, <1>6, <1>10, <1>11 DEF Logged

LEMMA LogTake ==
  ASSUME HInv, HNext, NEW c \in Ctx, c = Active, Step(c), TakeByte(c)
  PROVE  {accepted', handled'} \subseteq Logs /\ Logged(c)'
  <1>0. Frames /\ CInv /\ SInv /\ Balanced(c) /\ Fitting(c) /\ Result(c)
    BY DEF HInv, QInv, Base, Quiet
  <1>1. PICK s \in Streams : s = frame[c].s
    BY <1>0, TakeQueue
  <1> DEFINE n == CountOf(c, s)
             t == TailOf(c, s)
             b == streams[s].data[t]
  <1>2. /\ s \in Streams /\ frame'[c].s = s /\ streams' = streams
        /\ \A o \in Streams \ {s} :
             TailOf(c, o)' = TailOf(c, o) /\ CountOf(c, o)' = CountOf(c, o)
        /\ t \in Slots /\ TailOf(c, s)' = NextSlot(t)
        /\ n > 0 /\ CountOf(c, s)' = n - 1
        /\ frame'[c].out = Append(frame[c].out, b) /\ b \in Values
    BY <1>0, <1>1, TakeQueue
  <1>3. /\ frame[c].pc = "take" /\ frame'[c].pc = "tail"
        /\ ~ (StoreByte(c) \/ CarriageReturn(c) \/ LineFeed(c) \/ Paint(c) \/ Deliver(c))
    <2>1. frame[c].pc = "take" /\ frame'[c].pc = "tail"
      BY <1>0, <1>1, ReadSteps
    <2> QED  BY <2>1, LogPcs
  <1>4. frame[c].out \in Seq(Values) /\ {accepted, handled} \subseteq Logs
    BY <1>0 DEF Result, Values, HInv
  <1>5. accepted' = accepted /\ handled' = handled
    BY <1>3, Unrecorded
  <1>6. Owed(c, s)' = Append(Owed(c, s), b)
    BY <1>1, <1>2, <1>3, OwedIs DEF Whole, Reading
  <1>7. \A o \in Streams \ {s} : Owed(c, o)' = Owed(c, o) /\ Line(c, o)' = Line(c, o)
    <2>1. \A o \in Streams \ {s} : Owed(c, o)' = Owed(c, o)
      BY <1>1, <1>2, OwedIs
    <2> QED  BY <1>2, <2>1 DEF Line, Slice
  <1>8. Line(c, s) = <<b>> \o Line(c, s)' /\ Line(c, s)' \in Seq(Values)
    BY <1>0, <1>1, LineTaken
  <1> HIDE DEF b, n, t
  <1>9. ASSUME NEW o \in Streams
        PROVE  accepted'[o] = handled'[o] \o Owed(c, o)' \o Line(c, o)'
    <2>1. CASE o = s
      <3> DEFINE l == Line(c, s)'
                 h == handled[s]
                 w == Owed(c, s)
      <3>1. /\ h \in Seq(Values) /\ w \in Seq(Values) /\ l \in Seq(Values)
            /\ accepted[s] = (h \o w) \o (<<b>> \o l)
        BY <1>8, LogTypes
      <3> HIDE DEF h, w, l
      <3>2. b \in Values
        BY <1>2
      <3>3. (h \o w) \o (<<b>> \o l) = (h \o Append(w, b)) \o l
        BY <3>1, <3>2, MoveTaken, Zenon
      <3> QED  BY <1>5, <1>6, <2>1, <3>1, <3>3 DEF h, w, l
    <2>2. CASE o # s
      BY <1>5, <1>7, <2>2, LogTypes
    <2> QED  BY <2>1, <2>2
  <1> QED  BY <1>4, <1>5, <1>9 DEF Logged
LEMMA LogShow ==
  ASSUME HInv, HNext, NEW c \in Ctx, c = Active, Step(c),
         CarriageReturn(c) \/ LineFeed(c) \/ Paint(c)
  PROVE  {accepted', handled'} \subseteq Logs /\ Logged(c)'
  <1>0. Frames /\ CInv /\ SInv /\ Registers(c) /\ Result(c)
    BY DEF HInv, QInv, Base, Quiet
  <1>1. PICK s \in Streams : s = frame[c].s
    BY <1>0, OwedShown
  <1> DEFINE w == frame[c].out
             b == <<Head(w)>>
  <1>2. /\ w \in Seq(Values) /\ w # <<>> /\ Owed(c, s) = w /\ Owed(c, s)' = Tail(w)
        /\ \A o \in Streams \ {s} : Owed(c, o)' = Owed(c, o)
    BY <1>0, <1>1, OwedShown
  <1>3. ~ StoreByte(c) /\ ~ TakeByte(c)
    BY LogPcs DEF TakeByte, At
  <1>4. \A o \in Streams : Line(c, o)' = Line(c, o)
    BY <1>0, <1>3, QueuesStay, LineKept
  <1>5. {accepted, handled} \subseteq Logs
    BY DEF HInv
  <1>6. accepted' = accepted /\ handled' = [handled EXCEPT ![s] = @ \o b]
    BY <1>1, <1>2, <1>3, <1>5, Recorded, Unrecorded
  <1>7. b \in Seq(Values)
    <2>1. Head(w) \in Values
      BY <1>2, RestOfSeq
    <2> QED  BY <2>1
  <1> HIDE DEF w, b
  <1>8. /\ handled' \in Logs /\ handled'[s] = handled[s] \o b
        /\ \A o \in Streams \ {s} : handled'[o] = handled[o]
    BY <1>5, <1>6, <1>7 DEF Logs, Values
  <1>9. ASSUME NEW o \in Streams
        PROVE  accepted'[o] = handled'[o] \o Owed(c, o)' \o Line(c, o)'
    <2>1. CASE o = s
      <3> DEFINE h == handled[s]
      <3>1. h \in Seq(Values) /\ accepted[s] = (h \o w) \o Line(c, s)
        BY <1>2, LogTypes
      <3> HIDE DEF h
      <3>2. (h \o <<Head(w)>>) \o Tail(w) = h \o w
        BY <1>2, <3>1, MoveShown
      <3> QED  BY <1>2, <1>4, <1>6, <1>8, <2>1, <3>1, <3>2 DEF h, b
    <2>2. CASE o # s
      <3>1. accepted[o] = (handled[o] \o Owed(c, o)) \o Line(c, o)
        BY LogTypes
      <3> QED  BY <1>2, <1>4, <1>6, <1>8, <2>2, <3>1
    <2> QED  BY <2>1, <2>2
  <1> QED  BY <1>5, <1>6, <1>8, <1>9 DEF Logged

LEMMA LogDeliver ==
  ASSUME HInv, HNext, NEW c \in Ctx, c = Active, Step(c), Deliver(c)
  PROVE  {accepted', handled'} \subseteq Logs /\ Logged(c)'
  <1>0. Frames /\ CInv /\ SInv /\ Registers(c) /\ Result(c)
    BY DEF HInv, QInv, Base, Quiet
  <1>1. PICK s \in Streams : s = frame[c].s
    BY <1>0, OwedDelivered
  <1> DEFINE w == frame[c].out
  <1>2. /\ w \in Seq(Values) /\ Owed(c, s) = w
        /\ \A o \in Streams : Owed(c, o)' = <<>>
        /\ \A o \in Streams \ {s} : Owed(c, o) = <<>>
    BY <1>0, <1>1, OwedDelivered
  <1>3. ~ StoreByte(c) /\ ~ TakeByte(c)
    BY LogPcs DEF TakeByte, At
  <1>4. \A o \in Streams : Line(c, o)' = Line(c, o)
    BY <1>0, <1>3, QueuesStay, LineKept
  <1>5. {accepted, handled} \subseteq Logs
    BY DEF HInv
  <1>6. accepted' = accepted /\ handled' = [handled EXCEPT ![s] = @ \o w]
    BY <1>1, <1>2, <1>3, <1>5, Recorded, Unrecorded
  <1> HIDE DEF w
  <1>7. /\ handled' \in Logs /\ handled'[s] = handled[s] \o w
        /\ \A o \in Streams \ {s} : handled'[o] = handled[o]
    BY <1>2, <1>5, <1>6 DEF Logs, Values
  <1>8. ASSUME NEW o \in Streams
        PROVE  accepted'[o] = handled'[o] \o Owed(c, o)' \o Line(c, o)'
    <2>1. handled'[o] \in Seq(Values)
      BY <1>7 DEF Logs, Values
    <2>2. handled'[o] \o <<>> = handled'[o]
      BY <2>1, ConcatEmptySeq
    <2>3. accepted[o] = (handled[o] \o Owed(c, o)) \o Line(c, o)
      BY LogTypes
    <2>4. CASE o = s
      BY <1>2, <1>4, <1>6, <1>7, <2>2, <2>3, <2>4
    <2>5. CASE o # s
      BY <1>2, <1>4, <1>6, <1>7, <2>3, <2>5
    <2> QED  BY <2>4, <2>5
  <1> QED  BY <1>5, <1>6, <1>7, <1>8 DEF Logged

LEMMA LogStep ==
  ASSUME HInv, HNext, NEW c \in Ctx, Step(c)
  PROVE  {accepted', handled'} \subseteq Logs /\ Logged(c)'
  <1>0. Frames /\ PInv /\ CInv /\ SInv /\ Registers(c) /\ OnCourse(c) /\ Result(c) /\ c = Active
    BY OnlyActive DEF HInv, QInv, Base, Quiet
  <1>1. CASE StoreByte(c)
    BY <1>0, <1>1, LogStore
  <1>2. CASE TakeByte(c)
    BY <1>0, <1>2, LogTake
  <1>3. CASE CarriageReturn(c) \/ LineFeed(c) \/ Paint(c)
    BY <1>0, <1>3, LogShow
  <1>4. CASE Deliver(c)
    BY <1>0, <1>4, LogDeliver
  <1>5. CASE ~ (StoreByte(c) \/ TakeByte(c) \/ CarriageReturn(c) \/ LineFeed(c) \/ Paint(c) \/ Deliver(c))
    <2>1. accepted' = accepted /\ handled' = handled
      BY <1>0, <1>5, Unrecorded
    <2>2. \A o \in Streams : Owed(c, o)' = Owed(c, o)
      BY <1>0, <1>5, OwedKept
    <2>3. \A o \in Streams : Line(c, o)' = Line(c, o)
      BY <1>0, <1>5, QueuesStay, LineKept
    <2>4. {accepted, handled} \subseteq Logs /\ Logged(c)
      BY <1>0 DEF HInv
    <2> QED  BY <2>1, <2>2, <2>3, <2>4 DEF Logged
  <1> QED  BY <1>1, <1>2, <1>3, <1>4, <1>5

(* Between calls nothing is owed: it makes no difference whose view it is. *)
LEMMA LogIdle ==
  ASSUME NEW c \in Ctx, NEW d \in Ctx, Logged(c),
         frame[c].pc = "idle", frame[d].pc = "idle"
  PROVE  Logged(d)
  BY DEF Logged, Owed, Line, TailOf, CountOf, On, Reading, Passed, HasStored, HasTaken

LEMMA LogArrives ==
  ASSUME NEW c \in Ctx, Alone(c)', Logged(c)'
  PROVE  Logged(Active)'
  <1>1. CASE Active' = c
    BY <1>1
  <1>2. CASE Active' # c
    <2>1. c = "irq" /\ Active' = "main" /\ frame'["irq"].pc = "idle" /\ frame'["main"].pc = "idle"
      BY <1>2 DEF Active, Alone, Ctx
    <2>2. Logged("main")'
      BY <2>1 DEF Logged, Owed, Line, TailOf, CountOf, On, Reading, Passed, HasStored, HasTaken
    <2> QED  BY <2>1, <2>2
  <1> QED  BY <1>1, <1>2
LEMMA NothingHappens ==
  ASSUME HNext, \A d \in Ctx : frame[d].pc = "idle"
  PROVE  accepted' = accepted /\ handled' = handled
  <1>1. Active \in Ctx
    BY DEF Active, Ctx
  <1>2. PICK c \in Ctx : c = Active
    BY <1>1
  <1>3. ~ (StoreByte(c) \/ CarriageReturn(c) \/ LineFeed(c) \/ Paint(c) \/ Deliver(c))
    BY LogPcs
  <1> QED  BY <1>2, <1>3, Unrecorded

LEMMA LogBegin ==
  ASSUME HInv, HNext, NEW c \in Ctx, Goes1(c), \A d \in Ctx : frame[d].pc = "idle",
         SameQueues(c), frame'[c].pc \in {"index", "read"}, frame'[c].out = <<>>
  PROVE  {accepted', handled'} \subseteq Logs /\ Logged(Active)'
  <1>1. accepted' = accepted /\ handled' = handled
    BY NothingHappens
  <1>2. PICK d \in Ctx : d = Active
    BY DEF Active, Ctx
  <1>3. Logged(c)
    BY <1>2, LogIdle DEF HInv
  <1>4. ASSUME NEW o \in Streams
        PROVE  Owed(c, o)' = Owed(c, o) /\ Line(c, o)' = Line(c, o)
    <2>1. Owed(c, o) = <<>>
      BY OwedIs DEF Whole, Passed, Reading
    <2>2. Owed(c, o)' = <<>>
      BY OwedIs DEF Whole, Passed, Reading
    <2> QED  BY <2>1, <2>2, LineKept
  <1>5. Logged(c)'
    <2> SUFFICES ASSUME NEW o \in Streams
                 PROVE  accepted'[o] = handled'[o] \o Owed(c, o)' \o Line(c, o)'
      BY DEF Logged
    <2>1. accepted[o] = (handled[o] \o Owed(c, o)) \o Line(c, o)
      BY <1>3 DEF Logged
    <2> QED  BY <1>1, <1>4, <2>1
  <1>6. Alone(c)'
    BY DEF Goes1, Alone
  <1> QED  BY <1>1, <1>5, <1>6, LogArrives DEF HInv

LEMMA HNextInv ==
  ASSUME ~ Preemptible, HInv, [HNext]_hvars
  PROVE  HInv'
  <1>0. HNext => Next
    BY DEF HNext
  <1>1. [Next]_vars
    <2>1. UNCHANGED hvars => UNCHANGED vars
      BY DEF hvars
    <2> QED  BY <1>0, <2>1
  <1>2. QInv /\ QInv' /\ Frames /\ Base' /\ {"main", "irq"} \subseteq Ctx
    BY <1>1, QNextInv DEF HInv, QInv, Base, Ctx
  <1>3. CASE HNext /\ (\/ Puts(Message) \/ SysBadPointer
                       \/ (\E fd \in Fds, b \in Buffers, n \in Lens : SysWrite(fd, b, n))
                       \/ (\E n \in Lens : SysRead(n)))
    <2>1. /\ Goes1("main") /\ cursor' = cursor /\ streams' = streams
          /\ \/ frame'["main"].pc = "index"
             \/ frame'["main"].pc = "read" /\ frame'["main"].s = STDIN
      BY <1>2, <1>3, Begins, BeginSteps
    <2>2. /\ frame'["main"].out = <<>> /\ frame'["main"].done = 0
          /\ \A d \in Ctx : frame[d].pc = "idle"
      BY <1>2, <1>3, BeginsOut
    <2>3. SameQueues("main")
      BY <1>2, <2>1, <2>2, BeginQuiet
    <2> QED  BY <1>2, <1>3, <2>1, <2>2, <2>3, LogBegin DEF HInv
  <1>4. CASE HNext /\ \E k \in Keys : KeyPress(k)
    <2>1. PICK k \in Keys : KeyPress(k)
      BY <1>4
    <2>2. Goes1("irq") /\ cursor' = cursor /\ streams' = streams /\ frame'["irq"].pc = "index"
      BY <1>2, <2>1, KeyHit, KeySteps
    <2>3. /\ frame'["irq"].out = <<>> /\ frame'["irq"].done = 0
          /\ \A d \in Ctx : frame[d].pc = "idle"
      BY <1>2, <2>1, KeyWaits
    <2>4. SameQueues("irq")
      BY <1>2, <2>2, <2>3, BeginQuiet
    <2> QED  BY <1>2, <1>4, <2>2, <2>3, <2>4, LogBegin DEF HInv
  <1>5. CASE UNCHANGED hvars \/ (HNext /\ (SysAtOnce(-1) \/ SysAtOnce(1)))
    <2>1. /\ frame' = frame /\ streams' = streams
          /\ accepted' = accepted /\ handled' = handled
      <3>1. CASE UNCHANGED hvars
        BY <3>1 DEF hvars, vars
      <3>2. CASE HNext /\ (SysAtOnce(-1) \/ SysAtOnce(1))
        BY <3>2, NothingHappens DEF SysAtOnce, shell, Ctx
      <3> QED  BY <1>5, <3>1, <3>2
    <2>2. PICK c \in Ctx : c = Active /\ c = Active'
      BY <2>1 DEF Active, Ctx
    <2>3. Logged(c)
      BY <2>2 DEF HInv
    <2>4. Logged(c)'
      <3>1. \A o \in Streams : Owed(c, o)' = Owed(c, o)
        BY <2>1 DEF Owed, On
      <3>2. SameQueues(c)
        BY <2>1 DEF SameQueues, HeadOf, TailOf, CountOf, On
      <3>3. \A o \in Streams : Line(c, o)' = Line(c, o)
        BY <3>2, LineKept
      <3> QED  BY <2>1, <2>3, <3>1, <3>3 DEF Logged
    <2>5. Logged(Active)'
      BY <2>2, <2>4
    <2> QED  BY <1>2, <2>1, <2>5 DEF HInv
  <1>6. CASE HNext /\ \E c \in {"main", "irq"} : Step(c)
    <2>1. PICK c \in Ctx : Step(c)
      BY <1>2, <1>6
    <2>2. {accepted', handled'} \subseteq Logs /\ Logged(c)'
      BY <1>6, <2>1, LogStep
    <2>3. Alone(c)'
      <3>1. Goes1(c) /\ Alone(c)
        BY <1>2, <2>1, StepGoes, OnlyActive DEF QInv
      <3> QED  BY <3>1 DEF Goes1, Alone
    <2> QED  BY <1>2, <2>2, <2>3, LogArrives DEF HInv
  <1> QED  BY <1>0, <1>3, <1>4, <1>5, <1>6 DEF Next

LEMMA HInitInv == HInit => HInv
  <1> SUFFICES ASSUME HInit PROVE HInv
    OBVIOUS
  <1>1. QInv /\ Init
    BY QInitInv DEF HInit
  <1>2. <<>> \in Seq(Byte \cup {NUL})
    OBVIOUS
  <1>3. {accepted, handled} \subseteq Logs /\ \A o \in Streams : accepted[o] = <<>> /\ handled[o] = <<>>
    BY <1>2 DEF HInit, Logs
  <1>4. PICK c \in Ctx : c = Active
    BY DEF Active, Ctx
  <1>5. frame[c].pc = "idle"
    BY <1>1, IdleFields DEF Init, Ctx
  <1>6. ASSUME NEW o \in Streams
        PROVE  accepted[o] = handled[o] \o Owed(c, o) \o Line(c, o)
    <2>1. Owed(c, o) = <<>>
      BY <1>5, OwedIs DEF Whole, Passed, Reading
    <2>2. streams[o].count = 0
      BY <1>1 DEF Init
    <2>3. CountOf(c, o) = 0
      BY <1>5, <2>2 DEF CountOf, On, HasStored, HasTaken
    <2>4. Line(c, o) \in Seq(Values) /\ Len(Line(c, o)) = 0
      <3>1. TailOf(c, o) \in Slots /\ streams[o].data \in Data /\ 0 \in 0..STREAM_BUF_SIZE
        BY <1>1, TypedLines, StreamTypes, ConsoleAssumption, <1>4 DEF QInv, Base, Quiet
      <3> QED  BY <2>3, <3>1, SliceIsSeq DEF Line
    <2>5. Line(c, o) = <<>>
      BY <2>4
    <2>6. <<>> \o <<>> \o <<>> = <<>>
      BY ConcatEmptySeq
    <2> QED  BY <1>3, <2>1, <2>5, <2>6
  <1> QED  BY <1>1, <1>3, <1>4, <1>6 DEF HInv, Logged

(* stream.h:9-11, shell.c:60-112: with keys between calls, every byte a    *)
(* stream accepted was shown or delivered, once and in order, or is still  *)
(* queued, whatever was written, read and typed.                           *)
THEOREM BytesAreConserved == ASSUME ~ Preemptible PROVE HSpec => []Conserved
  <1>1. HInv => Conserved
    <2> SUFFICES ASSUME HInv, Quiescent, NEW s \in Streams
                 PROVE  accepted[s] = handled[s] \o Queue(s)
      BY DEF Conserved
    <2>1. PICK c \in Ctx : c = Active
      BY DEF Active, Ctx
    <2>2. frame[c].pc = "idle"
      BY DEF Quiescent, Ctx
    <2>3. Owed(c, s) = <<>>
      BY <2>2, OwedIs DEF Whole, Passed, Reading
    <2>4. Line(c, s) = Queue(s)
      BY <2>2 DEF Line, Queue, TailOf, CountOf, On, HasStored, HasTaken
    <2>5. handled[s] \in Seq(Values) /\ accepted[s] = (handled[s] \o Owed(c, s)) \o Line(c, s)
      BY <2>1, LogTypes
    <2>6. handled[s] \o <<>> = handled[s]
      BY <2>5, ConcatEmptySeq
    <2> QED  BY <2>3, <2>4, <2>5, <2>6
  <1>2. HInit => HInv
    BY HInitInv
  <1>3. HInv /\ [HNext]_hvars => HInv'
    BY HNextInv
  <1> QED  BY <1>1, <1>2, <1>3, PTL DEF HSpec
-----------------------------------------------------------------------------
(* Refinement: with keys between calls every step is, for each stream, one *)
(* of ByteQueue or leaves its queue as it is.  What the context that runs  *)
(* does to the queue of o:                                                 *)
Stays(c, o) == UNCHANGED <<Line(c, o), Unwritten(c, o), Received(c, o)>>
Offers(c, o) ==
  /\ Unwritten(c, o) = <<>> /\ Received(c, o) = <<>>
  /\ \E b \in Offered :
       LET room == STREAM_BUF_SIZE - Len(Line(c, o)) IN
       Unwritten(c, o)' = SubSeq(b, 1, IF Len(b) > room THEN room ELSE Len(b))
  /\ UNCHANGED <<Line(c, o), Received(c, o)>>
Appends(c, o) ==
  /\ Unwritten(c, o) # <<>>
  /\ Line(c, o)' = Append(Line(c, o), Head(Unwritten(c, o)))
  /\ Unwritten(c, o)' = Tail(Unwritten(c, o))
  /\ UNCHANGED Received(c, o)
Takes(c, o) ==
  /\ Unwritten(c, o) = <<>> /\ Line(c, o) # <<>>
  /\ Received(c, o)' = Append(Received(c, o), Head(Line(c, o)))
  /\ Line(c, o)' = Tail(Line(c, o))
  /\ UNCHANGED Unwritten(c, o)
Delivers(c, o) ==
  /\ Unwritten(c, o) = <<>> /\ Received(c, o)' = <<>>
  /\ UNCHANGED <<Line(c, o), Unwritten(c, o)>>
Moves(c, o) ==
  Stays(c, o) \/ Offers(c, o) \/ Appends(c, o) \/ Takes(c, o) \/ Delivers(c, o)

LEMMA PrefixOfPrefix ==
  ASSUME NEW T, NEW q \in Seq(T), NEW n \in 0..Len(q), NEW m \in 0..n
  PROVE  SubSeq(SubSeq(q, 1, n), 1, m) = SubSeq(q, 1, m)
  OBVIOUS

LEMMA EmptyPrefix ==
  ASSUME NEW T, NEW q \in Seq(T), NEW m \in Int, NEW n \in Int, n < m
  PROVE  SubSeq(q, m, n) = <<>>
  OBVIOUS

LEMMA FrontOfRest ==
  ASSUME NEW T, NEW q \in Seq(T), NEW i \in 1..Len(q), NEW n \in i..Len(q)
  PROVE  /\ SubSeq(q, i, n) # <<>>
         /\ Head(SubSeq(q, i, n)) = q[i]
         /\ Tail(SubSeq(q, i, n)) = SubSeq(q, i + 1, n)
  OBVIOUS

\* Where a call that writes, or reads, is seen.
LEMMA UnwrittenIs ==
  ASSUME NEW c \in Ctx, NEW o \in Streams
  PROVE  LET f == frame[c]  rest(i) == SubSeq(f.buf, f.done + i, f.len) IN
         /\ f.s # o \/ f.pc \notin Writing => Unwritten(c, o) = <<>>
         /\ f.s = o /\ f.pc \in {"write", "store"} => Unwritten(c, o) = rest(1)
         /\ f.s = o /\ f.pc \in HasStored => Unwritten(c, o) = rest(2)
  BY DEF Unwritten, On, Writing, HasStored, F

LEMMA UnwrittenNext ==
  ASSUME NEW c \in Ctx, NEW o \in Streams
  PROVE  LET g == frame'[c]  rest(i) == SubSeq(g.buf, g.done + i, g.len) IN
         /\ g.s # o \/ g.pc \notin Writing => Unwritten(c, o)' = <<>>
         /\ g.s = o /\ g.pc \in {"write", "store"} => Unwritten(c, o)' = rest(1)
         /\ g.s = o /\ g.pc \in HasStored => Unwritten(c, o)' = rest(2)
  BY DEF Unwritten, On, Writing, HasStored, F

LEMMA ReceivedIs ==
  ASSUME NEW c \in Ctx, NEW o \in Streams
  PROVE  LET f == frame[c]  g == frame'[c] IN
         /\ f.s # o \/ f.pc \notin Reading => Received(c, o) = <<>>
         /\ f.s = o /\ f.pc \in Reading => Received(c, o) = f.out
         /\ g.s # o \/ g.pc \notin Reading => Received(c, o)' = <<>>
         /\ g.s = o /\ g.pc \in Reading => Received(c, o)' = g.out
  BY DEF Received, On, Reading, HasTaken, F

\* A step within a write that stores nothing.
LEMMA WriteStays ==
  ASSUME Frames, SInv, CInv, NEW c \in Ctx, Registers(c), Step(c), NEW o \in Streams,
         LoadHead(c) \/ LoadHeadAgain(c) \/ StoreHead(c) \/ LoadCount(c) \/ StoreCount(c)
  PROVE  Stays(c, o)
  <1>1. /\ frame'[c].s = frame[c].s /\ frame'[c].buf = frame[c].buf
        /\ frame'[c].len = frame[c].len
        /\ \/ /\ frame[c].pc = "write" /\ frame'[c].pc = "store"
              /\ frame'[c].done = frame[c].done
           \/ /\ frame[c].pc \in {"head", "head2", "count"}
              /\ frame'[c].pc \in {"head2", "count", "count2"}
              /\ frame'[c].done = frame[c].done
           \/ /\ frame[c].pc = "count2" /\ frame'[c].pc = "write"
              /\ frame'[c].done = frame[c].done + 1
    BY StoreSteps DEF Same, SameLength
  <1>2. frame[c].done \in Nat
    BY DEF SInv, Types
  <1>3. ~ StoreByte(c) /\ ~ TakeByte(c)
    BY <1>1, LogPcs DEF TakeByte, At
  <1>4. Line(c, o)' = Line(c, o)
    BY <1>3, QueuesStay, LineKept
  <1>5. {frame[c].pc, frame'[c].pc} \subseteq Writing /\ {frame[c].pc, frame'[c].pc} \cap Reading = {}
    BY <1>1 DEF Writing, Reading
  <1>6. Received(c, o)' = Received(c, o)
    BY <1>5, ReceivedIs
  <1>7. Unwritten(c, o)' = Unwritten(c, o)
    <2>1. CASE frame[c].s # o
      BY <1>1, <2>1, UnwrittenIs, UnwrittenNext
    <2>2. CASE frame[c].s = o /\ frame'[c].done = frame[c].done
      <3>1. \/ {frame[c].pc, frame'[c].pc} \subseteq {"write", "store"}
            \/ {frame[c].pc, frame'[c].pc} \subseteq HasStored
        BY <1>1, <1>2, <2>2 DEF HasStored
      <3> QED  BY <1>1, <2>2, <3>1, UnwrittenIs, UnwrittenNext
    <2>3. CASE frame[c].s = o /\ frame[c].pc = "count2"
      <3>1. /\ frame[c].pc \in HasStored /\ frame'[c].pc \in {"write", "store"}
            /\ frame'[c].s = o /\ frame'[c].done + 1 = frame[c].done + 2
        BY <1>1, <1>2, <2>3 DEF HasStored
      <3>2. Unwritten(c, o) = SubSeq(frame[c].buf, frame[c].done + 2, frame[c].len)
        BY <2>3, <3>1, UnwrittenIs
      <3>3. Unwritten(c, o)' = SubSeq(frame'[c].buf, frame'[c].done + 1, frame'[c].len)
        BY <3>1, UnwrittenNext
      <3> QED  BY <1>1, <3>1, <3>2, <3>3
    <2> QED  BY <1>1, <2>1, <2>2, <2>3
  <1> QED  BY <1>4, <1>6, <1>7 DEF Stays

LEMMA ReadStays ==
  ASSUME Frames, SInv, CInv, NEW c \in Ctx, Registers(c), Step(c), NEW o \in Streams,
         \/ TestRead(c) \/ LoadTail(c) \/ StoreTail(c) \/ LoadCountToRead(c)
         \/ StoreCountRead(c)
  PROVE  Stays(c, o)
  <1>1. /\ frame'[c].s = frame[c].s /\ {frame[c].pc, frame'[c].pc} \subseteq Reading
        /\ frame[c].pc # "take"
    BY ReadSteps DEF Same, Reading
  <1>2. frame'[c].out = frame[c].out
    BY KeepsOut
  <1>3. {frame[c].pc, frame'[c].pc} \cap Writing = {} /\ frame[c].pc # "store"
    BY <1>1 DEF Writing, Reading
  <1>4. ~ StoreByte(c) /\ ~ TakeByte(c)
    BY <1>1, <1>3, LogPcs DEF TakeByte, At
  <1>5. Line(c, o)' = Line(c, o)
    BY <1>4, QueuesStay, LineKept
  <1>6. Unwritten(c, o)' = Unwritten(c, o)
    BY <1>3, UnwrittenIs, UnwrittenNext
  <1>7. Received(c, o)' = Received(c, o)
    BY <1>1, <1>2, ReceivedIs
  <1> QED  BY <1>5, <1>6, <1>7 DEF Stays

LEMMA StoreMoves ==
  ASSUME Frames, SInv, CInv, NEW c \in Ctx, Balanced(c), Registers(c), Fitting(c), Result(c),
         StoreByte(c), NEW o \in Streams
  PROVE  Stays(c, o) \/ Appends(c, o)
  <1> DEFINE b == frame[c].buf[frame[c].done + 1]
  <1>1. /\ frame[c].pc = "store" /\ frame'[c].pc = "head" /\ frame'[c].s = frame[c].s
        /\ frame'[c].buf = frame[c].buf /\ frame'[c].len = frame[c].len
        /\ frame'[c].done = frame[c].done
    BY StoreSteps DEF Same, SameLength
  <1>2. /\ frame[c].buf \in Seq(Byte) /\ frame[c].done \in Nat /\ frame[c].len \in Int
        /\ frame[c].done < frame[c].len /\ frame[c].len <= frame[c].asked
        /\ frame[c].asked \in Int /\ frame[c].asked <= Len(frame[c].buf)
    BY <1>1 DEF SInv, Types, Asked, Storing, Written, Writing
  <1>3. {frame[c].pc, frame'[c].pc} \cap Reading = {}
    BY <1>1 DEF Reading
  <1>4. Received(c, o)' = Received(c, o)
    BY <1>3, ReceivedIs
  <1>5. PICK s \in Streams : s = frame[c].s
    BY StoreQueue
  <1>6. CASE o = s
    <2>1. Line(c, s)' = Line(c, s) \o <<b>> /\ b \in Values
      BY <1>5, LineStored
    <2>2. Line(c, s) \in Seq(Values)
      BY TypedLines
    <2>3. Line(c, s)' = Append(Line(c, s), b)
      <3> DEFINE l == Line(c, s)
      <3> HIDE DEF b, l
      <3>1. l \in Seq(Values) /\ b \in Values
        BY <2>1, <2>2 DEF l
      <3>2. Append(l, b) = l \o <<b>>
        BY <3>1, Singles
      <3> QED  BY <2>1, <3>2 DEF l
    <2>4. Unwritten(c, s) = SubSeq(frame[c].buf, frame[c].done + 1, frame[c].len)
      BY <1>1, <1>5, UnwrittenIs
    <2>5. Unwritten(c, s)' = SubSeq(frame[c].buf, (frame[c].done + 1) + 1, frame[c].len)
      <3>1. frame'[c].pc \in HasStored /\ frame'[c].s = s
        BY <1>1, <1>5 DEF HasStored
      <3>2. Unwritten(c, s)' = SubSeq(frame'[c].buf, frame'[c].done + 2, frame'[c].len)
        BY <3>1, UnwrittenNext
      <3>3. frame[c].done + 2 = (frame[c].done + 1) + 1
        BY <1>2
      <3> QED  BY <1>1, <3>2, <3>3
    <2>6. frame[c].done + 1 \in 1..Len(frame[c].buf) /\ frame[c].len \in frame[c].done + 1..Len(frame[c].buf)
      BY <1>2
    <2>7. /\ Unwritten(c, s) # <<>> /\ Head(Unwritten(c, s)) = b
          /\ Unwritten(c, s)' = Tail(Unwritten(c, s))
      <3> DEFINE q == frame[c].buf
                 i == frame[c].done + 1
                 n == frame[c].len
      <3>1. q \in Seq(Byte) /\ i \in 1..Len(q) /\ n \in i..Len(q)
        BY <1>2, <2>6
      <3>2. /\ Unwritten(c, s) = SubSeq(q, i, n) /\ Unwritten(c, s)' = SubSeq(q, i + 1, n)
            /\ b = q[i]
        BY <2>4, <2>5
      <3> HIDE DEF q, i, n, b
      <3>3. /\ SubSeq(q, i, n) # <<>> /\ Head(SubSeq(q, i, n)) = q[i]
            /\ Tail(SubSeq(q, i, n)) = SubSeq(q, i + 1, n)
        BY <3>1, FrontOfRest
      <3> QED  BY <3>2, <3>3
    <2> QED  BY <1>4, <1>6, <2>3, <2>7 DEF Appends
  <1>7. CASE o # s
    <2>1. Line(c, o)' = Line(c, o)
      BY <1>5, <1>7, LineStored
    <2>2. Unwritten(c, o)' = Unwritten(c, o)
      BY <1>1, <1>5, <1>7, UnwrittenIs, UnwrittenNext
    <2> QED  BY <1>4, <2>1, <2>2 DEF Stays
  <1> QED  BY <1>6, <1>7

LEMMA TakeMoves ==
  ASSUME Frames, SInv, CInv, NEW c \in Ctx, Balanced(c), Fitting(c), Result(c),
         TakeByte(c), NEW o \in Streams
  PROVE  Stays(c, o) \/ Takes(c, o)
  <1>1. /\ frame[c].pc = "take" /\ frame'[c].pc = "tail" /\ frame'[c].s = frame[c].s
    BY ReadSteps DEF Same
  <1>2. {frame[c].pc, frame'[c].pc} \subseteq Reading /\ {frame[c].pc, frame'[c].pc} \cap Writing = {}
    BY <1>1 DEF Writing, Reading
  <1>3. Unwritten(c, o) = <<>> /\ Unwritten(c, o)' = <<>>
    BY <1>2, UnwrittenIs, UnwrittenNext
  <1>4. PICK s \in Streams : s = frame[c].s
    BY TakeQueue
  <1> DEFINE b == streams[s].data[TailOf(c, s)]
  <1>5. CASE o = s
    <2>1. Line(c, s) = <<b>> \o Line(c, s)' /\ Line(c, s)' \in Seq(Values)
      BY <1>4, LineTaken
    <2>2. b \in Values /\ frame'[c].out = Append(frame[c].out, b)
      BY <1>4, TakeQueue
    <2>3. Received(c, s) = frame[c].out /\ Received(c, s)' = frame'[c].out
      BY <1>1, <1>2, <1>4, ReceivedIs
    <2> HIDE DEF b
    <2>4. \A l \in Seq(Values) : /\ <<b>> \o l # <<>> /\ Head(<<b>> \o l) = b
                                 /\ Tail(<<b>> \o l) = l
      BY <2>2
    <2>5. /\ Line(c, s) # <<>> /\ Head(Line(c, s)) = b
          /\ Line(c, s)' = Tail(Line(c, s))
      BY <2>1, <2>4
    <2> QED  BY <1>3, <1>5, <2>2, <2>3, <2>5 DEF Takes
  <1>6. CASE o # s
    <2>1. Line(c, o)' = Line(c, o)
      BY <1>4, <1>6, LineTaken
    <2>2. Received(c, o)' = Received(c, o)
      BY <1>1, <1>4, <1>6, ReceivedIs
    <2> QED  BY <1>3, <2>1, <2>2 DEF Stays
  <1> QED  BY <1>5, <1>6

(* Outside the loops a write call has nothing left to store, and whoever   *)
(* reads next has taken nothing yet.                                       *)
LEMMA OutsideReads ==
  ASSUME Frames, NEW c \in Ctx, Outside(c), frame'[c].pc \in Reading
  PROVE  frame'[c].out = <<>>
  <1>1. frame'[c].pc = "read"
    BY OutsideStep
  <1>2. CASE WriteReturn(c) \/ SetRed(c)
    BY <1>2, SetsOut
  <1>3. CASE StoreStartOfLine(c) \/ Ignore(c) \/ NoWrap(c) \/ StoreScrolled(c)
    <2>1. Goto(c, NextByte(c))
      BY <1>3 DEF StoreStartOfLine, Ignore, NoWrap, StoreScrolled
    <2> QED  BY <1>1, <2>1, TailOut
  <1>4. ~ (CheckStream(c) \/ ReadReturn(c) \/ SaveColor(c))
    BY <1>1, Turns
  <1>5. ~ (BadStream(c) \/ Deliver(c) \/ RestoreColor(c))
    BY <1>1, Returns, IdleFields
  <1>6. ~ (\/ CarriageReturn(c) \/ StartOfLine(c) \/ LineFeed(c) \/ NextLine(c)
           \/ LoadCell(c) \/ Advance(c) \/ Scroll(c))
    BY <1>1, CursorLoads
  <1>7. ~ (Fits(c) \/ Paint(c) \/ StoreCursor(c) \/ Wrap(c))
    BY <1>1 DEF Fits, Paint, StoreCursor, Wrap, Goto, F, Frames, Fields
  <1> QED  BY <1>2, <1>3, <1>4, <1>5, <1>6, <1>7 DEF Outside
LEMMA OutsideWrites ==
  ASSUME Frames, NEW c \in Ctx, Outside(c), frame[c].pc \in Writing
  PROVE  frame[c].pc = "write" /\ frame[c].done >= frame[c].len
  <1>1. CASE WriteReturn(c)
    <2>1. frame[c].pc = "write" /\ frame[c].done >= frame[c].len
      BY <1>1 DEF WriteReturn, At, F
    <2> QED  BY <2>1
  <1>2. ~ (CheckStream(c) \/ ReadReturn(c) \/ SaveColor(c) \/ SetRed(c))
    BY Turns DEF Writing
  <1>3. ~ (BadStream(c) \/ Deliver(c) \/ RestoreColor(c))
    BY Returns DEF Writing
  <1>4. ~ (\/ CarriageReturn(c) \/ StartOfLine(c) \/ LineFeed(c) \/ NextLine(c)
           \/ LoadCell(c) \/ Advance(c) \/ Scroll(c))
    BY CursorLoads DEF Writing, Rendering, Moving, Holding
  <1>5. ~ (\/ StoreStartOfLine(c) \/ Ignore(c) \/ NoWrap(c) \/ StoreScrolled(c)
           \/ Fits(c) \/ Paint(c) \/ StoreCursor(c) \/ Wrap(c))
    BY CursorSteps DEF Writing, Rendering, Moving, Holding
  <1> QED  BY <1>1, <1>2, <1>3, <1>4, <1>5 DEF Outside

\* The steps outside the loops: at most, stream_read returns.
LEMMA OutsideMoves ==
  ASSUME Frames, SInv, CInv, NEW c \in Ctx, Registers(c), Step(c), Outside(c), NEW o \in Streams
  PROVE  Delivers(c, o)
  <1>1. frame[c].pc \notin Half /\ frame'[c].pc \notin Writing
    BY OutsideStep
  <1>2. ~ StoreByte(c) /\ ~ TakeByte(c)
    <2>1. StoreByte(c) => frame'[c].pc = "head"
      BY StoreSteps
    <2>2. TakeByte(c) => frame'[c].pc = "tail"
      BY ReadSteps
    <2> QED  BY <2>1, <2>2, OutsideStep DEF Writing, Reading
  <1>3. Line(c, o)' = Line(c, o)
    BY <1>2, QueuesStay, LineKept
  <1>4. Unwritten(c, o)' = <<>>
    BY <1>1, UnwrittenNext
  <1>5. Unwritten(c, o) = <<>>
    <2>1. CASE frame[c].s # o \/ frame[c].pc \notin Writing
      BY <2>1, UnwrittenIs
    <2>2. CASE frame[c].s = o /\ frame[c].pc \in Writing
      <3>1. /\ frame[c].buf \in Seq(Byte) /\ frame[c].done \in Nat /\ frame[c].len \in Int
        BY DEF SInv, Types
      <3>2. frame[c].pc = "write" /\ frame[c].len < frame[c].done + 1
        BY <2>2, <3>1, OutsideWrites
      <3>3. Unwritten(c, o) = SubSeq(frame[c].buf, frame[c].done + 1, frame[c].len)
        BY <2>2, <3>2, UnwrittenIs
      <3>4. frame[c].done + 1 \in Int
        BY <3>1
      <3> QED  BY <3>1, <3>2, <3>3, <3>4, EmptyPrefix
    <2> QED  BY <2>1, <2>2
  <1>6. Received(c, o)' = <<>>
    BY OutsideReads, ReceivedIs
  <1> QED  BY <1>3, <1>4, <1>5, <1>6 DEF Delivers

(* What the caller of a write offers.                                      *)
Offering(c) ==
  frame[c].pc \in Entering => SubSeq(frame[c].buf, 1, frame[c].len) \in Offered

\* How much of n bytes fits into a room, said of the bytes themselves.
LEMMA FitsInto ==
  ASSUME NEW q \in Seq(Byte), NEW n \in Int, n <= Len(q), NEW room \in Nat
  PROVE  LET b == SubSeq(q, 1, n)
             k == IF n > room THEN room ELSE n
         IN  SubSeq(q, 1, k) = SubSeq(b, 1, IF Len(b) > room THEN room ELSE Len(b))
  <1> DEFINE b == SubSeq(q, 1, n)
             k == IF n > room THEN room ELSE n
  <1>1. CASE n < 1
    <2>1. b = <<>> /\ b \in Seq(Byte) /\ Len(b) = 0
      <3>1. b = <<>>
        BY <1>1, EmptyPrefix
      <3> QED  BY <3>1
    <2>2. k \in Int /\ k < 1
      BY <1>1
    <2>3. SubSeq(q, 1, k) = <<>>
      <3> HIDE DEF k
      <3> QED  BY <2>2, EmptyPrefix
    <2> HIDE DEF b
    <2>4. SubSeq(b, 1, 0) = <<>>
      BY <2>1, EmptyPrefix
    <2>5. (IF Len(b) > room THEN room ELSE Len(b)) = 0
      BY <2>1
    <2> QED  BY <2>3, <2>4, <2>5 DEF b
  <1>2. CASE n >= 1
    <2>1. n \in 0..Len(q) /\ Len(b) = n
      BY <1>2
    <2>2. k \in 0..n /\ k = IF Len(b) > room THEN room ELSE Len(b)
      BY <1>2, <2>1
    <2>3. SubSeq(b, 1, k) = SubSeq(q, 1, k)
      <3> HIDE DEF k
      <3> QED  BY <2>1, <2>2, PrefixOfPrefix
    <2> QED  BY <2>2, <2>3
  <1> QED  BY <1>1, <1>2

LEMMA ClipMoves ==
  ASSUME Frames, SInv, CInv, NEW c \in Ctx, Balanced(c), Registers(c), Result(c), Offering(c),
         Step(c), TestRoom(c) \/ Clip(c), NEW o \in Streams
  PROVE  Stays(c, o) \/ Offers(c, o)
  <1> DEFINE f == frame[c]
             room == Room(c)
             b == SubSeq(f.buf, 1, f.len)
  <1>1. /\ frame'[c].s = f.s /\ frame'[c].buf = f.buf /\ frame'[c].done = f.done
        /\ streams' = streams /\ f.pc \in {"clip", "clip2"}
        /\ \/ frame'[c].pc = "clip2"
           \/ frame'[c].pc = "write" /\ frame'[c].len = f.len /\ ~ (f.len > room)
           \/ frame'[c].pc = "write" /\ frame'[c].len = room /\ f.len > room
    <2>1. CASE TestRoom(c)
      <3>1. frame'[c].pc = IF frame[c].len > Room(c) THEN "clip2" ELSE "write"
        BY <2>1 DEF TestRoom, Goto, F, Frames, Fields
      <3> QED  BY <2>1, <3>1, ClipSteps DEF Same, SameLength
    <2>2. CASE Clip(c)
      <3>1. f.pc = "clip2"
        BY <2>2, ClipSteps
      <3>2. f.len > room
        BY <3>1 DEF SInv, Clipping
      <3> QED  BY <2>2, <3>2, ClipSteps DEF Same
    <2> QED  BY <2>1, <2>2
  <1>2. /\ f.s \in Streams /\ f.done = 0 /\ f.len = f.asked /\ f.asked <= Len(f.buf)
        /\ f.buf \in Seq(Byte) /\ f.len \in Int /\ f.pc \in Entering
    BY <1>1 DEF SInv, Asked, Types, Written, Entering
  <1>3. /\ f.pc \notin Writing \cup Reading /\ frame'[c].pc \notin Reading
    BY <1>1 DEF Writing, Reading
  <1>4. /\ Unwritten(c, o) = <<>> /\ Received(c, o) = <<>> /\ Received(c, o)' = <<>>
    BY <1>3, UnwrittenIs, ReceivedIs
  <1>5. ~ StoreByte(c) /\ ~ TakeByte(c)
    BY <1>1, LogPcs DEF TakeByte, At
  <1>6. Line(c, o)' = Line(c, o)
    BY <1>5, QueuesStay, LineKept
  <1>7. CASE frame'[c].pc = "clip2" \/ o # f.s
    <2>1. Unwritten(c, o)' = <<>>
      BY <1>1, <1>7, UnwrittenNext DEF Writing
    <2> QED  BY <1>4, <1>6, <2>1 DEF Stays
  <1>8. CASE frame'[c].pc = "write" /\ o = f.s
    <2>1. Len(Line(c, o)) = streams[o].count /\ streams[o].count \in 0..STREAM_BUF_SIZE
      <3>1. CountOf(c, o) = streams[o].count /\ TailOf(c, o) = streams[o].tail
        BY <1>1 DEF CountOf, TailOf, On, HasStored, HasTaken
      <3>2. streams[o].data \in Data /\ streams[o].tail \in Slots
        BY StreamTypes
      <3>3. streams[o].count \in 0..STREAM_BUF_SIZE
        BY <3>1 DEF Balanced
      <3> QED  BY <3>1, <3>2, <3>3, SliceIsSeq DEF Line
    <2>2. room = STREAM_BUF_SIZE - Len(Line(c, o)) /\ room \in Nat
      BY <1>8, <2>1, ConsoleAssumption DEF Room, S
    <2>3. Unwritten(c, o)' = SubSeq(f.buf, 1, frame'[c].len)
      <3>1. Unwritten(c, o)' = SubSeq(frame'[c].buf, frame'[c].done + 1, frame'[c].len)
        BY <1>1, <1>8, UnwrittenNext
      <3>2. frame'[c].done + 1 = 1
        BY <1>1, <1>2
      <3> QED  BY <1>1, <3>1, <3>2
    <2>4. frame'[c].len = IF f.len > room THEN room ELSE f.len
      BY <1>1, <1>8
    <2>5. Unwritten(c, o)' = SubSeq(b, 1, IF Len(b) > room THEN room ELSE Len(b))
      <3> HIDE DEF room
      <3> QED  BY <1>2, <2>2, <2>3, <2>4, FitsInto
    <2>6. b \in Offered
      BY <1>2 DEF Offering
    <2> HIDE DEF b, room
    <2>7. \E a \in Offered : Unwritten(c, o)' =
            SubSeq(a, 1, IF Len(a) > STREAM_BUF_SIZE - Len(Line(c, o))
                         THEN STREAM_BUF_SIZE - Len(Line(c, o)) ELSE Len(a))
      BY <2>2, <2>5, <2>6
    <2> QED  BY <1>4, <1>6, <2>7 DEF Offers
  <1> QED  BY <1>1, <1>7, <1>8

LEMMA StepMoves ==
  ASSUME QInv, NEW c \in Ctx, c = Active, Offering(c), Step(c), NEW o \in Streams
  PROVE  Moves(c, o)
  <1>1. /\ Frames /\ SInv /\ CInv /\ Balanced(c) /\ Registers(c) /\ Fitting(c) /\ Result(c)
    BY DEF QInv, Base, Quiet
  <1>2. CASE Outside(c)
    BY <1>1, <1>2, OutsideMoves DEF Moves
  <1>3. CASE TestRoom(c) \/ Clip(c)
    BY <1>1, <1>3, ClipMoves DEF Moves
  <1>4. CASE LoadHead(c) \/ LoadHeadAgain(c) \/ StoreHead(c) \/ LoadCount(c) \/ StoreCount(c)
    BY <1>1, <1>4, WriteStays DEF Moves
  <1>5. CASE \/ TestRead(c) \/ LoadTail(c) \/ StoreTail(c) \/ LoadCountToRead(c)
             \/ StoreCountRead(c)
    BY <1>1, <1>5, ReadStays DEF Moves
  <1>6. CASE StoreByte(c)
    BY <1>1, <1>6, StoreMoves DEF Moves
  <1>7. CASE TakeByte(c)
    BY <1>1, <1>7, TakeMoves DEF Moves
  <1> QED  BY <1>2, <1>3, <1>4, <1>5, <1>6, <1>7, StepKinds

\* A single byte, as sh_puts and a key offer it.
LEMMA OneByte ==
  ASSUME NEW b \in Byte
  PROVE  SubSeq(<<b>>, 1, 1) \in Offered /\ <<b>> \in Seq(Byte)
  <1>1. <<b>> \in Seq(Byte) /\ Len(<<b>>) = 1
    OBVIOUS
  <1>2. SubSeq(<<b>>, 1, Len(<<b>>)) = <<b>>
    BY <1>1, SubSeqFull
  <1> QED  BY <1>1, <1>2 DEF Offered

LEMMA TextOffers ==
  ASSUME Frames, NEW c \in Ctx, NEW f, DOMAIN f = Fields, NEW text \in Seq(Byte), text # <<>>,
         Goto(c, Putc(f, text))
  PROVE  Offering(c)'
  <1> DEFINE b == Head(text)
             rest == Tail(text)
  <1>1. b \in Byte
    BY RestOfSeq
  <1>2. Goto(c, [f EXCEPT !.pc = "index", !.s = STDOUT, !.buf = <<b>>, !.len = 1,
                          !.asked = 1, !.done = 0, !.todo = rest])
    BY DEF Putc
  <1> HIDE DEF b, rest
  <1>3. frame'[c].buf = <<b>> /\ frame'[c].len = 1
    BY <1>2 DEF Goto, Frames, Fields
  <1> QED  BY <1>1, <1>3, OneByte DEF Offering

LEMMA StepOffers ==
  ASSUME Frames, SInv, NEW c \in Ctx, Offering(c), Step(c)
  PROVE  Offering(c)'
  <1>1. CASE CheckStream(c) \/ TestRoom(c)
    <2>1. /\ frame[c].pc \in Entering
          /\ frame'[c].buf = frame[c].buf /\ frame'[c].len = frame[c].len
      BY <1>1, ClipSteps DEF Same, SameLength, Entering
    <2> QED  BY <2>1 DEF Offering
  <1>2. CASE BadStream(c) \/ Deliver(c) \/ RestoreColor(c)
    <2>1. Finish(c)
      BY <1>2 DEF BadStream, Deliver, RestoreColor
    <2>2. CASE F(c).todo # <<>>
      <3>1. F(c).todo \in Seq(Byte) /\ DOMAIN F(c) = Fields
        BY DEF SInv, Types, F, Frames
      <3>2. Goto(c, Putc(F(c), F(c).todo))
        BY <2>1, <2>2 DEF Finish
      <3> QED  BY <2>2, <3>1, <3>2, TextOffers
    <2>3. CASE F(c).todo = <<>>
      <3>1. frame'[c] = Idle
        BY <2>1, <2>3 DEF Finish, Goto, Frames
      <3> QED  BY <3>1, IdleFields DEF Offering, Entering
    <2> QED  BY <2>2, <2>3
  <1>3. CASE WriteReturn(c) \/ ReadReturn(c) \/ SaveColor(c) \/ SetRed(c)
    BY <1>3, Turns DEF Offering, Entering
  <1>4. CASE \/ CarriageReturn(c) \/ StartOfLine(c) \/ LineFeed(c) \/ NextLine(c)
             \/ LoadCell(c) \/ Advance(c) \/ Scroll(c)
    BY <1>4, CursorLoads DEF Offering, Entering, Rendering, Moving, Holding
  <1>5. CASE \/ StoreStartOfLine(c) \/ Ignore(c) \/ NoWrap(c) \/ StoreScrolled(c)
             \/ Fits(c) \/ Paint(c) \/ StoreCursor(c) \/ Wrap(c)
    BY <1>5, CursorSteps DEF Offering, Entering, Rendering, Moving, Holding
  <1>6. CASE \/ Clip(c) \/ LoadHead(c) \/ StoreByte(c) \/ LoadHeadAgain(c)
             \/ StoreHead(c) \/ LoadCount(c) \/ StoreCount(c)
    BY <1>6, ClipSteps, StoreSteps DEF Offering, Entering
  <1>7. CASE \/ TestRead(c) \/ TakeByte(c) \/ LoadTail(c) \/ StoreTail(c)
             \/ LoadCountToRead(c) \/ StoreCountRead(c)
    BY <1>7, ReadSteps DEF Offering, Entering
  <1> QED  BY <1>1, <1>2, <1>3, <1>4, <1>5, <1>6, <1>7, StepKinds DEF Outside

LEMMA BeginOffers ==
  ASSUME Frames,
         \/ Puts(Message) \/ SysBadPointer
         \/ (\E fd \in Fds, b \in Buffers, n \in Lens : SysWrite(fd, b, n))
         \/ (\E n \in Lens : SysRead(n))
  PROVE  Offering("main")'
  <1>0. "main" \in Ctx
    BY DEF Ctx
  <1>1. CASE Puts(Message) \/ SysBadPointer
    <2>1. PICK op : Call(Putc([Idle EXCEPT !.op = op], Message))
      BY <1>1 DEF Puts, SysBadPointer
    <2> DEFINE f == [Idle EXCEPT !.op = op]
    <2>2. Goto("main", Putc(f, Message)) /\ DOMAIN f = Fields
      BY <2>1, IdleFields DEF Call
    <2> HIDE DEF f
    <2> QED  BY <1>0, <2>2, TextOffers, ConsoleAssumption
  <1>2. CASE \E fd \in Fds, b \in Buffers, n \in Lens : SysWrite(fd, b, n)
    <2>1. PICK fd \in Fds, b \in Buffers, n \in Lens : SysWrite(fd, b, n)
      BY <1>2
    <2> DEFINE f == [Idle EXCEPT !.op = "sys_write", !.pc = "index", !.s = fd, !.buf = b,
                                 !.len = n, !.asked = n]
    <2>2. n <= Len(b) /\ Goto("main", f) /\ f.buf = b /\ f.len = n
      BY <2>1 DEF SysWrite, Call, Idle
    <2> HIDE DEF f
    <2>3. frame'["main"].buf = b /\ frame'["main"].len = n
      BY <1>0, <2>2 DEF Goto, Frames
    <2>4. SubSeq(b, 1, n) \in Offered
      <3>1. SubSeq(b, 1, n) \in {SubSeq(b, 1, k) : k \in {m \in Lens : m <= Len(b)}}
        BY <2>2
      <3> QED  BY <3>1 DEF Offered
    <2> QED  BY <2>3, <2>4 DEF Offering
  <1>3. CASE \E n \in Lens : SysRead(n)
    <2>1. PICK n \in Lens : SysRead(n)
      BY <1>3
    <2> DEFINE f == [Idle EXCEPT !.op = "sys_read", !.pc = "read", !.s = STDIN, !.len = n,
                                 !.asked = n]
    <2>2. Goto("main", f) /\ f.pc = "read"
      BY <2>1 DEF SysRead, Call, Idle
    <2> HIDE DEF f
    <2>3. frame'["main"].pc = "read"
      BY <1>0, <2>2 DEF Goto, Frames
    <2> QED  BY <2>3 DEF Offering, Entering
  <1> QED  BY <1>1, <1>2, <1>3

LEMMA KeyOffers ==
  ASSUME Frames, NEW k \in Keys, KeyPress(k)
  PROVE  Offering("irq")'
  <1>1. frame'["irq"].buf = <<k>> /\ frame'["irq"].len = 1
    BY DEF KeyPress, Goto, Idle, Frames, Ctx
  <1>2. k \in Byte
    BY ConsoleAssumption
  <1> QED  BY <1>1, <1>2, OneByte DEF Offering
-----------------------------------------------------------------------------
(* Between calls every context sees the queues alike.                      *)
LEMMA SeenAlike ==
  ASSUME NEW c \in Ctx, NEW d \in Ctx, NEW o \in Streams,
         frame[c].pc = "idle", frame[d].pc = "idle"
  PROVE  /\ Line(c, o) = Line(d, o) /\ Unwritten(c, o) = Unwritten(d, o)
         /\ Received(c, o) = Received(d, o)
  <1>1. Line(c, o) = Line(d, o)
    BY DEF Line, TailOf, CountOf, On, HasStored, HasTaken
  <1>2. {frame[c].pc, frame[d].pc} \cap (Writing \cup Reading) = {}
    BY DEF Writing, Reading
  <1> QED  BY <1>1, <1>2, UnwrittenIs, ReceivedIs

LEMMA SeenAlikeNext ==
  ASSUME NEW c \in Ctx, NEW d \in Ctx, NEW o \in Streams,
         frame'[c].pc = "idle", frame'[d].pc = "idle"
  PROVE  /\ Line(c, o)' = Line(d, o)' /\ Unwritten(c, o)' = Unwritten(d, o)'
         /\ Received(c, o)' = Received(d, o)'
  <1>1. Line(c, o)' = Line(d, o)'
    BY DEF Line, TailOf, CountOf, On, HasStored, HasTaken
  <1>2. {frame'[c].pc, frame'[d].pc} \cap (Writing \cup Reading) = {}
    BY DEF Writing, Reading
  <1> QED  BY <1>1, <1>2, UnwrittenNext, ReceivedIs

\* What c does to the queue of o is what the running context is seen to do.
LEMMA MovesAreSteps ==
  ASSUME NEW c \in Ctx, NEW o \in Streams, Moves(c, o),
         c = Active \/ \A d \in Ctx : frame[d].pc = "idle",
         Alone(c)'
  PROVE  [BQ(o)!Next]_(BQ(o)!qvars)
  <1>1. PICK d \in Ctx : d = Active
    BY DEF Active, Ctx
  <1>2. PICK e \in Ctx : e = Active'
    BY DEF Active, Ctx
  <1>3. /\ Line(Active, o) = Line(c, o) /\ Unwritten(Active, o) = Unwritten(c, o)
        /\ Received(Active, o) = Received(c, o)
    <2>1. CASE c = Active
      BY <2>1
    <2>2. CASE \A x \in Ctx : frame[x].pc = "idle"
      BY <1>1, <2>2, SeenAlike
    <2> QED  BY <2>1, <2>2
  <1>4. e = c \/ (frame'[c].pc = "idle" /\ frame'[e].pc = "idle")
    BY <1>2 DEF Active, Alone, Ctx
  <1>5. /\ Line(e, o)' = Line(c, o)' /\ Unwritten(e, o)' = Unwritten(c, o)'
        /\ Received(e, o)' = Received(c, o)'
    <2>1. CASE e = c
      BY <2>1
    <2>2. CASE frame'[c].pc = "idle" /\ frame'[e].pc = "idle"
      BY <2>2, SeenAlikeNext
    <2> QED  BY <1>4, <2>1, <2>2
  <1>6. /\ Line(Active, o)' = Line(c, o)' /\ Unwritten(Active, o)' = Unwritten(c, o)'
        /\ Received(Active, o)' = Received(c, o)'
    BY <1>2, <1>5
  <1> QED  BY <1>3, <1>6 DEF Moves, Stays, Offers, Appends, Takes, Delivers, BQ!Next, BQ!Offer, BQ!Free,
     BQ!Put, BQ!Take, BQ!Deliver, BQ!qvars

RInv == QInv /\ \A c \in Ctx : Offering(c)

LEMMA RInitInv ==
  ASSUME Init
  PROVE  RInv /\ \A o \in Streams : BQ(o)!Init
  <1>1. QInv
    BY QInitInv
  <1>2. \A c \in Ctx : frame[c].pc = "idle"
    BY IdleFields DEF Init, Ctx
  <1>3. RInv
    BY <1>1, <1>2 DEF RInv, Offering, Entering
  <1>4. PICK c \in Ctx : c = Active
    BY DEF Active, Ctx
  <1>5. ASSUME NEW o \in Streams
        PROVE  BQ(o)!Init
    <2>1. Unwritten(c, o) = <<>> /\ Received(c, o) = <<>>
      BY <1>2, UnwrittenIs, ReceivedIs DEF Writing, Reading
    <2>2. CountOf(c, o) = 0
      BY <1>2 DEF Init, CountOf, On, HasStored, HasTaken
    <2>3. TailOf(c, o) \in Slots /\ streams[o].data \in Data /\ 0 \in 0..STREAM_BUF_SIZE
      BY <1>1, <1>4, TypedLines, StreamTypes, ConsoleAssumption DEF QInv, Base, Quiet
    <2>4. Line(c, o) \in Seq(Values) /\ Len(Line(c, o)) = 0
      BY <2>2, <2>3, SliceIsSeq DEF Line
    <2>5. Line(c, o) = <<>>
      BY <2>4
    <2> QED  BY <1>4, <2>1, <2>5 DEF BQ!Init
  <1> QED  BY <1>3, <1>5

LEMMA BeginMoves ==
  ASSUME NEW c \in Ctx, frame[c].pc = "idle", SameQueues(c), frame'[c].out = <<>>,
         frame'[c].pc \in {"index", "read"}, NEW o \in Streams
  PROVE  Moves(c, o)
  <1>1. Line(c, o)' = Line(c, o)
    BY LineKept
  <1>2. Unwritten(c, o) = <<>> /\ Received(c, o) = <<>>
    BY UnwrittenIs, ReceivedIs DEF Writing, Reading
  <1>3. Unwritten(c, o)' = <<>>
    BY UnwrittenNext DEF Writing
  <1>4. Received(c, o)' = <<>>
    BY ReceivedIs
  <1> QED  BY <1>1, <1>2, <1>3, <1>4 DEF Moves, Stays

LEMMA RNextInv ==
  ASSUME ~ Preemptible, RInv, [Next]_vars
  PROVE  RInv' /\ \A o \in Streams : [BQ(o)!Next]_(BQ(o)!qvars)
  <1>0. QInv /\ QInv' /\ Frames /\ SInv /\ Base' /\ {"main", "irq"} \subseteq Ctx
    BY QNextInv DEF RInv, QInv, Base, Ctx
  <1>1. ASSUME NEW c \in Ctx, Goes1(c), Offering(c)'
        PROVE  \A d \in Ctx : Offering(d)'
    BY <1>1 DEF RInv, Goes1, Offering
  <1>2. CASE \/ Puts(Message) \/ SysBadPointer
             \/ (\E fd \in Fds, b \in Buffers, n \in Lens : SysWrite(fd, b, n))
             \/ (\E n \in Lens : SysRead(n))
    <2>1. /\ Goes1("main") /\ cursor' = cursor /\ streams' = streams
          /\ \/ frame'["main"].pc = "index"
             \/ frame'["main"].pc = "read" /\ frame'["main"].s = STDIN
      BY <1>0, <1>2, Begins, BeginSteps
    <2>2. /\ frame'["main"].out = <<>> /\ frame'["main"].done = 0
          /\ \A d \in Ctx : frame[d].pc = "idle"
      BY <1>0, <1>2, BeginsOut
    <2>3. SameQueues("main")
      BY <1>0, <2>1, <2>2, BeginQuiet
    <2>4. Alone("main")'
      BY <1>0, <2>1, <2>2 DEF Goes1, Alone
    <2>5. \A o \in Streams : Moves("main", o)
      BY <1>0, <2>1, <2>2, <2>3, BeginMoves
    <2>6. \A o \in Streams : [BQ(o)!Next]_(BQ(o)!qvars)
      BY <1>0, <2>2, <2>4, <2>5, MovesAreSteps
    <2>7. Offering("main")'
      BY <1>0, <1>2, BeginOffers
    <2> QED  BY <1>0, <1>1, <2>1, <2>6, <2>7 DEF RInv
  <1>3. CASE \E k \in Keys : KeyPress(k)
    <2>1. PICK k \in Keys : KeyPress(k)
      BY <1>3
    <2>2. Goes1("irq") /\ cursor' = cursor /\ streams' = streams /\ frame'["irq"].pc = "index"
      BY <1>0, <2>1, KeyHit, KeySteps
    <2>3. /\ frame'["irq"].out = <<>> /\ frame'["irq"].done = 0
          /\ \A d \in Ctx : frame[d].pc = "idle"
      BY <1>0, <2>1, KeyWaits
    <2>4. SameQueues("irq")
      BY <1>0, <2>2, <2>3, BeginQuiet
    <2>5. Alone("irq")'
      BY <1>0, <2>2, <2>3 DEF Goes1, Alone
    <2>6. \A o \in Streams : Moves("irq", o)
      BY <1>0, <2>2, <2>3, <2>4, BeginMoves
    <2>7. \A o \in Streams : [BQ(o)!Next]_(BQ(o)!qvars)
      BY <1>0, <2>3, <2>5, <2>6, MovesAreSteps
    <2>8. Offering("irq")'
      BY <1>0, <2>1, KeyOffers
    <2> QED  BY <1>0, <1>1, <2>2, <2>7, <2>8 DEF RInv
  <1>4. CASE SysAtOnce(-1) \/ SysAtOnce(1) \/ UNCHANGED vars
    <2>1. frame' = frame /\ streams' = streams
      BY <1>4 DEF SysAtOnce, vars, shell
    <2>2. Active' = Active
      BY <2>1 DEF Active
    <2>3. \A c \in Ctx : Offering(c)'
      BY <2>1 DEF RInv, Offering
    <2>4. ASSUME NEW o \in Streams
          PROVE  UNCHANGED BQ(o)!qvars
      <3>1. Line(Active, o)' = Line(Active, o)
        BY <2>1, <2>2 DEF Line, TailOf, CountOf, On
      <3>2. Unwritten(Active, o)' = Unwritten(Active, o)
        BY <2>1, <2>2 DEF Unwritten, On, F
      <3>3. Received(Active, o)' = Received(Active, o)
        BY <2>1, <2>2 DEF Received, On, F
      <3> QED  BY <3>1, <3>2, <3>3 DEF BQ!qvars
    <2> QED  BY <1>0, <2>3, <2>4 DEF RInv
  <1>5. CASE \E c \in {"main", "irq"} : Step(c)
    <2>1. PICK c \in Ctx : Step(c)
      BY <1>0, <1>5
    <2>2. c = Active /\ Goes1(c) /\ Offering(c)
      BY <1>0, <2>1, OnlyActive, StepGoes DEF RInv
    <2>3. Alone(c)'
      BY <1>0, <2>2 DEF QInv, Goes1, Alone
    <2>4. \A o \in Streams : Moves(c, o)
      BY <1>0, <2>1, <2>2, StepMoves
    <2>5. \A o \in Streams : [BQ(o)!Next]_(BQ(o)!qvars)
      BY <2>2, <2>3, <2>4, MovesAreSteps
    <2>6. Offering(c)'
      BY <1>0, <2>1, <2>2, StepOffers
    <2> QED  BY <1>0, <1>1, <2>2, <2>5, <2>6 DEF RInv
  <1> QED  BY <1>2, <1>3, <1>4, <1>5 DEF Next

(* stream.c:3-34, shell.c:27-36,60-112: with keys between calls, each of   *)
(* the three streams implements ByteQueue, a byte at a time, under all its *)
(* callers: what a write keeps is the front of its buffer, no more than    *)
(* fits, and what is read comes out once and in order.                     *)
THEOREM ConsoleImplementsQueues == ASSUME ~ Preemptible PROVE Spec => StreamsAreQueues
  <1>1. Init => RInv /\ \A s \in Streams : BQ(s)!Init
    BY RInitInv
  <1>2. RInv /\ [Next]_vars => RInv' /\ \A s \in Streams : [BQ(s)!Next]_(BQ(s)!qvars)
    BY RNextInv
  <1> QED  BY <1>1, <1>2, PTL DEF Spec, StreamsAreQueues
=============================================================================
