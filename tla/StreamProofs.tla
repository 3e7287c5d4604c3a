---------------------------- MODULE StreamProofs ----------------------------
(* Proofs about the module Stream, for every STREAM_BUF_SIZE, every set of *)
(* bytes and every set of buffers and lengths that callers pass.           *)
EXTENDS Stream, TLAPS
-----------------------------------------------------------------------------
(* Arithmetic of slot numbers: one addition modulo the size wraps once.    *)
LEMMA ModSmall ==
  ASSUME NEW n \in Nat \ {0}, NEW i \in 0..n-1
  PROVE  i % n = i
  OBVIOUS

LEMMA ModWrap ==
  ASSUME NEW n \in Nat \ {0}, NEW i \in n..2*n-1
  PROVE  i % n = i - n
  OBVIOUS

LEMMA NextSlotValue ==
  ASSUME NEW i \in Slots
  PROVE  /\ NextSlot(i) = IF i + 1 = STREAM_BUF_SIZE THEN 0 ELSE i + 1
         /\ NextSlot(i) \in Slots
  <1> USE StreamAssumption DEF Slots, NextSlot
  <1>1. CASE i + 1 = STREAM_BUF_SIZE
    BY <1>1, ModWrap
  <1>2. CASE i + 1 # STREAM_BUF_SIZE
    BY <1>2, ModSmall
  <1> QED  BY <1>1, <1>2

\* The slot n places after slot t.
LEMMA SlotAfter ==
  ASSUME NEW t \in Slots, NEW n \in 0..STREAM_BUF_SIZE
  PROVE  /\ (t + n) % STREAM_BUF_SIZE
              = IF t + n < STREAM_BUF_SIZE THEN t + n ELSE t + n - STREAM_BUF_SIZE
         /\ (t + n) % STREAM_BUF_SIZE \in Slots
  <1> USE StreamAssumption DEF Slots
  <1>1. CASE t + n < STREAM_BUF_SIZE
    <2>1. t + n \in 0..STREAM_BUF_SIZE-1
      BY <1>1
    <2>2. (t + n) % STREAM_BUF_SIZE = t + n
      BY <2>1, ModSmall
    <2> QED  BY <1>1, <2>1, <2>2
  <1>2. CASE ~(t + n < STREAM_BUF_SIZE)
    <2>1. t + n \in STREAM_BUF_SIZE..2*STREAM_BUF_SIZE-1
      BY <1>2
    <2>2. (t + n) % STREAM_BUF_SIZE = t + n - STREAM_BUF_SIZE
      BY <2>1, ModWrap
    <2> QED  BY <1>2, <2>1, <2>2
  <1> QED  BY <1>1, <1>2
-----------------------------------------------------------------------------
(* The inductive invariant.  The loops keep what the entry of the call     *)
(* established: a write call has no more to store than there is room, a    *)
(* read call has read at most what the stream held, and a newline in slot  *)
(* 0 is always among the unread bytes.                                     *)
WriteFits ==
  op = "write" => /\ len <= Len(buf)
                  /\ done < len => len - done <= STREAM_BUF_SIZE - count
ReadFits == op = "read" => done + count <= STREAM_BUF_SIZE

SlotZeroUnread ==
  data[0] = NL => /\ count > 0
                  /\ tail = 0 \/ tail + count > STREAM_BUF_SIZE
                  /\ op = "read" => done = 0

UnreadWritten ==
  \A n \in 0..STREAM_BUF_SIZE-1 :
    n < count => data[(tail + n) % STREAM_BUF_SIZE] \in Byte

OnlyReadsDeliver == op # "read" => out = <<>>

IInv == /\ TypeOK /\ CountIsBytes /\ WriteFits /\ ReadFits
        /\ SlotZeroUnread /\ UnreadWritten /\ OnlyReadsDeliver

LEMMA InitIInv == Init => IInv
  <1> SUFFICES ASSUME Init PROVE IInv
    OBVIOUS
  <1> USE StreamAssumption DEF Init, Slots
  <1>1. TypeOK
    BY DEF TypeOK
  <1>2. CountIsBytes
    BY ModSmall DEF CountIsBytes
  <1>3. WriteFits /\ ReadFits /\ UnreadWritten /\ OnlyReadsDeliver
    BY DEF WriteFits, ReadFits, UnreadWritten, OnlyReadsDeliver
  <1>4. SlotZeroUnread
    BY DEF SlotZeroUnread
  <1> QED  BY <1>1, <1>2, <1>3, <1>4 DEF IInv

LEMMA CallsKeepIInv ==
  ASSUME IInv,
         \/ \E b \in Buffers, n \in Lens : CallWrite(b, n)
         \/ WriteReturn
         \/ \E n \in Lens : CallRead(n)
         \/ ReadReturn
         \/ UNCHANGED vars
  PROVE  IInv'
  <1> USE StreamAssumption DEF IInv, stream, vars, Slots
  <1>1. UNCHANGED stream
    BY DEF CallWrite, WriteReturn, CallRead, ReadReturn
  <1>2. TypeOK'
    <2>1. CASE \E b \in Buffers, n \in Lens : CallWrite(b, n)
      <3>1. PICK b \in Buffers, n \in Lens : CallWrite(b, n)
        BY <2>1
      <3>2. /\ op' = "write" /\ buf' = b /\ done' = 0 /\ out' = <<>>
            /\ len' = IF n > STREAM_BUF_SIZE - count THEN STREAM_BUF_SIZE - count ELSE n
        BY <3>1 DEF CallWrite
      <3>3. len' \in Int
        BY <3>2 DEF TypeOK
      <3> QED  BY <1>1, <3>2, <3>3 DEF TypeOK
    <2>2. CASE \E n \in Lens : CallRead(n)
      BY <1>1, <2>2 DEF TypeOK, CallRead
    <2>3. CASE WriteReturn \/ ReadReturn
      <3>1. Return
        BY <2>3 DEF WriteReturn, ReadReturn
      <3> QED  BY <1>1, <3>1 DEF TypeOK, Return
    <2>4. CASE UNCHANGED vars
      BY <2>4 DEF TypeOK
    <2> QED  BY <2>1, <2>2, <2>3, <2>4
  <1>3. CountIsBytes' /\ UnreadWritten'
    BY <1>1 DEF CountIsBytes, UnreadWritten
  <1>4. WriteFits' /\ ReadFits'
    BY <1>1 DEF TypeOK, WriteFits, ReadFits, CallWrite, WriteReturn, CallRead,
                ReadReturn, Return
  <1>5. SlotZeroUnread'
    BY <1>1 DEF SlotZeroUnread, CallWrite, WriteReturn, CallRead, ReadReturn, Return
  <1>6. OnlyReadsDeliver'
    BY DEF OnlyReadsDeliver, CallWrite, WriteReturn, CallRead, ReadReturn, Return
  <1> QED  BY <1>2, <1>3, <1>4, <1>5, <1>6

LEMMA WriteByteKeepsIInv == IInv /\ WriteByte => IInv'
  <1> SUFFICES ASSUME IInv, WriteByte PROVE IInv'
    OBVIOUS
  <1> USE StreamAssumption DEF Slots
  <1>1. /\ count \in 0..STREAM_BUF_SIZE-1 /\ done < len /\ len <= Len(buf)
        /\ buf \in Seq(Byte) /\ head \in Slots /\ tail \in Slots
        /\ done \in Nat /\ len \in Int
        /\ data \in [Slots -> Byte \cup {NUL}]
    BY DEF IInv, TypeOK, WriteFits, WriteByte
  <1>2. buf[done + 1] \in Byte
    BY <1>1
  <1>3. head = IF tail + count < STREAM_BUF_SIZE
               THEN tail + count ELSE tail + count - STREAM_BUF_SIZE
    BY <1>1, SlotAfter DEF IInv, CountIsBytes
  <1>4. TypeOK'
    BY <1>1, <1>2, NextSlotValue DEF IInv, TypeOK, WriteByte
  <1>5. CountIsBytes'
    <2>1. head' = IF head + 1 = STREAM_BUF_SIZE THEN 0 ELSE head + 1
      BY <1>1, NextSlotValue DEF WriteByte
    <2>2. (tail + (count + 1)) % STREAM_BUF_SIZE
            = IF tail + (count + 1) < STREAM_BUF_SIZE THEN tail + (count + 1)
              ELSE tail + (count + 1) - STREAM_BUF_SIZE
      <3>1. count + 1 \in 0..STREAM_BUF_SIZE
        BY <1>1
      <3> QED  BY <1>1, <3>1, SlotAfter
    <2> QED  BY <1>1, <1>3, <2>1, <2>2 DEF CountIsBytes, WriteByte
  <1>6. WriteFits' /\ ReadFits' /\ OnlyReadsDeliver'
    BY <1>1 DEF IInv, TypeOK, WriteFits, ReadFits, OnlyReadsDeliver, WriteByte
  <1>7. SlotZeroUnread'
    BY <1>1, <1>3 DEF IInv, SlotZeroUnread, WriteByte
  <1>8. UnreadWritten'
    <2> SUFFICES ASSUME NEW n \in 0..STREAM_BUF_SIZE-1, n < count + 1
                 PROVE  data'[(tail + n) % STREAM_BUF_SIZE] \in Byte
      BY DEF UnreadWritten, WriteByte
    <2>1. (tail + n) % STREAM_BUF_SIZE \in Slots
      BY <1>1, SlotAfter
    <2>2. CASE n = count
      BY <1>1, <1>2, <2>2 DEF IInv, CountIsBytes, WriteByte
    <2>3. CASE n < count
      <3>1. (tail + n) % STREAM_BUF_SIZE
              = IF tail + n < STREAM_BUF_SIZE THEN tail + n ELSE tail + n - STREAM_BUF_SIZE
        BY <1>1, SlotAfter
      <3>2. (tail + n) % STREAM_BUF_SIZE # head
        BY <1>1, <1>3, <2>3, <3>1
      <3> QED  BY <1>1, <2>1, <2>3, <3>2 DEF IInv, UnreadWritten, WriteByte
    <2> QED  BY <1>1, <2>2, <2>3
  <1> QED  BY <1>4, <1>5, <1>6, <1>7, <1>8 DEF IInv

LEMMA ReadByteKeepsIInv == IInv /\ ReadByte => IInv'
  <1> SUFFICES ASSUME IInv, ReadByte PROVE IInv'
    OBVIOUS
  <1> USE StreamAssumption DEF Slots
  <1>1. /\ count \in 1..STREAM_BUF_SIZE /\ done \in Nat /\ done < len
        /\ head \in Slots /\ tail \in Slots
        /\ data \in [Slots -> Byte \cup {NUL}] /\ data[done] # NL
        /\ UNCHANGED <<data, head>> /\ count' = count - 1 /\ done' = done + 1
    BY DEF IInv, TypeOK, ReadByte, ReadMore
  <1>2. tail' = IF tail + 1 = STREAM_BUF_SIZE THEN 0 ELSE tail + 1
    BY <1>1, NextSlotValue DEF ReadByte
  <1>3. TypeOK'
    BY <1>1, <1>2 DEF IInv, TypeOK, ReadByte
  <1>4. \A n \in 0..STREAM_BUF_SIZE-1 :
           (tail' + n) % STREAM_BUF_SIZE = (tail + (n + 1)) % STREAM_BUF_SIZE
    <2> SUFFICES ASSUME NEW n \in 0..STREAM_BUF_SIZE-1
                 PROVE  (tail' + n) % STREAM_BUF_SIZE = (tail + (n + 1)) % STREAM_BUF_SIZE
      OBVIOUS
    <2>1. tail' \in Slots /\ n \in 0..STREAM_BUF_SIZE /\ n + 1 \in 0..STREAM_BUF_SIZE
      BY <1>1, <1>2
    <2>2. (tail' + n) % STREAM_BUF_SIZE
            = IF tail' + n < STREAM_BUF_SIZE THEN tail' + n ELSE tail' + n - STREAM_BUF_SIZE
      BY <2>1, SlotAfter
    <2>3. (tail + (n + 1)) % STREAM_BUF_SIZE
            = IF tail + (n + 1) < STREAM_BUF_SIZE THEN tail + (n + 1)
              ELSE tail + (n + 1) - STREAM_BUF_SIZE
      BY <1>1, <2>1, SlotAfter
    <2> QED  BY <1>1, <1>2, <2>2, <2>3
  <1>5. CountIsBytes'
    <2>1. head = (tail + count) % STREAM_BUF_SIZE
      BY DEF IInv, CountIsBytes
    <2>2. (tail' + (count - 1)) % STREAM_BUF_SIZE
             = (tail + ((count - 1) + 1)) % STREAM_BUF_SIZE
      BY <1>1, <1>4
    <2>3. (count - 1) + 1 = count
      BY <1>1
    <2> QED  BY <1>1, <2>1, <2>2, <2>3 DEF CountIsBytes
  <1>6. WriteFits' /\ ReadFits' /\ OnlyReadsDeliver'
    BY <1>1 DEF IInv, WriteFits, ReadFits, OnlyReadsDeliver, ReadByte
  <1>7. SlotZeroUnread'
    \* A newline in slot 0 stops a read call before its first byte.
    BY <1>1 DEF IInv, SlotZeroUnread, ReadByte
  <1>8. UnreadWritten'
    <2> SUFFICES ASSUME NEW n \in 0..STREAM_BUF_SIZE-1, n < count - 1
                 PROVE  data[(tail' + n) % STREAM_BUF_SIZE] \in Byte
      BY <1>1 DEF UnreadWritten
    <2>1. n + 1 \in 0..STREAM_BUF_SIZE-1 /\ n + 1 < count
      BY <1>1
    <2>2. data[(tail + (n + 1)) % STREAM_BUF_SIZE] \in Byte
      BY <2>1 DEF IInv, UnreadWritten
    <2> QED  BY <1>4, <2>2
  <1> QED  BY <1>3, <1>5, <1>6, <1>7, <1>8 DEF IInv

LEMMA StepKeepsIInv == IInv /\ [Next]_vars => IInv'
  BY CallsKeepIInv, WriteByteKeepsIInv, ReadByteKeepsIInv DEF Next

LEMMA AlwaysIInv == Spec => []IInv
  BY InitIInv, StepKeepsIInv, PTL DEF Spec
-----------------------------------------------------------------------------
(* stream.c never leaves an index or the count outside the buffer.         *)
THEOREM StreamType == Spec => []TypeOK
  BY AlwaysIInv, PTL DEF IInv

(* stream.h:9-11: the write pointer is count bytes after the read pointer. *)
THEOREM StreamCount == Spec => []CountIsBytes
  BY AlwaysIInv, PTL DEF IInv

(* stream.c:26: the newline test stays inside data, however long the read. *)
THEOREM StreamNewlineTest == Spec => []NewlineTestInBounds
  <1>1. IInv => NewlineTestInBounds
    BY StreamAssumption DEF IInv, TypeOK, ReadFits, NewlineTestInBounds, Slots
  <1> QED  BY <1>1, AlwaysIInv, PTL

(* stream.c:28 delivers no slot that stream.c:13 has not written.          *)
THEOREM StreamOnlyWritten == Spec => []OnlyWrittenBytes
  <1>1. IInv => OnlyWrittenBytes
    <2> SUFFICES ASSUME IInv, NEW i \in 1..count PROVE Queue[i] \in Byte
      BY DEF OnlyWrittenBytes
    <2>1. /\ i - 1 \in 0..STREAM_BUF_SIZE-1 /\ i - 1 < count
          /\ tail + (i - 1) = tail + i - 1
      BY StreamAssumption DEF IInv, TypeOK, Slots
    <2>2. data[(tail + (i - 1)) % STREAM_BUF_SIZE] \in Byte
      BY <2>1 DEF IInv, UnreadWritten
    <2>3. Queue[i] = data[(tail + i - 1) % STREAM_BUF_SIZE]
      BY DEF Queue
    <2> QED  BY <2>1, <2>2, <2>3
  <1> QED  BY <1>1, AlwaysIInv, PTL

(* stream.c:26: once a newline is in slot 0 the stream is never read again *)
(* and that slot is never stored to again.                                 *)
THEOREM StreamNewlineForever == Spec => NewlineInSlotZeroIsForever
  <1>1. IInv /\ [Next]_vars =>
          [data[0] = NL => data'[0] = NL /\ count' >= count /\ tail' = tail]_vars
    <2> SUFFICES ASSUME IInv, Next, data[0] = NL
                 PROVE  data'[0] = NL /\ count' >= count /\ tail' = tail
      OBVIOUS
    <2> USE StreamAssumption DEF Slots
    <2>1. count \in Nat /\ tail \in Slots /\ head \in Slots
          /\ data \in [Slots -> Byte \cup {NUL}] /\ 0 \in Slots
      BY DEF IInv, TypeOK
    <2>2. CASE WriteByte
      <3>1. count \in 0..STREAM_BUF_SIZE-1
        BY <2>1, <2>2 DEF IInv, TypeOK, WriteFits, WriteByte
      <3>2. head = IF tail + count < STREAM_BUF_SIZE
                   THEN tail + count ELSE tail + count - STREAM_BUF_SIZE
        BY <2>1, <3>1, SlotAfter DEF IInv, CountIsBytes
      <3>3. head # 0
        BY <2>1, <3>1, <3>2 DEF IInv, SlotZeroUnread
      <3> QED  BY <2>1, <2>2, <3>3 DEF WriteByte
    <2>3. ~ReadByte
      BY DEF IInv, SlotZeroUnread, ReadByte, ReadMore
    <2>4. CASE UNCHANGED stream
      BY <2>1, <2>4 DEF stream
    <2> QED  BY <2>2, <2>3, <2>4 DEF Next, CallWrite, WriteReturn, CallRead, ReadReturn
  <1> QED  BY <1>1, AlwaysIInv, PTL DEF Spec, NewlineInSlotZeroIsForever
-----------------------------------------------------------------------------
(* Refinement: every step of a stream is a step of ByteQueue or leaves the *)
(* queue, the bytes still to append and the bytes taken as they are.       *)
LEMMA QueueIsSeq ==
  ASSUME TypeOK
  PROVE  Queue \in Seq(Byte \cup {NUL}) /\ Len(Queue) = count
  <1>1. \A i \in 1..count : data[(tail + i - 1) % STREAM_BUF_SIZE] \in Byte \cup {NUL}
    <2> SUFFICES ASSUME NEW i \in 1..count
                 PROVE  data[(tail + i - 1) % STREAM_BUF_SIZE] \in Byte \cup {NUL}
      OBVIOUS
    <2>1. i - 1 \in 0..STREAM_BUF_SIZE /\ tail + (i - 1) = tail + i - 1
      BY StreamAssumption DEF TypeOK, Slots
    <2>2. (tail + (i - 1)) % STREAM_BUF_SIZE \in Slots
      BY <2>1, SlotAfter DEF TypeOK
    <2> QED  BY <2>1, <2>2 DEF TypeOK
  <1>2. Queue \in [1..count -> Byte \cup {NUL}] /\ count \in Nat
    BY <1>1 DEF Queue, TypeOK
  <1> QED  BY <1>2

LEMMA PrefixOfPrefix ==
  ASSUME NEW S, NEW s \in Seq(S), NEW n \in 0..Len(s), NEW m \in 0..n
  PROVE  SubSeq(SubSeq(s, 1, n), 1, m) = SubSeq(s, 1, m)
  OBVIOUS

LEMMA EmptyPrefix ==
  ASSUME NEW S, NEW s \in Seq(S), NEW n \in Int, n < 1
  PROVE  SubSeq(s, 1, n) = <<>>
  OBVIOUS

LEMMA FrontOfRest ==
  ASSUME NEW S, NEW s \in Seq(S), NEW i \in 1..Len(s), NEW n \in i..Len(s)
  PROVE  /\ SubSeq(s, i, n) # <<>>
         /\ Head(SubSeq(s, i, n)) = s[i]
         /\ Tail(SubSeq(s, i, n)) = SubSeq(s, i + 1, n)
  OBVIOUS

LEMMA OfferStep ==
  ASSUME IInv, NEW b \in Buffers, NEW n \in Lens, CallWrite(b, n)
  PROVE  BQ!Offer(SubSeq(b, 1, IF n < 0 THEN 0 ELSE n))
         /\ SubSeq(b, 1, IF n < 0 THEN 0 ELSE n) \in Buffers
  <1> USE StreamAssumption
  <1> DEFINE k == IF n < 0 THEN 0 ELSE n
             c == SubSeq(b, 1, k)
             room == STREAM_BUF_SIZE - count
  <1>1. /\ b \in Seq(Byte) /\ n \in Int /\ n <= Len(b) /\ k \in 0..Len(b)
        /\ count \in 0..STREAM_BUF_SIZE /\ room \in Nat
    BY DEF IInv, TypeOK, CallWrite
  <1>2. c \in Seq(Byte) /\ Len(c) = k /\ c \in Buffers
    BY <1>1
  <1>3. Len(Queue) = count
    BY QueueIsSeq DEF IInv
  <1>4. /\ op = "idle" /\ op' = "write" /\ buf' = b /\ done' = 0
        /\ out = <<>> /\ out' = <<>> /\ UNCHANGED stream
        /\ len' = IF n > room THEN room ELSE n
    BY DEF IInv, OnlyReadsDeliver, CallWrite
  <1>5. Pending' = SubSeq(b, 1, len')
    BY <1>4 DEF Pending
  <1>6. SubSeq(b, 1, len') = SubSeq(c, 1, IF Len(c) > room THEN room ELSE Len(c))
    <2>1. CASE n < 0
      <3>1. len' = n /\ k = 0
        BY <1>1, <1>4, <2>1
      <3>2. SubSeq(b, 1, n) = <<>> /\ c = <<>>
        BY <1>1, <2>1, <3>1, EmptyPrefix
      <3>3. SubSeq(c, 1, 0) = <<>>
        BY <1>2, EmptyPrefix
      <3>4. (IF Len(c) > room THEN room ELSE Len(c)) = 0
        BY <1>1, <1>2, <3>1
      <3> QED  BY <3>1, <3>2, <3>3, <3>4
    <2>2. CASE n >= 0 /\ n > room
      <3>1. len' = room /\ k = n /\ n \in 0..Len(b) /\ room \in 0..n
        BY <1>1, <1>4, <2>2
      <3>2. SubSeq(SubSeq(b, 1, n), 1, room) = SubSeq(b, 1, room)
        BY <1>1, <3>1, PrefixOfPrefix
      <3>3. Len(c) = n /\ (IF Len(c) > room THEN room ELSE Len(c)) = room
        BY <1>2, <2>2, <3>1
      <3> QED  BY <3>1, <3>2, <3>3
    <2>3. CASE n >= 0 /\ n <= room
      <3>1. len' = n /\ k = n /\ n \in 0..Len(b) /\ n \in 0..n /\ ~(n > room)
        BY <1>1, <1>4, <2>3
      <3>2. SubSeq(SubSeq(b, 1, n), 1, n) = SubSeq(b, 1, n)
        BY <1>1, <3>1, PrefixOfPrefix
      <3>3. Len(c) = n /\ (IF Len(c) > room THEN room ELSE Len(c)) = n
        BY <1>2, <3>1
      <3> QED  BY <3>1, <3>2, <3>3
    <2>4. n < 0 \/ (n >= 0 /\ n > room) \/ (n >= 0 /\ n <= room)
      BY <1>1
    <2> HIDE DEF c, k, room
    <2> QED  BY <2>1, <2>2, <2>3, <2>4, Zenon
  <1>7. Pending = <<>> /\ Queue' = Queue
    BY <1>4 DEF Pending, Queue, stream
  <1> QED  BY <1>2, <1>3, <1>4, <1>5, <1>6, <1>7 DEF BQ!Offer, BQ!Free

LEMMA PutStep ==
  ASSUME IInv, IInv', WriteByte
  PROVE  BQ!Put
  <1> USE StreamAssumption
  <1>1. /\ count \in 0..STREAM_BUF_SIZE-1 /\ done < len /\ len <= Len(buf)
        /\ buf \in Seq(Byte) /\ done \in Nat /\ len \in Int
        /\ tail \in Slots /\ head \in Slots /\ data \in [Slots -> Byte \cup {NUL}]
        /\ count' = count + 1 /\ done' = done + 1
        /\ UNCHANGED <<tail, op, buf, len, out>> /\ op = "write"
    BY DEF IInv, TypeOK, WriteFits, WriteByte
  <1>2. /\ Pending # <<>> /\ Head(Pending) = buf[done + 1]
        /\ Pending' = Tail(Pending)
    <2>1. Pending = SubSeq(buf, done + 1, len)
      BY <1>1 DEF Pending
    <2>2. Pending' = SubSeq(buf, (done + 1) + 1, len)
      BY <1>1 DEF Pending
    <2>3. done + 1 \in 1..Len(buf) /\ len \in done + 1..Len(buf)
      BY <1>1
    <2> QED  BY <1>1, <2>1, <2>2, <2>3, FrontOfRest
  <1>3. Queue \in Seq(Byte \cup {NUL}) /\ Len(Queue) = count
    BY QueueIsSeq DEF IInv
  <1>4. ASSUME NEW i \in 1..count
        PROVE  Queue'[i] = Queue[i]
    <2>1. /\ i - 1 \in 0..STREAM_BUF_SIZE /\ count \in 0..STREAM_BUF_SIZE
          /\ tail + (i - 1) = tail + i - 1
      BY <1>1
    <2>2. (tail + (i - 1)) % STREAM_BUF_SIZE
            = IF tail + (i - 1) < STREAM_BUF_SIZE
              THEN tail + (i - 1) ELSE tail + (i - 1) - STREAM_BUF_SIZE
      BY <1>1, <2>1, SlotAfter
    <2>3. head = IF tail + count < STREAM_BUF_SIZE
                 THEN tail + count ELSE tail + count - STREAM_BUF_SIZE
      BY <1>1, <2>1, SlotAfter DEF IInv, CountIsBytes
    <2>4. (tail + (i - 1)) % STREAM_BUF_SIZE # head
      BY <1>1, <2>1, <2>2, <2>3 DEF Slots
    <2>5. (tail + (i - 1)) % STREAM_BUF_SIZE \in Slots
      BY <1>1, <2>1, SlotAfter
    <2>6. data'[(tail + i - 1) % STREAM_BUF_SIZE] = data[(tail + i - 1) % STREAM_BUF_SIZE]
      BY <1>1, <2>1, <2>4, <2>5 DEF WriteByte
    <2> QED  BY <1>1, <2>6 DEF Queue
  <1>5. Queue'[count + 1] = buf[done + 1]
    <2>1. tail + (count + 1) - 1 = tail + count
      BY <1>1 DEF Slots
    <2>2. Queue'[count + 1] = data'[(tail + count) % STREAM_BUF_SIZE]
      BY <1>1, <2>1 DEF Queue
    <2>3. (tail + count) % STREAM_BUF_SIZE = head
      BY DEF IInv, CountIsBytes
    <2> QED  BY <1>1, <2>2, <2>3 DEF WriteByte
  <1>6. Queue' \in Seq(Byte \cup {NUL}) /\ Len(Queue') = count + 1
    <2>1. TypeOK'
      BY DEF IInv
    <2>2. (TypeOK => Queue \in Seq(Byte \cup {NUL}) /\ Len(Queue) = count)'
      BY QueueIsSeq, PTL
    <2> QED  BY <1>1, <2>1, <2>2
  <1>7. Queue' = Append(Queue, buf[done + 1])
    BY <1>1, <1>3, <1>4, <1>5, <1>6
  <1> QED  BY <1>1, <1>2, <1>7 DEF BQ!Put

LEMMA TakeStep ==
  ASSUME IInv, IInv', ReadByte
  PROVE  BQ!Take
  <1> USE StreamAssumption
  <1>1. /\ count \in 1..STREAM_BUF_SIZE /\ op = "read" /\ op' = "read"
        /\ tail \in Slots /\ UNCHANGED data /\ tail' = NextSlot(tail)
        /\ count' = count - 1 /\ out' = Append(out, data[tail])
    BY DEF IInv, TypeOK, ReadByte, ReadMore
  <1>2. Pending = <<>> /\ Pending' = <<>>
    BY <1>1 DEF Pending
  <1>3. Queue \in Seq(Byte \cup {NUL}) /\ Len(Queue) = count
    BY QueueIsSeq DEF IInv
  <1>4. Queue' \in Seq(Byte \cup {NUL}) /\ Len(Queue') = count - 1
    <2>1. TypeOK'
      BY DEF IInv
    <2>2. (TypeOK => Queue \in Seq(Byte \cup {NUL}) /\ Len(Queue) = count)'
      BY QueueIsSeq, PTL
    <2> QED  BY <1>1, <2>1, <2>2
  <1>5. Queue[1] = data[tail]
    <2>1. tail + 1 - 1 = tail /\ tail % STREAM_BUF_SIZE = tail
      BY <1>1, ModSmall DEF Slots
    <2> QED  BY <1>1, <2>1 DEF Queue
  <1>6. ASSUME NEW i \in 1..count-1
        PROVE  Queue'[i] = Queue[i + 1]
    <2>1. tail' = IF tail + 1 = STREAM_BUF_SIZE THEN 0 ELSE tail + 1
      BY <1>1, NextSlotValue
    <2>2. /\ i - 1 \in 0..STREAM_BUF_SIZE /\ i \in 0..STREAM_BUF_SIZE
          /\ tail' \in Slots /\ tail' + (i - 1) = tail' + i - 1
          /\ tail + i = tail + (i + 1) - 1
      BY <1>1, <2>1 DEF Slots
    <2>3. (tail' + (i - 1)) % STREAM_BUF_SIZE
            = IF tail' + (i - 1) < STREAM_BUF_SIZE
              THEN tail' + (i - 1) ELSE tail' + (i - 1) - STREAM_BUF_SIZE
      BY <2>2, SlotAfter
    <2>4. (tail + i) % STREAM_BUF_SIZE
            = IF tail + i < STREAM_BUF_SIZE THEN tail + i ELSE tail + i - STREAM_BUF_SIZE
      BY <1>1, <2>2, SlotAfter
    <2>5. (tail' + (i - 1)) % STREAM_BUF_SIZE = (tail + i) % STREAM_BUF_SIZE
      BY <1>1, <2>1, <2>2, <2>3, <2>4 DEF Slots
    <2>6. Queue'[i] = data[(tail' + i - 1) % STREAM_BUF_SIZE]
      BY <1>1 DEF Queue
    <2>7. Queue[i + 1] = data[(tail + (i + 1) - 1) % STREAM_BUF_SIZE]
      BY <1>1 DEF Queue
    <2> QED  BY <2>2, <2>5, <2>6, <2>7
  <1>7. Tail(Queue) \in Seq(Byte \cup {NUL}) /\ Len(Tail(Queue)) = count - 1
        /\ \A i \in 1..count-1 : Tail(Queue)[i] = Queue[i + 1]
    BY <1>1, <1>3
  <1>8. Queue' = Tail(Queue)
    BY <1>1, <1>4, <1>6, <1>7
  <1>9. Queue # <<>> /\ Head(Queue) = data[tail]
    BY <1>1, <1>3, <1>5
  <1> QED  BY <1>1, <1>2, <1>8, <1>9 DEF BQ!Take

(* What stream_write and stream_read do to a stream is what a bounded      *)
(* first-in first-out queue does: no byte is lost, repeated, reordered or  *)
(* made up, whatever the lengths of the calls and wherever the pointers    *)
(* wrap around.                                                            *)
THEOREM StreamIsQueue == Spec => ImplementsQueue
  <1> USE DEF BQ!qvars
  <1>1. Init => BQ!Init
    BY DEF Init, BQ!Init, Queue, Pending
  <1>2. IInv /\ IInv' /\ [Next]_vars => [BQ!Next]_(BQ!qvars)
    <2> SUFFICES ASSUME IInv, IInv', [Next]_vars
                 PROVE  [BQ!Next]_(BQ!qvars)
      OBVIOUS
    <2>1. CASE \E b \in Buffers, n \in Lens : CallWrite(b, n)
      BY <2>1, OfferStep DEF BQ!Next
    <2>2. CASE WriteByte
      BY <2>2, PutStep DEF BQ!Next
    <2>3. CASE WriteReturn
      <3>1. /\ Pending' = <<>> /\ Queue' = Queue
            /\ out = <<>> /\ out' = <<>>
        BY <2>3 DEF IInv, OnlyReadsDeliver, WriteReturn, Return, stream, Pending, Queue
      <3>2. Pending = <<>>
        <4>1. SubSeq(buf, done + 1, len) = <<>>
          BY <2>3 DEF IInv, TypeOK, WriteReturn
        <4> QED  BY <2>3, <4>1 DEF Pending, WriteReturn
      <3> QED  BY <3>1, <3>2
    <2>4. CASE \E n \in Lens : CallRead(n)
      BY <2>4 DEF IInv, OnlyReadsDeliver, CallRead, stream, Pending, Queue
    <2>5. CASE ReadByte
      BY <2>5, TakeStep DEF BQ!Next
    <2>6. CASE ReadReturn
      <3>1. /\ Pending = <<>> /\ Pending' = <<>> /\ Queue' = Queue /\ out' = <<>>
        BY <2>6 DEF ReadReturn, Return, stream, Pending, Queue
      <3> QED  BY <3>1 DEF BQ!Next, BQ!Deliver
    <2>7. CASE UNCHANGED vars
      BY <2>7 DEF vars, Queue, Pending
    <2> QED  BY <2>1, <2>2, <2>3, <2>4, <2>5, <2>6, <2>7 DEF Next
  <1> QED  BY <1>1, <1>2, AlwaysIInv, PTL DEF Spec, ImplementsQueue, BQ!Spec
==============================================================================
