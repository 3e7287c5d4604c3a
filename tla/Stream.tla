------------------------------- MODULE Stream -------------------------------
(***************************************************************************)
(* system/shell/stream.c: one basic_stream_t and the calls made on it, one *)
(* at a time (the module Console interleaves calls).  A step is one        *)
(* iteration of a call's while loop, its entry or its return.              *)
(***************************************************************************)
EXTENDS Integers, Sequences

CONSTANTS
  Byte,             (* the bytes callers write                             *)
  NL,               (* '\n'                                                *)
  NUL,              (* the byte in a slot that was never written           *)
  STREAM_BUF_SIZE,
  Buffers,          (* the contents of the buffers callers pass to write   *)
  Lens              (* the len arguments callers pass: an int, any sign    *)

ASSUME StreamAssumption ==
  /\ STREAM_BUF_SIZE \in Nat \ {0}
  /\ NL \in Byte /\ NUL \notin Byte
  /\ Buffers \subseteq Seq(Byte)
  /\ Lens \subseteq Int
  /\ \A b \in Buffers : \A n \in 0..Len(b) : SubSeq(b, 1, n) \in Buffers

VARIABLES
  data, head, tail, count,   (* the fields of basic_stream_t               *)
  op,                        (* the call in progress                       *)
  buf, len,                  (* its arguments; len after stream_write's    *)
                             (* clipping                                   *)
  done,                      (* its loop variable: written or read         *)
  out                        (* what stream_read has stored for its caller *)

stream == <<data, head, tail, count>>
call   == <<op, buf, len, done, out>>
vars   == <<data, head, tail, count, op, buf, len, done, out>>

Slots == 0..STREAM_BUF_SIZE-1
NextSlotNoWrap(i) == i + 1
NextSlot(i) == (i + 1) % STREAM_BUF_SIZE

Init ==
  /\ data = [i \in Slots |-> NUL]
  /\ head = 0 /\ tail = 0 /\ count = 0
  /\ op = "idle" /\ buf = <<>> /\ len = 0 /\ done = 0 /\ out = <<>>

Return == op' = "idle" /\ buf' = <<>> /\ len' = 0 /\ done' = 0 /\ out' = <<>>

\* stream_write is entered and clips len to the room there is.
CallWrite(b, n) ==
  /\ op = "idle"
  /\ n <= Len(b)
  /\ op' = "write" /\ buf' = b /\ done' = 0 /\ out' = <<>>
  /\ len' = IF n > STREAM_BUF_SIZE - count THEN STREAM_BUF_SIZE - count ELSE n
  /\ UNCHANGED stream

\* Mutant of WriteByte: count is not updated.
WriteByteUncounted ==
  /\ op = "write" /\ done < len
  /\ data' = [data EXCEPT ![head] = buf[done + 1]]
  /\ head' = NextSlot(head)
  /\ done' = done + 1
  /\ UNCHANGED <<count, tail, op, buf, len, out>>

WriteByte ==
  /\ op = "write" /\ done < len
  /\ data' = [data EXCEPT ![head] = buf[done + 1]]
  /\ head' = NextSlot(head)
  /\ count' = count + 1
  /\ done' = done + 1
  /\ UNCHANGED <<tail, op, buf, len, out>>

\* Mutant of WriteReturn: a short write waits for room.
WriteReturnSpins ==
  /\ op = "write" /\ done >= len
  /\ IF done < Len(buf) /\ count = STREAM_BUF_SIZE
       THEN UNCHANGED vars
       ELSE Return /\ UNCHANGED stream

WriteReturn == op = "write" /\ done >= len /\ Return /\ UNCHANGED stream

CallRead(n) ==
  /\ op = "idle"
  /\ op' = "read" /\ buf' = <<>> /\ len' = n /\ done' = 0 /\ out' = <<>>
  /\ UNCHANGED stream

\* Mutant of ReadMore: the test looks at the next unread byte.
ReadMoreAtTail == done < len /\ count > 0 /\ data[tail] # NL

\* The loop's condition and the test that breaks out of it.  The test looks
\* at slot number done, wherever the unread bytes are.
ReadMore == done < len /\ count > 0 /\ data[done] # NL

\* Mutants of ReadByte: count is not updated; the byte comes from slot done.
ReadByteUncounted ==
  /\ op = "read" /\ ReadMore
  /\ out' = Append(out, data[tail])
  /\ tail' = NextSlot(tail)
  /\ done' = done + 1
  /\ UNCHANGED <<count, data, head, op, buf, len>>

ReadByteAtDone ==
  /\ op = "read" /\ ReadMore
  /\ out' = Append(out, data[done])
  /\ tail' = NextSlot(tail)
  /\ count' = count - 1
  /\ done' = done + 1
  /\ UNCHANGED <<data, head, op, buf, len>>

ReadByte ==
  /\ op = "read" /\ ReadMore
  /\ out' = Append(out, data[tail])
  /\ tail' = NextSlot(tail)
  /\ count' = count - 1
  /\ done' = done + 1
  /\ UNCHANGED <<data, head, op, buf, len>>

ReadReturn == op = "read" /\ ~ReadMore /\ Return /\ UNCHANGED stream

Next ==
  \/ \E b \in Buffers, n \in Lens : CallWrite(b, n)
  \/ WriteByte \/ WriteReturn
  \/ \E n \in Lens : CallRead(n)
  \/ ReadByte \/ ReadReturn

\* A call that was made runs to its return; nobody has to make one.
Fairness == WF_vars(WriteByte \/ WriteReturn \/ ReadByte \/ ReadReturn)

Spec == Init /\ [][Next]_vars
FairSpec == Spec /\ Fairness
-----------------------------------------------------------------------------
(* The queue of bytes that the fields stand for, and what is left of the   *)
(* buffer that the write call in progress is storing.                      *)
Queue   == [i \in 1..count |-> data[(tail + i - 1) % STREAM_BUF_SIZE]]
Pending == IF op = "write" THEN SubSeq(buf, done + 1, len) ELSE <<>>

TypeOK ==
  /\ data \in [Slots -> Byte \cup {NUL}]
  /\ head \in Slots /\ tail \in Slots
  /\ count \in 0..STREAM_BUF_SIZE
  /\ op \in {"idle", "write", "read"}
  /\ buf \in Buffers \cup {<<>>}
  /\ len \in Int /\ done \in Nat
  /\ out \in Seq(Byte \cup {NUL})

(* stream.h:9-11 gives the three fields their meaning.  They are redundant *)
(* and every iteration updates two of them: count bytes after the read     *)
(* pointer comes the write pointer, also when the buffer is full or empty. *)
CountIsBytes == head = (tail + count) % STREAM_BUF_SIZE

(* stream.c:26 indexes data with the number of bytes read so far, which no *)
(* guard bounds by STREAM_BUF_SIZE: a call may ask for more than that.     *)
(* The bytes left in the stream are what bounds it.                        *)
NewlineTestInBounds == op = "read" /\ done < len /\ count > 0 => done \in Slots

(* Every byte still in the queue was written by a caller: a slot that was  *)
(* never written is never delivered.                                       *)
OnlyWrittenBytes == \A i \in 1..count : Queue[i] \in Byte

(* The newline test of stream.c:26 looks at slot 0 first.  Once a newline  *)
(* has been stored there no call, however many are made, delivers a byte   *)
(* of this stream or stores over that slot: the stream only fills up.      *)
NewlineInSlotZeroIsForever ==
  [][data[0] = NL => data'[0] = NL /\ count' >= count /\ tail' = tail]_vars

(* Every call returns, whatever len it was given.                          *)
CallReturns == op # "idle" ~> op = "idle"

(* stream.h:10 calls tail the read pointer: a reader that stops with bytes *)
(* left does so in front of a newline, the byte at tail.                   *)
StopsAtUnreadNewline ==
  [][op = "read" /\ op' = "idle" /\ done < len /\ count > 0 => data[tail] = NL]_vars

(* The stream is a bounded first-in first-out queue of bytes.              *)
BQ == INSTANCE ByteQueue WITH
        Byte <- Byte \cup {NUL}, Capacity <- STREAM_BUF_SIZE,
        queue <- Queue, pending <- Pending, got <- out
ImplementsQueue == BQ!Spec
==============================================================================
