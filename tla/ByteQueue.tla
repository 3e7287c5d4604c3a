------------------------------ MODULE ByteQueue ------------------------------
(***************************************************************************)
(* What a basic_stream_t promises to the callers of stream_write and       *)
(* stream_read: a first-in first-out queue of at most Capacity bytes.  A   *)
(* write call is offered a buffer, keeps as much of its front as fits and  *)
(* appends that, in order; a read call takes bytes off the front, in       *)
(* order, for its caller.  No byte is lost, repeated or reordered.         *)
(***************************************************************************)
EXTENDS Integers, Sequences

CONSTANTS
  Byte,      (* what a queue holds                                         *)
  Buffers,   (* the buffers callers offer, sequences of Byte               *)
  Capacity   (* the most bytes held at once, a positive number             *)

VARIABLES
  queue,     (* the bytes held, oldest first                               *)
  pending,   (* the bytes the write call in progress still has to append   *)
  got        (* the bytes the read call in progress has taken              *)

qvars == <<queue, pending, got>>

Free == Capacity - Len(queue)

Init == queue = <<>> /\ pending = <<>> /\ got = <<>>

\* A write call begins: what does not fit is refused at once.
Offer(b) ==
  /\ pending = <<>> /\ got = <<>>
  /\ pending' = SubSeq(b, 1, IF Len(b) > Free THEN Free ELSE Len(b))
  /\ UNCHANGED <<queue, got>>

Put ==
  /\ pending # <<>>
  /\ queue' = Append(queue, Head(pending))
  /\ pending' = Tail(pending)
  /\ UNCHANGED got

Take ==
  /\ pending = <<>>
  /\ queue # <<>>
  /\ got' = Append(got, Head(queue))
  /\ queue' = Tail(queue)
  /\ UNCHANGED pending

\* A read call returns: its caller owns what was taken.
Deliver == pending = <<>> /\ got' = <<>> /\ UNCHANGED <<queue, pending>>

Next == (\E b \in Buffers : Offer(b)) \/ Put \/ Take \/ Deliver

Spec == Init /\ [][Next]_qvars
==============================================================================
