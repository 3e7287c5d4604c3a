--------------------------- MODULE ConsoleHistory ---------------------------
(***************************************************************************)
(* Console with two history variables: what the streams were given and     *)
(* what came out of them.                                                  *)
(***************************************************************************)
EXTENDS Console

VARIABLES
  accepted,   (* per stream: the bytes stream_write stored in it           *)
  handled     (* per stream: the bytes sh_render showed or SYS_READ        *)
              (* delivered                                                 *)

hvars == <<vars, accepted, handled>>

HInit ==
  /\ Init
  /\ accepted = [s \in Streams |-> <<>>]
  /\ handled = [s \in Streams |-> <<>>]

\* The context that executes.
Active == IF frame["irq"].pc # "idle" THEN "irq" ELSE "main"

Stored(c)    == IF StoreByte(c) THEN <<F(c).buf[F(c).done + 1]>> ELSE <<>>
Shown(c)     == IF CarriageReturn(c) \/ LineFeed(c) \/ Paint(c)
                  THEN <<Head(F(c).out)>> ELSE <<>>
Delivered(c) == IF Deliver(c) THEN F(c).out ELSE <<>>

\* Only the running context can store, show or deliver.
HNext ==
  /\ Next
  /\ LET c == Active
         Add(log, bytes) ==
           IF bytes = <<>> THEN log ELSE [log EXCEPT ![F(c).s] = @ \o bytes]
     IN  /\ accepted' = Add(accepted, Stored(c))
         /\ handled' = Add(handled, Shown(c) \o Delivered(c))

HSpec == HInit /\ [][HNext]_hvars

Slice(data, t, n) == [i \in 1..n |-> data[(t + i - 1) % STREAM_BUF_SIZE]]
Queue(s) == Slice(streams[s].data, streams[s].tail, streams[s].count)

(* stream.h:9-11, shell.c:60-112: when no call is executing, every byte a  *)
(* stream accepted was shown or delivered, once and in order, or is still  *)
(* queued in it.                                                           *)
Conserved ==
  Quiescent => \A s \in Streams : accepted[s] = handled[s] \o Queue(s)
-----------------------------------------------------------------------------
(* A stream as a ByteQueue.  A byte is stored, or taken, some steps before *)
(* tail and count say so: Line is the queue that they are going to say.    *)
HasStored == {"head", "head2", "count", "count2"}
HasTaken  == {"tail", "tail2", "dec", "dec2"}
On(c, s, pcs) == frame[c].s = s /\ frame[c].pc \in pcs

TailOf(c, s) ==
  IF On(c, s, {"tail", "tail2"}) THEN NextSlot(streams[s].tail) ELSE streams[s].tail
CountOf(c, s) ==
  IF On(c, s, HasStored) THEN streams[s].count + 1
  ELSE IF On(c, s, HasTaken) THEN streams[s].count - 1 ELSE streams[s].count
Line(c, s) == Slice(streams[s].data, TailOf(c, s), CountOf(c, s))

\* What stream_write has still to store, and what stream_read has taken.
Unwritten(c, s) ==
  IF On(c, s, Writing)
    THEN SubSeq(F(c).buf, F(c).done + (IF F(c).pc \in HasStored THEN 2 ELSE 1), F(c).len)
    ELSE <<>>
Received(c, s) == IF On(c, s, {"read", "take"} \cup HasTaken) THEN F(c).out ELSE <<>>

Offered ==
  {<<b>> : b \in Byte}
    \cup UNION {{SubSeq(b, 1, n) : n \in {m \in Lens : m <= Len(b)}} : b \in Buffers}

BQ(s) == INSTANCE ByteQueue WITH
  Buffers <- Offered, Capacity <- STREAM_BUF_SIZE, queue <- Line(Active, s),
  pending <- Unwritten(Active, s), got <- Received(Active, s)

(* stream.c:3-34 under its callers in shell.c and syscalls.c: each of the  *)
(* three streams is a bounded queue.  What a call appends is the front of  *)
(* its buffer, no more than fits, in order; what a call takes comes off    *)
(* the front of the queue, each byte once.                                 *)
StreamsAreQueues ==
  /\ \A s \in Streams : BQ(s)!Init
  /\ [][\A s \in Streams : [BQ(s)!Next]_(BQ(s)!qvars)]_vars
=============================================================================
