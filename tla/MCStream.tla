------------------------------ MODULE MCStream ------------------------------
(* Instance of Stream for TLC: every buffer of up to MaxLen bytes.         *)
EXTENDS Stream
CONSTANT MaxLen
MCBuffers == UNION {[1..n -> Byte] : n \in 0..MaxLen}
MCLens == -1..MaxLen
==============================================================================
