------------------------------- MODULE Formats ------------------------------
(***************************************************************************)
(* What sh_printf prints, computed from the format and its arguments.      *)
(***************************************************************************)
EXTENDS Printf

\* The numerals in base b, without leading zeros.
InBase(b) ==
  LET numeral[n \in Number] ==
        IF n < b THEN <<Digits[n + 1]>>
                 ELSE Append(numeral[n \div b], Digits[(n % b) + 1])
  IN  numeral
Decimal(i) == IF i < 0 THEN <<"-">> \o InBase(10)[-i] ELSE InBase(10)[i]

Said(c, a) ==
  CASE c = "s" -> IF a = NullString THEN NullText ELSE a
    [] c = "c" -> <<a>>
    [] c = "x" -> InBase(16)[a]
    [] c = "p" -> <<"0", "x">> \o InBase(16)[a]
    [] c \in {"d", "u"} -> Decimal(Signed(a))

\* text[i][k]: the format from place i on, with k arguments used before it.
Text(f, a) ==
  LET piece(i, k) == IF Converts(f, i) THEN Said(f[i + 2], a[k + 1]) ELSE <<f[i + 1]>>
      text[i \in Nat] == [k \in Nat |->
        IF i >= Len(f) THEN <<>>
                       ELSE piece(i, k) \o text[i + Extent(f, i)][k + Uses(f, i)]]
  IN  text[0][0]

\* A newline blocks the stream: what comes before it was drawn, or nothing.
CutShort(shown, text) ==
  /\ IsPrefix(shown, text)
  /\ shown # <<>> => Len(shown) < Len(text) /\ text[Len(shown) + 1] = NL

(* shell.c:140-244: when sh_printf returns, it has printed what the format *)
(* says: numerals to their last digit and without leading zeros, for every *)
(* value, the most negative one and zero included (an unsigned number is   *)
(* printed as the int with the same bits), and sh_write_stream has printed *)
(* what the stream kept.  But a newline may block the stream (stream.c:26),*)
(* and nothing of a later call is printed.                                 *)
PrintsWhatItSays == pc = "idle" =>
  LET text == Text(call.fmt, call.args) IN
  CASE stream \in silent            -> out = <<>>
    [] stream \in blocked \ silent -> CutShort(out, text)
    [] OTHER                        -> out = text
=============================================================================
