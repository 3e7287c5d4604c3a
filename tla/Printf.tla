------------------------------- MODULE Printf -------------------------------
(***************************************************************************)
(* sh_printf, sh_puts and sh_putint, which write to stdout a character at  *)
(* a time, and texts that programs write at once, on the screen.  Nothing  *)
(* interrupts a call, so every stream is empty when one begins, and what   *)
(* is written to it is drawn before the call returns, unless the stream is *)
(* blocked: once a newline is stored in slot 0 of its data, stream_read    *)
(* delivers nothing any more (NewlineInSlotZeroIsForever in module Stream).*)
(* Characters are strings of length 1 and formats are sequences of them.   *)
(***************************************************************************)
EXTENDS Screen, SequencesExt

CONSTANTS
  WORD,             (* int and unsigned int have WORD values               *)
  BUFFER,           (* sizeof(buffer) in sh_putint                         *)
  Calls,            (* the formats used, each with its arguments: strings, *)
                    (* characters, or numbers in 0..WORD-1                 *)
  NullString,       (* the string argument that is a null pointer          *)
  Texts,            (* what programs write at once                         *)
  STREAM_BUF_SIZE,
  MaxCalls          (* bound: the calls made                               *)

Digits == <<"0", "1", "2", "3", "4", "5", "6", "7", "8", "9", "a", "b", "c", "d", "e", "f">>
Number == 0..WORD-1

Conversions == {"s", "c", "d", "u", "x", "p"}

(* The pieces of a format, each by the number of characters before it: a   *)
(* conversion or `%%', which are two characters long, or a character.      *)
Converts(f, i) == f[i + 1] = "%" /\ f[i + 2] \in Conversions
Extent(f, i) == IF f[i + 1] = "%" /\ f[i + 2] \in Conversions \cup {"%"} THEN 2 ELSE 1
Uses(f, i) == IF Converts(f, i) THEN 1 ELSE 0

\* What the arguments are, by their conversion.
Fitting(letter) ==
  CASE letter = "s" -> Seq(Char) \cup {NullString}
    [] letter = "c" -> Char
    [] OTHER -> Number

(* plan says for each place of the format that a piece begins at, how many *)
(* arguments are used before it; -1 at the others.  The arguments fit, and *)
(* no format ends in `%': the code would go on behind the end of it.       *)
IsPlan(c, plan) ==
  /\ plan[0] = 0
  /\ \A i \in 0..Len(c.fmt)-1 : plan[i] # -1 =>
       /\ c.fmt[i + 1] = "%" => i + 1 < Len(c.fmt)
       /\ Converts(c.fmt, i) =>
            plan[i] < Len(c.args) /\ c.args[plan[i] + 1] \in Fitting(c.fmt[i + 2])
       /\ Extent(c.fmt, i) = 2 => plan[i + 1] = -1
       /\ plan[i + Extent(c.fmt, i)] = plan[i] + Uses(c.fmt, i)
Plans(c) == {plan \in [0..Len(c.fmt) -> -1..Len(c.args)] : IsPlan(c, plan)}

Callable(c) ==
  /\ c.fmt \in Seq(Char)
  /\ Len(c.args) \in Nat /\ c.args = [i \in 1..Len(c.args) |-> c.args[i]]
  /\ Plans(c) # {}

(* The buffer has room for every number.  (The third line is true of all   *)
(* numbers; the proofs need it.)                                           *)
ASSUME PrintfAssumption ==
  /\ WORD \in Nat \ {0, 1} /\ BUFFER \in Nat \ {0}
  /\ 10^(BUFFER - 1) >= WORD
  /\ 10^0 = 1 /\ \A k \in 0..BUFFER-1 : 10^k \in Nat /\ 10^(k + 1) = 10 * 10^k
  /\ \A c \in Calls : Callable(c)
  /\ {Digits[i] : i \in 1..16} \cup {"-", "%", "x", "s", "n", "u", "l", "(", ")"} \subseteq Char
  /\ Texts \subseteq Seq(Char) /\ NullString \notin Seq(Char)
  /\ STREAM_BUF_SIZE \in Nat \ {0} /\ MaxCalls \in Nat

VARIABLES
  call,                   (* the call in progress, or the last one         *)
  pc, fmt, args,          (* sh_printf: what is left of both               *)
  str,                    (* sh_puts: what is left of the string           *)
  value, base,            (* sh_putint's arguments                         *)
  uvalue, buffer,         (* and its variables                             *)
  slot,                   (* of each stream: head and tail, while it is    *)
                          (* empty                                         *)
  blocked,                (* the streams with a newline in slot 0          *)
  stream, silent,         (* the stream the call writes to, and those that *)
                          (* were blocked when it began                    *)
  sent, out,              (* what it has written, and what of it was drawn *)
  made                    (* the number of calls                           *)

number == <<value, base, uvalue, buffer>>
said   == <<slot, blocked, stream, silent, sent, out>>
pvars  == <<svars, call, pc, fmt, args, str, number, said, made>>

STREAM_STDOUT == 1
STREAM_STDERR == 2
Streams == {STREAM_STDOUT, STREAM_STDERR}

Signed(n) == IF n < WORD \div 2 THEN n ELSE n - WORD

None == [fmt |-> <<>>, args |-> <<>>]

PInit ==
  /\ SInit
  /\ call = None /\ pc = "idle" /\ fmt = <<>> /\ args = <<>> /\ str = <<>>
  /\ value = 0 /\ base = 10 /\ uvalue = 0 /\ buffer = <<>>
  /\ slot = [s \in Streams |-> 0] /\ blocked = {}
  /\ stream = STREAM_STDOUT /\ silent = {} /\ sent = <<>> /\ out = <<>> /\ made = 0

Ready(at_pc) == job = "none" /\ pc = at_pc

\* stream_write: of a text, an empty stream keeps what it has room for.
Keeps(text) ==
  IF Len(text) <= STREAM_BUF_SIZE THEN text ELSE SubSeq(text, 1, STREAM_BUF_SIZE)

(* A text is stored in stream s, which is empty: when sh_render has read   *)
(* it, it is empty again, or blocked, and then its places are of no use.   *)
Slot(s, i) == (slot[s] + i - 1) % STREAM_BUF_SIZE
Blocks(s, text) == \E i \in 1..Len(text) : text[i] = NL /\ Slot(s, i) = 0
Store(s, text) ==
  /\ slot' = [slot EXCEPT ![s] = (@ + Len(text)) % STREAM_BUF_SIZE]
  /\ blocked' = IF Blocks(s, text) THEN blocked \cup {s} ELSE blocked

\* sh_putc, which makes the colour grey; the character is drawn or left behind.
Putc(ch) ==
  /\ Store(STREAM_STDOUT, <<ch>>)
  /\ sent' = Append(sent, ch)
  /\ IF STREAM_STDOUT \in blocked'
       THEN color' = GREY /\ UNCHANGED <<cells, cursor, job, at, out>>
       ELSE Draw(ch, GREY) /\ out' = Append(out, ch)
  /\ UNCHANGED <<stream, silent>>

Begin(c, s, text) ==
  /\ made < MaxCalls /\ made' = made + 1
  /\ call' = c /\ stream' = s /\ silent' = blocked /\ sent' = text /\ out' = <<>>

\* sh_printf is called.
Printf(c) ==
  /\ Ready("idle") /\ Begin(c, STREAM_STDOUT, <<>>)
  /\ pc' = "fmt" /\ fmt' = c.fmt /\ args' = c.args
  /\ UNCHANGED <<svars, str, number, slot, blocked>>

Ordinary ==
  /\ Ready("fmt") /\ fmt # <<>> /\ Head(fmt) # "%"
  /\ Putc(Head(fmt))
  /\ fmt' = Tail(fmt)
  /\ UNCHANGED <<call, pc, args, str, number, made>>

Directive(c) == Ready("fmt") /\ fmt # <<>> /\ Head(fmt) = "%" /\ fmt[2] = c
Behind == fmt' = Tail(Tail(fmt))

NullText == <<"(", "n", "u", "l", "l", ")">>

\* `s', and the `0x' of `p', go through sh_puts.
String ==
  /\ Directive("s") /\ Behind
  /\ str' = IF Head(args) = NullString THEN NullText ELSE Head(args)
  /\ args' = Tail(args) /\ pc' = "puts"
  /\ UNCHANGED <<svars, call, number, said, made>>

Pointer ==
  /\ Directive("p") /\ Behind
  /\ str' = <<"0", "x">>
  /\ value' = Signed(Head(args)) /\ base' = 16
  /\ args' = Tail(args) /\ pc' = "puts 0x"
  /\ UNCHANGED <<svars, call, uvalue, buffer, said, made>>

PutsChar ==
  /\ (Ready("puts") \/ Ready("puts 0x")) /\ str # <<>>
  /\ Putc(Head(str))
  /\ str' = Tail(str)
  /\ UNCHANGED <<call, pc, fmt, args, number, made>>

PutsReturn ==
  /\ (Ready("puts") \/ Ready("puts 0x")) /\ str = <<>>
  /\ pc' = IF pc = "puts" THEN "fmt" ELSE "int"
  /\ UNCHANGED <<svars, call, fmt, args, str, number, said, made>>

\* An unsigned argument is handed to sh_putint as an int.
Numeral ==
  /\ \E c \in {"d", "u", "x"} : Directive(c) /\ base' = IF c = "x" THEN 16 ELSE 10
  /\ Behind
  /\ value' = Signed(Head(args))
  /\ args' = Tail(args) /\ pc' = "int"
  /\ UNCHANGED <<svars, call, str, uvalue, buffer, said, made>>

OneChar ==
  /\ Directive("c") /\ Behind
  /\ Putc(Head(args)) /\ args' = Tail(args)
  /\ UNCHANGED <<call, pc, str, number, made>>

PerCent ==
  /\ Directive("%") /\ Behind
  /\ Putc("%")
  /\ UNCHANGED <<call, pc, args, str, number, made>>

\* Any other letter is printed with the sign before it.
OtherLetter ==
  /\ Ready("fmt") /\ Len(fmt) > 1 /\ Head(fmt) = "%"
  /\ fmt[2] \notin {"s", "d", "u", "x", "p", "c", "%"}
  /\ Putc("%")
  /\ fmt' = Tail(fmt)
  /\ UNCHANGED <<call, pc, args, str, number, made>>
-----------------------------------------------------------------------------
(* sh_putint.                                                              *)

Magnitude == (-value) % WORD

Minus ==
  /\ Ready("int") /\ base = 10 /\ value < 0
  /\ Putc("-")
  /\ uvalue' = Magnitude /\ pc' = "digits"
  /\ UNCHANGED <<call, fmt, args, str, value, base, buffer, made>>

Zero ==
  /\ Ready("int") /\ value = 0
  /\ Putc("0")
  /\ pc' = "fmt" /\ uvalue' = 0
  /\ UNCHANGED <<call, fmt, args, str, value, base, buffer, made>>

Positive ==
  /\ Ready("int") /\ value # 0 /\ ~(base = 10 /\ value < 0)
  /\ uvalue' = value % WORD /\ pc' = "digits"
  /\ UNCHANGED <<svars, call, fmt, args, str, value, base, buffer, said, made>>

\* Mutant of RoomForDigit: one more cell is kept free.
RoomForDigitLess == Len(buffer) < BUFFER - 2
RoomForDigit == Len(buffer) < BUFFER - 1

StoreDigit ==
  /\ Ready("digits") /\ uvalue # 0 /\ RoomForDigit
  /\ buffer' = Append(buffer, Digits[(uvalue % base) + 1])
  /\ uvalue' = uvalue \div base
  /\ UNCHANGED <<svars, call, pc, fmt, args, str, value, base, said, made>>

DigitsStored ==
  /\ Ready("digits") /\ ~(uvalue # 0 /\ RoomForDigit)
  /\ pc' = "put"
  /\ UNCHANGED <<svars, call, fmt, args, str, number, said, made>>

PutDigit ==
  /\ Ready("put") /\ buffer # <<>>
  /\ Putc(Last(buffer))
  /\ buffer' = Front(buffer)
  /\ UNCHANGED <<call, pc, fmt, args, str, value, base, uvalue, made>>

PutintReturn ==
  /\ Ready("put") /\ buffer = <<>>
  /\ pc' = "fmt"
  /\ UNCHANGED <<svars, call, fmt, args, str, number, said, made>>
-----------------------------------------------------------------------------
PrintfReturn ==
  /\ Ready("fmt") /\ fmt = <<>>
  /\ pc' = "idle"
  /\ UNCHANGED <<svars, call, fmt, args, str, number, said, made>>

(* sh_write_stream of a text, which is then drawn in the stream's colour; *)
(* at last the colour is grey.  `call' keeps the call of sh_printf that    *)
(* would print what the stream keeps.                                      *)
Write(s, text) ==
  LET kept == Keeps(text) IN
  /\ Ready("idle") /\ Begin([fmt |-> <<"%", "s">>, args |-> <<kept>>], s, kept)
  /\ Store(s, kept)
  /\ pc' = "write" /\ str' = IF s \in blocked' THEN <<>> ELSE kept
  /\ UNCHANGED <<svars, fmt, args, number>>

Ink(s) == IF s = STREAM_STDERR THEN RED ELSE GREY

WriteChar ==
  /\ Ready("write") /\ str # <<>>
  /\ Draw(Head(str), Ink(stream)) /\ out' = Append(out, Head(str))
  /\ str' = Tail(str)
  /\ UNCHANGED <<call, pc, fmt, args, number, slot, blocked, stream, silent, sent, made>>

WriteReturn ==
  /\ Ready("write") /\ str = <<>>
  /\ color' = GREY /\ pc' = "idle"
  /\ UNCHANGED <<cells, cursor, job, at, call, fmt, args, str, number, said, made>>

Rendering == Work /\ UNCHANGED <<call, pc, fmt, args, str, number, said, made>>

Printing ==
  \/ Ordinary \/ String \/ Pointer \/ PutsChar \/ PutsReturn
  \/ Numeral \/ OneChar \/ PerCent \/ OtherLetter
  \/ Minus \/ Zero \/ Positive \/ StoreDigit \/ DigitsStored \/ PutDigit \/ PutintReturn
  \/ PrintfReturn \/ WriteChar \/ WriteReturn

PNext ==
  \/ \E c \in Calls : Printf(c)
  \/ \E s \in Streams, text \in Texts : Write(s, text)
  \/ Rendering \/ Printing

PSpec == PInit /\ [][PNext]_pvars
=============================================================================
