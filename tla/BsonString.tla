----------------------------- MODULE BsonString -----------------------------
(***************************************************************************)
(* The growing string in which libbson writes JSON, and the reading of an  *)
(* integer from a text (bson-string.c).  Characters are bytes; the two     *)
(* integer types have the width that the constants give them.              *)
(***************************************************************************)
EXTENDS BsonSizes, Sequences, SequencesExt

CONSTANTS MaxUnsigned,  \* UINT32_MAX
          SmallAlloc,   \* 16: bson_string_truncate keeps this much
          FirstRoom,    \* 32: what bson_strdupv_printf tries first
          MaxSigned,    \* INT64_MAX
          StringTexts   \* the texts that are appended

StringAssumption == /\ MaxUnsigned \in Nat /\ \E k \in 1..32 : MaxUnsigned + 1 = 2 ^ k
                    /\ MaxSigned \in Nat
                    /\ SmallAlloc \in Nat \ {0} /\ 2 * SmallAlloc <= MaxUnsigned + 1
                    /\ FirstRoom \in Nat \ {0} /\ \A text \in StringTexts : text \in Seq(Nat)
ASSUME StringAssumption

VARIABLES
  str,   \* alloc, len and the cells that str points to; alloc = 0: no string
  said   \* what has been appended since and not been truncated

stringVars == <<str, said>>

NoString == [alloc |-> 0, len |-> 0, mem |-> <<>>]
Unwritten == -1
Widened(mem, n) == [i \in 1..n |-> IF i <= Len(mem) THEN mem[i] ELSE Unwritten]

(* bson_next_power_of_two_u32, which is 0 when it overflows, and           *)
(* bson_string_ensure_space.                                               *)
NextPower(n) == PowerOfTwo(n) % (MaxUnsigned + 1)
CanHold(needed) == needed <= MaxUnsigned - 1
Ensured(s, needed) ==
  LET alloc == IF NextPower(needed + 1) = 0 THEN MaxUnsigned ELSE NextPower(needed + 1) IN
  IF s.alloc >= needed + 1 THEN s ELSE [s EXCEPT !.alloc = alloc, !.mem = Widened(@, alloc)]

(* memcpy of a text to where the string ends, and the NUL behind it. *)
WriteText(s, text) ==
  LET end == s.len + Len(text) IN
  [s EXCEPT !.len = end,
            !.mem = [i \in DOMAIN s.mem \union {end + 1} |->
                       IF i \in (s.len + 1)..end THEN text[i - s.len]
                       ELSE IF i = end + 1 THEN 0 ELSE s.mem[i]]]
AppendedText(s, text) == WriteText(Ensured(s, s.len + Len(text)), text)

StringInit == str = NoString /\ said = <<>>

StringNew ==
  /\ str.alloc = 0
  /\ \E text \in StringTexts : /\ CanHold(Len(text)) /\ said' = text
                               /\ str' = WriteText(Ensured(NoString, Len(text)), text)

(* bson_string_append; too long a string is an assertion's end. *)
StringAppend ==
  /\ str.alloc # 0
  /\ \E text \in StringTexts : /\ CanHold(str.len + Len(text)) /\ said' = said \o text
                               /\ str' = AppendedText(str, text)

(* bson_string_append_c has a way of its own while there is room. *)
FullLate(s) == s.alloc = s.len  \* mutant: the NUL is forgotten
Full(s) == s.alloc = s.len + 1
StringAppendC ==
  /\ str.alloc # 0
  /\ \E c \in 1..2 : /\ Full(str) => CanHold(str.len + 1)
                     /\ str' = IF Full(str) THEN AppendedText(str, <<c>>) ELSE WriteText(str, <<c>>)
                     /\ said' = Append(said, c)

(* bson_string_append_printf: what is to be written is formatted into a    *)
(* block of its own first, which is made larger once if it does not fit.   *)
Printed(text, room) == IF Len(text) < room THEN text ELSE SubSeq(text, 1, room - 1)
Formatted(text) == Printed(text, IF Len(text) < FirstRoom THEN FirstRoom ELSE Len(text) + 1)
StringAppendPrintf ==
  /\ str.alloc # 0
  /\ \E text \in StringTexts :
       LET twice == text \o text IN
       /\ CanHold(str.len + Len(twice)) /\ said' = said \o twice
       /\ str' = AppendedText(str, Formatted(twice))

(* bson_string_truncate, which its callers use to shorten a string. *)
StringTruncate ==
  /\ str.alloc # 0
  /\ \E len \in 0..str.len :
       LET alloc == PowerOfTwo(IF len + 1 < SmallAlloc THEN SmallAlloc ELSE len + 1) IN
       /\ len < MaxUnsigned \div 2
       /\ str' = WriteText([alloc |-> alloc, len |-> len, mem |-> Widened(str.mem, alloc)], <<>>)
       /\ said' = SubSeq(said, 1, len)

StringFree == str.alloc # 0 /\ str' = NoString /\ said' = <<>>

StringNext == \/ StringNew \/ StringAppend \/ StringAppendC \/ StringAppendPrintf
              \/ StringTruncate \/ StringFree
-----------------------------------------------------------------------------
(* bson_ascii_strtoll: blanks, a sign, a prefix that gives the base if it  *)
(* was not given, and digits until one that does not fit any more.         *)
Blanks == (9..13) \union {32}
Numeral(ch) ==
  CASE ch \in 48..57 -> ch - 48 [] ch \in 97..122 -> ch - 87 [] ch \in 65..90 -> ch - 55
    [] OTHER -> 99
CharAt(text, i) == IF i <= Len(text) THEN text[i] ELSE 0
CutoffOnly(n, d, limit, base) == n > limit \div base  \* mutant: the last digit is not compared
BeyondCutoff(n, d, limit, base) ==
  n > limit \div base \/ (n = limit \div base /\ d > limit % base)
Strtoll(text, base0) ==
  LET start == CHOOSE i \in 1..(Len(text) + 1) :
                 CharAt(text, i) \notin Blanks /\ \A j \in 1..(i - 1) : text[j] \in Blanks
      minus == CharAt(text, start) = 45
      signed == CharAt(text, start) \in {43, 45}
      first == IF signed THEN start + 1 ELSE start
      hex == base0 \in {0, 16} /\ CharAt(text, first) = 48 /\ CharAt(text, first + 1) \in {88, 120}
      digits == IF hex THEN first + 2 ELSE first
      base == CASE hex -> 16
                [] base0 = 0 /\ ~hex -> IF CharAt(text, first) = 48 THEN 8 ELSE 10
                [] OTHER -> base0
      limit == IF minus THEN MaxSigned + 1 ELSE MaxSigned
      Turn[i \in Nat, n \in Nat] ==
        LET d == Numeral(CharAt(text, i)) IN
        CASE d >= base -> [number |-> n, range |-> TRUE, end |-> i]
          [] d < base /\ BeyondCutoff(n, d, limit, base) -> [number |-> limit, range |-> FALSE, end |-> i]
          [] OTHER -> Turn[i + 1, n * base + d]
      r == Turn[digits, 0]
  IN IF ~signed /\ Numeral(CharAt(text, start)) > 9 THEN [number |-> 0, errno |-> "EINVAL", end |-> 0]
     ELSE [number |-> IF minus THEN -r.number ELSE r.number,
           errno  |-> IF r.range THEN "0" ELSE "ERANGE",
           end    |-> IF r.end > digits THEN r.end ELSE 0]
-----------------------------------------------------------------------------
(* At every size, that at which the length of the block saturates          *)
(* included, a string holds what was appended to it and a NUL behind it,   *)
(* and nothing was written outside its block.                              *)
StringHolds ==
  str.alloc # 0 =>
    /\ str.len = Len(said) /\ SubSeq(str.mem, 1, str.len) = said
    /\ str.len < str.alloc /\ str.alloc <= MaxUnsigned
    /\ Len(str.mem) = str.alloc /\ str.mem[str.len + 1] = 0

(* An integer is read as what its digits say, or as the nearest that the   *)
(* type has, and then ERANGE is set.                                       *)
NumberSaid(digits, base) == FoldLeft(LAMBDA n, ch : n * base + Numeral(ch), 0, digits)
IntegerExact(text, base) ==
  LET r == Strtoll(text, base)
      minus == Len(text) > 0 /\ text[1] = 45
      digits == SubSeq(text, IF minus THEN 2 ELSE 1, Len(text))
      said10 == NumberSaid(digits, base)
      number == IF minus THEN -said10 ELSE said10
  IN text # <<>> /\ (minus \/ Numeral(text[1]) <= 9) /\ (\A i \in DOMAIN digits : Numeral(digits[i]) < base) =>
       /\ r.errno = "0" <=> number \in -(MaxSigned + 1)..MaxSigned
       /\ r.number = CASE number < -(MaxSigned + 1) -> -(MaxSigned + 1)
                       [] number > MaxSigned -> MaxSigned
                       [] OTHER -> number
       /\ r.errno = "0" /\ digits # <<>> => r.end = Len(text) + 1
=============================================================================
