------------------------------ MODULE BsonUtf8 ------------------------------
(***************************************************************************)
(* libbson's UTF-8 (bson-utf8.c): what is accepted, how code points are    *)
(* read and written, and how a string is escaped for JSON.  A string is a  *)
(* sequence of bytes.                                                      *)
(***************************************************************************)
EXTENDS Integers, Sequences

CONSTANTS Utf8Bytes,   \* the bytes strings are made of: 0..255
          CodePoints   \* the code points they can spell: up to U+10FFFF

VARIABLE utf8          \* the string a caller passes

(* _bson_utf8_get_sequence: length of a sequence by its first byte, 0 for  *)
(* none, and the bits of the code point that byte carries.                 *)
SequenceLen(c) ==
  CASE c < 128 -> 1 [] c \in 192..223 -> 2 [] c \in 224..239 -> 3 [] c \in 240..247 -> 4
    [] OTHER -> 0
FirstBits(c) ==
  CASE SequenceLen(c) = 1 -> c [] SequenceLen(c) = 2 -> c % 32 [] SequenceLen(c) = 3 -> c % 16
    [] SequenceLen(c) = 4 -> c % 8 [] OTHER -> 0

(* bson_utf8_get_char, of bytes that are all there. *)
GetChar(s, i) ==
  LET n == SequenceLen(s[i])
      first == FirstBits(s[i])
      Bits(k) == s[i + k] % 64
  IN CASE n \in {0, 1} -> first
       [] n = 2 -> first * 64 + Bits(1)
       [] n = 3 -> (first * 64 + Bits(1)) * 64 + Bits(2)
       [] n = 4 -> ((first * 64 + Bits(1)) * 64 + Bits(2)) * 64 + Bits(3)

(* The shortest form, and 0 in two bytes where nulls are allowed. *)
Shortest(n, c, allowNull) ==
  \/ n = 1 /\ c <= 127
  \/ n = 2 /\ ((c >= 128 /\ c <= 2047) \/ (c = 0 /\ allowNull))
  \/ n = 3 /\ c >= 2048 /\ c <= 65535
  \/ n = 4 /\ c >= 65536 /\ c <= 1114111

(* bson_utf8_validate *)
Surrogate(c) == c >= 55296 /\ c <= 57343
SurrogateBlind(s, i, n, allowNull) ==  \* mutant: surrogates pass
  /\ \A k \in 1..(n - 1) : s[i + k] \in 128..191
  /\ allowNull \/ \A k \in 0..(n - 1) : s[i + k] # 0
  /\ Shortest(n, GetChar(s, i), allowNull)
ValidChar(s, i, n, allowNull) ==
  /\ \A k \in 1..(n - 1) : s[i + k] \in 128..191
  /\ allowNull \/ \A k \in 0..(n - 1) : s[i + k] # 0
  /\ GetChar(s, i) <= 1114111
  /\ ~Surrogate(GetChar(s, i))
  /\ Shortest(n, GetChar(s, i), allowNull)

ValidFrom(s, allowNull) ==
  LET Valid[i \in 1..(Len(s) + 1)] ==
        i > Len(s) \/ LET n == SequenceLen(s[i])
                      IN /\ n # 0 /\ Len(s) - i + 1 >= n
                         /\ ValidChar(s, i, n, allowNull)
                         /\ Valid[i + n]
  IN Valid
Utf8Valid(s, allowNull) == ValidFrom(s, allowNull)[1]

(* bson_utf8_from_unichar *)
FromUnichar(c) ==
  CASE c <= 127                  -> <<c>>
    [] c > 127 /\ c <= 2047      -> <<192 + (c \div 64), 128 + (c % 64)>>
    [] c > 2047 /\ c <= 65535    -> <<224 + (c \div 4096), 128 + ((c \div 64) % 64),
                                      128 + (c % 64)>>
    [] c > 65535 /\ c <= 2097151 -> <<240 + (c \div 262144), 128 + ((c \div 4096) % 64),
                                      128 + ((c \div 64) % 64), 128 + (c % 64)>>
    [] OTHER -> <<>>

LastCodePoint == 1114111
Utf8Assumption ==
  /\ Utf8Bytes \subseteq 0..255 /\ CodePoints \subseteq 0..LastCodePoint
  /\ \A c \in 0..LastCodePoint :
       (\A i \in DOMAIN FromUnichar(c) : FromUnichar(c)[i] \in Utf8Bytes) => c \in CodePoints
ASSUME Utf8Assumption

(* bson_utf8_escape_for_json: <<FALSE, ...>> if it gives up.  The hex      *)
(* digits of other control characters are one unit.  Continuation bytes    *)
(* are not looked at, and a 0 ends it unless a length was given.           *)
Backslash == 92
Short == [c \in {8, 9, 10, 12, 13} |->
            CASE c = 8 -> 98 [] c = 9 -> 116 [] c = 10 -> 110 [] c = 12 -> 102 [] c = 13 -> 114]
EscapedChar(c) ==
  CASE c \in {34, Backslash} -> <<Backslash, c>>
    [] c \in DOMAIN Short    -> <<Backslash, Short[c]>>
    [] c < 32 /\ c \notin DOMAIN Short -> <<Backslash, 117, c>>
    [] OTHER -> FromUnichar(c)

EscapeFrom(s, lengthGiven) ==
  LET Escape[i \in 1..(Len(s) + 1)] ==
        IF i > Len(s) THEN <<TRUE, <<>>>>
        ELSE LET n == SequenceLen(s[i])
                 c == GetChar(s, i)
                 skip == IF c # 0 THEN n ELSE IF s[i] = 0 THEN 1 ELSE 2
                 null == s[i] = 0 \/ (s[i] = 192 /\ s[i + 1] = 128)
             IN IF \/ n > Len(s) - i + 1
                   \/ c = 0 /\ ~(lengthGiven /\ null)
                   \/ ~Escape[i + skip][1]
                THEN <<FALSE, <<>>>>
                ELSE <<TRUE, EscapedChar(c) \o Escape[i + skip][2]>>
  IN Escape
EscapeForJson(s, lengthGiven) == EscapeFrom(s, lengthGiven)[1]
-----------------------------------------------------------------------------
(* The spelling of code points, 0 in either form, and what they spell.     *)
Spelling(codePoints) ==
  {FromUnichar(c) : c \in {d \in codePoints : ~Surrogate(d)}} \union {<<192, 128>>}
SpellsFrom(s, spelling) ==
  LET Spells[i \in 1..(Len(s) + 1)] ==
        i > Len(s) \/ \E n \in 1..4 : /\ i + n <= Len(s) + 1
                                      /\ SubSeq(s, i, i + n - 1) \in spelling
                                      /\ Spells[i + n]
  IN Spells
Clean(text) ==
  \A i \in DOMAIN text :
    /\ text[i] < 32 => i > 2 /\ text[i - 2] = Backslash /\ text[i - 1] = 117
    /\ text[i] = 34 => i > 1 /\ text[i - 1] = Backslash
Utf8Agrees(s, spelling) ==
  LET spelled == SpellsFrom(s, spelling)[1]
      nulls == \E i \in DOMAIN s : s[i] \in {0, 192}
  IN /\ Utf8Valid(s, TRUE) <=> spelled
     /\ Utf8Valid(s, FALSE) <=> spelled /\ ~nulls
     /\ spelled => EscapeForJson(s, TRUE)[1] /\ Clean(EscapeForJson(s, TRUE)[2])

(* bson_utf8_validate accepts exactly the strings that spell code points,  *)
(* none of them a surrogate or too large, with 0 in either form only where *)
(* it is allowed; and an accepted string can be escaped for JSON, after    *)
(* which a control character stands only in a \u and a quote only behind a *)
(* backslash.                                                              *)
AllSpelling == Spelling(CodePoints)
Utf8Sound == Utf8Agrees(utf8, AllSpelling)
=============================================================================
