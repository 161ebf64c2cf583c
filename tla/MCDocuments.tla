---------------------------- MODULE MCDocuments ----------------------------
(***************************************************************************)
(* libbson, checked on documents of several kinds side by side: `focus'    *)
(* picks the kind, or what moves instead of a document, so that the states *)
(* add up.                                                                 *)
(***************************************************************************)
EXTENDS BsonVisit, BsonMemory, BsonBase64, BsonDecimal

CONSTANT Foci    \* which of them a run looks at

VARIABLES focus, string

vars == <<focus, string, utf8, docVars, walkVars, handleVars, stringVars>>

MCValues == {0, 9}
MCStringTexts == {<<>>, <<1>>, <<1, 2>>}

Field(type, key, val) == [type |-> type, key |-> key, val |-> val]

(* Few elements, deep and many; one of each type, shallow; and elements    *)
(* that bson_validate has to tell apart.                                   *)
MCFew == {Field(Int32, <<1>>, <<7>>), Field(Utf8, <<1, 2>>, <<3, 0, 4>>), Field(Null, <<0>>, <<>>)}
MCTypes ==
  MCFew \union
  { Field(Binary, <<>>, <<2, <<9>>>>), Field(Binary, <<1>>, <<4, <<>>>>), Field(Code, <<2>>, <<65>>),
    Field(CodeWScope, <<2>>, <<<<65>>, <<Field(Int32, <<1>>, <<7>>)>>>>),
    Field(Regex, <<2>>, <<<<65>>, <<105, 120>>>>), Field(DbPointer, <<2>>, <<<<>>, <<1, 2, 3>>>>),
    Field(Timestamp, <<2>>, <<1, 2>>), Field(DateTime, <<2>>, <<0, 3000>>), Field(Bool, <<2>>, <<1>>),
    Field(Oid, <<2>>, <<1, 2, 3>>), Field(Decimal128, <<2>>, <<1, 2, 3, 4>>), Field(MinKey, <<2>>, <<>>) }
MCKeys ==
  { Field(Utf8, RefKey, <<3, 0>>), Field(Utf8, DbKey, <<65>>),
    Field(Bool, IdKey, <<1>>), Field(Null, <<>>, <<>>), Field(Symbol, <<46>>, <<65>>) }
MCScopes ==
  { Field(CodeWScope, <<1>>, <<<<65>>, <<>>>>), Field(Int32, <<1>>, <<7>>), Field(Utf8, <<2>>, <<65>>) }

(* Documents with each element type, alone and inside another, as a server *)
(* may send them: sound, with any one cell changed, or cut short.          *)
MCDamaged(raw) ==
  {[raw EXCEPT ![i] = c] : i \in DOMAIN raw, c \in {0, 1, 2, 4, 5, 7, CodeWScope, Len(raw)}}
  \union {SubSeq(raw, 1, n) : n \in 0..Len(raw)}
MCInside(f) == {<<Field(Document, <<1>>, <<f, Field(Int32, <<2>>, <<7>>)>>), f>>,
                <<f, Field(CodeWScope, <<1>>, <<<<65>>, <<f>>>>)>>,
                <<Field(Array, <<>>, <<Field(Document, <<1>>, <<f>>), f>>)>>}
MCReceived == UNION {MCDamaged(Encoding(tree)) : tree \in UNION {MCInside(f) : f \in MCTypes}}

(* Bytes at the edges of what bson-utf8.c compares, and the code points    *)
(* that strings of them can spell.                                         *)
MCBytes == {0, 10, 34, 127, 128, 159, 160, 191, 192, 193, 194, 224, 237, 239, 240, 244, 247, 255}
MCCodePoints ==
  (0..2047)
  \union {c \in 2048..65535 : \A i \in 1..3 : FromUnichar(c)[i] \in MCBytes}
  \union {c \in {262144 * a + 4096 * b + 64 * d + e :
                   a \in {0, 4}, b \in 0..63, d \in {0, 31, 32, 63}, e \in {0, 31, 32, 63}} :
            c \in 65536..1114111}

(* Two digits, white space, the pad, a NUL, what is no digit, and a byte. *)
MCTexts == {66, 119, 32, 61, 0, 45, 255}

(* Digits at the edges, the point, the sign and the exponent of a decimal; *)
(* and those of an integer, with its blanks and its prefix.                *)
MCDecimals == {0, 1, 5, Point, Minus, Exponent}
MCIntegers == {9, 45, 48, 49, 55, 56, 70, 97, 120}

Init ==
  /\ DocInit /\ MemoryInit /\ string = <<>> /\ utf8 = <<>> /\ focus \in Foci
  /\ IF focus = "walks" THEN WalkInit ELSE bytes = <<>> /\ walks = <<>>

Nesting == focus = "few" /\ DocNext(MCFew) /\ UNCHANGED <<focus, string, utf8, walkVars, handleVars, stringVars>>
Typing == /\ focus = "types"
          /\ \/ DocNext(MCTypes) /\ appends' <= 2
             \/ \E i \in 1..3, v \in {<<0>>, <<5, 6>>} : DocOverwrite(i, v)
          /\ UNCHANGED <<focus, string, utf8, walkVars, handleVars, stringVars>>
Keying == /\ focus = "keys" /\ DocNext(MCKeys) /\ appends' <= 3 /\ ~Last(docs').builder
          /\ Len(docs') <= 2
          /\ UNCHANGED <<focus, string, utf8, walkVars, handleVars, stringVars>>
Scoping == /\ focus = "scopes" /\ DocNext(MCScopes) /\ appends' <= 3
           /\ UNCHANGED <<focus, string, utf8, walkVars, handleVars, stringVars>>
Walking == focus = "walks" /\ WalkNext /\ UNCHANGED <<focus, string, utf8, docVars, handleVars, stringVars>>
Stringing == /\ focus = "strings"
             /\ \E b \in MCBytes : /\ Len(utf8) < 4 /\ (Len(utf8) = 3 => utf8[1] >= 237)
                                   /\ utf8' = Append(utf8, b)
             /\ UNCHANGED <<focus, string, docVars, walkVars, handleVars, stringVars>>
Coding(kind, chars, length) ==
  /\ focus = kind
  /\ \E ch \in chars : Len(string) < length /\ string' = Append(string, ch)
  /\ UNCHANGED <<focus, utf8, docVars, walkVars, handleVars, stringVars>>
Buffering == /\ focus = "buffer" /\ StringNext /\ UNCHANGED <<focus, string, utf8, docVars, walkVars, handleVars>>
Owning == focus = "heap" /\ HandleNext /\ UNCHANGED <<focus, string, utf8, docVars, walkVars, stringVars>>

Next == Nesting \/ Typing \/ Keying \/ Scoping \/ Walking \/ Stringing
        \/ Coding("base64", MCTexts, 5) \/ Coding("decimals", MCDecimals, 6)
        \/ Coding("integers", MCIntegers, 4) \/ Buffering \/ Owning
Spec == Init /\ [][Next]_vars

(* The conversions that a unit test samples are exact on every short text: *)
(* base64 gives back every string, and takes one for a text only if it is  *)
(* spelled in the one way (common-b64.c); a decimal that is printed is     *)
(* read back as the same, and one that is read was not rounded             *)
(* (bson-decimal128.c); an integer is what its digits say, or ERANGE       *)
(* (bson-string.c).                                                        *)
ConversionsExact ==
  /\ focus = "base64" => RoundTrips(string) /\ Canonical(string)
  /\ focus = "decimals" => (string = <<>> => DecimalsReadBack) /\ NotRounded(string)
  /\ focus = "integers" => \A base \in {8, 10, 16} : IntegerExact(string, base)
=============================================================================
