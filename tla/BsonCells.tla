----------------------------- MODULE BsonCells -----------------------------
(***************************************************************************)
(* The cells of a document, as libbson writes and reads them.  A byte is a *)
(* cell, and so is an aligned word of four bytes, whose value it holds.    *)
(* Offsets are the code's, from 0; a read outside the cells gives Junk.    *)
(***************************************************************************)
EXTENDS Integers, Sequences, FiniteSetsExt

Double == 1
Utf8 == 2
Document == 3
Array == 4
Binary == 5
Undefined == 6
Oid == 7
Bool == 8
DateTime == 9
Null == 10
Regex == 11
DbPointer == 12
Code == 13
Symbol == 14
CodeWScope == 15
Int32 == 16
Timestamp == 17
Int64 == 18
Decimal128 == 19
MaxKey == 127
MinKey == 255

Deprecated == 2    \* BSON_SUBTYPE_BINARY_DEPRECATED
Junk == -1         \* memory nobody has written

(* The types whose values have one size, and that size. *)
OidCells == 3
Sizeless == {Undefined, Null, MaxKey, MinKey}
TwoWords == {Double, DateTime, Timestamp, Int64}
Fixed == Sizeless \union TwoWords \union {Bool, Int32, Oid, Decimal128}
Width == [t \in Fixed |-> IF t \in Sizeless THEN 0 ELSE IF t \in TwoWords THEN 2
                          ELSE IF t = Oid THEN OidCells ELSE IF t = Decimal128 THEN 4 ELSE 1]
Texts == {Utf8, Code, Symbol}
Types == Fixed \union Texts
         \union {Document, Array, Binary, Regex, DbPointer, CodeWScope}

At(raw, i) == IF i + 1 \in DOMAIN raw THEN raw[i + 1] ELSE Junk
Slice(raw, from, to) == SubSeq(raw, from + 1, to)      \* cells from..to-1
ZeroFrom(raw, i, len) ==
  LET zeros == {z \in i..(len - 1) : At(raw, z) = 0} IN IF zeros = {} THEN len ELSE Min(zeros)

(* Cells written at an offset; a write outside the buffer would be lost. *)
Written(b, at, cells) ==
  [i \in DOMAIN b |-> IF i - at \in DOMAIN cells THEN cells[i - at] ELSE b[i]]
=============================================================================
