---------------------------- MODULE BsonDocument ----------------------------
(***************************************************************************)
(* libbson's bson_t as a builder (bson.c): documents written in place into *)
(* one buffer, with children begun and ended inside their parents.  Only   *)
(* the innermost open document is appended to; its ancestors learn its     *)
(* size, and get their own final 0, when it ends.                          *)
(*                                                                         *)
(* The buffer is made of cells.  An empty document is its length and a 0.  *)
(* An element is a record [type, key, val]; keys and strings are sequences *)
(* of characters, documents sequences of elements.                         *)
(***************************************************************************)
EXTENDS BsonSizes, BsonCells, SequencesExt

CONSTANTS MaxDepth,   \* bound: documents open at once
          MaxFields   \* bound: appends of one document

DocAssumption == MaxDepth \in Nat \ {0} /\ MaxFields \in Nat
ASSUME DocAssumption

RegexOptions == <<105, 108, 109, 115, 117, 120>>  \* i, l, m, s, u, x
-----------------------------------------------------------------------------
(* The values, as their appenders lay them out.  A C string, for which no  *)
(* length is passed, ends at its first 0; a string with a length keeps it. *)
CString(chars) ==
  IF Contains(chars, 0) THEN SubSeq(chars, 1, SelectInSeq(chars, LAMBDA c : c = 0) - 1)
  ELSE chars
Text(chars) == <<Len(chars) + 1>> \o chars \o <<0>>
CodeCells(code) == Text(CString(code))
DbPointerCells(collection, oid) == Text(CString(collection)) \o oid

ScopeCells(code, scope) ==
  LET inner == Text(CString(code)) \o scope IN <<Len(inner) + 1>> \o inner

BinaryCells(subtype, data) ==
  IF subtype = Deprecated THEN <<Len(data) + 1, subtype, Len(data)>> \o data
  ELSE <<Len(data), subtype>> \o data

(* Options are sorted, each at most once; unknown ones are dropped. *)
SortedOptions(options) == SelectSeq(RegexOptions, LAMBDA c : c \in ToSet(options))
RegexCells(pattern, options) ==
  CString(pattern) \o <<0>> \o SortedOptions(options) \o <<0>>

(* Values of a fixed size, as they are; null, undefined and the keys that  *)
(* compare with everything have none.                                      *)
FixedCells(cells) == cells
NoCells == <<>>

(* Two words, the low one first: a timestamp's increment, or milliseconds  *)
(* of a time, too few here to reach the high word.                         *)
TimestampCells(seconds, increment) == <<increment, seconds>>
TimeCells(seconds, micros) == <<seconds * 1000 + micros \div 1000, 0>>

(* bson_append_array complains of an array whose first key is not "0", and *)
(* appends it all the same.                                                *)
EmbeddedCells(encoded) == encoded

(* bson_append_value, and bson_append_<type> for each. *)
RECURSIVE Encoding(_)
Payload(e) ==
  CASE e.type \in {Utf8, Symbol} -> Text(e.val)
    [] e.type = Code       -> CodeCells(e.val)
    [] e.type = Binary     -> BinaryCells(e.val[1], e.val[2])
    [] e.type = Regex      -> RegexCells(e.val[1], e.val[2])
    [] e.type = DbPointer  -> DbPointerCells(e.val[1], e.val[2])
    [] e.type = CodeWScope -> ScopeCells(e.val[1], Encoding(e.val[2]))
    [] e.type = Timestamp  -> TimestampCells(e.val[1], e.val[2])
    [] e.type = DateTime   -> TimeCells(e.val[1], e.val[2])
    [] e.type \in {Document, Array} -> EmbeddedCells(Encoding(e.val))
    [] e.type \in {Null, Undefined, MaxKey, MinKey} -> NoCells
    [] OTHER -> FixedCells(e.val)

Element(e) == <<e.type>> \o e.key \o <<0>> \o Payload(e)

(* A document written in one go: what every way of building it must give. *)
Encoding(tree) ==
  LET body == FoldLeft(LAMBDA out, e : out \o Element(e), <<>>, tree)
  IN <<Len(body) + Empty>> \o body \o <<0>>

(* HANDLE_KEY_LENGTH: a 0 inside the key is refused. *)
KeyFits(key) == 0 \notin ToSet(key)

(* bson_uint32_to_string: array keys are decimal numbers. *)
Digits[n \in Nat] == IF n < 10 THEN <<48 + n>> ELSE Append(Digits[n \div 10], 48 + (n % 10))
-----------------------------------------------------------------------------
VARIABLES
  buf,     \* the buffer, inline or allocated
  inline,  \* BSON_FLAG_INLINE of the top document
  docs,    \* the open documents, innermost last: where each starts, its length,
           \* whether it is a bson_array_builder_t and that builder's next index
  trees,   \* what has been asked of each of them
  appends  \* bound

docVars == <<buf, inline, docs, trees, appends>>

Doc(offset, len, builder) ==
  [offset |-> offset, len |-> len, builder |-> builder, index |-> 0]
Depth == Len(docs) - 1     \* depth of the innermost; 0 at the top
Inner == docs[Len(docs)]

(* bson_init *)
DocInit ==
  /\ buf = <<Empty, 0>> \o [i \in 1..(InlineCap - Empty) |-> Junk]
  /\ inline = TRUE /\ docs = <<Doc(0, Empty, FALSE)>> /\ trees = <<<<>>>> /\ appends = 0

(* _bson_grow: the buffer with room for `size' more cells of the innermost *)
(* document and for the final 0 of each of its ancestors; its own is in    *)
(* its length.  <<>> when that is more than a document may have.           *)
NeededAlone(size) == Inner.offset + Inner.len + size  \* mutant: no room for the ancestors
Needed(size) == Inner.offset + Inner.len + size + Depth
GrownFrom(b, size) ==
  IF Needed(size) <= Len(b) THEN b
  ELSE IF PowerOfTwo(Needed(size)) > MaxSize THEN <<>>
  ELSE b \o [i \in 1..(PowerOfTwo(Needed(size)) - Len(b)) |-> Junk]
Grown(size) == GrownFrom(buf, size)

(* _bson_append: the cells over the final 0, a new 0, and the new length. *)
Appended(b, cells) ==
  Written(Written(b, Inner.offset + Inner.len - 1, cells \o <<0>>),
          Inner.offset, <<Inner.len + Len(cells)>>)

CanAppend(cells) ==
  Len(cells) <= MaxSize - Inner.len /\ Grown(Len(cells)) # <<>>

(* The key an array builder gives its next element, which it counts only   *)
(* if the append succeeds.                                                 *)
KeyOf(e) == IF Inner.builder THEN Digits[Inner.index] ELSE e.key
NextIndexAlways(ok) ==  \* mutant: a failed append counts too
  IF Inner.builder THEN Inner.index + 1 ELSE Inner.index
NextIndex(ok) == IF ok /\ Inner.builder THEN Inner.index + 1 ELSE Inner.index

(* Any append of a value.  A failed one changes nothing.                   *)
AppendCells(e, cells, ok) ==
  /\ appends < MaxFields /\ appends' = appends + 1
  /\ IF ok
     THEN /\ buf' = Appended(Grown(Len(cells)), cells)
          /\ inline' = (inline /\ Len(buf') = Len(buf))
          /\ trees' = [trees EXCEPT ![Len(docs)] = Append(@, e)]
     ELSE UNCHANGED <<buf, inline, trees>>
  /\ docs' = [docs EXCEPT ![Len(docs)].len = IF ok THEN @ + Len(cells) ELSE @,
                          ![Len(docs)].index = NextIndex(ok)]
AppendElement(e) == AppendCells(e, Element(e), KeyFits(e.key) /\ CanAppend(Element(e)))

DocAppend(e) == ~Inner.builder /\ AppendElement(e)
BuilderAppend(e) == Inner.builder /\ AppendElement([e EXCEPT !.key = KeyOf(e)])

(* _bson_append_bson_begin: out of the inline buffer first, which stays so *)
(* even if the append then fails, and an empty child, whose own bson_t     *)
(* shares the buffer.                                                      *)
BeginIn(type, builder, key, first, cells) ==
  LET ok == /\ KeyFits(key) /\ Len(cells) <= MaxSize - Inner.len
            /\ GrownFrom(first, Len(cells)) # <<>>
  IN /\ appends < MaxFields /\ appends' = appends + 1 /\ Len(docs) < MaxDepth
     /\ inline' = (inline /\ ~KeyFits(key))
     /\ IF ok
        THEN /\ buf' = Appended(GrownFrom(first, Len(cells)), cells)
             /\ docs' = Append([docs EXCEPT ![Len(docs)].len = @ + Len(cells),
                                            ![Len(docs)].index = NextIndex(TRUE)],
                               Doc(Inner.offset + Inner.len + Len(cells) - 1 - Empty,
                                   Empty, builder))
             /\ trees' = Append([trees EXCEPT ![Len(docs)] =
                                   Append(@, [type |-> type, key |-> key, val |-> <<>>])], <<>>)
        ELSE /\ docs' = [docs EXCEPT ![Len(docs)].index = NextIndex(FALSE)]
             /\ buf' = IF KeyFits(key) THEN first ELSE buf
             /\ trees' = trees

Begin(type, builder, e) ==
  BeginIn(type, builder, KeyOf(e), IF inline THEN Grown(BeginSize - Inner.len) ELSE buf,
          Element([type |-> type, key |-> KeyOf(e), val |-> <<>>]))

DocumentBegin(e) == Begin(Document, FALSE, e)
ArrayBegin(e) == Begin(Array, FALSE, e)
ArrayBuilderBegin(e) == Begin(Array, TRUE, e)

(* _bson_append_bson_end: the parent takes over the child's length, with   *)
(* no check that its final 0 still has room.                               *)
DocEnd ==
  /\ Len(docs) > 1
  /\ LET n == Len(docs) - 1
         len == docs[n].len + Inner.len - Empty
         parent == trees[n]
     IN /\ buf' = Written(Written(buf, docs[n].offset + len - 1, <<0>>),
                          docs[n].offset, <<len>>)
        /\ docs' = [SubSeq(docs, 1, n) EXCEPT ![n].len = len]
        /\ trees' = [SubSeq(trees, 1, n) EXCEPT ![n] =
                       [parent EXCEPT ![Len(parent)].val = trees[n + 1]]]
  /\ UNCHANGED <<inline, appends>>

(* bson_concat: the elements of another document. *)
DocConcat(other) ==
  LET cells == FoldLeft(LAMBDA out, e : out \o Element(e), <<>>, other)
  IN /\ appends < MaxFields /\ appends' = appends + 1 /\ ~Inner.builder
     /\ \A i \in DOMAIN other : KeyFits(other[i].key)
     /\ CanAppend(cells)
     /\ buf' = Appended(Grown(Len(cells)), cells)
     /\ inline' = (inline /\ Len(buf') = Len(buf))
     /\ docs' = [docs EXCEPT ![Len(docs)].len = @ + Len(cells)]
     /\ trees' = [trees EXCEPT ![Len(docs)] = @ \o other]

(* bson_reinit keeps the buffer. *)
DocReinit ==
  /\ Len(docs) = 1 /\ trees # <<<<>>>>
  /\ buf' = Written(buf, 0, <<Empty, 0>>)
  /\ docs' = <<Doc(0, Empty, FALSE)>> /\ trees' = <<<<>>>>
  /\ UNCHANGED <<inline, appends>>

DocNext(fields) ==
  \/ \E e \in fields : DocAppend(e) \/ BuilderAppend(e) \/ DocConcat(<<e>>)
  \/ \E e \in fields : DocumentBegin(e) \/ ArrayBegin(e) \/ ArrayBuilderBegin(e)
  \/ DocEnd \/ DocReinit
-----------------------------------------------------------------------------
(* Through every nesting, growth, refusal and reuse of the buffer, the     *)
(* innermost document is at each moment the encoding of what was asked of  *)
(* it, and so is the whole once its children have ended: the final 0 that  *)
(* _bson_append_bson_end writes unchecked always has room.  The keys of an *)
(* array builder count 0, 1, 2, ... however many appends were refused.     *)
DocEncodes ==
  /\ SubSeq(buf, Inner.offset + 1, Inner.offset + Inner.len) = Encoding(trees[Len(docs)])
  /\ Inner.offset + Inner.len + Depth <= Len(buf)
  /\ Inner.builder => \A i \in DOMAIN trees[Len(docs)] : trees[Len(docs)][i].key = Digits[i - 1]
=============================================================================
