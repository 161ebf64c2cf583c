------------------------------ MODULE BsonWalk ------------------------------
(***************************************************************************)
(* libbson's iterator (bson-iter.c) over the cells of a document: stepping *)
(* from element to element with every length and terminator checked, the   *)
(* accessors, iterators into children, and overwriting a value in place.   *)
(*                                                                         *)
(* Of err_off only whether it is set is kept.  A walk has one buffer, that *)
(* of a message received, and a stack of iterators into it, each but the   *)
(* first started by bson_iter_recurse, or on a scope, from the element the *)
(* one below it is at.  All of them read the buffer from where they start, *)
(* and nothing but the code's own tests keeps them from reading on.        *)
(***************************************************************************)
EXTENDS BsonSizes, BsonCells, SequencesExt

CONSTANTS Received,   \* the documents there are to walk, sound or damaged
          Values      \* what cells are overwritten with

WalkAssumption == Received \subseteq Seq(Nat) /\ Values \subseteq Nat
ASSUME WalkAssumption

(* An iterator; its data has been dropped (raw = NULL) when it is not live. *)
Iter(len, next, live) ==
  [len |-> len, off |-> 0, next |-> next, o |-> 0, type |-> 0, key |-> <<>>,
   err |-> FALSE, unsupported |-> FALSE, live |-> live]
NoIter == Iter(0, 0, FALSE)

(* bson_iter_init, and bson_init_static, which copies nothing but looks at *)
(* the length and the final 0.                                             *)
IterInit(raw) == IF Len(raw) < Empty THEN NoIter ELSE Iter(Len(raw), 1, TRUE)
SoundEnds(raw, len) == len >= Empty /\ At(raw, 0) = len /\ At(raw, len - 1) = 0
StaticOk(raw) == SoundEnds(raw, Len(raw))
IterInitFromData(raw, len) == IF SoundEnds(raw, len) THEN Iter(len, 1, TRUE) ELSE NoIter

(* _bson_iter_next_internal: where an element with its value at o ends, 0  *)
(* if the value does not fit or contradicts itself.                        *)
Bad == 0
TextEnd(raw, o, len) ==
  LET l == At(raw, o)
      ok == /\ o + 1 < len /\ l <= len - (o + 1) /\ l # 0 /\ o + 1 + l < len
            /\ At(raw, o + l) = 0
  IN IF ok THEN o + 1 + l ELSE Bad

BinaryEnd(raw, o, len) ==
  LET l == At(raw, o)
      ok == /\ o < len - 1 /\ l < len - o - 1
            /\ At(raw, o + 1) = Deprecated => l >= 1 /\ At(raw, o + 2) = l - 1
  IN IF ok THEN o + 2 + l ELSE Bad

DocumentEnd(raw, o, len) ==
  LET l == At(raw, o) IN IF o < len - 1 /\ l <= len /\ l <= len - o THEN o + l ELSE Bad

BoolEnd(raw, o, len) == IF o < len /\ At(raw, o) \in {0, 1} THEN o + 1 ELSE Bad

RegexEnd(raw, o, len) ==
  LET pattern == ZeroFrom(raw, o, len)
      options == ZeroFrom(raw, pattern + 1, len)
  IN IF pattern < len /\ options < len THEN options + 1 ELSE Bad

DbPointerEnd(raw, o, len) ==
  LET l == At(raw, o)
      ok == o < len - 1 /\ l # 0 /\ l <= len - o - 1 /\ At(raw, o + l) = 0
  IN IF ok THEN o + 1 + l + OidCells ELSE Bad

ScopeEndByLength(raw, o, len) ==  \* mutant: the scope's own length is not compared
  LET l == At(raw, o)
      code == At(raw, o + 1)
  IN IF /\ o < len - 5 /\ l >= 5 /\ l < len - o /\ o + l < len
        /\ code # 0 /\ code < len - o - 2 /\ o + 3 + code < o + l
     THEN o + l ELSE Bad
ScopeEnd(raw, o, len) ==
  LET l == At(raw, o)
      code == At(raw, o + 1)
      scope == o + 2 + code
      ok == /\ len >= 7 /\ o < len - 5
            /\ l >= 5 /\ l < len - o /\ o + l < len
            /\ code # 0 /\ code < len - o - 2
            /\ scope + 1 < o + l
            /\ scope + At(raw, scope) = o + l
  IN IF ok THEN o + l ELSE Bad

ValueEnd(raw, type, o, len) ==
  CASE type \in Texts             -> TextEnd(raw, o, len)
    [] type = Binary              -> BinaryEnd(raw, o, len)
    [] type \in {Document, Array} -> DocumentEnd(raw, o, len)
    [] type = Bool                -> BoolEnd(raw, o, len)
    [] type = Regex               -> RegexEnd(raw, o, len)
    [] type = DbPointer           -> DbPointerEnd(raw, o, len)
    [] type = CodeWScope          -> ScopeEnd(raw, o, len)
    [] type \in DOMAIN Width      -> o + Width[type]
    [] OTHER                      -> Bad

(* The step to the next element; the key ends at `z'.  Running out of      *)
(* cells in the key, as at the end of the document, leaves err as it was.  *)
Landed(at, end) ==
  IF end = Bad \/ end >= at.len
  THEN [at EXCEPT !.live = FALSE, !.next = 0, !.err = TRUE,
                  !.unsupported = at.type \notin Types \union {0}]
  ELSE [at EXCEPT !.next = end]
StepTo(raw, it, z) ==
  LET type == At(raw, it.next)
  IN Landed([it EXCEPT !.off = it.next, !.type = type, !.o = z + 1, !.err = FALSE,
                       !.key = Slice(raw, it.next + 1, z), !.unsupported = FALSE],
            ValueEnd(raw, type, z + 1, it.len))

StepPast(raw, it, z) ==
  IF z = it.len THEN [it EXCEPT !.live = FALSE, !.next = 0, !.unsupported = FALSE]
  ELSE StepTo(raw, it, z)
IterNext(raw, it) ==
  IF it.live THEN StepPast(raw, it, ZeroFrom(raw, it.next + 1, it.len))
  ELSE [it EXCEPT !.unsupported = FALSE]

(* bson_iter_init_from_data_at_offset: back to an element whose offset and *)
(* key length are known; the key is not looked at.                         *)
IterAtOffset(raw, offset, keylen) ==
  LET it == Iter(Len(raw), offset, TRUE)
      to == IF keylen = 0 THEN IterNext(raw, it) ELSE StepTo(raw, it, offset + 1 + keylen)
  IN IF Len(raw) < Empty THEN NoIter ELSE IF to.live THEN to ELSE NoIter
KeyLen(it) == it.o - (it.off + 1) - 1
-----------------------------------------------------------------------------
(* Accessors: bson_iter_<type>, and bson_iter_value, which calls the one   *)
(* for the element's type.                                                 *)
TextAt(raw, o) == Slice(raw, o + 1, o + 1 + (IF At(raw, o) <= 0 THEN 0 ELSE At(raw, o) - 1))
CStringAt(raw, o) == Slice(raw, o, ZeroFrom(raw, o, Len(raw)))
BinaryWithLength(raw, o) ==  \* mutant: the old subtype's inner length is taken for data
  <<At(raw, o + 1), Slice(raw, o + 2, o + 2 + At(raw, o))>>
BinaryAt(raw, o) ==
  LET skip == IF At(raw, o + 1) = Deprecated THEN 1 ELSE 0
  IN <<At(raw, o + 1), Slice(raw, o + 2 + skip, o + 2 + At(raw, o))>>
DocumentAt(raw, o) == Slice(raw, o, o + At(raw, o))
RegexAt(raw, o) == <<CStringAt(raw, o), CStringAt(raw, ZeroFrom(raw, o, Len(raw)) + 1)>>
DbPointerAt(raw, o) ==
  LET oid == o + 1 + At(raw, o) IN <<TextAt(raw, o), Slice(raw, oid, oid + OidCells)>>
ScopeAt(raw, o) == <<TextAt(raw, o + 1), DocumentAt(raw, o + 2 + At(raw, o + 1))>>
TimestampAt(raw, o) == <<At(raw, o + 1), At(raw, o)>>
TimevalAt(raw, o) == <<At(raw, o) \div 1000, (At(raw, o) % 1000) * 1000>>

IterValue(raw, it) ==
  CASE it.type \in Texts             -> TextAt(raw, it.o)
    [] it.type = Binary              -> BinaryAt(raw, it.o)
    [] it.type \in {Document, Array} -> DocumentAt(raw, it.o)
    [] it.type = Regex               -> RegexAt(raw, it.o)
    [] it.type = DbPointer           -> DbPointerAt(raw, it.o)
    [] it.type = CodeWScope          -> ScopeAt(raw, it.o)
    [] it.type = Timestamp           -> TimestampAt(raw, it.o)
    [] it.type = DateTime            -> TimevalAt(raw, it.o)
    [] OTHER                         -> Slice(raw, it.o, it.o + Width[it.type])

(* Where the scope of a code with scope starts (the code keeps it as d4);  *)
(* and bson_iter_recurse, which takes the child at its word, its length    *)
(* unchecked.                                                              *)
ScopeStart(raw, o) == o + 2 + At(raw, o + 1)
IterRecurse(raw, it) ==
  IF it.type \in {Document, Array} THEN Iter(At(raw, it.o), 1, TRUE) ELSE NoIter

(* bson_iter_overwrite_<type>: a value of fixed size, written in place     *)
(* into the buffer in which the iterator's document starts at base.        *)
IterOverwrite(raw, base, it, type, cells) ==
  IF it.type = type THEN Written(raw, base + it.o, cells) ELSE raw
-----------------------------------------------------------------------------
VARIABLES
  bytes,   \* the buffer
  walks    \* the iterators, innermost last, and where each one's document starts

walkVars == <<bytes, walks>>

Walk(base, it) == [base |-> base, it |-> it]
Innermost == Last(walks)
From(base) == Slice(bytes, base, Len(bytes))
Ahead(w) == From(w.base)                       \* the memory behind iter->raw
OnElement(it) == it.live /\ it.off > 0

WalkInit == bytes \in Received /\ walks = <<Walk(0, IterInit(bytes))>>

WalkOn ==
  /\ Innermost.it.live
  /\ walks' = [walks EXCEPT ![Len(walks)].it = IterNext(Ahead(Innermost), @)]
  /\ UNCHANGED bytes

(* A second iterator, on the child; and bson_init_static or                *)
(* bson_iter_init_from_data on the scope that bson_iter_codewscope gives.  *)
Enter(base, it) ==
  /\ it.live /\ walks' = Append(walks, Walk(base, it))
  /\ UNCHANGED bytes
EnterDocument(w) == OnElement(w.it) /\ Enter(w.base + w.it.o, IterRecurse(Ahead(w), w.it))
EnterScope(w) ==
  LET base == w.base + ScopeStart(Ahead(w), w.it.o)
  IN /\ OnElement(w.it) /\ w.it.type = CodeWScope
     /\ Enter(base, IterInitFromData(From(base), At(bytes, base)))

(* The caller goes on with the iterator it came from. *)
Leave == Len(walks) > 1 /\ walks' = Front(walks) /\ UNCHANGED bytes

Overwrite(w, cells) ==
  /\ OnElement(w.it) /\ w.it.type \in Fixed /\ Len(cells) = Width[w.it.type]
  /\ bytes' = IterOverwrite(bytes, w.base, w.it, w.it.type, cells)
  /\ UNCHANGED walks
OverwriteAny(w) ==
  \E n \in 1..4, v \in Values : Overwrite(w, [i \in 1..n |-> v])

WalkNext == WalkOn \/ EnterDocument(Innermost) \/ EnterScope(Innermost) \/ Leave
            \/ OverwriteAny(Innermost)
WalkSpec == WalkInit /\ [][WalkNext]_walkVars
-----------------------------------------------------------------------------
(* The last cell that the accessor of an element reads. *)
LastRead(raw, it) ==
  CASE it.type \in Texts    -> it.o + At(raw, it.o)
    [] it.type = Binary     -> it.o + 1 + At(raw, it.o)
    [] it.type = Regex      -> ZeroFrom(raw, ZeroFrom(raw, it.o, it.len) + 1, it.len)
    [] it.type = DbPointer  -> it.o + At(raw, it.o) + OidCells
    [] it.type = CodeWScope ->
         ScopeStart(raw, it.o) + At(raw, ScopeStart(raw, it.o)) - 1
    [] it.type \in {Document, Array} -> it.o + At(raw, it.o) - 1
    [] OTHER                -> it.o + Width[it.type] - 1

(* Whatever a server has sent, and however deep a caller goes: each        *)
(* iterator that is live ends inside the buffer, the one into a child      *)
(* inside the element it was started from; all that its accessors read or  *)
(* overwrite lies in its element, and the element in its document.  And    *)
(* what is overwritten through an inner iterator cannot change what the    *)
(* outer ones have accepted already, since they do not look again.         *)
InElement(raw, it) ==
  /\ it.off < it.o /\ LastRead(raw, it) < it.next /\ it.o <= it.next /\ it.next < it.len
InsideOuter(w, outer) ==
  w.base >= outer.base + outer.it.o /\ w.base + w.it.len <= outer.base + outer.it.next
WalkInside ==
  \A i \in DOMAIN walks : walks[i].it.live =>
    /\ walks[i].base + walks[i].it.len <= Len(bytes)
    /\ OnElement(walks[i].it) => InElement(Ahead(walks[i]), walks[i].it)
    /\ i > 1 => InsideOuter(walks[i], walks[i - 1])
=============================================================================
