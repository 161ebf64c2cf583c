----------------------------- MODULE BsonVisit -----------------------------
(***************************************************************************)
(* Walking a whole document: bson_iter_visit_all (bson-iter.c), and its    *)
(* two visitors, bson_validate and bson_as_json (bson.c).                  *)
(*                                                                         *)
(* A visitor cannot change the walk, only stop it, so the walk is the      *)
(* sequence of elements it would deliver and how it would end.  Of an      *)
(* error offset only whether it is set is kept.                            *)
(***************************************************************************)
EXTENDS BsonIter, BsonUtf8

CONSTANT MaxRecursion   \* BSON_MAX_RECURSION: how deep as_json goes

(* What becomes of an element: its visitor function gets the value; or a   *)
(* child that is no document is skipped, with err set until the next step; *)
(* or a string that is no UTF-8 ends the walk, as a visitor would.         *)
Strings(raw, it) ==
  CASE it.type \in Texts      -> <<TextAt(raw, it.o)>>
    [] it.type = Regex        -> <<RegexAt(raw, it.o)[1]>>
    [] it.type = DbPointer    -> <<DbPointerAt(raw, it.o)[1]>>
    [] it.type = CodeWScope   -> <<ScopeAt(raw, it.o)[1]>>
    [] OTHER                  -> <<>>
Fate(raw, it) ==
  IF \E string \in ToSet(Strings(raw, it)) : ~Utf8Valid(string, TRUE) THEN "refused"
  ELSE IF ~StaticOk(Embedded(raw, it)) THEN "skipped"
  ELSE "visited"

RECURSIVE Visits(_, _), VisitsFrom(_, _, _)
Visits(raw, it) ==
  IF ~it.live THEN [visits |-> <<>>, corrupt |-> it.err]
  ELSE IF ~Utf8Valid(it.key, FALSE) THEN [visits |-> <<>>, corrupt |-> TRUE]
  ELSE VisitsFrom(raw, it, Fate(raw, it))
VisitsFrom(raw, it, fate) ==
  LET visit == <<[it |-> it, fate |-> fate]>>
  IN IF fate = "refused" THEN [visits |-> visit, corrupt |-> FALSE]
     ELSE [Visits(raw, IterNext(raw, [it EXCEPT !.err = fate = "skipped"]))
             EXCEPT !.visits = visit \o @]
VisitAll(raw) == Visits(raw, IterNext(raw, IterInit(raw)))
-----------------------------------------------------------------------------
(* bson_validate.  Dollar keys are allowed only as those of a DBRef, $ref, *)
(* $id and $db in this order at the start of a child; `phase' says how far *)
(* one has been recognised.                                                *)
Dollar == 36
RefKey == <<Dollar, 114>>
IdKey == <<Dollar, 105>>
DbKey == <<Dollar, 100>>
DanglingPhases == {"id key", "ref utf8", "db utf8"}
NextPhase(phase, key) ==
  CASE phase = "ref key" /\ key = RefKey -> "ref utf8"
    [] phase = "id key" /\ key = IdKey   -> "db key"
    [] phase = "db key" /\ key = DbKey   -> "db utf8"
    [] OTHER                             -> "refused"
Phased(phase, key) ==
  IF key # <<>> /\ key[1] = Dollar THEN NextPhase(phase, key)
  ELSE IF phase \in DanglingPhases THEN "refused" ELSE "not dbref"

(* _bson_iter_validate_before *)
ValidateBefore(key, flags, state) ==
  LET phase == IF "dollar" \in flags THEN Phased(state.phase, key) ELSE state.phase
      bad == \/ "empty" \in flags /\ key = <<>>
             \/ phase = "refused"
             \/ "dot" \in flags /\ Contains(key, 46)
  IN [state EXCEPT !.err = @ \/ bad, !.stop = bad, !.phase = IF bad THEN @ ELSE phase]

(* _bson_iter_validate_utf8 *)
ValidateUtf8(value, flags, state) ==
  LET bad == "utf8" \in flags /\ ~Utf8Valid(value, "allow null" \in flags)
      phase == CASE state.phase = "ref utf8" -> "id key"
                 [] state.phase = "db utf8"  -> "not dbref"
                 [] OTHER                    -> state.phase
  IN [state EXCEPT !.err = @ \/ bad, !.stop = bad,
                   !.phase = IF bad \/ "dollar" \notin flags THEN @ ELSE phase]

RECURSIVE ValidateDocument(_, _, _)
Fresh == [err |-> FALSE, stop |-> FALSE, phase |-> "start"]
Valid(raw, flags) == ~ValidateDocument(raw, flags, Fresh).err

(* _bson_iter_validate_codewscope stops the walk when the scope is valid,  *)
(* and goes on when it is not.                                             *)
ValidateScope(scope, flags, state) ==
  LET ok == Valid(scope, flags) IN [state EXCEPT !.err = @ \/ ~ok, !.stop = ok]

ValidateValue(raw, visit, flags, state) ==
  CASE visit.fate = "refused" -> [state EXCEPT !.stop = TRUE]
    [] visit.fate = "skipped" -> state
    [] visit.fate = "visited" /\ visit.it.type = Utf8 ->
         ValidateUtf8(IterValue(raw, visit.it), flags, state)
    [] visit.fate = "visited" /\ visit.it.type \in {Document, Array} ->
         ValidateDocument(IterValue(raw, visit.it), flags, state)
    [] visit.fate = "visited" /\ visit.it.type = CodeWScope ->
         ValidateScope(IterValue(raw, visit.it)[2], flags, state)
    [] OTHER -> state

ValidateVisited(raw, visit, flags, before) ==
  IF before.stop THEN before ELSE ValidateValue(raw, visit, flags, before)
ValidateVisit(raw, visit, flags, state) ==
  IF state.stop THEN state
  ELSE ValidateVisited(raw, visit, flags, ValidateBefore(visit.it.key, flags, state))
Walked(walk, end) == [end EXCEPT !.err = @ \/ (walk.corrupt /\ ~end.stop)]
ValidateVisits(raw, walk, flags, start) ==
  Walked(walk, FoldLeft(LAMBDA state, visit : ValidateVisit(raw, visit, flags, state),
                        start, walk.visits))

(* _bson_iter_validate_document: the phase of the parent is restored, but  *)
(* not after a child that ends within a DBRef.                             *)
PhaseLost(parent, child) == child      \* mutant: the parent goes on in the child's phase
PhaseRestored(parent, child) == parent
ValidateEnd(state, end) ==
  IF end.phase \in DanglingPhases THEN [end EXCEPT !.err = TRUE, !.stop = TRUE]
  ELSE [end EXCEPT !.stop = FALSE, !.phase = PhaseRestored(state.phase, end.phase)]
ValidateDocument(raw, flags, state) ==
  LET start == [state EXCEPT !.stop = FALSE,
                             !.phase = IF @ = "start" THEN "top" ELSE "ref key"]
  IN IF Len(raw) < Empty THEN [state EXCEPT !.err = TRUE, !.stop = TRUE]
     ELSE ValidateEnd(state, ValidateVisits(raw, VisitAll(raw), flags, start))
-----------------------------------------------------------------------------
(* bson_as_json.  The text is a sequence of units: a character, or a whole *)
(* word or number; a base64 digit stands for its byte.                     *)
Quote == 34
Comma == 44
Colon == 58
Space == 32
Unlimited == -1
Word(n) == 1000 + n                 \* "$numberInt" and the like
Quoted(chars) == <<Quote>> \o chars \o <<Quote>>
KeyText(chars) == Quoted(chars) \o <<Space, Colon, Space>>
Braced(inner) == <<123, Space>> \o inner \o <<Space, 125>>
Wrapped(word, inner) == Braced(KeyText(<<word>>) \o inner)
Wrapped2(word, inner, word2, inner2) ==
  Wrapped(word, inner \o <<Comma, Space>> \o KeyText(<<word2>>) \o inner2)
Escaped(chars) == EscapeForJson(chars, FALSE)   \* a C string
EscapedText(chars) == EscapeForJson(chars, TRUE)

JsonInteger(it, v, mode) ==
  IF mode = "canonical" THEN Wrapped(Word(it.type), Quoted(v)) ELSE v

(* Infinities and NaNs, here those with a high word of SpecialHigh, are    *)
(* not left bare in relaxed mode.                                          *)
SpecialHigh == 2047
JsonDouble(it, v, mode) ==
  IF mode = "legacy" \/ (mode = "relaxed" /\ v[2] # SpecialHigh) THEN v
  ELSE Wrapped(Word(it.type), Quoted(v))

JsonDate(it, v, mode) ==
  CASE mode = "canonical" \/ (mode = "relaxed" /\ v[1] < 0) ->
         Wrapped(Word(it.type), Wrapped(Word(Int64), Quoted(v)))
    [] mode = "relaxed" /\ v[1] >= 0 -> Wrapped(Word(it.type), Quoted(v))
    [] mode = "legacy"               -> Wrapped(Word(it.type), v)

JsonBinary(it, v, mode) ==
  LET base64 == Quoted(v[2])   subtype == Quoted(<<v[1]>>)
  IN IF mode = "legacy" THEN Wrapped2(Word(1), base64, Word(2), subtype)
     ELSE Wrapped(Word(1), Wrapped2(Word(3), base64, Word(4), subtype))

JsonRegex(it, v, mode) ==
  LET pattern == Quoted(Escaped(v[1])[2])   options == Quoted(SortedOptions(v[2]))
  IN IF mode = "legacy" THEN Wrapped2(Word(5), pattern, Word(6), options)
     ELSE Wrapped(Word(7), Wrapped2(Word(8), pattern, Word(9), options))

JsonDbPointer(it, v, mode) ==
  LET ref == Quoted(Escaped(v[1])[2])   id == Quoted(v[2])
  IN IF mode = "legacy" THEN Wrapped2(Word(20), ref, Word(21), id)
     ELSE Wrapped(Word(22), Wrapped2(Word(20), ref, Word(21), Wrapped(Word(23), id)))

JsonTimestamp(v) == Wrapped(Word(24), Wrapped2(Word(25), <<v[1]>>, Word(26), <<v[2]>>))

JsonUtf8(v) == Quoted(EscapedText(v)[2])
JsonCode(it, v, mode) ==      \* symbols too
  IF it.type = Code \/ mode # "legacy" THEN Wrapped(Word(it.type), JsonUtf8(v)) ELSE JsonUtf8(v)

JsonBool(v) == <<Word(30 + v[1])>>
JsonMinMax(it) == Wrapped(Word(it.type), <<49>>)
JsonDecimal(it, v) == Wrapped(Word(it.type), Quoted(v))
JsonPlain(it, v) ==      \* undefined, null, oid
  CASE it.type = Null      -> <<Word(it.type)>>
    [] it.type = Undefined -> Wrapped(Word(it.type), <<Word(31)>>)
    [] it.type = Oid       -> Wrapped(Word(it.type), Quoted(v))

JsonScalar(raw, it, mode) ==
  LET v == IterValue(raw, it) IN
  CASE it.type \in {Int32, Int64} -> JsonInteger(it, v, mode)
    [] it.type = Double           -> JsonDouble(it, v, mode)
    [] it.type = DateTime         -> JsonDate(it, v, mode)
    [] it.type = Timestamp        -> JsonTimestamp(v)
    [] it.type = Binary           -> JsonBinary(it, v, mode)
    [] it.type = Regex            -> JsonRegex(it, v, mode)
    [] it.type = DbPointer        -> JsonDbPointer(it, v, mode)
    [] it.type = Utf8             -> JsonUtf8(v)
    [] it.type \in {Code, Symbol} -> JsonCode(it, v, mode)
    [] it.type = Bool             -> JsonBool(v)
    [] it.type \in {MinKey, MaxKey} -> JsonMinMax(it)
    [] it.type = Decimal128       -> JsonDecimal(it, v)
    [] OTHER                      -> JsonPlain(it, v)

(* A visitor function stops the walk if a C string it is given will not be *)
(* escaped.                                                                *)
Escapes(raw, it) ==
  CASE it.type \in Texts -> EscapedText(TextAt(raw, it.o))[1]
    [] it.type = CodeWScope -> EscapedText(ScopeAt(raw, it.o)[1])[1]
    [] it.type \in {Regex, DbPointer} -> Escaped(CString(Strings(raw, it)[1]))[1]
    [] OTHER -> TRUE

(* The state of one level: the text so far, whether nothing is in it yet,  *)
(* whether max_len was reached, whether something corrupt was met, and     *)
(* whether the walk has stopped.                                           *)
Level(open, full) ==
  [str |-> open, first |-> TRUE, full |-> full, bad |-> FALSE, stop |-> FALSE]
Rest(max, str) == IF max = Unlimited THEN Unlimited
                  ELSE IF max > Len(str) THEN max - Len(str) ELSE 0
Opening(isArray) == IF isArray THEN <<91, Space>> ELSE <<123, Space>>
Closing(isArray) == IF isArray THEN <<Space, 93>> ELSE <<Space, 125>>

RECURSIVE JsonVisits(_, _, _, _), AsJson(_, _, _, _)
JsonNull == <<-2>>   \* NULL is returned

(* _bson_as_json_visit_before: the key, unless it cannot be escaped. *)
JsonBefore(it, keys, level) ==
  LET comma == IF level.first THEN <<>> ELSE <<Comma, Space>>
  IN IF level.full THEN [level EXCEPT !.stop = TRUE]
     ELSE [level EXCEPT !.str = @ \o comma \o (IF keys THEN KeyText(Escaped(it.key)[2]) ELSE <<>>),
                        !.first = FALSE, !.stop = keys /\ ~Escaped(it.key)[1]]

(* _bson_as_json_visit_document and _bson_as_json_visit_array: a level of  *)
(* its own, with the room that is left.  If it fills up, the parent goes   *)
(* on to its own visit_after, which truncates and stops.                   *)
ChildTextLost(end) == <<>>      \* mutant: a child cut short is left out
ChildText(end) == IF end.full THEN end.str ELSE <<>>
JsonChildEnd(end, isArray, level) ==
  IF ~end.stop
  THEN [level EXCEPT !.str = @ \o end.str \o Closing(isArray), !.bad = @ \/ end.bad]
  ELSE [level EXCEPT !.str = @ \o ChildText(end), !.bad = @ \/ end.bad, !.stop = ~end.full]
JsonChild(child, isArray, opts, level) ==
  LET rest == Rest(opts.max, level.str)
  IN IF opts.depth >= MaxRecursion THEN [level EXCEPT !.str = @ \o Braced(<<46, 46, 46>>)]
     ELSE JsonChildEnd(
            JsonVisits(child, VisitAll(child),
                       [opts EXCEPT !.keys = ~isArray, !.depth = @ + 1, !.max = rest],
                       Level(Opening(isArray), rest = 0)),
            isArray, level)

(* _bson_as_json_visit_codewscope: the scope is a JSON text of its own. *)
JsonScopeEnd(scope, level) ==
  IF scope = JsonNull THEN [level EXCEPT !.stop = TRUE]
  ELSE [level EXCEPT !.str = @ \o scope \o <<Space, 125>>]
JsonScopeFrom(scope, opts, level) ==
  JsonScopeEnd(AsJson(scope, opts.mode, Rest(opts.max, level.str), FALSE), level)
JsonScope(v, opts, level) ==
  LET code == <<123, Space>> \o KeyText(<<Word(13)>>) \o Quoted(EscapedText(v[1])[2])
              \o <<Comma, Space>> \o KeyText(<<Word(15)>>)
  IN JsonScopeFrom(v[2], opts, [level EXCEPT !.str = @ \o code])

JsonValue(raw, visit, opts, level) ==
  LET it == visit.it IN
  CASE visit.fate = "refused" -> [level EXCEPT !.stop = TRUE]
    [] visit.fate = "skipped" -> level
    [] visit.fate = "visited" /\ ~Escapes(raw, it) -> [level EXCEPT !.stop = TRUE]
    [] visit.fate = "visited" /\ Escapes(raw, it) /\ it.type \in {Document, Array} ->
         JsonChild(DocumentAt(raw, it.o), it.type = Array, opts, level)
    [] visit.fate = "visited" /\ Escapes(raw, it) /\ it.type = CodeWScope ->
         JsonScope(ScopeAt(raw, it.o), opts, level)
    [] OTHER -> [level EXCEPT !.str = @ \o JsonScalar(raw, it, opts.mode)]

(* _bson_as_json_visit_after *)
JsonAfter(max, level) ==
  IF level.stop \/ max = Unlimited \/ Len(level.str) < max THEN level
  ELSE [level EXCEPT !.full = TRUE, !.stop = TRUE, !.str = SubSeq(@, 1, max)]

JsonVisited(raw, visit, opts, before) ==
  IF before.stop THEN before ELSE JsonAfter(opts.max, JsonValue(raw, visit, opts, before))
JsonVisit(raw, visit, opts, level) ==
  IF level.stop THEN level
  ELSE JsonVisited(raw, visit, opts, JsonBefore(visit.it, opts.keys, level))
JsonWalked(walk, end) == [end EXCEPT !.bad = @ \/ (walk.corrupt /\ ~end.stop)]
JsonVisits(raw, walk, opts, start) ==
  JsonWalked(walk, FoldLeft(LAMBDA level, visit : JsonVisit(raw, visit, opts, level),
                            start, walk.visits))

(* _bson_as_json_visit_all: an empty document is written whatever max is.  *)
JsonEnd(end, max, isArray) ==
  LET room == max - Len(end.str)
  IN IF (end.stop \/ end.bad) /\ ~end.full THEN JsonNull
     ELSE CASE max = Unlimited \/ room > 1 -> end.str \o Closing(isArray)
            [] max # Unlimited /\ room = 1 -> Append(end.str, Space)
            [] OTHER                       -> end.str
AsJson(raw, mode, max, isArray) ==
  IF Len(raw) = Empty THEN Opening(isArray) \o Tail(Closing(isArray))
  ELSE JsonEnd(JsonVisits(raw, VisitAll(raw),
                          [mode |-> mode, keys |-> ~isArray, depth |-> 0, max |-> max],
                          Level(Opening(isArray), FALSE)),
               max, isArray)
-----------------------------------------------------------------------------
(* bson_validate finds what its flags ask for in a finished document and   *)
(* nothing else: strings with 0s, empty keys, keys with dots, and dollar   *)
(* keys that are not the DBRef at the start of a child.  Code with scope   *)
(* is left out: see ValidatedIsSound.                                      *)
HasDollar(tree) == \E i \in DOMAIN tree : tree[i].key # <<>> /\ tree[i].key[1] = Dollar
DbRefLen(tree) ==
  IF Len(tree) >= 3 /\ tree[3].key = DbKey /\ tree[3].type = Utf8 THEN 3 ELSE 2
IsDbRef(tree) ==
  /\ Len(tree) >= 2
  /\ tree[1].key = RefKey /\ tree[1].type = Utf8 /\ tree[2].key = IdKey
  /\ ~HasDollar(SubSeq(tree, DbRefLen(tree) + 1, Len(tree)))
RECURSIVE Acceptable(_, _, _)
Acceptable(tree, flags, top) ==
  /\ "dollar" \in flags => ~HasDollar(tree) \/ (~top /\ IsDbRef(tree))
  /\ \A i \in DOMAIN tree :
       /\ "empty" \in flags => tree[i].key # <<>>
       /\ "dot" \in flags => ~Contains(tree[i].key, 46)
       /\ "utf8" \in flags /\ "allow null" \notin flags /\ tree[i].type = Utf8
            => ~Contains(tree[i].val, 0)
       /\ tree[i].type \in {Document, Array} => Acceptable(tree[i].val, flags, FALSE)
ValidateAgrees ==
  Len(docs) = 1 =>
    \A flags \in {{}, {"dollar"}, {"utf8"}, {"utf8", "allow null"}, {"empty", "dot"}} :
      Valid(Whole, flags) <=> Acceptable(trees[1], flags, TRUE)

(* With a limit, bson_as_json gives the first max_len units of what it     *)
(* gives without one, however deep the limit strikes, and never NULL; only *)
(* an empty document is not cut.                                           *)
TruncatesTo(raw, full) ==
  /\ full # JsonNull
  /\ \A max \in 0..(Len(full) + 1) :
       AsJson(raw, "canonical", max, FALSE)
         = SubSeq(full, 1, IF max < Len(full) THEN max ELSE Len(full))
JsonTruncates ==
  Len(docs) = 1 /\ trees[1] # <<>> =>
    /\ TruncatesTo(Whole, AsJson(Whole, "canonical", Unlimited, FALSE))
    /\ \A mode \in {"legacy", "relaxed"} : AsJson(Whole, mode, Unlimited, FALSE) # JsonNull

(* What the comments of bson.h (bson_validate "walk[s] through the         *)
(* document ... inspecting the fields") and of mongo_wire.c:140-143        *)
(* ("Validate the full structure before letting libbson (or callers)       *)
(* traverse it") promise: a document that is accepted is well formed all   *)
(* the way down, that is, it is the encoding of what it decodes to.        *)
ValidatedIsSound ==
  Len(docs) = 1 =>
    \A raw \in {[Whole EXCEPT ![i] = c] : i \in 2..(Len(Whole) - 1), c \in 0..8} :
      Valid(raw, {}) => Encoding(Decoded(raw)) = raw
=============================================================================
