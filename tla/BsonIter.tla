------------------------------ MODULE BsonIter ------------------------------
(***************************************************************************)
(* What is built on libbson's iterator (bson-iter.c): reading a document   *)
(* all the way down, finding by key and by path, and copying elements      *)
(* (bson.c); and that all of it reads back what BsonDocument has written.  *)
(***************************************************************************)
EXTENDS BsonDocument, BsonWalk

RECURSIVE Onward(_, _)
Onward(raw, it) == IF it.live THEN <<it>> \o Onward(raw, IterNext(raw, it)) ELSE <<>>
IterFrom(raw, it) == Onward(raw, IterNext(raw, it))
Elements(raw) == IterFrom(raw, IterInit(raw))
-----------------------------------------------------------------------------
(* What a document says, all the way down. *)
RECURSIVE Decoded(_)
Decoded(raw) ==
  LET Read(it) == CASE it.type \in {Document, Array} -> Decoded(DocumentAt(raw, it.o))
                    [] it.type = CodeWScope ->
                         <<ScopeAt(raw, it.o)[1], Decoded(ScopeAt(raw, it.o)[2])>>
                    [] OTHER -> IterValue(raw, it)
  IN FoldLeft(LAMBDA tree, it : Append(tree, [type |-> it.type, key |-> it.key, val |-> Read(it)]),
              <<>>, Elements(raw))
-----------------------------------------------------------------------------
(* bson_iter_find_w_len, bson_iter_find and bson_iter_find_case stop at    *)
(* the first match.                                                        *)
FirstOf(its, matches) == IF matches = {} THEN NoIter ELSE its[CHOOSE i \in matches : \A j \in matches : i <= j]
Keyed(its, key) == FirstOf(its, {i \in DOMAIN its : its[i].key = key})
IterFind(raw, it, key) == Keyed(IterFrom(raw, it), key)

Lower(key) == [i \in DOMAIN key |-> IF key[i] \in 65..90 THEN key[i] + 32 ELSE key[i]]
KeyedCase(its, key) == FirstOf(its, {i \in DOMAIN its : Lower(its[i].key) = Lower(key)})
IterFindCase(raw, it, key) == KeyedCase(IterFrom(raw, it), key)

(* bson_iter_find_descendant: a dotted path, as the sequence of its parts. *)
(* Only the first element with a part's key is looked into.                *)
RECURSIVE Descend(_, _, _)
FindDescendant(raw, path) == Descend(raw, IterFind(raw, IterInit(raw), Head(path)), Tail(path))
Descend(raw, it, path) ==
  CASE it.live /\ path = <<>> -> <<IterValue(raw, it)>>
    [] it.live /\ path # <<>> /\ it.type \in {Document, Array} ->
         FindDescendant(DocumentAt(raw, it.o), path)
    [] OTHER -> <<>>

HasField(raw, path) == FindDescendant(raw, path) # <<>>
CountKeys(raw) == Len(Elements(raw))

(* bson_append_iter: the element again, as its accessor reads it; children *)
(* that bson_init_static refuses are not appended.                         *)
Embedded(raw, it) ==
  CASE it.type \in {Document, Array} -> IterValue(raw, it)
    [] it.type = CodeWScope          -> IterValue(raw, it)[2]
    [] OTHER                         -> Encoding(<<>>)
CopiedElement(raw, it) ==
  LET payload == CASE it.type \in {Document, Array} -> EmbeddedCells(DocumentAt(raw, it.o))
                   [] it.type = CodeWScope -> ScopeCells(ScopeAt(raw, it.o)[1], ScopeAt(raw, it.o)[2])
                   [] OTHER -> Payload([type |-> it.type, val |-> IterValue(raw, it)])
  IN IF StaticOk(Embedded(raw, it)) THEN <<it.type>> \o it.key \o <<0>> \o payload ELSE <<>>

(* bson_copy_to_excluding *)
CopyExcluding(raw, excluded) ==
  LET its == SelectSeq(Elements(raw), LAMBDA e : e.key \notin excluded)
      body == FoldLeft(LAMBDA out, it : out \o CopiedElement(raw, it), <<>>, its)
  IN <<Len(body) + Empty>> \o body \o <<0>>

(* bson_compare is memcmp of what follows the lengths, then the lengths.   *)
Compare(a, b) ==
  LET Differ == {i \in 2..(IF Len(a) < Len(b) THEN Len(a) ELSE Len(b)) : a[i] # b[i]}
  IN IF Differ # {} THEN (IF a[Min(Differ)] < b[Min(Differ)] THEN -1 ELSE 1)
     ELSE IF Len(a) = Len(b) THEN 0 ELSE IF Len(a) < Len(b) THEN -1 ELSE 1
-----------------------------------------------------------------------------
Whole == SubSeq(buf, 1, docs[1].len)

(* The elements of a finished document can be overwritten. *)
OverwriteAt(it, i, val) ==
  /\ it.type \in DOMAIN Width \ {Timestamp, DateTime} /\ Len(val) = Width[it.type] /\ val # <<>>
  /\ buf' = IterOverwrite(buf, 0, it, it.type, val)
  /\ trees' = [trees EXCEPT ![1][i].val = val]
  /\ UNCHANGED <<inline, docs, appends>>
DocOverwrite(i, val) ==
  /\ Len(docs) = 1 /\ i \in DOMAIN trees[1]
  /\ OverwriteAt(Elements(Whole)[i], i, val)

(* A finished document reads back as what was appended, element by         *)
(* element and all the way down; going straight to an element's offset,    *)
(* copying everything, or everything but one key, and searching for a key  *)
(* or a path, all agree with it.                                           *)
FirstWith(tree, key) == SelectInSeq(tree, LAMBDA e : e.key = key)
CopyAgrees(raw, tree, excluded, copy) ==
  /\ copy = Encoding(SelectSeq(tree, LAMBDA e : e.key \notin excluded))
  /\ Compare(copy, raw) = 0 <=> excluded = {}
FindAgrees(raw, tree, keys, its, i) ==
  LET k == tree[i].key IN
  /\ IterFind(raw, IterInit(raw), k) = its[i]
  /\ its[i] = IterFindCase(raw, IterInit(raw), k)
       \/ \E j \in 1..(i - 1) : Lower(tree[j].key) = Lower(k)
  /\ \A j \in keys :
       HasField(raw, <<k, j>>) <=>
         tree[i].type \in {Document, Array} /\ FirstWith(tree[i].val, j) # 0
Agrees(raw, tree, keys, its) ==
  /\ Decoded(raw) = tree /\ CountKeys(raw) = Len(tree)
  /\ \A i \in DOMAIN its : IterAtOffset(raw, its[i].off, KeyLen(its[i])) = its[i]
  /\ \A excluded \in {{}} \union {{k} : k \in keys} :
       CopyAgrees(raw, tree, excluded, CopyExcluding(raw, excluded))
  /\ \A i \in {FirstWith(tree, k) : k \in keys} : FindAgrees(raw, tree, keys, its, i)
IterAgrees ==
  Len(docs) = 1 =>
    Agrees(Whole, trees[1], {trees[1][i].key : i \in DOMAIN trees[1]}, Elements(Whole))
=============================================================================
