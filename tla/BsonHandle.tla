----------------------------- MODULE BsonHandle -----------------------------
(***************************************************************************)
(* Who owns what of a bson_t (bson.c): its struct, on the heap or not; its *)
(* bytes, inside the struct, in a block of its own, in the caller's        *)
(* buffer, in its parent or in memory it may not write; and how growing,   *)
(* copying, stealing and destroying hand them on.                          *)
(***************************************************************************)
EXTENDS BsonSizes, FiniteSets, FiniteSetsExt

CONSTANTS Handles,     \* bson_t variables of the program
          Blocks,      \* heap blocks; the lowest free one is reused first
          StructSize,  \* sizeof (bson_t)
          MaxLen,      \* bound: length of a document that is still changed
          NULL

HandleAssumption == /\ Blocks \subseteq Nat /\ IsFiniteSet(Blocks) /\ NULL \notin Blocks
                    /\ StructSize \in Nat \ {0} /\ MaxLen \in 0..MaxSize
ASSUME HandleAssumption

VARIABLES
  heap,     \* the size of each block, 0 while it is free
  handle,   \* what each bson_t says: flags, the block it lies in (NULL: the stack),
            \* where its bytes are, its length and its parent
  userBuf,  \* the caller's own buffer, shared with a bson_new_from_buffer document
  taken,    \* blocks that bson_destroy_with_steal has given to the caller
  leaked,   \* ghost: blocks that were let go of with nobody left to free them
  hollow    \* ghost: documents whose length was taken on trust, or whose bytes were
            \* lost, and which have not grown since

handleVars == <<heap, handle, userBuf, taken, leaked, hollow>>

Dead == [flags |-> {"DEAD"}, struct |-> NULL, alloc |-> NULL, len |-> 0, parent |-> NULL]
Live(h) == "DEAD" \notin handle[h].flags
Has(h, flags) == handle[h].flags \intersect flags # {}
New(flags, struct, alloc, len) ==
  [flags |-> flags, struct |-> struct, alloc |-> alloc, len |-> len, parent |-> NULL]

HandleInit ==
  /\ heap = [b \in Blocks |-> 0] /\ handle = [h \in Handles |-> Dead]
  /\ userBuf = NULL /\ taken = {} /\ leaked = {} /\ hollow = {}

(* The heap.  bson_malloc aborts rather than fail. *)
Unused(mem) == Min({b \in Blocks : mem[b] = 0})
Malloc(mem, size) == [mem EXCEPT ![Unused(mem)] = size]
FreeBlock(mem, b) == IF b = NULL THEN mem ELSE [mem EXCEPT ![b] = 0]
Room(n) == Cardinality({b \in Blocks : heap[b] = 0}) >= n

(* The block with a document's bytes: impl->buf is a pointer to a pointer, *)
(* the caller's for bson_new_from_buffer, the parent's for a child.  A     *)
(* document that was stolen from the caller's buffer is STATIC, and points *)
(* at its own alloc, where there is nothing yet.                           *)
OverCaller(h) == Has(h, {"NO_FREE"}) /\ ~Has(h, {"STATIC"})
OwnBuf(h) == IF OverCaller(h) THEN userBuf ELSE handle[h].alloc
Buf(h) == IF Has(h, {"CHILD"}) THEN OwnBuf(handle[h].parent) ELSE OwnBuf(h)
Lost(h) == h \in hollow /\ ~OverCaller(h)     \* no bytes at all
Size(b) == IF b = NULL THEN 0 ELSE heap[b]
Put(h, record) == handle' = [handle EXCEPT ![h] = record]
-----------------------------------------------------------------------------
(* bson_init *)
Setup(h) ==
  /\ ~Live(h) /\ Put(h, New({"STATIC", "INLINE"}, NULL, NULL, Empty))
  /\ UNCHANGED <<heap, userBuf, taken, leaked, hollow>>

(* bson_init_static over memory of the program's. *)
SetupStatic(h, len) ==
  /\ ~Live(h) /\ Put(h, New({"STATIC", "RDONLY"}, NULL, NULL, len))
  /\ UNCHANGED <<heap, userBuf, taken, leaked, hollow>>

(* bson_sized_new; bson_new, bson_new_from_data and bson_copy are this     *)
(* with a length.                                                          *)
SizedNew(h, size, len) ==
  /\ ~Live(h) /\ Room(2)
  /\ LET s == Unused(heap)
         one == Malloc(heap, StructSize)
     IN IF size <= InlineCap
        THEN heap' = one /\ Put(h, New({"INLINE"}, s, NULL, len))
        ELSE heap' = Malloc(one, size) /\ Put(h, New({}, s, Unused(one), len))
  /\ UNCHANGED <<userBuf, taken, leaked, hollow>>
NewFromData(h, len) == SizedNew(h, len, len)
Copy(src, h) ==
  /\ Live(src) /\ ~Lost(src)     \* memcpy from NULL
  /\ SizedNew(h, handle[src].len, handle[src].len)

(* bson_new_from_buffer: it makes the buffer if the caller has none.  In   *)
(* the caller's it takes the length word at its word, however large the    *)
(* buffer is, and looks for the last NUL there.  What it refuses (a buffer *)
(* of no document's size, another last byte) it frees its struct for and   *)
(* leaves as it was.  The caller sees the buffer move, and has it used by  *)
(* one document at a time.                                                 *)
NewFromBuffer(h, word) ==
  /\ ~Live(h) /\ \A g \in Handles : ~OverCaller(g)
  /\ LET s == Unused(heap)
         one == Malloc(heap, StructSize)
     IN \/ /\ userBuf = NULL /\ Room(2)
           /\ heap' = Malloc(one, Empty) /\ userBuf' = Unused(one)
           /\ Put(h, New({"NO_FREE"}, s, NULL, Empty)) /\ hollow' = hollow
        \/ /\ userBuf # NULL /\ Room(1) /\ heap[userBuf] \in Empty..MaxSize
           /\ heap' = one /\ userBuf' = userBuf
           /\ Put(h, New({"NO_FREE"}, s, NULL, word))
           /\ hollow' = IF word <= heap[userBuf] THEN hollow ELSE hollow \union {h}
  /\ UNCHANGED <<taken, leaked>>

(* bson_copy_to *)
CopyTo(src, h) ==
  /\ ~Live(h) /\ Live(src) /\ ~Lost(src) /\ Room(1)
  /\ IF Has(src, {"INLINE"})
     THEN heap' = heap /\ Put(h, New({"STATIC", "INLINE"}, NULL, NULL, handle[src].len))
     ELSE /\ heap' = Malloc(heap, PowerOfTwo(handle[src].len))
          /\ Put(h, New({"STATIC"}, NULL, Unused(heap), handle[src].len))
  /\ UNCHANGED <<userBuf, taken, leaked, hollow>>

(* _bson_grow by size: the bytes leave the struct, or a realloc moves them *)
(* and tells whoever holds the pointer to them.                            *)
Around(h) ==     \* offset and depth of a child
  IF Has(h, {"CHILD"}) THEN handle[handle[h].parent].len - Empty ELSE 0
Owner(h) == IF Has(h, {"CHILD"}) THEN handle[h].parent ELSE h
Required(h, size) == handle[h].len + size + Around(h)
HasRoom(h, size) ==
  Required(h, size) <= (IF Has(h, {"INLINE"}) THEN InlineCap ELSE Size(Buf(h)))
CanGrow(h, size) == HasRoom(h, size) \/ PowerOfTwo(Required(h, size)) <= MaxSize
Moved(h, size) ==
  LET owner == Owner(h)
      foreign == OverCaller(owner)
      to == Unused(heap)
  IN IF HasRoom(h, size)
     THEN [heap |-> heap, userBuf |-> userBuf, handle |-> handle]
     ELSE [heap |-> FreeBlock([heap EXCEPT ![to] = PowerOfTwo(Required(h, size))], Buf(h)),
           userBuf |-> IF foreign THEN to ELSE userBuf,
           handle |-> [handle EXCEPT ![owner].flags = @ \ {"INLINE"},
                                     ![owner].alloc = IF foreign THEN @ ELSE to]]
Resize(h, size, len) ==
  LET grown == Moved(h, size) IN
  /\ Room(1) /\ CanGrow(h, size)
  /\ heap' = grown.heap /\ userBuf' = grown.userBuf
  /\ handle' = [grown.handle EXCEPT ![h].len = len]
  /\ hollow' = hollow \ {h} /\ UNCHANGED <<taken, leaked>>

(* _bson_append of size cells; refused while a child is open, and for      *)
(* read-only memory.                                                       *)
Grow(h, size) ==
  /\ Live(h) /\ ~Has(h, {"IN_CHILD", "RDONLY"}) 
  /\ handle[h].len + size + Around(h) <= MaxLen
  /\ Resize(h, size, handle[h].len + size)

(* bson_reserve_buffer makes size the length. *)
Reserve(h, size) ==
  /\ Live(h) /\ ~Has(h, {"CHILD", "IN_CHILD", "RDONLY"})
  /\ Resize(h, size, size)

(* _bson_append_bson_begin and _end: the child is a bson_t of the caller's *)
(* that points at its parent's buffer pointer.                             *)
ChildCells == Empty + 2      \* an element with no key
BeginChild(parent, h) ==
  /\ Live(parent) /\ ~Live(h) /\ Room(1)
  /\ ~Has(parent, {"CHILD", "IN_CHILD", "RDONLY"}) /\ handle[parent].len + ChildCells <= MaxLen
  /\ LET begin == IF Has(parent, {"INLINE"}) THEN BeginSize - handle[parent].len ELSE 0
         size == IF begin > ChildCells THEN begin ELSE ChildCells
         grown == Moved(parent, size)
     IN /\ CanGrow(parent, size)
        /\ heap' = grown.heap /\ userBuf' = grown.userBuf
        /\ handle' = [grown.handle EXCEPT
             ![parent].flags = @ \union {"IN_CHILD"}, ![parent].len = @ + ChildCells,
             ![h] = [New({"CHILD", "NO_FREE", "STATIC"}, NULL, NULL, Empty)
                       EXCEPT !.parent = parent]]
  /\ hollow' = hollow \ {parent} /\ UNCHANGED <<taken, leaked>>
EndChild(h) ==
  /\ Live(h) /\ Has(h, {"CHILD"})
  /\ LET parent == handle[h].parent IN
     handle' = [handle EXCEPT ![parent].flags = @ \ {"IN_CHILD"},
                              ![parent].len = @ + handle[h].len - Empty, ![h] = Dead]
  /\ UNCHANGED <<heap, userBuf, taken, leaked, hollow>>

(* bson_steal: the struct's contents move, and a heap struct is freed.     *)
(* From the caller's buffer it makes a document whose buffer pointer leads *)
(* to the alloc that nobody set; the flag that it may not free stays.      *)
Steal(src, h) ==
  /\ Live(src) /\ ~Live(h)
  /\ IF Has(src, {"CHILD", "IN_CHILD", "RDONLY"})
     THEN /\ Put(h, New({"STATIC", "INLINE"}, NULL, NULL, Empty))
          /\ heap' = heap /\ hollow' = hollow
     ELSE /\ handle' = [handle EXCEPT
               ![h] = [handle[src] EXCEPT !.flags = @ \union {"STATIC"}, !.struct = NULL],
               ![src] = Dead]
          /\ heap' = FreeBlock(heap, handle[src].struct)
          /\ hollow' = IF OverCaller(src) \/ Lost(src) THEN (hollow \ {src}) \union {h} ELSE hollow
  /\ UNCHANGED <<userBuf, taken, leaked>>

(* bson_destroy *)
FreesForeign(h) == ~Has(h, {"RDONLY", "INLINE"})   \* mutant: NO_FREE is forgotten
FreesData(h) == ~Has(h, {"RDONLY", "INLINE", "NO_FREE"})
Destroyed(mem, h, data) ==
  FreeBlock(IF FreesData(h) THEN FreeBlock(mem, data) ELSE mem,
            IF Has(h, {"STATIC"}) THEN NULL ELSE handle[h].struct)
Destroy(h) ==
  /\ Live(h) /\ ~Has(h, {"CHILD", "IN_CHILD"})
  /\ heap' = Destroyed(heap, h, Buf(h)) /\ Put(h, Dead)
  /\ leaked' = IF FreesData(h) THEN leaked ELSE leaked \union ({handle[h].alloc} \ {NULL})
  /\ hollow' = hollow \ {h}
  /\ UNCHANGED <<userBuf, taken>>

(* bson_destroy_with_steal: the bytes go to the caller, those inside the   *)
(* struct as a copy; *alloc->buf becomes NULL.                             *)
DestroyWithSteal(h) ==
  /\ Live(h) /\ ~Has(h, {"CHILD", "IN_CHILD"}) /\ Room(1) /\ taken = {}
  /\ IF Has(h, {"RDONLY"}) THEN heap' = Destroyed(heap, h, NULL) /\ taken' = taken
     ELSE IF Has(h, {"INLINE"})
     THEN /\ taken' = {Unused(heap)}
          /\ heap' = Destroyed(Malloc(heap, handle[h].len), h, NULL)
     ELSE taken' = {Buf(h)} \ {NULL} /\ heap' = Destroyed(heap, h, NULL)
  /\ userBuf' = IF OverCaller(h) THEN NULL ELSE userBuf
  /\ hollow' = hollow \ {h} /\ UNCHANGED leaked
  /\ Put(h, Dead)

(* The caller allocates a buffer, and frees what is its own: its buffer    *)
(* once no document uses it.                                               *)
UserAllocates(size) ==
  /\ userBuf = NULL /\ Room(1)
  /\ heap' = Malloc(heap, size) /\ userBuf' = Unused(heap)
  /\ UNCHANGED <<handle, taken, leaked, hollow>>
UserFrees ==
  /\ \/ \E b \in taken : heap' = FreeBlock(heap, b) /\ taken' = {} /\ userBuf' = userBuf
     \/ /\ userBuf # NULL /\ \A h \in Handles : ~OverCaller(h)
        /\ heap' = FreeBlock(heap, userBuf) /\ userBuf' = NULL /\ taken' = taken
  /\ UNCHANGED <<handle, leaked, hollow>>

(* A length word says less than a document has, what is there, or more.    *)
HandleNext ==
  \/ \E h \in Handles : Setup(h) \/ EndChild(h) \/ Destroy(h) \/ DestroyWithSteal(h)
  \/ \E h \in Handles, n \in {Empty, InlineCap + 1} : SizedNew(h, n, Empty) \/ NewFromData(h, n)
  \/ \E h \in Handles, n \in {1, Empty, InlineCap + 1} : NewFromBuffer(h, n)
  \/ \E h \in Handles : SetupStatic(h, Empty) \/ Grow(h, 4) \/ Reserve(h, InlineCap + 1)
  \/ \E h, src \in Handles :
       Copy(src, h) \/ CopyTo(src, h) \/ BeginChild(src, h) \/ Steal(src, h)
  \/ \E n \in {Empty, InlineCap + 1} : UserAllocates(n)
  \/ UserFrees
-----------------------------------------------------------------------------
(* However documents are made, grown, copied, stolen, nested and           *)
(* destroyed, every allocated block has exactly one owner: the bson_t that *)
(* lies in it, the one document whose bytes it holds, or the caller.  So   *)
(* nothing is freed twice or shared by two documents, and nothing leaks,   *)
(* but for what a document that was stolen from the caller's buffer has    *)
(* allocated since.  And the bytes of every live document fit where they   *)
(* are said to be, but for two kinds until they next grow: one whose       *)
(* length word said more than the caller's buffer holds, and one that was  *)
(* stolen from the caller's buffer.                                        *)
Holders(b) ==
  {<<"struct", h>> : h \in {x \in Handles : handle[x].struct = b}}
  \union {<<"bytes", h>> : h \in {x \in Handles : handle[x].alloc = b}}
  \union (IF userBuf = b THEN {<<"caller", "buf">>} ELSE {})
  \union (IF b \in taken THEN {<<"caller", "taken">>} ELSE {})
BlocksOwned ==
  /\ \A b \in Blocks :
       Cardinality(Holders(b)) = IF heap[b] = 0 \/ b \in leaked THEN 0 ELSE 1
  /\ \A h \in Handles \ hollow : Live(h) =>
       IF Has(h, {"INLINE"}) THEN handle[h].len <= InlineCap
       ELSE Has(h, {"RDONLY"}) \/ (Buf(h) # NULL /\ heap[Buf(h)] >= handle[h].len)
=============================================================================
