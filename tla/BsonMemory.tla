----------------------------- MODULE BsonMemory -----------------------------
(***************************************************************************)
(* The blocks libbson allocates: those of documents (BsonHandle) and that  *)
(* of a growing string (BsonString), which have nothing else in common.    *)
(***************************************************************************)
EXTENDS BsonHandle, BsonString

memoryVars == <<handleVars, stringVars>>
MemoryInit == HandleInit /\ StringInit
MemoryNext == \/ HandleNext /\ UNCHANGED stringVars
              \/ StringNext /\ UNCHANGED handleVars
MemorySpec == MemoryInit /\ [][MemoryNext]_memoryVars
-----------------------------------------------------------------------------
(* Nothing in libbson writes outside its blocks or lets go of one twice:   *)
(* those of documents (bson.c), and the block of a string that grows and   *)
(* is cut (bson-string.c), which always holds what was put in it.          *)
MemoryHeld == BlocksOwned /\ StringHolds
=============================================================================
