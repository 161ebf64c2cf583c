----------------------------- MODULE BsonSizes -----------------------------
(***************************************************************************)
(* The sizes by which libbson's blocks grow (bson.c, bson-types.h): what   *)
(* fits inside a bson_t, and how large the blocks are that follow.         *)
(***************************************************************************)
EXTENDS Integers

CONSTANTS InlineCap,  \* BSON_INLINE_DATA_SIZE: the room inside bson_t itself
          BeginSize,  \* 128: what a document grows to before its first child
          MaxSize     \* BSON_MAX_SIZE

Empty == 2
SizeAssumption == /\ InlineCap \in Nat /\ BeginSize \in Nat /\ MaxSize \in Nat /\ MaxSize <= 2147483647
                  /\ InlineCap >= Empty /\ BeginSize > InlineCap /\ MaxSize >= 2 * BeginSize
ASSUME SizeAssumption

(* bson_next_power_of_two *)
PowerOfTwo(n) == 2 ^ (CHOOSE k \in 0..32 : 2 ^ k >= n /\ 2 ^ k < 2 * n)
=============================================================================
