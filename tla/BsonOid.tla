------------------------------ MODULE BsonOid ------------------------------
(***************************************************************************)
(* ObjectIDs made by several tasks (bson-oid.c, bson-context.c): the       *)
(* default context, which bson_once seeds at its first use, and contexts   *)
(* of the tasks' own.  A context's seed is a hash of a counter of seedings *)
(* among others; this counter and seq64 have 64 bits, for which a 32-bit   *)
(* processor has no atomic instruction: bson-atomic.c adds to them under a *)
(* spin lock.                                                              *)
(*                                                                         *)
(* The hash is taken to give each call five bytes of randomness of its     *)
(* own.  Where it lets seq64 start is free, and no other byte tells the    *)
(* ObjectIDs of two counters apart: see CountersApart.  The numbers of     *)
(* seq64 do not reach 2^64.                                                *)
(***************************************************************************)
EXTENDS Naturals, Sequences, FiniteSets

CONSTANTS OidTasks,  \* tasks
          SeqWrap,   \* 2^24: how many values the three bytes of seq32 have
          SeqStarts, \* where the hash may let seq64 start
          MaxOids,   \* bound: ObjectIDs made
          MaxTime    \* bound: seconds

OidAssumption == /\ SeqWrap \in Nat \ {0} /\ MaxOids \in Nat /\ MaxTime \in Nat
                 /\ SeqStarts \subseteq Nat /\ "default" \notin OidTasks
ASSUME OidAssumption

VARIABLES
  once,       \* the flag of bson_once
  spin,       \* gEmulAtomicLock: who holds it
  randCalls,  \* s_rand_call_counter
  context,    \* the default context and each task's own; ghost: seq64's start
  making,     \* what each task is doing
  oids,       \* the ObjectIDs returned: the time and the eight bytes after it;
              \* ghosts: which counter of which context gave which number
  second      \* time (NULL)

oidVars == <<once, spin, randCalls, context, making, oids, second>>

Default == "default"
Unseeded == [rand |-> 0, seq32 |-> 0, seq64 |-> 0, start |-> 0]
NoOid == [pc |-> "idle", on |-> Default, random |-> TRUE, at |-> 0, value |-> 0]

OidInit ==
  /\ once = FALSE /\ spin = Default /\ randCalls = 0
  /\ context = [c \in OidTasks \union {Default} |-> Unseeded]
  /\ making = [t \in OidTasks |-> NoOid] /\ oids = <<>> /\ second = 0

To(t, pc) == making' = [making EXCEPT ![t].pc = pc]
Seeding(t) == making[t].pc \in {"lock", "load", "store", "unlock", "seed", "flag"}

(* bson_oid_init and bson_oid_init_sequence: a context that is not ready   *)
(* is seeded first.  bson_once is no lock: its comment leaves it to the    *)
(* callers that one task alone makes the first use, and so does Alone.     *)
Ready(t, c) == IF c = Default THEN once ELSE context[t].rand # 0
Alone == \A u \in OidTasks : ~(Seeding(u) /\ making[u].on = Default)
Asked == Len(oids) + Cardinality({t \in OidTasks : making[t].pc # "idle"})
Ask(t) ==
  /\ making[t].pc = "idle" /\ Asked < MaxOids
  /\ \E c \in {Default, t}, r \in BOOLEAN :
       /\ c = Default /\ ~once => Alone
       /\ making' = [making EXCEPT ![t] =
            [NoOid EXCEPT !.pc = IF Ready(t, c) THEN "time" ELSE "lock", !.on = c, !.random = r]]
  /\ UNCHANGED <<once, spin, randCalls, context, oids, second>>

(* _lock_emul_atomic: compare and exchange until it succeeds.  The same    *)
(* lock serves the seeding and, later, the draw from seq64.                *)
AlwaysFree == TRUE  \* mutant: the exchange's result is not looked at
Free == spin = Default
Lock(t) ==
  /\ making[t].pc \in {"lock", "lock64"} /\ Free
  /\ spin' = t /\ To(t, IF making[t].pc = "lock" THEN "load" ELSE "load64")
  /\ UNCHANGED <<once, randCalls, context, oids, second>>

(* _bson_emul_atomic_int64_fetch_add, on either counter. *)
ReadCounter(t) ==
  /\ making[t].pc \in {"load", "load64"}
  /\ LET seeds == making[t].pc = "load" IN
     making' = [making EXCEPT ![t].value = IF seeds THEN randCalls
                                           ELSE context[making[t].on].seq64,
                              ![t].pc = IF seeds THEN "store" ELSE "store64"]
  /\ UNCHANGED <<once, spin, randCalls, context, oids, second>>
WriteCounter(t) ==
  /\ \/ /\ making[t].pc = "store" /\ randCalls' = making[t].value + 1
        /\ To(t, "unlock") /\ UNCHANGED context
     \/ /\ making[t].pc = "store64" /\ UNCHANGED randCalls
        /\ context' = [context EXCEPT ![making[t].on].seq64 = making[t].value + 1]
        /\ To(t, "unlock64")
  /\ UNCHANGED <<once, spin, oids, second>>

HandOut(t, kind, bytes, nr) ==
  /\ oids' = Append(oids, [at |-> making[t].at, bytes |-> bytes,
                           kind |-> kind, from |-> making[t].on, nr |-> nr])
  /\ making' = [making EXCEPT ![t] = NoOid]

(* _bson_context_set_oid_seq64: the number alone makes the eight bytes. *)
Unlock(t) ==
  /\ making[t].pc \in {"unlock", "unlock64"} /\ spin' = Default
  /\ IF making[t].pc = "unlock" THEN To(t, "seed") /\ UNCHANGED oids
     ELSE HandOut(t, "seq64", making[t].value, making[t].value)
  /\ UNCHANGED <<once, randCalls, context, second>>

(* _bson_context_init_random: the digest of this call, by its number. *)
Digest(call, start) == [rand |-> call + 1, seq32 |-> 0, seq64 |-> start, start |-> start]
Seed(t) ==
  /\ making[t].pc = "seed"
  /\ \E start \in SeqStarts :
       context' = [context EXCEPT ![making[t].on] = Digest(making[t].value, start)]
  /\ To(t, IF making[t].on = Default THEN "flag" ELSE "time")
  /\ UNCHANGED <<once, spin, randCalls, oids, second>>
SetOnce(t) ==
  /\ making[t].pc = "flag" /\ once' = TRUE /\ To(t, "time")
  /\ UNCHANGED <<spin, randCalls, context, oids, second>>

(* _oid_init: the time; then the randomness and seq32, or seq64. *)
Time(t) ==
  /\ making[t].pc = "time"
  /\ making' = [making EXCEPT ![t].at = second,
                              ![t].pc = IF making[t].random THEN "copy" ELSE "lock64"]
  /\ UNCHANGED <<once, spin, randCalls, context, oids, second>>
CopyRandomness(t) ==
  /\ making[t].pc = "copy"
  /\ making' = [making EXCEPT ![t].value = context[making[t].on].rand, ![t].pc = "draw"]
  /\ UNCHANGED <<once, spin, randCalls, context, oids, second>>
Bytes(rand, nr) == rand * SeqWrap + nr  \* five bytes, then three
Draw(t) ==
  /\ making[t].pc = "draw"
  /\ LET nr == context[making[t].on].seq32 IN
     HandOut(t, "seq32", Bytes(making[t].value, nr), nr)
  /\ context' = [context EXCEPT ![making[t].on].seq32 = (@ + 1) % SeqWrap]
  /\ UNCHANGED <<once, spin, randCalls, second>>

Second ==
  /\ second < MaxTime /\ second' = second + 1
  /\ UNCHANGED <<once, spin, randCalls, context, making, oids>>

OidNext ==
  \/ Second
  \/ \E t \in OidTasks : \/ Ask(t) \/ Lock(t) \/ ReadCounter(t) \/ WriteCounter(t) \/ Unlock(t)
                         \/ Seed(t) \/ SetOnce(t) \/ Time(t) \/ CopyRandomness(t) \/ Draw(t)
-----------------------------------------------------------------------------
(* What OidsUnique assumes of the hash.  An ObjectID of                    *)
(* bson_oid_init_sequence holds nothing but the time and a number of       *)
(* seq64, so the numbers of two contexts differ only if neither counter    *)
(* has come to where the other started; and they differ from those of      *)
(* bson_oid_init only if none has come to a context's randomness.          *)
Seeded == {c \in DOMAIN context : context[c].rand # 0}
CountersApart ==
  \A c, d \in Seeded :
    /\ c # d => \/ context[c].seq64 <= context[d].start
               \/ context[d].seq64 <= context[c].start
    /\ \/ context[c].seq64 <= Bytes(context[d].rand, 0)
       \/ Bytes(context[d].rand + 1, 0) <= context[c].start

(* Whatever tasks and contexts they come from, and however those were      *)
(* seeded: while the counters are apart, two ObjectIDs are equal only if   *)
(* the three bytes of seq32 have gone round within one second.             *)
OidsUnique ==
  CountersApart =>
    \A i, j \in DOMAIN oids :
      i < j /\ oids[i].at = oids[j].at /\ oids[i].bytes = oids[j].bytes =>
        oids[i].kind = "seq32" /\ oids[j].kind = "seq32" /\ j - i >= SeqWrap
=============================================================================
