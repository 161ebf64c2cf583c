-------------------------- MODULE BsonValueProofs --------------------------
(***************************************************************************)
(* Two values libbson makes.  The ObjectIDs of bson-oid.c, for any number  *)
(* of tasks and any range of seq32: while the counters are apart, two of   *)
(* them are never equal for another reason than seq32 going round.  The    *)
(* texts of bson-utf8.c, for strings of bytes of any length: what is       *)
(* accepted spells code points, and can be escaped.                        *)
(***************************************************************************)
EXTENDS BsonOid, BsonUtf8, Integers, WellFoundedInduction, SequenceTheorems, TLAPS

OidSpec == OidInit /\ [][OidNext]_oidVars

Contexts == OidTasks \union {Default}
Holding == {"load", "store", "unlock", "load64", "store64", "unlock64"}
UsingOne == {"time", "copy", "draw", "lock64", "load64", "store64", "unlock64"}
SeedingPc == {"lock", "load", "store", "unlock", "seed", "flag"}

Pcs == {"idle"} \union SeedingPc \union UsingOne
Making == [pc : Pcs, on : Contexts, random : BOOLEAN, at : Nat, value : Nat]
Context == [rand : Nat, seq32 : Nat, seq64 : Nat, start : Nat]
Oid == [at : Nat, bytes : Nat, kind : {"seq32", "seq64"}, from : Contexts, nr : Nat]

OidTypeOK ==
  /\ once \in BOOLEAN /\ spin \in Contexts /\ randCalls \in Nat /\ second \in Nat
  /\ context \in [Contexts -> Context] /\ making \in [OidTasks -> Making] /\ oids \in Seq(Oid)

(* The spin lock is its holder's; a task uses its own context or the       *)
(* default one.                                                            *)
LockInv ==
  /\ \A t \in OidTasks : spin = t <=> making[t].pc \in Holding
  /\ \A t \in OidTasks : making[t].on \in {Default, t}

(* A context is seeded once, by one task, before anybody uses it.          *)
SeedInv ==
  /\ \A t \in OidTasks :
       /\ making[t].pc = "flag" => making[t].on = Default /\ context[Default].rand # 0
       /\ making[t].pc \in SeedingPc /\ making[t].on = Default => ~once
       /\ making[t].pc \in SeedingPc \ {"flag"} => context[making[t].on].rand = 0
       /\ making[t].pc \in UsingOne => context[making[t].on].rand # 0
       /\ making[t].pc = "draw" => making[t].value = context[making[t].on].rand
  /\ \A t, u \in OidTasks :
       making[t].pc \in SeedingPc /\ making[t].on = Default /\
       making[u].pc \in SeedingPc /\ making[u].on = Default => t = u
  /\ once => context[Default].rand # 0
  /\ context[Default].rand # 0 => once \/ \E t \in OidTasks : making[t].pc = "flag"

(* Each seeding has a number of its own, and so a randomness of its own.   *)
RandInv ==
  /\ \A t \in OidTasks :
       /\ making[t].pc = "store" => making[t].value = randCalls
       /\ making[t].pc \in {"unlock", "seed"} =>
            /\ making[t].value < randCalls
            /\ \A c \in Contexts : context[c].rand # making[t].value + 1
  /\ \A t, u \in OidTasks :
       making[t].pc \in {"unlock", "seed"} /\ making[u].pc \in {"unlock", "seed"}
       /\ making[t].value = making[u].value => t = u
  /\ \A c \in Contexts : context[c].rand <= randCalls
  /\ \A c, d \in Contexts : context[c].rand = context[d].rand /\ context[c].rand # 0 => c = d

(* What is drawn from seq64 is new, and no lower than the start. *)
Seq64Inv ==
  /\ \A c \in Contexts : context[c].start <= context[c].seq64
  /\ \A t \in OidTasks :
       /\ making[t].pc = "store64" => making[t].value = context[making[t].on].seq64
       /\ making[t].pc = "unlock64" => /\ making[t].value + 1 = context[making[t].on].seq64
                                       /\ context[making[t].on].start <= making[t].value

(* An ObjectID is of a context whose counter has moved on since: seq64     *)
(* past its number, seq32 by one for each ObjectID at most.                *)
Past64(i, c) ==
  /\ oids[i].nr < context[c].seq64
  /\ \A t \in OidTasks :
       making[t].pc = "unlock64" /\ making[t].on = c => oids[i].nr < making[t].value
Past32(i, c) ==
  /\ oids[i].nr < SeqWrap
  /\ \E k \in 1..(Len(oids) - i + 1) : context[c].seq32 = (oids[i].nr + k) % SeqWrap
DrawnInv ==
  \A i \in 1..Len(oids), c \in Contexts :
    oids[i].from = c =>
      /\ oids[i].kind = "seq64" => Past64(i, c)
      /\ oids[i].kind = "seq32" => Past32(i, c)

(* What its bytes are made of. *)
Made(o) ==
  /\ context[o.from].rand # 0
  /\ o.kind = "seq64" => o.bytes = o.nr /\ context[o.from].start <= o.nr
  /\ o.kind = "seq32" => o.bytes = Bytes(context[o.from].rand, o.nr)
OwnedInv == \A i \in 1..Len(oids) : Made(oids[i])

(* Of one counter, the numbers come again only after going round. *)
InContext ==
  \A i, j \in DOMAIN oids :
    i < j /\ oids[i].kind = oids[j].kind /\ oids[i].from = oids[j].from /\ oids[i].nr = oids[j].nr =>
      oids[i].kind = "seq32" /\ j - i >= SeqWrap

RangeInv == \A c \in Contexts : context[c].seq32 < SeqWrap

OidInv == /\ OidTypeOK /\ LockInv /\ SeedInv /\ RandInv /\ Seq64Inv /\ OwnedInv /\ DrawnInv
          /\ RangeInv /\ InContext
-----------------------------------------------------------------------------
(* Counting round. *)
LEMMA ModSmall == ASSUME NEW w \in Nat \ {0}, NEW x \in 0..(w - 1) PROVE x % w = x
BY Z3

LEMMA ModOnce == ASSUME NEW w \in Nat \ {0}, NEW x \in w..(2 * w - 1) PROVE x % w = x - w
BY Z3

LEMMA ModMultiple == ASSUME NEW w \in Nat \ {0}, NEW n \in Int PROVE (w * n) % w = 0
<1> DEFINE d == (w * n) \div w
           m == n - d
<1>1. w * n \in Int /\ d \in Int /\ (w * n) % w \in 0..(w - 1) OBVIOUS
<1>2. (w * n) % w = w * n - w * d BY Z3
<1> HIDE DEF d
<1>3. w * m = w * n - w * d BY <1>1
<1>4. m \in Int BY <1>1
<1> HIDE DEF m
<1>5. w * m \in 0..(w - 1) BY <1>1, <1>2, <1>3
<1>6. m < 1
  <2> SUFFICES ASSUME m >= 1 PROVE FALSE BY <1>4
  <2>1. w * m >= w BY <1>4
  <2> QED BY <1>5, <2>1
<1>7. m > -1
  <2> SUFFICES ASSUME m <= -1 PROVE FALSE BY <1>4
  <2>1. w * m <= -w BY <1>4
  <2> QED BY <1>5, <2>1
<1>8. m = 0 BY <1>4, <1>6, <1>7
<1>9. w * m = 0 BY <1>8
<1> QED BY <1>2, <1>3, <1>9

LEMMA ModNext == ASSUME NEW w \in Nat \ {0}, NEW x \in Nat PROVE ((x % w) + 1) % w = (x + 1) % w
<1>1. x % w \in 0..(w - 1) OBVIOUS
<1>2. x = w * (x \div w) + (x % w) BY Z3
<1>3. CASE (x % w) + 1 < w
  <2>1. ((x % w) + 1) % w = (x % w) + 1 BY <1>1, <1>3, ModSmall
  <2>2. (x + 1) % w = (x % w) + 1 BY <1>1, <1>2, <1>3, Z3
  <2> QED BY <2>1, <2>2
<1>4. CASE (x % w) + 1 = w
  <2>1. w % w = 0 BY Z3
  <2>2. x + 1 = w * ((x \div w) + 1) BY <1>2, <1>4, Z3
  <2> DEFINE n == (x \div w) + 1
  <2>3. n \in Int OBVIOUS
  <2> HIDE DEF n
  <2>4. (w * n) % w = 0 BY <2>3, ModMultiple
  <2>5. (x + 1) % w = 0 BY <2>2, <2>4 DEF n
  <2> QED BY <1>4, <2>1, <2>5
<1> QED BY <1>1, <1>3, <1>4

LEMMA ModFixed ==
  ASSUME NEW w \in Nat \ {0}, NEW v \in 0..(w - 1), NEW k \in Nat \ {0}, (v + k) % w = v
  PROVE  k >= w
<1> SUFFICES ASSUME k < w PROVE FALSE
  OBVIOUS
<1>1. CASE v + k < w BY <1>1, ModSmall
<1>2. CASE v + k >= w BY <1>2, ModOnce
<1> QED BY <1>1, <1>2
-----------------------------------------------------------------------------
LEMMA OidInvInit == OidInit => OidInv
<1> SUFFICES ASSUME OidInit PROVE OidInv
  OBVIOUS
<1> USE OidAssumption DEF OidInit, OidAssumption, Default, Contexts
<1>1. NoOid \in Making BY DEF NoOid, Making, Pcs
<1>2. Unseeded \in Context BY DEF Unseeded, Context
<1>3. OidTypeOK
  <2>1. context \in [Contexts -> Context] BY <1>2
  <2>2. making \in [OidTasks -> Making] BY <1>1
  <2>3. oids \in Seq(Oid) OBVIOUS
  <2> QED BY <2>1, <2>2, <2>3 DEF OidTypeOK
<1>4. LockInv BY DEF LockInv, Holding, NoOid
<1>5. SeedInv BY DEF SeedInv, SeedingPc, UsingOne, NoOid, Unseeded
<1>6. RandInv BY DEF RandInv, NoOid, Unseeded
<1>7. Seq64Inv BY DEF Seq64Inv, NoOid, Unseeded
<1>8. OwnedInv /\ DrawnInv /\ InContext BY DEF OwnedInv, DrawnInv, InContext
<1>9. RangeInv BY DEF RangeInv, Unseeded
<1> QED BY <1>3, <1>4, <1>5, <1>6, <1>7, <1>8, <1>9 DEF OidInv

(* The steps of a task change these of its fields. *)
LEMMA NewPc ==
  ASSUME NEW m \in Making, NEW p \in Pcs PROVE [m EXCEPT !.pc = p] \in Making
BY DEF Making
LEMMA NewValue ==
  ASSUME NEW m \in Making, NEW v \in Nat PROVE [m EXCEPT !.value = v] \in Making
BY DEF Making
LEMMA NewAt ==
  ASSUME NEW m \in Making, NEW a \in Nat PROVE [m EXCEPT !.at = a] \in Making
BY DEF Making
LEMMA NewMaking ==
  ASSUME OidTypeOK, NEW t \in OidTasks, NEW m \in Making, making' = [making EXCEPT ![t] = m]
  PROVE  making' \in [OidTasks -> Making]
BY DEF OidTypeOK

(* A new ObjectID is of the type of one. *)
LEMMA HandOutType ==
  ASSUME OidTypeOK, NEW t \in OidTasks, NEW kind \in {"seq32", "seq64"}, NEW b \in Nat, NEW v \in Nat,
         HandOut(t, kind, b, v)
  PROVE  oids' \in Seq(Oid) /\ making' \in [OidTasks -> Making]
<1>1. [at |-> making[t].at, bytes |-> b, kind |-> kind, from |-> making[t].on, nr |-> v] \in Oid
  BY DEF OidTypeOK, Making, Oid
<1>2. NoOid \in Making BY DEF NoOid, Making, Pcs, Contexts
<1> QED BY <1>1, <1>2 DEF HandOut, OidTypeOK

LEMMA BytesType == ASSUME NEW r \in Nat, NEW v \in Nat PROVE Bytes(r, v) \in Nat
BY OidAssumption DEF OidAssumption, Bytes

LEMMA OidTypes == OidTypeOK /\ [OidNext]_oidVars => OidTypeOK'
<1> SUFFICES ASSUME OidTypeOK, [OidNext]_oidVars PROVE OidTypeOK'
  OBVIOUS
<1> USE OidAssumption DEF OidAssumption
<1>1. CASE Second BY <1>1 DEF Second, OidTypeOK
<1>2. CASE UNCHANGED oidVars BY <1>2 DEF oidVars, OidTypeOK
<1>3. ASSUME NEW t \in OidTasks,
             Ask(t) \/ Lock(t) \/ ReadCounter(t) \/ WriteCounter(t) \/ Unlock(t)
             \/ Seed(t) \/ SetOnce(t) \/ Time(t) \/ CopyRandomness(t) \/ Draw(t)
      PROVE  OidTypeOK'
  <2> USE DEF OidTypeOK, To
  <2>1. CASE Ask(t)
    <3>1. PICK c \in {Default, t}, r \in BOOLEAN :
            making' = [making EXCEPT ![t] =
              [NoOid EXCEPT !.pc = IF Ready(t, c) THEN "time" ELSE "lock", !.on = c, !.random = r]]
      BY <2>1 DEF Ask
    <3>2. [NoOid EXCEPT !.pc = IF Ready(t, c) THEN "time" ELSE "lock", !.on = c, !.random = r] \in Making
      BY DEF NoOid, Making, Pcs, SeedingPc, UsingOne, Contexts
    <3> QED BY <2>1, <3>1, <3>2 DEF Ask
  <2>2. CASE Lock(t)
    <3>1. spin' = t /\ making' \in [OidTasks -> Making]
      BY <2>2, NewPc, NewMaking DEF Lock, Pcs, SeedingPc, UsingOne
    <3> QED BY <2>2, <3>1 DEF Lock, Contexts
  <2>3. CASE ReadCounter(t)
    <3>1. PICK p \in Pcs, v \in Nat : making' = [making EXCEPT ![t].value = v, ![t].pc = p]
      BY <2>3 DEF ReadCounter, Pcs, SeedingPc, UsingOne, Making, Context
    <3>2. making' \in [OidTasks -> Making] BY <3>1, NewPc, NewValue, NewMaking
    <3> QED BY <2>3, <3>2 DEF ReadCounter
  <2>4. CASE WriteCounter(t)
    <3>1. making' \in [OidTasks -> Making]
      BY <2>4, NewPc, NewMaking DEF WriteCounter, Pcs, SeedingPc, UsingOne
    <3>2. making[t].value + 1 \in Nat BY DEF Making
    <3>3. randCalls' \in Nat /\ context' \in [Contexts -> Context]
      <4>1. CASE making[t].pc = "store" BY <2>4, <3>2, <4>1 DEF WriteCounter
      <4>2. CASE making[t].pc # "store"
        <5>1. [context[making[t].on] EXCEPT !.seq64 = making[t].value + 1] \in Context
          BY <3>2, ZenonT(30) DEF Making, Context
        <5> QED BY <2>4, <4>2, <5>1 DEF WriteCounter
      <4> QED BY <4>1, <4>2
    <3> QED BY <2>4, <3>1, <3>3 DEF WriteCounter
  <2>5. CASE Unlock(t)
    <3>1. CASE making[t].pc = "unlock"
      BY <2>5, <3>1, SMTT(30) DEF Unlock, Making, Pcs, SeedingPc, UsingOne, Contexts
    <3>2. CASE making[t].pc # "unlock"
      <4>1. making[t].value \in Nat BY DEF Making
      <4> QED BY <2>5, <3>2, <4>1, HandOutType DEF Unlock, Contexts
    <3> QED BY <3>1, <3>2
  <2>6. CASE Seed(t)
    <3>1. making' \in [OidTasks -> Making]
      BY <2>6, NewPc, NewMaking DEF Seed, Pcs, SeedingPc, UsingOne
    <3>2. \A start \in SeqStarts : Digest(making[t].value, start) \in Context
      BY DEF Digest, Making, Context
    <3> QED BY <2>6, <3>1, <3>2 DEF Seed
  <2>7. CASE SetOnce(t) BY <2>7, NewPc, NewMaking DEF SetOnce, Pcs, SeedingPc, UsingOne
  <2>8. CASE Time(t)
    <3>1. PICK p \in Pcs : making' = [making EXCEPT ![t].at = second, ![t].pc = p]
      BY <2>8 DEF Time, Pcs, SeedingPc, UsingOne
    <3>2. making' \in [OidTasks -> Making] BY <3>1, NewPc, NewAt, NewMaking
    <3> QED BY <2>8, <3>2 DEF Time
  <2>9. CASE CopyRandomness(t)
    <3>1. context[making[t].on].rand \in Nat BY DEF Making, Context
    <3>2. PICK p \in Pcs :
            making' = [making EXCEPT ![t].value = context[making[t].on].rand, ![t].pc = p]
      BY <2>9 DEF CopyRandomness, Pcs, SeedingPc, UsingOne
    <3>3. making' \in [OidTasks -> Making] BY <3>1, <3>2, NewPc, NewValue, NewMaking
    <3> QED BY <2>9, <3>3 DEF CopyRandomness
  <2>10. CASE Draw(t)
    <3>1. context[making[t].on].seq32 \in Nat /\ making[t].value \in Nat BY DEF Making, Context
    <3>2. (context[making[t].on].seq32 + 1) % SeqWrap \in Nat BY <3>1
    <3>3. context' \in [Contexts -> Context] BY <2>10, <3>2 DEF Draw, Context
    <3>4. Bytes(making[t].value, context[making[t].on].seq32) \in Nat BY <3>1, BytesType
    <3> QED BY <2>10, <3>1, <3>3, <3>4, HandOutType DEF Draw
  <2> QED BY <1>3, <2>1, <2>2, <2>3, <2>4, <2>5, <2>6, <2>7, <2>8, <2>9, <2>10
<1> QED BY <1>1, <1>2, <1>3 DEF OidNext
-----------------------------------------------------------------------------
(* What each step does to its task and to the others, field by field.      *)
Fields(t, p, o, v) == making'[t].pc = p /\ making'[t].on = o /\ making'[t].value = v
Others(t) == \A u \in OidTasks \ {t} : making'[u] = making[u]

AskDone(t) ==
  /\ making[t].pc = "idle" /\ Others(t) /\ UNCHANGED <<once, spin, randCalls, context, oids>>
  /\ \E c \in {Default, t} :
       \/ Ready(t, c) /\ Fields(t, "time", c, 0)
       \/ ~Ready(t, c) /\ Fields(t, "lock", c, 0) /\ (c = Default => Alone)
LEMMA AskEffect == ASSUME OidTypeOK, NEW t \in OidTasks, Ask(t) PROVE AskDone(t)
<1>1. PICK c \in {Default, t}, r \in BOOLEAN :
        /\ c = Default /\ ~once => Alone
        /\ making' = [making EXCEPT ![t] =
             [NoOid EXCEPT !.pc = IF Ready(t, c) THEN "time" ELSE "lock", !.on = c, !.random = r]]
  BY DEF Ask
<1>2. Fields(t, IF Ready(t, c) THEN "time" ELSE "lock", c, 0)
  BY <1>1 DEF OidTypeOK, NoOid, Fields
<1>3. c = Default => (Ready(t, c) <=> once) BY DEF Ready
<1>4. Others(t) BY <1>1 DEF Others, OidTypeOK
<1> QED BY <1>1, <1>2, <1>3, <1>4 DEF Ask, AskDone

LockDone(t) ==
  /\ Others(t) /\ UNCHANGED <<once, randCalls, context, oids>> /\ spin = Default /\ spin' = t
  /\ \/ making[t].pc = "lock" /\ Fields(t, "load", making[t].on, making[t].value)
     \/ making[t].pc = "lock64" /\ Fields(t, "load64", making[t].on, making[t].value)
LEMMA LockEffect == ASSUME OidTypeOK, NEW t \in OidTasks, Lock(t) PROVE LockDone(t)
BY DEF LockDone, OidTypeOK, Making, Lock, Free, To, Fields, Others

ReadDone(t) ==
  /\ Others(t) /\ UNCHANGED <<once, spin, randCalls, context, oids>>
  /\ \/ making[t].pc = "load" /\ Fields(t, "store", making[t].on, randCalls)
     \/ making[t].pc = "load64"
        /\ Fields(t, "store64", making[t].on, context[making[t].on].seq64)
LEMMA ReadEffect == ASSUME OidTypeOK, NEW t \in OidTasks, ReadCounter(t) PROVE ReadDone(t)
BY DEF ReadDone, OidTypeOK, Making, ReadCounter, Fields, Others

WriteDone(t) ==
  /\ Others(t) /\ UNCHANGED <<once, spin, oids>>
  /\ \/ /\ making[t].pc = "store" /\ Fields(t, "unlock", making[t].on, making[t].value)
        /\ randCalls' = making[t].value + 1 /\ UNCHANGED context
     \/ /\ making[t].pc = "store64" /\ Fields(t, "unlock64", making[t].on, making[t].value)
        /\ UNCHANGED randCalls /\ context'[making[t].on].rand = context[making[t].on].rand
        /\ context'[making[t].on].seq32 = context[making[t].on].seq32
        /\ context'[making[t].on].seq64 = making[t].value + 1
        /\ context'[making[t].on].start = context[making[t].on].start
        /\ \A c \in Contexts \ {making[t].on} : context'[c] = context[c]
LEMMA WriteEffect == ASSUME OidTypeOK, NEW t \in OidTasks, WriteCounter(t) PROVE WriteDone(t)
<1>1. Others(t) BY DEF WriteCounter, To, Others, OidTypeOK
<1>2. CASE making[t].pc = "store"
  BY <1>1, <1>2 DEF WriteDone, OidTypeOK, Making, WriteCounter, To, Fields
<1>3. CASE making[t].pc # "store"
  <2>1. making[t].pc = "store64" /\ Fields(t, "unlock64", making[t].on, making[t].value)
    BY <1>3 DEF OidTypeOK, Making, WriteCounter, To, Fields
  <2>2. context' = [context EXCEPT ![making[t].on].seq64 = making[t].value + 1]
    BY <1>3 DEF WriteCounter
  <2>3. making[t].on \in Contexts BY DEF OidTypeOK, Making
  <2>4. UNCHANGED <<once, spin, oids, randCalls>> BY <2>1 DEF WriteCounter
  <2> QED BY <1>1, <2>1, <2>2, <2>3, <2>4 DEF WriteDone, OidTypeOK, Context
<1> QED BY <1>2, <1>3

UnlockDone(t) ==
  /\ Others(t) /\ UNCHANGED <<once, randCalls, context>> /\ spin' = Default
  /\ \/ /\ making[t].pc = "unlock" /\ Fields(t, "seed", making[t].on, making[t].value)
        /\ UNCHANGED oids
     \/ /\ making[t].pc = "unlock64" /\ Fields(t, "idle", Default, 0)
        /\ oids' = Append(oids, [at |-> making[t].at, bytes |-> making[t].value, kind |-> "seq64",
                                 from |-> making[t].on, nr |-> making[t].value])
LEMMA UnlockEffect == ASSUME OidTypeOK, NEW t \in OidTasks, Unlock(t) PROVE UnlockDone(t)
<1>1. Others(t) BY DEF Unlock, To, HandOut, Others, OidTypeOK
<1>2. CASE making[t].pc = "unlock"
  BY <1>1, <1>2 DEF UnlockDone, OidTypeOK, Making, Unlock, To, Fields
<1>3. CASE making[t].pc # "unlock"
  BY <1>1, <1>3 DEF UnlockDone, OidTypeOK, Making, Unlock, HandOut, NoOid, Fields
<1> QED BY <1>2, <1>3

SeedDone(t) ==
  /\ Others(t) /\ UNCHANGED <<once, spin, randCalls, oids>> /\ making[t].pc = "seed"
  /\ making[t].on \in Contexts
  /\ \E start \in Nat : context'[making[t].on] = Digest(making[t].value, start)
  /\ \A c \in Contexts \ {making[t].on} : context'[c] = context[c]
  /\ Fields(t, IF making[t].on = Default THEN "flag" ELSE "time", making[t].on, making[t].value)
LEMMA SeedEffect == ASSUME OidTypeOK, NEW t \in OidTasks, Seed(t) PROVE SeedDone(t)
<1>1. PICK start \in SeqStarts :
        context' = [context EXCEPT ![making[t].on] = Digest(making[t].value, start)]
  BY DEF Seed
<1>2. start \in Nat /\ making[t].on \in Contexts
  BY OidAssumption DEF OidAssumption, OidTypeOK, Making
<1>3. /\ context'[making[t].on] = Digest(making[t].value, start)
      /\ \A c \in Contexts \ {making[t].on} : context'[c] = context[c]
  BY <1>1, <1>2 DEF OidTypeOK
<1>4. Others(t) /\ UNCHANGED <<once, spin, randCalls, oids>> /\ making[t].pc = "seed"
      /\ Fields(t, IF making[t].on = Default THEN "flag" ELSE "time", making[t].on,
                making[t].value)
  BY DEF OidTypeOK, Making, Seed, To, Fields, Others
<1> QED BY <1>2, <1>3, <1>4 DEF SeedDone

SetOnceDone(t) ==
  /\ Others(t) /\ UNCHANGED <<spin, randCalls, context, oids>> /\ once' = TRUE
  /\ making[t].pc = "flag" /\ Fields(t, "time", making[t].on, making[t].value)
LEMMA SetOnceEffect == ASSUME OidTypeOK, NEW t \in OidTasks, SetOnce(t) PROVE SetOnceDone(t)
<1>1. Others(t) BY DEF OidTypeOK, SetOnce, To, Others
<1>2. making[t].pc = "flag" /\ Fields(t, "time", making[t].on, making[t].value)
  BY DEF OidTypeOK, Making, SetOnce, To, Fields
<1> QED BY <1>1, <1>2 DEF SetOnce, SetOnceDone

TimeDone(t) ==
  /\ Others(t) /\ UNCHANGED <<once, spin, randCalls, context, oids>> /\ making[t].pc = "time"
  /\ \E p \in {"copy", "lock64"} : Fields(t, p, making[t].on, making[t].value)
LEMMA TimeEffect == ASSUME OidTypeOK, NEW t \in OidTasks, Time(t) PROVE TimeDone(t)
BY DEF TimeDone, OidTypeOK, Making, Time, Fields, Others

CopyDone(t) ==
  /\ Others(t) /\ UNCHANGED <<once, spin, randCalls, context, oids>> /\ making[t].pc = "copy"
  /\ Fields(t, "draw", making[t].on, context[making[t].on].rand)
LEMMA CopyEffect == ASSUME OidTypeOK, NEW t \in OidTasks, CopyRandomness(t) PROVE CopyDone(t)
BY DEF CopyDone, OidTypeOK, Making, CopyRandomness, Fields, Others

DrawDone(t) ==
  /\ Others(t) /\ UNCHANGED <<once, spin, randCalls>> /\ making[t].pc = "draw"
  /\ Fields(t, "idle", Default, 0)
  /\ oids' = Append(oids, [at |-> making[t].at,
                           bytes |-> Bytes(making[t].value, context[making[t].on].seq32),
                           kind |-> "seq32", from |-> making[t].on,
                           nr |-> context[making[t].on].seq32])
  /\ context'[making[t].on].seq32 = (context[making[t].on].seq32 + 1) % SeqWrap
  /\ context'[making[t].on].rand = context[making[t].on].rand
  /\ context'[making[t].on].seq64 = context[making[t].on].seq64
  /\ context'[making[t].on].start = context[making[t].on].start
  /\ \A c \in Contexts \ {making[t].on} : context'[c] = context[c]
LEMMA DrawEffect == ASSUME OidTypeOK, NEW t \in OidTasks, Draw(t) PROVE DrawDone(t)
<1>1. making[t].on \in Contexts BY DEF OidTypeOK, Making
<1>2. context' = [context EXCEPT ![making[t].on].seq32 = (@ + 1) % SeqWrap] BY DEF Draw
<1>3. /\ context'[making[t].on].seq32 = (context[making[t].on].seq32 + 1) % SeqWrap
      /\ context'[making[t].on].rand = context[making[t].on].rand
      /\ context'[making[t].on].seq64 = context[making[t].on].seq64
      /\ context'[making[t].on].start = context[making[t].on].start
      /\ \A c \in Contexts \ {making[t].on} : context'[c] = context[c]
  BY <1>1, <1>2 DEF OidTypeOK, Context
<1> QED BY <1>3 DEF DrawDone, OidTypeOK, Making, Draw, HandOut, NoOid, Fields, Others

(* A step is none of a task's, or one of one task's. *)
LEMMA StepCases ==
  ASSUME [OidNext]_oidVars
  PROVE  \/ UNCHANGED <<once, spin, randCalls, context, making, oids>>
         \/ \E t \in OidTasks :
              \/ Ask(t) \/ Lock(t) \/ ReadCounter(t) \/ WriteCounter(t) \/ Unlock(t)
              \/ Seed(t) \/ SetOnce(t) \/ Time(t) \/ CopyRandomness(t) \/ Draw(t)
BY DEF OidNext, oidVars, Second
-----------------------------------------------------------------------------
(* Of the types, what the other invariants need. *)
FieldTypes ==
  /\ \A t \in OidTasks : making[t].on \in Contexts /\ making[t].value \in Nat
  /\ \A c \in Contexts :
       /\ context[c].rand \in Nat /\ context[c].seq32 \in Nat
       /\ context[c].seq64 \in Nat /\ context[c].start \in Nat
  /\ randCalls \in Nat /\ SeqWrap \in Nat \ {0} /\ OidTasks \subseteq Contexts /\ Default \in Contexts
  /\ Default \notin OidTasks
LEMMA Typed == OidTypeOK => FieldTypes
<1> SUFFICES ASSUME OidTypeOK PROVE FieldTypes
  OBVIOUS
<1>1. \A t \in OidTasks : making[t].on \in Contexts /\ making[t].value \in Nat
  BY DEF OidTypeOK, Making
<1>2. \A c \in Contexts :
        /\ context[c].rand \in Nat /\ context[c].seq32 \in Nat
        /\ context[c].seq64 \in Nat /\ context[c].start \in Nat
  BY DEF OidTypeOK, Context
<1> QED BY <1>1, <1>2, OidAssumption DEF FieldTypes, OidTypeOK, OidAssumption, Contexts, Default

LEMMA LockStep ==
  ASSUME OidTypeOK, LockInv, [OidNext]_oidVars PROVE LockInv'
<1>1. FieldTypes BY Typed
<1> USE <1>1 DEF FieldTypes, Fields, Others, LockInv, Holding
<1>2. CASE UNCHANGED <<once, spin, randCalls, context, making, oids>> BY <1>2
<1>3. ASSUME NEW t \in OidTasks, Ask(t) PROVE LockInv'
  <2>1. AskDone(t) BY <1>3, AskEffect
  <2> QED BY <2>1 DEF AskDone
<1>4. ASSUME NEW t \in OidTasks, Lock(t) PROVE LockInv'
  <2>1. LockDone(t) BY <1>4, LockEffect
  <2> QED BY <2>1 DEF LockDone
<1>5. ASSUME NEW t \in OidTasks, ReadCounter(t) PROVE LockInv'
  <2>1. ReadDone(t) BY <1>5, ReadEffect
  <2> QED BY <2>1 DEF ReadDone
<1>6. ASSUME NEW t \in OidTasks, WriteCounter(t) PROVE LockInv'
  <2>1. WriteDone(t) BY <1>6, WriteEffect
  <2> QED BY <2>1 DEF WriteDone
<1>7. ASSUME NEW t \in OidTasks, Unlock(t) PROVE LockInv'
  <2>1. UnlockDone(t) BY <1>7, UnlockEffect
  <2>2. /\ Others(t) /\ UNCHANGED <<once, randCalls, context>> /\ spin' = Default
        /\ \/ making[t].pc = "unlock" /\ Fields(t, "seed", making[t].on, making[t].value)
           \/ making[t].pc = "unlock64" /\ Fields(t, "idle", Default, 0)
    BY <2>1 DEF UnlockDone
  <2> QED BY <2>2
<1>8. ASSUME NEW t \in OidTasks, Seed(t) PROVE LockInv'
  <2>1. SeedDone(t) BY <1>8, SeedEffect
  <2> QED BY <2>1 DEF SeedDone
<1>9. ASSUME NEW t \in OidTasks, SetOnce(t) PROVE LockInv'
  <2>1. SetOnceDone(t) BY <1>9, SetOnceEffect
  <2> QED BY <2>1 DEF SetOnceDone
<1>10. ASSUME NEW t \in OidTasks, Time(t) PROVE LockInv'
  <2>1. TimeDone(t) BY <1>10, TimeEffect
  <2> QED BY <2>1 DEF TimeDone
<1>11. ASSUME NEW t \in OidTasks, CopyRandomness(t) PROVE LockInv'
  <2>1. CopyDone(t) BY <1>11, CopyEffect
  <2> QED BY <2>1 DEF CopyDone
<1>12. ASSUME NEW t \in OidTasks, Draw(t) PROVE LockInv'
  <2>1. DrawDone(t) BY <1>12, DrawEffect
  <2>2. \A c \in Contexts :
          context'[c].rand = context[c].rand /\ context'[c].seq64 = context[c].seq64
    BY <2>1 DEF DrawDone
  <2>3. making[t].pc = "draw" /\ Fields(t, "idle", Default, 0) /\ Others(t)
        /\ UNCHANGED <<once, spin, randCalls>>
    BY <2>1 DEF DrawDone
  <2> QED BY <2>2, <2>3
<1> QED BY <1>2, <1>3, <1>4, <1>5, <1>6, <1>7, <1>8, <1>9, <1>10, <1>11, <1>12, StepCases

LEMMA SeedStep ==
  ASSUME OidTypeOK, LockInv, SeedInv, [OidNext]_oidVars PROVE SeedInv'
<1>1. FieldTypes BY Typed
<1> USE <1>1
    DEF FieldTypes, Fields, Others, LockInv, SeedInv, SeedingPc, UsingOne, Ready, Alone, Seeding,
        Digest
<1>2. CASE UNCHANGED <<once, spin, randCalls, context, making, oids>> BY <1>2
<1>3. ASSUME NEW t \in OidTasks, Ask(t) PROVE SeedInv'
  <2>1. AskDone(t) BY <1>3, AskEffect
  <2> QED BY <2>1 DEF AskDone
<1>4. ASSUME NEW t \in OidTasks, Lock(t) PROVE SeedInv'
  <2>1. LockDone(t) BY <1>4, LockEffect
  <2> QED BY <2>1 DEF LockDone
<1>5. ASSUME NEW t \in OidTasks, ReadCounter(t) PROVE SeedInv'
  <2>1. ReadDone(t) BY <1>5, ReadEffect
  <2> QED BY <2>1 DEF ReadDone
<1>6. ASSUME NEW t \in OidTasks, WriteCounter(t) PROVE SeedInv'
  <2>1. WriteDone(t) BY <1>6, WriteEffect
  <2> QED BY <2>1 DEF WriteDone
<1>7. ASSUME NEW t \in OidTasks, Unlock(t) PROVE SeedInv'
  <2>1. UnlockDone(t) BY <1>7, UnlockEffect
  <2>2. /\ Others(t) /\ UNCHANGED <<once, randCalls, context>> /\ spin' = Default
        /\ \/ making[t].pc = "unlock" /\ Fields(t, "seed", making[t].on, making[t].value)
           \/ making[t].pc = "unlock64" /\ Fields(t, "idle", Default, 0)
    BY <2>1 DEF UnlockDone
  <2> QED BY <2>2
<1>8. ASSUME NEW t \in OidTasks, Seed(t) PROVE SeedInv'
  <2>1. SeedDone(t) BY <1>8, SeedEffect
  <2> QED BY <2>1 DEF SeedDone
<1>9. ASSUME NEW t \in OidTasks, SetOnce(t) PROVE SeedInv'
  <2>1. SetOnceDone(t) BY <1>9, SetOnceEffect
  <2> QED BY <2>1 DEF SetOnceDone
<1>10. ASSUME NEW t \in OidTasks, Time(t) PROVE SeedInv'
  <2>1. TimeDone(t) BY <1>10, TimeEffect
  <2> QED BY <2>1 DEF TimeDone
<1>11. ASSUME NEW t \in OidTasks, CopyRandomness(t) PROVE SeedInv'
  <2>1. CopyDone(t) BY <1>11, CopyEffect
  <2> QED BY <2>1 DEF CopyDone
<1>12. ASSUME NEW t \in OidTasks, Draw(t) PROVE SeedInv'
  <2>1. DrawDone(t) BY <1>12, DrawEffect
  <2>2. \A c \in Contexts :
          context'[c].rand = context[c].rand /\ context'[c].seq64 = context[c].seq64
    BY <2>1 DEF DrawDone
  <2>3. making[t].pc = "draw" /\ Fields(t, "idle", Default, 0) /\ Others(t)
        /\ UNCHANGED <<once, spin, randCalls>>
    BY <2>1 DEF DrawDone
  <2> QED BY <2>2, <2>3
<1> QED BY <1>2, <1>3, <1>4, <1>5, <1>6, <1>7, <1>8, <1>9, <1>10, <1>11, <1>12, StepCases

LEMMA RandStep ==
  ASSUME OidTypeOK, LockInv, SeedInv, RandInv, [OidNext]_oidVars PROVE RandInv'
<1>1. FieldTypes BY Typed
<1> USE <1>1
    DEF FieldTypes, Fields, Others, LockInv, SeedInv, RandInv, Holding, SeedingPc, UsingOne, Digest
<1>2. CASE UNCHANGED <<once, spin, randCalls, context, making, oids>> BY <1>2
<1>3. ASSUME NEW t \in OidTasks, Ask(t) PROVE RandInv'
  <2>1. AskDone(t) BY <1>3, AskEffect
  <2> QED BY <2>1 DEF AskDone
<1>4. ASSUME NEW t \in OidTasks, Lock(t) PROVE RandInv'
  <2>1. LockDone(t) BY <1>4, LockEffect
  <2> QED BY <2>1 DEF LockDone
<1>5. ASSUME NEW t \in OidTasks, ReadCounter(t) PROVE RandInv'
  <2>1. ReadDone(t) BY <1>5, ReadEffect
  <2> QED BY <2>1 DEF ReadDone
<1>6. ASSUME NEW t \in OidTasks, WriteCounter(t) PROVE RandInv'
  <2>1. WriteDone(t) BY <1>6, WriteEffect
  <2> QED BY <2>1 DEF WriteDone
<1>7. ASSUME NEW t \in OidTasks, Unlock(t) PROVE RandInv'
  <2>1. UnlockDone(t) BY <1>7, UnlockEffect
  <2>2. /\ Others(t) /\ UNCHANGED <<once, randCalls, context>> /\ spin' = Default
        /\ \/ making[t].pc = "unlock" /\ Fields(t, "seed", making[t].on, making[t].value)
           \/ making[t].pc = "unlock64" /\ Fields(t, "idle", Default, 0)
    BY <2>1 DEF UnlockDone
  <2> QED BY <2>2
<1>8. ASSUME NEW t \in OidTasks, Seed(t) PROVE RandInv'
  <2>1. SeedDone(t) BY <1>8, SeedEffect
  <2> QED BY <2>1 DEF SeedDone
<1>9. ASSUME NEW t \in OidTasks, SetOnce(t) PROVE RandInv'
  <2>1. SetOnceDone(t) BY <1>9, SetOnceEffect
  <2> QED BY <2>1 DEF SetOnceDone
<1>10. ASSUME NEW t \in OidTasks, Time(t) PROVE RandInv'
  <2>1. TimeDone(t) BY <1>10, TimeEffect
  <2> QED BY <2>1 DEF TimeDone
<1>11. ASSUME NEW t \in OidTasks, CopyRandomness(t) PROVE RandInv'
  <2>1. CopyDone(t) BY <1>11, CopyEffect
  <2> QED BY <2>1 DEF CopyDone
<1>12. ASSUME NEW t \in OidTasks, Draw(t) PROVE RandInv'
  <2>1. DrawDone(t) BY <1>12, DrawEffect
  <2>2. \A c \in Contexts :
          context'[c].rand = context[c].rand /\ context'[c].seq64 = context[c].seq64
    BY <2>1 DEF DrawDone
  <2>3. making[t].pc = "draw" /\ Fields(t, "idle", Default, 0) /\ Others(t)
        /\ UNCHANGED <<once, spin, randCalls>>
    BY <2>1 DEF DrawDone
  <2> QED BY <2>2, <2>3
<1> QED BY <1>2, <1>3, <1>4, <1>5, <1>6, <1>7, <1>8, <1>9, <1>10, <1>11, <1>12, StepCases

LEMMA Seq64Step ==
  ASSUME OidTypeOK, LockInv, SeedInv, Seq64Inv, [OidNext]_oidVars PROVE Seq64Inv'
<1>1. FieldTypes BY Typed
<1> USE <1>1 DEF FieldTypes, Fields, Others, LockInv, SeedInv, Seq64Inv, Holding, SeedingPc, UsingOne,
        Digest
<1>2. CASE UNCHANGED <<once, spin, randCalls, context, making, oids>> BY <1>2
<1>3. ASSUME NEW t \in OidTasks, Ask(t) PROVE Seq64Inv'
  <2>1. AskDone(t) BY <1>3, AskEffect
  <2> QED BY <2>1 DEF AskDone
<1>4. ASSUME NEW t \in OidTasks, Lock(t) PROVE Seq64Inv'
  <2>1. LockDone(t) BY <1>4, LockEffect
  <2> QED BY <2>1 DEF LockDone
<1>5. ASSUME NEW t \in OidTasks, ReadCounter(t) PROVE Seq64Inv'
  <2>1. ReadDone(t) BY <1>5, ReadEffect
  <2> QED BY <2>1 DEF ReadDone
<1>6. ASSUME NEW t \in OidTasks, WriteCounter(t) PROVE Seq64Inv'
  <2>1. WriteDone(t) BY <1>6, WriteEffect
  <2> QED BY <2>1 DEF WriteDone
<1>7. ASSUME NEW t \in OidTasks, Unlock(t) PROVE Seq64Inv'
  <2>1. UnlockDone(t) BY <1>7, UnlockEffect
  <2>2. /\ Others(t) /\ UNCHANGED <<once, randCalls, context>> /\ spin' = Default
        /\ \/ making[t].pc = "unlock" /\ Fields(t, "seed", making[t].on, making[t].value)
           \/ making[t].pc = "unlock64" /\ Fields(t, "idle", Default, 0)
    BY <2>1 DEF UnlockDone
  <2> QED BY <2>2
<1>8. ASSUME NEW t \in OidTasks, Seed(t) PROVE Seq64Inv'
  <2>1. SeedDone(t) BY <1>8, SeedEffect
  <2> QED BY <2>1 DEF SeedDone
<1>9. ASSUME NEW t \in OidTasks, SetOnce(t) PROVE Seq64Inv'
  <2>1. SetOnceDone(t) BY <1>9, SetOnceEffect
  <2> QED BY <2>1 DEF SetOnceDone
<1>10. ASSUME NEW t \in OidTasks, Time(t) PROVE Seq64Inv'
  <2>1. TimeDone(t) BY <1>10, TimeEffect
  <2> QED BY <2>1 DEF TimeDone
<1>11. ASSUME NEW t \in OidTasks, CopyRandomness(t) PROVE Seq64Inv'
  <2>1. CopyDone(t) BY <1>11, CopyEffect
  <2> QED BY <2>1 DEF CopyDone
<1>12. ASSUME NEW t \in OidTasks, Draw(t) PROVE Seq64Inv'
  <2>1. DrawDone(t) BY <1>12, DrawEffect
  <2>2. \A c \in Contexts :
          context'[c].start = context[c].start /\ context'[c].seq64 = context[c].seq64
    BY <2>1 DEF DrawDone
  <2>3. making[t].pc = "draw" /\ Fields(t, "idle", Default, 0) /\ Others(t)
        /\ UNCHANGED <<once, spin, randCalls>>
    BY <2>1 DEF DrawDone
  <2> QED BY <2>2, <2>3
<1> QED BY <1>2, <1>3, <1>4, <1>5, <1>6, <1>7, <1>8, <1>9, <1>10, <1>11, <1>12, StepCases

-----------------------------------------------------------------------------
(* What becomes of the contexts in use, and of the ObjectIDs.              *)
RandKept ==
  \A c \in Contexts : context[c].rand # 0 =>
    context'[c].rand = context[c].rand /\ context'[c].start = context[c].start
OidsKept == oids' = oids \/ \E o \in Oid : oids' = Append(oids, o)

LEMMA Kept ==
  ASSUME OidTypeOK, SeedInv, [OidNext]_oidVars PROVE RandKept /\ OidsKept
<1>1. FieldTypes BY Typed
<1> USE <1>1 DEF FieldTypes, RandKept, OidsKept
<1>2. CASE UNCHANGED <<once, spin, randCalls, context, making, oids>> BY <1>2
<1>3. ASSUME NEW t \in OidTasks,
             Ask(t) \/ Lock(t) \/ ReadCounter(t) \/ SetOnce(t) \/ Time(t) \/ CopyRandomness(t)
      PROVE  RandKept /\ OidsKept
  BY <1>3 DEF Ask, Lock, ReadCounter, SetOnce, Time, CopyRandomness
<1>4. ASSUME NEW t \in OidTasks, WriteCounter(t) PROVE RandKept /\ OidsKept
  <2>1. WriteDone(t) BY <1>4, WriteEffect
  <2> QED BY <2>1 DEF WriteDone
<1>5. ASSUME NEW t \in OidTasks, Unlock(t) PROVE RandKept /\ OidsKept
  <2>1. UnlockDone(t) BY <1>5, UnlockEffect
  <2>2. [at |-> making[t].at, bytes |-> making[t].value, kind |-> "seq64", from |-> making[t].on,
         nr |-> making[t].value] \in Oid
    BY DEF OidTypeOK, Making, Oid
  <2> QED BY <2>1, <2>2 DEF UnlockDone
<1>6. ASSUME NEW t \in OidTasks, Seed(t) PROVE RandKept /\ OidsKept
  <2>1. SeedDone(t) BY <1>6, SeedEffect
  <2>2. context[making[t].on].rand = 0 BY <2>1 DEF SeedDone, SeedInv, SeedingPc
  <2> QED BY <2>1, <2>2 DEF SeedDone
<1>7. ASSUME NEW t \in OidTasks, Draw(t) PROVE RandKept /\ OidsKept
  <2>1. DrawDone(t) BY <1>7, DrawEffect
  <2> DEFINE nr == context[making[t].on].seq32
             b == Bytes(making[t].value, nr)
  <2>4. nr \in Nat /\ b \in Nat BY BytesType
  <2> HIDE DEF nr, b
  <2>2. [at |-> making[t].at, bytes |-> b, kind |-> "seq32", from |-> making[t].on, nr |-> nr] \in Oid
    BY <2>4 DEF OidTypeOK, Making, Oid
  <2>3. RandKept BY <2>1 DEF DrawDone
  <2> QED BY <2>1, <2>2, <2>3 DEF DrawDone, nr, b
<1> QED BY <1>2, <1>3, <1>4, <1>5, <1>6, <1>7, StepCases

(* An ObjectID stays where it is, and so does its context.                 *)
LEMMA OldOid ==
  ASSUME OidTypeOK, OwnedInv, RandKept, OidsKept, NEW i \in 1..Len(oids)
  PROVE  /\ oids'[i] = oids[i] /\ Len(oids) <= Len(oids') /\ Len(oids') \in Nat /\ Len(oids) \in Nat
         /\ oids[i] \in Oid /\ context[oids[i].from].rand # 0
         /\ context'[oids[i].from].rand = context[oids[i].from].rand
         /\ context'[oids[i].from].start = context[oids[i].from].start
<1>1. oids'[i] = oids[i] /\ Len(oids) <= Len(oids') /\ Len(oids') \in Nat /\ Len(oids) \in Nat
      /\ oids[i] \in Oid
  BY DEF OidsKept, OidTypeOK
<1>2. oids[i].from \in Contexts /\ context[oids[i].from].rand # 0
  BY <1>1 DEF OwnedInv, Made, Oid
<1> QED BY <1>1, <1>2 DEF RandKept

(* A new one is of a seeded context. *)
NewOid(t, kind, b, v) ==
  oids' = Append(oids, [at |-> making[t].at, bytes |-> b, kind |-> kind, from |-> making[t].on,
                        nr |-> v])
LEMMA NewOidParts ==
  ASSUME OidTypeOK, NEW t \in OidTasks, NEW kind, NEW b, NEW v, NewOid(t, kind, b, v)
  PROVE  LET j == Len(oids) + 1 IN
         /\ Len(oids') = j /\ j \in Nat /\ oids'[j].kind = kind
         /\ oids'[j].from = making[t].on /\ oids'[j].nr = v /\ oids'[j].bytes = b
BY DEF OidTypeOK, NewOid
NewSeq32(t) ==
  NewOid(t, "seq32", Bytes(context[making[t].on].rand, context[making[t].on].seq32),
         context[making[t].on].seq32)
LEMMA Handed ==
  ASSUME OidTypeOK, SeedInv, [OidNext]_oidVars
  PROVE  \/ oids' = oids
         \/ \E t \in OidTasks : UnlockDone(t) /\ making[t].pc = "unlock64"
                               /\ NewOid(t, "seq64", making[t].value, making[t].value)
         \/ \E t \in OidTasks : DrawDone(t) /\ NewSeq32(t)
<1>1. ASSUME NEW t \in OidTasks, Unlock(t), oids' # oids
      PROVE  /\ UnlockDone(t) /\ making[t].pc = "unlock64"
             /\ NewOid(t, "seq64", making[t].value, making[t].value)
  BY <1>1, UnlockEffect DEF UnlockDone, NewOid
<1>2. ASSUME NEW t \in OidTasks, Draw(t)
      PROVE  DrawDone(t) /\ NewSeq32(t)
  <2>1. DrawDone(t) BY <1>2, DrawEffect
  <2>2. making[t].value = context[making[t].on].rand BY <2>1 DEF DrawDone, SeedInv
  <2> QED BY <2>1, <2>2 DEF DrawDone, NewSeq32, NewOid
<1>3. ASSUME NEW t \in OidTasks,
             Ask(t) \/ Lock(t) \/ ReadCounter(t) \/ WriteCounter(t) \/ Seed(t) \/ SetOnce(t)
             \/ Time(t) \/ CopyRandomness(t)
      PROVE  oids' = oids
  BY <1>3 DEF Ask, Lock, ReadCounter, WriteCounter, Seed, SetOnce, Time, CopyRandomness
<1> QED BY <1>1, <1>2, <1>3, StepCases

LEMMA OwnedStep ==
  ASSUME OidTypeOK, SeedInv, Seq64Inv, OwnedInv, [OidNext]_oidVars PROVE OwnedInv'
<1>1. RandKept /\ OidsKept /\ FieldTypes BY Kept, Typed
<1>2. ASSUME NEW i \in 1..Len(oids) PROVE Made(oids[i])'
  <2>1. Made(oids[i]) BY DEF OwnedInv
  <2> QED BY <1>1, <2>1, OldOid DEF Made, Bytes
<1>3. CASE oids' = oids BY <1>2, <1>3 DEF OwnedInv
<1>4. ASSUME NEW t \in OidTasks, NEW kind \in {"seq32", "seq64"}, NEW b, NEW v,
             NewOid(t, kind, b, v), making[t].pc \in UsingOne,
             kind = "seq64" => b = v /\ context[making[t].on].start <= v,
             kind = "seq32" => b = Bytes(context[making[t].on].rand, v)
      PROVE  OwnedInv'
  <2>1. making[t].on \in Contexts BY <1>1 DEF FieldTypes
  <2>2. context[making[t].on].rand # 0 BY <1>4 DEF SeedInv
  <2>3. /\ context'[making[t].on].rand = context[making[t].on].rand
        /\ context'[making[t].on].start = context[making[t].on].start
    BY <1>1, <2>1, <2>2 DEF RandKept
  <2>4. /\ Len(oids') = Len(oids) + 1 /\ oids'[Len(oids) + 1].kind = kind
        /\ oids'[Len(oids) + 1].from = making[t].on /\ oids'[Len(oids) + 1].nr = v
        /\ oids'[Len(oids) + 1].bytes = b
    BY <1>4, NewOidParts
  <2>5. Len(oids) \in Nat BY DEF OidTypeOK
  <2>6. \A i \in 1..Len(oids') : i \in 1..Len(oids) \/ i = Len(oids) + 1 BY <2>4, <2>5
  <2>7. ASSUME NEW i, i = Len(oids) + 1 PROVE Made(oids[i])'
    BY <1>4, <2>2, <2>3, <2>4, <2>7 DEF Made, Bytes
  <2> QED BY <1>2, <2>6, <2>7 DEF OwnedInv
<1>5. ASSUME NEW t \in OidTasks, UnlockDone(t), making[t].pc = "unlock64",
             NewOid(t, "seq64", making[t].value, making[t].value)
      PROVE  OwnedInv'
  BY <1>4, <1>5 DEF UsingOne, Seq64Inv
<1>6. ASSUME NEW t \in OidTasks, DrawDone(t), NewSeq32(t) PROVE OwnedInv'
  BY <1>4, <1>6 DEF UsingOne, DrawDone, NewSeq32
<1> QED BY <1>3, <1>5, <1>6, Handed

LEMMA RangeStep == ASSUME OidTypeOK, RangeInv, [OidNext]_oidVars PROVE RangeInv'
<1>1. FieldTypes BY Typed
<1> USE <1>1 DEF FieldTypes, RangeInv, Digest
<1>2. CASE UNCHANGED <<once, spin, randCalls, context, making, oids>> BY <1>2
<1>3. ASSUME NEW t \in OidTasks, Ask(t) PROVE RangeInv'
  <2>1. AskDone(t) BY <1>3, AskEffect
  <2> QED BY <2>1 DEF AskDone
<1>4. ASSUME NEW t \in OidTasks, Lock(t) PROVE RangeInv'
  <2>1. LockDone(t) BY <1>4, LockEffect
  <2> QED BY <2>1 DEF LockDone
<1>5. ASSUME NEW t \in OidTasks, ReadCounter(t) PROVE RangeInv'
  <2>1. ReadDone(t) BY <1>5, ReadEffect
  <2> QED BY <2>1 DEF ReadDone
<1>6. ASSUME NEW t \in OidTasks, WriteCounter(t) PROVE RangeInv'
  <2>1. WriteDone(t) BY <1>6, WriteEffect
  <2> QED BY <2>1 DEF WriteDone
<1>7. ASSUME NEW t \in OidTasks, Unlock(t) PROVE RangeInv'
  <2>1. UnlockDone(t) BY <1>7, UnlockEffect
  <2> QED BY <2>1 DEF UnlockDone
<1>8. ASSUME NEW t \in OidTasks, Seed(t) PROVE RangeInv'
  <2>1. SeedDone(t) BY <1>8, SeedEffect
  <2> QED BY <2>1 DEF SeedDone
<1>9. ASSUME NEW t \in OidTasks, SetOnce(t) PROVE RangeInv'
  <2>1. SetOnceDone(t) BY <1>9, SetOnceEffect
  <2> QED BY <2>1 DEF SetOnceDone
<1>10. ASSUME NEW t \in OidTasks, Time(t) PROVE RangeInv'
  <2>1. TimeDone(t) BY <1>10, TimeEffect
  <2> QED BY <2>1 DEF TimeDone
<1>11. ASSUME NEW t \in OidTasks, CopyRandomness(t) PROVE RangeInv'
  <2>1. CopyDone(t) BY <1>11, CopyEffect
  <2> QED BY <2>1 DEF CopyDone
<1>12. ASSUME NEW t \in OidTasks, Draw(t) PROVE RangeInv'
  <2>1. DrawDone(t) BY <1>12, DrawEffect
  <2>2. (context[making[t].on].seq32 + 1) % SeqWrap \in 0..(SeqWrap - 1) OBVIOUS
  <2>3. context'[making[t].on].seq32 < SeqWrap BY <2>1, <2>2 DEF DrawDone
  <2>4. \A c \in Contexts \ {making[t].on} : context'[c] = context[c] BY <2>1 DEF DrawDone
  <2> QED BY <2>3, <2>4
<1> QED BY <1>2, <1>3, <1>4, <1>5, <1>6, <1>7, <1>8, <1>9, <1>10, <1>11, <1>12, StepCases

LEMMA Past64Kept ==
  ASSUME OidTypeOK, SeedInv, Seq64Inv, [OidNext]_oidVars, NEW i \in 1..Len(oids), NEW c \in Contexts,
         context[c].rand # 0, oids'[i] = oids[i], Past64(i, c), oids[i].nr \in Nat
  PROVE  Past64(i, c)'
<1>1. FieldTypes BY Typed
<1> USE <1>1 DEF FieldTypes, Fields, Others, Past64, SeedInv, Seq64Inv, SeedingPc
<1>2. CASE UNCHANGED <<once, spin, randCalls, context, making, oids>> BY <1>2
<1>3. ASSUME NEW t \in OidTasks, Ask(t) PROVE Past64(i, c)'
  <2>1. AskDone(t) BY <1>3, AskEffect
  <2> QED BY <2>1 DEF AskDone
<1>4. ASSUME NEW t \in OidTasks, Lock(t) PROVE Past64(i, c)'
  <2>1. LockDone(t) BY <1>4, LockEffect
  <2> QED BY <2>1 DEF LockDone
<1>5. ASSUME NEW t \in OidTasks, ReadCounter(t) PROVE Past64(i, c)'
  <2>1. ReadDone(t) BY <1>5, ReadEffect
  <2> QED BY <2>1 DEF ReadDone
<1>6. ASSUME NEW t \in OidTasks, WriteCounter(t) PROVE Past64(i, c)'
  <2>1. WriteDone(t) BY <1>6, WriteEffect
  <2>2. CASE making[t].pc = "store" BY <2>1, <2>2 DEF WriteDone
  <2>3. CASE making[t].pc # "store" /\ making[t].on = c
    <3>1. /\ Others(t) /\ Fields(t, "unlock64", c, making[t].value) /\ oids' = oids
          /\ context'[c].seq64 = making[t].value + 1 /\ making[t].value = context[c].seq64
      BY <2>1, <2>3 DEF WriteDone
    <3>2. oids[i].nr < context[c].seq64 /\ context[c].seq64 \in Nat OBVIOUS
    <3>3. oids'[i].nr < context'[c].seq64 BY <3>1, <3>2
    <3>4. \A u \in OidTasks \ {t} : making'[u].pc = "unlock64" /\ making'[u].on = c =>
                                     oids'[i].nr < making'[u].value
      BY <3>1
    <3>5. oids'[i].nr < making'[t].value BY <3>1, <3>2
    <3> QED BY <3>3, <3>4, <3>5
  <2>4. CASE making[t].pc # "store" /\ making[t].on # c
    <3>1. Others(t) /\ context'[c] = context[c] /\ making'[t].on # c /\ oids' = oids
      BY <2>1, <2>4 DEF WriteDone
    <3> QED BY <3>1
  <2> QED BY <2>2, <2>3, <2>4
<1>7. ASSUME NEW t \in OidTasks, Unlock(t) PROVE Past64(i, c)'
  <2>1. UnlockDone(t) BY <1>7, UnlockEffect
  <2> QED BY <2>1 DEF UnlockDone
<1>8. ASSUME NEW t \in OidTasks, Seed(t) PROVE Past64(i, c)'
  <2>1. SeedDone(t) BY <1>8, SeedEffect
  <2> QED BY <2>1, ZenonT(30) DEF SeedDone
<1>9. ASSUME NEW t \in OidTasks, SetOnce(t) PROVE Past64(i, c)'
  <2>1. SetOnceDone(t) BY <1>9, SetOnceEffect
  <2> QED BY <2>1 DEF SetOnceDone
<1>10. ASSUME NEW t \in OidTasks, Time(t) PROVE Past64(i, c)'
  <2>1. TimeDone(t) BY <1>10, TimeEffect
  <2> QED BY <2>1 DEF TimeDone
<1>11. ASSUME NEW t \in OidTasks, CopyRandomness(t) PROVE Past64(i, c)'
  <2>1. CopyDone(t) BY <1>11, CopyEffect
  <2> QED BY <2>1 DEF CopyDone
<1>12. ASSUME NEW t \in OidTasks, Draw(t) PROVE Past64(i, c)'
  <2>1. DrawDone(t) BY <1>12, DrawEffect
  <2> QED BY <2>1, ZenonT(30) DEF DrawDone
<1> QED BY <1>2, <1>3, <1>4, <1>5, <1>6, <1>7, <1>8, <1>9, <1>10, <1>11, <1>12, StepCases

LEMMA Seq32Kept ==
  ASSUME OidTypeOK, SeedInv, [OidNext]_oidVars, NEW c \in Contexts, context[c].rand # 0
  PROVE  \/ context'[c].seq32 = context[c].seq32
         \/ context'[c].seq32 = (context[c].seq32 + 1) % SeqWrap /\ Len(oids') = Len(oids) + 1
<1>1. FieldTypes BY Typed
<1> USE <1>1 DEF FieldTypes, OidTypeOK, SeedInv, SeedingPc
<1>2. CASE UNCHANGED <<once, spin, randCalls, context, making, oids>> BY <1>2
<1>3. ASSUME NEW t \in OidTasks, Ask(t) PROVE 
             \/ context'[c].seq32 = context[c].seq32
             \/ context'[c].seq32 = (context[c].seq32 + 1) % SeqWrap /\ Len(oids') = Len(oids) + 1
  <2>1. AskDone(t) BY <1>3, AskEffect
  <2> QED BY <2>1 DEF AskDone
<1>4. ASSUME NEW t \in OidTasks, Lock(t) PROVE 
             \/ context'[c].seq32 = context[c].seq32
             \/ context'[c].seq32 = (context[c].seq32 + 1) % SeqWrap /\ Len(oids') = Len(oids) + 1
  <2>1. LockDone(t) BY <1>4, LockEffect
  <2> QED BY <2>1 DEF LockDone
<1>5. ASSUME NEW t \in OidTasks, ReadCounter(t) PROVE 
             \/ context'[c].seq32 = context[c].seq32
             \/ context'[c].seq32 = (context[c].seq32 + 1) % SeqWrap /\ Len(oids') = Len(oids) + 1
  <2>1. ReadDone(t) BY <1>5, ReadEffect
  <2> QED BY <2>1 DEF ReadDone
<1>6. ASSUME NEW t \in OidTasks, WriteCounter(t) PROVE 
             \/ context'[c].seq32 = context[c].seq32
             \/ context'[c].seq32 = (context[c].seq32 + 1) % SeqWrap /\ Len(oids') = Len(oids) + 1
  <2>1. WriteDone(t) BY <1>6, WriteEffect
  <2> QED BY <2>1 DEF WriteDone
<1>7. ASSUME NEW t \in OidTasks, Unlock(t) PROVE 
             \/ context'[c].seq32 = context[c].seq32
             \/ context'[c].seq32 = (context[c].seq32 + 1) % SeqWrap /\ Len(oids') = Len(oids) + 1
  <2>1. UnlockDone(t) BY <1>7, UnlockEffect
  <2> QED BY <2>1 DEF UnlockDone
<1>8. ASSUME NEW t \in OidTasks, Seed(t) PROVE 
             \/ context'[c].seq32 = context[c].seq32
             \/ context'[c].seq32 = (context[c].seq32 + 1) % SeqWrap /\ Len(oids') = Len(oids) + 1
  <2>1. SeedDone(t) BY <1>8, SeedEffect
  <2> QED BY <2>1 DEF SeedDone
<1>9. ASSUME NEW t \in OidTasks, SetOnce(t) PROVE 
             \/ context'[c].seq32 = context[c].seq32
             \/ context'[c].seq32 = (context[c].seq32 + 1) % SeqWrap /\ Len(oids') = Len(oids) + 1
  <2>1. SetOnceDone(t) BY <1>9, SetOnceEffect
  <2> QED BY <2>1 DEF SetOnceDone
<1>10. ASSUME NEW t \in OidTasks, Time(t) PROVE 
             \/ context'[c].seq32 = context[c].seq32
             \/ context'[c].seq32 = (context[c].seq32 + 1) % SeqWrap /\ Len(oids') = Len(oids) + 1
  <2>1. TimeDone(t) BY <1>10, TimeEffect
  <2> QED BY <2>1 DEF TimeDone
<1>11. ASSUME NEW t \in OidTasks, CopyRandomness(t) PROVE 
             \/ context'[c].seq32 = context[c].seq32
             \/ context'[c].seq32 = (context[c].seq32 + 1) % SeqWrap /\ Len(oids') = Len(oids) + 1
  <2>1. CopyDone(t) BY <1>11, CopyEffect
  <2> QED BY <2>1 DEF CopyDone
<1>12. ASSUME NEW t \in OidTasks, Draw(t) PROVE 
             \/ context'[c].seq32 = context[c].seq32
             \/ context'[c].seq32 = (context[c].seq32 + 1) % SeqWrap /\ Len(oids') = Len(oids) + 1
  <2>1. DrawDone(t) BY <1>12, DrawEffect
  <2>2. CASE c = making[t].on BY <2>1, <2>2 DEF DrawDone
  <2>3. CASE c # making[t].on BY <2>1, <2>3 DEF DrawDone
  <2> QED BY <2>2, <2>3
<1> QED BY <1>2, <1>3, <1>4, <1>5, <1>6, <1>7, <1>8, <1>9, <1>10, <1>11, <1>12, StepCases

LEMMA Past32Kept ==
  ASSUME OidTypeOK, SeedInv, [OidNext]_oidVars, NEW i \in 1..Len(oids), NEW c \in Contexts,
         context[c].rand # 0, oids'[i] = oids[i], Past32(i, c), oids[i].nr \in Nat,
         Len(oids) <= Len(oids'), Len(oids) \in Nat, Len(oids') \in Nat
  PROVE  Past32(i, c)'
<1> DEFINE v == oids[i].nr
<1>1. PICK k \in 1..(Len(oids) - i + 1) : context[c].seq32 = (v + k) % SeqWrap BY DEF Past32
<1> HIDE DEF v
<1>6. v \in Nat /\ k \in Nat \ {0} BY DEF v
<1>2. SeqWrap \in Nat \ {0} BY Typed DEF FieldTypes
<1>3. v < SeqWrap BY DEF Past32, v
<1>4. CASE context'[c].seq32 = context[c].seq32
  <2>1. k \in 1..(Len(oids') - i + 1) OBVIOUS
  <2> QED BY <1>1, <1>3, <1>4, <2>1 DEF Past32, v
<1>5. CASE context'[c].seq32 = (context[c].seq32 + 1) % SeqWrap /\ Len(oids') = Len(oids) + 1
  <2>1. k + 1 \in 1..(Len(oids') - i + 1) BY <1>5
  <2>2. v + k \in Nat /\ v + k + 1 = v + (k + 1) BY <1>6
  <2>3. (((v + k) % SeqWrap) + 1) % SeqWrap = (v + k + 1) % SeqWrap BY <1>2, <2>2, ModNext
  <2>4. context'[c].seq32 = (v + (k + 1)) % SeqWrap BY <1>1, <1>5, <2>2, <2>3
  <2> QED BY <1>3, <2>1, <2>4 DEF Past32, v
<1> QED BY <1>4, <1>5, Seq32Kept

LEMMA DrawnStep ==
  ASSUME OidTypeOK, LockInv, SeedInv, Seq64Inv, OwnedInv, DrawnInv, RangeInv, [OidNext]_oidVars
  PROVE  DrawnInv'
<1>1. FieldTypes /\ RandKept /\ OidsKept BY Typed, Kept
<1> DEFINE Good(i, c) == oids[i].from = c =>
                           /\ oids[i].kind = "seq64" => Past64(i, c)
                           /\ oids[i].kind = "seq32" => Past32(i, c)
<1>2. ASSUME NEW i \in 1..Len(oids), NEW c \in Contexts PROVE Good(i, c)'
  <2>1. /\ oids'[i] = oids[i] /\ Len(oids) <= Len(oids') /\ Len(oids') \in Nat /\ Len(oids) \in Nat
        /\ oids[i].from = c => context[c].rand # 0
    BY <1>1, OldOid
  <2>2. oids[i].nr \in Nat
    <3>1. oids[i] \in Oid BY <1>1, OldOid
    <3> QED BY <3>1 DEF Oid
  <2>3. Good(i, c) BY DEF DrawnInv
  <2>4. oids[i].from = c /\ oids[i].kind = "seq64" => Past64(i, c)'
    BY <2>1, <2>2, <2>3, Past64Kept
  <2>5. oids[i].from = c /\ oids[i].kind = "seq32" => Past32(i, c)'
    BY <2>1, <2>2, <2>3, Past32Kept
  <2> QED BY <2>1, <2>4, <2>5
<1>3. CASE oids' = oids BY <1>2, <1>3 DEF DrawnInv
<1>4. ASSUME NEW t \in OidTasks, NEW kind, NEW b, NEW v, NewOid(t, kind, b, v),
             NEW i, i = Len(oids) + 1, NEW c, c = making[t].on,
             kind = "seq64" => Past64(i, c)', kind = "seq32" => Past32(i, c)'
      PROVE  DrawnInv'
  <2>1. /\ Len(oids') = Len(oids) + 1 /\ oids'[Len(oids) + 1].kind = kind
        /\ oids'[Len(oids) + 1].from = making[t].on
    BY <1>4, NewOidParts
  <2>2. Len(oids) \in Nat BY DEF OidTypeOK
  <2>3. \A j \in 1..Len(oids') : j \in 1..Len(oids) \/ j = i BY <1>4, <2>1, <2>2
  <2>4. ASSUME NEW d \in Contexts PROVE Good(i, d)' BY <1>4, <2>1, <2>4
  <2> HIDE DEF Good
  <2>5. \A j \in 1..Len(oids'), d \in Contexts : Good(j, d)' BY <1>2, <2>3, <2>4
  <2> QED BY <2>5 DEF DrawnInv, Good
<1>5. ASSUME NEW t \in OidTasks, UnlockDone(t), making[t].pc = "unlock64",
             NewOid(t, "seq64", making[t].value, making[t].value),
             NEW i, i = Len(oids) + 1, NEW c, c = making[t].on
      PROVE  DrawnInv'
  <2>1. oids'[Len(oids) + 1].nr = making[t].value BY <1>5, NewOidParts
  <2>2. making[t].value < context'[making[t].on].seq64
    BY <1>1, <1>5 DEF UnlockDone, Seq64Inv, FieldTypes
  <2>3. \A u \in OidTasks : making'[u].pc # "unlock64"
    BY <1>5 DEF UnlockDone, Others, Fields, LockInv, Holding
  <2>4. Past64(i, c)' BY <1>5, <2>1, <2>2, <2>3 DEF Past64
  <2> QED BY <1>4, <1>5, <2>4
<1>6. ASSUME NEW t \in OidTasks, DrawDone(t), NewSeq32(t),
             NEW i, i = Len(oids) + 1, NEW c, c = making[t].on
      PROVE  DrawnInv'
  <2> DEFINE v == context[making[t].on].seq32
  <2>1. /\ oids'[Len(oids) + 1].nr = v /\ Len(oids') = Len(oids) + 1 /\ Len(oids) \in Nat
    BY <1>6, NewOidParts DEF OidTypeOK, NewSeq32
  <2>2. v < SeqWrap /\ context'[making[t].on].seq32 = (v + 1) % SeqWrap
    BY <1>1, <1>6 DEF DrawDone, RangeInv, FieldTypes
  <2>3. 1 \in 1..(Len(oids') - (Len(oids) + 1) + 1) BY <2>1
  <2>4. Past32(i, c)' BY <1>6, <2>1, <2>2, <2>3 DEF Past32
  <2> QED BY <1>4, <1>6, <2>4 DEF NewSeq32
<1> QED BY <1>3, <1>5, <1>6, Handed

(* A number differs from all before of its counter, unless seq32 has gone  *)
(* round.                                                                  *)
LEMMA UniqueStep ==
  ASSUME OidTypeOK, SeedInv, Seq64Inv, DrawnInv, RangeInv, InContext, [OidNext]_oidVars
  PROVE  InContext'
<1>1. FieldTypes /\ RandKept /\ OidsKept /\ Len(oids) \in Nat BY Typed, Kept DEF OidTypeOK
<1>2. CASE oids' = oids BY <1>2 DEF InContext
<1>3. ASSUME NEW t \in OidTasks, NEW kind, NEW b, NEW v, NewOid(t, kind, b, v),
             \A i \in 1..Len(oids) :
               oids[i].kind = kind /\ oids[i].from = making[t].on /\ oids[i].nr = v =>
                 kind = "seq32" /\ Len(oids) + 1 - i >= SeqWrap
      PROVE  InContext'
  <2>1. /\ Len(oids') = Len(oids) + 1 /\ oids'[Len(oids) + 1].kind = kind
        /\ oids'[Len(oids) + 1].from = making[t].on /\ oids'[Len(oids) + 1].nr = v
    BY <1>3, NewOidParts
  <2>2. \A i \in 1..Len(oids) : oids'[i] = oids[i] BY <1>3 DEF NewOid, OidTypeOK
  <2>3. DOMAIN oids = 1..Len(oids) /\ DOMAIN oids' = 1..(Len(oids) + 1)
    BY <1>1, <1>3, <2>1 DEF NewOid, OidTypeOK
  <2>4. ASSUME NEW i \in DOMAIN oids', NEW j \in DOMAIN oids', i < j,
               oids'[i].kind = oids'[j].kind, oids'[i].from = oids'[j].from,
               oids'[i].nr = oids'[j].nr
        PROVE  oids'[i].kind = "seq32" /\ j - i >= SeqWrap
    <3>1. CASE j \in 1..Len(oids)
      <4>1. i \in 1..Len(oids) BY <1>1, <2>3, <2>4, <3>1
      <4> QED BY <2>2, <2>3, <2>4, <3>1, <4>1 DEF InContext
    <3>2. CASE j = Len(oids) + 1
      <4>1. i \in 1..Len(oids) BY <1>1, <2>3, <2>4, <3>2
      <4>2. oids[i].kind = kind /\ oids[i].from = making[t].on /\ oids[i].nr = v
        BY <2>1, <2>2, <2>4, <3>2, <4>1
      <4>3. kind = "seq32" /\ j - i >= SeqWrap BY <1>3, <3>2, <4>1, <4>2
      <4> QED BY <2>2, <4>1, <4>2, <4>3
    <3> QED BY <1>1, <2>3, <3>1, <3>2
  <2> QED BY <2>4 DEF InContext
<1>4. ASSUME NEW t \in OidTasks, UnlockDone(t), making[t].pc = "unlock64",
             NewOid(t, "seq64", making[t].value, making[t].value)
      PROVE  InContext'
  <2>1. ASSUME NEW i \in 1..Len(oids), oids[i].kind = "seq64", oids[i].from = making[t].on,
               oids[i].nr = making[t].value
        PROVE  FALSE
    <3>1. making[t].on \in Contexts /\ making[t].value \in Nat BY <1>1 DEF FieldTypes
    <3>2. Past64(i, making[t].on) BY <2>1, <3>1 DEF DrawnInv
    <3> QED BY <1>4, <2>1, <3>1, <3>2 DEF Past64
  <2> QED BY <1>3, <1>4, <2>1
<1>5. ASSUME NEW t \in OidTasks, DrawDone(t), NewSeq32(t)
      PROVE  InContext'
  <2> DEFINE v == context[making[t].on].seq32
  <2>1. ASSUME NEW i \in 1..Len(oids), oids[i].kind = "seq32", oids[i].from = making[t].on,
               oids[i].nr = v
        PROVE  Len(oids) + 1 - i >= SeqWrap
    <3>1. making[t].on \in Contexts /\ v \in Nat /\ SeqWrap \in Nat \ {0}
      BY <1>1 DEF FieldTypes
    <3>2. v < SeqWrap BY <3>1 DEF RangeInv
    <3>3. Past32(i, making[t].on) BY <2>1, <3>1 DEF DrawnInv
    <3>4. PICK k \in 1..(Len(oids) - i + 1) : v = (v + k) % SeqWrap BY <2>1, <3>3 DEF Past32
    <3> HIDE DEF v
    <3>5. k \in Nat \ {0} /\ v \in 0..(SeqWrap - 1) BY <1>1, <3>1, <3>2
    <3>6. k >= SeqWrap BY <3>1, <3>4, <3>5, ModFixed
    <3> QED BY <1>1, <3>1, <3>4, <3>6
  <2> QED BY <1>3, <1>5, <2>1 DEF NewSeq32
<1> QED BY <1>2, <1>4, <1>5, Handed

LEMMA OidInvStep == OidInv /\ [OidNext]_oidVars => OidInv'
<1> SUFFICES ASSUME OidInv, [OidNext]_oidVars PROVE OidInv'
  OBVIOUS
<1> USE DEF OidInv
<1>1. OidTypeOK' /\ LockInv' /\ SeedInv' BY OidTypes, LockStep, SeedStep
<1>2. RandInv' /\ Seq64Inv' BY RandStep, Seq64Step
<1>3. OwnedInv' /\ DrawnInv' BY OwnedStep, DrawnStep
<1>4. RangeInv' /\ InContext' BY RangeStep, UniqueStep
<1> QED BY <1>1, <1>2, <1>3, <1>4

(* A number written in two digits has no other digits. *)
LEMMA SameDigits ==
  ASSUME NEW w \in Nat \ {0}, NEW r \in Nat, NEW q \in Nat,
         NEW v \in 0..(w - 1), NEW u \in 0..(w - 1), r * w + v = q * w + u
  PROVE  r = q /\ v = u
<1> DEFINE m == q - r
           y == w * m
<1>1. m \in Int /\ w * m = q * w - r * w OBVIOUS
<1>2. y \in Int /\ y = v - u BY <1>1
<1>3. m < 1
  <2> SUFFICES ASSUME m >= 1 PROVE FALSE BY <1>1
  <2> HIDE DEF m
  <2>1. y >= w BY <1>1
  <2> QED BY <1>2, <2>1
<1>4. m > -1
  <2> SUFFICES ASSUME m <= -1 PROVE FALSE BY <1>1
  <2> HIDE DEF m
  <2>1. y <= -w BY <1>1
  <2> QED BY <1>2, <2>1
<1>5. m = 0 BY <1>1, <1>3, <1>4
<1> QED BY <1>5

(* ObjectIDs with the same eight bytes are of one counter, and are the     *)
(* same number of it, while the counters are apart.                        *)
LEMMA SameCounter ==
  ASSUME OidInv, CountersApart, NEW i \in DOMAIN oids, NEW j \in DOMAIN oids,
         oids[i].bytes = oids[j].bytes
  PROVE  /\ oids[i].kind = oids[j].kind /\ oids[i].from = oids[j].from
         /\ oids[i].nr = oids[j].nr
<1>1. FieldTypes /\ DOMAIN oids = 1..Len(oids) BY Typed DEF OidInv, OidTypeOK
<1>2. SeqWrap \in Nat \ {0} BY <1>1 DEF FieldTypes
(* Of an ObjectID: its context's counter has run over the number of one    *)
(* from seq64; one from seq32 lies in its context's randomness.            *)
<1>3. ASSUME NEW k \in DOMAIN oids, NEW c, c = oids[k].from
      PROVE  /\ c \in Contexts /\ c \in Seeded /\ oids[k].nr \in Nat /\ oids[k].bytes \in Nat
             /\ oids[k].kind \in {"seq32", "seq64"}
             /\ context[c].rand \in Nat /\ context[c].seq64 \in Nat /\ context[c].start \in Nat
             /\ oids[k].kind = "seq64" => /\ oids[k].bytes = oids[k].nr
                                          /\ context[c].start <= oids[k].bytes
                                          /\ oids[k].bytes < context[c].seq64
             /\ oids[k].kind = "seq32" =>
                  /\ oids[k].bytes = context[c].rand * SeqWrap + oids[k].nr
                  /\ oids[k].nr \in 0..(SeqWrap - 1)
  <2>1. oids[k] \in Oid BY <1>1 DEF OidInv, OidTypeOK
  <2>2. /\ c \in Contexts /\ oids[k].nr \in Nat /\ oids[k].bytes \in Nat
        /\ oids[k].kind \in {"seq32", "seq64"}
    BY <1>3, <2>1 DEF Oid
  <2>3. Made(oids[k]) BY <1>1 DEF OidInv, OwnedInv
  <2>4. c \in Seeded BY <1>3, <2>2, <2>3 DEF Seeded, Made, OidInv, OidTypeOK
  <2>5. /\ oids[k].kind = "seq64" => Past64(k, c)
        /\ oids[k].kind = "seq32" => Past32(k, c)
    BY <1>1, <1>3, <2>2 DEF OidInv, DrawnInv
  <2>6. context[c].rand \in Nat /\ context[c].seq64 \in Nat /\ context[c].start \in Nat
    BY <1>1, <2>2 DEF FieldTypes
  <2>7. oids[k].kind = "seq64" => /\ oids[k].bytes = oids[k].nr
                                  /\ context[c].start <= oids[k].bytes
                                  /\ oids[k].bytes < context[c].seq64
    BY <1>3, <2>3, <2>5 DEF Made, Past64
  <2>8. oids[k].kind = "seq32" => /\ oids[k].bytes = context[c].rand * SeqWrap + oids[k].nr
                                  /\ oids[k].nr \in 0..(SeqWrap - 1)
    BY <1>2, <1>3, <2>2, <2>3, <2>5 DEF Made, Past32, Bytes
  <2> QED BY <2>2, <2>4, <2>6, <2>7, <2>8
<1>4. ASSUME NEW k \in DOMAIN oids, NEW l \in DOMAIN oids, oids[k].bytes = oids[l].bytes,
             oids[k].kind = "seq64", oids[l].kind = "seq32"
      PROVE  FALSE
  <2> DEFINE c == oids[k].from
             d == oids[l].from
             r == context[d].rand
  <2>1. c \in Seeded /\ d \in Seeded BY <1>3
  <2>2. r \in Nat /\ context[c].seq64 \in Nat /\ context[c].start \in Nat BY <1>3
  <2>3. /\ context[c].start <= oids[k].bytes /\ oids[k].bytes < context[c].seq64
        /\ oids[k].bytes \in Nat
    BY <1>3, <1>4
  <2>4. oids[k].bytes = r * SeqWrap + oids[l].nr /\ oids[l].nr \in 0..(SeqWrap - 1)
    BY <1>3, <1>4
  <2>5. context[c].seq64 <= r * SeqWrap \/ (r + 1) * SeqWrap <= context[c].start
    <3>1. Bytes(r, 0) = r * SeqWrap /\ Bytes(r + 1, 0) = (r + 1) * SeqWrap
      BY <1>2, <2>2 DEF Bytes
    <3> QED BY <2>1, <3>1 DEF CountersApart
  <2> HIDE DEF c, d, r
  <2>6. (r + 1) * SeqWrap = r * SeqWrap + SeqWrap /\ r * SeqWrap \in Nat BY <1>2, <2>2
  <2> QED BY <1>2, <2>2, <2>3, <2>4, <2>5, <2>6
<1>5. oids[i].kind = oids[j].kind BY <1>3, <1>4
<1>6. CASE oids[i].kind = "seq64"
  <2> DEFINE c == oids[i].from
             d == oids[j].from
  <2>1. c \in Seeded /\ d \in Seeded BY <1>3
  <2>2. /\ context[c].start <= oids[i].bytes /\ oids[i].bytes < context[c].seq64
        /\ context[d].start <= oids[i].bytes /\ oids[i].bytes < context[d].seq64
        /\ oids[i].bytes \in Nat /\ context[c].seq64 \in Nat /\ context[c].start \in Nat
        /\ context[d].seq64 \in Nat /\ context[d].start \in Nat
        /\ oids[i].nr = oids[j].nr
    BY <1>3, <1>5, <1>6
  <2>3. c # d => context[c].seq64 <= context[d].start \/ context[d].seq64 <= context[c].start
    BY <2>1 DEF CountersApart
  <2>4. c = d
    <3> HIDE DEF c, d
    <3> QED BY <2>2, <2>3
  <2> QED BY <1>5, <2>2, <2>4
<1>7. CASE oids[i].kind = "seq32"
  <2> DEFINE r == context[oids[i].from].rand
             q == context[oids[j].from].rand
  <2>1. /\ r \in Nat /\ q \in Nat /\ r * SeqWrap + oids[i].nr = q * SeqWrap + oids[j].nr
        /\ oids[i].nr \in 0..(SeqWrap - 1) /\ oids[j].nr \in 0..(SeqWrap - 1)
    BY <1>3, <1>5, <1>7
  <2> HIDE DEF r, q
  <2>2. r = q /\ oids[i].nr = oids[j].nr BY <1>2, <2>1, SameDigits
  <2>3. r # 0 BY <1>3 DEF r, Seeded
  <2>4. oids[i].from \in Contexts /\ oids[j].from \in Contexts BY <1>3
  <2>5. oids[i].from = oids[j].from BY <2>2, <2>3, <2>4 DEF r, q, OidInv, RandInv
  <2> QED BY <1>5, <2>2, <2>5
<1> QED BY <1>3, <1>6, <1>7

(* bson-oid.c, bson-context.c: for any number of tasks and contexts and    *)
(* wherever the counters start, while they are apart two ObjectIDs are     *)
(* equal only after seq32 has gone round.                                  *)
THEOREM OidsAreUnique == OidSpec => []OidsUnique
<1>1. OidInv => OidsUnique
  BY SameCounter DEF OidInv, InContext, OidsUnique
<1> QED BY <1>1, OidInvInit, OidInvStep, PTL DEF OidSpec
-----------------------------------------------------------------------------
(* Induction from the last position of a string to the first. *)
LEMMA Backwards ==
  ASSUME NEW N \in Nat, NEW S,
         \A i \in 1..N : (\A j \in 1..N : j > i => j \in S) => i \in S
  PROVE  \A i \in 1..N : i \in S
<1> DEFINE R == OpToRel(<, Nat)
           T == {k \in Nat : N - k \in (1..N) \ S}
<1>1. SUFFICES ASSUME T # {} PROVE FALSE
  <2>1. ASSUME NEW i \in 1..N, i \notin S PROVE N - i \in T
    <3>1. N - i \in Nat /\ N - (N - i) = i OBVIOUS
    <3> QED BY <2>1, <3>1
  <2> QED BY <2>1
<1>2. IsWellFoundedOn(R, Nat) BY NatLessThanWellFounded
<1>3. \A x, y \in Nat : x < y => <<x, y>> \in R BY DEF OpToRel
<1> HIDE DEF R
<1>4. PICK k \in T : \A l \in T : ~(<<l, k>> \in R) BY <1>1, <1>2, WFMin
<1>5. \A l \in T : ~(l < k) BY <1>3, <1>4
<1>6. N - k \in 1..N /\ N - k \notin S BY <1>4
<1>7. \A j \in 1..N : j > N - k => j \in S
  <2> SUFFICES ASSUME NEW j \in 1..N, j > N - k, j \notin S PROVE FALSE
    OBVIOUS
  <2>1. N - j \in Nat /\ N - (N - j) = j /\ N - j < k BY <1>4
  <2> QED BY <1>5, <2>1
<1> QED BY <1>6, <1>7

(* A function on positions whose value at each is computed from those at   *)
(* later ones exists.                                                      *)
LooksAhead(N, R, F) ==
  /\ F \in [1..N -> [[1..N -> R] -> R]]
  /\ \A i \in 1..N : \A g, h \in [1..N -> R] :
       (\A j \in 1..N : j > i => g[j] = h[j]) => F[i][g] = F[i][h]
Solvable(N, R, F) == \E f \in [1..N -> R] : \A i \in 1..N : f[i] = F[i][f]

LEMMA Recursion ==
  ASSUME NEW N \in Nat \ {0}, NEW R, NEW r \in R, NEW F, LooksAhead(N, R, F)
  PROVE  Solvable(N, R, F)
<1>a. /\ F \in [1..N -> [[1..N -> R] -> R]]
      /\ \A i \in 1..N : \A g, h \in [1..N -> R] :
           (\A j \in 1..N : j > i => g[j] = h[j]) => F[i][g] = F[i][h]
  BY DEF LooksAhead
<1> DEFINE Good(f, i) == \A j \in 1..N : j >= i => f[j] = F[j][f]
           S == {i \in 1..N : \E f \in [1..N -> R] : Good(f, i)}
<1>1. ASSUME NEW i \in 1..N, \A j \in 1..N : j > i => j \in S PROVE i \in S
  <2>1. PICK g \in [1..N -> R] : \A j \in 1..N : j > i => g[j] = F[j][g]
    <3>1. CASE i = N
      <4>1. [j \in 1..N |-> r] \in [1..N -> R] OBVIOUS
      <4>2. \A j \in 1..N : ~(j > i) BY <3>1
      <4> QED BY <4>1, <4>2
    <3>2. CASE i # N
      <4>0. i + 1 \in 1..N /\ i + 1 > i BY <3>2
      <4>1. i + 1 \in S BY <1>1, <4>0
      <4>2. PICK g \in [1..N -> R] : Good(g, i + 1) BY <4>1
      <4>3. \A j \in 1..N : j > i => j >= i + 1 OBVIOUS
      <4> QED BY <4>2, <4>3
    <3> QED BY <3>1, <3>2
  <2> DEFINE f == [g EXCEPT ![i] = F[i][g]]
  <2>2. F[i][g] \in R BY <1>a
  <2>3. f \in [1..N -> R] /\ f[i] = F[i][g] /\ \A j \in 1..N : j # i => f[j] = g[j]
    BY <2>2
  <2> HIDE DEF f
  <2>4. ASSUME NEW j \in 1..N, j >= i PROVE f[j] = F[j][f]
    <3>1. F[j][f] = F[j][g]
      <4>1. \A k \in 1..N : k > j => f[k] = g[k] BY <2>3, <2>4
      <4> QED BY <1>a, <2>3, <4>1
    <3>2. CASE j = i BY <2>3, <3>1, <3>2
    <3>3. CASE j # i
      <4>1. j > i BY <2>4, <3>3
      <4> QED BY <2>1, <2>3, <3>1, <3>3, <4>1
    <3> QED BY <3>2, <3>3
  <2> QED BY <2>3, <2>4
<1> HIDE DEF Good
<1>2. \A i \in 1..N : (\A j \in 1..N : j > i => j \in S) => i \in S BY <1>1
<1> HIDE DEF S
<1>3. \A i \in 1..N : i \in S BY <1>2, Backwards
<1>4. 1 \in S BY <1>3
<1>5. PICK f \in [1..N -> R] : Good(f, 1) BY <1>4 DEF S
<1> QED BY <1>5 DEF Good, Solvable
-----------------------------------------------------------------------------
(* Any byte, and every code point up to LastCodePoint.                     *)
Byte == 0..255
Unicode == {c \in Nat : c <= 1114111}

(* The length and the bits a first byte gives, range by range.             *)
LEMMA LenIs ==
  ASSUME NEW b \in Byte
  PROVE  /\ SequenceLen(b) \in 0..4
         /\ SequenceLen(b) = 1 <=> b < 128
         /\ SequenceLen(b) = 2 <=> b \in 192..223
         /\ SequenceLen(b) = 3 <=> b \in 224..239
         /\ SequenceLen(b) = 4 <=> b \in 240..247
         /\ SequenceLen(b) = 1 => FirstBits(b) = b
         /\ SequenceLen(b) = 2 => FirstBits(b) = b % 32
         /\ SequenceLen(b) = 3 => FirstBits(b) = b % 16
         /\ SequenceLen(b) = 4 => FirstBits(b) = b % 8
<1>1. /\ b < 128 => SequenceLen(b) = 1
      /\ b \in 192..223 => SequenceLen(b) = 2
      /\ b \in 224..239 => SequenceLen(b) = 3
      /\ b \in 240..247 => SequenceLen(b) = 4
      /\ b \in 128..191 \/ b > 247 => SequenceLen(b) = 0
  BY DEF SequenceLen, Byte
<1>2. /\ SequenceLen(b) = 1 => FirstBits(b) = b
      /\ SequenceLen(b) = 2 => FirstBits(b) = b % 32
      /\ SequenceLen(b) = 3 => FirstBits(b) = b % 16
      /\ SequenceLen(b) = 4 => FirstBits(b) = b % 8
  BY DEF FirstBits
<1> QED BY <1>1, <1>2 DEF Byte

(* bson_utf8_validate, unfolded at one position.                           *)
LEMMA ValidIs ==
  ASSUME NEW s \in Seq(Byte), NEW allow \in BOOLEAN
  PROVE  LET V == ValidFrom(s, allow) IN
         /\ V \in [1..(Len(s) + 1) -> BOOLEAN]
         /\ \A i \in 1..(Len(s) + 1) :
              V[i] <=> i > Len(s) \/ LET n == SequenceLen(s[i])
                                     IN /\ n # 0 /\ Len(s) - i + 1 >= n
                                        /\ ValidChar(s, i, n, allow)
                                        /\ V[i + n]
<1> DEFINE B == BOOLEAN
           N == Len(s) + 1
           n(i) == SequenceLen(s[i])
           Body(g, i) == i > Len(s) \/ /\ n(i) # 0 /\ Len(s) - i + 1 >= n(i)
                                       /\ ValidChar(s, i, n(i), allow)
                                       /\ g[i + n(i)]
           F == [i \in 1..N |-> [g \in [1..N -> B] |-> Body(g, i)]]
<1>1. N \in Nat \ {0} /\ FALSE \in B OBVIOUS
<1>2. \A i \in 1..N : i > Len(s) \/ n(i) \in 0..4
  BY LenIs
<1> HIDE DEF n
<1>3. ASSUME NEW i \in 1..N, NEW g \in [1..N -> B]
      PROVE  Body(g, i) \in BOOLEAN /\ F[i][g] = Body(g, i)
  <2>1. i <= Len(s) /\ n(i) # 0 /\ Len(s) - i + 1 >= n(i) => i + n(i) \in 1..N
    BY <1>2
  <2>2. Body(g, i) \in BOOLEAN BY <2>1
  <2> QED BY <2>2
<1>4. F \in [1..N -> [[1..N -> B] -> B]]
  <2>1. \A i \in 1..N : \A g \in [1..N -> B] : Body(g, i) \in B
    BY <1>3
  <2> QED BY <2>1
<1>5. ASSUME NEW i \in 1..N, NEW g \in [1..N -> B], NEW h \in [1..N -> B],
             \A j \in 1..N : j > i => g[j] = h[j]
      PROVE  F[i][g] = F[i][h]
  <2>1. i <= Len(s) /\ n(i) # 0 /\ Len(s) - i + 1 >= n(i) => i + n(i) \in 1..N /\ i + n(i) > i
    <3> SUFFICES ASSUME i <= Len(s), n(i) # 0, Len(s) - i + 1 >= n(i)
                 PROVE  i + n(i) \in 1..N /\ i + n(i) > i
      OBVIOUS
    <3>1. n(i) \in 1..4 /\ i \in 1..Len(s) /\ Len(s) \in Nat BY <1>2
    <3> QED BY <3>1
  <2>2. i <= Len(s) /\ n(i) # 0 /\ Len(s) - i + 1 >= n(i) => g[i + n(i)] = h[i + n(i)]
    BY <1>5, <2>1
  <2>3. Body(g, i) = Body(h, i) BY ONLY <1>2, <2>2
  <2> QED BY <1>3, <2>3
<1> HIDE DEF F, N
<1> HIDE DEF Body
<1>a. \A i \in 1..N : \A g, h \in [1..N -> B] :
        (\A j \in 1..N : j > i => g[j] = h[j]) => F[i][g] = F[i][h]
  BY <1>5
<1> HIDE DEF B
<1>d. LooksAhead(N, B, F) BY <1>4, <1>a DEF LooksAhead
<1>e. Solvable(N, B, F) BY <1>1, <1>d, Recursion
<1>6. PICK f \in [1..N -> B] : \A i \in 1..N : f[i] = F[i][f]
  BY <1>e DEF Solvable
<1>7. f = [i \in 1..N |-> Body(f, i)]
  BY <1>3, <1>6
<1> DEFINE V == CHOOSE g : g = [i \in 1..N |-> Body(g, i)]
<1>8. V = [i \in 1..N |-> Body(V, i)] BY <1>7
<1>9. ValidFrom(s, allow) = V BY DEF ValidFrom, N, n, Body
<1> HIDE DEF V
<1>b. \A i \in 1..N : V[i] = Body(V, i) BY <1>8
<1>c. V \in [1..N -> B]
  <2>1. \A i \in 1..N : Body(V, i) \in B BY DEF Body, B
  <2> QED BY <1>8, <2>1
<1> QED BY <1>9, <1>b, <1>c DEF N, n, Body, B

(* So is the definition of being spelled.                                  *)
LEMMA SpellsIs ==
  ASSUME NEW s \in Seq(Byte), NEW spelling
  PROVE  LET V == SpellsFrom(s, spelling) IN
         /\ V \in [1..(Len(s) + 1) -> BOOLEAN]
         /\ \A i \in 1..(Len(s) + 1) :
              V[i] <=> i > Len(s) \/ \E n \in 1..4 : /\ i + n <= Len(s) + 1
                                                     /\ SubSeq(s, i, i + n - 1) \in spelling
                                                     /\ V[i + n]
<1> DEFINE B == BOOLEAN
           N == Len(s) + 1
           Body(g, i) == i > Len(s) \/ \E n \in 1..4 : /\ i + n <= N
                                                       /\ SubSeq(s, i, i + n - 1) \in spelling
                                                       /\ g[i + n]
           F == [i \in 1..N |-> [g \in [1..N -> B] |-> Body(g, i)]]
<1>1. N \in Nat \ {0} /\ FALSE \in B OBVIOUS
<1>2. ASSUME NEW i \in 1..N, NEW g \in [1..N -> B] PROVE Body(g, i) \in B /\ F[i][g] = Body(g, i)
  OBVIOUS
<1>3. F \in [1..N -> [[1..N -> B] -> B]]
  <2>1. \A i \in 1..N : \A g \in [1..N -> B] : Body(g, i) \in B
    BY <1>2
  <2> QED BY <2>1
<1>4. ASSUME NEW i \in 1..N, NEW g \in [1..N -> B], NEW h \in [1..N -> B],
             \A j \in 1..N : j > i => g[j] = h[j]
      PROVE  F[i][g] = F[i][h]
  <2>1. \A n \in 1..4 : i + n <= N => g[i + n] = h[i + n]
    <3> TAKE n \in 1..4
    <3> HAVE i + n <= N
    <3>1. i + n \in 1..N /\ i + n > i BY <1>1
    <3> QED BY <1>4, <3>1
  <2>2. Body(g, i) = Body(h, i) BY <2>1
  <2> QED BY <1>2, <2>2
<1> HIDE DEF F, N, Body
<1>5. \A i \in 1..N : \A g, h \in [1..N -> B] :
        (\A j \in 1..N : j > i => g[j] = h[j]) => F[i][g] = F[i][h]
  BY <1>4
<1> HIDE DEF B
<1>6. LooksAhead(N, B, F) BY <1>3, <1>5 DEF LooksAhead
<1>7. Solvable(N, B, F) BY <1>1, <1>6, Recursion
<1>8. PICK f \in [1..N -> B] : \A i \in 1..N : f[i] = F[i][f]
  BY <1>7 DEF Solvable
<1>9. f = [i \in 1..N |-> Body(f, i)] BY <1>2, <1>8
<1> DEFINE V == CHOOSE g : g = [i \in 1..N |-> Body(g, i)]
<1>10. V = [i \in 1..N |-> Body(V, i)] BY <1>9
<1>11. SpellsFrom(s, spelling) = V BY DEF SpellsFrom, N, Body
<1> HIDE DEF V
<1>12. \A i \in 1..N : V[i] = Body(V, i) BY <1>10
<1>13. V \in [1..N -> B]
  <2>1. \A i \in 1..N : Body(V, i) \in B BY DEF Body, B
  <2> QED BY <1>10, <2>1
<1> QED BY <1>11, <1>12, <1>13 DEF N, Body, B
-----------------------------------------------------------------------------
(* The bytes of a code point and the code point of the bytes: divisions by *)
(* powers of two undo each other.                                          *)
Lead2(c) == 192 + (c \div 64)
Lead3(c) == 224 + (c \div 4096)
Lead4(c) == 240 + (c \div 262144)
Tail0(c) == 128 + (c % 64)
Tail1(c) == 128 + ((c \div 64) % 64)
Tail2(c) == 128 + ((c \div 4096) % 64)
Code2(a, b) == (a % 32) * 64 + (b % 64)
Code3(a, b, d) == ((a % 16) * 64 + (b % 64)) * 64 + (d % 64)
Code4(a, b, d, e) == (((a % 8) * 64 + (b % 64)) * 64 + (d % 64)) * 64 + (e % 64)

LEMMA Spell2 ==
  ASSUME NEW c \in Nat, c <= 2047
  PROVE  /\ Lead2(c) \in 192..223 /\ Tail0(c) \in 128..191
         /\ Code2(Lead2(c), Tail0(c)) = c
         /\ c >= 128 => Lead2(c) >= 194
<1> DEFINE q == c \div 64   r == c % 64
<1>1. q \in Nat /\ r \in 0..63 /\ c = q * 64 + r BY SMT
<1> HIDE DEF q, r
<1>2. 192 + q \in 192..223 /\ 128 + r \in 128..191 BY SMT, <1>1
<1>3. (192 + q) % 32 = q /\ (128 + r) % 64 = r BY SMT, <1>1, <1>2
<1> QED BY SMT, <1>1, <1>2, <1>3 DEF q, r, Lead2, Tail0, Code2

LEMMA Spell3 ==
  ASSUME NEW c \in Nat, c <= 65535
  PROVE  /\ Lead3(c) \in 224..239 /\ Tail1(c) \in 128..191 /\ Tail0(c) \in 128..191
         /\ Code3(Lead3(c), Tail1(c), Tail0(c)) = c
<1> DEFINE e == c \div 64   q == e \div 64   r == e % 64   t == c % 64
<1>1. e \in Nat /\ t \in 0..63 /\ c = e * 64 + t BY SMT
<1>2. c \div 4096 = q BY SMT
<1> HIDE DEF e, t
<1>3. q \in Nat /\ r \in 0..63 /\ e = q * 64 + r BY SMT, <1>1
<1> HIDE DEF q, r
<1>4. 224 + q \in 224..239 /\ 128 + r \in 128..191 /\ 128 + t \in 128..191
  BY SMT, <1>1, <1>3
<1>5. (224 + q) % 16 = q /\ (128 + r) % 64 = r /\ (128 + t) % 64 = t
  BY SMT, <1>1, <1>3, <1>4
<1>6. (((224 + q) % 16) * 64 + ((128 + r) % 64)) * 64 + ((128 + t) % 64) = c
  BY SMT, <1>1, <1>3, <1>5
<1> DEFINE A == 224 + (c \div 4096)   B == 128 + ((c \div 64) % 64)   D == 128 + (c % 64)
<1>7. A = 224 + q BY SMT, <1>2
<1>8. B = 128 + r /\ D = 128 + t BY SMT DEF e, t, r
<1> HIDE DEF A, B, D
<1>9. /\ A \in 224..239 /\ B \in 128..191 /\ D \in 128..191
      /\ ((A % 16) * 64 + (B % 64)) * 64 + (D % 64) = c
  BY SMT, <1>4, <1>6, <1>7, <1>8
<1> QED BY SMT, <1>9 DEF A, B, D, Lead3, Tail0, Tail1, Code3

LEMMA Spell4 ==
  ASSUME NEW c \in Nat, c <= 2097151
  PROVE  /\ Lead4(c) \in 240..247 /\ Tail2(c) \in 128..191
         /\ Tail1(c) \in 128..191 /\ Tail0(c) \in 128..191
         /\ Code4(Lead4(c), Tail2(c), Tail1(c), Tail0(c)) = c
<1> DEFINE e == c \div 64   f == e \div 64   q == f \div 64
           r == f % 64   t == e % 64   u == c % 64
<1>1. e \in Nat /\ u \in 0..63 /\ c = e * 64 + u BY SMT
<1>2. c \div 4096 = f /\ c \div 262144 = q BY SMT
<1> HIDE DEF e, u
<1>3. f \in Nat /\ t \in 0..63 /\ e = f * 64 + t BY SMT, <1>1
<1> HIDE DEF f, t
<1>4. q \in Nat /\ r \in 0..63 /\ f = q * 64 + r BY SMT, <1>3
<1> HIDE DEF q, r
<1>5. /\ 240 + q \in 240..247 /\ 128 + r \in 128..191
      /\ 128 + t \in 128..191 /\ 128 + u \in 128..191
  BY SMT, <1>1, <1>3, <1>4
<1>6. /\ (240 + q) % 8 = q /\ (128 + r) % 64 = r
      /\ (128 + t) % 64 = t /\ (128 + u) % 64 = u
  BY SMT, <1>1, <1>3, <1>4, <1>5
<1>7. ((((240 + q) % 8) * 64 + ((128 + r) % 64)) * 64 + ((128 + t) % 64)) * 64
        + ((128 + u) % 64) = c
  BY SMT, <1>1, <1>3, <1>4, <1>6
<1> DEFINE A == 240 + (c \div 262144)   B == 128 + ((c \div 4096) % 64)
           D == 128 + ((c \div 64) % 64)   K == 128 + (c % 64)
<1>8. A = 240 + q BY SMT, <1>2
<1>9. B = 128 + r BY SMT, <1>2 DEF r
<1>10. D = 128 + t /\ K = 128 + u BY SMT DEF e, u, t
<1> HIDE DEF A, B, D, K
<1>11. /\ A \in 240..247 /\ B \in 128..191 /\ D \in 128..191 /\ K \in 128..191
       /\ (((A % 8) * 64 + (B % 64)) * 64 + (D % 64)) * 64 + (K % 64) = c
  BY SMT, <1>5, <1>7, <1>8, <1>9, <1>10
<1> QED BY SMT, <1>11 DEF A, B, D, K, Lead4, Tail0, Tail1, Tail2, Code4

(* What the follow-up bytes say, read back: two bytes, then three and four. *)
Two(a, b) == a \in 192..223 /\ b \in 128..191
LEMMA Read2 ==
  ASSUME NEW a, NEW b, Two(a, b)
  PROVE  /\ Code2(a, b) \in Nat /\ Code2(a, b) <= 2047
         /\ a = Lead2(Code2(a, b)) /\ b = Tail0(Code2(a, b))
<1> DEFINE q == a % 32   r == b % 64   c == q * 64 + r
<1>0. a \in 192..223 /\ b \in 128..191 BY DEF Two
<1>1. q = a - 192 /\ r = b - 128 BY SMT, <1>0
<1> HIDE DEF q, r
<1>2. q \in Nat /\ r \in 0..63 BY SMT, <1>0, <1>1
<1>3. c \in Nat /\ c \div 64 = q /\ c % 64 = r BY SMT, <1>2
<1>4. c <= 2047 BY SMT, <1>0, <1>1
<1> HIDE DEF c
<1>5. c \in Nat /\ c <= 2047 /\ a = 192 + (c \div 64) /\ b = 128 + (c % 64)
  BY SMT, <1>0, <1>1, <1>3, <1>4
<1> QED BY SMT, <1>5 DEF c, q, r, Lead2, Tail0, Code2

Three(a, b, d) == a \in 224..239 /\ b \in 128..191 /\ d \in 128..191
Four(a, b, d, e) == a \in 240..247 /\ b \in 128..191 /\ d \in 128..191 /\ e \in 128..191
LEMMA Read3 ==
  ASSUME NEW a, NEW b, NEW d, Three(a, b, d)
  PROVE  LET c == Code3(a, b, d)
         IN c \in Nat /\ c <= 65535 /\ a = Lead3(c) /\ b = Tail1(c) /\ d = Tail0(c)
<1> DEFINE p == a % 16   r == b % 64   t == d % 64
           q == p * 64 + r
           c == q * 64 + t
<1>0. a \in 224..239 /\ b \in 128..191 /\ d \in 128..191 BY DEF Three
<1>1. p = a - 224 /\ r = b - 128 /\ t = d - 128 BY SMT, <1>0
<1> HIDE DEF p, r, t
<1>2. p \in 0..15 /\ r \in 0..63 /\ t \in 0..63 BY SMT, <1>0, <1>1
<1>3. q \in Nat /\ q \div 64 = p /\ q % 64 = r BY SMT, <1>2
<1>4. q <= 1023 BY SMT, <1>2
<1> HIDE DEF q
<1>5. c \in Nat /\ c \div 64 = q /\ c % 64 = t BY SMT, <1>2, <1>3
<1>6. c <= 65535 BY SMT, <1>2, <1>3, <1>4
<1> HIDE DEF c
<1>7. c \div 4096 = q \div 64 BY SMT, <1>5
<1>8. /\ c \in Nat /\ c <= 65535
      /\ a = 224 + (c \div 4096) /\ b = 128 + ((c \div 64) % 64) /\ d = 128 + (c % 64)
  BY SMT, <1>0, <1>1, <1>3, <1>5, <1>6, <1>7
<1> QED BY SMT, <1>8 DEF c, q, p, r, t, Lead3, Tail0, Tail1, Code3

LEMMA Read4 ==
  ASSUME NEW a, NEW b, NEW d, NEW e, Four(a, b, d, e)
  PROVE  LET c == Code4(a, b, d, e)
         IN /\ c \in Nat /\ c <= 2097151
            /\ a = Lead4(c) /\ b = Tail2(c) /\ d = Tail1(c) /\ e = Tail0(c)
<1> DEFINE o == a % 8   r == b % 64   t == d % 64   u == e % 64
           p == o * 64 + r
           q == p * 64 + t
           c == q * 64 + u
<1>0. a \in 240..247 /\ b \in 128..191 /\ d \in 128..191 /\ e \in 128..191 BY DEF Four
<1>1. o = a - 240 /\ r = b - 128 /\ t = d - 128 /\ u = e - 128 BY SMT, <1>0
<1> HIDE DEF o, r, t, u
<1>2. o \in 0..7 /\ r \in 0..63 /\ t \in 0..63 /\ u \in 0..63 BY SMT, <1>0, <1>1
<1>3. p \in Nat /\ p \div 64 = o /\ p % 64 = r BY SMT, <1>2
<1>4. p <= 511 BY SMT, <1>2
<1> HIDE DEF p
<1>5. q \in Nat /\ q \div 64 = p /\ q % 64 = t BY SMT, <1>2, <1>3
<1>6. q <= 32767 BY SMT, <1>2, <1>3, <1>4
<1> HIDE DEF q
<1>7. c \in Nat /\ c \div 64 = q /\ c % 64 = u BY SMT, <1>2, <1>5
<1>8. c <= 2097151 BY SMT, <1>2, <1>5, <1>6
<1> HIDE DEF c
<1>9. c \div 4096 = p /\ c \div 262144 = o
  BY SMT, <1>3, <1>5, <1>7
<1>10. /\ c \in Nat /\ c <= 2097151
       /\ a = 240 + (c \div 262144) /\ b = 128 + ((c \div 4096) % 64)
       /\ d = 128 + ((c \div 64) % 64) /\ e = 128 + (c % 64)
  BY SMT, <1>0, <1>1, <1>3, <1>5, <1>7, <1>8, <1>9
<1> QED BY SMT, <1>10 DEF c, q, p, o, r, t, u, Lead4, Tail0, Tail1, Tail2, Code4

-----------------------------------------------------------------------------
(* A character's bytes, as a tuple, and its code point.                    *)
LEMMA BytesAre ==
  ASSUME NEW s \in Seq(Byte), NEW i \in 1..Len(s), NEW n \in 1..4, i + n - 1 <= Len(s)
  PROVE  LET w == SubSeq(s, i, i + n - 1)
         IN /\ n = 1 => w = <<s[i]>>
            /\ n = 2 => w = <<s[i], s[i + 1]>>
            /\ n = 3 => w = <<s[i], s[i + 1], s[i + 2]>>
            /\ n = 4 => w = <<s[i], s[i + 1], s[i + 2], s[i + 3]>>
            /\ \A k \in 0..(n - 1) : s[i + k] \in Byte
<1> DEFINE w == SubSeq(s, i, i + n - 1)
<1>1. w \in Seq(Byte) /\ Len(w) = n /\ \A k \in 1..n : w[k] = s[i + k - 1]
  BY SubSeqProperties
<1>2. \A k \in 0..(n - 1) : s[i + k] \in Byte BY SMT
<1> HIDE DEF w
<1>3. CASE n = 1
  <2>1. w[1] = s[i] BY SMT, <1>1, <1>3
  <2>2. w = <<w[1]>> BY SMT, <1>1, <1>3
  <2> QED BY SMT, <1>2, <1>3, <2>1, <2>2 DEF w
<1>4. CASE n = 2
  <2>1. w[1] = s[i] /\ w[2] = s[i + 1] BY SMT, <1>1, <1>4
  <2>2. w = <<w[1], w[2]>> BY SMT, <1>1, <1>4
  <2> QED BY SMT, <1>2, <1>4, <2>1, <2>2 DEF w
<1>5. CASE n = 3
  <2>1. w[1] = s[i] /\ w[2] = s[i + 1] /\ w[3] = s[i + 2] BY SMT, <1>1, <1>5
  <2>2. w = <<w[1], w[2], w[3]>> BY SMT, <1>1, <1>5
  <2> QED BY SMT, <1>2, <1>5, <2>1, <2>2 DEF w
<1>6. CASE n = 4
  <2>1. w[1] = s[i] /\ w[2] = s[i + 1] /\ w[3] = s[i + 2] /\ w[4] = s[i + 3] BY SMT, <1>1, <1>6
  <2>2. w = <<w[1], w[2], w[3], w[4]>> BY SMT, <1>1, <1>6
  <2> QED BY SMT, <1>2, <1>6, <2>1, <2>2 DEF w
<1> QED BY SMT, <1>3, <1>4, <1>5, <1>6

(* bson_utf8_get_char at each length.                                      *)
LEMMA GetCharIs ==
  ASSUME NEW s \in Seq(Byte), NEW i \in 1..Len(s)
  PROVE  LET a == s[i]   n == SequenceLen(s[i])   c == GetChar(s, i)
         IN /\ n = 0 => c = 0
            /\ n = 1 => c = a
            /\ n = 2 => c = Code2(a, s[i + 1])
            /\ n = 3 => c = Code3(a, s[i + 1], s[i + 2])
            /\ n = 4 => c = Code4(a, s[i + 1], s[i + 2], s[i + 3])
<1>1. s[i] \in Byte OBVIOUS
<1>2. SequenceLen(s[i]) = 0 => FirstBits(s[i]) = 0 BY DEF FirstBits
<1>3. /\ SequenceLen(s[i]) = 1 => FirstBits(s[i]) = s[i]
      /\ SequenceLen(s[i]) = 2 => FirstBits(s[i]) = s[i] % 32
      /\ SequenceLen(s[i]) = 3 => FirstBits(s[i]) = s[i] % 16
      /\ SequenceLen(s[i]) = 4 => FirstBits(s[i]) = s[i] % 8
  BY <1>1, LenIs
<1> QED BY <1>2, <1>3 DEF GetChar, Code2, Code3, Code4

(* A CASE of exclusive conditions.                                         *)
OneOf(p1, p2, p3, p4, w1, w2, w3, w4, rest) ==
  CASE p1 -> w1 [] p2 -> w2 [] p3 -> w3 [] p4 -> w4 [] OTHER -> rest
LEMMA OneOfIs ==
  ASSUME NEW p1, NEW p2, NEW p3, NEW p4, NEW w1, NEW w2, NEW w3, NEW w4, NEW rest
  PROVE  LET v == OneOf(p1, p2, p3, p4, w1, w2, w3, w4, rest)
         IN /\ p1 /\ ~p2 /\ ~p3 /\ ~p4 => v = w1
            /\ ~p1 /\ p2 /\ ~p3 /\ ~p4 => v = w2
            /\ ~p1 /\ ~p2 /\ p3 /\ ~p4 => v = w3
            /\ ~p1 /\ ~p2 /\ ~p3 /\ p4 => v = w4
            /\ ~p1 /\ ~p2 /\ ~p3 /\ ~p4 => v = rest
BY Zenon DEF OneOf

(* bson_utf8_from_unichar at each length.                                  *)
LEMMA FromUnicharIs ==
  ASSUME NEW c \in Nat, c <= 2097151
  PROVE  /\ c <= 127 => FromUnichar(c) = <<c>>
         /\ c > 127 /\ c <= 2047 => FromUnichar(c) = <<Lead2(c), Tail0(c)>>
         /\ c > 2047 /\ c <= 65535 =>
              FromUnichar(c) = <<Lead3(c), Tail1(c), Tail0(c)>>
         /\ c > 65535 =>
              FromUnichar(c) = <<Lead4(c), Tail2(c), Tail1(c), Tail0(c)>>
<1> DEFINE w1 == <<c>>
           w2 == <<Lead2(c), Tail0(c)>>
           w3 == <<Lead3(c), Tail1(c), Tail0(c)>>
           w4 == <<Lead4(c), Tail2(c), Tail1(c), Tail0(c)>>
<1> DEFINE p1 == c <= 127   p2 == c > 127 /\ c <= 2047
           p3 == c > 2047 /\ c <= 65535   p4 == c > 65535 /\ c <= 2097151
<1>1. FromUnichar(c) = OneOf(p1, p2, p3, p4, w1, w2, w3, w4, <<>>)
  BY SMT DEF FromUnichar, OneOf, Lead2, Lead3, Lead4, Tail0, Tail1, Tail2
<1> HIDE DEF w1, w2, w3, w4
<1> HIDE DEF p1, p2, p3, p4
<1>2. /\ c <= 127 => p1 /\ ~p2 /\ ~p3 /\ ~p4
      /\ c > 127 /\ c <= 2047 => ~p1 /\ p2 /\ ~p3 /\ ~p4
      /\ c > 2047 /\ c <= 65535 => ~p1 /\ ~p2 /\ p3 /\ ~p4
      /\ c > 65535 => ~p1 /\ ~p2 /\ ~p3 /\ p4
  BY SMT DEF p1, p2, p3, p4
<1>3. /\ p1 /\ ~p2 /\ ~p3 /\ ~p4 => FromUnichar(c) = w1
      /\ ~p1 /\ p2 /\ ~p3 /\ ~p4 => FromUnichar(c) = w2
      /\ ~p1 /\ ~p2 /\ p3 /\ ~p4 => FromUnichar(c) = w3
      /\ ~p1 /\ ~p2 /\ ~p3 /\ p4 => FromUnichar(c) = w4
  BY SMT, <1>1, OneOfIs
<1>4. /\ c <= 127 => FromUnichar(c) = w1
      /\ c > 127 /\ c <= 2047 => FromUnichar(c) = w2
      /\ c > 2047 /\ c <= 65535 => FromUnichar(c) = w3
      /\ c > 65535 => FromUnichar(c) = w4
  BY SMT, <1>2, <1>3
<1> QED BY SMT, <1>4 DEF w1, w2, w3, w4
-----------------------------------------------------------------------------
(* A character is spelled by its bytes if and only if the code accepts it. *)
LEMMA UnicharLen ==
  ASSUME NEW c \in Nat, c <= 2097151
  PROVE  /\ FromUnichar(c) \in Seq(Byte)
         /\ Len(FromUnichar(c)) = 1 <=> c <= 127
         /\ Len(FromUnichar(c)) = 2 <=> c > 127 /\ c <= 2047
         /\ Len(FromUnichar(c)) = 3 <=> c > 2047 /\ c <= 65535
         /\ Len(FromUnichar(c)) = 4 <=> c > 65535
<1>1. CASE c <= 127
  <2>1. FromUnichar(c) = <<c>> BY SMT, <1>1, FromUnicharIs
  <2>2. c \in Byte BY SMT, <1>1 DEF Byte
  <2>3. FromUnichar(c) \in Seq(Byte) /\ Len(FromUnichar(c)) = 1 BY SMT, <2>1, <2>2
  <2> QED BY SMT, <1>1, <2>3
<1>2. CASE c > 127 /\ c <= 2047
  <2> DEFINE a == Lead2(c)   b == Tail0(c)
  <2>1. FromUnichar(c) = <<a, b>> BY SMT, <1>2, FromUnicharIs
  <2>2. a \in 192..223 /\ b \in 128..191 BY SMT, <1>2, Spell2
  <2> HIDE DEF a, b
  <2>3. a \in Byte /\ b \in Byte BY SMT, <2>2 DEF Byte
  <2>4. FromUnichar(c) \in Seq(Byte) /\ Len(FromUnichar(c)) = 2 BY SMT, <2>1, <2>3
  <2> QED BY SMT, <1>2, <2>4
<1>3. CASE c > 2047 /\ c <= 65535
  <2> DEFINE a == Lead3(c)   b == Tail1(c)   d == Tail0(c)
  <2>1. FromUnichar(c) = <<a, b, d>> BY SMT, <1>3, FromUnicharIs
  <2>2. a \in 224..239 /\ b \in 128..191 /\ d \in 128..191 BY SMT, <1>3, Spell3
  <2> HIDE DEF a, b, d
  <2>3. a \in Byte /\ b \in Byte /\ d \in Byte BY SMT, <2>2 DEF Byte
  <2>4. FromUnichar(c) \in Seq(Byte) /\ Len(FromUnichar(c)) = 3 BY SMT, <2>1, <2>3
  <2> QED BY SMT, <1>3, <2>4
<1>4. CASE c > 65535
  <2> DEFINE a == Lead4(c)   b == Tail2(c)
             d == Tail1(c)   k == Tail0(c)
  <2>1. FromUnichar(c) = <<a, b, d, k>> BY SMT, <1>4, FromUnicharIs
  <2>2. a \in 240..247 /\ b \in 128..191 /\ d \in 128..191 /\ k \in 128..191
    BY SMT, <1>4, Spell4
  <2> HIDE DEF a, b, d, k
  <2>3. a \in Byte /\ b \in Byte /\ d \in Byte /\ k \in Byte BY SMT, <2>2 DEF Byte
  <2>4. FromUnichar(c) \in Seq(Byte) /\ Len(FromUnichar(c)) = 4 BY SMT, <2>1, <2>3
  <2> QED BY SMT, <1>4, <2>4
<1> QED BY SMT, <1>1, <1>2, <1>3, <1>4

LEMMA Small ==
  ASSUME NEW c \in Nat
  PROVE  /\ c <= 2047 => c <= 1114111 /\ ~Surrogate(c)
         /\ c <= 65535 => c <= 1114111
         /\ c > 65535 => ~Surrogate(c)
BY SMT DEF Surrogate

(* A code point that text may have.                                        *)
Scalar(c) == c \in Nat /\ c <= 1114111 /\ ~Surrogate(c)
LEMMA SpellingIs ==
  ASSUME NEW w
  PROVE  w \in Spelling(Unicode) <=> w = <<192, 128>> \/ \E c : Scalar(c) /\ w = FromUnichar(c)
<1> DEFINE D == {d \in Unicode : ~Surrogate(d)}   N == <<192, 128>>
<1>1. \A c : c \in D <=> Scalar(c) BY SMT DEF Unicode, Scalar
<1>2. Spelling(Unicode) = {FromUnichar(c) : c \in D} \union {N} BY SMT DEF Spelling
<1> HIDE DEF D, N
<1>3. w \in Spelling(Unicode) <=> w = N \/ \E c : Scalar(c) /\ w = FromUnichar(c)
  BY SMT, <1>1, <1>2
<1> QED BY SMT, <1>3 DEF N

(* Which one, two, three and four bytes spell a code point.                *)
LEMMA Char1 ==
  ASSUME NEW a \in Byte
  PROVE  <<a>> \in Spelling(Unicode) <=> a < 128
<1>1. ASSUME a < 128 PROVE <<a>> \in Spelling(Unicode)
  <2>1. Scalar(a) /\ FromUnichar(a) = <<a>>
    BY SMT, <1>1, FromUnicharIs, Small DEF Byte, Scalar
  <2> QED BY SMT, <2>1, SpellingIs
<1>2. ASSUME NEW c, Scalar(c), <<a>> = FromUnichar(c) PROVE a < 128
  <2>1. c \in Nat /\ c <= 2097151 BY SMT, <1>2 DEF Scalar
  <2>2. c <= 127 BY SMT, <1>2, <2>1, UnicharLen
  <2>3. FromUnichar(c) = <<c>> BY SMT, <2>1, <2>2, FromUnicharIs
  <2> QED BY SMT, <1>2, <2>1, <2>2, <2>3
<1>3. <<a>> # <<192, 128>> BY SMT
<1> QED BY SMT, <1>1, <1>2, <1>3, SpellingIs

LEMMA Char2 ==
  ASSUME NEW a \in Byte, NEW b \in Byte
  PROVE  LET c == Code2(a, b)
         IN <<a, b>> \in Spelling(Unicode)
              <=> a \in 192..223 /\ b \in 128..191 /\ (c > 127 \/ c = 0)
<1> DEFINE c == Code2(a, b)
<1>1. ASSUME a \in 192..223, b \in 128..191, c > 127 PROVE <<a, b>> \in Spelling(Unicode)
  <2>a. Two(a, b) BY SMT, <1>1 DEF Two
  <2>1. c \in Nat /\ c <= 2047 /\ a = Lead2(c) /\ b = Tail0(c)
    BY SMT, <2>a, Read2
  <2> HIDE DEF c
  <2>2. Scalar(c) BY SMT, <1>1, <2>1, Small DEF Scalar
  <2>3. c > 127 BY <1>1
  <2>4. FromUnichar(c) = <<Lead2(c), Tail0(c)>> BY SMT, <2>1, <2>3, FromUnicharIs
  <2>5. FromUnichar(c) = <<a, b>> BY SMT, <2>1, <2>4
  <2> QED BY SMT, <2>2, <2>5, SpellingIs
<1>2. ASSUME a \in 192..223, b \in 128..191, c = 0 PROVE <<a, b>> \in Spelling(Unicode)
  <2>1. a = 192 /\ b = 128 BY SMT, <1>2 DEF Code2
  <2> QED BY SMT, <2>1, SpellingIs
<1>3. ASSUME NEW e, Scalar(e), <<a, b>> = FromUnichar(e)
      PROVE  a \in 192..223 /\ b \in 128..191 /\ c > 127
  <2>1. e \in Nat /\ e <= 2097151 BY SMT, <1>3 DEF Scalar
  <2>2. e > 127 /\ e <= 2047 BY SMT, <1>3, <2>1, UnicharLen
  <2>3. FromUnichar(e) = <<Lead2(e), Tail0(e)>> BY SMT, <2>1, <2>2, FromUnicharIs
  <2>4. a = Lead2(e) /\ b = Tail0(e) BY SMT, <1>3, <2>3
  <2>5. a \in 192..223 /\ b \in 128..191 /\ Code2(a, b) = e
    BY SMT, <2>1, <2>2, <2>4, Spell2
  <2> QED BY SMT, <2>1, <2>2, <2>5
<1>4. ASSUME <<a, b>> = <<192, 128>> PROVE a \in 192..223 /\ b \in 128..191 /\ c = 0
  BY SMT, <1>4 DEF Code2
<1> QED BY SMT, <1>1, <1>2, <1>3, <1>4, SpellingIs

LEMMA Char3 ==
  ASSUME NEW a \in Byte, NEW b \in Byte, NEW d \in Byte
  PROVE  LET c == Code3(a, b, d)
         IN <<a, b, d>> \in Spelling(Unicode)
              <=> /\ a \in 224..239 /\ b \in 128..191 /\ d \in 128..191
                  /\ c > 2047 /\ ~Surrogate(c)
<1> DEFINE c == Code3(a, b, d)
<1>1. ASSUME a \in 224..239, b \in 128..191, d \in 128..191, c > 2047, ~Surrogate(c)
      PROVE  <<a, b, d>> \in Spelling(Unicode)
  <2>a. Three(a, b, d) BY SMT, <1>1 DEF Three
  <2>1. /\ c \in Nat /\ c <= 65535
        /\ a = Lead3(c) /\ b = Tail1(c) /\ d = Tail0(c)
    BY SMT, <2>a, Read3
  <2> HIDE DEF c
  <2>2. Scalar(c) BY SMT, <1>1, <2>1, Small DEF Scalar
  <2>3. c > 2047 BY <1>1
  <2>4. FromUnichar(c) = <<Lead3(c), Tail1(c), Tail0(c)>> BY SMT, <2>1, <2>3, FromUnicharIs
  <2>5. FromUnichar(c) = <<a, b, d>> BY SMT, <2>1, <2>4
  <2> QED BY SMT, <2>2, <2>5, SpellingIs
<1>2. ASSUME NEW e, Scalar(e), <<a, b, d>> = FromUnichar(e)
      PROVE  /\ a \in 224..239 /\ b \in 128..191 /\ d \in 128..191
             /\ c > 2047 /\ ~Surrogate(c)
  <2>1. e \in Nat /\ e <= 2097151 BY SMT, <1>2 DEF Scalar
  <2>2. e > 2047 /\ e <= 65535 BY SMT, <1>2, <2>1, UnicharLen
  <2>3. FromUnichar(e) = <<Lead3(e), Tail1(e), Tail0(e)>>
    BY SMT, <2>1, <2>2, FromUnicharIs
  <2>4. a = Lead3(e) /\ b = Tail1(e) /\ d = Tail0(e)
    BY SMT, <1>2, <2>3
  <2>5. /\ a \in 224..239 /\ b \in 128..191 /\ d \in 128..191
        /\ Code3(a, b, d) = e
    BY SMT, <2>1, <2>2, <2>4, Spell3
  <2> QED BY SMT, <1>2, <2>1, <2>2, <2>5 DEF Scalar
<1>3. <<a, b, d>> # <<192, 128>> BY SMT
<1> QED BY SMT, <1>1, <1>2, <1>3, SpellingIs

LEMMA Char4 ==
  ASSUME NEW a \in Byte, NEW b \in Byte, NEW d \in Byte, NEW k \in Byte
  PROVE  LET c == Code4(a, b, d, k)
         IN <<a, b, d, k>> \in Spelling(Unicode)
              <=> /\ a \in 240..247 /\ b \in 128..191 /\ d \in 128..191 /\ k \in 128..191
                  /\ c > 65535 /\ c <= 1114111
<1> DEFINE c == Code4(a, b, d, k)
<1>1. ASSUME a \in 240..247, b \in 128..191, d \in 128..191, k \in 128..191,
             c > 65535, c <= 1114111
      PROVE  <<a, b, d, k>> \in Spelling(Unicode)
  <2>a. Four(a, b, d, k) BY SMT, <1>1 DEF Four
  <2>1. /\ c \in Nat /\ c <= 2097151
        /\ a = Lead4(c) /\ b = Tail2(c)
        /\ d = Tail1(c) /\ k = Tail0(c)
    BY SMT, <2>a, Read4
  <2> HIDE DEF c
  <2>2. Scalar(c) BY SMT, <1>1, <2>1, Small DEF Scalar
  <2>3. c > 65535 BY <1>1
  <2>4. FromUnichar(c) = <<Lead4(c), Tail2(c), Tail1(c), Tail0(c)>>
    BY SMT, <2>1, <2>3, FromUnicharIs
  <2>5. FromUnichar(c) = <<a, b, d, k>> BY SMT, <2>1, <2>4
  <2> QED BY SMT, <2>2, <2>5, SpellingIs
<1>2. ASSUME NEW e, Scalar(e), <<a, b, d, k>> = FromUnichar(e)
      PROVE  /\ a \in 240..247 /\ b \in 128..191 /\ d \in 128..191 /\ k \in 128..191
             /\ c > 65535 /\ c <= 1114111
  <2>1. e \in Nat /\ e <= 2097151 /\ e <= 1114111 BY SMT, <1>2 DEF Scalar
  <2>2. e > 65535 BY SMT, <1>2, <2>1, UnicharLen
  <2>3. FromUnichar(e) = <<Lead4(e), Tail2(e),
                           Tail1(e), Tail0(e)>>
    BY SMT, <2>1, <2>2, FromUnicharIs
  <2>4. /\ a = Lead4(e) /\ b = Tail2(e)
        /\ d = Tail1(e) /\ k = Tail0(e)
    BY SMT, <1>2, <2>3
  <2>5. /\ a \in 240..247 /\ b \in 128..191 /\ d \in 128..191 /\ k \in 128..191
        /\ Code4(a, b, d, k) = e
    BY SMT, <2>1, <2>4, Spell4
  <2> QED BY SMT, <2>1, <2>2, <2>5
<1>3. <<a, b, d, k>> # <<192, 128>> BY SMT
<1> QED BY SMT, <1>1, <1>2, <1>3, SpellingIs
LEMMA First2 ==
  ASSUME NEW a \in Byte, NEW b \in Byte, <<a, b>> \in Spelling(Unicode)
  PROVE  a \in 192..223
BY SMT, Char2
LEMMA First3 ==
  ASSUME NEW a \in Byte, NEW b \in Byte, NEW d \in Byte, <<a, b, d>> \in Spelling(Unicode)
  PROVE  a \in 224..239
BY SMT, Char3

(* The first byte of a spelled character gives its length.                 *)
LEMMA CharLen ==
  ASSUME NEW s \in Seq(Byte), NEW i \in 1..Len(s), NEW n \in 1..4, i + n - 1 <= Len(s),
         SubSeq(s, i, i + n - 1) \in Spelling(Unicode)
  PROVE  n = SequenceLen(s[i])
<1> DEFINE w == SubSeq(s, i, i + n - 1)
<1>1. /\ n = 1 => w = <<s[i]>>
      /\ n = 2 => w = <<s[i], s[i + 1]>>
      /\ n = 3 => w = <<s[i], s[i + 1], s[i + 2]>>
      /\ n = 4 => w = <<s[i], s[i + 1], s[i + 2], s[i + 3]>>
      /\ \A k \in 0..(n - 1) : s[i + k] \in Byte
  BY BytesAre
<1>2. w \in Spelling(Unicode) OBVIOUS
<1> HIDE DEF w
<1>3. s[i] \in Byte OBVIOUS
<1>4. CASE n = 1
  <2>1. s[i] < 128 BY SMT, <1>1, <1>2, <1>3, <1>4, Char1
  <2> QED BY SMT, <1>3, <1>4, <2>1, LenIs
<1>5. CASE n = 2
  <2>1. s[i + 1] \in Byte BY SMT, <1>1, <1>5
  <2>2. <<s[i], s[i + 1]>> \in Spelling(Unicode) BY SMT, <1>1, <1>2, <1>5
  <2>3. s[i] \in 192..223 BY ONLY Zenon, <1>3, <2>1, <2>2, First2
  <2>4. SequenceLen(s[i]) = 2 BY ONLY SMT, <1>3, <2>3, LenIs
  <2> QED BY <1>5, <2>4
<1>6. CASE n = 3
  <2>1. s[i + 1] \in Byte /\ s[i + 2] \in Byte BY SMT, <1>1, <1>6
  <2>2. <<s[i], s[i + 1], s[i + 2]>> \in Spelling(Unicode) BY SMT, <1>1, <1>2, <1>6
  <2>3. s[i] \in 224..239 BY ONLY Zenon, <1>3, <2>1, <2>2, First3
  <2>4. SequenceLen(s[i]) = 3 BY ONLY SMT, <1>3, <2>3, LenIs
  <2> QED BY <1>6, <2>4
<1>7. CASE n = 4
  <2>1. s[i + 1] \in Byte /\ s[i + 2] \in Byte /\ s[i + 3] \in Byte BY SMT, <1>1, <1>7
  <2>2. <<s[i], s[i + 1], s[i + 2], s[i + 3]>> \in Spelling(Unicode)
    BY SMT, <1>1, <1>2, <1>7
  <2>3. s[i] \in 240..247 BY ONLY SMTT(30), <1>3, <2>1, <2>2, Char4
  <2>4. SequenceLen(s[i]) = 4 BY ONLY SMT, <1>3, <2>3, LenIs
  <2> QED BY <1>7, <2>4
<1> QED BY SMT, <1>4, <1>5, <1>6, <1>7

LEMMA ShortestIs ==
  ASSUME NEW c \in Nat, NEW allow
  PROVE  /\ Shortest(1, c, allow) <=> c <= 127
         /\ Shortest(2, c, allow) <=> (c > 127 /\ c <= 2047) \/ (c = 0 /\ allow)
         /\ Shortest(3, c, allow) <=> c > 2047 /\ c <= 65535
         /\ Shortest(4, c, allow) <=> c > 65535 /\ c <= 1114111
<1>1. Shortest(1, c, allow) <=> c <= 127 BY SMT DEF Shortest
<1>2. Shortest(2, c, allow) <=> (c > 127 /\ c <= 2047) \/ (c = 0 /\ allow) BY SMT DEF Shortest
<1>3. Shortest(3, c, allow) <=> c > 2047 /\ c <= 65535 BY SMT DEF Shortest
<1>4. Shortest(4, c, allow) <=> c > 65535 /\ c <= 1114111 BY SMT DEF Shortest
<1> QED BY SMT, <1>1, <1>2, <1>3, <1>4

(* What the code asks of a character, by its length. *)
Sound1(a, allow) == allow \/ a # 0
Sound2(b, c, allow) == b \in 128..191 /\ (c > 127 \/ (c = 0 /\ allow))
Long(c) == c > 2047 /\ ~Surrogate(c)
Sound3(b, d, c) == b \in 128..191 /\ d \in 128..191 /\ Long(c)
Sound4(b, d, e, c) ==
  b \in 128..191 /\ d \in 128..191 /\ e \in 128..191 /\ c > 65535 /\ c <= 1114111

LEMMA LenGives ==
  ASSUME NEW a \in Byte
  PROVE  /\ SequenceLen(a) = 1 => a \in Nat /\ a < 128
         /\ SequenceLen(a) = 2 => a \in 192..223 /\ a # 0
         /\ SequenceLen(a) = 3 => a \in 224..239 /\ a # 0
         /\ SequenceLen(a) = 4 => a \in 240..247 /\ a # 0
<1>1. a \in Nat BY SMT DEF Byte
<1>2. /\ SequenceLen(a) = 1 => a < 128
      /\ SequenceLen(a) = 2 => a \in 192..223
      /\ SequenceLen(a) = 3 => a \in 224..239
      /\ SequenceLen(a) = 4 => a \in 240..247
  BY LenIs
<1> QED BY SMT, <1>1, <1>2

(* What bson_utf8_validate asks of the code point, length by length.       *)
Fits(n, c, allow) == c <= 1114111 /\ ~Surrogate(c) /\ Shortest(n, c, allow)
LEMMA Fits1 ==
  ASSUME NEW a \in Byte, NEW allow, SequenceLen(a) = 1
  PROVE  Fits(1, a, allow)
<1>1. a \in Nat /\ a < 128 BY LenGives
<1>2. Shortest(1, a, allow) BY SMT, <1>1, ShortestIs
<1>3. a <= 1114111 /\ ~Surrogate(a) BY SMT, <1>1, Small
<1> QED BY SMT, <1>2, <1>3 DEF Fits

LEMMA Fits2 ==
  ASSUME NEW a \in Byte, NEW b \in 128..191, NEW allow, SequenceLen(a) = 2
  PROVE  LET c == Code2(a, b) IN Fits(2, c, allow) <=> c > 127 \/ (c = 0 /\ allow)
<1> DEFINE c == Code2(a, b)
<1>1. Two(a, b) BY LenGives DEF Two
<1>2. c \in Nat /\ c <= 2047 BY SMT, <1>1, Read2
<1> HIDE DEF c
<1>3. Shortest(2, c, allow) <=> (c > 127 /\ c <= 2047) \/ (c = 0 /\ allow)
  BY SMT, <1>2, ShortestIs
<1>4. c <= 1114111 /\ ~Surrogate(c) BY SMT, <1>2, Small
<1>5. Fits(2, c, allow) <=> c > 127 \/ (c = 0 /\ allow) BY SMT, <1>2, <1>3, <1>4 DEF Fits
<1> QED BY SMT, <1>5 DEF c

LEMMA Fits3 ==
  ASSUME NEW a, NEW b, NEW d, NEW allow, Three(a, b, d)
  PROVE  LET c == Code3(a, b, d) IN Fits(3, c, allow) <=> Long(c)
<1> DEFINE c == Code3(a, b, d)
<1>2. c \in Nat /\ c <= 65535 BY SMT, Read3
<1> HIDE DEF c
<1>3. Shortest(3, c, allow) <=> c > 2047 /\ c <= 65535 BY SMT, <1>2, ShortestIs
<1>4. c <= 1114111 BY SMT, <1>2, Small
<1>5. Fits(3, c, allow) <=> Long(c)
  BY SMT, <1>2, <1>3, <1>4 DEF Fits, Long
<1> QED BY SMT, <1>5 DEF c

LEMMA Fits4 ==
  ASSUME NEW a, NEW b, NEW d, NEW e, NEW allow, Four(a, b, d, e)
  PROVE  LET c == Code4(a, b, d, e) IN Fits(4, c, allow) <=> c > 65535 /\ c <= 1114111
<1> DEFINE c == Code4(a, b, d, e)
<1>2. c \in Nat BY SMT, Read4
<1> HIDE DEF c
<1>3. Shortest(4, c, allow) <=> c > 65535 /\ c <= 1114111 BY SMT, <1>2, ShortestIs
<1>4. c > 65535 => ~Surrogate(c) BY SMT, <1>2, Small
<1>5. Fits(4, c, allow) <=> c > 65535 /\ c <= 1114111 BY SMT, <1>2, <1>3, <1>4 DEF Fits
<1> QED BY SMT, <1>5 DEF c

(* The test of one character, in terms of its bytes.                       *)
LEMMA ValidCharIs ==
  ASSUME NEW s \in Seq(Byte), NEW i \in 1..Len(s), NEW n \in 1..4, n = SequenceLen(s[i]),
         i + n - 1 <= Len(s), NEW allow \in BOOLEAN
  PROVE  LET c == GetChar(s, i)   valid == ValidChar(s, i, n, allow) IN
         /\ n = 1 => (valid <=> Sound1(s[i], allow))
         /\ n = 2 => (valid <=> Sound2(s[i + 1], c, allow))
         /\ n = 3 => (valid <=> Sound3(s[i + 1], s[i + 2], c))
         /\ n = 4 => (valid <=> Sound4(s[i + 1], s[i + 2], s[i + 3], c))
<1> DEFINE c == GetChar(s, i)   a == s[i]   b == s[i + 1]   d == s[i + 2]   e == s[i + 3]
           Follow == \A k \in 1..(n - 1) : s[i + k] \in 128..191
           NotNull == \A k \in 0..(n - 1) : s[i + k] # 0
           valid == ValidChar(s, i, n, allow)
<1>1. a \in Byte /\ \A k \in 0..(n - 1) : s[i + k] \in Byte BY SMT, BytesAre
<1>2. /\ n = 1 => c = a
      /\ n = 2 => c = Code2(a, b)
      /\ n = 3 => c = Code3(a, b, d)
      /\ n = 4 => c = Code4(a, b, d, e)
  BY SMT, GetCharIs
<1>3. valid <=> Follow /\ (allow \/ NotNull) /\ Fits(n, c, allow) BY SMT DEF ValidChar, Fits
<1>4. n = SequenceLen(a) OBVIOUS
<1>5. /\ n = 1 => Follow
      /\ n = 2 => (Follow <=> b \in 128..191)
      /\ n = 3 => (Follow <=> b \in 128..191 /\ d \in 128..191)
      /\ n = 4 => (Follow <=> b \in 128..191 /\ d \in 128..191 /\ e \in 128..191)
  <2>1. n = 1 => Follow BY SMT
  <2>2. n = 2 => (Follow <=> b \in 128..191) BY SMT
  <2>3. n = 3 => (Follow <=> b \in 128..191 /\ d \in 128..191) BY SMT
  <2>4. n = 4 => (Follow <=> b \in 128..191 /\ d \in 128..191 /\ e \in 128..191) BY SMT
  <2> QED BY SMT, <2>1, <2>2, <2>3, <2>4
<1>6. Follow /\ a # 0 => NotNull
  <2> SUFFICES ASSUME Follow, a # 0, NEW k \in 0..(n - 1) PROVE s[i + k] # 0
    OBVIOUS
  <2>1. CASE k = 0 BY SMT, <2>1
  <2>2. CASE k # 0
    <3>1. k \in 1..(n - 1) BY SMT, <2>2
    <3>2. s[i + k] \in 128..191 BY <3>1
    <3>3. \A x \in 128..191 : x # 0 BY SMT
    <3> QED BY <3>2, <3>3
  <2> QED BY <2>1, <2>2
<1>7. n = 1 => (NotNull <=> a # 0)
  <2>1. n = 1 => 0..(n - 1) = {0} BY SMT
  <2>2. i + 0 = i BY SMT
  <2> QED BY SMT, <2>1, <2>2
<1>b. a \in Byte BY <1>1
<1> HIDE DEF a, b, d, e, c, valid, NotNull, Follow
<1>c. SequenceLen(a) \in {2, 3, 4} => a # 0 BY ONLY <1>b, LenGives
<1>8. n = 1 => (valid <=> Sound1(a, allow))
  <2>1. SequenceLen(a) = 1 => Fits(1, a, allow) BY ONLY <1>b, Fits1
  <2> QED BY SMT, <1>2, <1>3, <1>4, <1>5, <1>7, <2>1 DEF Sound1
<1>9. n = 2 => (valid <=> Sound2(b, c, allow))
  <2>1. n = 2 => a # 0 BY <1>4, <1>c
  <2>2. n = 2 /\ Follow => (Fits(n, c, allow) <=> c > 127 \/ (c = 0 /\ allow))
    <3> SUFFICES ASSUME n = 2, Follow PROVE Fits(2, c, allow) <=> c > 127 \/ (c = 0 /\ allow)
      OBVIOUS
    <3>1. SequenceLen(a) = 2 /\ b \in 128..191 BY <1>4, <1>5
    <3>2. c = Code2(a, b) BY <1>2
    <3>3. LET x == Code2(a, b) IN Fits(2, x, allow) <=> x > 127 \/ (x = 0 /\ allow)
      BY ONLY SMT, <1>b, <3>1, Fits2
    <3> QED BY SMT, <3>2, <3>3
  <2> QED BY SMT, <1>3, <1>5, <1>6, <2>1, <2>2 DEF Sound2
<1>10. n = 3 => (valid <=> Sound3(b, d, c))
  <2>1. n = 3 => a # 0 BY <1>4, <1>c
  <2>2. n = 3 /\ Follow => (Fits(n, c, allow) <=> Long(c))
    <3> SUFFICES ASSUME n = 3, Follow PROVE Fits(3, c, allow) <=> Long(c)
      OBVIOUS
    <3>1. Three(a, b, d)
      <4>1. SequenceLen(a) = 3 /\ b \in 128..191 /\ d \in 128..191 BY <1>4, <1>5
      <4> QED BY ONLY <1>b, <4>1, LenGives DEF Three
    <3>2. c = Code3(a, b, d) BY <1>2
    <3>3. LET x == Code3(a, b, d) IN Fits(3, x, allow) <=> Long(x)
      BY ONLY SMT, <3>1, Fits3
    <3> QED BY SMT, <3>2, <3>3
  <2>3. n = 3 => (valid <=> Follow /\ Long(c))
    <3> SUFFICES ASSUME n = 3 PROVE valid <=> Follow /\ Long(c)
      OBVIOUS
    <3>1. Follow => NotNull BY SMT, <1>6, <2>1
    <3>2. valid <=> Follow /\ Fits(3, c, allow) BY SMT, <1>3, <3>1
    <3>3. Follow => (Fits(3, c, allow) <=> Long(c)) BY SMT, <2>2
    <3> QED BY ONLY SMT, <3>2, <3>3
  <2>4. n = 3 => (Follow <=> b \in 128..191 /\ d \in 128..191) BY <1>5
  <2> QED BY ONLY SMT, <2>3, <2>4 DEF Sound3
<1>11. n = 4 => (valid <=> Sound4(b, d, e, c))
  <2>1. n = 4 => a # 0 BY <1>4, <1>c
  <2>2. n = 4 /\ Follow => (Fits(n, c, allow) <=> c > 65535 /\ c <= 1114111)
    <3> SUFFICES ASSUME n = 4, Follow PROVE Fits(4, c, allow) <=> c > 65535 /\ c <= 1114111
      OBVIOUS
    <3>1. Four(a, b, d, e)
      <4>1. SequenceLen(a) = 4 /\ b \in 128..191 /\ d \in 128..191 /\ e \in 128..191 BY <1>4, <1>5
      <4> QED BY ONLY <1>b, <4>1, LenGives DEF Four
    <3>2. c = Code4(a, b, d, e) BY <1>2
    <3>3. LET x == Code4(a, b, d, e) IN Fits(4, x, allow) <=> x > 65535 /\ x <= 1114111
      BY ONLY SMT, <3>1, Fits4
    <3> QED BY SMT, <3>2, <3>3
  <2> QED BY SMT, <1>3, <1>5, <1>6, <2>1, <2>2 DEF Sound4
<1> QED BY SMT, <1>8, <1>9, <1>10, <1>11 DEF valid, a, b, c, d, e
Marks == {0, 192}
LEMMA Spelled1 ==
  ASSUME NEW a \in Byte, SequenceLen(a) = 1
  PROVE  <<a>> \in Spelling(Unicode) /\ Sound1(a, TRUE)
         /\ (Sound1(a, FALSE) <=> a \notin Marks)
<1>1. a < 128 /\ a \in Nat BY LenGives
<1>2. <<a>> \in Spelling(Unicode) BY <1>1, Char1
<1> QED BY SMT, <1>1, <1>2 DEF Sound1, Marks

LEMMA Spelled2 ==
  ASSUME NEW a \in Byte, NEW b \in Byte, SequenceLen(a) = 2
  PROVE  LET c == Code2(a, b) IN
         /\ <<a, b>> \in Spelling(Unicode) <=> Sound2(b, c, TRUE)
         /\ Sound2(b, c, FALSE) <=> Sound2(b, c, TRUE) /\ a \notin Marks /\ b \notin Marks
<1> DEFINE c == Code2(a, b)
<1>1. a \in 192..223 BY LenGives
<1>2. <<a, b>> \in Spelling(Unicode) <=> b \in 128..191 /\ (c > 127 \/ c = 0)
  BY SMT, <1>1, Char2
<1>3. ASSUME b \in 128..191
      PROVE  c \in Nat /\ (c = 0 => a = 192) /\ (c > 127 => a # 192)
  BY SMT, <1>1, <1>3 DEF Code2
<1> HIDE DEF c
<1>4. <<a, b>> \in Spelling(Unicode) <=> Sound2(b, c, TRUE)
  BY SMT, <1>2, <1>3 DEF Sound2
<1>5. Sound2(b, c, FALSE) <=> Sound2(b, c, TRUE) /\ a \notin Marks /\ b \notin Marks
  BY SMT, <1>1, <1>3 DEF Sound2, Marks
<1> QED BY Zenon, <1>4, <1>5 DEF c

LEMMA Spelled3 ==
  ASSUME NEW a \in Byte, NEW b \in Byte, NEW d \in Byte, SequenceLen(a) = 3
  PROVE  LET c == Code3(a, b, d) IN
         /\ <<a, b, d>> \in Spelling(Unicode) <=> Sound3(b, d, c)
         /\ Sound3(b, d, c) => a \notin Marks /\ b \notin Marks /\ d \notin Marks
<1> DEFINE c == Code3(a, b, d)
<1>1. a \in 224..239 BY LenGives
<1>2. <<a, b, d>> \in Spelling(Unicode) <=> Sound3(b, d, c)
  BY SMT, <1>1, Char3 DEF Sound3, Long
<1>3. Sound3(b, d, c) => a \notin Marks /\ b \notin Marks /\ d \notin Marks
  BY SMT, <1>1 DEF Sound3, Marks
<1> QED BY SMT, <1>2, <1>3

LEMMA Spelled4 ==
  ASSUME NEW a \in Byte, NEW b \in Byte, NEW d \in Byte, NEW e \in Byte, SequenceLen(a) = 4
  PROVE  LET c == Code4(a, b, d, e) IN
         /\ <<a, b, d, e>> \in Spelling(Unicode) <=> Sound4(b, d, e, c)
         /\ Sound4(b, d, e, c) => /\ a \notin Marks /\ b \notin Marks
                                  /\ d \notin Marks /\ e \notin Marks
<1> DEFINE c == Code4(a, b, d, e)
<1>1. a \in 240..247 BY LenGives
<1>2. <<a, b, d, e>> \in Spelling(Unicode) <=> Sound4(b, d, e, c)
  BY SMT, <1>1, Char4 DEF Sound4
<1>3. Sound4(b, d, e, c) => /\ a \notin Marks /\ b \notin Marks
                            /\ d \notin Marks /\ e \notin Marks
  BY SMT, <1>1 DEF Sound4, Marks
<1> QED BY SMT, <1>2, <1>3

(* A character is spelled if and only if the code accepts it with nulls    *)
(* allowed; where they are not, no byte of it may be 0 or 192.             *)
LEMMA CharSpells ==
  ASSUME NEW s \in Seq(Byte), NEW i \in 1..Len(s), NEW n \in 1..4, n = SequenceLen(s[i]),
         i + n - 1 <= Len(s)
  PROVE  /\ ValidChar(s, i, n, TRUE) <=> SubSeq(s, i, i + n - 1) \in Spelling(Unicode)
         /\ ValidChar(s, i, n, FALSE)
              <=> ValidChar(s, i, n, TRUE) /\ \A k \in 0..(n - 1) : s[i + k] \notin Marks
<1> DEFINE w == SubSeq(s, i, i + n - 1)   c == GetChar(s, i)
           a == s[i]   b == s[i + 1]   d == s[i + 2]   e == s[i + 3]
           Valid(allow) == ValidChar(s, i, n, allow)
           Markless == \A k \in 0..(n - 1) : s[i + k] \notin Marks
<1>1. /\ n = 1 => w = <<a>>
      /\ n = 2 => w = <<a, b>>
      /\ n = 3 => w = <<a, b, d>>
      /\ n = 4 => w = <<a, b, d, e>>
      /\ \A k \in 0..(n - 1) : s[i + k] \in Byte
  BY BytesAre
<1>2. /\ n = 1 => c = a
      /\ n = 2 => c = Code2(a, b)
      /\ n = 3 => c = Code3(a, b, d)
      /\ n = 4 => c = Code4(a, b, d, e)
  BY SMT, GetCharIs
<1>3. \A allow \in {TRUE, FALSE} :
        /\ n = 1 => (Valid(allow) <=> Sound1(a, allow))
        /\ n = 2 => (Valid(allow) <=> Sound2(b, c, allow))
        /\ n = 3 => (Valid(allow) <=> Sound3(b, d, c))
        /\ n = 4 => (Valid(allow) <=> Sound4(b, d, e, c))
  BY Zenon, ValidCharIs
<1>t. /\ n = 1 => (Valid(TRUE) <=> Sound1(a, TRUE)) /\ (Valid(FALSE) <=> Sound1(a, FALSE))
      /\ n = 2 => (Valid(TRUE) <=> Sound2(b, c, TRUE)) /\ (Valid(FALSE) <=> Sound2(b, c, FALSE))
      /\ n = 3 => (Valid(TRUE) <=> Sound3(b, d, c)) /\ (Valid(FALSE) <=> Sound3(b, d, c))
      /\ n = 4 => (Valid(TRUE) <=> Sound4(b, d, e, c)) /\ (Valid(FALSE) <=> Sound4(b, d, e, c))
  BY Zenon, <1>3
<1>4. n = SequenceLen(a) /\ a \in Byte OBVIOUS
<1>5. /\ n = 1 => (Markless <=> a \notin Marks)
      /\ n = 2 => (Markless <=> a \notin Marks /\ b \notin Marks) /\ b \in Byte
      /\ n = 3 => (Markless <=> a \notin Marks /\ b \notin Marks /\ d \notin Marks)
                  /\ b \in Byte /\ d \in Byte
      /\ n = 4 => (Markless <=> /\ a \notin Marks /\ b \notin Marks
                            /\ d \notin Marks /\ e \notin Marks)
                  /\ b \in Byte /\ d \in Byte /\ e \in Byte
  <2>0. i + 0 = i BY SMT
  <2>1. ASSUME n = 1 PROVE Markless <=> a \notin Marks
    <3>1. 0..(n - 1) = {0} BY SMT, <2>1
    <3> QED BY Zenon, <2>0, <3>1
  <2>2. ASSUME n = 2 PROVE (Markless <=> a \notin Marks /\ b \notin Marks) /\ b \in Byte
    <3>1. 0..(n - 1) = {0, 1} BY SMT, <2>2
    <3> QED BY Zenon, <1>1, <2>0, <3>1
  <2>3. ASSUME n = 3
        PROVE  (Markless <=> a \notin Marks /\ b \notin Marks /\ d \notin Marks)
               /\ b \in Byte /\ d \in Byte
    <3>1. 0..(n - 1) = {0, 1, 2} BY SMT, <2>3
    <3> QED BY Zenon, <1>1, <2>0, <3>1
  <2>4. ASSUME n = 4
        PROVE  (Markless <=> /\ a \notin Marks /\ b \notin Marks
                         /\ d \notin Marks /\ e \notin Marks)
               /\ b \in Byte /\ d \in Byte /\ e \in Byte
    <3>1. 0..(n - 1) = {0, 1, 2, 3} BY SMT, <2>4
    <3> QED BY Zenon, <1>1, <2>0, <3>1
  <2> QED BY <2>1, <2>2, <2>3, <2>4
<1> HIDE DEF w, a, b, c, d, e, Valid, Markless
<1>6. (Valid(TRUE) <=> w \in Spelling(Unicode)) /\ (Valid(FALSE) <=> Valid(TRUE) /\ Markless)
  <2>1. CASE n = 1
    <3>1. /\ <<a>> \in Spelling(Unicode) /\ Sound1(a, TRUE)
          /\ Sound1(a, FALSE) <=> a \notin Marks
      BY ONLY <1>4, <2>1, Spelled1
    <3>2. w = <<a>> /\ (Markless <=> a \notin Marks) BY <1>1, <1>5, <2>1
    <3> QED BY ONLY <1>t, <2>1, <3>1, <3>2
  <2>2. CASE n = 2
    <3>1. w = <<a, b>> /\ c = Code2(a, b) /\ b \in Byte
          /\ (Markless <=> a \notin Marks /\ b \notin Marks)
      BY <1>1, <1>2, <1>5, <2>2
    <3>2. /\ <<a, b>> \in Spelling(Unicode) <=> Sound2(b, c, TRUE)
          /\ Sound2(b, c, FALSE) <=> Sound2(b, c, TRUE) /\ a \notin Marks /\ b \notin Marks
      BY ONLY Zenon, <1>4, <2>2, <3>1, Spelled2
    <3> QED BY ONLY <1>t, <2>2, <3>1, <3>2
  <2>3. CASE n = 3
    <3>1. w = <<a, b, d>> /\ c = Code3(a, b, d) /\ b \in Byte /\ d \in Byte
          /\ (Markless <=> a \notin Marks /\ b \notin Marks /\ d \notin Marks)
      BY <1>1, <1>2, <1>5, <2>3
    <3>2. /\ <<a, b, d>> \in Spelling(Unicode) <=> Sound3(b, d, c)
          /\ Sound3(b, d, c) => a \notin Marks /\ b \notin Marks /\ d \notin Marks
      BY ONLY Zenon, <1>4, <2>3, <3>1, Spelled3
    <3> QED BY ONLY <1>t, <2>3, <3>1, <3>2
  <2>4. CASE n = 4
    <3>1. w = <<a, b, d, e>> /\ c = Code4(a, b, d, e) /\ b \in Byte /\ d \in Byte /\ e \in Byte
          /\ (Markless <=> a \notin Marks /\ b \notin Marks /\ d \notin Marks /\ e \notin Marks)
      BY <1>1, <1>2, <1>5, <2>4
    <3>2. /\ <<a, b, d, e>> \in Spelling(Unicode) <=> Sound4(b, d, e, c)
          /\ Sound4(b, d, e, c) => a \notin Marks /\ b \notin Marks
                                   /\ d \notin Marks /\ e \notin Marks
      BY ONLY Zenon, <1>4, <2>4, <3>1, Spelled4
    <3> QED BY ONLY <1>t, <2>4, <3>1, <3>2
  <2>5. n \in {1, 2, 3, 4} BY SMT
  <2> QED BY <2>1, <2>2, <2>3, <2>4, <2>5
<1> QED BY <1>6 DEF Valid, Markless, w
-----------------------------------------------------------------------------
(* Escaping, position by position.                                         *)
Halts(s, i, lengthGiven) ==
  \/ SequenceLen(s[i]) > Len(s) - i + 1
  \/ GetChar(s, i) = 0 /\ ~(lengthGiven /\ (s[i] = 0 \/ (s[i] = 192 /\ s[i + 1] = 128)))
Skip(s, i) == IF GetChar(s, i) # 0 THEN SequenceLen(s[i]) ELSE IF s[i] = 0 THEN 1 ELSE 2

(* How far the escape moves, and that it stays in the string.              *)
LEMMA CodeRange ==
  ASSUME NEW a \in Byte, NEW b \in Byte, NEW d \in Byte, NEW e \in Byte
  PROVE  /\ Code2(a, b) \in Nat /\ Code2(a, b) <= 2097151
         /\ Code3(a, b, d) \in Nat /\ Code3(a, b, d) <= 2097151
         /\ Code4(a, b, d, e) \in Nat /\ Code4(a, b, d, e) <= 2097151
<1> DEFINE p == a % 32   q == a % 16   r == a % 8   t == b % 64   u == d % 64   v == e % 64
<1>1. a \in Nat /\ b \in Nat /\ d \in Nat /\ e \in Nat BY SMT DEF Byte
<1>2. p \in 0..31 /\ q \in 0..15 /\ r \in 0..7 /\ t \in 0..63 /\ u \in 0..63 /\ v \in 0..63
  BY ONLY SMT, <1>1
<1>3. /\ Code2(a, b) = p * 64 + t
      /\ Code3(a, b, d) = (q * 64 + t) * 64 + u
      /\ Code4(a, b, d, e) = ((r * 64 + t) * 64 + u) * 64 + v
  BY Zenon DEF Code2, Code3, Code4
<1> HIDE DEF p, q, r, t, u, v
<1>4. p * 64 + t \in Nat /\ p * 64 + t <= 2097151 BY ONLY SMT, <1>2
<1>5. (q * 64 + t) * 64 + u \in Nat /\ (q * 64 + t) * 64 + u <= 2097151 BY ONLY SMT, <1>2
<1>6. ((r * 64 + t) * 64 + u) * 64 + v \in Nat /\ ((r * 64 + t) * 64 + u) * 64 + v <= 2097151
  BY ONLY SMT, <1>2
<1> QED BY SMT, <1>3, <1>4, <1>5, <1>6

LEMMA CharRange ==
  ASSUME NEW s \in Seq(Byte), NEW i \in 1..Len(s), NEW n \in 1..4, n = SequenceLen(s[i]),
         i + n - 1 <= Len(s)
  PROVE  GetChar(s, i) \in Nat /\ GetChar(s, i) <= 2097151
<1> DEFINE c == GetChar(s, i)   a == s[i]   b == s[i + 1]   d == s[i + 2]   e == s[i + 3]
<1>1. /\ n = 1 => c = a
      /\ n = 2 => c = Code2(a, b)
      /\ n = 3 => c = Code3(a, b, d)
      /\ n = 4 => c = Code4(a, b, d, e)
  BY SMT, GetCharIs
<1>2. /\ a \in Byte
      /\ n \in {2, 3, 4} => b \in Byte
      /\ n \in {3, 4} => d \in Byte
      /\ n = 4 => e \in Byte
  <2>1. \A k \in 0..(n - 1) : s[i + k] \in Byte BY BytesAre
  <2> QED BY SMT, <2>1
<1> HIDE DEF a, b, c, d, e
<1> DEFINE InRange(x) == x \in Nat /\ x <= 2097151
<1>3. \A x \in Byte : InRange(x) BY SMT DEF Byte
<1>4. \A x, y, z, w \in Byte :
        InRange(Code2(x, y)) /\ InRange(Code3(x, y, z)) /\ InRange(Code4(x, y, z, w))
  BY ONLY SMT, CodeRange
<1> HIDE DEF InRange
<1>5. ASSUME n = 1 PROVE InRange(c) BY <1>1, <1>2, <1>3, <1>5
<1>6. ASSUME n = 2 PROVE InRange(c)
  <2>1. a \in Byte /\ b \in Byte BY <1>2, <1>6
  <2> QED BY <1>1, <1>4, <1>6, <2>1
<1>7. ASSUME n = 3 PROVE InRange(c)
  <2>1. a \in Byte /\ b \in Byte /\ d \in Byte BY <1>2, <1>7
  <2> QED BY <1>1, <1>4, <1>7, <2>1
<1>8. ASSUME n = 4 PROVE InRange(c)
  <2>1. a \in Byte /\ b \in Byte /\ d \in Byte /\ e \in Byte BY <1>2, <1>8
  <2> QED BY <1>1, <1>4, <1>8, <2>1
<1>9. InRange(c)
  <2>1. n \in {1, 2, 3, 4} BY SMT
  <2> QED BY <1>5, <1>6, <1>7, <1>8, <2>1
<1> QED BY SMT, <1>9 DEF c, InRange

LEMMA SkipsOne ==
  ASSUME NEW s \in Seq(Byte), NEW i \in 1..Len(s), NEW lengthGiven \in BOOLEAN,
         ~Halts(s, i, lengthGiven)
  PROVE  LET n == SequenceLen(s[i]) IN
         /\ n \in 1..4 /\ Skip(s, i) = n
         /\ i + n \in 1..(Len(s) + 1) /\ i + n > i /\ i + n - 1 <= Len(s)
<1> DEFINE n == SequenceLen(s[i])   c == GetChar(s, i)
<1>1. s[i] \in Byte /\ i \in Nat /\ Len(s) \in Nat BY SMT
<1>2. n \in 0..4 /\ (s[i] = 0 => n = 1) /\ (s[i] = 192 => n = 2)
  <2>1. \A b \in Byte : /\ SequenceLen(b) \in 0..4
                        /\ b = 0 => SequenceLen(b) = 1
                        /\ b = 192 => SequenceLen(b) = 2
    BY ONLY SMT, LenIs
  <2> QED BY ONLY <1>1, <2>1
<1>3. n = 0 => c = 0 BY GetCharIs
<1>4. /\ ~(n > Len(s) - i + 1)
      /\ c = 0 => s[i] = 0 \/ s[i] = 192
  BY Zenon DEF Halts
<1>5. Skip(s, i) = IF c # 0 THEN n ELSE IF s[i] = 0 THEN 1 ELSE 2 BY Zenon DEF Skip
<1> HIDE DEF c, n
<1>6. n \in 1..4 BY SMT, <1>2, <1>3, <1>4
<1>7. Skip(s, i) = n
  <2>1. CASE c # 0 BY <1>5, <2>1
  <2>2. CASE c = 0 /\ s[i] = 0 BY <1>2, <1>5, <2>2
  <2>3. CASE c = 0 /\ s[i] = 192
    <3>1. s[i] # 0 BY SMT, <2>3
    <3> QED BY <1>2, <1>5, <2>3, <3>1
  <2> QED BY <1>4, <2>1, <2>2, <2>3
<1>8. i + n \in 1..(Len(s) + 1) /\ i + n > i /\ i + n - 1 <= Len(s) BY SMT, <1>1, <1>4, <1>6
<1> QED BY SMT, <1>6, <1>7, <1>8 DEF n

LEMMA Skips ==
  ASSUME NEW s \in Seq(Byte), NEW i \in 1..Len(s), NEW lengthGiven \in BOOLEAN,
         ~Halts(s, i, lengthGiven)
  PROVE  LET n == SequenceLen(s[i]) IN
         /\ n \in 1..4 /\ Skip(s, i) = n
         /\ i + n \in 1..(Len(s) + 1) /\ i + n > i
         /\ GetChar(s, i) \in Nat /\ GetChar(s, i) <= 2097151
<1> DEFINE n == SequenceLen(s[i])
<1>1. /\ n \in 1..4 /\ Skip(s, i) = n
      /\ i + n \in 1..(Len(s) + 1) /\ i + n > i /\ i + n - 1 <= Len(s)
  BY SkipsOne
<1> HIDE DEF n
<1>2. n = SequenceLen(s[i]) BY DEF n
<1>3. GetChar(s, i) \in Nat /\ GetChar(s, i) <= 2097151 BY SMT, <1>1, <1>2, CharRange
<1> QED BY SMT, <1>1, <1>3 DEF n
(* What is written for a character is clean, and so is what follows it.    *)
High == {x \in Nat : x > 34}
LEMMA CleanBytes ==
  /\ \A a, b \in High : <<a, b>> \in Seq(Nat) /\ Clean(<<a, b>>)
  /\ \A a, b, d \in High : <<a, b, d>> \in Seq(Nat) /\ Clean(<<a, b, d>>)
  /\ \A a, b, d, e \in High : <<a, b, d, e>> \in Seq(Nat) /\ Clean(<<a, b, d, e>>)
<1>1. ASSUME NEW a \in High, NEW b \in High PROVE <<a, b>> \in Seq(Nat) /\ Clean(<<a, b>>)
  BY SMT DEF Clean, High
<1>2. ASSUME NEW a \in High, NEW b \in High, NEW d \in High
      PROVE  <<a, b, d>> \in Seq(Nat) /\ Clean(<<a, b, d>>)
  BY SMT DEF Clean, High
<1>3. ASSUME NEW a \in High, NEW b \in High, NEW d \in High, NEW e \in High
      PROVE  <<a, b, d, e>> \in Seq(Nat) /\ Clean(<<a, b, d, e>>)
  BY SMT DEF Clean, High
<1> QED BY <1>1, <1>2, <1>3

LEMMA EscapedBy ==
  ASSUME NEW c
  PROVE  /\ c \in {34, Backslash} /\ c \notin DOMAIN Short /\ ~(c < 32)
              => EscapedChar(c) = <<Backslash, c>>
         /\ c \notin {34, Backslash} /\ c \in DOMAIN Short
              => EscapedChar(c) = <<Backslash, Short[c]>>
         /\ c \notin {34, Backslash} /\ c < 32 /\ c \notin DOMAIN Short
              => EscapedChar(c) = <<Backslash, 117, c>>
         /\ c \notin {34, Backslash} /\ ~(c < 32) /\ c \notin DOMAIN Short
              => EscapedChar(c) = FromUnichar(c)
BY Zenon DEF EscapedChar

(* What is written for one character is clean.                             *)
LEMMA EscapedCharIs ==
  ASSUME NEW c \in Nat, c <= 2097151
  PROVE  EscapedChar(c) \in Seq(Nat) /\ Clean(EscapedChar(c))
<1>1. CASE c \in {34, 92}
  <2>0. c \notin DOMAIN Short BY SMT, <1>1 DEF Short
  <2>1. EscapedChar(c) = <<92, c>> BY SMT, <1>1, <2>0, EscapedBy DEF Backslash
  <2> QED BY SMT, <1>1, <2>1 DEF Clean, Backslash
<1>2. CASE c \in {8, 9, 10, 12, 13}
  <2>1. Short[c] \in {98, 116, 110, 102, 114} /\ c \in DOMAIN Short BY SMT, <1>2 DEF Short
  <2>2. c \notin {34, 92} /\ c < 32 BY SMT, <1>2
  <2>3. EscapedChar(c) = <<92, Short[c]>> BY SMT, <2>1, <2>2, EscapedBy DEF Backslash
  <2> DEFINE d == Short[c]
  <2> HIDE DEF d
  <2>4. 92 \in High /\ d \in High BY SMT, <2>1 DEF d, High
  <2>5. <<92, d>> \in Seq(Nat) /\ Clean(<<92, d>>) BY ONLY Zenon, <2>4, CleanBytes
  <2> QED BY SMT, <2>3, <2>5 DEF d
<1>3. CASE c < 32 /\ c \notin {8, 9, 10, 12, 13}
  <2>1. c \notin DOMAIN Short BY SMT, <1>3 DEF Short
  <2>2. c \notin {34, 92} BY SMT, <1>3
  <2>3. EscapedChar(c) = <<92, 117, c>> BY SMT, <1>3, <2>1, <2>2, EscapedBy DEF Backslash
  <2>4. <<92, 117, c>> \in Seq(Nat) BY SMT
  <2>5. Clean(<<92, 117, c>>) BY SMT, <1>3 DEF Clean, Backslash
  <2> QED BY SMT, <2>3, <2>4, <2>5
<1>4. CASE c >= 32 /\ c \notin {34, 92}
  <2>1. c \notin DOMAIN Short BY SMT, <1>4 DEF Short
  <2>2. EscapedChar(c) = FromUnichar(c) BY SMT, <1>4, <2>1, EscapedBy DEF Backslash
  <2>3. FromUnichar(c) \in Seq(Nat) /\ Clean(FromUnichar(c))
    <3>1. CASE c <= 127
      <4>1. FromUnichar(c) = <<c>> BY SMT, <3>1, FromUnicharIs
      <4> QED BY SMT, <1>4, <4>1 DEF Clean
    <3>2. CASE c > 127 /\ c <= 2047
      <4>1. FromUnichar(c) = <<Lead2(c), Tail0(c)>> BY SMT, <3>2, FromUnicharIs
      <4>2. Lead2(c) \in 192..223 /\ Tail0(c) \in 128..191 BY SMT, <3>2, Spell2
      <4> DEFINE a == Lead2(c)   b == Tail0(c)
      <4> HIDE DEF a, b
      <4>3. a \in High /\ b \in High BY SMT, <4>2 DEF a, b, High
      <4>4. <<a, b>> \in Seq(Nat) /\ Clean(<<a, b>>) BY ONLY Zenon, <4>3, CleanBytes
      <4> QED BY SMT, <4>1, <4>4 DEF a, b
    <3>3. CASE c > 2047 /\ c <= 65535
      <4>1. FromUnichar(c) = <<Lead3(c), Tail1(c), Tail0(c)>> BY SMT, <3>3, FromUnicharIs
      <4>2. Lead3(c) \in 224..239 /\ Tail1(c) \in 128..191 /\ Tail0(c) \in 128..191
        BY SMT, <3>3, Spell3
      <4> DEFINE a == Lead3(c)   b == Tail1(c)   d == Tail0(c)
      <4> HIDE DEF a, b, d
      <4>3. a \in High /\ b \in High /\ d \in High BY SMT, <4>2 DEF a, b, d, High
      <4>4. <<a, b, d>> \in Seq(Nat) /\ Clean(<<a, b, d>>) BY ONLY Zenon, <4>3, CleanBytes
      <4> QED BY SMT, <4>1, <4>4 DEF a, b, d
    <3>4. CASE c > 65535
      <4>1. FromUnichar(c) = <<Lead4(c), Tail2(c), Tail1(c), Tail0(c)>>
        BY SMT, <3>4, FromUnicharIs
      <4>2. /\ Lead4(c) \in 240..247 /\ Tail2(c) \in 128..191
            /\ Tail1(c) \in 128..191 /\ Tail0(c) \in 128..191
        BY SMT, <3>4, Spell4
      <4> DEFINE a == Lead4(c)   b == Tail2(c)   d == Tail1(c)   e == Tail0(c)
      <4> HIDE DEF a, b, d, e
      <4>3. a \in High /\ b \in High /\ d \in High /\ e \in High
        BY SMT, <4>2 DEF a, b, d, e, High
      <4>4. <<a, b, d, e>> \in Seq(Nat) /\ Clean(<<a, b, d, e>>) BY ONLY Zenon, <4>3, CleanBytes
      <4> QED BY SMT, <4>1, <4>4 DEF a, b, d, e
    <3> QED BY SMT, <3>1, <3>2, <3>3, <3>4
  <2> QED BY SMT, <2>2, <2>3
<1> QED BY SMT, <1>1, <1>2, <1>3, <1>4

LEMMA CleanConcat ==
  ASSUME NEW x \in Seq(Nat), NEW y \in Seq(Nat), Clean(x), Clean(y)
  PROVE  x \o y \in Seq(Nat) /\ Clean(x \o y)
<1> DEFINE z == x \o y
<1>1. z \in Seq(Nat) /\ Len(z) = Len(x) + Len(y)
      /\ \A i \in 1..(Len(x) + Len(y)) : z[i] = IF i <= Len(x) THEN x[i] ELSE y[i - Len(x)]
  BY ConcatProperties
<1> HIDE DEF z
<1>2. DOMAIN z = 1..Len(z) /\ DOMAIN x = 1..Len(x) /\ DOMAIN y = 1..Len(y)
  BY <1>1, LenProperties
<1>3. ASSUME NEW i \in DOMAIN z
      PROVE  /\ z[i] < 32 => i > 2 /\ z[i - 2] = Backslash /\ z[i - 1] = 117
             /\ z[i] = 34 => i > 1 /\ z[i - 1] = Backslash
  <2>1. CASE i <= Len(x)
    <3>1. i \in DOMAIN x /\ z[i] = x[i] BY SMT, <1>1, <1>2, <2>1
    <3>2. /\ x[i] < 32 => i > 2 /\ x[i - 2] = Backslash /\ x[i - 1] = 117
          /\ x[i] = 34 => i > 1 /\ x[i - 1] = Backslash
      BY <3>1 DEF Clean
    <3>a. i \in Nat /\ i <= Len(x) + Len(y) /\ Len(x) \in Nat /\ Len(y) \in Nat
      BY SMT, <1>1, <1>2
    <3>b. ASSUME NEW k \in {1, 2}, i > k PROVE z[i - k] = x[i - k]
      <4>1. i - k \in 1..(Len(x) + Len(y)) /\ i - k <= Len(x) BY ONLY SMT, <2>1, <3>a, <3>b
      <4> QED BY <1>1, <4>1
    <3>3. i > 2 => z[i - 2] = x[i - 2] BY <3>b
    <3>4. i > 1 => z[i - 1] = x[i - 1] BY <3>b
    <3> QED BY ONLY SMTT(30), <3>1, <3>2, <3>3, <3>4
  <2>2. CASE i > Len(x)
    <3> DEFINE j == i - Len(x)
    <3>1. j \in DOMAIN y /\ z[i] = y[j] BY SMT, <1>1, <1>2, <2>2
    <3>2. /\ y[j] < 32 => j > 2 /\ y[j - 2] = Backslash /\ y[j - 1] = 117
          /\ y[j] = 34 => j > 1 /\ y[j - 1] = Backslash
      BY <3>1 DEF Clean
    <3>a. i \in Nat /\ i <= Len(x) + Len(y) /\ Len(x) \in Nat /\ Len(y) \in Nat
      BY SMT, <1>1, <1>2
    <3>b. ASSUME NEW k \in {1, 2}, j > k PROVE i > k /\ z[i - k] = y[j - k]
      <4>1. i > k /\ i - k \in 1..(Len(x) + Len(y)) /\ ~(i - k <= Len(x))
            /\ i - k - Len(x) = j - k
        BY ONLY SMTT(30), <2>2, <3>a, <3>b DEF j
      <4> QED BY <1>1, <4>1
    <3>3. j > 2 => i > 2 /\ z[i - 2] = y[j - 2] BY <3>b
    <3>4. j > 1 => i > 1 /\ z[i - 1] = y[j - 1] BY <3>b
    <3> HIDE DEF j
    <3> QED BY ONLY SMTT(30), <3>1, <3>2, <3>3, <3>4
  <2> QED BY SMT, <1>2, <2>1, <2>2
<1>4. Clean(z) BY <1>3 DEF Clean
<1> QED BY <1>1, <1>4 DEF z
EscapeBody(s, lengthGiven, g, i) ==
  IF i > Len(s) THEN <<TRUE, <<>>>>
  ELSE LET n == SequenceLen(s[i])
           c == GetChar(s, i)
           skip == IF c # 0 THEN n ELSE IF s[i] = 0 THEN 1 ELSE 2
           null == s[i] = 0 \/ (s[i] = 192 /\ s[i + 1] = 128)
       IN IF \/ n > Len(s) - i + 1
             \/ c = 0 /\ ~(lengthGiven /\ null)
             \/ ~g[i + skip][1]
          THEN <<FALSE, <<>>>>
          ELSE <<TRUE, EscapedChar(c) \o g[i + skip][2]>>

LEMMA EscapeBodyIs ==
  ASSUME NEW s, NEW lengthGiven, NEW g, NEW i
  PROVE  EscapeBody(s, lengthGiven, g, i) =
           IF i > Len(s) THEN <<TRUE, <<>>>>
           ELSE IF Halts(s, i, lengthGiven) \/ ~g[i + Skip(s, i)][1] THEN <<FALSE, <<>>>>
           ELSE <<TRUE, EscapedChar(GetChar(s, i)) \o g[i + Skip(s, i)][2]>>
<1> DEFINE skip == Skip(s, i)
<1>1. skip = IF GetChar(s, i) # 0 THEN SequenceLen(s[i]) ELSE IF s[i] = 0 THEN 1 ELSE 2
  BY Zenon DEF Skip
<1> HIDE DEF skip
<1>2. EscapeBody(s, lengthGiven, g, i) =
        IF i > Len(s) THEN <<TRUE, <<>>>>
        ELSE IF Halts(s, i, lengthGiven) \/ ~g[i + skip][1] THEN <<FALSE, <<>>>>
        ELSE <<TRUE, EscapedChar(GetChar(s, i)) \o g[i + skip][2]>>
  BY Zenon, <1>1 DEF EscapeBody, Halts
<1> QED BY Zenon, <1>2 DEF skip

(* bson_utf8_escape_for_json, unfolded at one position.                    *)
LEMMA EscapeIs ==
  ASSUME NEW s \in Seq(Byte), NEW lengthGiven \in BOOLEAN
  PROVE  LET V == EscapeFrom(s, lengthGiven) IN
         /\ V \in [1..(Len(s) + 1) -> BOOLEAN \X Seq(Nat)]
         /\ \A i \in 1..(Len(s) + 1) : V[i] = EscapeBody(s, lengthGiven, V, i)
<1> DEFINE R == BOOLEAN \X Seq(Nat)
           N == Len(s) + 1
           Body(g, i) == EscapeBody(s, lengthGiven, g, i)
           F == [i \in 1..N |-> [g \in [1..N -> R] |-> Body(g, i)]]
           none == <<FALSE, <<>>>>   end == <<TRUE, <<>>>>
           Next1(g, i) == <<TRUE, EscapedChar(GetChar(s, i)) \o g[i + Skip(s, i)][2]>>
<1>1. N \in Nat \ {0} /\ none \in R /\ end \in R
  <2>1. <<>> \in Seq(Nat) BY EmptySeq
  <2>2. N \in Nat \ {0} BY SMT
  <2> QED BY <2>1, <2>2
<1>2. ASSUME NEW g, NEW i
      PROVE  Body(g, i) = IF i > Len(s) THEN end
                          ELSE IF Halts(s, i, lengthGiven) \/ ~g[i + Skip(s, i)][1] THEN none
                          ELSE Next1(g, i)
  BY EscapeBodyIs
<1>3. ASSUME NEW i \in 1..N, ~(i > Len(s)), ~Halts(s, i, lengthGiven)
      PROVE  /\ i + Skip(s, i) \in 1..N /\ i + Skip(s, i) > i
             /\ EscapedChar(GetChar(s, i)) \in Seq(Nat)
  <2>1. i \in 1..Len(s) BY SMT, <1>3
  <2>2. LET n == SequenceLen(s[i]) IN
        /\ Skip(s, i) = n /\ i + n \in 1..N /\ i + n > i
        /\ GetChar(s, i) \in Nat /\ GetChar(s, i) <= 2097151
    BY ONLY SMT, <1>3, <2>1, Skips
  <2>3. EscapedChar(GetChar(s, i)) \in Seq(Nat) BY ONLY SMT, <2>2, EscapedCharIs
  <2> QED BY SMT, <2>2, <2>3
<1> HIDE DEF Body, Next1, none, end, N
<1>4. ASSUME NEW i \in 1..N, NEW g \in [1..N -> R] PROVE Body(g, i) \in R
  <2>1. CASE i > Len(s) BY <1>1, <1>2, <2>1
  <2>2. CASE ~(i > Len(s)) /\ (Halts(s, i, lengthGiven) \/ ~g[i + Skip(s, i)][1])
    BY <1>1, <1>2, <2>2
  <2>3. CASE ~(i > Len(s)) /\ ~(Halts(s, i, lengthGiven) \/ ~g[i + Skip(s, i)][1])
    <3>1. Body(g, i) = Next1(g, i) BY <1>2, <2>3
    <3>2. i + Skip(s, i) \in 1..N /\ EscapedChar(GetChar(s, i)) \in Seq(Nat) BY <1>3, <2>3
    <3>3. g[i + Skip(s, i)] \in R BY <3>2
    <3>4. g[i + Skip(s, i)][2] \in Seq(Nat) BY <3>3
    <3>5. EscapedChar(GetChar(s, i)) \o g[i + Skip(s, i)][2] \in Seq(Nat)
      BY <3>2, <3>4, ConcatProperties
    <3>6. \A w \in Seq(Nat) : <<TRUE, w>> \in R OBVIOUS
    <3>7. Next1(g, i) \in R BY Zenon, <3>5, <3>6 DEF Next1
    <3> QED BY <3>1, <3>7
  <2> QED BY <2>1, <2>2, <2>3
<1>5. ASSUME NEW i \in 1..N, NEW g \in [1..N -> R], NEW h \in [1..N -> R],
             \A j \in 1..N : j > i => g[j] = h[j]
      PROVE  Body(g, i) = Body(h, i)
  <2>1. CASE i > Len(s) BY <1>2, <2>1
  <2>2. CASE ~(i > Len(s)) /\ Halts(s, i, lengthGiven) BY <1>2, <2>2
  <2>3. CASE ~(i > Len(s)) /\ ~Halts(s, i, lengthGiven)
    <3>1. i + Skip(s, i) \in 1..N /\ i + Skip(s, i) > i BY <1>3, <2>3
    <3>2. g[i + Skip(s, i)] = h[i + Skip(s, i)] BY <1>5, <3>1
    <3>3. Next1(g, i) = Next1(h, i) BY <3>2 DEF Next1
    <3> QED BY <1>2, <2>3, <3>2, <3>3
  <2> QED BY <2>1, <2>2, <2>3
<1> HIDE DEF R
<1>6. \A i \in 1..N : \A g \in [1..N -> R] : Body(g, i) \in R /\ F[i][g] = Body(g, i)
  BY <1>4
<1>7. F \in [1..N -> [[1..N -> R] -> R]] BY <1>6
<1>8. \A i \in 1..N : \A g, h \in [1..N -> R] :
        (\A j \in 1..N : j > i => g[j] = h[j]) => F[i][g] = F[i][h]
  BY <1>5, <1>6
<1> HIDE DEF F
<1>9. LooksAhead(N, R, F) BY <1>7, <1>8 DEF LooksAhead
<1>10. Solvable(N, R, F) BY <1>1, <1>9, Recursion
<1>11. PICK f \in [1..N -> R] : \A i \in 1..N : f[i] = F[i][f] BY <1>10 DEF Solvable
<1>12. f = [i \in 1..N |-> Body(f, i)] BY <1>6, <1>11
<1> DEFINE V == CHOOSE g : g = [i \in 1..N |-> Body(g, i)]
<1>13. V = f /\ V = [i \in 1..N |-> Body(V, i)]
  <2>1. V = [i \in 1..N |-> Body(V, i)] BY <1>12
  <2>2. ASSUME NEW g, g = [i \in 1..N |-> Body(g, i)] PROVE g = f
    <3> DEFINE S == {i \in 1..N : g[i] = f[i]}
    <3>1. ASSUME NEW i \in 1..N, \A j \in 1..N : j > i => j \in S PROVE i \in S
      <4>1. \A j \in 1..N : j > i => g[j] = f[j] BY <3>1
      <4>2. g[i] = Body(g, i) /\ f[i] = Body(f, i) BY <1>12, <2>2
      <4>3. Body(g, i) = Body(f, i)
        <5>1. CASE i > Len(s) BY <1>2, <5>1
        <5>2. CASE ~(i > Len(s)) /\ Halts(s, i, lengthGiven) BY <1>2, <5>2
        <5>3. CASE ~(i > Len(s)) /\ ~Halts(s, i, lengthGiven)
          <6>1. i + Skip(s, i) \in 1..N /\ i + Skip(s, i) > i BY <1>3, <5>3
          <6>2. g[i + Skip(s, i)] = f[i + Skip(s, i)] BY <4>1, <6>1
          <6>3. Next1(g, i) = Next1(f, i) BY <6>2 DEF Next1
          <6> QED BY <1>2, <5>3, <6>2, <6>3
        <5> QED BY <5>1, <5>2, <5>3
      <4> QED BY <4>2, <4>3
    <3>2. \A i \in 1..N : (\A j \in 1..N : j > i => j \in S) => i \in S BY <3>1
    <3> HIDE DEF S
    <3>3. N \in Nat BY <1>1
    <3>4. \A i \in 1..N : i \in S BY <3>2, <3>3, Backwards
    <3>5. \A i \in 1..N : g[i] = f[i] BY <3>4 DEF S
    <3>6. g = [i \in 1..N |-> g[i]] BY <2>2
    <3> QED BY <3>5, <3>6
  <2> QED BY <2>1, <2>2
<1>14. EscapeFrom(s, lengthGiven) = V BY DEF EscapeFrom, N, Body, EscapeBody
<1> HIDE DEF V
<1> QED BY <1>13, <1>14 DEF N, R, Body
-----------------------------------------------------------------------------
(* An accepted character can be escaped: it is 0 only where it is a null.  *)
LEMMA NotHalted ==
  ASSUME NEW s \in Seq(Byte), NEW i \in 1..Len(s), NEW n \in 1..4, n = SequenceLen(s[i]),
         i + n - 1 <= Len(s), ValidChar(s, i, n, TRUE)
  PROVE  ~Halts(s, i, TRUE)
<1> DEFINE c == GetChar(s, i)   a == s[i]   b == s[i + 1]   d == s[i + 2]   e == s[i + 3]
<1>1. /\ n = 1 => c = a
      /\ n = 2 => c = Code2(a, b)
  BY SMT, GetCharIs
<1>2. /\ n = 2 => Sound2(b, c, TRUE)
      /\ n = 3 => Sound3(b, d, c)
      /\ n = 4 => Sound4(b, d, e, c)
  BY Zenon, ValidCharIs
<1>3. a \in Byte /\ n = SequenceLen(a) OBVIOUS
<1>4. ~(SequenceLen(s[i]) > Len(s) - i + 1) BY SMT
<1> HIDE DEF a, b, c, d, e
<1>5. c = 0 => a = 0 \/ (a = 192 /\ b = 128)
  <2>1. CASE n = 1 BY <1>1, <2>1
  <2>2. CASE n = 2
    <3>0. SequenceLen(a) = 2 BY <1>3, <2>2
    <3>1. a \in 192..223 BY ONLY <1>3, <3>0, LenGives
    <3>2. b \in 128..191 BY <1>2, <2>2 DEF Sound2
    <3>3. Code2(a, b) = 0 => a = 192 /\ b = 128 BY ONLY SMT, <3>1, <3>2 DEF Code2
    <3> QED BY <1>1, <2>2, <3>3
  <2>3. CASE n = 3
    <3>1. ~Long(0) BY SMT DEF Long
    <3> QED BY <1>2, <2>3, <3>1 DEF Sound3
  <2>4. CASE n = 4
    <3>1. ~Sound4(b, d, e, 0) BY SMT DEF Sound4
    <3> QED BY <1>2, <2>4, <3>1
  <2>5. n \in {1, 2, 3, 4} BY SMT
  <2> QED BY <2>1, <2>2, <2>3, <2>4, <2>5
<1> QED BY Zenon, <1>4, <1>5 DEF Halts, a, b, c

LEMMA CleanEmpty == <<>> \in Seq(Nat) /\ Clean(<<>>)
BY SMT DEF Clean

(* From a position on, what is accepted, spelled and escaped.              *)
Agrees(s, i, validT, validF, spells, escape) ==
  /\ validT[i] <=> spells[i]
  /\ validF[i] <=> validT[i] /\ \A j \in 1..Len(s) : j >= i => s[j] \notin Marks
  /\ validT[i] => escape[i][1] /\ escape[i][2] \in Seq(Nat) /\ Clean(escape[i][2])

(* It holds at a position if it holds at the later ones.                   *)
LEMMA AgreesStep ==
  ASSUME NEW s \in Seq(Byte), NEW i \in 1..(Len(s) + 1),
         \A j \in 1..(Len(s) + 1) :
           j > i => Agrees(s, j, ValidFrom(s, TRUE), ValidFrom(s, FALSE),
                           SpellsFrom(s, Spelling(Unicode)), EscapeFrom(s, TRUE))
  PROVE  Agrees(s, i, ValidFrom(s, TRUE), ValidFrom(s, FALSE),
                SpellsFrom(s, Spelling(Unicode)), EscapeFrom(s, TRUE))
<1> DEFINE N == Len(s) + 1   n == SequenceLen(s[i])   c == GetChar(s, i)
           T == ValidFrom(s, TRUE)   F == ValidFrom(s, FALSE)
           P == SpellsFrom(s, Spelling(Unicode))   E == EscapeFrom(s, TRUE)
           Good(j) == Agrees(s, j, T, F, P, E)
           Fits1st(allow) == n # 0 /\ Len(s) - i + 1 >= n /\ ValidChar(s, i, n, allow)
<1>1. /\ T[i] <=> i > Len(s) \/ (Fits1st(TRUE) /\ T[i + n])
      /\ F[i] <=> i > Len(s) \/ (Fits1st(FALSE) /\ F[i + n])
  BY Zenon, ValidIs
<1>2. P[i] <=> i > Len(s) \/ \E m \in 1..4 : /\ i + m <= N
                                             /\ SubSeq(s, i, i + m - 1) \in Spelling(Unicode)
                                             /\ P[i + m]
  BY SpellsIs
<1>3. E[i] = IF i > Len(s) THEN <<TRUE, <<>>>>
             ELSE IF Halts(s, i, TRUE) \/ ~E[i + Skip(s, i)][1] THEN <<FALSE, <<>>>>
             ELSE <<TRUE, EscapedChar(c) \o E[i + Skip(s, i)][2]>>
  BY EscapeIs, EscapeBodyIs
<1>4. \A j \in 1..N : j > i => Good(j) OBVIOUS
<1> SUFFICES Good(i) OBVIOUS
<1> HIDE DEF T, F, P, E
<1>5. CASE i > Len(s)
  <2>1. \A j \in 1..Len(s) : ~(j >= i) BY SMT, <1>5
  <2>2. E[i] = <<TRUE, <<>>>> BY <1>3, <1>5
  <2>3. E[i][1] /\ E[i][2] = <<>> BY SMT, <2>2
  <2> QED BY <1>1, <1>2, <1>5, <2>1, <2>3, CleanEmpty DEF Agrees
<1>6. CASE ~(i > Len(s))
  <2>1. i \in 1..Len(s) /\ s[i] \in Byte BY SMT, <1>6
  <2>2. n \in 0..4 BY ONLY <2>1, LenIs
  <2> HIDE DEF n
  <2>3. ASSUME n # 0, Len(s) - i + 1 >= n
        PROVE  /\ n \in 1..4 /\ i + n - 1 <= Len(s) /\ i + n \in 1..N /\ i + n > i
               /\ ValidChar(s, i, n, TRUE) <=> SubSeq(s, i, i + n - 1) \in Spelling(Unicode)
               /\ ValidChar(s, i, n, FALSE)
                    <=> ValidChar(s, i, n, TRUE) /\ \A k \in 0..(n - 1) : s[i + k] \notin Marks
               /\ Good(i + n)
    <3>1. n \in 1..4 /\ i + n - 1 <= Len(s) /\ i + n \in 1..N /\ i + n > i
      BY SMT, <2>1, <2>2, <2>3
    <3>2. n = SequenceLen(s[i]) BY DEF n
    <3>3. /\ ValidChar(s, i, n, TRUE) <=> SubSeq(s, i, i + n - 1) \in Spelling(Unicode)
          /\ ValidChar(s, i, n, FALSE)
               <=> ValidChar(s, i, n, TRUE) /\ \A k \in 0..(n - 1) : s[i + k] \notin Marks
      BY <2>1, <3>1, <3>2, CharSpells
    <3>4. Good(i + n) BY <1>4, <3>1
    <3> QED BY <3>1, <3>3, <3>4
  <2>4. T[i] <=> P[i]
    <3>1. ASSUME T[i] PROVE P[i]
      <4>1. Fits1st(TRUE) /\ T[i + n] BY <1>1, <1>6, <3>1
      <4>2. n \in 1..4 /\ i + n - 1 <= Len(s) /\ Good(i + n)
            /\ SubSeq(s, i, i + n - 1) \in Spelling(Unicode)
        BY <2>3, <4>1
      <4>3. P[i + n] BY <4>1, <4>2 DEF Agrees
      <4>4. i + n <= N BY SMT, <2>1, <4>2
      <4> QED BY <1>2, <4>2, <4>3, <4>4
    <3>2. ASSUME P[i] PROVE T[i]
      <4>1. PICK m \in 1..4 : /\ i + m <= N
                              /\ SubSeq(s, i, i + m - 1) \in Spelling(Unicode)
                              /\ P[i + m]
        BY <1>2, <1>6, <3>2
      <4>2. i + m - 1 <= Len(s) BY SMT, <2>1, <4>1
      <4>3. m = n BY <2>1, <4>1, <4>2, CharLen DEF n
      <4>4. n # 0 /\ Len(s) - i + 1 >= n BY SMT, <2>1, <4>1, <4>2, <4>3
      <4>5. ValidChar(s, i, n, TRUE) /\ Good(i + n) BY <2>3, <4>1, <4>3, <4>4
      <4>6. T[i + n] BY <4>1, <4>3, <4>5 DEF Agrees
      <4> QED BY <1>1, <4>4, <4>5, <4>6
    <3> QED
      <4>1. T \in [1..N -> BOOLEAN] BY ValidIs DEF T
      <4>2. P \in [1..N -> BOOLEAN] BY SpellsIs DEF P
      <4>3. T[i] \in BOOLEAN /\ P[i] \in BOOLEAN BY <4>1, <4>2
      <4> QED BY <3>1, <3>2, <4>3
  <2>5. F[i] <=> T[i] /\ \A j \in 1..Len(s) : j >= i => s[j] \notin Marks
    <3>1. ASSUME n # 0, Len(s) - i + 1 >= n
          PROVE  (\A j \in 1..Len(s) : j >= i => s[j] \notin Marks)
                   <=> /\ \A k \in 0..(n - 1) : s[i + k] \notin Marks
                       /\ \A j \in 1..Len(s) : j >= i + n => s[j] \notin Marks
      <4>1. n \in 1..4 /\ i + n - 1 <= Len(s) BY <2>3, <3>1
      <4>2. ASSUME \A j \in 1..Len(s) : j >= i => s[j] \notin Marks, NEW k \in 0..(n - 1)
            PROVE  s[i + k] \notin Marks
        <5>1. i + k \in 1..Len(s) /\ i + k >= i BY SMT, <2>1, <4>1
        <5> QED BY <4>2, <5>1
      <4>3. ASSUME \A j \in 1..Len(s) : j >= i => s[j] \notin Marks, NEW j \in 1..Len(s),
                   j >= i + n
            PROVE  s[j] \notin Marks
        <5>1. j >= i BY SMT, <2>1, <4>1, <4>3
        <5> QED BY <4>3, <5>1
      <4>4. ASSUME \A k \in 0..(n - 1) : s[i + k] \notin Marks,
                   \A j \in 1..Len(s) : j >= i + n => s[j] \notin Marks,
                   NEW j \in 1..Len(s), j >= i
            PROVE  s[j] \notin Marks
        <5>1. CASE j >= i + n BY <4>4, <5>1
        <5>2. CASE ~(j >= i + n)
          <6>1. j - i \in 0..(n - 1) /\ i + (j - i) = j BY SMT, <2>1, <4>1, <4>4, <5>2
          <6> QED BY <4>4, <6>1
        <5> QED BY <5>1, <5>2
      <4> QED BY <4>2, <4>3, <4>4
    <3>2. Good(i + n) => (F[i + n] <=> /\ T[i + n]
                                       /\ \A j \in 1..Len(s) : j >= i + n => s[j] \notin Marks)
      BY DEF Agrees
    <3> QED BY Zenon, <1>1, <1>6, <2>3, <3>1, <3>2
  <2>6. ASSUME T[i] PROVE E[i][1] /\ E[i][2] \in Seq(Nat) /\ Clean(E[i][2])
    <3>1. Fits1st(TRUE) /\ T[i + n] BY <1>1, <1>6, <2>6
    <3>2. n \in 1..4 /\ i + n - 1 <= Len(s) /\ Good(i + n) BY <2>3, <3>1
    <3>3. ~Halts(s, i, TRUE) BY <2>1, <3>1, <3>2, NotHalted DEF n
    <3>4. Skip(s, i) = n BY <2>1, <3>3, SkipsOne DEF n
    <3>a. n = SequenceLen(s[i]) BY DEF n
    <3>b. c \in Nat /\ c <= 2097151 BY SMT, <2>1, <3>2, <3>a, CharRange
    <3>5. E[i + n][1] /\ E[i + n][2] \in Seq(Nat) /\ Clean(E[i + n][2])
      BY <3>1, <3>2 DEF Agrees
    <3> DEFINE w == EscapedChar(c) \o E[i + n][2]
    <3>6. EscapedChar(c) \in Seq(Nat) /\ Clean(EscapedChar(c)) BY ONLY SMT, <3>b, EscapedCharIs
    <3>7. w \in Seq(Nat) /\ Clean(w) BY <3>5, <3>6, CleanConcat
    <3>8. E[i] = <<TRUE, w>> BY Zenon, <1>3, <1>6, <3>3, <3>4, <3>5
    <3> HIDE DEF w
    <3>9. E[i][1] /\ E[i][2] = w BY ONLY SMT, <3>8
    <3> QED BY <3>7, <3>9
  <2> QED BY Zenon, <2>4, <2>5, <2>6 DEF Agrees
<1> QED BY <1>5, <1>6

(* Over all bytes and all code points. *)
LEMMA AllAgree == \A s \in Seq(Byte) : Utf8Agrees(s, Spelling(Unicode))
<1> SUFFICES ASSUME NEW s \in Seq(Byte) PROVE Utf8Agrees(s, Spelling(Unicode))
  OBVIOUS
<1> DEFINE T == ValidFrom(s, TRUE)   F == ValidFrom(s, FALSE)
           P == SpellsFrom(s, Spelling(Unicode))   E == EscapeFrom(s, TRUE)
           N == Len(s) + 1
           S == {i \in 1..N : Agrees(s, i, T, F, P, E)}
<1>1. \A i \in 1..N : (\A j \in 1..N : j > i => j \in S) => i \in S BY AgreesStep
<1>2. N \in Nat /\ 1 \in 1..N BY SMT
<1> HIDE DEF S, N
<1>3. \A i \in 1..N : i \in S BY <1>1, <1>2, Backwards
<1>4. Agrees(s, 1, T, F, P, E) BY <1>2, <1>3 DEF S
<1>5. (\A j \in 1..Len(s) : j >= 1 => s[j] \notin Marks)
        <=> ~\E j \in DOMAIN s : s[j] \in {0, 192}
  <2>1. DOMAIN s = 1..Len(s) BY LenProperties
  <2>2. \A j \in 1..Len(s) : j >= 1 BY SMT
  <2> QED BY <2>1, <2>2 DEF Marks
<1>6. /\ T[1] <=> P[1]
      /\ F[1] <=> P[1] /\ ~\E j \in DOMAIN s : s[j] \in {0, 192}
      /\ P[1] => E[1][1] /\ Clean(E[1][2])
  BY Zenon, <1>4, <1>5 DEF Agrees
<1> QED BY Zenon, <1>6 DEF Utf8Agrees, Utf8Valid, EscapeForJson

(* The code points that strings of some of the bytes can spell suffice.    *)
LEMMA SpelledBy ==
  ASSUME NEW w \in Seq(Utf8Bytes)
  PROVE  w \in AllSpelling <=> w \in Spelling(Unicode)
<1> DEFINE Some == {d \in CodePoints : ~Surrogate(d)}   All == {d \in Unicode : ~Surrogate(d)}
<1>1. LastCodePoint \in Nat BY SMT DEF LastCodePoint
<1>2. \A c : c \in 0..LastCodePoint <=> c \in Unicode
  <2>1. \A c : c \in 0..LastCodePoint <=> c \in Nat /\ c <= LastCodePoint BY SMT, <1>1
  <2>2. \A c \in Nat : c <= LastCodePoint <=> c <= 1114111 BY SMT DEF LastCodePoint
  <2>3. \A c : c \in Unicode <=> c \in Nat /\ c <= 1114111 BY SMT DEF Unicode
  <2> QED BY SMT, <2>1, <2>2, <2>3
<1>3. Some \subseteq All BY <1>2, Utf8Assumption DEF Utf8Assumption
<1>4. ASSUME NEW c \in All, w = FromUnichar(c) PROVE c \in Some
  <2>1. \A i \in DOMAIN w : w[i] \in Utf8Bytes BY ElementOfSeq, LenProperties
  <2>2. c \in CodePoints BY <1>2, <1>4, <2>1, Utf8Assumption DEF Utf8Assumption
  <2> QED BY <1>4, <2>2
<1>5. AllSpelling = {FromUnichar(c) : c \in Some} \union {<<192, 128>>}
  BY DEF AllSpelling, Spelling
<1>6. Spelling(Unicode) = {FromUnichar(c) : c \in All} \union {<<192, 128>>} BY DEF Spelling
<1> HIDE DEF Some, All
<1> QED BY Zenon, <1>3, <1>4, <1>5, <1>6

LEMMA SpelledAlike ==
  ASSUME NEW s \in Seq(Utf8Bytes), s \in Seq(Byte)
  PROVE  SpellsFrom(s, AllSpelling)[1] <=> SpellsFrom(s, Spelling(Unicode))[1]
<1> DEFINE P == SpellsFrom(s, AllSpelling)   Q == SpellsFrom(s, Spelling(Unicode))
           N == Len(s) + 1
           S == {i \in 1..N : P[i] <=> Q[i]}
<1>1. \A i \in 1..N : P[i] <=> i > Len(s) \/ \E n \in 1..4 :
                                             /\ i + n <= N
                                             /\ SubSeq(s, i, i + n - 1) \in AllSpelling
                                             /\ P[i + n]
  BY SpellsIs
<1>2. \A i \in 1..N : Q[i] <=> i > Len(s) \/ \E n \in 1..4 :
                                             /\ i + n <= N
                                             /\ SubSeq(s, i, i + n - 1) \in Spelling(Unicode)
                                             /\ Q[i + n]
  BY SpellsIs
<1> HIDE DEF P, Q
<1>3. ASSUME NEW i \in 1..N, \A j \in 1..N : j > i => j \in S PROVE i \in S
  <2>1. ASSUME NEW n \in 1..4, i + n <= N
        PROVE  /\ SubSeq(s, i, i + n - 1) \in AllSpelling
                    <=> SubSeq(s, i, i + n - 1) \in Spelling(Unicode)
               /\ P[i + n] <=> Q[i + n]
    <3>1. i + n \in 1..N /\ i + n > i BY <2>1
    <3>2. SubSeq(s, i, i + n - 1) \in Seq(Utf8Bytes) BY <2>1, SubSeqProperties
    <3> QED BY <1>3, <3>1, <3>2, SpelledBy
  <2>2. P[i] <=> Q[i] BY <1>1, <1>2, <2>1
  <2> QED BY <2>2
<1>4. N \in Nat /\ 1 \in 1..N BY SMT
<1> HIDE DEF S, N
<1>5. \A i \in 1..N : i \in S BY <1>3, <1>4, Backwards
<1> QED BY <1>4, <1>5 DEF S, P, Q

(* bson-utf8.c: of all strings of bytes, bson_utf8_validate accepts        *)
(* exactly those that spell code points that are neither surrogates nor    *)
(* too large, a 0 in either of its forms only where nulls are allowed; and *)
(* every accepted string can be escaped by bson_utf8_escape_for_json,      *)
(* after which a control character stands only in a \u and a quote only    *)
(* behind a backslash.                                                     *)
THEOREM Utf8IsSound == utf8 \in Seq(Utf8Bytes) => Utf8Sound
<1> SUFFICES ASSUME utf8 \in Seq(Utf8Bytes) PROVE Utf8Sound OBVIOUS
<1>1. utf8 \in Seq(Byte)
  <2>1. Utf8Bytes \subseteq Byte BY ONLY Utf8Assumption DEF Utf8Assumption, Byte
  <2> QED BY <2>1, SeqMonotonic
<1>2. Utf8Agrees(utf8, Spelling(Unicode)) BY <1>1, AllAgree
<1>3. SpellsFrom(utf8, AllSpelling)[1] <=> SpellsFrom(utf8, Spelling(Unicode))[1]
  BY <1>1, SpelledAlike
<1> QED BY Zenon, <1>2, <1>3 DEF Utf8Sound, Utf8Agrees
=============================================================================
