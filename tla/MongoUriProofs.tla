--------------------------- MODULE MongoUriProofs ---------------------------
(***************************************************************************)
(* What mongo_dns.c and mongo_uri.c keep: a name that was written into a   *)
(* message is read back, for any labels, any pointers and any sizes of the *)
(* guards; the queries of one mongo_uri_parse have the reply to themselves,*)
(* for every packet that may arrive and every id; and what a parse accepts *)
(* of any connection string is what its options and records say.           *)
(***************************************************************************)
EXTENDS DnsName, MongoUri, WellFoundedInduction, SequenceTheorems, TLAPS
-----------------------------------------------------------------------------
(***************************************************************************)
(* The code's loops are recursive functions and folds in the model.  That  *)
(* such a function exists, and what holds after k turns, is proved by      *)
(* induction over k: as the least k at which it would be false.            *)
(***************************************************************************)
LEMMA LeastNatural ==
  ASSUME NEW T \in SUBSET Nat, T # {} PROVE \E x \in T : \A y \in T : x <= y
<1> DEFINE R == OpToRel(<, Nat)
<1>1. IsWellFoundedOn(R, Nat) BY NatLessThanWellFounded
<1>2. \A x, y \in Nat : x < y => <<x, y>> \in R BY DEF OpToRel
<1> HIDE DEF R
<1>3. PICK x \in T : \A y \in T : ~(<<y, x>> \in R) BY <1>1, WFMin
<1>4. \A y \in T : ~(y < x) BY <1>2, <1>3
<1> QED BY <1>3, <1>4

LEMMA UpTo ==
  ASSUME NEW n \in Nat, NEW S, 0 \in S, \A k \in 1..n : k - 1 \in S => k \in S
  PROVE  \A k \in 0..n : k \in S
<1> DEFINE T == {k \in 0..n : k \notin S}
<1> SUFFICES ASSUME T # {} PROVE FALSE OBVIOUS
<1>1. T \in SUBSET Nat OBVIOUS
<1>2. PICK x \in T : \A y \in T : x <= y BY <1>1, LeastNatural
<1>3. x \in 1..n BY <1>2
<1>4. x - 1 \in 0..n /\ ~(x <= x - 1) BY <1>3
<1>5. x - 1 \in S BY <1>2, <1>4
<1> QED BY <1>2, <1>3, <1>5

LEMMA MaxUpTo == ASSUME NEW k \in Nat \ {0} PROVE Max(1..k) = k
<1>1. k \in 1..k /\ \A y \in 1..k : k >= y OBVIOUS
<1>2. \A x \in 1..k : (\A y \in 1..k : x >= y) => x = k OBVIOUS
<1> QED BY <1>1, <1>2 DEF Max

LEMMA MaxWithin ==
  ASSUME NEW n \in Nat, NEW t \in SUBSET (1..n), t # {} PROVE Max(t) \in t
<1> DEFINE T == {j \in 0..n : \E x \in t : x = n - j}
<1>1. T \in SUBSET Nat /\ T # {}
  <2>1. PICK x \in t : TRUE OBVIOUS
  <2>2. n - x \in 0..n /\ x = n - (n - x) OBVIOUS
  <2>3. n - x \in T BY <2>2
  <2>4. T \in SUBSET Nat OBVIOUS
  <2> HIDE DEF T
  <2> QED BY <2>3, <2>4
<1>2. PICK j \in T : \A y \in T : j <= y BY <1>1, LeastNatural
<1>3. PICK x \in t : x = n - j BY <1>2
<1>4. ASSUME NEW y \in t PROVE x >= y
  <2>1. n - y \in 0..n /\ y = n - (n - y) OBVIOUS
  <2>2. n - y \in T BY <2>1
  <2>3. j <= n - y /\ j \in 0..n BY <1>2, <2>2
  <2> QED BY <1>3, <2>3
<1> QED BY <1>4 DEF Max

(* A fold over the sets of indices, whose values are in A, exists: of      *)
(* 1..(k + 1) once of 1..k.                                                *)
Folds(A, B, op, u, s, k) ==
  \E it \in [SUBSET (1..k) -> A] :
    \A t \in SUBSET (1..k) : it[t] = IF t = {} THEN u ELSE op[<<it[t \ {Max(t)}], s[Max(t)]>>]

LEMMA FoldExists ==
  ASSUME NEW A, NEW B, NEW op \in [A \X B -> A], NEW u \in A, NEW s \in Seq(B)
  PROVE  Folds(A, B, op, u, s, Len(s))
<1> DEFINE S == {k \in 0..Len(s) : Folds(A, B, op, u, s, k)}
<1>1. 0 \in S
  <2> DEFINE it == [t \in SUBSET (1..0) |-> u]
  <2>1. it \in [SUBSET (1..0) -> A] /\ \A t \in SUBSET (1..0) : it[t] = u OBVIOUS
  <2>2. \A t \in SUBSET (1..0) : t = {} OBVIOUS
  <2> HIDE DEF it
  <2>3. \A t \in SUBSET (1..0) : it[t] = IF t = {} THEN u ELSE op[<<it[t \ {Max(t)}], s[Max(t)]>>]
    BY <2>1, <2>2
  <2>4. Folds(A, B, op, u, s, 0) BY <2>1, <2>3, Zenon DEF Folds
  <2> QED BY <2>4
<1>2. ASSUME NEW k \in 1..Len(s), k - 1 \in S PROVE k \in S
  <2>1. PICK f \in [SUBSET (1..(k - 1)) -> A] : \A t \in SUBSET (1..(k - 1)) :
          f[t] = IF t = {} THEN u ELSE op[<<f[t \ {Max(t)}], s[Max(t)]>>]
    BY <1>2 DEF Folds
  <2>2. s[k] \in B /\ k - 1 \in Nat OBVIOUS
  <2>3. \A t \in SUBSET (1..k) : t \ {k} \in SUBSET (1..(k - 1)) OBVIOUS
  <2> DEFINE g == [t \in SUBSET (1..k) |-> IF k \in t THEN op[<<f[t \ {k}], s[k]>>] ELSE f[t]]
  <2>4. \A t \in SUBSET (1..k) : k \notin t => t \in SUBSET (1..(k - 1)) OBVIOUS
  <2>5. \A t \in SUBSET (1..k) : (IF k \in t THEN op[<<f[t \ {k}], s[k]>>] ELSE f[t]) \in A
    BY <2>1, <2>2, <2>3, <2>4
  <2>6. g \in [SUBSET (1..k) -> A] BY <2>5
  <2>7. \A t \in SUBSET (1..k) : g[t] = IF k \in t THEN op[<<f[t \ {k}], s[k]>>] ELSE f[t] OBVIOUS
  <2> HIDE DEF g
  <2>8. \A t \in SUBSET (1..(k - 1)) : t \in SUBSET (1..k) /\ k \notin t /\ g[t] = f[t]
    <3>1. \A t \in SUBSET (1..(k - 1)) : t \in SUBSET (1..k) /\ k \notin t OBVIOUS
    <3> QED BY <2>7, <3>1
  <2>9. ASSUME NEW t \in SUBSET (1..k)
        PROVE  g[t] = IF t = {} THEN u ELSE op[<<g[t \ {Max(t)}], s[Max(t)]>>]
    <3>1. CASE k \in t
      <4>1. Max(t) = k
        <5>1. \A y \in t : k >= y OBVIOUS
        <5>2. \A x \in t : (\A y \in t : x >= y) => x = k BY <3>1
        <5> QED BY <3>1, <5>1, <5>2 DEF Max
      <4>2. g[t \ {k}] = f[t \ {k}] BY <2>3, <2>8
      <4> QED BY <2>7, <3>1, <4>1, <4>2
    <3>2. CASE k \notin t
      <4>1. t \in SUBSET (1..(k - 1)) BY <2>4, <3>2
      <4>2. t \ {Max(t)} \in SUBSET (1..(k - 1)) BY <4>1
      <4> QED BY <2>1, <2>8, <4>1, <4>2
    <3> QED BY <3>1, <3>2
  <2>10. Folds(A, B, op, u, s, k) BY <2>6, <2>9, Zenon DEF Folds
  <2>11. k \in 0..Len(s) OBVIOUS
  <2> QED BY <2>10, <2>11
<1> HIDE DEF S
<1>3. Len(s) \in Nat OBVIOUS
<1>4. \A k \in 0..Len(s) : k \in S BY <1>1, <1>2, <1>3, UpTo
<1> QED BY <1>3, <1>4 DEF S

(* A prefix of the indices has its length as its greatest, and its         *)
(* predecessor without it.                                                 *)
LEMMA InitialSets ==
  ASSUME NEW n \in Nat, NEW k \in 1..n
  PROVE  1..k \in SUBSET (1..n) /\ 1..k # {} /\ Max(1..k) = k /\ (1..k) \ {Max(1..k)} = 1..(k - 1)
<1>1. k \in Nat \ {0} OBVIOUS
<1>2. Max(1..k) = k BY <1>1, MaxUpTo
<1>3. (1..k) \ {k} = 1..(k - 1) /\ 1..k \in SUBSET (1..n) /\ 1..k # {} OBVIOUS
<1>4. (1..k) \ {Max(1..k)} = (1..k) \ {k} BY <1>2, Zenon
<1> QED BY <1>2, <1>3

(* A loop that goes on from `go' only, and by whose turns a number below   *)
(* N goes down, is a function.                                             *)
Loops(D, R, go, next, val, f) ==
  f \in [D -> R] /\ \A d \in D : f[d] = IF d \in go THEN f[next[d]] ELSE val[d]

LEMMA LoopExists ==
  ASSUME NEW D, NEW R, NEW N \in Nat, NEW rank \in [D -> 0..N], NEW go \in SUBSET D,
         NEW next \in [go -> D], NEW val \in [D -> R],
         \A d \in go : rank[next[d]] < rank[d]
  PROVE  \E f : Loops(D, R, go, next, val, f)
<1> DEFINE Below(k) == {d \in D : rank[d] <= k}
           Upto(k, f) == /\ f \in [Below(k) -> R]
                         /\ \A d \in Below(k) : f[d] = IF d \in go THEN f[next[d]] ELSE val[d]
           S == {k \in 0..N : \E f : Upto(k, f)}
<1>1. \A d \in D : rank[d] \in 0..N OBVIOUS
<1>2. \A d \in go : d \in D /\ next[d] \in D OBVIOUS
<1>3. 0 \in S
  <2> DEFINE f == [d \in Below(0) |-> val[d]]
  <2>1. \A d \in Below(0) : d \notin go
    <3> SUFFICES ASSUME NEW d \in Below(0), d \in go PROVE FALSE OBVIOUS
    <3>1. rank[next[d]] < rank[d] /\ rank[next[d]] \in 0..N /\ rank[d] <= 0 BY <1>1, <1>2
    <3> QED BY <3>1
  <2>2. Upto(0, f) BY <2>1
  <2> HIDE DEF Upto, f
  <2>3. 0 \in 0..N OBVIOUS
  <2> QED BY <2>2, <2>3
<1>4. ASSUME NEW k \in 1..N, k - 1 \in S PROVE k \in S
  <2>1. PICK f : Upto(k - 1, f) BY <1>4
  <2> DEFINE g == [d \in Below(k) |-> IF rank[d] <= k - 1 THEN f[d]
                                      ELSE IF d \in go THEN f[next[d]] ELSE val[d]]
  <2>2. ASSUME NEW d \in go, d \in Below(k) PROVE next[d] \in Below(k - 1)
    <3>1. rank[next[d]] < rank[d] /\ rank[d] <= k BY <2>2
    <3>2. rank[next[d]] \in 0..N /\ rank[d] \in 0..N /\ next[d] \in D BY <1>1, <1>2
    <3> QED BY <3>1, <3>2
  <2>3. \A d \in Below(k - 1) : d \in Below(k) /\ g[d] = f[d]
    <3> SUFFICES ASSUME NEW d \in Below(k - 1) PROVE d \in Below(k) /\ g[d] = f[d] OBVIOUS
    <3>1. rank[d] \in 0..N /\ rank[d] <= k - 1 BY <1>1
    <3>2. d \in Below(k) BY <3>1
    <3> QED BY <3>1, <3>2
  <2>4. ASSUME NEW d \in Below(k)
        PROVE  g[d] \in R /\ g[d] = IF d \in go THEN g[next[d]] ELSE val[d]
    <3>1. CASE rank[d] <= k - 1
      <4>1. d \in Below(k - 1) BY <3>1
      <4>2. f[d] \in R /\ f[d] = IF d \in go THEN f[next[d]] ELSE val[d] BY <2>1, <4>1
      <4>3. d \in go => g[next[d]] = f[next[d]] BY <2>2, <2>3
      <4>4. g[d] = f[d] BY <2>3, <4>1
      <4> HIDE DEF g
      <4> QED BY <4>2, <4>3, <4>4
    <3>2. CASE ~(rank[d] <= k - 1)
      <4>1. g[d] = IF d \in go THEN f[next[d]] ELSE val[d] BY <3>2
      <4>2. d \in go => g[next[d]] = f[next[d]] /\ f[next[d]] \in R BY <2>1, <2>2, <2>3
      <4>3. val[d] \in R OBVIOUS
      <4> HIDE DEF g
      <4> QED BY <4>1, <4>2, <4>3
    <3> QED BY <3>1, <3>2
  <2>5. g = [d \in Below(k) |-> g[d]] OBVIOUS
  <2> HIDE DEF g
  <2>6. Upto(k, g) BY <2>4, <2>5
  <2>7. k \in 0..N OBVIOUS
  <2> HIDE DEF Upto
  <2> QED BY <2>6, <2>7
<1> HIDE DEF S
<1>5. N \in S
  <2>1. \A k \in 0..N : k \in S BY <1>3, <1>4, UpTo
  <2> QED BY <2>1
<1>6. PICK f : Upto(N, f) BY <1>5 DEF S
<1>7. Below(N) = D BY <1>1
<1> QED BY <1>6, <1>7 DEF Loops

-----------------------------------------------------------------------------
(***************************************************************************)
(* decode_name.  Its loop takes a turn less each time: what it accepts,    *)
(* wherever it starts, fits and lies within the message.  Where labels lie,*)
(* it appends them; where a pointer leads, it goes on as from there: a     *)
(* name that is spelled from its place on (Spelled) is read back, or is    *)
(* refused when it is too long or takes too many turns.                    *)
(***************************************************************************)
(* The states of its loop, and its results.                                *)
Bytes == 0..255
Turns == [pos : Nat, text : Seq(Nat), n : Int, turns : 0..LoopGuard]
Results == [n : Int, text : Seq(Nat)]

LEMMA Limits == /\ MaxLabel \in 1..63 /\ LoopGuard \in Nat /\ NameCap \in Nat /\ NameCap >= 1
                /\ MaxLabels \in Nat /\ MaxMessage \in Nat /\ MaxMessage <= 16384
                /\ \A l \in Labels : l \in Seq(65..90) /\ Len(l) \in 1..MaxLabel
BY NameAssumption DEF NameAssumption

LEMMA ByteIs == ASSUME NEW m \in Seq(Bytes), NEW i \in 1..Len(m) PROVE m[i] \in Nat /\ m[i] <= 255
<1>1. m[i] \in Bytes OBVIOUS
<1>2. \A x \in Bytes : x \in Nat /\ x <= 255 BY DEF Bytes
<1> QED BY <1>1, <1>2

LEMMA LowBits == ASSUME NEW x \in Nat PROVE x % 64 \in 0..63
OBVIOUS

LEMMA Joined ==
  ASSUME NEW a \in Seq(Nat), NEW b \in Seq(Nat)
  PROVE  /\ a \o b \in Seq(Nat) /\ Len(a \o b) = Len(a) + Len(b)
         /\ \A i \in 1..Len(a) : (a \o b)[i] = a[i]
         /\ \A i \in 1..Len(b) : (a \o b)[Len(a) + i] = b[i]
OBVIOUS

(* The characters of the label at pos. *)
Chars(m, pos) == SubSeq(m, pos + 2, pos + 1 + m[pos + 1])
LEMMA CharsAre ==
  ASSUME NEW m \in Seq(Bytes), NEW pos \in Nat, pos < Len(m), pos + 1 + m[pos + 1] <= Len(m)
  PROVE  /\ m[pos + 1] \in Nat
         /\ Chars(m, pos) \in Seq(Nat) /\ Len(Chars(m, pos)) = m[pos + 1]
         /\ \A i \in 1..m[pos + 1] : Chars(m, pos)[i] = m[pos + 1 + i]
<1> DEFINE b == m[pos + 1]
           lo == pos + 2
           hi == pos + 1 + b
<1>1. b \in Nat /\ pos \in Nat /\ Len(m) \in Nat BY ByteIs
<1>2. \A i \in lo..hi : i \in 1..Len(m) BY <1>1
<1>3. \A i \in lo..hi : m[i] \in Nat BY <1>2, ByteIs
<1>4. lo \in Int /\ hi \in Int BY <1>1
<1>5. Chars(m, pos) = SubSeq(m, lo, hi) BY DEF Chars
<1>6. (lo <= hi => hi - lo + 1 = b) /\ (~(lo <= hi) => b = 0) /\ hi - lo + 1 = b BY <1>1
<1>7. \A i \in 1..b : lo + i - 1 = pos + 1 + i BY <1>1
<1> HIDE DEF b, lo, hi
<1>8. /\ SubSeq(m, lo, hi) \in Seq(Nat)
      /\ Len(SubSeq(m, lo, hi)) = IF lo <= hi THEN hi - lo + 1 ELSE 0
      /\ \A i \in 1..hi - lo + 1 : SubSeq(m, lo, hi)[i] = m[lo + i - 1]
  BY <1>3, <1>4, SubSeqProperties
<1>9. Len(Chars(m, pos)) = b BY <1>5, <1>6, <1>8
<1>10. \A i \in 1..b : Chars(m, pos)[i] = m[pos + 1 + i] BY <1>5, <1>6, <1>7, <1>8
<1> QED BY <1>1, <1>5, <1>8, <1>9, <1>10 DEF b

LEMMA DottedIs ==
  ASSUME NEW text \in Seq(Nat)
  PROVE  /\ Dotted(text) \in Seq(Nat)
         /\ Len(Dotted(text)) = IF text = <<>> THEN 0 ELSE Len(text) + 1
BY DEF Dotted, Dot

LEMMA ProceedIs ==
  ASSUME NEW m \in Seq(Bytes), NEW at \in Turns, NEW start \in Nat, NEW cap \in Nat,
         Proceeds(m, at, cap)
  PROVE  /\ Proceed(m, at, start) \in Turns /\ Proceed(m, at, start).turns = at.turns - 1
         /\ at.turns \in 1..LoopGuard
<1>1. /\ at.pos \in Nat /\ at.pos < Len(m) /\ at.text \in Seq(Nat) /\ at.n \in Int
      /\ at.turns \in 0..LoopGuard /\ at.turns > 0
  BY DEF Proceeds, Left, Turns
<1>2. at.turns \in 1..LoopGuard /\ at.turns - 1 \in 0..LoopGuard BY <1>1, Limits
<1>3. CASE IsPointer(m, at)
  <2>1. at.pos + 1 < Len(m) BY <1>3 DEF Proceeds
  <2>2. m[at.pos + 1] \in Nat /\ m[at.pos + 2] \in Nat BY <1>1, <2>1, ByteIs
  <2>3. (m[at.pos + 1] % 64) * 256 + m[at.pos + 2] \in Nat
    <3>1. m[at.pos + 1] % 64 \in 0..63 BY <2>2, LowBits
    <3> DEFINE high == m[at.pos + 1] % 64
    <3>2. high \in 0..63 /\ m[at.pos + 2] \in Nat BY <2>2, <3>1
    <3> HIDE DEF high
    <3>3. high * 256 + m[at.pos + 2] \in Nat BY <3>2
    <3> QED BY <3>3 DEF high
  <2>4. at.pos + 2 - start \in Int BY <1>1
  <2> QED BY <1>1, <1>2, <1>3, <2>3, <2>4 DEF Proceed, Follow, AtByte, Turns
<1>4. CASE ~IsPointer(m, at)
  <2>1. m[at.pos + 1] \in Nat /\ at.pos + 1 + m[at.pos + 1] <= Len(m)
    BY <1>1, <1>4, ByteIs DEF Proceeds, LabelFits
  <2>2. Chars(m, at.pos) \in Seq(Nat) BY <1>1, <2>1, CharsAre
  <2>3. Dotted(at.text) \o Chars(m, at.pos) \in Seq(Nat) BY <1>1, <2>2, DottedIs
  <2>4. Proceed(m, at, start) = AtByte(at.pos + 1 + m[at.pos + 1], Dotted(at.text) \o Chars(m, at.pos),
                                       at.n, at.turns - 1)
    BY <1>4 DEF Proceed, Take, Chars
  <2>5. at.pos + 1 + m[at.pos + 1] \in Nat BY <1>1, <2>1
  <2> QED BY <1>1, <1>2, <2>3, <2>4, <2>5 DEF AtByte, Turns
<1> QED BY <1>3, <1>4

LEMMA EndedIs ==
  ASSUME NEW m \in Seq(Bytes), NEW at \in Turns, NEW start \in Nat
  PROVE  Ended(m, at, start) \in Results
<1>1. at.pos \in Nat /\ at.text \in Seq(Nat) /\ at.n \in Int BY DEF Turns
<1>2. Fail \in Results BY DEF Fail, Results
<1> QED BY <1>1, <1>2 DEF Ended, Results

(* decode_name's result is that of its loop. *)
IsLoop(m, start, cap, f) ==
  \A at \in Turns : f[at] = IF Proceeds(m, at, cap) THEN f[Proceed(m, at, start)]
                            ELSE Ended(m, at, start)
LEMMA DecodeIs ==
  ASSUME NEW m \in Seq(Bytes), NEW start \in Nat, NEW cap \in Nat
  PROVE  \E f : /\ IsLoop(m, start, cap, f)
                /\ DecodeName(m, start, cap) = f[AtByte(start, <<>>, -1, LoopGuard)]
<1> DEFINE Body(f, at) == IF Proceeds(m, at, cap) THEN f[Proceed(m, at, start)] ELSE Ended(m, at, start)
           Solves(f) == f = [at \in Turns |-> Body(f, at)]
           chosen == CHOOSE f : Solves(f)
           rank == [at \in Turns |-> at.turns]
           go == {at \in Turns : Proceeds(m, at, cap)}
           next == [at \in go |-> Proceed(m, at, start)]
           val == [at \in Turns |-> Ended(m, at, start)]
<1>1. DecodeName(m, start, cap) = chosen[AtByte(start, <<>>, -1, LoopGuard)]
  BY DEF DecodeName, Turns
<1>2. rank \in [Turns -> 0..LoopGuard] BY DEF Turns
<1>3. next \in [go -> Turns] BY ProceedIs
<1>4. val \in [Turns -> Results] BY EndedIs
<1>5. ASSUME NEW d \in go PROVE rank[next[d]] < rank[d]
  <2>1. /\ Proceed(m, d, start) \in Turns /\ Proceed(m, d, start).turns = d.turns - 1
        /\ d.turns \in 1..LoopGuard
    BY ProceedIs
  <2>2. LoopGuard \in Nat BY Limits
  <2> QED BY <2>1, <2>2
<1>6. go \in SUBSET Turns OBVIOUS
<1>7. /\ \A at \in Turns : val[at] = Ended(m, at, start) /\ (at \in go <=> Proceeds(m, at, cap))
      /\ \A at \in go : next[at] = Proceed(m, at, start)
  OBVIOUS
<1> HIDE DEF rank, go, next, val
<1>8. PICK f : Loops(Turns, Results, go, next, val, f)
  <2>1. LoopGuard \in Nat BY Limits
  <2> QED BY <1>2, <1>3, <1>4, <1>5, <1>6, <2>1, LoopExists
<1>9. \A at \in Turns : f[at] = Body(f, at) BY <1>7, <1>8 DEF Loops
<1>10. Solves(f) BY <1>8, <1>9 DEF Loops
<1>11. Solves(chosen) BY <1>10
<1>12. \A at \in Turns : chosen[at] = Body(chosen, at) BY <1>11
<1> HIDE DEF chosen
<1> QED BY <1>1, <1>12 DEF IsLoop

(* What the loop keeps: the text fits, and the bytes to skip, once known,  *)
(* lie in the message; before, the place itself does not lie behind start. *)
Keeps(m, at, start, cap) ==
  /\ Len(at.text) < cap
  /\ IF at.n < 0 THEN at.pos >= start ELSE at.n \in 1..(Len(m) - start)

LEMMA StaysInside ==
  ASSUME NEW m \in Seq(Bytes), NEW start \in Nat, start <= Len(m), NEW cap \in Nat, cap >= 1
  PROVE  LET d == DecodeName(m, start, cap) IN
         d # Fail => d.n \in 1..(Len(m) - start) /\ Len(d.text) < cap
<1>1. PICK f : /\ IsLoop(m, start, cap, f)
               /\ DecodeName(m, start, cap) = f[AtByte(start, <<>>, -1, LoopGuard)]
  BY DecodeIs
<1> DEFINE Ok(d) == d # Fail => d.n \in 1..(Len(m) - start) /\ Len(d.text) < cap
           S == {k \in 0..LoopGuard : \A at \in Turns : at.turns = k /\ Keeps(m, at, start, cap) => Ok(f[at])}
<1>2. ASSUME NEW at \in Turns, Keeps(m, at, start, cap), ~Proceeds(m, at, cap) PROVE Ok(f[at])
  <2>1. f[at] = Ended(m, at, start) BY <1>1, <1>2 DEF IsLoop
  <2>2. CASE Left(m, at) /\ m[at.pos + 1] = 0
    <3>1. f[at] = [n |-> IF at.n < 0 THEN at.pos + 1 - start ELSE at.n, text |-> at.text]
      BY <2>1, <2>2 DEF Ended
    <3>2. at.pos < Len(m) /\ at.pos \in Nat /\ Len(m) \in Nat BY <2>2 DEF Left, Turns
    <3>3. at.n < 0 => at.pos + 1 - start \in 1..(Len(m) - start) BY <1>2, <3>2 DEF Keeps
    <3> QED BY <1>2, <3>1, <3>3 DEF Keeps
  <2> QED BY <2>1, <2>2 DEF Ended
<1>3. ASSUME NEW at \in Turns, Keeps(m, at, start, cap), Proceeds(m, at, cap)
      PROVE  Keeps(m, Proceed(m, at, start), start, cap)
  <2>1. /\ at.pos \in Nat /\ at.pos < Len(m) /\ at.text \in Seq(Nat) /\ at.n \in Int /\ Len(m) \in Nat
    BY <1>3 DEF Proceeds, Left, Turns
  <2>2. CASE IsPointer(m, at)
    <3>1. at.pos + 1 < Len(m) BY <1>3, <2>2 DEF Proceeds
    <3>2. at.n < 0 => at.pos + 2 - start \in 1..(Len(m) - start) BY <1>3, <2>1, <3>1 DEF Keeps
    <3> QED BY <1>3, <2>1, <2>2, <3>2 DEF Proceed, Follow, AtByte, Keeps
  <2>3. CASE ~IsPointer(m, at)
    <3>1. /\ m[at.pos + 1] \in Nat /\ at.pos + 1 + m[at.pos + 1] <= Len(m)
          /\ Len(Dotted(at.text)) + m[at.pos + 1] < cap
      BY <1>3, <2>1, <2>3, ByteIs DEF Proceeds, LabelFits
    <3>2. Chars(m, at.pos) \in Seq(Nat) /\ Len(Chars(m, at.pos)) = m[at.pos + 1] BY <2>1, <3>1, CharsAre
    <3>3. Proceed(m, at, start) =
            AtByte(at.pos + 1 + m[at.pos + 1], Dotted(at.text) \o Chars(m, at.pos), at.n, at.turns - 1)
      BY <2>3 DEF Proceed, Take, Chars
    <3>4. Len(Dotted(at.text) \o Chars(m, at.pos)) = Len(Dotted(at.text)) + m[at.pos + 1]
      <4>1. Dotted(at.text) \in Seq(Nat) BY <2>1, DottedIs
      <4>2. Len(Dotted(at.text) \o Chars(m, at.pos)) = Len(Dotted(at.text)) + Len(Chars(m, at.pos))
        BY <3>2, <4>1, Joined
      <4> QED BY <3>2, <4>2
    <3> DEFINE next == Proceed(m, at, start)
               whole == Dotted(at.text) \o Chars(m, at.pos)
    <3>5. next.pos = at.pos + 1 + m[at.pos + 1] /\ next.text = whole /\ next.n = at.n
      BY <3>3 DEF AtByte
    <3>6. Len(whole) < cap BY <3>1, <3>4
    <3>7. at.n < 0 => at.pos >= start BY <1>3 DEF Keeps
    <3>8. ~(at.n < 0) => at.n \in 1..(Len(m) - start) BY <1>3 DEF Keeps
    <3>9. at.n < 0 => at.pos + 1 + m[at.pos + 1] >= start BY <2>1, <3>1, <3>7
    <3> HIDE DEF next, whole
    <3>10. Keeps(m, next, start, cap) BY <3>5, <3>6, <3>8, <3>9 DEF Keeps
    <3> QED BY <3>10 DEF next
  <2> QED BY <2>2, <2>3
<1>4. 0 \in S
  <2>1. \A at \in Turns : at.turns = 0 => ~Proceeds(m, at, cap) BY DEF Proceeds, Left
  <2>2. 0 \in 0..LoopGuard BY Limits
  <2> QED BY <1>2, <2>1, <2>2
<1>5. ASSUME NEW k \in 1..LoopGuard, k - 1 \in S PROVE k \in S
  <2>1. ASSUME NEW at \in Turns, at.turns = k, Keeps(m, at, start, cap), Proceeds(m, at, cap)
        PROVE  Ok(f[at])
    <3>1. Proceed(m, at, start) \in Turns /\ Proceed(m, at, start).turns = k - 1 BY <2>1, ProceedIs
    <3>2. Ok(f[Proceed(m, at, start)]) BY <1>3, <1>5, <2>1, <3>1
    <3>3. f[at] = f[Proceed(m, at, start)] BY <1>1, <2>1 DEF IsLoop
    <3> QED BY <3>2, <3>3
  <2>2. k \in 0..LoopGuard OBVIOUS
  <2> QED BY <1>2, <2>1, <2>2
<1> HIDE DEF S
<1>6. LoopGuard \in S
  <2>1. LoopGuard \in Nat BY Limits
  <2>2. \A k \in 0..LoopGuard : k \in S BY <1>4, <1>5, <2>1, UpTo
  <2> QED BY <2>1, <2>2
<1> DEFINE first == AtByte(start, <<>>, -1, LoopGuard)
<1>7. first \in Turns /\ first.turns = LoopGuard /\ Keeps(m, first, start, cap)
  BY Limits DEF AtByte, Turns, Keeps
<1> HIDE DEF first
<1>8. Ok(f[first]) BY <1>6, <1>7 DEF S
<1> QED BY <1>1, <1>8 DEF first

LEMMA Regrouped ==
  ASSUME NEW a \in Seq(Nat), NEW b \in Seq(Nat), NEW c \in Seq(Nat)
  PROVE  (a \o b) \o c = a \o (b \o c)
BY ConcatAssociative

LEMMA LenIs == ASSUME NEW a \in Seq(Nat) PROVE Len(a) \in Nat /\ (Len(a) = 0 <=> a = <<>>)
BY EmptySeq

(* Names that differ in case only.                                         *)
LEMMA SameJoined ==
  ASSUME NEW a \in Seq(Nat), NEW b \in Seq(Nat), NEW c \in Seq(Nat), NEW d \in Seq(Nat),
         SameName(a, b), SameName(c, d)
  PROVE  SameName(a \o c, b \o d)
<1> DEFINE p == a \o c
           q == b \o d
<1>1. Len(a) = Len(b) /\ Len(c) = Len(d) /\ Len(a) \in Nat /\ Len(c) \in Nat BY DEF SameName
<1>0. /\ p \in Seq(Nat) /\ Len(p) = Len(a) + Len(c)
      /\ \A i \in 1..Len(a) : p[i] = a[i]
      /\ \A i \in 1..Len(c) : p[Len(a) + i] = c[i]
  BY Joined
<1>5. /\ q \in Seq(Nat) /\ Len(q) = Len(b) + Len(d)
      /\ \A i \in 1..Len(b) : q[i] = b[i]
      /\ \A i \in 1..Len(d) : q[Len(b) + i] = d[i]
  BY Joined
<1> HIDE DEF p, q
<1>2. p \in Seq(Nat) /\ q \in Seq(Nat) /\ Len(p) = Len(a) + Len(c) /\ Len(q) = Len(a) + Len(c)
  BY <1>0, <1>1, <1>5
<1>3. ASSUME NEW i \in 1..(Len(a) + Len(c)) PROVE Lower(p[i]) = Lower(q[i])
  <2>1. CASE i <= Len(a)
    <3>0. i \in 1..Len(a) /\ i \in 1..Len(b) BY <1>1, <2>1
    <3>1. p[i] = a[i] /\ q[i] = b[i] BY <1>0, <1>5, <3>0
    <3>2. i \in DOMAIN a BY <1>1, <2>1
    <3> QED BY <3>1, <3>2 DEF SameName
  <2>2. CASE ~(i <= Len(a))
    <3>1. i - Len(a) \in 1..Len(c) BY <1>1, <2>2
    <3> DEFINE j == i - Len(a)
    <3>2. p[i] = c[j] /\ q[i] = d[j]
      <4>1. i = Len(a) + j /\ i = Len(b) + j /\ j \in 1..Len(c) /\ j \in 1..Len(d) BY <1>1, <3>1
      <4> HIDE DEF j
      <4>2. p[Len(a) + j] = c[j] BY <1>0, <4>1
      <4>3. q[Len(b) + j] = d[j] BY <1>5, <4>1
      <4> QED BY <4>1, <4>2, <4>3
    <3>3. i - Len(a) \in DOMAIN c BY <3>1
    <3> QED BY <3>2, <3>3 DEF SameName
  <2> QED BY <2>1, <2>2
<1>4. SameName(p, q) BY <1>2, <1>3 DEF SameName
<1> QED BY <1>4 DEF p, q

LEMMA DottedJoin ==
  ASSUME NEW a \in Seq(Nat)
  PROVE  <<Dot>> \in Seq(Nat) /\ Dotted(a) = IF a = <<>> THEN <<>> ELSE a \o <<Dot>>
<1>1. Dot \in Nat BY DEF Dot
<1>2. Append(a, Dot) = a \o <<Dot>> BY <1>1, AppendIsConcat
<1> QED BY <1>1, <1>2 DEF Dotted

LEMMA SameDotted ==
  ASSUME NEW a \in Seq(Nat), NEW b \in Seq(Nat), SameName(a, b)
  PROVE  SameName(Dotted(a), Dotted(b))
<1>1. <<Dot>> \in Seq(Nat) /\ SameName(<<Dot>>, <<Dot>>) BY DottedJoin DEF SameName
<1>2. a = <<>> <=> b = <<>>
  <2>1. Len(a) = Len(b) BY DEF SameName
  <2>2. (a # <<>> => Len(a) \in Nat \ {0}) /\ (b # <<>> => Len(b) \in Nat \ {0}) /\ Len(<<>>) = 0
    BY EmptySeq
  <2> QED BY <2>1, <2>2
<1>3. CASE a = <<>> BY <1>2, <1>3, DottedJoin DEF SameName
<1>4. CASE a # <<>>
  <2>1. SameName(a \o <<Dot>>, b \o <<Dot>>) BY <1>1, SameJoined
  <2> QED BY <1>2, <1>4, <2>1, DottedJoin
<1> QED BY <1>3, <1>4

LEMMA SameTwice ==
  ASSUME NEW a \in Seq(Nat), NEW b \in Seq(Nat), NEW c \in Seq(Nat), SameName(a, b), SameName(b, c)
  PROVE  SameName(a, c)
<1>1. Len(a) = Len(c) /\ DOMAIN a = DOMAIN b BY DEF SameName
<1> QED BY <1>1 DEF SameName

LEMMA SameSelf == ASSUME NEW a \in Seq(Nat) PROVE SameName(a, a)
BY DEF SameName

(* The labels that lie at pos: where each ends, and the text up to there.  *)
Laid(m, pos, labels, a, f) ==
  /\ labels \in Seq(Labels)
  /\ a \in [0..Len(labels) -> Nat] /\ f \in [0..Len(labels) -> Seq(Nat)]
  /\ a[0] = pos /\ f[0] = <<>>
  /\ \A k \in 1..Len(labels) :
       /\ a[k] = a[k - 1] + 1 + Len(labels[k]) /\ a[k] <= Len(m)
       /\ m[a[k - 1] + 1] = Len(labels[k])
       /\ \A i \in 1..Len(labels[k]) : Lower(m[a[k - 1] + 1 + i]) = Lower(labels[k][i])
       /\ f[k] = Dotted(f[k - 1]) \o labels[k]

LEMMA LabelIs ==
  ASSUME NEW l \in Labels
  PROVE  /\ l \in Seq(Nat) /\ l # <<>> /\ Len(l) \in Nat
         /\ Len(l) >= 1 /\ Len(l) <= 63 /\ Len(l) <= MaxLabel
         /\ \A i \in 1..Len(l) : l[i] \in 65..90
<1> DEFINE A == 65..90
<1>1. \A x \in A : x \in Nat OBVIOUS
<1>2. l \in Seq(A) /\ Len(l) \in 1..MaxLabel /\ MaxLabel \in 1..63 BY Limits
<1> HIDE DEF A
<1>3. \A i \in 1..Len(l) : l[i] \in A BY <1>2
<1>4. l \in [1..Len(l) -> Nat] /\ Len(l) \in Nat BY <1>1, <1>2, <1>3
<1>5. l \in Seq(Nat) BY <1>4
<1> DEFINE n == Len(l)
<1>n. n \in 1..MaxLabel /\ MaxLabel \in 1..63 BY <1>2
<1> HIDE DEF n
<1>m. n \in Nat /\ n >= 1 /\ n <= 63 /\ n <= MaxLabel /\ n # 0 BY <1>n
<1>6. /\ Len(l) \in Nat /\ Len(l) >= 1 /\ Len(l) <= 63 /\ Len(l) <= MaxLabel /\ Len(l) # 0
  BY <1>m DEF n
<1>7. l # <<>> BY <1>5, <1>6, LenIs
<1> QED BY <1>3, <1>5, <1>6, <1>7 DEF A

LEMMA DottedFull ==
  ASSUME NEW x \in Seq(Nat), NEW y \in Seq(Nat), y # <<>>, NEW z \in Seq(Nat)
  PROVE  Dotted(Dotted(x) \o y) \o z = Dotted(x) \o (Dotted(y) \o z)
<1> DEFINE p == Dotted(x)
<1>1. p \in Seq(Nat) BY DottedIs
<1> HIDE DEF p
<1>2. p \o y \in Seq(Nat) /\ p \o y # <<>>
  <2>1. Len(y) \in Nat /\ Len(y) # 0 BY LenIs
  <2>2. p \o y \in Seq(Nat) /\ Len(p \o y) = Len(p) + Len(y) /\ Len(p) \in Nat
    BY <1>1, Joined, LenIs
  <2>3. Len(p \o y) # 0 BY <2>1, <2>2
  <2> QED BY <2>2, <2>3, LenIs
<1>3. Dotted(p \o y) = (p \o y) \o <<Dot>> /\ Dotted(y) = y \o <<Dot>> /\ <<Dot>> \in Seq(Nat)
  BY <1>1, <1>2, DottedJoin
<1> DEFINE dot == <<Dot>>
<1> HIDE DEF dot
<1>4. dot \in Seq(Nat) /\ (p \o y) \o dot = p \o (y \o dot) BY <1>1, <1>3, Regrouped DEF dot
<1> DEFINE full == y \o dot
<1>5. full \in Seq(Nat) BY <1>4, Joined
<1> HIDE DEF full
<1>6. (p \o full) \o z = p \o (full \o z) BY <1>1, <1>5, Regrouped, SMTT(30)
<1> QED BY <1>3, <1>4, <1>6 DEF p, dot, full

Takes(loop, cap, pos, u, n, k, full, len) ==
  IF k >= 1 /\ Len(full) < cap
  THEN \E v \in Seq(Nat) : /\ SameName(v, full)
                           /\ loop[AtByte(pos, u, n, k)] = loop[AtByte(pos + 1 + len, v, n, k - 1)]
  ELSE loop[AtByte(pos, u, n, k)] = Fail

(* One label more: it is taken if it fits and there is a turn left.        *)
LEMMA TakesLabel ==
  ASSUME NEW m \in Seq(Bytes), NEW start \in Nat, NEW cap \in Nat, NEW loop,
         IsLoop(m, start, cap, loop),
         NEW pos \in Nat, NEW l \in Labels, pos + 1 + Len(l) <= Len(m), m[pos + 1] = Len(l),
         \A i \in 1..Len(l) : Lower(m[pos + 1 + i]) = Lower(l[i]),
         NEW u \in Seq(Nat), NEW full \in Seq(Nat), SameName(u, full),
         NEW n \in Int, NEW k \in 0..LoopGuard
  PROVE  Takes(loop, cap, pos, u, n, k, Dotted(full) \o l, Len(l))
<1> DEFINE at == AtByte(pos, u, n, k)
           v == Dotted(u) \o Chars(m, pos)
<1>1. l \in Seq(Nat) /\ Len(l) \in Nat /\ Len(l) >= 1 /\ Len(l) <= 63 BY LabelIs
<1>2. at \in Turns /\ at.pos = pos /\ at.text = u /\ at.n = n /\ at.turns = k BY DEF AtByte, Turns
<1>3. Len(m) \in Nat /\ pos < Len(m)
  <2>1. Len(m) \in Nat OBVIOUS
  <2>2. pos + 1 + Len(l) <= Len(m) OBVIOUS
  <2> HIDE DEF at, v
  <2> QED BY <1>1, <2>1, <2>2
<1>4. Chars(m, pos) \in Seq(Nat) /\ Len(Chars(m, pos)) = Len(l)
      /\ \A i \in 1..Len(l) : Chars(m, pos)[i] = m[pos + 1 + i]
  BY <1>1, <1>3, CharsAre
<1>5. SameName(Chars(m, pos), l)
  <2> DEFINE c == Chars(m, pos)
  <2>1. Len(c) = Len(l) /\ DOMAIN c = 1..Len(l) BY <1>4
  <2>2. \A i \in 1..Len(l) : Lower(c[i]) = Lower(l[i]) BY <1>4
  <2> HIDE DEF c
  <2>3. SameName(c, l) BY <2>1, <2>2 DEF SameName
  <2> QED BY <2>3 DEF c
<1>6. Dotted(u) \in Seq(Nat) /\ Dotted(full) \in Seq(Nat) /\ SameName(Dotted(u), Dotted(full))
  BY DottedIs, SameDotted
<1>d. Len(Dotted(u)) \in Nat /\ Len(Dotted(full)) = Len(Dotted(u)) /\ Len(l) \in Nat
      /\ Len(Dotted(u)) = IF u = <<>> THEN 0 ELSE Len(u) + 1
  BY <1>1, <1>6, LenIs, DottedIs DEF SameName
<1>7. v \in Seq(Nat) /\ SameName(v, Dotted(full) \o l)
  <2>1. v \in Seq(Nat) BY <1>4, <1>6, Joined
  <2>2. SameName(v, Dotted(full) \o l) BY <1>1, <1>4, <1>5, <1>6, SameJoined
  <2> QED BY <2>1, <2>2
<1>8. Len(Dotted(full) \o l) = Len(Dotted(u)) + Len(l)
  <2>1. Len(Dotted(full) \o l) = Len(Dotted(full)) + Len(l) BY <1>1, <1>6, Joined
  <2> QED BY <1>d, <2>1
<1> HIDE DEF at, v
<1>9. ~IsPointer(m, at) /\ m[pos + 1] \in 1..(Reserved - 1) /\ m[pos + 1] # 0
  <2> DEFINE b == Len(l)
  <2>1. m[pos + 1] = b /\ b \in Nat /\ b >= 1 /\ b <= 63 BY <1>1
  <2>2. m[at.pos + 1] = b BY <1>2, <2>1
  <2> HIDE DEF b
  <2> QED BY <2>1, <2>2 DEF IsPointer, Pointer, Reserved
<1>10. LabelFits(m, at, cap) <=> Len(Dotted(u)) + Len(l) < cap
  <2>1. m[at.pos + 1] = Len(l) /\ at.pos + 1 + Len(l) <= Len(m) /\ at.text = u BY <1>2
  <2>2. u # <<>> => Len(Dotted(u)) = Len(u) + 1 BY <1>d
  <2>3. Len(u) \in Nat BY LenIs
  <2>4. LabelFits(m, at, cap) <=> (u # <<>> => Len(u) + 1 < cap) /\ Len(Dotted(u)) + Len(l) < cap
    BY <2>1 DEF LabelFits
  <2>5. Len(Dotted(u)) + Len(l) < cap => (u # <<>> => Len(u) + 1 < cap) BY <1>1, <1>d, <2>2, <2>3
  <2> QED BY <2>4, <2>5
<1>11. Left(m, at) <=> k >= 1 BY <1>2, <1>3, Limits DEF Left
<1>12. Proceeds(m, at, cap) <=> k >= 1 /\ Len(Dotted(full) \o l) < cap
  BY <1>2, <1>8, <1>9, <1>10, <1>11 DEF Proceeds
<1>13. Proceed(m, at, start) = AtByte(pos + 1 + Len(l), v, n, k - 1)
  BY <1>2, <1>9 DEF Proceed, Take, Chars, v
<1>14. Ended(m, at, start) = Fail BY <1>2, <1>9 DEF Ended
<1>15. loop[at] = IF Proceeds(m, at, cap) THEN loop[Proceed(m, at, start)] ELSE Ended(m, at, start)
  BY <1>2 DEF IsLoop
<1> QED BY <1>7, <1>12, <1>13, <1>14, <1>15 DEF Takes, at

(* Of the texts that a name's labels make, none but the first is empty.    *)
LaidAt(m, labels, a, f, j) ==
  /\ labels[j] \in Labels /\ j - 1 \in 0..Len(labels) /\ j \in 0..Len(labels)
  /\ a[j - 1] \in Nat /\ a[j] \in Nat /\ a[j] = a[j - 1] + 1 + Len(labels[j]) /\ a[j] <= Len(m)
  /\ m[a[j - 1] + 1] = Len(labels[j]) /\ a[j] > a[j - 1]
  /\ \A i \in 1..Len(labels[j]) : Lower(m[a[j - 1] + 1 + i]) = Lower(labels[j][i])
  /\ f[j - 1] \in Seq(Nat) /\ f[j] \in Seq(Nat) /\ f[j] = Dotted(f[j - 1]) \o labels[j]
  /\ f[j] # <<>> /\ (j = 1 => f[j - 1] = <<>> /\ f[j] = labels[j])
LEMMA LaidIs ==
  ASSUME NEW m \in Seq(Bytes), NEW pos \in Nat, NEW labels, NEW a, NEW f,
         Laid(m, pos, labels, a, f), NEW j \in 1..Len(labels)
  PROVE  LaidAt(m, labels, a, f, j)
<1>1. labels \in Seq(Labels) /\ Len(labels) \in Nat BY DEF Laid
<1>2. j - 1 \in 0..Len(labels) /\ j \in 0..Len(labels) BY <1>1
<1>3. labels[j] \in Labels BY <1>1
<1>4. a[j - 1] \in Nat /\ f[j - 1] \in Seq(Nat) /\ a[j] \in Nat /\ f[j] \in Seq(Nat)
  BY <1>2 DEF Laid
<1>5. /\ a[j] = a[j - 1] + 1 + Len(labels[j]) /\ a[j] <= Len(m)
      /\ m[a[j - 1] + 1] = Len(labels[j])
      /\ \A i \in 1..Len(labels[j]) : Lower(m[a[j - 1] + 1 + i]) = Lower(labels[j][i])
      /\ f[j] = Dotted(f[j - 1]) \o labels[j]
  BY DEF Laid
<1> DEFINE l == labels[j]
           d == Dotted(f[j - 1])
<1>6. l \in Seq(Nat) /\ Len(l) \in Nat /\ Len(l) >= 1 /\ Len(l) <= 63 BY <1>3, LabelIs
<1>7. d \in Seq(Nat) /\ Len(d) \in Nat BY <1>4, DottedIs, LenIs
<1>8. f[j] = d \o l BY <1>5
<1>9. j = 1 => f[j - 1] = <<>> /\ d = <<>>
  <2>1. f[0] = <<>> BY DEF Laid
  <2>2. j = 1 => j - 1 = 0 OBVIOUS
  <2>3. Dotted(<<>>) = <<>> BY DEF Dotted
  <2> QED BY <2>1, <2>2, <2>3
<1> HIDE DEF l, d
<1>10. Len(f[j]) = Len(d) + Len(l) BY <1>6, <1>7, <1>8, Joined
<1>11. Len(f[j]) # 0 BY <1>6, <1>7, <1>10
<1>12. f[j] # <<>> BY <1>4, <1>11, LenIs
<1>13. j = 1 => f[j] = l BY <1>6, <1>8, <1>9, ConcatEmptySeq
<1>14. a[j] > a[j - 1]
  <2>1. a[j] = a[j - 1] + 1 + Len(l) BY <1>5 DEF l
  <2> QED BY <1>4, <1>6, <2>1
<1> QED BY <1>2, <1>3, <1>4, <1>5, <1>6, <1>9, <1>12, <1>13, <1>14 DEF LaidAt, l

(* Where j of the labels leave the loop.                                   *)
Grown(text, f, j) == IF j = 0 THEN text ELSE Dotted(text) \o f[j]
Reached(loop, first, cap, text, n, k, a, f, j) ==
  IF j <= k /\ Len(Grown(text, f, j)) < cap
  THEN \E u \in Seq(Nat) : /\ SameName(u, Grown(text, f, j))
                           /\ loop[first] = loop[AtByte(a[j], u, n, k - j)]
  ELSE loop[first] = Fail

Grows(t, g, l) == g = Dotted(t) \o l /\ g \in Seq(Nat) /\ Len(g) > Len(t)
LEMMA GrownIs ==
  ASSUME NEW m \in Seq(Bytes), NEW pos \in Nat, NEW labels, NEW a, NEW f,
         Laid(m, pos, labels, a, f), NEW text \in Seq(Nat), NEW j \in 1..Len(labels),
         Grown(text, f, j - 1) \in Seq(Nat)
  PROVE  Grows(Grown(text, f, j - 1), Grown(text, f, j), labels[j])
<1> DEFINE l == labels[j]
           t == Grown(text, f, j - 1)
<1>0. LaidAt(m, labels, a, f, j) BY LaidIs
<1>1. /\ l \in Labels /\ f[j - 1] \in Seq(Nat) /\ f[j] = Dotted(f[j - 1]) \o l
      /\ (j = 1 => f[j] = l)
  BY <1>0 DEF LaidAt
<1>2. l \in Seq(Nat) /\ Len(l) \in Nat /\ Len(l) >= 1 /\ Len(l) <= 63 BY <1>1, LabelIs
<1>3. j # 1 => f[j - 1] # <<>> /\ t = Dotted(text) \o f[j - 1]
  <2> SUFFICES ASSUME j # 1 PROVE f[j - 1] # <<>> /\ t = Dotted(text) \o f[j - 1] OBVIOUS
  <2>1. j - 1 \in 1..Len(labels) /\ j - 1 # 0 OBVIOUS
  <2>2. LaidAt(m, labels, a, f, j - 1) BY <2>1, LaidIs
  <2>3. f[j - 1] # <<>> BY <2>2 DEF LaidAt
  <2> QED BY <2>1, <2>3 DEF Grown
<1>4. j = 1 => t = text BY DEF Grown
<1>5. Grown(text, f, j) = Dotted(text) \o f[j] BY DEF Grown
<1>6. t \in Seq(Nat) OBVIOUS
<1> HIDE DEF t, l
<1>7. Grown(text, f, j) = Dotted(t) \o l
  <2>1. CASE j = 1 BY <1>1, <1>4, <1>5, <2>1
  <2>2. CASE j # 1
    <3>1. Dotted(Dotted(text) \o f[j - 1]) \o l = Dotted(text) \o (Dotted(f[j - 1]) \o l)
      BY <1>1, <1>2, <1>3, <2>2, DottedFull
    <3> QED BY <1>1, <1>3, <1>5, <2>2, <3>1
  <2> QED BY <2>1, <2>2
<1>8. Dotted(t) \in Seq(Nat) /\ Len(Dotted(t)) >= Len(t) /\ Len(t) \in Nat /\ Len(Dotted(t)) \in Nat
  BY <1>6, LenIs, DottedIs
<1>9. Dotted(t) \o l \in Seq(Nat) /\ Len(Dotted(t) \o l) = Len(Dotted(t)) + Len(l)
  BY <1>2, <1>8, Joined
<1>10. Len(Dotted(t)) + Len(l) > Len(t) BY <1>2, <1>8
<1> QED BY <1>7, <1>9, <1>10 DEF Grows, t, l

LEMMA LabelsRun ==
  ASSUME NEW m \in Seq(Bytes), NEW start \in Nat, NEW cap \in Nat, NEW loop,
         IsLoop(m, start, cap, loop),
         NEW pos \in Nat, NEW labels, NEW a, NEW f, Laid(m, pos, labels, a, f),
         NEW text \in Seq(Nat), Len(text) < cap, NEW n \in Int, NEW k \in 0..LoopGuard
  PROVE  /\ Len(labels) \in Nat /\ Grown(text, f, Len(labels)) \in Seq(Nat)
         /\ Reached(loop, AtByte(pos, text, n, k), cap, text, n, k, a, f, Len(labels))
<1> DEFINE first == AtByte(pos, text, n, k)
           S == {j \in 0..Len(labels) : /\ Grown(text, f, j) \in Seq(Nat)
                                        /\ Reached(loop, first, cap, text, n, k, a, f, j)}
<1>0. Len(labels) \in Nat /\ LoopGuard \in Nat /\ k \in Nat BY Limits DEF Laid
<1>1. 0 \in S
  <2>1. a[0] = pos /\ Grown(text, f, 0) = text BY DEF Laid, Grown
  <2>2. SameName(text, text) BY SameSelf
  <2>3. k - 0 = k /\ 0 <= k BY <1>0
  <2>4. Reached(loop, first, cap, text, n, k, a, f, 0) BY <2>1, <2>2, <2>3 DEF Reached
  <2>5. 0 \in 0..Len(labels) BY <1>0
  <2> QED BY <2>1, <2>4, <2>5
<1> HIDE DEF first
<1>2. ASSUME NEW j \in 1..Len(labels), j - 1 \in S PROVE j \in S
  <2> DEFINE l == labels[j]
             p == a[j - 1]
             t == Grown(text, f, j - 1)
             g == Grown(text, f, j)
  <2>1. /\ l \in Labels /\ j \in 0..Len(labels) /\ p \in Nat /\ a[j] = p + 1 + Len(l)
        /\ p + 1 + Len(l) <= Len(m) /\ m[p + 1] = Len(l)
        /\ \A i \in 1..Len(l) : Lower(m[p + 1 + i]) = Lower(l[i])
    <3>1. LaidAt(m, labels, a, f, j) BY LaidIs
    <3> QED BY <3>1 DEF LaidAt
  <2>2. t \in Seq(Nat) /\ Reached(loop, first, cap, text, n, k, a, f, j - 1) BY <1>2
  <2>3. g = Dotted(t) \o l /\ g \in Seq(Nat) /\ Len(g) > Len(t)
    <3>1. Grows(t, g, l) BY <2>2, GrownIs
    <3> QED BY <3>1 DEF Grows
  <2>4. Len(g) \in Nat /\ Len(t) \in Nat BY <2>2, <2>3, LenIs
  <2>5. IF j - 1 <= k /\ Len(t) < cap
        THEN \E u \in Seq(Nat) : SameName(u, t) /\ loop[first] = loop[AtByte(p, u, n, k - (j - 1))]
        ELSE loop[first] = Fail
    BY <2>2 DEF Reached
  <2>6. a[j] = p + 1 + Len(l) BY <2>1
  <2> HIDE DEF l, p, t, g
  <2>7. IF j <= k /\ Len(g) < cap
        THEN \E u \in Seq(Nat) : SameName(u, g) /\ loop[first] = loop[AtByte(a[j], u, n, k - j)]
        ELSE loop[first] = Fail
    <3>1. CASE j - 1 <= k /\ Len(t) < cap
      <4>1. PICK u \in Seq(Nat) : SameName(u, t) /\ loop[first] = loop[AtByte(p, u, n, k - (j - 1))]
        BY <2>5, <3>1
      <4> DEFINE r == k - (j - 1)
      <4>2. r \in 0..LoopGuard /\ (r >= 1 <=> j <= k) /\ r - 1 = k - j BY <1>0, <3>1
      <4>3. loop[first] = loop[AtByte(p, u, n, r)] BY <4>1
      <4> HIDE DEF r
      <4>4. Takes(loop, cap, p, u, n, r, Dotted(t) \o l, Len(l)) BY <2>1, <2>2, <4>1, <4>2, TakesLabel
      <4> QED BY <2>3, <2>6, <4>2, <4>3, <4>4 DEF Takes
    <3>2. CASE ~(j - 1 <= k /\ Len(t) < cap)
      <4>1. loop[first] = Fail BY <2>5, <3>2
      <4>2. ~(j <= k /\ Len(g) < cap) BY <1>0, <2>3, <2>4, <3>2
      <4> QED BY <4>1, <4>2
    <3> QED BY <3>1, <3>2
  <2>8. Reached(loop, first, cap, text, n, k, a, f, j) BY <2>7 DEF Reached, g
  <2> QED BY <2>1, <2>3, <2>8 DEF g
<1> HIDE DEF S
<1>3. Len(labels) \in S
  <2>1. \A j \in 0..Len(labels) : j \in S BY <1>0, <1>1, <1>2, UpTo
  <2> QED BY <1>0, <2>1
<1> QED BY <1>0, <1>3 DEF S, first

LEMMA LaidEnd ==
  ASSUME NEW m \in Seq(Bytes), NEW pos \in Nat, NEW labels, NEW a, NEW f,
         Laid(m, pos, labels, a, f)
  PROVE  LET c == Len(labels) IN
         /\ c \in Nat /\ a[c] \in Nat /\ a[c] >= pos /\ f[c] \in Seq(Nat)
         /\ (c = 0 => a[c] = pos /\ f[c] = <<>>) /\ (c # 0 => f[c] # <<>>)
<1> DEFINE S == {j \in 0..Len(labels) : a[j] >= pos}
<1>1. Len(labels) \in Nat /\ a[0] = pos /\ f[0] = <<>> BY DEF Laid
<1>2. 0 \in S BY <1>1
<1>3. ASSUME NEW j \in 1..Len(labels), j - 1 \in S PROVE j \in S
  <2>1. LaidAt(m, labels, a, f, j) BY LaidIs
  <2>2. a[j - 1] >= pos /\ a[j] > a[j - 1] /\ a[j] \in Nat /\ a[j - 1] \in Nat /\ j \in 0..Len(labels)
    BY <1>3, <2>1 DEF LaidAt
  <2>3. a[j] >= pos BY <2>2
  <2> QED BY <2>2, <2>3
<1> HIDE DEF S
<1>4. \A j \in 0..Len(labels) : j \in S BY <1>1, <1>2, <1>3, UpTo
<1>5. Len(labels) \in 0..Len(labels) BY <1>1
<1>6. a[Len(labels)] >= pos BY <1>4, <1>5 DEF S
<1>7. a[Len(labels)] \in Nat /\ f[Len(labels)] \in Seq(Nat) BY <1>5 DEF Laid
<1>8. Len(labels) # 0 => f[Len(labels)] # <<>>
  <2> SUFFICES ASSUME Len(labels) # 0 PROVE f[Len(labels)] # <<>> OBVIOUS
  <2>1. Len(labels) \in 1..Len(labels) BY <1>1
  <2>2. LaidAt(m, labels, a, f, Len(labels)) BY <2>1, LaidIs
  <2> QED BY <2>2 DEF LaidAt
<1> QED BY <1>1, <1>6, <1>7, <1>8

(* The other two kinds of byte: the 0 that ends a name, and a pointer.     *)
LEMMA EndRuns ==
  ASSUME NEW m \in Seq(Bytes), NEW start \in Nat, NEW cap \in Nat, NEW loop,
         IsLoop(m, start, cap, loop), NEW pos \in Nat, pos < Len(m), m[pos + 1] = 0,
         NEW u \in Seq(Nat), NEW n \in Int, NEW k \in 0..LoopGuard
  PROVE  loop[AtByte(pos, u, n, k)] =
           IF k = 0 THEN Fail ELSE [n |-> IF n < 0 THEN pos + 1 - start ELSE n, text |-> u]
<1> DEFINE at == AtByte(pos, u, n, k)
<1>1. at \in Turns /\ at.pos = pos /\ at.text = u /\ at.n = n /\ at.turns = k BY DEF AtByte, Turns
<1> HIDE DEF at
<1>2. Left(m, at) <=> k # 0 BY <1>1, Limits DEF Left
<1>3. ~Proceeds(m, at, cap) BY <1>1 DEF Proceeds, IsPointer, Pointer
<1>4. loop[at] = Ended(m, at, start) BY <1>1, <1>3 DEF IsLoop
<1> QED BY <1>1, <1>2, <1>4 DEF Ended, at

LEMMA PointerRuns ==
  ASSUME NEW m \in Seq(Bytes), NEW start \in Nat, NEW cap \in Nat, NEW loop,
         IsLoop(m, start, cap, loop), NEW pos \in Nat, pos + 1 < Len(m), m[pos + 1] >= Pointer,
         NEW u \in Seq(Nat), NEW n \in Int, NEW k \in 0..LoopGuard
  PROVE  loop[AtByte(pos, u, n, k)] =
           IF k = 0 THEN Fail
           ELSE loop[AtByte((m[pos + 1] % 64) * 256 + m[pos + 2], u,
                            IF n < 0 THEN pos + 2 - start ELSE n, k - 1)]
<1> DEFINE at == AtByte(pos, u, n, k)
<1>1. at \in Turns /\ at.pos = pos /\ at.text = u /\ at.n = n /\ at.turns = k BY DEF AtByte, Turns
<1> HIDE DEF at
<1>2. Len(m) \in Nat /\ pos < Len(m) BY LenProperties
<1>3. Left(m, at) <=> k # 0 BY <1>1, <1>2, Limits DEF Left
<1>4. IsPointer(m, at) /\ m[at.pos + 1] # 0 BY <1>1 DEF IsPointer, Pointer
<1>5. Proceeds(m, at, cap) <=> k # 0 BY <1>1, <1>3, <1>4 DEF Proceeds
<1>6. loop[at] = IF Proceeds(m, at, cap) THEN loop[Proceed(m, at, start)] ELSE Ended(m, at, start)
  BY <1>1 DEF IsLoop
<1>7. Ended(m, at, start) = Fail BY <1>4 DEF Ended
<1>8. Proceed(m, at, start) = AtByte((m[pos + 1] % 64) * 256 + m[pos + 2], u,
                                     IF n < 0 THEN pos + 2 - start ELSE n, k - 1)
  BY <1>1, <1>4 DEF Proceed, Follow
<1> QED BY <1>5, <1>6, <1>7, <1>8 DEF at

(* How a name is spelled in a message: its own labels, and then a byte 0   *)
(* or a pointer to another name, whose text is the rest.                   *)
NameRecords == [at : Nat, text : Seq(Nat), size : Nat, turns : Nat]
EndsThere(m, nm, c, last, own) ==
  /\ c >= 1 /\ last < Len(m) /\ m[last + 1] = 0
  /\ nm.size = last + 1 - nm.at /\ nm.text = own /\ nm.turns = c + 1
PointsTo(m, nm, c, last, own, t) ==
  /\ last + 1 < Len(m) /\ m[last + 1] >= Pointer
  /\ (m[last + 1] % 64) * 256 + m[last + 2] = t.at
  /\ nm.size = last + 2 - nm.at /\ nm.turns = c + 1 + t.turns
  /\ nm.text = IF c = 0 THEN t.text ELSE Dotted(own) \o t.text
Spelled(m, ns, nm) ==
  \E labels, a, f :
    /\ Laid(m, nm.at, labels, a, f)
    /\ \/ EndsThere(m, nm, Len(labels), a[Len(labels)], f[Len(labels)])
       \/ \E t \in ns : PointsTo(m, nm, Len(labels), a[Len(labels)], f[Len(labels)], t)

(* From anywhere in decode_name's loop, with some text before it.          *)
RunsFrom(loop, start, cap, nm, text, n, k) ==
  LET full == Dotted(text) \o nm.text IN
  IF nm.turns <= k /\ Len(full) < cap
  THEN \E v \in Seq(Nat) : /\ SameName(v, full)
                           /\ loop[AtByte(nm.at, text, n, k)] =
                                [n |-> IF n < 0 THEN nm.at + nm.size - start ELSE n, text |-> v]
  ELSE loop[AtByte(nm.at, text, n, k)] = Fail
Runs(loop, start, cap, nm) ==
  \A text \in Seq(Nat), n \in Int, k \in 0..LoopGuard :
    Len(text) < cap /\ (n < 0 => nm.at >= start) => RunsFrom(loop, start, cap, nm, text, n, k)

LEMMA EndingRuns ==
  ASSUME NEW m \in Seq(Bytes), NEW start \in Nat, NEW cap \in Nat, NEW loop,
         IsLoop(m, start, cap, loop), NEW nm \in NameRecords, NEW labels, NEW a, NEW f,
         Laid(m, nm.at, labels, a, f),
         EndsThere(m, nm, Len(labels), a[Len(labels)], f[Len(labels)])
  PROVE  Runs(loop, start, cap, nm)
<1> DEFINE c == Len(labels)
           last == a[c]
<1>1. /\ c \in Nat /\ last \in Nat /\ last >= nm.at /\ nm.at \in Nat /\ c >= 1
      /\ last < Len(m) /\ m[last + 1] = 0 /\ nm.size = last + 1 - nm.at
      /\ nm.text = f[c] /\ nm.turns = c + 1
  BY LaidEnd DEF EndsThere, NameRecords
<1> SUFFICES ASSUME NEW text \in Seq(Nat), NEW n \in Int, NEW k \in 0..LoopGuard,
                    Len(text) < cap, n < 0 => nm.at >= start
             PROVE  RunsFrom(loop, start, cap, nm, text, n, k)
  BY DEF Runs
<1> DEFINE first == AtByte(nm.at, text, n, k)
           full == Dotted(text) \o nm.text
<1>2. Reached(loop, first, cap, text, n, k, a, f, c) BY <1>1, LabelsRun
<1> HIDE DEF c, last
<1>3. Grown(text, f, c) = full
  <2>1. c # 0 BY <1>1
  <2> QED BY <1>1, <2>1 DEF Grown
<1>4. IF c <= k /\ Len(full) < cap
      THEN \E u \in Seq(Nat) : SameName(u, full) /\ loop[first] = loop[AtByte(last, u, n, k - c)]
      ELSE loop[first] = Fail
  BY <1>2, <1>3 DEF Reached, last
<1> HIDE DEF first, full
<1>5. IF nm.turns <= k /\ Len(full) < cap
      THEN \E v \in Seq(Nat) : /\ SameName(v, full)
                               /\ loop[first] = [n |-> IF n < 0 THEN nm.at + nm.size - start ELSE n, text |-> v]
      ELSE loop[first] = Fail
  <2>0. k \in Nat /\ k <= LoopGuard /\ LoopGuard \in Nat BY Limits
  <2>1. CASE c <= k /\ Len(full) < cap
    <3>1. PICK u \in Seq(Nat) : SameName(u, full) /\ loop[first] = loop[AtByte(last, u, n, k - c)]
      BY <1>4, <2>1
    <3> DEFINE r == k - c
    <3>2. r \in 0..LoopGuard /\ (r = 0 <=> ~(c + 1 <= k))
      <4>1. c \in Nat /\ c <= k /\ k \in Nat /\ k <= LoopGuard /\ LoopGuard \in Nat BY <1>1, <2>0, <2>1
      <4> QED BY <4>1
    <3>3. loop[first] = loop[AtByte(last, u, n, r)] BY <3>1
    <3> HIDE DEF r
    <3>4. loop[first] = IF r = 0 THEN Fail ELSE [n |-> IF n < 0 THEN last + 1 - start ELSE n, text |-> u]
      <4>1. last \in Nat /\ last < Len(m) /\ m[last + 1] = 0 BY <1>1
      <4>2. loop[AtByte(last, u, n, r)] =
              IF r = 0 THEN Fail ELSE [n |-> IF n < 0 THEN last + 1 - start ELSE n, text |-> u]
        BY <3>2, <4>1, EndRuns
      <4> QED BY <3>3, <4>2
    <3>5. nm.at + nm.size - start = last + 1 - start BY <1>1
    <3> QED BY <1>1, <2>1, <3>1, <3>2, <3>4, <3>5
  <2>2. CASE ~(c <= k /\ Len(full) < cap)
    <3>1. ~(nm.turns <= k /\ Len(full) < cap) BY <1>1, <2>0, <2>2
    <3> QED BY <1>4, <2>2, <3>1
  <2> QED BY <2>1, <2>2
<1> QED BY <1>5 DEF RunsFrom, first, full

LEMMA PointingRuns ==
  ASSUME NEW m \in Seq(Bytes), NEW start \in Nat, NEW cap \in Nat, NEW loop,
         IsLoop(m, start, cap, loop), NEW nm \in NameRecords, NEW labels, NEW a, NEW f,
         Laid(m, nm.at, labels, a, f), NEW t \in NameRecords, Runs(loop, start, cap, t),
         PointsTo(m, nm, Len(labels), a[Len(labels)], f[Len(labels)], t)
  PROVE  Runs(loop, start, cap, nm)
<1> DEFINE c == Len(labels)
           last == a[c]
           own == f[c]
<1>1. /\ c \in Nat /\ last \in Nat /\ last >= nm.at /\ nm.at \in Nat /\ own \in Seq(Nat)
      /\ (c = 0 => last = nm.at) /\ (c # 0 => own # <<>>)
      /\ last + 1 < Len(m) /\ m[last + 1] >= Pointer
      /\ (m[last + 1] % 64) * 256 + m[last + 2] = t.at
      /\ nm.size = last + 2 - nm.at /\ nm.turns = c + 1 + t.turns
      /\ nm.text = IF c = 0 THEN t.text ELSE Dotted(own) \o t.text
      /\ t.at \in Nat /\ t.text \in Seq(Nat) /\ t.turns \in Nat /\ nm.turns \in Nat
  <2>1. /\ t.at \in Nat /\ t.text \in Seq(Nat) /\ t.turns \in Nat
        /\ nm.at \in Nat /\ nm.turns \in Nat
    BY DEF NameRecords
  <2>2. /\ c \in Nat /\ last \in Nat /\ last >= nm.at /\ own \in Seq(Nat)
        /\ (c = 0 => last = nm.at) /\ (c # 0 => own # <<>>)
    BY <2>1, LaidEnd
  <2>3. PointsTo(m, nm, c, last, own, t) OBVIOUS
  <2> HIDE DEF c, last, own
  <2> QED BY <2>1, <2>2, <2>3 DEF PointsTo
<1> SUFFICES ASSUME NEW text \in Seq(Nat), NEW n \in Int, NEW k \in 0..LoopGuard,
                    Len(text) < cap, n < 0 => nm.at >= start
             PROVE  RunsFrom(loop, start, cap, nm, text, n, k)
  BY DEF Runs
<1> DEFINE first == AtByte(nm.at, text, n, k)
           full == Dotted(text) \o nm.text
           mine == Grown(text, f, c)
           skip == IF n < 0 THEN nm.at + nm.size - start ELSE n
<1>2. Reached(loop, first, cap, text, n, k, a, f, c) /\ mine \in Seq(Nat)
  <2>1. nm.at \in Nat BY <1>1
  <2>2. /\ Grown(text, f, Len(labels)) \in Seq(Nat)
        /\ Reached(loop, AtByte(nm.at, text, n, k), cap, text, n, k, a, f, Len(labels))
    BY <2>1, LabelsRun
  <2> QED BY <2>2
<1> HIDE DEF c, last, own
<1>3. IF c <= k /\ Len(mine) < cap
      THEN \E u \in Seq(Nat) : SameName(u, mine) /\ loop[first] = loop[AtByte(last, u, n, k - c)]
      ELSE loop[first] = Fail
  BY <1>2 DEF Reached, last
<1>4. full = Dotted(mine) \o t.text
  <2>1. CASE c = 0
    <3>1. mine = text BY <2>1 DEF Grown
    <3> QED BY <1>1, <2>1, <3>1
  <2>2. CASE c # 0
    <3>1. mine = Dotted(text) \o own BY <2>2 DEF Grown, own
    <3>2. Dotted(Dotted(text) \o own) \o t.text = Dotted(text) \o (Dotted(own) \o t.text)
      BY <1>1, <2>2, DottedFull
    <3> QED BY <1>1, <2>2, <3>1, <3>2
  <2> QED BY <2>1, <2>2
<1>5. Len(full) >= Len(mine) /\ Len(full) \in Nat /\ Len(mine) \in Nat /\ full \in Seq(Nat)
  <2>1. Dotted(mine) \in Seq(Nat) /\ Len(Dotted(mine)) >= Len(mine) /\ Len(mine) \in Nat
    BY <1>2, LenIs, DottedIs
  <2>j. t.text \in Seq(Nat) BY <1>1
  <2> HIDE DEF mine, full
  <2>2. Len(full) = Len(Dotted(mine)) + Len(t.text) /\ full \in Seq(Nat) BY <1>4, <2>1, <2>j, Joined
  <2>3. Len(t.text) \in Nat /\ Len(Dotted(mine)) \in Nat BY <1>1, <2>1, LenIs
  <2> QED BY <2>1, <2>2, <2>3
<1>6. skip \in Int /\ skip = (IF n < 0 THEN last + 2 - start ELSE n) /\ ~(skip < 0)
  <2> DEFINE p == nm.at
             s == nm.size
  <2>1. last \in Nat /\ p \in Nat /\ last >= p /\ s = last + 2 - p BY <1>1
  <2>2. n < 0 => p >= start OBVIOUS
  <2> HIDE DEF p, s
  <2>3. p + s - start = last + 2 - start BY <2>1
  <2>4. n < 0 => last + 2 - start \in Int /\ ~(last + 2 - start < 0) BY <2>1, <2>2
  <2> QED BY <2>3, <2>4 DEF p, s
<1>7. mine \in Seq(Nat) BY <1>2
<1> HIDE DEF first, full, mine, skip
<1>8. IF nm.turns <= k /\ Len(full) < cap
      THEN \E v \in Seq(Nat) : /\ SameName(v, full)
                               /\ loop[first] = [n |-> skip, text |-> v]
      ELSE loop[first] = Fail
  <2>0. k \in Nat /\ k <= LoopGuard /\ LoopGuard \in Nat BY Limits
  <2>1. CASE c <= k /\ Len(mine) < cap
    <3>1. PICK u \in Seq(Nat) : SameName(u, mine) /\ loop[first] = loop[AtByte(last, u, n, k - c)]
      BY <1>3, <2>1
    <3> DEFINE r == k - c
    <3>2. r \in 0..LoopGuard /\ (r # 0 => r - 1 \in 0..LoopGuard /\ (t.turns <= r - 1 <=> nm.turns <= k))
          /\ (r = 0 => ~(nm.turns <= k))
      <4>1. c \in Nat /\ c <= k /\ t.turns \in Nat /\ nm.turns = c + 1 + t.turns BY <1>1, <2>1
      <4> QED BY <2>0, <4>1
    <3>3. loop[first] = loop[AtByte(last, u, n, r)] BY <3>1
    <3> HIDE DEF r
    <3>4. loop[first] = IF r = 0 THEN Fail ELSE loop[AtByte(t.at, u, skip, r - 1)]
      <4>1. last \in Nat /\ last + 1 < Len(m) /\ m[last + 1] >= Pointer BY <1>1
      <4>2. loop[AtByte(last, u, n, r)] =
              IF r = 0 THEN Fail
              ELSE loop[AtByte((m[last + 1] % 64) * 256 + m[last + 2], u,
                               IF n < 0 THEN last + 2 - start ELSE n, r - 1)]
        BY <3>2, <4>1, PointerRuns
      <4> QED BY <1>1, <1>6, <3>3, <4>2
    <3>5. CASE r = 0 BY <3>2, <3>4, <3>5
    <3>6. CASE r # 0
      <4>1. Len(u) < cap BY <2>1, <3>1 DEF SameName
      <4>2. RunsFrom(loop, start, cap, t, u, skip, r - 1) BY <1>6, <3>2, <3>6, <4>1 DEF Runs
      <4>3. SameName(Dotted(u) \o t.text, full) /\ Dotted(u) \o t.text \in Seq(Nat)
        <5>1. SameName(Dotted(u), Dotted(mine)) BY <1>7, <3>1, SameDotted
        <5>2. SameName(t.text, t.text) BY <1>1, SameSelf
        <5>3. Dotted(u) \in Seq(Nat) /\ Dotted(mine) \in Seq(Nat) BY <1>7, DottedIs
        <5>4. SameName(Dotted(u) \o t.text, Dotted(mine) \o t.text) BY <1>1, <5>1, <5>2, <5>3, SameJoined
        <5>5. Dotted(u) \o t.text \in Seq(Nat) BY <1>1, <5>3, Joined
        <5> QED BY <1>4, <5>4, <5>5
      <4>4. Len(Dotted(u) \o t.text) = Len(full) BY <4>3 DEF SameName
      <4>5. IF nm.turns <= k /\ Len(full) < cap
            THEN \E v \in Seq(Nat) : /\ SameName(v, Dotted(u) \o t.text)
                                     /\ loop[first] = [n |-> skip, text |-> v]
            ELSE loop[first] = Fail
        BY <1>6, <3>2, <3>4, <3>6, <4>2, <4>4 DEF RunsFrom
      <4>6. \A v \in Seq(Nat) : SameName(v, Dotted(u) \o t.text) => SameName(v, full)
        BY <1>5, <4>3, SameTwice
      <4> QED BY <4>5, <4>6
    <3> QED BY <3>5, <3>6
  <2>2. CASE ~(c <= k /\ Len(mine) < cap)
    <3>1. ~(nm.turns <= k /\ Len(full) < cap)
      <4>2. nm.turns \in Nat /\ c \in Nat /\ t.turns \in Nat /\ nm.turns = c + 1 + t.turns BY <1>1
      <4>1. nm.turns > c BY <4>2
      <4> QED BY <1>5, <2>0, <2>2, <4>1, <4>2
    <3> QED BY <1>3, <2>2, <3>1
  <2> QED BY <2>1, <2>2
<1> QED BY <1>8 DEF RunsFrom, first, full, skip

(* So does every name, along the pointers: the one that takes the fewest   *)
(* turns of those that did not would point to one that does.               *)
LEMMA NamesRun ==
  ASSUME NEW m \in Seq(Bytes), NEW ns \in SUBSET NameRecords,
         \A nm \in ns : Spelled(m, ns, nm),
         NEW start \in Nat, NEW cap \in Nat, NEW loop, IsLoop(m, start, cap, loop)
  PROVE  \A nm \in ns : Runs(loop, start, cap, nm)
<1> DEFINE T == {k \in Nat : \E nm \in ns : nm.turns = k /\ ~Runs(loop, start, cap, nm)}
<1> SUFFICES ASSUME NEW x \in ns, ~Runs(loop, start, cap, x) PROVE FALSE
  OBVIOUS
<1>0. \A nm \in ns : nm \in NameRecords /\ nm.turns \in Nat BY DEF NameRecords
<1>1. T \in SUBSET Nat /\ x.turns \in T BY <1>0
<1>2. PICK k \in T : \A j \in T : k <= j BY <1>1, LeastNatural
<1>3. PICK nm \in ns : nm.turns = k /\ ~Runs(loop, start, cap, nm) BY <1>2
<1>4. PICK labels, a, f :
        /\ Laid(m, nm.at, labels, a, f)
        /\ \/ EndsThere(m, nm, Len(labels), a[Len(labels)], f[Len(labels)])
           \/ \E t \in ns : PointsTo(m, nm, Len(labels), a[Len(labels)], f[Len(labels)], t)
  BY <1>3 DEF Spelled
<1>5. nm \in NameRecords BY <1>0
<1>6. ~EndsThere(m, nm, Len(labels), a[Len(labels)], f[Len(labels)])
  BY <1>3, <1>4, <1>5, EndingRuns
<1>7. PICK t \in ns : PointsTo(m, nm, Len(labels), a[Len(labels)], f[Len(labels)], t) BY <1>4, <1>6
<1>8. t.turns < k
  <2>1. nm.turns = Len(labels) + 1 + t.turns BY <1>7 DEF PointsTo
  <2>2. Len(labels) \in Nat /\ t.turns \in Nat BY <1>0, <1>4 DEF Laid
  <2> QED BY <1>3, <2>1, <2>2
<1>9. Runs(loop, start, cap, t)
  <2>1. t.turns \in Nat /\ k \in Nat BY <1>0, <1>2
  <2>2. t.turns \notin T BY <1>2, <1>8, <2>1
  <2> QED BY <2>1, <2>2
<1>10. t \in NameRecords BY <1>0
<1>11. Runs(loop, start, cap, nm) BY <1>4, <1>5, <1>7, <1>9, <1>10, PointingRuns
<1> QED BY <1>3, <1>11

(* What is spelled is read.                                                *)
LEMMA SpelledIsDecoded ==
  ASSUME NEW m \in Seq(Bytes), NEW ns \in SUBSET NameRecords,
         \A x \in ns : Spelled(m, ns, x), NEW nm \in ns
  PROVE  LET d == DecodeName(m, nm.at, NameCap) IN
         IF Len(nm.text) < NameCap /\ nm.turns <= LoopGuard
         THEN d.n = nm.size /\ SameName(d.text, nm.text)
         ELSE d = Fail
<1> DEFINE start == nm.at
<1>1. start \in Nat /\ nm.text \in Seq(Nat) /\ nm.size \in Nat BY DEF NameRecords
<1>2. NameCap \in Nat /\ NameCap >= 1 /\ LoopGuard \in Nat /\ LoopGuard \in 0..LoopGuard BY Limits
<1>3. PICK loop : /\ IsLoop(m, start, NameCap, loop)
                  /\ DecodeName(m, start, NameCap) = loop[AtByte(start, <<>>, -1, LoopGuard)]
  BY <1>1, <1>2, DecodeIs
<1>4. Runs(loop, start, NameCap, nm) BY <1>1, <1>2, <1>3, NamesRun
<1>5. <<>> \in Seq(Nat) /\ Len(<<>>) = 0 /\ -1 \in Int /\ -1 < 0 OBVIOUS
<1>6. RunsFrom(loop, start, NameCap, nm, <<>>, -1, LoopGuard)
  <2>1. Len(<<>>) < NameCap /\ nm.at >= start BY <1>1, <1>2, <1>5
  <2> QED BY <1>2, <1>4, <1>5, <2>1 DEF Runs
<1>7. Dotted(<<>>) \o nm.text = nm.text
  <2>1. Dotted(<<>>) = <<>> BY DEF Dotted
  <2> QED BY <1>1, <2>1, ConcatEmptySeq
<1>8. nm.at + nm.size - start = nm.size BY <1>1
<1> DEFINE d == DecodeName(m, start, NameCap)
<1>9. IF nm.turns <= LoopGuard /\ Len(nm.text) < NameCap
      THEN \E v \in Seq(Nat) : SameName(v, nm.text) /\ d = [n |-> nm.size, text |-> v]
      ELSE d = Fail
  BY <1>3, <1>5, <1>6, <1>7, <1>8 DEF RunsFrom
<1> HIDE DEF d
<1>10. IF Len(nm.text) < NameCap /\ nm.turns <= LoopGuard
       THEN d.n = nm.size /\ SameName(d.text, nm.text)
       ELSE d = Fail
  BY <1>9
<1> QED BY <1>10 DEF d

-----------------------------------------------------------------------------
(***************************************************************************)
(* encode_name.  Every part of what labels spell stands at the beginning of*)
(* the whole, so that the loop, one label at a time, has written the bytes *)
(* of that part, or has refused the name.                                  *)
(***************************************************************************)
(* Texts and bytes of labels, one after another.                           *)
Spellings == [text : Seq(Nat), wire : Seq(Bytes)]
Unspelt == [text |-> <<>>, wire |-> <<>>]

LEMMA BytesAreNats == ASSUME NEW s \in Seq(Bytes) PROVE s \in Seq(Nat)
<1>1. \A i \in 1..Len(s) : s[i] \in Nat BY ByteIs
<1>2. s \in [1..Len(s) -> Nat] /\ Len(s) \in Nat BY <1>1
<1> QED BY <1>2

LEMMA LabelBytes == ASSUME NEW l \in Labels PROVE l \in Seq(Bytes) /\ <<Len(l)>> \in Seq(Bytes)
<1>1. /\ l \in Seq(Nat) /\ Len(l) \in Nat /\ Len(l) <= 63
      /\ \A i \in 1..Len(l) : l[i] \in 65..90
  BY LabelIs
<1>2. \A x \in 65..90 : x \in Bytes BY DEF Bytes
<1>b. \A i \in 1..Len(l) : l[i] \in Bytes BY <1>1, <1>2
<1>3. l \in [1..Len(l) -> Bytes] BY <1>1, <1>b
<1>4. \A x \in Nat : x <= 63 => x \in Bytes BY DEF Bytes
<1>5. Len(l) \in Bytes BY <1>1, <1>4
<1> QED BY <1>1, <1>3, <1>5

LEMMA JoinedBytes ==
  ASSUME NEW a \in Seq(Bytes), NEW b \in Seq(Bytes)
  PROVE  /\ a \o b \in Seq(Bytes) /\ Len(a \o b) = Len(a) + Len(b)
         /\ \A i \in 1..Len(a) : (a \o b)[i] = a[i]
         /\ \A i \in 1..Len(b) : (a \o b)[Len(a) + i] = b[i]
OBVIOUS

LEMMA ExtendIs == ASSUME NEW s \in Spellings, NEW l \in Labels PROVE Extend(s, l) \in Spellings
<1>1. s.text \in Seq(Nat) /\ s.wire \in Seq(Bytes) BY DEF Spellings
<1>2. Dotted(s.text) \in Seq(Nat) /\ l \in Seq(Nat) BY <1>1, DottedIs, LabelIs
<1>3. Dotted(s.text) \o l \in Seq(Nat) BY <1>2, Joined
<1>4. l \in Seq(Bytes) /\ <<Len(l)>> \in Seq(Bytes) BY LabelBytes
<1>5. s.wire \o <<Len(l)>> \in Seq(Bytes) BY <1>1, <1>4, JoinedBytes
<1>6. (s.wire \o <<Len(l)>>) \o l \in Seq(Bytes) BY <1>4, <1>5, JoinedBytes
<1> QED BY <1>3, <1>6 DEF Extend, Spellings

LEMMA ExtendParts ==
  ASSUME NEW s, NEW l
  PROVE  /\ Extend(s, l).text = Dotted(s.text) \o l
         /\ Extend(s, l).wire = s.wire \o <<Len(l)>> \o l
BY DEF Extend

LEMMA SpellIs ==
  ASSUME NEW labels \in Seq(Labels)
  PROVE  \E f \in [0..Len(labels) -> Spellings] :
           /\ f[0] = Unspelt /\ f[Len(labels)] = Spell(labels)
           /\ \A k \in 1..Len(labels) : f[k] = Extend(f[k - 1], labels[k])
<1> DEFINE n == Len(labels)
           Step(it, t) == IF t = {} THEN Unspelt ELSE Extend(it[t \ {Max(t)}], labels[Max(t)])
           Solves(it) == it = [t \in SUBSET (DOMAIN labels) |-> Step(it, t)]
           chosen == CHOOSE it : Solves(it)
           f == [k \in 0..n |-> chosen[1..k]]
           op == [x \in Spellings \X Labels |-> Extend(x[1], x[2])]
<1>1. Spell(labels) = chosen[DOMAIN labels]
  BY DEF Spell, FoldLeft, MapThenFoldSet, Unspelt
<1>2. DOMAIN labels = 1..n /\ n \in Nat OBVIOUS
<1>3. \A s \in Spellings, l \in Labels : op[<<s, l>>] = Extend(s, l) OBVIOUS
<1>4. op \in [Spellings \X Labels -> Spellings]
  <2>1. \A x \in Spellings \X Labels : Extend(x[1], x[2]) \in Spellings BY ExtendIs
  <2> QED BY <2>1
<1>5. Unspelt \in Spellings BY DEF Unspelt, Spellings
<1> HIDE DEF op
<1>6. Folds(Spellings, Labels, op, Unspelt, labels, n) BY <1>4, <1>5, FoldExists
<1>7. PICK it \in [SUBSET (1..n) -> Spellings] : \A t \in SUBSET (1..n) :
        it[t] = IF t = {} THEN Unspelt ELSE op[<<it[t \ {Max(t)}], labels[Max(t)]>>]
  BY <1>6 DEF Folds
<1>8. ASSUME NEW t \in SUBSET (1..n) PROVE it[t] = Step(it, t)
  <2>1. CASE t # {}
    <3>1. Max(t) \in 1..n BY <1>2, <2>1, MaxWithin
    <3>2. labels[Max(t)] \in Labels BY <1>2, <3>1
    <3>3. t \ {Max(t)} \in SUBSET (1..n) OBVIOUS
    <3>4. it[t \ {Max(t)}] \in Spellings BY <1>7, <3>3
    <3> QED BY <1>3, <1>7, <2>1, <3>2, <3>4
  <2> QED BY <1>7, <2>1
<1>9. Solves(it) BY <1>2, <1>8
<1>10. Solves(chosen) BY <1>9
<1> HIDE DEF chosen
<1>11. \A t \in SUBSET (1..n) : chosen[t] = Step(chosen, t) BY <1>2, <1>10
<1>12. f[0] = Unspelt
  <2>1. 1..0 = {} /\ {} \in SUBSET (1..n) OBVIOUS
  <2>2. chosen[{}] = Unspelt BY <1>11, <2>1
  <2>3. f[0] = chosen[1..0] BY <1>2
  <2> QED BY <2>1, <2>2, <2>3
<1>13. ASSUME NEW k \in 1..n PROVE f[k] = Extend(f[k - 1], labels[k])
  <2>1. 1..k \in SUBSET (1..n) /\ 1..k # {} /\ Max(1..k) = k /\ (1..k) \ {Max(1..k)} = 1..(k - 1)
    BY <1>2, InitialSets
  <2>2. f[k] = chosen[1..k] /\ f[k - 1] = chosen[1..(k - 1)] BY <1>2
  <2> QED BY <1>11, <2>1, <2>2
<1>14. f[n] = Spell(labels) BY <1>1, <1>2
<1> HIDE DEF f
<1> DEFINE S == {k \in 0..n : f[k] \in Spellings}
<1>15. 0 \in S BY <1>2, <1>5, <1>12
<1>16. ASSUME NEW k \in 1..n, k - 1 \in S PROVE k \in S
  <2>1. labels[k] \in Labels /\ f[k - 1] \in Spellings BY <1>2, <1>16
  <2>2. f[k] \in Spellings /\ k \in 0..n BY <1>13, <2>1, ExtendIs
  <2> QED BY <2>2
<1> HIDE DEF S
<1>17. \A k \in 0..n : k \in S BY <1>2, <1>15, <1>16, UpTo
<1>18. f \in [0..n -> Spellings] BY <1>17 DEF S, f
<1> QED BY <1>12, <1>13, <1>14, <1>18

(* What stands at the beginning of a sequence.                             *)
Starts(t, p) == Len(p) <= Len(t) /\ \A i \in 1..Len(p) : t[i] = p[i]

LEMMA StartsJoined ==
  ASSUME NEW p \in Seq(Nat), NEW q \in Seq(Nat), NEW t \in Seq(Nat)
  PROVE  Starts(p \o q, p) /\ (Starts(t, p \o q) => Starts(t, p))
<1>1. /\ Len(p) \in Nat /\ Len(q) \in Nat /\ Len(p \o q) = Len(p) + Len(q)
      /\ \A i \in 1..Len(p) : (p \o q)[i] = p[i]
  BY LenIs, Joined
<1>2. Starts(p \o q, p) BY <1>1 DEF Starts
<1>3. ASSUME Starts(t, p \o q) PROVE Starts(t, p)
  <2>1. \A i \in 1..Len(p) : i \in 1..Len(p \o q) BY <1>1
  <2>2. Len(t) \in Nat BY LenIs
  <2> QED BY <1>1, <1>3, <2>1, <2>2 DEF Starts
<1> QED BY <1>2, <1>3

(* Every part of a spelling stands at the beginning of the whole, the next *)
(* label behind it.                                                        *)
Parts(labels, f) ==
  /\ labels \in Seq(Labels) /\ f \in [0..Len(labels) -> Spellings] /\ f[0] = Unspelt
  /\ \A k \in 1..Len(labels) : f[k] = Extend(f[k - 1], labels[k])
PartAt(labels, f, k) ==
  /\ labels[k] \in Labels /\ k - 1 \in 0..Len(labels) /\ k \in 0..Len(labels)
  /\ f[k - 1].text \in Seq(Nat) /\ f[k].text = Dotted(f[k - 1].text) \o labels[k]
  /\ f[k].text \in Seq(Nat) /\ f[k - 1].wire \in Seq(Bytes) /\ f[k].wire \in Seq(Bytes)
  /\ f[k].wire = f[k - 1].wire \o <<Len(labels[k])>> \o labels[k]
  /\ f[k].text # <<>>

LEMMA PartIs ==
  ASSUME NEW labels, NEW f, Parts(labels, f), NEW k \in 1..Len(labels)
  PROVE  PartAt(labels, f, k)
<1>1. labels \in Seq(Labels) /\ Len(labels) \in Nat BY DEF Parts
<1>2. k - 1 \in 0..Len(labels) /\ k \in 0..Len(labels) /\ labels[k] \in Labels BY <1>1
<1>3. f[k - 1] \in Spellings /\ f[k] \in Spellings BY <1>2 DEF Parts
<1>4. f[k] = Extend(f[k - 1], labels[k]) BY DEF Parts
<1>5. /\ f[k].text = Dotted(f[k - 1].text) \o labels[k]
      /\ f[k].wire = f[k - 1].wire \o <<Len(labels[k])>> \o labels[k]
  <2> DEFINE s == f[k - 1]
             l == labels[k]
  <2>1. f[k] = Extend(s, l) BY <1>4
  <2> HIDE DEF s, l
  <2>2. f[k].text = Dotted(s.text) \o l /\ f[k].wire = s.wire \o <<Len(l)>> \o l
    BY <2>1, ExtendParts, Zenon
  <2> QED BY <2>2 DEF s, l
<1>6. f[k].text # <<>>
  <2>1. Dotted(f[k - 1].text) \in Seq(Nat) BY <1>3, DottedIs DEF Spellings
  <2>2. labels[k] \in Seq(Nat) /\ Len(labels[k]) \in Nat /\ Len(labels[k]) >= 1 BY <1>2, LabelIs
  <2>3. Len(f[k].text) = Len(Dotted(f[k - 1].text)) + Len(labels[k]) BY <1>5, <2>1, <2>2, Joined
  <2>4. Len(Dotted(f[k - 1].text)) \in Nat BY <2>1, LenIs
  <2> DEFINE x == Len(Dotted(f[k - 1].text))
             y == Len(labels[k])
  <2>5. Len(f[k].text) = x + y /\ x \in Nat /\ y \in Nat /\ y >= 1 BY <2>2, <2>3, <2>4
  <2> HIDE DEF x, y
  <2>6. Len(f[k].text) # 0 BY <2>5
  <2> QED BY <1>3, <2>6, LenIs DEF Spellings
<1>7. f[k - 1].text \in Seq(Nat) /\ f[k].text \in Seq(Nat) /\ f[k - 1].wire \in Seq(Bytes) /\ f[k].wire \in Seq(Bytes)
  BY <1>3 DEF Spellings
<1> QED BY <1>2, <1>5, <1>6, <1>7 DEF PartAt

LEMMA StartsBefore ==
  ASSUME NEW labels, NEW f, Parts(labels, f), NEW k \in 1..Len(labels), NEW t \in Seq(Nat),
         NEW w \in Seq(Nat)
  PROVE  /\ Starts(t, f[k].text) => Starts(t, Dotted(f[k - 1].text)) /\ Starts(t, f[k - 1].text)
         /\ Starts(w, f[k].wire) => Starts(w, f[k - 1].wire \o <<Len(labels[k])>>)
                                    /\ Starts(w, f[k - 1].wire)
<1> DEFINE x == f[k - 1].text
           y == f[k - 1].wire
           l == labels[k]
           h == <<Len(l)>>
<1>1. /\ x \in Seq(Nat) /\ y \in Seq(Bytes) /\ l \in Labels
      /\ f[k].text = Dotted(x) \o l /\ f[k].wire = (y \o h) \o l
  <2>1. PartAt(labels, f, k) BY PartIs
  <2> QED BY <2>1 DEF PartAt
<1> HIDE DEF x, y, l
<1>2. Dotted(x) \in Seq(Nat) /\ l \in Seq(Nat) /\ y \in Seq(Nat) /\ h \in Seq(Nat)
  BY <1>1, DottedIs, LabelIs, LabelBytes, BytesAreNats
<1> HIDE DEF h
<1>3. y \o h \in Seq(Nat) BY <1>2, Joined
<1>4. Starts(t, Dotted(x) \o l) => Starts(t, Dotted(x)) BY <1>2, StartsJoined
<1>5. Starts(t, Dotted(x)) => Starts(t, x)
  <2>1. CASE x = <<>>
    <3>1. Dotted(x) = x BY <2>1 DEF Dotted
    <3> QED BY <3>1
  <2>2. CASE x # <<>>
    <3> DEFINE d == <<Dot>>
    <3>1. d \in Seq(Nat) BY DEF Dot
    <3>2. Dotted(x) = x \o d
      <4>1. Dotted(x) = Append(x, Dot) BY <2>2 DEF Dotted
      <4>2. Append(x, Dot) = x \o d BY <1>1
      <4> QED BY <4>1, <4>2
    <3> HIDE DEF d
    <3> QED BY <1>1, <3>1, <3>2, StartsJoined
  <2> QED BY <2>1, <2>2
<1>6. Starts(w, (y \o h) \o l) => Starts(w, y \o h) BY <1>2, <1>3, StartsJoined
<1>7. Starts(w, y \o h) => Starts(w, y) BY <1>2, StartsJoined
<1> QED BY <1>1, <1>4, <1>5, <1>6, <1>7 DEF x, y, l, h

LEMMA PartsStart ==
  ASSUME NEW labels, NEW f, Parts(labels, f), NEW t \in Seq(Nat), NEW w \in Seq(Nat),
         Starts(t, f[Len(labels)].text), Starts(w, f[Len(labels)].wire), NEW k \in 0..Len(labels)
  PROVE  Starts(t, f[k].text) /\ Starts(w, f[k].wire)
<1> DEFINE c == Len(labels)
           Good(j) == Starts(t, f[j].text) /\ Starts(w, f[j].wire)
           S == {j \in 0..c : Good(c - j)}
<1>1. c \in Nat BY DEF Parts
<1>2. 0 \in S
  <2>1. c - 0 = c /\ 0 \in 0..c BY <1>1
  <2> QED BY <2>1
<1>3. ASSUME NEW j \in 1..c, j - 1 \in S PROVE j \in S
  <2> DEFINE i == c - (j - 1)
  <2>1. i \in 1..c /\ i - 1 = c - j /\ j \in 0..c BY <1>1
  <2>2. Good(i) BY <1>3
  <2> HIDE DEF i
  <2>3. Good(i - 1) BY <2>1, <2>2, StartsBefore
  <2> HIDE DEF Good
  <2> QED BY <2>1, <2>3
<1> HIDE DEF S
<1>4. \A j \in 0..c : j \in S BY <1>1, <1>2, <1>3, UpTo
<1>5. c - k \in 0..c /\ c - (c - k) = k BY <1>1
<1>6. c - k \in S BY <1>4, <1>5
<1> HIDE DEF Good
<1>7. Good(c - (c - k)) BY <1>6 DEF S
<1> QED BY <1>5, <1>7 DEF Good

(* encode_name's next label.                                               *)
LEMMA LabelEndIn ==
  ASSUME NEW t \in Seq(Nat), NEW i \in 1..Len(t)
  PROVE  LabelEnd(t, i) \in i..(Len(t) + 1)
<1> DEFINE dots == {j \in i..Len(t) : t[j] = Dot}
<1>1. Len(t) \in Nat BY LenIs
<1>2. CASE dots = {} BY <1>1, <1>2 DEF LabelEnd
<1>3. CASE dots # {}
  <2>1. dots \in SUBSET Nat BY <1>1
  <2>2. \E j \in dots : \A k \in dots : j <= k BY <1>3, <2>1, LeastNatural
  <2>3. LabelEnd(t, i) = CHOOSE j \in dots : \A k \in dots : j <= k BY <1>3 DEF LabelEnd
  <2>4. LabelEnd(t, i) \in dots BY <2>2, <2>3
  <2>5. \A j \in dots : j \in i..(Len(t) + 1) BY <1>1
  <2> QED BY <2>4, <2>5
<1> QED BY <1>2, <1>3

LEMMA LabelEndIs ==
  ASSUME NEW t \in Seq(Nat), NEW p \in Seq(Nat), NEW l \in Labels, Starts(t, p \o l),
         Len(p) + Len(l) < Len(t) => t[Len(p) + Len(l) + 1] = Dot
  PROVE  /\ Len(p) + 1 <= Len(t) /\ LabelEnd(t, Len(p) + 1) = Len(p) + Len(l) + 1
         /\ SubSeq(t, Len(p) + 1, Len(p) + Len(l)) = l
<1> DEFINE n == Len(p)
           b == Len(l)
           i == n + 1
           e == n + b + 1
           dots == {j \in i..Len(t) : t[j] = Dot}
<1>1. n \in Nat /\ b \in Nat /\ b >= 1 /\ Len(t) \in Nat /\ l \in Seq(Nat) BY LenIs, LabelIs
<1>2. Len(p \o l) = n + b /\ \A k \in 1..b : (p \o l)[n + k] = l[k] BY <1>1, Joined
<1>3. n + b <= Len(t) /\ \A k \in 1..(n + b) : t[k] = (p \o l)[k] BY <1>2 DEF Starts
<1>4. ASSUME NEW k \in 1..b PROVE t[n + k] = l[k] /\ t[n + k] # Dot
  <2>1. n + k \in 1..(n + b) BY <1>1
  <2>2. t[n + k] = l[k] BY <1>2, <1>3, <2>1
  <2>3. l[k] \in 65..90 BY LabelIs
  <2> DEFINE x == l[k]
  <2>x. x \in 65..90 BY <2>3
  <2> HIDE DEF x
  <2>y. x # Dot BY <2>x DEF Dot
  <2>4. l[k] # Dot BY <2>y DEF x
  <2> QED BY <2>2, <2>4
<1> HIDE DEF n, b
<1>5. ASSUME NEW j \in i..Len(t), t[j] = Dot PROVE j >= e
  <2> SUFFICES ASSUME j < e PROVE FALSE BY <1>1
  <2> DEFINE k == j - n
  <2>1. k \in 1..b /\ n + k = j BY <1>1
  <2> HIDE DEF k
  <2> QED BY <1>4, <1>5, <2>1
<1>6. LabelEnd(t, i) = e
  <2>1. CASE n + b < Len(t)
    <3>1. e \in dots BY <1>1, <2>1 DEF n, b
    <3>2. \A j \in dots : e <= j BY <1>5
    <3>3. LabelEnd(t, i) = CHOOSE j \in dots : \A k \in dots : j <= k BY <3>1 DEF LabelEnd
    <3>4. \A j \in dots : (\A k \in dots : j <= k) => j = e
      <4>1. \A j \in dots : j \in Int BY <1>1
      <4>2. e \in Int BY <1>1
      <4> QED BY <3>1, <3>2, <4>1, <4>2
    <3> HIDE DEF dots, i, e
    <3> QED BY <3>1, <3>2, <3>3, <3>4
  <2>2. CASE ~(n + b < Len(t))
    <3> DEFINE tt == Len(t)
    <3>0. n + b <= tt /\ tt \in Nat /\ ~(n + b < tt) BY <1>1, <1>3, <2>2
    <3> HIDE DEF tt
    <3>a. n + b + 1 = tt + 1 BY <1>1, <3>0
    <3>1. e = Len(t) + 1 BY <3>a DEF tt
    <3>2. dots = {} BY <1>1, <1>5, <3>1
    <3> QED BY <3>1, <3>2 DEF LabelEnd
  <2> QED BY <2>1, <2>2
<1>7. i <= Len(t) BY <1>1, <1>3
<1>8. SubSeq(t, i, n + b) = l
  <2> DEFINE s == SubSeq(t, i, n + b)
  <2>1. \A j \in i..(n + b) : t[j] \in Nat
    <3>1. \A j \in i..(n + b) : j \in 1..Len(t) BY <1>1, <1>3
    <3> QED BY <3>1
  <2>2. i \in Int /\ n + b \in Int /\ i <= n + b /\ (n + b) - i + 1 = b BY <1>1
  <2>3. /\ s \in Seq(Nat) /\ Len(s) = IF i <= n + b THEN (n + b) - i + 1 ELSE 0
        /\ \A k \in 1..(n + b) - i + 1 : s[k] = t[i + k - 1]
    BY <2>1, <2>2, SubSeqProperties
  <2>4. \A k \in 1..b : i + k - 1 = n + k BY <1>1
  <2> HIDE DEF s, i
  <2>5. Len(s) = b /\ \A k \in 1..b : s[k] = l[k] BY <1>4, <2>2, <2>3, <2>4
  <2>6. Len(s) = Len(l) /\ \A k \in 1..Len(s) : s[k] = l[k] BY <2>5 DEF b
  <2>7. s = l BY <1>1, <2>3, <2>6, SeqEqual
  <2> QED BY <2>7 DEF s, i
<1> QED BY <1>6, <1>7, <1>8 DEF n, b

(* encode_name's result is that of its loop.                               *)
CutStates(t) == [at : 1..(Len(t) + 1), out : Seq(Nat)]
Encodings == [ok : BOOLEAN, wire : Seq(Nat)]
IsCutLoop(t, cap, g) ==
  \A c \in CutStates(t) : g[c] = IF Cuts(t, c, cap) THEN g[CutOff(t, c)] ELSE Written(t, c)

LEMMA CutIs ==
  ASSUME NEW t \in Seq(Nat), NEW c \in CutStates(t), NEW cap \in Nat, Cuts(t, c, cap)
  PROVE  CutOff(t, c) \in CutStates(t) /\ CutOff(t, c).at > c.at
<1> DEFINE e == LabelEnd(t, c.at)
           i == c.at
           s == SubSeq(t, i, e - 1)
           h == <<e - i>>
           n == Len(t)
           next == IF e > n THEN e ELSE e + 1
           sent == c.out
<1>1. i \in 1..(n + 1) /\ sent \in Seq(Nat) /\ n \in Nat BY LenIs DEF CutStates
<1>2. i <= n /\ e - i \in 1..MaxLabel BY DEF Cuts
<1>3. e \in i..(n + 1) BY <1>1, <1>2, LabelEndIn
<1>4. MaxLabel \in Nat BY Limits
<1>5. CutOff(t, c) = [at |-> next, out |-> sent \o h \o s] BY DEF CutOff, CutAt
<1>6. s \in Seq(Nat)
  <2>1. \A j \in i..(e - 1) : t[j] \in Nat
    <3>1. \A j \in i..(e - 1) : j \in 1..n BY <1>1, <1>2, <1>3
    <3> QED BY <3>1
  <2>2. i \in Int /\ e - 1 \in Int BY <1>1, <1>3
  <2> QED BY <2>1, <2>2, SubSeqProperties
<1> HIDE DEF e, i, s, n, sent
<1>7. e - i \in Nat /\ e > i BY <1>1, <1>2, <1>3, <1>4
<1>8. h \in Seq(Nat) BY <1>7
<1> HIDE DEF h
<1>9. (sent \o h) \o s \in Seq(Nat) BY <1>1, <1>6, <1>8, Joined
<1>10. next \in 1..(n + 1) /\ next > i BY <1>1, <1>2, <1>3, <1>7
<1> HIDE DEF next
<1> DEFINE w == (sent \o h) \o s
<1>11. CutOff(t, c) = [at |-> next, out |-> w] BY <1>5
<1>12. CutOff(t, c).at = next /\ CutOff(t, c) \in [at : 1..(n + 1), out : Seq(Nat)]
  <2> HIDE DEF w
  <2>1. w \in Seq(Nat) BY <1>9 DEF w
  <2> QED BY <1>10, <1>11, <2>1
<1> QED BY <1>10, <1>12 DEF CutStates, n, i

LEMMA WrittenIs ==
  ASSUME NEW t \in Seq(Nat), NEW c \in CutStates(t)
  PROVE  Written(t, c) \in Encodings
<1>1. c.out \in Seq(Nat) /\ Append(c.out, 0) \in Seq(Nat) BY DEF CutStates
<1> QED BY <1>1 DEF Written, Encodings

LEMMA EncodeIs ==
  ASSUME NEW t \in Seq(Nat), NEW cap \in Nat
  PROVE  \E g : IsCutLoop(t, cap, g) /\ EncodeName(t, cap) = g[CutAt(1, <<>>)]
<1> DEFINE D == CutStates(t)
           Body(g, c) == IF Cuts(t, c, cap) THEN g[CutOff(t, c)] ELSE Written(t, c)
           Solves(g) == g = [c \in D |-> Body(g, c)]
           chosen == CHOOSE g : Solves(g)
           rank == [c \in D |-> Len(t) + 1 - c.at]
           go == {c \in D : Cuts(t, c, cap)}
           next == [c \in go |-> CutOff(t, c)]
           val == [c \in D |-> Written(t, c)]
<1>1. EncodeName(t, cap) = chosen[CutAt(1, <<>>)] BY DEF EncodeName, CutStates
<1>0. Len(t) \in Nat BY LenIs
<1>2. rank \in [D -> 0..Len(t)]
  <2>1. \A c \in D : c.at \in 1..(Len(t) + 1) BY DEF CutStates
  <2>2. \A c \in D : Len(t) + 1 - c.at \in 0..Len(t) BY <1>0, <2>1
  <2> QED BY <2>2
<1>3. next \in [go -> D] BY CutIs
<1>4. val \in [D -> Encodings] BY WrittenIs
<1>5. ASSUME NEW d \in go PROVE rank[next[d]] < rank[d]
  <2>1. CutOff(t, d) \in D /\ CutOff(t, d).at > d.at BY CutIs
  <2>2. CutOff(t, d).at \in 1..(Len(t) + 1) /\ d.at \in 1..(Len(t) + 1) BY <2>1 DEF CutStates
  <2> DEFINE x == CutOff(t, d)
  <2>3. x \in D /\ x.at > d.at /\ x.at \in 1..(Len(t) + 1) BY <2>1, <2>2
  <2>4. next[d] = x OBVIOUS
  <2> HIDE DEF x, next
  <2>5. rank[x] = Len(t) + 1 - x.at /\ rank[d] = Len(t) + 1 - d.at BY <2>3
  <2> QED BY <1>0, <2>2, <2>3, <2>4, <2>5
<1>6. go \in SUBSET D OBVIOUS
<1>7. /\ \A c \in D : val[c] = Written(t, c) /\ (c \in go <=> Cuts(t, c, cap))
      /\ \A c \in go : next[c] = CutOff(t, c)
  OBVIOUS
<1> HIDE DEF rank, go, next, val
<1>8. PICK f : Loops(D, Encodings, go, next, val, f)
  BY <1>0, <1>2, <1>3, <1>4, <1>5, <1>6, LoopExists
<1>9. \A c \in D : f[c] = Body(f, c) BY <1>7, <1>8 DEF Loops
<1>10. Solves(f) BY <1>8, <1>9 DEF Loops
<1>11. Solves(chosen) BY <1>10
<1>12. \A c \in D : chosen[c] = Body(chosen, c) BY <1>11
<1> HIDE DEF chosen
<1> QED BY <1>1, <1>12 DEF IsCutLoop

(* In the text of labels, a dot ends each but the last, and may end that.  *)
Separated(t, labels, f, k) ==
  /\ Len(f[k].text) <= Len(t)
  /\ Starts(t, f[k].text)
  /\ Len(f[k].text) < Len(t) => t[Len(f[k].text) + 1] = Dot
  /\ IF k = Len(labels) THEN Len(t) <= Len(f[k].text) + 1 ELSE Len(f[k].text) < Len(t)

LEMMA SeparatedIs ==
  ASSUME NEW labels, NEW f, Parts(labels, f), NEW dot \in {<<>>, <<Dot>>}, NEW t \in Seq(Nat),
         t = f[Len(labels)].text \o dot, NEW k \in 1..Len(labels)
  PROVE  Separated(t, labels, f, k)
<1> DEFINE c == Len(labels)
           whole == f[c].text
           w == f[c].wire
           x == f[k].text
           d == <<Dot>>
<1>1. c \in Nat /\ c >= 1 /\ c \in 1..c
  <2>1. c \in Nat BY DEF Parts
  <2> QED BY <2>1
<1>2. d \in Seq(Nat) /\ Len(d) = 1 /\ d[1] = Dot /\ <<>> \in Seq(Nat) /\ Len(<<>>) = 0 BY DEF Dot
<1>3. whole \in Seq(Nat) /\ w \in Seq(Nat)
  <2>1. PartAt(labels, f, c) BY <1>1, PartIs
  <2> QED BY <2>1, BytesAreNats DEF PartAt
<1>4. x \in Seq(Nat) /\ x # <<>>
  <2>1. PartAt(labels, f, k) BY PartIs
  <2> QED BY <2>1 DEF PartAt
<1>5. t = whole \o dot /\ dot \in {<<>>, d} OBVIOUS
<1> HIDE DEF whole, w, x, d
<1>6. dot \in Seq(Nat) /\ Len(dot) \in {0, 1} /\ (Len(dot) = 1 => dot[1] = Dot) BY <1>2, <1>5
<1>7. /\ Len(t) = Len(whole) + Len(dot) /\ Len(whole) \in Nat
      /\ Len(dot) = 1 => t[Len(whole) + 1] = Dot
  <2>1. /\ Len(whole \o dot) = Len(whole) + Len(dot)
        /\ \A i \in 1..Len(dot) : (whole \o dot)[Len(whole) + i] = dot[i]
    BY <1>3, <1>6, Joined
  <2> QED BY <1>3, <1>5, <1>6, <2>1, LenIs
<1>8. Starts(t, whole) BY <1>3, <1>5, <1>6, StartsJoined
<1>9. Starts(w, w)
  <2>1. Len(w) \in Nat BY <1>3, LenIs
  <2> QED BY <2>1 DEF Starts
<1>10. Starts(t, f[c].text) /\ Starts(w, f[c].wire) BY <1>8, <1>9 DEF whole, w
<1>11. \A j \in 0..c : Starts(t, f[j].text) BY <1>3, <1>10, PartsStart
<1>12. Starts(t, x) /\ Len(x) <= Len(t)
  <2>1. k \in 0..c BY <1>1
  <2>2. Starts(t, x) BY <1>11, <2>1 DEF x
  <2> QED BY <2>2 DEF Starts
<1>13. CASE k = c
  <2>1. x = whole BY <1>13 DEF x, whole
  <2> DEFINE p == Len(whole)
             q == Len(dot)
             r == Len(t)
             here == t[p + 1] = Dot
  <2>a. r = p + q /\ p \in Nat /\ q \in {0, 1} /\ (q = 1 => here) BY <1>6, <1>7
  <2> HIDE DEF p, q, r, here
  <2>b. (p < r => here) /\ r <= p + 1 BY <2>a
  <2>c. Len(x) = p BY <2>1 DEF p
  <2>2. Len(x) < Len(t) => t[Len(x) + 1] = Dot BY <2>b, <2>c DEF r, here
  <2>3. Len(t) <= Len(x) + 1 BY <2>b, <2>c DEF r
  <2> QED BY <1>12, <1>13, <2>2, <2>3 DEF Separated, x
<1>14. CASE k # c
  <2>1. k + 1 \in 1..c /\ k + 1 \in 0..c /\ (k + 1) - 1 = k BY <1>1, <1>14
  <2> DEFINE y == f[k + 1]
  <2>2. Starts(t, y.text) BY <1>11, <2>1
  <2>3. Starts(t, Dotted(f[(k + 1) - 1].text)) BY <1>3, <2>1, <2>2, StartsBefore
  <2>4. Starts(t, Dotted(x)) BY <2>1, <2>3 DEF x
  <2>5. Dotted(x) = x \o d
    <3>1. Dotted(x) = Append(x, Dot) BY <1>4 DEF Dotted
    <3>2. Append(x, Dot) = x \o d BY <1>4, AppendIsConcat DEF d, Dot
    <3> QED BY <3>1, <3>2
  <2>6. Len(x \o d) = Len(x) + 1 /\ Len(x) \in Nat /\ (x \o d)[Len(x) + 1] = Dot
    <3>1. Len(x \o d) = Len(x) + Len(d) /\ \A i \in 1..Len(d) : (x \o d)[Len(x) + i] = d[i]
      BY <1>2, <1>4, Joined
    <3> QED BY <1>2, <1>4, <3>1, LenIs
  <2>7. Len(x) < Len(t) /\ t[Len(x) + 1] = Dot
    <3>1. Len(x \o d) <= Len(t) /\ \A i \in 1..Len(x \o d) : t[i] = (x \o d)[i]
      BY <2>4, <2>5 DEF Starts
    <3>2. Len(t) \in Nat BY LenIs
    <3> DEFINE p == Len(x)
               r == Len(t)
               z == x \o d
    <3>3. p \in Nat /\ r \in Nat /\ Len(z) = p + 1 /\ z[p + 1] = Dot /\ Len(z) <= r
          /\ \A i \in 1..Len(z) : t[i] = z[i]
      BY <2>6, <3>1, <3>2
    <3> HIDE DEF p, r, z
    <3>4. p + 1 \in 1..Len(z) BY <3>3
    <3>6. t[p + 1] = z[p + 1] BY <3>3, <3>4
    <3>7. p < r BY <3>3
    <3>5. p < r /\ t[p + 1] = Dot BY <3>3, <3>6, <3>7
    <3> QED BY <3>5 DEF p, r
  <2> QED BY <1>12, <1>14, <2>7 DEF Separated, x
<1> QED BY <1>13, <1>14

(* Where encode_name stands once k labels are written.                     *)
Place(t, labels, f, k) == IF k = Len(labels) THEN Len(t) + 1 ELSE Len(Dotted(f[k].text)) + 1
CutBy(t, labels, f, k) == CutAt(Place(t, labels, f, k), f[k].wire)
CutsOn(t, labels, f, g, k) ==
  \/ g[CutBy(t, labels, f, k - 1)] = g[CutBy(t, labels, f, k)]
  \/ g[CutBy(t, labels, f, k - 1)].ok = FALSE

LEMMA CutsNext ==
  ASSUME NEW labels, NEW f, Parts(labels, f), NEW dot \in {<<>>, <<Dot>>}, NEW t \in Seq(Nat),
         t = f[Len(labels)].text \o dot, NEW cap \in Nat, NEW g, IsCutLoop(t, cap, g),
         NEW k \in 1..Len(labels)
  PROVE  CutsOn(t, labels, f, g, k)
<1> DEFINE c == Len(labels)
           dx == Dotted(f[k - 1].text)
           y == f[k - 1].wire
           l == labels[k]
           p == Len(dx)
           b == Len(l)
           r == Len(t)
           here == t[p + b + 1] = Dot
           s == CutAt(p + 1, y)
           h == <<b>>
<1>1. /\ dx \in Seq(Nat) /\ y \in Seq(Nat) /\ l \in Labels /\ l \in Seq(Nat)
      /\ f[k].text = dx \o l /\ f[k].wire = (y \o h) \o l /\ f[k].text \in Seq(Nat)
      /\ f[k].text # <<>>
  <2>1. PartAt(labels, f, k) BY PartIs
  <2> QED BY <2>1, DottedIs, LabelIs, BytesAreNats DEF PartAt
<1>2. p \in Nat /\ b \in Nat /\ b >= 1 /\ r \in Nat /\ Len(f[k].text) = p + b /\ c \in Nat
  <2>1. p \in Nat /\ b \in Nat /\ b >= 1 /\ r \in Nat BY <1>1, LenIs, LabelIs
  <2>2. Len(dx \o l) = p + b BY <1>1, Joined
  <2>3. c \in Nat BY DEF Parts
  <2> QED BY <1>1, <2>1, <2>2, <2>3
<1>3. /\ Starts(t, dx \o l) /\ p + b <= r /\ (p + b < r => here)
      /\ IF k = c THEN r <= p + b + 1 ELSE p + b < r
  <2>1. Separated(t, labels, f, k) BY SeparatedIs
  <2> QED BY <1>1, <1>2, <2>1 DEF Separated
<1>4. p + 1 <= r /\ LabelEnd(t, p + 1) = p + b + 1 /\ SubSeq(t, p + 1, p + b) = l
  BY <1>1, <1>3, LabelEndIs
<1>5. Len(Dotted(f[k].text)) = p + b + 1 BY <1>1, <1>2, DottedIs
<1>6. Place(t, labels, f, k - 1) = p + 1
  <2>1. k - 1 # c BY <1>2
  <2> QED BY <2>1 DEF Place
<1>7. Place(t, labels, f, k) = IF p + b + 1 > r THEN p + b + 1 ELSE p + b + 2
  <2>1. Place(t, labels, f, k) = IF k = c THEN r + 1 ELSE p + b + 2
    <3> DEFINE z == Len(Dotted(f[k].text))
    <3>1. z = p + b + 1 BY <1>5
    <3>2. Place(t, labels, f, k) = IF k = c THEN r + 1 ELSE z + 1 BY DEF Place
    <3> HIDE DEF z, p, b, r, c
    <3>3. z + 1 = p + b + 2 BY <1>2, <3>1
    <3> QED BY <3>2, <3>3
  <2> HIDE DEF p, b, r, c
  <2> QED BY <1>2, <1>3, <2>1
<1>8. CutBy(t, labels, f, k - 1) = s BY <1>6 DEF CutBy
<1>9. CutOff(t, s) = CutBy(t, labels, f, k)
  <2>1. s.at = p + 1 /\ s.out = y BY DEF CutAt
  <2>2. CutOff(t, s) = CutAt(IF p + b + 1 > r THEN p + b + 1 ELSE (p + b + 1) + 1,
                             y \o <<(p + b + 1) - (p + 1)>> \o SubSeq(t, p + 1, (p + b + 1) - 1))
    BY <1>4, <2>1 DEF CutOff
  <2> HIDE DEF p, b, r, s, dx, y, l
  <2>3. (p + b + 1) + 1 = p + b + 2 /\ (p + b + 1) - (p + 1) = b /\ (p + b + 1) - 1 = p + b BY <1>2
  <2>4. CutOff(t, s) = CutAt(IF p + b + 1 > r THEN p + b + 1 ELSE p + b + 2, y \o h \o l)
    BY <1>4, <2>2, <2>3
  <2> HIDE DEF h
  <2> QED BY <1>1, <1>7, <2>4 DEF CutBy
<1>10. s \in CutStates(t)
  <2>1. p + 1 \in 1..(r + 1)
    <3> HIDE DEF p, r
    <3>1. p + 1 <= r /\ p \in Nat /\ r \in Nat BY <1>2, <1>4
    <3> QED BY <3>1
  <2> HIDE DEF p, dx, y
  <2> QED BY <1>1, <2>1 DEF CutStates, CutAt
<1>11. CASE Cuts(t, s, cap)
  <2>1. g[s] = g[CutOff(t, s)] BY <1>10, <1>11 DEF IsCutLoop
  <2> QED BY <1>8, <1>9, <2>1 DEF CutsOn
<1>12. CASE ~Cuts(t, s, cap)
  <2>1. g[s] = Written(t, s) BY <1>10, <1>12 DEF IsCutLoop
  <2>2. s.at = p + 1 BY DEF CutAt
  <2>3. ~(s.at > r) BY <1>2, <1>4, <2>2
  <2>4. Written(t, s).ok = FALSE BY <2>3 DEF Written
  <2> QED BY <1>8, <2>1, <2>4 DEF CutsOn
<1> QED BY <1>11, <1>12

LEMMA EncodedIsSpelled ==
  ASSUME NEW labels, NEW f, Parts(labels, f), labels # <<>>, NEW dot \in {<<>>, <<Dot>>},
         NEW t \in Seq(Nat), t = f[Len(labels)].text \o dot, NEW cap \in Nat,
         EncodeName(t, cap).ok
  PROVE  EncodeName(t, cap).wire = Append(f[Len(labels)].wire, 0)
<1> DEFINE c == Len(labels)
<1>1. PICK g : IsCutLoop(t, cap, g) /\ EncodeName(t, cap) = g[CutAt(1, <<>>)] BY EncodeIs
<1>2. c \in Nat /\ c >= 1
  <2>1. labels \in Seq(Labels) BY DEF Parts
  <2> QED BY <2>1, EmptySeq
<1>3. CutBy(t, labels, f, 0) = CutAt(1, <<>>)
  <2>1. f[0].text = <<>> /\ f[0].wire = <<>> BY DEF Parts, Unspelt
  <2>2. Len(Dotted(f[0].text)) + 1 = 1
    <3>1. Dotted(f[0].text) = <<>> BY <2>1 DEF Dotted
    <3> QED BY <3>1
  <2>3. Place(t, labels, f, 0) = 1 BY <1>2, <2>2 DEF Place
  <2> QED BY <2>1, <2>3 DEF CutBy
<1> DEFINE first == g[CutAt(1, <<>>)]
           S == {k \in 0..c : first = g[CutBy(t, labels, f, k)] \/ first.ok = FALSE}
<1>4. 0 \in S BY <1>2, <1>3
<1> HIDE DEF first
<1>5. ASSUME NEW k \in 1..c, k - 1 \in S PROVE k \in S
  <2>1. CutsOn(t, labels, f, g, k) BY <1>1, CutsNext
  <2>2. k \in 0..c BY <1>2
  <2>3. first = g[CutBy(t, labels, f, k - 1)] \/ first.ok = FALSE BY <1>5
  <2>4. first = g[CutBy(t, labels, f, k)] \/ first.ok = FALSE BY <2>1, <2>3 DEF CutsOn
  <2> QED BY <2>2, <2>4
<1>6. c \in S
  <2> HIDE DEF S, c
  <2>1. \A k \in 0..c : k \in S BY <1>2, <1>4, <1>5, UpTo
  <2>2. c \in 0..c BY <1>2
  <2> QED BY <2>1, <2>2
<1> DEFINE s == CutBy(t, labels, f, c)
<1>7. first = EncodeName(t, cap) /\ first.ok BY <1>1 DEF first
<1>8. first = g[s] BY <1>6, <1>7
<1>9. s.at = Len(t) + 1 /\ s.out = f[c].wire BY DEF CutBy, Place, CutAt
<1>10. f[c].wire \in Seq(Nat)
  <2>1. c \in 1..c BY <1>2
  <2>2. PartAt(labels, f, c) BY <2>1, PartIs
  <2> QED BY <2>2, BytesAreNats DEF PartAt
<1>11. Len(t) \in Nat BY LenIs
<1>12. s \in CutStates(t)
  <2>1. Len(t) + 1 \in 1..(Len(t) + 1) BY <1>11
  <2>2. s = [at |-> Len(t) + 1, out |-> f[c].wire] BY DEF CutBy, Place, CutAt
  <2> QED BY <1>10, <2>1, <2>2 DEF CutStates
<1>13. ~Cuts(t, s, cap) BY <1>9, <1>11 DEF Cuts
<1>14. g[s] = Written(t, s)
  <2> HIDE DEF s
  <2> QED BY <1>1, <1>12, <1>13 DEF IsCutLoop
<1>15. Written(t, s) = [ok |-> TRUE, wire |-> Append(s.out, 0)] BY <1>9, <1>11 DEF Written
<1>16. first.wire = Append(s.out, 0) BY <1>8, <1>14, <1>15
<1> QED BY <1>7, <1>9, <1>16

-----------------------------------------------------------------------------
(***************************************************************************)
(* A server's message.  What is written behind it leaves the names in it as*)
(* they are, and spells the new one.                                       *)
(***************************************************************************)
(* A message that grows keeps what it says.                                *)
LEMMA BytesKept ==
  ASSUME NEW m \in Seq(Bytes), NEW q \in Seq(Bytes)
  PROVE  /\ m \o q \in Seq(Bytes) /\ Len(m \o q) = Len(m) + Len(q)
         /\ Len(m) \in Nat /\ Len(q) \in Nat
         /\ \A i \in Nat : i < Len(m) => (m \o q)[i + 1] = m[i + 1]
         /\ \A i \in Nat : i < Len(q) => (m \o q)[Len(m) + i + 1] = q[i + 1]
<1>1. /\ m \o q \in Seq(Bytes) /\ Len(m \o q) = Len(m) + Len(q)
      /\ \A i \in 1..Len(m) : (m \o q)[i] = m[i]
      /\ \A i \in 1..Len(q) : (m \o q)[Len(m) + i] = q[i]
  BY JoinedBytes
<1> DEFINE s == m \o q
           n == Len(m)
           k == Len(q)
<1>2. n \in Nat /\ k \in Nat BY LenIs, BytesAreNats
<1>3. /\ s \in Seq(Bytes) /\ Len(s) = n + k
      /\ \A i \in 1..n : s[i] = m[i]
      /\ \A i \in 1..k : s[n + i] = q[i]
  BY <1>1
<1> HIDE DEF s, n, k
<1>4. ASSUME NEW i \in Nat, i < n PROVE s[i + 1] = m[i + 1]
  <2>1. i + 1 \in 1..n BY <1>2, <1>4
  <2> QED BY <1>3, <2>1
<1>5. ASSUME NEW i \in Nat, i < k PROVE s[n + i + 1] = q[i + 1]
  <2>1. i + 1 \in 1..k /\ n + i + 1 = n + (i + 1) BY <1>2, <1>5
  <2>2. s[n + (i + 1)] = q[i + 1] BY <1>3, <2>1
  <2> QED BY <2>1, <2>2
<1> QED BY <1>2, <1>3, <1>4, <1>5 DEF s, n, k

LEMMA LaidGrows ==
  ASSUME NEW m \in Seq(Bytes), NEW q \in Seq(Bytes), NEW pos \in Nat, NEW labels, NEW a, NEW f,
         Laid(m, pos, labels, a, f)
  PROVE  Laid(m \o q, pos, labels, a, f)
<1> DEFINE s == m \o q
<1>1. /\ Len(m) \in Nat /\ Len(q) \in Nat /\ Len(s) = Len(m) + Len(q)
      /\ \A i \in Nat : i < Len(m) => s[i + 1] = m[i + 1]
  BY BytesKept
<1> HIDE DEF s
<1>2. ASSUME NEW k \in 1..Len(labels)
      PROVE  /\ a[k] = a[k - 1] + 1 + Len(labels[k]) /\ a[k] <= Len(s)
             /\ s[a[k - 1] + 1] = Len(labels[k])
             /\ \A i \in 1..Len(labels[k]) : Lower(s[a[k - 1] + 1 + i]) = Lower(labels[k][i])
             /\ f[k] = Dotted(f[k - 1]) \o labels[k]
  <2>0. LaidAt(m, labels, a, f, k) BY LaidIs
  <2> DEFINE p == a[k - 1]
             e == a[k]
             b == Len(labels[k])
             l == labels[k]
  <2>1. /\ p \in Nat /\ e \in Nat /\ e = p + 1 + b /\ e <= Len(m) /\ m[p + 1] = b
        /\ \A i \in 1..b : Lower(m[p + 1 + i]) = Lower(l[i])
        /\ f[k] = Dotted(f[k - 1]) \o l /\ l \in Labels
    BY <2>0 DEF LaidAt
  <2>2. b \in Nat BY <2>1, LabelIs
  <2> HIDE DEF p, e, b, l
  <2>3. e <= Len(s) /\ p < Len(m) BY <1>1, <2>1, <2>2
  <2>4. s[p + 1] = b BY <1>1, <2>1, <2>3
  <2>5. ASSUME NEW i \in 1..b PROVE Lower(s[p + 1 + i]) = Lower(l[i])
    <3> DEFINE x == p + i
    <3>1. x \in Nat /\ x < Len(m) /\ p + 1 + i = x + 1 BY <1>1, <2>1, <2>2
    <3> HIDE DEF x
    <3>2. s[x + 1] = m[x + 1] BY <1>1, <3>1
    <3>3. Lower(m[p + 1 + i]) = Lower(l[i]) BY <2>1
    <3> QED BY <3>1, <3>2, <3>3
  <2>6. f[k] = Dotted(f[k - 1]) \o l BY <2>1
  <2> QED BY <2>1, <2>3, <2>4, <2>5, <2>6 DEF p, e, b, l
<1> QED BY <1>2 DEF Laid, s

LEMMA SpelledGrows ==
  ASSUME NEW m \in Seq(Bytes), NEW q \in Seq(Bytes), NEW ns, NEW more, ns \subseteq more,
         NEW nm \in NameRecords, Spelled(m, ns, nm)
  PROVE  Spelled(m \o q, more, nm)
<1> DEFINE s == m \o q
<1>1. nm.at \in Nat BY DEF NameRecords
<1>2. PICK labels, a, f :
        /\ Laid(m, nm.at, labels, a, f)
        /\ \/ EndsThere(m, nm, Len(labels), a[Len(labels)], f[Len(labels)])
           \/ \E t \in ns : PointsTo(m, nm, Len(labels), a[Len(labels)], f[Len(labels)], t)
  BY DEF Spelled
<1> DEFINE c == Len(labels)
           last == a[c]
           own == f[c]
<1>3. Laid(s, nm.at, labels, a, f) BY <1>1, <1>2, LaidGrows
<1>4. last \in Nat
  <2>1. c \in 0..c /\ a \in [0..c -> Nat] BY <1>2 DEF Laid
  <2> QED BY <2>1
<1>5. /\ Len(m) \in Nat /\ Len(q) \in Nat /\ Len(s) = Len(m) + Len(q)
      /\ \A i \in Nat : i < Len(m) => s[i + 1] = m[i + 1]
  BY BytesKept
<1> HIDE DEF s, c, last, own
<1>6. last < Len(m) => s[last + 1] = m[last + 1] /\ last < Len(s)
  <2>1. last < Len(m) => last < Len(s) BY <1>4, <1>5
  <2> QED BY <1>4, <1>5, <2>1
<1>7. last + 1 < Len(m) => last < Len(m) /\ last + 1 < Len(s) /\ s[last + 2] = m[last + 2]
  <2> DEFINE x == last + 1
  <2>1. x \in Nat /\ x + 1 = last + 2 /\ (x < Len(m) => last < Len(m) /\ x < Len(s)) BY <1>4, <1>5
  <2> HIDE DEF x
  <2>2. x < Len(m) => last < Len(m) /\ x < Len(s) /\ s[last + 2] = m[last + 2] BY <1>5, <2>1
  <2> QED BY <2>2 DEF x
<1>8. CASE EndsThere(m, nm, c, last, own)
  <2>1. EndsThere(s, nm, c, last, own) BY <1>6, <1>8 DEF EndsThere
  <2> QED BY <1>3, <2>1 DEF Spelled, s, c, last, own
<1>9. CASE \E t \in ns : PointsTo(m, nm, c, last, own, t)
  <2>1. PICK t \in ns : PointsTo(m, nm, c, last, own, t) BY <1>9
  <2>2. t \in more OBVIOUS
  <2>3. last + 1 < Len(m) BY <2>1 DEF PointsTo
  <2>4. /\ s[last + 1] = m[last + 1] /\ s[last + 2] = m[last + 2] /\ last + 1 < Len(s)
    BY <1>6, <1>7, <2>3
  <2>5. PointsTo(s, nm, c, last, own, t) BY <2>1, <2>4 DEF PointsTo
  <2> QED BY <1>3, <2>2, <2>5 DEF Spelled, s, c, last, own
<1> QED BY <1>2, <1>8, <1>9 DEF c, last, own

(* What encode_name writes behind a message spells its labels there, and   *)
(* does so in any case of its letters.                                     *)
LEMMA LowerIs ==
  ASSUME NEW x \in Nat
  PROVE  /\ Lower(x) \in Nat /\ Lower(Lower(x)) = Lower(x) /\ (x <= 63 => Lower(x) = x)
         /\ (x \in Bytes => Lower(x) \in Bytes)
BY DEF Lower, Bytes

Recased(q, w) == Len(w) <= Len(q) /\ \A i \in 1..Len(w) : q[i] \in {w[i], Lower(w[i])}
Ends(m, f, n) == [k \in 0..n |-> Len(m) + Len(f[k].wire)]
TextsOf(f, n) == [k \in 0..n |-> f[k].text]

WrittenAt(labels, f, q, k, y, b) ==
  /\ y \in Nat /\ b \in Nat /\ Len(f[k].wire) = y + 1 + b /\ y + 1 + b <= Len(q)
  /\ q[y + 1] = b
  /\ \A i \in 1..b : Lower(q[y + 1 + i]) = Lower(labels[k][i])

LEMMA LabelWritten ==
  ASSUME NEW labels, NEW f, Parts(labels, f), NEW q \in Seq(Bytes),
         Recased(q, f[Len(labels)].wire), NEW k \in 1..Len(labels)
  PROVE  WrittenAt(labels, f, q, k, Len(f[k - 1].wire), Len(labels[k]))
<1> DEFINE c == Len(labels)
           w == f[c].wire
           v == f[k - 1].wire
           l == labels[k]
           y == Len(v)
           b == Len(l)
           h == <<b>>
           z == f[k].wire
<1>1. v \in Seq(Nat) /\ l \in Seq(Nat) /\ b \in Nat /\ b <= 63 /\ z = (v \o h) \o l /\ z \in Seq(Nat)
  <2>1. PartAt(labels, f, k) BY PartIs
  <2>2. l \in Labels /\ v \in Seq(Bytes) /\ z \in Seq(Bytes) /\ z = (v \o h) \o l
    BY <2>1 DEF PartAt
  <2> QED BY <2>2, LabelIs, BytesAreNats
<1>2. w \in Seq(Nat) /\ c \in Nat /\ c \in 1..c
  <2>1. c \in Nat BY DEF Parts
  <2>2. c \in 1..c BY <2>1
  <2>3. PartAt(labels, f, c) BY <2>2, PartIs
  <2> QED BY <2>1, <2>2, <2>3, BytesAreNats DEF PartAt
<1>3. Starts(w, z)
  <2>1. Starts(w, f[c].wire) /\ k \in 0..c
    <3>1. Len(w) \in Nat BY <1>2, LenIs
    <3> QED BY <1>2, <3>1 DEF Starts
  <2>2. Starts(f[c].text, f[c].text) /\ f[c].text \in Seq(Nat)
    <3>1. PartAt(labels, f, c) BY <1>2, PartIs
    <3>2. f[c].text \in Seq(Nat) BY <3>1 DEF PartAt
    <3>3. Len(f[c].text) \in Nat BY <3>2, LenIs
    <3> QED BY <3>2, <3>3 DEF Starts
  <2> QED BY <1>2, <2>1, <2>2, PartsStart
<1>4. h \in Seq(Nat) /\ Len(h) = 1 /\ h[1] = b /\ y \in Nat
  <2>1. y \in Nat BY <1>1, LenIs
  <2> QED BY <1>1, <2>1
<1> HIDE DEF c, w, v, l, z, h
<1>5. /\ v \o h \in Seq(Nat) /\ Len(v \o h) = y + 1 /\ (v \o h)[y + 1] = b
  <2>1. /\ v \o h \in Seq(Nat) /\ Len(v \o h) = Len(v) + Len(h)
        /\ \A i \in 1..Len(h) : (v \o h)[Len(v) + i] = h[i]
    BY <1>1, <1>4, Joined
  <2> QED BY <1>4, <2>1
<1> DEFINE u == v \o h
<1>6. /\ u \in Seq(Nat) /\ Len(u) = y + 1 /\ u[y + 1] = b /\ z = u \o l BY <1>1, <1>5
<1> HIDE DEF u
<1>7. /\ Len(z) = Len(u) + Len(l) /\ \A i \in 1..Len(u) : z[i] = u[i]
      /\ \A i \in 1..Len(l) : z[Len(u) + i] = l[i]
  <2>1. u \in Seq(Nat) /\ l \in Seq(Nat) /\ z = u \o l BY <1>1, <1>6
  <2>2. /\ Len(u \o l) = Len(u) + Len(l) /\ \A i \in 1..Len(u) : (u \o l)[i] = u[i]
        /\ \A i \in 1..Len(l) : (u \o l)[Len(u) + i] = l[i]
    BY <2>1, Joined
  <2> QED BY <2>1, <2>2
<1> HIDE DEF y, b
<1>8. Len(l) = b /\ y \in Nat /\ b \in Nat /\ b <= 63 BY <1>1, <1>4 DEF b
<1>9. Len(z) = y + 1 + b /\ z[y + 1] = b /\ \A i \in 1..b : z[y + 1 + i] = l[i]
  <2>1. y + 1 \in 1..Len(u) BY <1>6, <1>8
  <2> QED BY <1>6, <1>7, <1>8, <2>1
<1>10. /\ Len(z) <= Len(q) /\ \A i \in 1..Len(z) : q[i] \in {z[i], Lower(z[i])}
  <2>1. Len(w) <= Len(q) /\ \A i \in 1..Len(w) : q[i] \in {w[i], Lower(w[i])}
    BY DEF Recased, w, c
  <2>2. Len(z) <= Len(w) /\ \A i \in 1..Len(z) : w[i] = z[i] BY <1>3 DEF Starts
  <2>3. Len(z) \in Nat /\ Len(w) \in Nat /\ Len(q) \in Nat BY <1>1, <1>2, LenIs, BytesAreNats
  <2>4. Len(z) <= Len(q) BY <2>1, <2>2, <2>3
  <2>5. \A i \in 1..Len(z) : i \in 1..Len(w) BY <2>2, <2>3
  <2> QED BY <2>1, <2>2, <2>4, <2>5
<1>11. q[y + 1] = b
  <2>1. y + 1 \in 1..Len(z) BY <1>8, <1>9
  <2>2. q[y + 1] \in {b, Lower(b)} BY <1>9, <1>10, <2>1
  <2> QED BY <1>8, <2>2, LowerIs
<1>12. ASSUME NEW i \in 1..b PROVE Lower(q[y + 1 + i]) = Lower(l[i])
  <2>1. y + 1 + i \in 1..Len(z) BY <1>8, <1>9
  <2>2. q[y + 1 + i] \in {l[i], Lower(l[i])} BY <1>9, <1>10, <2>1
  <2>3. l[i] \in Nat BY <1>1, <1>8
  <2> QED BY <2>2, <2>3, LowerIs
<1>13. Len(z) = y + 1 + b /\ y + 1 + b <= Len(q) BY <1>9, <1>10
<1>14. WrittenAt(labels, f, q, k, y, b) BY <1>8, <1>11, <1>12, <1>13 DEF WrittenAt, z, l
<1> QED BY <1>14 DEF y, b, v, l

LEMMA LaidWritten ==
  ASSUME NEW m \in Seq(Bytes), NEW labels, NEW f, Parts(labels, f), NEW q \in Seq(Bytes),
         Recased(q, f[Len(labels)].wire)
  PROVE  Laid(m \o q, Len(m), labels, Ends(m, f, Len(labels)), TextsOf(f, Len(labels)))
<1> DEFINE c == Len(labels)
           s == m \o q
           a == Ends(m, f, c)
           x == TextsOf(f, c)
           n == Len(m)
<1>1. /\ n \in Nat /\ Len(q) \in Nat /\ Len(s) = n + Len(q)
      /\ \A i \in Nat : i < Len(q) => s[n + i + 1] = q[i + 1]
  BY BytesKept
<1>2. labels \in Seq(Labels) /\ c \in Nat /\ f[0] = Unspelt BY DEF Parts
<1>3. ASSUME NEW k \in 0..c
      PROVE  f[k].text \in Seq(Nat) /\ Len(f[k].wire) \in Nat /\ a[k] = n + Len(f[k].wire) /\ x[k] = f[k].text
  <2>1. f[k] \in Spellings BY DEF Parts
  <2>2. f[k].text \in Seq(Nat) /\ Len(f[k].wire) \in Nat BY <2>1, LenIs, BytesAreNats DEF Spellings
  <2> QED BY <2>2 DEF Ends, TextsOf
<1>4. a \in [0..c -> Nat] /\ x \in [0..c -> Seq(Nat)]
  <2>1. \A k \in 0..c : n + Len(f[k].wire) \in Nat BY <1>1, <1>3
  <2> QED BY <1>3, <2>1 DEF Ends, TextsOf
<1>5. a[0] = n /\ x[0] = <<>>
  <2>1. 0 \in 0..c /\ Len(<<>>) = 0 /\ n + 0 = n BY <1>1, <1>2
  <2>2. f[0].text = <<>> /\ f[0].wire = <<>> BY <1>2 DEF Unspelt
  <2> QED BY <1>3, <2>1, <2>2
<1> HIDE DEF a, x, s
<1>6. ASSUME NEW k \in 1..c
      PROVE  /\ a[k] = a[k - 1] + 1 + Len(labels[k]) /\ a[k] <= Len(s)
             /\ s[a[k - 1] + 1] = Len(labels[k])
             /\ \A i \in 1..Len(labels[k]) : Lower(s[a[k - 1] + 1 + i]) = Lower(labels[k][i])
             /\ x[k] = Dotted(x[k - 1]) \o labels[k]
  <2> DEFINE l == labels[k]
             b == Len(l)
             y == Len(f[k - 1].wire)
             e == Len(f[k].wire)
             p == a[k - 1]
  <2>1. /\ y \in Nat /\ b \in Nat /\ e = y + 1 + b /\ y + 1 + b <= Len(q) /\ q[y + 1] = b
        /\ \A i \in 1..b : Lower(q[y + 1 + i]) = Lower(l[i])
    <3>1. WrittenAt(labels, f, q, k, y, b) BY LabelWritten
    <3> HIDE DEF y, b
    <3>2. WrittenAt(labels, f, q, k, y, b) BY <3>1
    <3> QED BY <3>2 DEF WrittenAt
  <2>2. k \in 0..c /\ k - 1 \in 0..c BY <1>2
  <2>3. a[k] = n + e /\ p = n + y /\ x[k] = f[k].text /\ x[k - 1] = f[k - 1].text BY <1>3, <2>2
  <2>4. x[k] = Dotted(x[k - 1]) \o l
    <3>1. PartAt(labels, f, k) BY PartIs
    <3> QED BY <2>3, <3>1 DEF PartAt
  <2> HIDE DEF c, n, l, b, y, e, p
  <2>5. a[k] = p + 1 + b /\ a[k] <= Len(s) BY <1>1, <2>1, <2>3
  <2>6. s[p + 1] = b
    <3>1. y < Len(q) /\ p + 1 = n + y + 1 BY <1>1, <2>1, <2>3
    <3> QED BY <1>1, <2>1, <3>1
  <2>7. ASSUME NEW i \in 1..b PROVE Lower(s[p + 1 + i]) = Lower(l[i])
    <3> DEFINE j == y + i
    <3>0. i \in Nat /\ i <= b /\ n \in Nat /\ p = n + y /\ Len(q) \in Nat /\ y \in Nat /\ b \in Nat
          /\ y + 1 + b <= Len(q)
      BY <1>1, <2>1, <2>3
    <3>a. j \in Nat /\ j < Len(q) BY <3>0
    <3>b. p + 1 + i = n + j + 1 /\ y + 1 + i = j + 1 BY <3>0
    <3>1. j \in Nat /\ j < Len(q) /\ p + 1 + i = n + j + 1 /\ y + 1 + i = j + 1 BY <3>a, <3>b
    <3> HIDE DEF j
    <3>2. s[p + 1 + i] = q[y + 1 + i] BY <1>1, <3>1
    <3> QED BY <2>1, <3>2
  <2> QED BY <2>4, <2>5, <2>6, <2>7 DEF l, b, p
<1>7. Laid(s, n, labels, a, x)
  <2> HIDE DEF n
  <2> QED BY <1>2, <1>4, <1>5, <1>6 DEF Laid
<1> QED BY <1>7 DEF s, a, x

Named(m, q, text, turns) == [at |-> Len(m), text |-> text, size |-> Len(q), turns |-> turns]

LEMMA WrittenEnds ==
  ASSUME NEW m \in Seq(Bytes), NEW labels, NEW f, Parts(labels, f)
  PROVE  /\ Len(labels) \in Nat
         /\ Ends(m, f, Len(labels))[Len(labels)] = Len(m) + Len(f[Len(labels)].wire)
         /\ TextsOf(f, Len(labels))[Len(labels)] = f[Len(labels)].text
         /\ f[Len(labels)].text \in Seq(Nat) /\ f[Len(labels)].wire \in Seq(Bytes)
         /\ Len(f[Len(labels)].wire) \in Nat
<1>1. Len(labels) \in Nat BY DEF Parts
<1>2. Len(labels) \in 0..Len(labels) BY <1>1
<1>3. f[Len(labels)] \in Spellings BY <1>2 DEF Parts
<1>4. f[Len(labels)].wire \in Seq(Bytes) BY <1>3 DEF Spellings
<1> QED BY <1>1, <1>2, <1>3, <1>4, LenIs, BytesAreNats DEF Ends, TextsOf, Spellings

(* A name in full.                                                         *)
LEMMA FullIsSpelled ==
  ASSUME NEW m \in Seq(Bytes), NEW ns, NEW labels, NEW f, Parts(labels, f), labels # <<>>,
         NEW q \in Seq(Bytes), Recased(q, Append(f[Len(labels)].wire, 0)),
         Len(q) = Len(f[Len(labels)].wire) + 1
  PROVE  Spelled(m \o q, ns, Named(m, q, f[Len(labels)].text, Len(labels) + 1))
<1> DEFINE c == Len(labels)
           w == f[c].wire
           v == Append(w, 0)
           s == m \o q
           n == Len(m)
           k == Len(w)
           nm == Named(m, q, f[c].text, c + 1)
           last == Ends(m, f, c)[c]
           own == TextsOf(f, c)[c]
<1>1. c \in Nat /\ last = n + k /\ own = f[c].text /\ w \in Seq(Bytes) /\ k \in Nat
  BY WrittenEnds
<1>2. c >= 1
  <2>1. labels \in Seq(Labels) BY DEF Parts
  <2> QED BY <2>1, EmptySeq
<1>3. Recased(q, w) /\ q[k + 1] = 0
  <2>1. Len(v) = k + 1 /\ v[k + 1] = 0 /\ \A i \in 1..k : v[i] = w[i] BY <1>1, AppendProperties
  <2> HIDE DEF v, k, w
  <2>2. Len(v) <= Len(q) /\ \A i \in 1..Len(v) : q[i] \in {v[i], Lower(v[i])}
    BY DEF Recased, v, w, c
  <2>3. Len(q) \in Nat BY LenIs, BytesAreNats
  <2>4. k <= Len(q) /\ (k + 1) \in 1..Len(v) /\ \A i \in 1..k : i \in 1..Len(v)
    BY <1>1, <2>1, <2>2, <2>3
  <2>5. q[k + 1] \in {0, Lower(0)} BY <2>1, <2>2, <2>4
  <2>6. Lower(0) = 0 BY LowerIs
  <2>7. \A i \in 1..k : q[i] \in {w[i], Lower(w[i])} BY <2>1, <2>2, <2>4
  <2> QED BY <2>4, <2>5, <2>6, <2>7 DEF Recased, k
<1>4. Laid(s, n, labels, Ends(m, f, c), TextsOf(f, c)) BY <1>3, LaidWritten
<1>5. /\ n \in Nat /\ Len(q) = k + 1 /\ Len(s) = n + Len(q)
      /\ \A i \in Nat : i < Len(q) => s[n + i + 1] = q[i + 1]
  BY BytesKept
<1>6. nm.at = n /\ nm.size = Len(q) /\ nm.text = f[c].text /\ nm.turns = c + 1 BY DEF Named
<1> HIDE DEF s, n, k, nm, last, own, c, w
<1>7. last < Len(s) /\ s[last + 1] = 0
  <2>1. k < Len(q) /\ last + 1 = n + k + 1 BY <1>1, <1>5
  <2>2. s[n + k + 1] = q[k + 1] BY <1>1, <1>5, <2>1
  <2> QED BY <1>1, <1>3, <1>5, <2>1, <2>2
<1>8. nm.size = last + 1 - nm.at BY <1>1, <1>5, <1>6
<1>9. EndsThere(s, nm, c, last, own) BY <1>1, <1>2, <1>6, <1>7, <1>8 DEF EndsThere
<1>10. Laid(s, nm.at, labels, Ends(m, f, c), TextsOf(f, c)) BY <1>4, <1>6
<1>11. Spelled(s, ns, nm) BY <1>9, <1>10 DEF Spelled, last, own, c
<1> QED BY <1>11 DEF s, nm, c

(* Labels and a pointer.                                                   *)
PointsAt(q, k, p) ==
  Len(q) = k + 2 /\ q[k + 1] >= Pointer /\ (q[k + 1] % 64) * 256 + q[k + 2] = p

PointerPair(p, x, y) == x \in Bytes /\ y \in Bytes /\ x >= Pointer /\ (x % 64) * 256 + y = p
LEMMA PointerBytes ==
  ASSUME NEW p \in Nat, p < 16384
  PROVE  PointerPair(p, Pointer + p \div 256, p % 256)
<1> DEFINE h == p \div 256
           r == p % 256
           x == Pointer + h
<1>1. h \in 0..63 /\ r \in 0..255 /\ p = h * 256 + r OBVIOUS
<1> HIDE DEF h, r
<1>2. x = 192 + h /\ Pointer = 192 BY DEF Pointer
<1> HIDE DEF x
<1>3. x % 64 = h BY <1>1, <1>2
<1>4. x \in Bytes /\ r \in Bytes /\ x >= Pointer BY <1>1, <1>2 DEF Bytes
<1>5. (x % 64) * 256 + r = p BY <1>1, <1>3
<1>6. PointerPair(p, x, r) BY <1>4, <1>5 DEF PointerPair
<1> QED BY <1>6 DEF x, h, r

LEMMA PointerWritten ==
  ASSUME NEW w \in Seq(Bytes), NEW p \in Nat, NEW x, NEW y, PointerPair(p, x, y)
  PROVE  w \o <<x, y>> \in Seq(Bytes) /\ Recased(w \o <<x, y>>, w) /\ PointsAt(w \o <<x, y>>, Len(w), p)
<1> DEFINE z == <<x, y>>
           k == Len(w)
           q == w \o z
<1>1. x \in Bytes /\ y \in Bytes /\ x >= Pointer /\ (x % 64) * 256 + y = p BY DEF PointerPair
<1>2. z \in Seq(Bytes) /\ Len(z) = 2 /\ z[1] = x /\ z[2] = y BY <1>1
<1>3. k \in Nat BY LenIs, BytesAreNats
<1> HIDE DEF z
<1>4. /\ q \in Seq(Bytes) /\ Len(q) = Len(w) + Len(z) /\ \A i \in 1..Len(w) : q[i] = w[i]
      /\ \A i \in 1..Len(z) : q[Len(w) + i] = z[i]
  BY <1>2, JoinedBytes
<1> HIDE DEF q, k
<1>5. /\ Len(q) = k + 2 /\ \A i \in 1..k : q[i] = w[i]
      /\ q[k + 1] = x /\ q[k + 2] = y
  BY <1>2, <1>4 DEF k
<1>6. Recased(q, w)
  <2>1. k <= Len(q) BY <1>3, <1>5
  <2> QED BY <1>5, <2>1 DEF Recased, k
<1>7. PointsAt(q, k, p) BY <1>1, <1>5 DEF PointsAt
<1> QED BY <1>4, <1>6, <1>7 DEF q, k, z

LEMMA PointingIsSpelled ==
  ASSUME NEW m \in Seq(Bytes), NEW ns, NEW labels, NEW f, Parts(labels, f), NEW t \in ns,
         NEW q \in Seq(Bytes), Recased(q, f[Len(labels)].wire),
         PointsAt(q, Len(f[Len(labels)].wire), t.at)
  PROVE  Spelled(m \o q, ns,
                 Named(m, q, IF Len(labels) = 0 THEN t.text ELSE Dotted(f[Len(labels)].text) \o t.text,
                       Len(labels) + 1 + t.turns))
<1> DEFINE c == Len(labels)
           s == m \o q
           n == Len(m)
           k == Len(f[c].wire)
           x == q[k + 1]
           y == q[k + 2]
           text == IF c = 0 THEN t.text ELSE Dotted(f[c].text) \o t.text
           nm == Named(m, q, text, c + 1 + t.turns)
           last == Ends(m, f, c)[c]
           own == TextsOf(f, c)[c]
<1>1. c \in Nat /\ last = n + k /\ own = f[c].text /\ k \in Nat BY WrittenEnds
<1>2. Len(q) = k + 2 /\ x >= Pointer /\ (x % 64) * 256 + y = t.at BY DEF PointsAt
<1>3. Laid(s, n, labels, Ends(m, f, c), TextsOf(f, c)) BY LaidWritten
<1>4. nm.at = n /\ nm.size = Len(q) /\ nm.text = text /\ nm.turns = c + 1 + t.turns BY DEF Named
<1>5. nm.text = IF c = 0 THEN t.text ELSE Dotted(own) \o t.text BY <1>1, <1>4
<1>6. /\ n \in Nat /\ Len(s) = n + Len(q)
      /\ \A i \in Nat : i < Len(q) => s[n + i + 1] = q[i + 1]
  <2> HIDE DEF text, nm, last, own, k, x, y
  <2> QED BY BytesKept
<1> HIDE DEF s, n, k, nm, last, own, c, text
<1>7. last + 1 < Len(s) /\ s[last + 1] = x /\ s[last + 2] = y
  <2>1. k < Len(q) /\ last + 1 = n + k + 1 /\ k + 1 \in Nat /\ k + 1 < Len(q)
    BY <1>1, <1>2, <1>6
  <2>2. last + 2 = n + (k + 1) + 1 /\ (k + 1) + 1 = k + 2 BY <1>1, <1>6
  <2>3. s[n + k + 1] = q[k + 1] BY <1>1, <1>6, <2>1
  <2>4. s[n + (k + 1) + 1] = q[(k + 1) + 1] BY <1>6, <2>1
  <2>5. last + 1 < Len(s) BY <1>1, <1>2, <1>6
  <2> QED BY <2>1, <2>2, <2>3, <2>4, <2>5
<1> HIDE DEF x, y
<1>8. nm.size = last + 2 - nm.at BY <1>1, <1>2, <1>4, <1>6
<1>9. PointsTo(s, nm, c, last, own, t) BY <1>2, <1>4, <1>5, <1>7, <1>8 DEF PointsTo
<1>10. Laid(s, nm.at, labels, Ends(m, f, c), TextsOf(f, c)) BY <1>3, <1>4
<1>11. Spelled(s, ns, nm) BY <1>9, <1>10 DEF Spelled, last, own, c
<1> QED BY <1>11 DEF s, nm, c, text

LEMMA SeqOfIs ==
  ASSUME NEW labels \in SeqOf(Labels, MaxLabels)
  PROVE  labels \in Seq(Labels) /\ (Len(labels) = 0 <=> labels = <<>>)
<1>1. PICK n \in 0..MaxLabels : labels \in [1..n -> Labels] BY DEF SeqOf
<1>2. n \in Nat BY Limits
<1>3. labels \in Seq(Labels) BY <1>1, <1>2
<1> QED BY <1>3, EmptySeq

LEMMA SpellParts ==
  ASSUME NEW labels \in Seq(Labels)
  PROVE  \E f : /\ Parts(labels, f) /\ f[Len(labels)] = Spell(labels)
                /\ Spell(labels) \in Spellings
<1>1. PICK f \in [0..Len(labels) -> Spellings] :
        /\ f[0] = Unspelt /\ f[Len(labels)] = Spell(labels)
        /\ \A k \in 1..Len(labels) : f[k] = Extend(f[k - 1], labels[k])
  BY SpellIs
<1>2. Parts(labels, f) BY <1>1 DEF Parts
<1>3. Len(labels) \in 0..Len(labels)
  <2>1. Len(labels) \in Nat OBVIOUS
  <2> QED BY <2>1
<1> QED BY <1>1, <1>2, <1>3

(* What the message always keeps: each name in it is spelled.              *)
NamesInv ==
  /\ message \in Seq(Bytes) /\ Len(message) <= MaxMessage /\ names \subseteq NameRecords
  /\ \A nm \in names : nm.at < Len(message) /\ Spelled(message, names, nm)

LEMMA NamesStart == NameInit => NamesInv
<1> SUFFICES ASSUME NameInit PROVE NamesInv OBVIOUS
<1>1. message = <<>> /\ names = {} BY DEF NameInit
<1>2. 0 <= MaxMessage BY Limits
<1>3. <<>> \in Seq(Bytes) /\ Len(<<>>) = 0 OBVIOUS
<1> QED BY <1>1, <1>2, <1>3 DEF NamesInv

(* Bytes behind the message leave the names.                               *)
LEMMA NamesKept ==
  ASSUME NamesInv, NEW q \in Seq(Bytes), NEW more, names \subseteq more
  PROVE  /\ message \o q \in Seq(Bytes) /\ Len(message \o q) = Len(message) + Len(q)
         /\ Len(message) \in Nat /\ Len(q) \in Nat
         /\ \A nm \in names : nm.at < Len(message \o q) /\ Spelled(message \o q, more, nm)
<1>1. message \in Seq(Bytes) BY DEF NamesInv
<1>2. /\ message \o q \in Seq(Bytes) /\ Len(message \o q) = Len(message) + Len(q)
      /\ Len(message) \in Nat /\ Len(q) \in Nat
  BY <1>1, BytesKept
<1>3. ASSUME NEW nm \in names PROVE nm.at < Len(message \o q) /\ Spelled(message \o q, more, nm)
  <2>1. nm \in NameRecords /\ nm.at < Len(message) /\ Spelled(message, names, nm) BY DEF NamesInv
  <2>2. Spelled(message \o q, more, nm) BY <1>1, <2>1, SpelledGrows
  <2>3. nm.at \in Nat BY <2>1 DEF NameRecords
  <2> DEFINE s == Len(message \o q)
  <2>4. s = Len(message) + Len(q) /\ Len(message) \in Nat /\ Len(q) \in Nat BY <1>2
  <2> HIDE DEF s
  <2>5. nm.at < s BY <2>1, <2>3, <2>4
  <2> QED BY <2>2, <2>5 DEF s
<1> QED BY <1>2, <1>3

LEMMA WriteKeeps ==
  ASSUME NamesInv, NEW q \in Seq(Bytes), Len(q) >= 1, NEW text \in Seq(Nat), NEW turns \in Nat,
         Write(q, text, turns),
         Spelled(message \o q, names, Named(message, q, text, turns))
  PROVE  NamesInv'
<1> DEFINE nm == Named(message, q, text, turns)
           more == names \union {nm}
           s == message \o q
<1>1. message' = s /\ names' = more /\ Len(message) + Len(q) <= MaxMessage BY DEF Write, Named
<1>2. /\ s \in Seq(Bytes) /\ Len(s) = Len(message) + Len(q)
      /\ Len(message) \in Nat /\ Len(q) \in Nat
      /\ \A x \in names : x.at < Len(s) /\ Spelled(s, more, x)
  BY NamesKept
<1>3. nm \in NameRecords /\ nm.at = Len(message) BY <1>2 DEF Named, NameRecords
<1>4. Spelled(s, more, nm)
  <2>1. Spelled(s, names, nm) OBVIOUS
  <2> HIDE DEF nm, s
  <2> QED BY <2>1 DEF Spelled
<1> HIDE DEF s, nm
<1>5. nm.at < Len(s) /\ Len(s) <= MaxMessage BY <1>1, <1>2, <1>3
<1>6. names \subseteq NameRecords BY DEF NamesInv
<1> QED BY <1>1, <1>2, <1>3, <1>4, <1>5, <1>6 DEF NamesInv

LEMMA DataKeeps == ASSUME NamesInv, WriteData PROVE NamesInv'
<1>1. PICK b \in {0, 1, Reserved, Pointer} :
        Len(message) < MaxMessage /\ message' = Append(message, b) /\ names' = names
  BY DEF WriteData
<1> DEFINE q == <<b>>
           s == message \o q
<1>2. b \in Bytes BY DEF Bytes, Reserved, Pointer
<1>3. q \in Seq(Bytes) /\ Len(q) = 1 BY <1>2
<1>4. message' = s
  <2>1. message \in Seq(Bytes) BY DEF NamesInv
  <2>2. Append(message, b) = message \o q BY <1>2, <2>1, AppendIsConcat
  <2> QED BY <1>1, <2>2
<1> HIDE DEF q
<1>5. /\ s \in Seq(Bytes) /\ Len(s) = Len(message) + Len(q) /\ Len(message) \in Nat
      /\ \A x \in names : x.at < Len(s) /\ Spelled(s, names, x)
  BY <1>3, NamesKept
<1> HIDE DEF s
<1>6. Len(s) <= MaxMessage
  <2>1. MaxMessage \in Nat BY Limits
  <2> QED BY <1>1, <1>3, <1>5, <2>1
<1>7. names \subseteq NameRecords BY DEF NamesInv
<1> QED BY <1>1, <1>4, <1>5, <1>6, <1>7 DEF NamesInv

LEMMA FullKeeps == ASSUME NamesInv, WriteFull PROVE NamesInv'
<1>1. PICK labels \in SeqOf(Labels, MaxLabels), dot \in {<<>>, <<Dot>>}, echoed \in BOOLEAN :
        LET e == EncodeName(Spell(labels).text \o dot, MaxMessage) IN
        /\ labels # <<>> /\ e.ok /\ (echoed => message = <<>>)
        /\ Write(IF echoed THEN [i \in DOMAIN e.wire |-> Lower(e.wire[i])] ELSE e.wire,
                 Spell(labels).text, Len(labels) + 1)
  BY DEF WriteFull
<1> DEFINE t == Spell(labels).text \o dot
           e == EncodeName(t, MaxMessage)
           w == Spell(labels).wire
           v == Append(w, 0)
           q == IF echoed THEN [i \in DOMAIN e.wire |-> Lower(e.wire[i])] ELSE e.wire
           text == Spell(labels).text
           turns == Len(labels) + 1
<1>2. labels # <<>> /\ e.ok /\ Write(q, text, turns) BY <1>1
<1> HIDE DEF e, q
<1>3. labels \in Seq(Labels) BY SeqOfIs
<1>4. PICK f : /\ Parts(labels, f) /\ f[Len(labels)] = Spell(labels)
               /\ Spell(labels) \in Spellings
  BY <1>3, SpellParts
<1>5. text \in Seq(Nat) /\ w \in Seq(Bytes) BY <1>4 DEF Spellings
<1>6. t \in Seq(Nat)
  <2> DEFINE d == <<Dot>>
  <2>1. <<>> \in Seq(Nat) /\ d \in Seq(Nat) BY DEF Dot
  <2>2. dot = <<>> \/ dot = d OBVIOUS
  <2> HIDE DEF d
  <2>3. dot \in Seq(Nat) BY <2>1, <2>2
  <2> QED BY <1>5, <2>3, Joined
<1>7. e.wire = v
  <2>1. MaxMessage \in Nat BY Limits
  <2>2. t = f[Len(labels)].text \o dot BY <1>4
  <2>3. EncodeName(t, MaxMessage).ok BY <1>2 DEF e
  <2> HIDE DEF t
  <2>4. EncodeName(t, MaxMessage).wire = Append(f[Len(labels)].wire, 0)
    BY <1>2, <1>4, <1>6, <2>1, <2>2, <2>3, EncodedIsSpelled
  <2> QED BY <1>4, <2>4 DEF e
<1> HIDE DEF w, t, text, turns
<1>8. v \in Seq(Bytes) /\ Len(v) = Len(w) + 1 /\ Len(w) \in Nat
  <2>1. 0 \in Bytes BY DEF Bytes
  <2>2. Len(w) \in Nat BY <1>5, LenIs, BytesAreNats
  <2> QED BY <1>5, <2>1, <2>2, AppendProperties
<1> HIDE DEF v
<1>9. q \in Seq(Bytes) /\ Len(q) = Len(v) /\ \A i \in 1..Len(v) : q[i] \in {v[i], Lower(v[i])}
  <2>1. CASE ~echoed BY <1>7, <1>8, <2>1 DEF q
  <2>2. CASE echoed
    <3>1. DOMAIN v = 1..Len(v) /\ Len(v) \in Nat BY <1>8
    <3>2. q = [i \in 1..Len(v) |-> Lower(v[i])] BY <1>7, <2>2, <3>1 DEF q
    <3>3. \A i \in 1..Len(v) : Lower(v[i]) \in Bytes
      <4>1. \A i \in 1..Len(v) : v[i] \in Bytes BY <1>8
      <4>2. \A x \in Bytes : x \in Nat BY DEF Bytes
      <4> QED BY <4>1, <4>2, LowerIs
    <3>4. q \in [1..Len(v) -> Bytes] BY <3>2, <3>3
    <3>5. q \in Seq(Bytes) /\ Len(q) = Len(v) BY <3>1, <3>4
    <3> QED BY <3>2, <3>5
  <2> QED BY <2>1, <2>2
<1>10. Len(q) = Len(w) + 1 /\ Recased(q, v)
  <2>1. Len(v) \in Nat BY <1>8
  <2> QED BY <1>8, <1>9, <2>1 DEF Recased
<1>11. message \in Seq(Bytes) BY DEF NamesInv
<1>12. f[Len(labels)].wire = w /\ f[Len(labels)].text = text BY <1>4 DEF w, text
<1>13. Spelled(message \o q, names, Named(message, q, text, turns))
  <2>1. Recased(q, Append(f[Len(labels)].wire, 0)) /\ Len(q) = Len(f[Len(labels)].wire) + 1
    BY <1>10, <1>12 DEF v
  <2>2. Spelled(message \o q, names, Named(message, q, f[Len(labels)].text, Len(labels) + 1))
    BY <1>2, <1>4, <1>9, <1>11, <2>1, FullIsSpelled
  <2> QED BY <1>12, <2>2 DEF turns
<1>14. turns \in Nat /\ Len(q) >= 1
  <2>1. Len(labels) \in Nat BY <1>3
  <2>2. turns \in Nat BY <2>1 DEF turns
  <2> QED BY <1>8, <1>10, <2>2
<1> QED BY <1>2, <1>5, <1>9, <1>13, <1>14, WriteKeeps DEF text

LEMMA CompressedKeeps == ASSUME NamesInv, WriteCompressed PROVE NamesInv'
<1>1. PICK own \in SeqOf(Labels, MaxLabels), target \in names :
        Write(Spell(own).wire \o <<Pointer + target.at \div 256, target.at % 256>>,
              IF own = <<>> THEN target.text ELSE Dotted(Spell(own).text) \o target.text,
              Len(own) + 1 + target.turns)
  BY DEF WriteCompressed
<1> DEFINE p == target.at
           x == Pointer + p \div 256
           y == p % 256
           w == Spell(own).wire
           q == w \o <<x, y>>
           text == IF own = <<>> THEN target.text ELSE Dotted(Spell(own).text) \o target.text
           turns == Len(own) + 1 + target.turns
<1>2. Write(q, text, turns) BY <1>1
<1>3. own \in Seq(Labels) /\ (Len(own) = 0 <=> own = <<>>) BY SeqOfIs
<1>4. PICK f : /\ Parts(own, f) /\ f[Len(own)] = Spell(own)
               /\ Spell(own) \in Spellings
  BY <1>3, SpellParts
<1>5. /\ p \in Nat /\ target.text \in Seq(Nat) /\ target.turns \in Nat
      /\ p < Len(message) /\ message \in Seq(Bytes) /\ Len(message) <= MaxMessage
  BY DEF NamesInv, NameRecords
<1>6. p < 16384
  <2>1. MaxMessage \in Nat /\ MaxMessage <= 16384 BY Limits
  <2>2. Len(message) \in Nat BY <1>5, LenIs, BytesAreNats
  <2> QED BY <1>5, <2>1, <2>2
<1>7. PointerPair(p, x, y) BY <1>5, <1>6, PointerBytes
<1> HIDE DEF p, x, y, w, text, turns
<1>8. w \in Seq(Bytes) /\ Spell(own).text \in Seq(Nat) BY <1>4 DEF Spellings, w
<1>9. q \in Seq(Bytes) /\ Recased(q, w) /\ PointsAt(q, Len(w), p) BY <1>5, <1>7, <1>8, PointerWritten
<1> HIDE DEF q
<1>10. text \in Seq(Nat)
  <2>1. Dotted(Spell(own).text) \in Seq(Nat) BY <1>8, DottedIs
  <2>2. Dotted(Spell(own).text) \o target.text \in Seq(Nat) BY <1>5, <2>1, Joined
  <2> QED BY <1>5, <2>2 DEF text
<1>11. Len(own) \in Nat BY <1>3
<1>12. turns \in Nat BY <1>5, <1>11 DEF turns
<1>13. f[Len(own)].wire = w BY <1>4 DEF w
<1>14. Spelled(message \o q, names,
               Named(message, q, IF Len(own) = 0 THEN target.text ELSE Dotted(f[Len(own)].text) \o target.text,
                     Len(own) + 1 + target.turns))
  <2>1. Recased(q, f[Len(own)].wire) /\ PointsAt(q, Len(f[Len(own)].wire), target.at)
    BY <1>9, <1>13 DEF p
  <2> QED BY <1>4, <1>5, <1>9, <2>1, PointingIsSpelled
<1>15. text = IF Len(own) = 0 THEN target.text ELSE Dotted(f[Len(own)].text) \o target.text
  BY <1>3, <1>4 DEF text
<1>16. Spelled(message \o q, names, Named(message, q, text, turns)) BY <1>14, <1>15 DEF turns
<1>17. Len(q) >= 1
  <2>1. Len(w) \in Nat /\ Len(q) = Len(w) + 2 BY <1>8, <1>9, LenIs, BytesAreNats DEF PointsAt
  <2> QED BY <2>1
<1> QED BY <1>2, <1>9, <1>10, <1>12, <1>16, <1>17, WriteKeeps

LEMMA NamesStep == NamesInv /\ [NameNext]_nameVars => NamesInv'
<1>1. ASSUME NamesInv, UNCHANGED nameVars PROVE NamesInv' BY <1>1 DEF NamesInv, nameVars
<1> QED BY <1>1, DataKeeps, FullKeeps, CompressedKeeps DEF NameNext

LEMMA NamesInvReads == NamesInv => NamesRead
<1> SUFFICES ASSUME NamesInv PROVE NamesRead OBVIOUS
<1>1. message \in Seq(Bytes) /\ names \in SUBSET NameRecords
      /\ \A x \in names : Spelled(message, names, x)
  BY DEF NamesInv
<1>2. NamesDecode BY <1>1, SpelledIsDecoded DEF NamesDecode
<1>3. NameCap \in Nat /\ NameCap >= 1 BY Limits
<1>4. DecodeStaysInside
  <2> SUFFICES ASSUME NEW start \in 0..Len(message)
               PROVE  LET d == DecodeName(message, start, NameCap) IN
                      d # Fail => d.n \in 1..(Len(message) - start) /\ Len(d.text) < NameCap
    BY DEF DecodeStaysInside
  <2>1. Len(message) \in Nat BY <1>1
  <2>2. start \in Nat /\ start <= Len(message) BY <2>1
  <2> QED BY <1>1, <1>3, <2>2, StaysInside
<1> QED BY <1>2, <1>4 DEF NamesRead

(* mongo_dns.c:66 and :33: however a message grows from what encode_name   *)
(* and a server write, decode_name gives every name in it back, and from   *)
(* any other place stays inside the message and the caller's buffer.       *)
THEOREM NamesAreRead == NameSpec => []NamesRead
<1>1. NameInit => NamesInv BY NamesStart
<1>2. NamesInv /\ [NameNext]_nameVars => NamesInv' BY NamesStep
<1>3. NamesInv => NamesRead BY NamesInvReads
<1> QED BY <1>1, <1>2, <1>3, PTL DEF NameSpec
-----------------------------------------------------------------------------
(***************************************************************************)
(* mongo_uri_parse: the frame that udp_recv_cb writes into outlives its    *)
(* registration, and is nobody's but the task's once the task reads it.    *)
(***************************************************************************)
parseVars == <<uriVars, dnsVars>>
ParseInit == UriInit /\ DnsInit
ParseNext == UriStep \/ (DnsNext /\ UNCHANGED uriVars)
ParseSpec == ParseInit /\ [][ParseNext]_parseVars

(* Where the task is says whether the frame and the registration exist:    *)
(* both, from the question until the pcb is removed; the frame alone,      *)
(* while the reply is read; and neither, between two queries.              *)
FrameInv ==
  /\ dnsPc \in {"wait", "unsent", "remove"} => frame
  /\ dnsPc = "parse" => frame /\ ~listening
  /\ dnsPc \in {"idle", "ask"} => ~frame /\ ~listening
  /\ dnsPc \in {"wait", "unsent", "remove", "parse", "idle", "ask"}

LEMMA FrameInit == ParseInit => FrameInv
BY DEF ParseInit, DnsInit, FrameInv

LEMMA FrameStep == FrameInv /\ [ParseNext]_parseVars => FrameInv'
<1> SUFFICES ASSUME FrameInv, [ParseNext]_parseVars PROVE FrameInv'
  OBVIOUS
<1> USE DEF FrameInv, ctx
<1>1. CASE Scan BY <1>1 DEF Scan
<1>2. CASE Txt BY <1>2 DEF Txt
<1>3. CASE Srv BY <1>3 DEF Srv, dnsVars
<1>4. CASE DnsRefuse BY <1>4 DEF DnsRefuse
<1>5. CASE DnsSend BY <1>5 DEF DnsSend
<1>6. CASE DnsWake BY <1>6 DEF DnsWake
<1>7. CASE DnsTimeout BY <1>7 DEF DnsTimeout
<1>8. CASE DnsRemove BY <1>8 DEF DnsRemove, Listening
<1>9. CASE DnsParse BY <1>9 DEF DnsParse
<1>10. ASSUME NEW p \in Packets, Receive(p) PROVE FrameInv'
  BY <1>10 DEF Receive
<1>11. CASE UNCHANGED parseVars BY <1>11 DEF parseVars, dnsVars
<1> QED
  BY <1>1, <1>2, <1>3, <1>4, <1>5, <1>6, <1>7, <1>8, <1>9, <1>10, <1>11
  DEF ParseNext, UriStep, DnsNext, DnsStep

(* A packet that arrives while the task reads ctx->reply finds no          *)
(* registration, and the task itself does not write to it.                 *)
LEMMA SettledStep ==
  FrameInv /\ [ParseNext]_parseVars => [dnsPc = "parse" => UNCHANGED <<reply, replyLen>>]_dnsVars
<1> SUFFICES ASSUME FrameInv, [ParseNext]_parseVars, dnsPc = "parse"
             PROVE  UNCHANGED <<reply, replyLen>>
  OBVIOUS
<1>1. CASE UriStep BY <1>1 DEF UriStep, Scan, Txt, Srv, ctx, dnsVars
<1>2. CASE DnsStep
  BY <1>2 DEF DnsStep, DnsRefuse, DnsSend, DnsWake, DnsTimeout, DnsRemove, DnsParse
<1>3. ASSUME NEW p \in Packets, Receive(p) PROVE FALSE
  BY <1>3 DEF Receive, FrameInv
<1>4. CASE UNCHANGED parseVars BY <1>4 DEF parseVars, dnsVars, ctx
<1> QED BY <1>1, <1>2, <1>3, <1>4 DEF ParseNext, DnsNext

LEMMA FrameInvariance == ParseSpec => []FrameInv
<1> QED BY FrameInit, FrameStep, PTL DEF ParseSpec

(* mongo_dns.c: udp_recv_cb runs on an allocated ctx, on every way out of  *)
(* every query of every parse.                                             *)
THEOREM CallbackHasFrame == ParseSpec => []CallbackOnLiveFrame
<1>1. FrameInv => CallbackOnLiveFrame
  BY DEF FrameInv, CallbackOnLiveFrame
<1> QED BY <1>1, FrameInvariance, PTL

(* mongo_dns.c:256: the reply a query reads does not change under it.      *)
THEOREM ReplyIsSettled == ParseSpec => ReplySettled
<1>1. ParseSpec => [][dnsPc = "parse" => UNCHANGED <<reply, replyLen>>]_dnsVars
  BY FrameInvariance, SettledStep, PTL DEF ParseSpec
<1> QED BY <1>1 DEF ReplySettled
-----------------------------------------------------------------------------
(***************************************************************************)
(* mongo_uri_parse again: what it accepts.                                 *)
(***************************************************************************)
(* What the three folds do, element by element.                            *)
Outs == [hosts : Seq(Texts \union {NULL}), tls : BOOLEAN, replicaSet : Texts, authSource : Texts,
         insecure : BOOLEAN, user : BOOLEAN, db : BOOLEAN]

LEMMA Bounds == /\ MaxHosts \in Nat /\ MaxHosts >= 1 /\ NULL \notin Texts
                /\ NoText \in Texts /\ "admin" \in Texts /\ "true" \in Texts
BY DnsAssumption DEF DnsAssumption

LEMMA ApplyIs ==
  ASSUME NEW u \in Outs, NEW o \in Options, NEW source
  PROVE  LET v == ApplyOption(u, o, source) IN
         /\ v \in Outs /\ v.hosts = u.hosts
         /\ v.tls = IF o.key = "tls" /\ source = "uri" THEN o.val = "true" ELSE u.tls
         /\ v.insecure = IF o.key = "allowInsecureAuth" /\ source = "uri" THEN o.val = "true"
                         ELSE u.insecure
         /\ v.replicaSet = IF o.key = "replicaSet" /\ o.val # "long" THEN o.val ELSE u.replicaSet
         /\ v.authSource = IF o.key = "authSource" /\ o.val # "long" THEN o.val ELSE u.authSource
<1>1. o.key \in Texts /\ o.val \in Texts BY DEF Options
<1> QED BY <1>1 DEF ApplyOption, ApplyIf, Outs

LEMMA OptionsApply ==
  ASSUME NEW u \in Outs, NEW s \in Seq(Options), NEW source
  PROVE  \E f \in [0..Len(s) -> Outs] :
           /\ f[0] = u /\ f[Len(s)] = ParseOptions(u, s, source)
           /\ \A k \in 1..Len(s) : f[k] = ApplyOption(f[k - 1], s[k], source)
<1> DEFINE n == Len(s)
           Step(it, t) == IF t = {} THEN u ELSE ApplyOption(it[t \ {Max(t)}], s[Max(t)], source)
           Solves(it) == it = [t \in SUBSET (DOMAIN s) |-> Step(it, t)]
           chosen == CHOOSE it : Solves(it)
           f == [k \in 0..n |-> chosen[1..k]]
           op == [x \in Outs \X Options |-> ApplyOption(x[1], x[2], source)]
<1>1. ParseOptions(u, s, source) = chosen[DOMAIN s]
  BY DEF ParseOptions, FoldLeft, MapThenFoldSet
<1>2. DOMAIN s = 1..n /\ n \in Nat OBVIOUS
<1>3. \A a \in Outs, o \in Options : op[<<a, o>>] = ApplyOption(a, o, source) /\ op[<<a, o>>] \in Outs
  BY ApplyIs
<1>4. op \in [Outs \X Options -> Outs]
  <2>1. \A x \in Outs \X Options : ApplyOption(x[1], x[2], source) \in Outs BY ApplyIs
  <2> QED BY <2>1
<1> HIDE DEF op
<1>5. Folds(Outs, Options, op, u, s, n) BY <1>4, FoldExists
<1>6. PICK it \in [SUBSET (1..n) -> Outs] : \A t \in SUBSET (1..n) :
        it[t] = IF t = {} THEN u ELSE op[<<it[t \ {Max(t)}], s[Max(t)]>>]
  BY <1>5 DEF Folds
<1>7. ASSUME NEW t \in SUBSET (1..n) PROVE it[t] = Step(it, t)
  <2>1. CASE t # {}
    <3>1. Max(t) \in 1..n BY <1>2, <2>1, MaxWithin
    <3>2. s[Max(t)] \in Options BY <1>2, <3>1
    <3>3. t \ {Max(t)} \in SUBSET (1..n) OBVIOUS
    <3>4. it[t \ {Max(t)}] \in Outs BY <1>6, <3>3
    <3> QED BY <1>3, <1>6, <2>1, <3>2, <3>4
  <2> QED BY <1>6, <2>1
<1>8. Solves(it) BY <1>2, <1>7
<1>9. Solves(chosen) BY <1>8
<1> HIDE DEF chosen
<1>10. \A t \in SUBSET (1..n) : chosen[t] = Step(chosen, t) BY <1>2, <1>9
<1>11. f[0] = u
  <2>1. 1..0 = {} /\ {} \in SUBSET (1..n) OBVIOUS
  <2>2. chosen[{}] = u BY <1>10, <2>1
  <2>3. f[0] = chosen[1..0] BY <1>2
  <2> QED BY <2>1, <2>2, <2>3
<1>12. ASSUME NEW k \in 1..n PROVE f[k] = ApplyOption(f[k - 1], s[k], source)
  <2>1. 1..k \in SUBSET (1..n) /\ 1..k # {} /\ Max(1..k) = k BY <1>2, MaxUpTo
  <2>2. (1..k) \ {k} = 1..(k - 1) OBVIOUS
  <2>3. f[k] = chosen[1..k] /\ f[k - 1] = chosen[1..(k - 1)] BY <1>2
  <2> QED BY <1>10, <2>1, <2>2, <2>3
<1>13. f[n] = ParseOptions(u, s, source) BY <1>1, <1>2
<1> HIDE DEF f
<1>14. \A k \in 0..n : k \in {j \in 0..n : f[j] \in Outs}
  <2> DEFINE S == {j \in 0..n : f[j] \in Outs}
  <2>1. 0 \in S BY <1>2, <1>11
  <2>2. ASSUME NEW k \in 1..n, k - 1 \in S PROVE k \in S
    <3>1. s[k] \in Options /\ f[k - 1] \in Outs BY <1>2, <2>2
    <3>2. ApplyOption(f[k - 1], s[k], source) \in Outs BY <3>1, ApplyIs
    <3>3. f[k] \in Outs /\ k \in 0..n BY <1>12, <3>2
    <3> QED BY <3>3
  <2> HIDE DEF S
  <2>3. \A k \in 0..n : k \in S BY <1>2, <2>1, <2>2, UpTo
  <2> QED BY <2>3 DEF S
<1>15. f \in [0..n -> Outs] BY <1>14 DEF f
<1> QED BY <1>11, <1>12, <1>13, <1>15

(* The value of the last of the first k options that has this key and      *)
(* fits, or before where there is none: what the fold has at k.            *)
Hits(s, key, k) ==
  {i \in 1..k : /\ s[i].key = key
                /\ key \in {"replicaSet", "authSource"} => s[i].val # "long"}
IsLast(s, key, k, i) == i \in Hits(s, key, k) /\ \A j \in Hits(s, key, k) : j <= i
LastText(s, key, k, before, now) ==
  \/ Hits(s, key, k) = {} /\ now = before
  \/ \E i \in 1..k : IsLast(s, key, k, i) /\ now = s[i].val
LastFlag(s, key, k, before, now) ==
  \/ Hits(s, key, k) = {} /\ now = before
  \/ \E i \in 1..k : IsLast(s, key, k, i) /\ now = (s[i].val = "true")

LEMMA NoneYet ==
  ASSUME NEW s, NEW key, NEW b
  PROVE  LastText(s, key, 0, b, b) /\ LastFlag(s, key, 0, b, b)
<1>1. 1..0 = {} OBVIOUS
<1> QED BY <1>1 DEF LastText, LastFlag, Hits

LEMMA OneMore ==
  ASSUME NEW s, NEW key, NEW k \in Nat \ {0}, NEW b, NEW now, NEW next
  PROVE  LET fits == s[k].key = key /\ (key \in {"replicaSet", "authSource"} => s[k].val # "long")
         IN  /\ LastText(s, key, k - 1, b, now) /\ next = (IF fits THEN s[k].val ELSE now) =>
                   LastText(s, key, k, b, next)
             /\ LastFlag(s, key, k - 1, b, now) /\ next = (IF fits THEN s[k].val = "true" ELSE now) =>
                   LastFlag(s, key, k, b, next)
<1> DEFINE fits == s[k].key = key /\ (key \in {"replicaSet", "authSource"} => s[k].val # "long")
<1>1. CASE fits
  <2>1. \A j \in Hits(s, key, k) : j <= k BY DEF Hits
  <2>2. k \in Hits(s, key, k) /\ k \in 1..k BY <1>1 DEF Hits
  <2>3. IsLast(s, key, k, k) BY <2>1, <2>2 DEF IsLast
  <2> QED BY <1>1, <2>2, <2>3 DEF LastText, LastFlag
<1>2. CASE ~fits
  <2>1. Hits(s, key, k) = Hits(s, key, k - 1)
    <3>1. \A i : i \in 1..k <=> i \in 1..(k - 1) \/ i = k OBVIOUS
    <3> QED BY <1>2, <3>1 DEF Hits
  <2>2. \A i \in 1..(k - 1) : i \in 1..k /\ (IsLast(s, key, k - 1, i) <=> IsLast(s, key, k, i))
    BY <2>1 DEF IsLast
  <2> QED BY <1>2, <2>1, <2>2 DEF LastText, LastFlag
<1> QED BY <1>1, <1>2

LEMMA UriOptionsSay ==
  ASSUME NEW u \in Outs, NEW s \in Seq(Options)
  PROVE  LET v == ParseOptions(u, s, "uri") IN
         /\ v \in Outs /\ v.hosts = u.hosts
         /\ LastFlag(s, "tls", Len(s), u.tls, v.tls)
         /\ LastFlag(s, "allowInsecureAuth", Len(s), u.insecure, v.insecure)
         /\ LastText(s, "replicaSet", Len(s), u.replicaSet, v.replicaSet)
         /\ LastText(s, "authSource", Len(s), u.authSource, v.authSource)
<1> DEFINE n == Len(s)
<1>0. n \in Nat /\ n \in 0..n OBVIOUS
<1>1. PICK f \in [0..n -> Outs] :
        /\ f[0] = u /\ f[n] = ParseOptions(u, s, "uri")
        /\ \A k \in 1..n : f[k] = ApplyOption(f[k - 1], s[k], "uri")
  BY OptionsApply
<1> DEFINE Said(k) == /\ f[k].hosts = u.hosts
                      /\ LastFlag(s, "tls", k, u.tls, f[k].tls)
                      /\ LastFlag(s, "allowInsecureAuth", k, u.insecure, f[k].insecure)
                      /\ LastText(s, "replicaSet", k, u.replicaSet, f[k].replicaSet)
                      /\ LastText(s, "authSource", k, u.authSource, f[k].authSource)
           S == {k \in 0..n : Said(k)}
<1>2. 0 \in S BY <1>0, <1>1, NoneYet
<1>3. ASSUME NEW k \in 1..n, k - 1 \in S PROVE k \in S
  <2>1. s[k] \in Options /\ f[k - 1] \in Outs /\ k \in Nat \ {0} BY <1>1
  <2>2. Said(k - 1) BY <1>3
  <2>3. f[k] = ApplyOption(f[k - 1], s[k], "uri") BY <1>1
  <2>4. /\ f[k].hosts = f[k - 1].hosts
        /\ f[k].tls = IF s[k].key = "tls" THEN s[k].val = "true" ELSE f[k - 1].tls
        /\ f[k].insecure = IF s[k].key = "allowInsecureAuth" THEN s[k].val = "true"
                           ELSE f[k - 1].insecure
        /\ f[k].replicaSet = IF s[k].key = "replicaSet" /\ s[k].val # "long" THEN s[k].val
                             ELSE f[k - 1].replicaSet
        /\ f[k].authSource = IF s[k].key = "authSource" /\ s[k].val # "long" THEN s[k].val
                             ELSE f[k - 1].authSource
    BY <2>1, <2>3, ApplyIs
  <2>5. LastFlag(s, "tls", k, u.tls, f[k].tls) BY <2>1, <2>2, <2>4, OneMore
  <2>6. LastFlag(s, "allowInsecureAuth", k, u.insecure, f[k].insecure)
    BY <2>1, <2>2, <2>4, OneMore
  <2>7. LastText(s, "replicaSet", k, u.replicaSet, f[k].replicaSet)
    BY <2>1, <2>2, <2>4, OneMore
  <2>8. LastText(s, "authSource", k, u.authSource, f[k].authSource)
    BY <2>1, <2>2, <2>4, OneMore
  <2>9. k \in 0..n OBVIOUS
  <2> QED BY <2>2, <2>4, <2>5, <2>6, <2>7, <2>8, <2>9
<1> HIDE DEF S
<1>4. \A k \in 0..n : k \in S BY <1>0, <1>2, <1>3, UpTo
<1>5. Said(n) BY <1>0, <1>4 DEF S
<1> QED BY <1>0, <1>1, <1>5

(* What a TXT record cannot touch.                                         *)
LEMMA TxtOptionsSay ==
  ASSUME NEW u \in Outs, NEW s \in Seq(Options)
  PROVE  LET v == ParseOptions(u, s, "txt") IN
         v \in Outs /\ v.hosts = u.hosts /\ v.tls = u.tls /\ v.insecure = u.insecure
<1> DEFINE n == Len(s)
<1>0. n \in Nat /\ n \in 0..n OBVIOUS
<1>1. PICK f \in [0..n -> Outs] :
        /\ f[0] = u /\ f[n] = ParseOptions(u, s, "txt")
        /\ \A k \in 1..n : f[k] = ApplyOption(f[k - 1], s[k], "txt")
  BY OptionsApply
<1> DEFINE S == {k \in 0..n : f[k].hosts = u.hosts /\ f[k].tls = u.tls /\ f[k].insecure = u.insecure}
<1>2. 0 \in S BY <1>0, <1>1
<1>3. ASSUME NEW k \in 1..n, k - 1 \in S PROVE k \in S
  <2>1. s[k] \in Options /\ f[k - 1] \in Outs BY <1>1
  <2>2. f[k] = ApplyOption(f[k - 1], s[k], "txt") BY <1>1
  <2>3. /\ f[k].hosts = f[k - 1].hosts /\ f[k].tls = f[k - 1].tls
        /\ f[k].insecure = f[k - 1].insecure
    BY <2>1, <2>2, ApplyIs
  <2>4. k \in 0..n OBVIOUS
  <2> QED BY <1>3, <2>3, <2>4
<1> HIDE DEF S
<1>4. \A k \in 0..n : k \in S BY <1>0, <1>2, <1>3, UpTo
<1>5. n \in S BY <1>0, <1>4
<1> QED BY <1>0, <1>1, <1>5 DEF S

LEMMA SaysIs ==
  ASSUME NEW s \in Seq(Options), NEW key
  PROVE  /\ Hits(s, key, Len(s)) = {} => Says(s, key) = NULL
         /\ \A i \in 1..Len(s) : IsLast(s, key, Len(s), i) => Says(s, key) = s[i].val /\ s[i].val # NULL
<1> DEFINE hits == {i \in DOMAIN s : /\ s[i].key = key
                                     /\ key \in {"replicaSet", "authSource"} => s[i].val # "long"}
<1>1. hits = Hits(s, key, Len(s)) BY DEF Hits
<1>2. Says(s, key) = IF hits = {} THEN NULL ELSE s[CHOOSE i \in hits : \A j \in hits : j <= i].val
  BY DEF Says
<1> HIDE DEF hits
<1>3. ASSUME NEW i \in 1..Len(s), IsLast(s, key, Len(s), i)
      PROVE  Says(s, key) = s[i].val /\ s[i].val # NULL
  <2>1. i \in hits /\ \A j \in hits : j <= i BY <1>1, <1>3 DEF IsLast
  <2>2. hits \subseteq Nat BY <1>1 DEF Hits
  <2>3. (CHOOSE x \in hits : \A j \in hits : j <= x) = i
    <3>1. \A x \in hits : (\A j \in hits : j <= x) => x = i BY <2>1, <2>2
    <3> QED BY <2>1, <3>1
  <2>4. s[i].val \in Texts
    <3>1. s[i] \in Options OBVIOUS
    <3> QED BY <3>1 DEF Options
  <2>5. NULL \notin Texts BY Bounds
  <2> QED BY <1>2, <2>1, <2>3, <2>4, <2>5
<1> QED BY <1>1, <1>2, <1>3

(* What the walk over a reply keeps.                                       *)
Targets == {q \in Seq(Texts) : Len(q) <= MaxHosts}

LEMMA TargetKept ==
  ASSUME NEW q \in Targets, NEW rr \in Answers PROVE KeepTarget(q, rr) \in Targets
<1>1. rr.type = "srv" => rr.data \in Texts \union {NULL} BY DEF Answers
<1>2. q \in Seq(Texts) /\ Len(q) \in Nat /\ MaxHosts \in Nat BY Bounds DEF Targets
<1>3. CASE rr.type = "srv" /\ rr.data # NULL /\ Len(q) < MaxHosts
  <2>1. Append(q, rr.data) \in Seq(Texts) /\ Len(Append(q, rr.data)) = Len(q) + 1
    BY <1>1, <1>2, <1>3
  <2>2. Len(q) + 1 <= MaxHosts BY <1>2, <1>3
  <2> QED BY <1>3, <2>1, <2>2 DEF KeepTarget, Targets
<1> QED BY <1>3 DEF KeepTarget

LEMMA TargetsKept ==
  ASSUME NEW s \in Seq(Answers)
  PROVE  FoldLeft(LAMBDA kept, rr : KeepTarget(kept, rr), <<>>, s) \in Targets
<1> DEFINE n == Len(s)
           Step(it, t) == IF t = {} THEN <<>> ELSE KeepTarget(it[t \ {Max(t)}], s[Max(t)])
           Solves(it) == it = [t \in SUBSET (DOMAIN s) |-> Step(it, t)]
           chosen == CHOOSE it : Solves(it)
           op == [x \in Targets \X Answers |-> KeepTarget(x[1], x[2])]
<1>1. FoldLeft(LAMBDA kept, rr : KeepTarget(kept, rr), <<>>, s) = chosen[DOMAIN s]
  BY DEF FoldLeft, MapThenFoldSet
<1>2. DOMAIN s = 1..n /\ n \in Nat OBVIOUS
<1>3. <<>> \in Targets BY Bounds DEF Targets
<1>4. \A a \in Targets, o \in Answers : op[<<a, o>>] = KeepTarget(a, o) OBVIOUS
<1>5. op \in [Targets \X Answers -> Targets]
  <2>1. \A x \in Targets \X Answers : KeepTarget(x[1], x[2]) \in Targets BY TargetKept
  <2> QED BY <2>1
<1> HIDE DEF op
<1>6. Folds(Targets, Answers, op, <<>>, s, n) BY <1>3, <1>5, FoldExists
<1>7. PICK it \in [SUBSET (1..n) -> Targets] : \A t \in SUBSET (1..n) :
        it[t] = IF t = {} THEN <<>> ELSE op[<<it[t \ {Max(t)}], s[Max(t)]>>]
  BY <1>6 DEF Folds
<1>8. ASSUME NEW t \in SUBSET (1..n) PROVE it[t] = Step(it, t)
  <2>1. CASE t # {}
    <3>1. Max(t) \in 1..n BY <1>2, <2>1, MaxWithin
    <3>2. s[Max(t)] \in Answers BY <1>2, <3>1
    <3>3. t \ {Max(t)} \in SUBSET (1..n) OBVIOUS
    <3>4. it[t \ {Max(t)}] \in Targets BY <1>7, <3>3
    <3> QED BY <1>4, <1>7, <2>1, <3>2, <3>4
  <2> QED BY <1>7, <2>1
<1>9. Solves(it) BY <1>2, <1>8
<1>10. Solves(chosen) BY <1>9
<1> HIDE DEF chosen
<1>11. \A t \in SUBSET (1..n) : chosen[t] = Step(chosen, t) BY <1>2, <1>10
<1> DEFINE S == {k \in 0..n : chosen[1..k] \in Targets}
<1>12. 0 \in S
  <2>1. 1..0 = {} /\ {} \in SUBSET (1..n) OBVIOUS
  <2>2. chosen[{}] = <<>> BY <1>11, <2>1
  <2>3. chosen[1..0] = <<>> /\ 0 \in 0..n BY <1>2, <2>1, <2>2
  <2> QED BY <1>3, <2>3
<1>13. ASSUME NEW k \in 1..n, k - 1 \in S PROVE k \in S
  <2>1. s[k] \in Answers /\ chosen[1..(k - 1)] \in Targets BY <1>2, <1>13
  <2>p. 1..k \in SUBSET (1..n) /\ 1..k # {} /\ Max(1..k) = k /\ (1..k) \ {Max(1..k)} = 1..(k - 1)
    BY <1>2, InitialSets
  <2>2. chosen[1..k] = KeepTarget(chosen[1..(k - 1)], s[k]) BY <1>11, <2>p
  <2>3. chosen[1..k] \in Targets BY <2>1, <2>2, TargetKept
  <2> QED BY <1>2, <2>3
<1> HIDE DEF S
<1>14. \A k \in 0..n : k \in S BY <1>2, <1>12, <1>13, UpTo
<1>15. n \in S BY <1>2, <1>14
<1> QED BY <1>1, <1>2, <1>15 DEF S

TextSoFar == Seq(Options) \union {NULL}

LEMMA TextKept ==
  ASSUME NEW q \in TextSoFar, NEW rr \in Answers PROVE KeepText(q, rr) \in TextSoFar
<1>1. rr.type = "txt" => rr.data \in TextSoFar BY DEF Answers, TextSoFar
<1> QED BY <1>1 DEF KeepText

LEMMA TextsKept ==
  ASSUME NEW s \in Seq(Answers)
  PROVE  FoldLeft(LAMBDA kept, rr : KeepText(kept, rr), NULL, s) \in TextSoFar
<1> DEFINE n == Len(s)
           Step(it, t) == IF t = {} THEN NULL ELSE KeepText(it[t \ {Max(t)}], s[Max(t)])
           Solves(it) == it = [t \in SUBSET (DOMAIN s) |-> Step(it, t)]
           chosen == CHOOSE it : Solves(it)
           op == [x \in TextSoFar \X Answers |-> KeepText(x[1], x[2])]
<1>1. FoldLeft(LAMBDA kept, rr : KeepText(kept, rr), NULL, s) = chosen[DOMAIN s]
  BY DEF FoldLeft, MapThenFoldSet
<1>2. DOMAIN s = 1..n /\ n \in Nat OBVIOUS
<1>3. NULL \in TextSoFar BY DEF TextSoFar
<1>4. \A a \in TextSoFar, o \in Answers : op[<<a, o>>] = KeepText(a, o) OBVIOUS
<1>5. op \in [TextSoFar \X Answers -> TextSoFar]
  <2>1. \A x \in TextSoFar \X Answers : KeepText(x[1], x[2]) \in TextSoFar BY TextKept
  <2> QED BY <2>1
<1> HIDE DEF op
<1>6. Folds(TextSoFar, Answers, op, NULL, s, n) BY <1>3, <1>5, FoldExists
<1>7. PICK it \in [SUBSET (1..n) -> TextSoFar] : \A t \in SUBSET (1..n) :
        it[t] = IF t = {} THEN NULL ELSE op[<<it[t \ {Max(t)}], s[Max(t)]>>]
  BY <1>6 DEF Folds
<1>8. ASSUME NEW t \in SUBSET (1..n) PROVE it[t] = Step(it, t)
  <2>1. CASE t # {}
    <3>1. Max(t) \in 1..n BY <1>2, <2>1, MaxWithin
    <3>2. s[Max(t)] \in Answers BY <1>2, <3>1
    <3>3. t \ {Max(t)} \in SUBSET (1..n) OBVIOUS
    <3>4. it[t \ {Max(t)}] \in TextSoFar BY <1>7, <3>3
    <3> QED BY <1>4, <1>7, <2>1, <3>2, <3>4
  <2> QED BY <1>7, <2>1
<1>9. Solves(it) BY <1>2, <1>8
<1>10. Solves(chosen) BY <1>9
<1> HIDE DEF chosen
<1>11. \A t \in SUBSET (1..n) : chosen[t] = Step(chosen, t) BY <1>2, <1>10
<1> DEFINE S == {k \in 0..n : chosen[1..k] \in TextSoFar}
<1>12. 0 \in S
  <2>1. 1..0 = {} /\ {} \in SUBSET (1..n) OBVIOUS
  <2>2. chosen[{}] = NULL BY <1>11, <2>1
  <2>3. chosen[1..0] = NULL /\ 0 \in 0..n BY <1>2, <2>1, <2>2
  <2> QED BY <1>3, <2>3
<1>13. ASSUME NEW k \in 1..n, k - 1 \in S PROVE k \in S
  <2>1. s[k] \in Answers /\ chosen[1..(k - 1)] \in TextSoFar BY <1>2, <1>13
  <2>p. 1..k \in SUBSET (1..n) /\ 1..k # {} /\ Max(1..k) = k /\ (1..k) \ {Max(1..k)} = 1..(k - 1)
    BY <1>2, InitialSets
  <2>2. chosen[1..k] = KeepText(chosen[1..(k - 1)], s[k]) BY <1>11, <2>p
  <2>3. chosen[1..k] \in TextSoFar BY <2>1, <2>2, TextKept
  <2> QED BY <1>2, <2>3
<1> HIDE DEF S
<1>14. \A k \in 0..n : k \in S BY <1>2, <1>12, <1>13, UpTo
<1>15. n \in S BY <1>2, <1>14
<1> QED BY <1>1, <1>2, <1>15 DEF S

(* ctx->reply starts with a header and has answers behind it, whichever    *)
(* packets lie over each other in it; a semaphore that was given, and a    *)
(* take that succeeded, mean a reply of ours.                              *)
ReplyInv ==
  /\ reply = <<>> \/ IsPacket(reply)
  /\ replyLen \in 0..Len(reply)
  /\ woken => replyLen >= 1
  /\ took /\ dnsPc \in {"remove", "parse"} => replyLen >= 1
  /\ dnsPc = "parse" => took
  /\ dnsPc \in {"wait", "unsent"} => ~took

(* A query runs for the step that the parse is at, and brings its kind.    *)
AskInv ==
  /\ uriPc \in {"new", "txt", "srv", "done"}
  /\ uriPc \in {"new", "done"} => dnsPc = "idle"
  /\ dnsPc # "idle" => asked.type = uriPc
  /\ dnsPc = "idle" /\ dnsRc = "ok" /\ uriPc = "txt" => found \in Seq(Options)
  /\ dnsPc = "idle" /\ dnsRc = "ok" /\ uriPc = "srv" => found \in Targets /\ found # <<>>

(* Between the scan and the end only TXT records have been applied.        *)
OutInv ==
  /\ uri \in Uris
  /\ uriPc \in {"txt", "srv"} => /\ uri.scheme = "srv" /\ out \in Outs
                                 /\ out.tls = TRUE /\ out.insecure = FALSE
  /\ UriAccepted
ParseInv == FrameInv /\ ReplyInv /\ AskInv /\ OutInv

LEMMA PacketIs == \A p \in Packets : IsPacket(p)
BY DnsAssumption DEF DnsAssumption

LEMMA CopiedIs ==
  ASSUME ReplyInv, NEW p \in Packets
  PROVE  /\ IsPacket(Copied(p)) /\ Len(p) >= 1
         /\ Len(Copied(p)) >= Len(p) /\ Len(Copied(p)) >= Len(reply)
<1> DEFINE Cells == Headers \union Answers
           n == Len(p)
           m == Len(reply)
           rest == SubSeq(reply, n + 1, m)
<1>1. p \in Seq(Cells) /\ p # <<>> /\ p[1] \in Headers /\ \A i \in 2..n : p[i] \in Answers
  BY PacketIs DEF IsPacket
<1>2. reply \in Seq(Cells) /\ \A i \in 2..m : reply[i] \in Answers
  <2>1. CASE reply = <<>>
    <3>1. reply \in Seq(Cells) /\ m = 0 BY <2>1
    <3> QED BY <3>1
  <2> QED BY <2>1 DEF ReplyInv, IsPacket
<1>3. n \in Nat /\ n >= 1 /\ m \in Nat BY <1>1, <1>2
<1>4. /\ rest \in Seq(Cells) /\ Len(rest) = (IF m > n THEN m - n ELSE 0)
      /\ \A j \in 1..Len(rest) : rest[j] = reply[n + j]
  <2>1. CASE m > n
    <3>1. n + 1 \in 1..m /\ m \in 1..m BY <1>3, <2>1
    <3> QED BY <1>2, <1>3, <2>1, <3>1
  <2>2. CASE ~(m > n)
    <3>1. rest = <<>> BY <1>2, <1>3, <2>2
    <3> QED BY <2>2, <3>1
  <2> QED BY <2>1, <2>2
<1> DEFINE r == Len(rest)
<1>5. r \in Nat BY <1>4
<1>6. /\ Copied(p) \in Seq(Cells) /\ Len(Copied(p)) = n + r
      /\ \A i \in 1..(n + r) : Copied(p)[i] = IF i <= n THEN p[i] ELSE rest[i - n]
  BY <1>1, <1>4 DEF Copied
<1>7. ASSUME NEW i \in 2..(n + r) PROVE Copied(p)[i] \in Answers
  <2>1. CASE i <= n
    <3>1. i \in 2..n BY <1>3, <2>1
    <3> QED BY <1>1, <1>3, <1>5, <1>6, <2>1, <3>1
  <2>2. CASE ~(i <= n)
    <3>1. i - n \in 1..r /\ n + (i - n) = i BY <1>3, <1>5, <2>2
    <3>2. rest[i - n] = reply[i] BY <1>4, <3>1
    <3>3. i \in 2..m BY <1>3, <1>4, <1>5, <2>2
    <3>4. Copied(p)[i] = rest[i - n] BY <1>3, <1>5, <1>6, <2>2
    <3> QED BY <1>2, <3>2, <3>3, <3>4
  <2> QED BY <2>1, <2>2
<1>8. Copied(p)[1] = p[1] BY <1>3, <1>5, <1>6
<1>9. Copied(p) # <<>> BY <1>3, <1>5, <1>6
<1> HIDE DEF n, m, r, rest
<1>10. Len(Copied(p)) >= n /\ Len(Copied(p)) >= m
  BY <1>3, <1>4, <1>5, <1>6 DEF r
<1> QED BY <1>1, <1>3, <1>6, <1>7, <1>8, <1>9, <1>10 DEF IsPacket, n, m

(* The walk reads answers only.                                            *)
LEMMA WalkIs ==
  ASSUME IsPacket(reply), replyLen \in 1..Len(reply) PROVE Walk \in Seq(Answers)
<1> DEFINE n == IF reply[1].ancount < replyLen THEN reply[1].ancount ELSE replyLen - 1
           whole == {k \in 0..n : \A i \in 1..k : reply[i + 1].type # "broken"}
           last == CHOOSE k \in whole : \A j \in whole : j <= k
<1>1. reply[1].ancount \in Nat BY DEF IsPacket, Headers
<1>2. n \in Nat /\ n <= Len(reply) - 1 /\ Len(reply) \in Nat BY <1>1 DEF IsPacket
<1> HIDE DEF n
<1>3. 0 \in whole /\ whole \in SUBSET (0..n) BY <1>2
<1> DEFINE T == {j \in 0..n : n - j \in whole}
<1> HIDE DEF whole
<1>4. T \in SUBSET Nat /\ n \in T /\ \A j \in T : n - j \in whole BY <1>2, <1>3
<1>t. \A j \in 0..n : n - j \in whole => j \in T OBVIOUS
<1> HIDE DEF T
<1>5. PICK x \in T : \A y \in T : x <= y BY <1>4, LeastNatural
<1>6. ASSUME NEW j \in whole PROVE n - j \in T
  <2>1. j \in 0..n /\ n - j \in 0..n /\ n - (n - j) = j BY <1>2, <1>3
  <2> QED BY <1>t, <2>1
<1>7. ASSUME NEW j \in whole PROVE j <= n - x
  <2>1. j \in 0..n /\ x \in Nat /\ x <= n - j BY <1>3, <1>4, <1>5, <1>6
  <2> QED BY <1>2, <2>1
<1>8. last \in whole
  <2>1. n - x \in whole BY <1>4, <1>5
  <2> QED BY <1>7, <2>1
<1>9. last \in 0..n BY <1>3, <1>8
<1> HIDE DEF last
<1>10. Walk = SubSeq(reply, 2, 1 + last) BY DEF Walk, last, whole, n
<1>11. CASE last = 0
  <2>1. SubSeq(reply, 2, 1) = <<>> BY DEF IsPacket
  <2> QED BY <1>10, <1>11, <2>1
<1>12. CASE last # 0
  <2>1. last \in 1..(Len(reply) - 1) BY <1>2, <1>9, <1>12
  <2>2. /\ Len(SubSeq(reply, 2, 1 + last)) = last
        /\ \A j \in 1..last : SubSeq(reply, 2, 1 + last)[j] = reply[j + 1]
    BY <1>2, <2>1 DEF IsPacket
  <2>3. \A j \in 1..last : reply[j + 1] \in Answers BY <1>2, <2>1 DEF IsPacket
  <2>4. SubSeq(reply, 2, 1 + last) = [j \in 1..last |-> reply[j + 1]]
    BY <1>2, <2>1 DEF IsPacket
  <2>5. Walk \in [1..last -> Answers] BY <1>10, <2>3, <2>4
  <2>6. last \in Nat BY <2>1
  <2> QED BY <2>5, <2>6
<1> QED BY <1>11, <1>12

LEMMA ReplyStep == ReplyInv /\ [ParseNext]_parseVars => ReplyInv'
<1> SUFFICES ASSUME ReplyInv, [ParseNext]_parseVars PROVE ReplyInv'
  OBVIOUS
<1>0. Len(reply) \in Nat BY DEF ReplyInv, IsPacket
<1>1. CASE Scan BY <1>1 DEF Scan, ReplyInv, IsPacket, ctx
<1>2. CASE Txt BY <1>2 DEF Txt, ReplyInv, IsPacket, ctx
<1>3. CASE Srv BY <1>3 DEF Srv, ReplyInv, IsPacket, ctx, dnsVars
<1>4. CASE DnsRefuse BY <1>4 DEF DnsRefuse, ReplyInv, IsPacket, ctx
<1>5. CASE DnsSend
  <2>1. /\ reply' = <<>> /\ replyLen' = 0 /\ woken' = FALSE /\ took' = FALSE
        /\ dnsPc' \in {"wait", "unsent"}
    BY <1>5 DEF DnsSend
  <2>2. Len(reply') = 0 BY <2>1
  <2>3. replyLen' \in 0..Len(reply') BY <2>1, <2>2
  <2> QED BY <2>1, <2>3 DEF ReplyInv
<1>6. CASE DnsWake BY <1>6 DEF DnsWake, ReplyInv, IsPacket
<1>7. CASE DnsTimeout BY <1>7 DEF DnsTimeout, ReplyInv, IsPacket, ctx
<1>8. CASE DnsRemove BY <1>8 DEF DnsRemove, ReplyInv, IsPacket
<1>9. CASE DnsParse BY <1>9 DEF DnsParse, ReplyInv, IsPacket
<1>10. ASSUME NEW p \in Packets, Receive(p) PROVE ReplyInv'
  <2>1. /\ reply' = Copied(p) /\ UNCHANGED <<dnsPc, took>>
        /\ \/ replyLen' = Len(p) /\ woken' = TRUE
           \/ replyLen' = replyLen /\ woken' = woken
    BY <1>10 DEF Receive
  <2>2. /\ IsPacket(Copied(p)) /\ Len(p) >= 1
        /\ Len(Copied(p)) >= Len(p) /\ Len(Copied(p)) >= Len(reply)
    BY CopiedIs
  <2>3. IsPacket(reply') BY <2>1, <2>2 DEF IsPacket
  <2>4. Len(p) \in Nat /\ Len(Copied(p)) \in Nat BY <2>2, PacketIs DEF IsPacket
  <2>5. replyLen' \in 0..Len(reply') /\ (replyLen' >= 1 \/ replyLen' = replyLen)
    BY <1>0, <2>1, <2>2, <2>4 DEF ReplyInv
  <2>6. replyLen >= 1 => replyLen' >= 1 BY <2>1, <2>2, <2>4
  <2>7. woken' => replyLen' >= 1 BY <2>1, <2>2, <2>6 DEF ReplyInv
  <2> QED BY <2>1, <2>3, <2>5, <2>6, <2>7 DEF ReplyInv
<1>11. CASE UNCHANGED parseVars BY <1>11 DEF parseVars, dnsVars, ReplyInv, IsPacket, ctx
<1> QED
  BY <1>1, <1>2, <1>3, <1>4, <1>5, <1>6, <1>7, <1>8, <1>9, <1>10, <1>11
  DEF ParseNext, UriStep, DnsNext, DnsStep

(* What a query that ends well brings.                                     *)
LEMMA FoundIs ==
  ASSUME ReplyInv, DnsParse, dnsRc' = "ok"
  PROVE  /\ asked.type # "srv" => found' \in Seq(Options)
         /\ asked.type = "srv" => found' \in Targets /\ found' # <<>>
<1>1. reply # <<>> /\ replyLen \in 1..Len(reply)
  <2>1. dnsPc = "parse" /\ took /\ replyLen >= 1 /\ replyLen \in 0..Len(reply)
    BY DEF DnsParse, ReplyInv
  <2>2. Len(reply) \in Nat BY DEF ReplyInv, IsPacket
  <2>3. Len(reply) # 0 BY <2>1, <2>2
  <2> QED BY <2>1, <2>2, <2>3
<1>2. Walk \in Seq(Answers) BY <1>1, WalkIs DEF ReplyInv
<1>3. HeaderRc(reply[1]) = "ok" BY DEF DnsParse
<1> DEFINE all == IF asked.type = "srv" THEN SrvRecords ELSE TxtOptions
<1>4. found' = all /\ all # IF asked.type = "srv" THEN <<>> ELSE NULL BY <1>3 DEF DnsParse
<1>5. SrvRecords \in Targets BY <1>2, TargetsKept DEF SrvRecords
<1>6. TxtOptions \in TextSoFar BY <1>2, TextsKept DEF TxtOptions
<1> QED BY <1>4, <1>5, <1>6 DEF TextSoFar

LEMMA AskStep == ReplyInv /\ AskInv /\ [ParseNext]_parseVars => AskInv'
<1> SUFFICES ASSUME ReplyInv, AskInv, [ParseNext]_parseVars PROVE AskInv'
  OBVIOUS
<1>1. CASE Scan
  <2>1. uriPc' \in {"txt", "done"} /\ (uriPc' = "done" => dnsPc' = "idle")
        /\ (uriPc' = "txt" => dnsPc' = "ask" /\ asked'.type = "txt")
    BY <1>1 DEF Scan
  <2> QED BY <2>1 DEF AskInv
<1>2. CASE Txt
  <2>1. uriPc' = "srv" /\ dnsPc' = "ask" /\ asked'.type = "srv" BY <1>2 DEF Txt
  <2> QED BY <2>1 DEF AskInv
<1>3. CASE Srv BY <1>3 DEF Srv, AskInv, dnsVars
<1>4. CASE DnsRefuse /\ UNCHANGED uriVars BY <1>4 DEF DnsRefuse, uriVars, AskInv
<1>5. CASE DnsSend /\ UNCHANGED uriVars BY <1>5 DEF DnsSend, uriVars, AskInv
<1>6. CASE DnsWake /\ UNCHANGED uriVars BY <1>6 DEF DnsWake, uriVars, AskInv
<1>7. CASE DnsTimeout /\ UNCHANGED uriVars BY <1>7 DEF DnsTimeout, uriVars, AskInv
<1>8. CASE DnsRemove /\ UNCHANGED uriVars BY <1>8 DEF DnsRemove, uriVars, AskInv
<1>9. CASE DnsParse /\ UNCHANGED uriVars
  <2>1. dnsPc = "parse" /\ dnsPc' = "idle" /\ UNCHANGED <<uriPc, asked>>
    BY <1>9 DEF DnsParse, uriVars
  <2>2. asked.type = uriPc /\ uriPc \in {"txt", "srv"} BY <2>1 DEF AskInv
  <2> QED BY <1>9, <2>1, <2>2, FoundIs DEF AskInv
<1>10. ASSUME NEW p \in Packets, Receive(p), UNCHANGED uriVars PROVE AskInv'
  BY <1>10 DEF Receive, uriVars, AskInv
<1>11. CASE UNCHANGED parseVars BY <1>11 DEF parseVars, uriVars, dnsVars, AskInv
<1> QED
  BY <1>1, <1>2, <1>3, <1>4, <1>5, <1>6, <1>7, <1>8, <1>9, <1>10, <1>11
  DEF ParseNext, UriStep, DnsNext, DnsStep

(* An accepted list is neither empty nor too long, and has no bad entry.   *)
LEMMA ScanIs ==
  ASSUME NEW u \in Uris, ScanRc(u) = "ok"
  PROVE  /\ u.hosts \in Seq(Texts \union {NULL}) /\ Len(u.hosts) \in 1..MaxHosts
         /\ \A i \in DOMAIN u.hosts : u.hosts[i] # NULL /\ u.hosts[i] # NoText
         /\ Scanned(u) \in Outs /\ Scanned(u).hosts = u.hosts
         /\ Scanned(u).tls = (u.scheme = "srv") /\ Scanned(u).insecure = FALSE
<1> DEFINE bad == {i \in DOMAIN u.hosts : u.hosts[i] \in {NULL, NoText} \/ i > MaxHosts}
<1>1. u.hosts \in Seq(Texts \union {NULL}) BY UriAssumption DEF UriAssumption
<1>2. MaxHosts \in Nat BY Bounds
<1>3. HostListRc(u.hosts) = "ok" /\ u.hosts # <<>> BY DEF ScanRc
<1>4. bad = {} BY <1>3 DEF HostListRc
<1>5. \A i \in DOMAIN u.hosts : u.hosts[i] # NULL /\ u.hosts[i] # NoText /\ i <= MaxHosts
  <2> TAKE i \in DOMAIN u.hosts
  <2>1. i \notin bad BY <1>4
  <2>2. u.hosts[i] \notin {NULL, NoText} /\ ~(i > MaxHosts) BY <2>1
  <2>3. i \in 1..Len(u.hosts) BY <1>1
  <2>4. Len(u.hosts) \in Nat BY <1>1
  <2> QED BY <1>2, <2>2, <2>3, <2>4
<1> HIDE DEF bad
<1>6. Len(u.hosts) \in DOMAIN u.hosts /\ Len(u.hosts) \in Nat BY <1>1, <1>3
<1>7. Len(u.hosts) \in 1..MaxHosts
  <2>1. Len(u.hosts) <= MaxHosts BY <1>5, <1>6
  <2>2. Len(u.hosts) # 0 BY <1>1, <1>3
  <2> QED BY <1>2, <1>6, <2>1, <2>2
<1>8. /\ Scanned(u) \in Outs /\ Scanned(u).hosts = u.hosts
      /\ Scanned(u).tls = (u.scheme = "srv") /\ Scanned(u).insecure = FALSE
  <2>1. NoText \in Texts /\ "admin" \in Texts BY Bounds
  <2>2. Blank \in Outs /\ Blank.insecure = FALSE BY <2>1 DEF Blank, Outs
  <2> QED BY <1>1, <2>2 DEF Scanned, Outs
<1> QED BY <1>1, <1>5, <1>7, <1>8

(* What an accepted parse has done last: the URI's own options, on what    *)
(* nothing but TXT records had touched.                                    *)
Rules(o) ==
  /\ o.tls = IF Says(uri.options, "tls") = NULL THEN uri.scheme = "srv"
             ELSE Says(uri.options, "tls") = "true"
  /\ o.insecure = (Says(uri.options, "allowInsecureAuth") = "true")
  /\ \A k \in {"replicaSet", "authSource"} :
       Says(uri.options, k) # NULL => o[k] = Says(uri.options, k)

LEMMA LastIsSaid ==
  ASSUME NEW s \in Seq(Options), NEW key, NEW b, NEW now
  PROVE  /\ LastFlag(s, key, Len(s), b, now) =>
              now = IF Says(s, key) = NULL THEN b ELSE Says(s, key) = "true"
         /\ LastText(s, key, Len(s), b, now) => (Says(s, key) # NULL => now = Says(s, key))
<1>1. /\ Hits(s, key, Len(s)) = {} => Says(s, key) = NULL
      /\ \A i \in 1..Len(s) : IsLast(s, key, Len(s), i) => Says(s, key) = s[i].val /\ s[i].val # NULL
  BY SaysIs
<1>2. CASE Hits(s, key, Len(s)) = {}
  <2>1. \A i : ~IsLast(s, key, Len(s), i) BY <1>2 DEF IsLast
  <2> QED BY <1>1, <1>2, <2>1, Zenon DEF LastFlag, LastText
<1>3. CASE Hits(s, key, Len(s)) # {}
  <2>1. ASSUME NEW i \in 1..Len(s), IsLast(s, key, Len(s), i), now = (s[i].val = "true")
        PROVE  now = IF Says(s, key) = NULL THEN b ELSE Says(s, key) = "true"
    BY <1>1, <2>1, Zenon
  <2>2. LastFlag(s, key, Len(s), b, now) =>
              now = IF Says(s, key) = NULL THEN b ELSE Says(s, key) = "true"
    BY <1>3, <2>1, Zenon DEF LastFlag
  <2>3. LastText(s, key, Len(s), b, now) => (Says(s, key) # NULL => now = Says(s, key))
    BY <1>1, <1>3, Zenon DEF LastText
  <2> QED BY <2>2, <2>3
<1> QED BY <1>2, <1>3

LEMMA OwnOptionsLast ==
  ASSUME uri \in Uris, NEW u \in Outs, u.tls = (uri.scheme = "srv"), u.insecure = FALSE
  PROVE  LET v == ParseOptions(u, uri.options, "uri") IN Rules(v) /\ v.hosts = u.hosts
<1> DEFINE s == uri.options
           v == ParseOptions(u, s, "uri")
<1>1. s \in Seq(Options) BY UriAssumption DEF UriAssumption
<1>2. /\ v \in Outs /\ v.hosts = u.hosts
      /\ LastFlag(s, "tls", Len(s), u.tls, v.tls)
      /\ LastFlag(s, "allowInsecureAuth", Len(s), u.insecure, v.insecure)
      /\ LastText(s, "replicaSet", Len(s), u.replicaSet, v.replicaSet)
      /\ LastText(s, "authSource", Len(s), u.authSource, v.authSource)
  BY <1>1, UriOptionsSay
<1>3. /\ v.tls = IF Says(s, "tls") = NULL THEN u.tls ELSE Says(s, "tls") = "true"
      /\ v.insecure = IF Says(s, "allowInsecureAuth") = NULL THEN u.insecure
                      ELSE Says(s, "allowInsecureAuth") = "true"
      /\ Says(s, "replicaSet") # NULL => v.replicaSet = Says(s, "replicaSet")
      /\ Says(s, "authSource") # NULL => v.authSource = Says(s, "authSource")
  BY <1>1, <1>2, LastIsSaid
<1>4. NULL # "true" BY Bounds
<1>5. u.tls = (uri.scheme = "srv") /\ u.insecure = FALSE OBVIOUS
<1> HIDE DEF s, v
<1>6. v.tls = IF Says(s, "tls") = NULL THEN uri.scheme = "srv" ELSE Says(s, "tls") = "true"
  BY <1>3, <1>5, Zenon
<1>7. v.insecure = (Says(s, "allowInsecureAuth") = "true")
  <2>1. CASE Says(s, "allowInsecureAuth") = NULL
    <3>1. v.insecure = FALSE /\ ~(Says(s, "allowInsecureAuth") = "true") BY <1>3, <1>4, <1>5, <2>1
    <3> QED BY <3>1
  <2>2. CASE Says(s, "allowInsecureAuth") # NULL BY <1>3, <2>2
  <2> QED BY <2>1, <2>2
<1>8. v["replicaSet"] = v.replicaSet /\ v["authSource"] = v.authSource OBVIOUS
<1>9. Rules(v) BY <1>3, <1>6, <1>7, <1>8 DEF Rules, s
<1> QED BY <1>2, <1>9 DEF s, v

LEMMA OutStep == AskInv /\ OutInv /\ [ParseNext]_parseVars => OutInv'
<1> SUFFICES ASSUME AskInv, OutInv, [ParseNext]_parseVars PROVE OutInv'
  OBVIOUS
<1>1. CASE Scan
  <2>1. uri' = uri /\ uri \in Uris BY <1>1 DEF Scan, OutInv
  <2>2. CASE ScanRc(uri) # "ok"
    <3>1. uriPc' = "done" /\ uriRc' # "ok" BY <1>1, <2>2 DEF Scan
    <3> QED BY <2>1, <3>1 DEF OutInv, UriAccepted, UriRules, HostsUsable
  <2>3. CASE ScanRc(uri) = "ok" /\ uri.scheme = "srv"
    <3>1. uriPc' = "txt" /\ out' = Scanned(uri) BY <1>1, <2>3 DEF Scan
    <3>2. out' \in Outs /\ out'.tls = TRUE /\ out'.insecure = FALSE BY <2>1, <2>3, <3>1, ScanIs
    <3> QED BY <2>1, <2>3, <3>1, <3>2 DEF OutInv, UriAccepted, UriRules, HostsUsable
  <2>4. CASE ScanRc(uri) = "ok" /\ uri.scheme # "srv"
    <3>1. uriPc' = "done" /\ out' = ParseOptions(Scanned(uri), uri.options, "uri")
      BY <1>1, <2>4 DEF Scan
    <3>2. /\ Len(uri.hosts) \in 1..MaxHosts
          /\ \A i \in DOMAIN uri.hosts : uri.hosts[i] # NULL /\ uri.hosts[i] # NoText
          /\ Scanned(uri) \in Outs /\ Scanned(uri).hosts = uri.hosts
          /\ Scanned(uri).tls = (uri.scheme = "srv") /\ Scanned(uri).insecure = FALSE
      BY <2>1, <2>4, ScanIs
    <3>3. Rules(out') /\ out'.hosts = uri.hosts BY <2>1, <3>1, <3>2, OwnOptionsLast
    <3>4. UriRules' BY <2>1, <3>3 DEF Rules, UriRules
    <3>5. HostsUsable' BY <2>1, <3>2, <3>3 DEF HostsUsable
    <3> QED BY <2>1, <3>1, <3>4, <3>5 DEF OutInv, UriAccepted
  <2> QED BY <2>2, <2>3, <2>4
<1>2. CASE Txt
  <2>1. /\ uriPc = "txt" /\ dnsPc = "idle" /\ uriPc' = "srv" /\ uri' = uri
        /\ out' = ParseOptions(out, TxtOptionsOf, "txt")
    BY <1>2 DEF Txt
  <2>2. TxtOptionsOf \in Seq(Options) BY <2>1 DEF TxtOptionsOf, AskInv
  <2>3. uri \in Uris /\ uri.scheme = "srv" /\ out \in Outs /\ out.tls = TRUE /\ out.insecure = FALSE
    BY <2>1 DEF OutInv
  <2>4. out' \in Outs /\ out'.tls = TRUE /\ out'.insecure = FALSE
    BY <2>1, <2>2, <2>3, TxtOptionsSay
  <2> QED BY <2>1, <2>3, <2>4 DEF OutInv, UriAccepted, UriRules, HostsUsable
<1>3. CASE Srv
  <2>1. uriPc = "srv" /\ dnsPc = "idle" /\ uriPc' = "done" /\ uri' = uri BY <1>3 DEF Srv
  <2>2. uri \in Uris /\ uri.scheme = "srv" /\ out \in Outs /\ out.tls = TRUE /\ out.insecure = FALSE
    BY <2>1 DEF OutInv
  <2>3. CASE dnsRc = "ok"
    <3>1. found \in Targets /\ found # <<>> BY <2>1, <2>3 DEF AskInv
    <3> DEFINE u == [out EXCEPT !.hosts = found]
    <3>2. /\ found \in Seq(Texts \union {NULL}) /\ Len(found) \in 1..MaxHosts
          /\ \A i \in DOMAIN found : found[i] # NULL
      <4>1. found \in Seq(Texts) /\ Len(found) <= MaxHosts /\ Len(found) \in Nat /\ MaxHosts \in Nat
        BY <3>1, Bounds DEF Targets
      <4>2. Len(found) # 0 BY <3>1, <4>1
      <4>3. \A i \in DOMAIN found : found[i] \in Texts BY <4>1
      <4>4. NULL \notin Texts BY Bounds
      <4> QED BY <4>1, <4>2, <4>3, <4>4
    <3>3. u \in Outs /\ u.hosts = found /\ u.tls = TRUE /\ u.insecure = FALSE
      BY <2>2, <3>2 DEF Outs
    <3>4. out' = ParseOptions(u, uri.options, "uri") BY <1>3, <2>3 DEF Srv, Completed
    <3> HIDE DEF u
    <3>5. Rules(out') /\ out'.hosts = found BY <2>2, <3>3, <3>4, OwnOptionsLast
    <3>6. UriRules' BY <2>1, <3>5 DEF Rules, UriRules
    <3>7. HostsUsable' BY <2>1, <2>2, <3>2, <3>5 DEF HostsUsable
    <3> QED BY <2>1, <2>2, <3>6, <3>7 DEF OutInv, UriAccepted
  <2>4. CASE dnsRc # "ok"
    <3>1. uriRc' = "dns" BY <1>3, <2>4 DEF Srv
    <3> QED BY <2>1, <2>2, <3>1 DEF OutInv, UriAccepted, UriRules, HostsUsable
  <2> QED BY <2>3, <2>4
<1>4. CASE UNCHANGED uriVars
  BY <1>4 DEF uriVars, OutInv, UriAccepted, UriRules, HostsUsable
<1> QED BY <1>1, <1>2, <1>3, <1>4 DEF ParseNext, UriStep, parseVars

LEMMA ParseStarts == ParseInit => ParseInv
<1> SUFFICES ASSUME ParseInit PROVE ParseInv
  OBVIOUS
<1>1. FrameInv BY FrameInit
<1>2. ReplyInv
  <2>1. reply = <<>> /\ replyLen = 0 /\ dnsPc = "idle" /\ woken = FALSE BY DEF ParseInit, DnsInit
  <2>2. Len(reply) = 0 BY <2>1
  <2> QED BY <2>1, <2>2 DEF ReplyInv
<1>3. AskInv BY DEF ParseInit, DnsInit, UriInit, AskInv
<1>4. OutInv BY DEF ParseInit, UriInit, OutInv, UriAccepted, UriRules, HostsUsable
<1> QED BY <1>1, <1>2, <1>3, <1>4 DEF ParseInv

(* mongo_uri.c:123: whatever arrives at the pcb, and for every string, what*)
(* a parse accepts keeps the URI's own word over that of TXT records, and  *)
(* has as many hosts as fit, at least one.                                 *)
THEOREM UriIsAccepted == ParseSpec => []UriAccepted
<1>1. ParseInv /\ [ParseNext]_parseVars => ParseInv'
  BY FrameStep, ReplyStep, AskStep, OutStep DEF ParseInv
<1>2. ParseInv => UriAccepted BY DEF ParseInv, OutInv
<1> QED BY <1>1, <1>2, ParseStarts, PTL DEF ParseSpec
=============================================================================
