------------------------------ MODULE DnsName ------------------------------
(***************************************************************************)
(* The names inside a DNS message (mongo_dns.c): encode_name writes one,   *)
(* decode_name reads one back through RFC 1035's compression pointers and  *)
(* says how far it reached, which is where the reader of the message goes  *)
(* on.                                                                     *)
(*                                                                         *)
(* A message is a sequence of bytes.  The alphabet keeps the four kinds of *)
(* byte the code tells apart: 0, a label length, a reserved length, and    *)
(* the first byte of a pointer, which carries the high bits of its offset. *)
(* Offsets count from 0, as in the code.                                   *)
(***************************************************************************)
EXTENDS Integers, Sequences, SequencesExt

CONSTANTS MaxLabel,    \* 63: a label longer than this has no encoding
          LoopGuard,   \* 256: how many bytes of structure one name may take
          NameCap,     \* 256: the callers' buffers
          Labels,      \* the labels that occur: sequences of characters
          MaxLabels,   \* bound: labels that a name spells itself
          MaxMessage   \* bound: how long the message grows

Dot == 46
Reserved == 64
Pointer == 192         \* 0xc0; the six bits below are the offset's high bits

NameAssumption ==
  /\ MaxLabel \in 1..63 /\ LoopGuard \in Nat /\ NameCap \in Nat \ {0}
  /\ MaxLabels \in Nat /\ MaxMessage \in 0..(64 * 256)
  /\ \A l \in Labels : l \in Seq(65..90) /\ Len(l) \in 1..MaxLabel
ASSUME NameAssumption

Fail == [n |-> -1, text |-> <<>>]

(* What decode_name has at the top of its loop: where it reads (pos), what *)
(* it has written (text), the bytes its caller will skip once known (n,    *)
(* -1 before the first pointer), and the turns left of the loop guard.     *)
AtByte(pos, text, n, turns) == [pos |-> pos, text |-> text, n |-> n, turns |-> turns]

(* A pointer: the first one taken fixes the bytes consumed. *)
FollowForgetful(m, at, start) ==  \* mutant: each pointer fixes the bytes consumed
  AtByte((m[at.pos + 1] % 64) * 256 + m[at.pos + 2], at.text,
         at.pos + 2 - start, at.turns - 1)
Follow(m, at, start) ==
  AtByte((m[at.pos + 1] % 64) * 256 + m[at.pos + 2], at.text,
         IF at.n < 0 THEN at.pos + 2 - start ELSE at.n, at.turns - 1)

(* A label: a dot unless it is the first, then its characters. *)
Dotted(text) == IF text = <<>> THEN text ELSE Append(text, Dot)
LabelFits(m, at, cap) ==
  LET b == m[at.pos + 1] IN
  /\ at.text # <<>> => Len(at.text) + 1 < cap
  /\ at.pos + 1 + b <= Len(m)
  /\ Len(Dotted(at.text)) + b < cap
Take(m, at) ==
  LET b == m[at.pos + 1] IN
  AtByte(at.pos + 1 + b, Dotted(at.text) \o SubSeq(m, at.pos + 2, at.pos + 1 + b),
         at.n, at.turns - 1)

IsPointer(m, at) == m[at.pos + 1] >= Pointer
Left(m, at) == at.pos < Len(m) /\ at.turns > 0
Proceeds(m, at, cap) ==
  /\ Left(m, at)
  /\ IF IsPointer(m, at) THEN at.pos + 1 < Len(m)
     ELSE m[at.pos + 1] \in 1..(Reserved - 1) /\ LabelFits(m, at, cap)
Proceed(m, at, start) == IF IsPointer(m, at) THEN Follow(m, at, start) ELSE Take(m, at)

(* A byte 0 ends the name; all else that does not proceed is refused.      *)
Ended(m, at, start) ==
  IF Left(m, at) /\ m[at.pos + 1] = 0
  THEN [n |-> IF at.n < 0 THEN at.pos + 1 - start ELSE at.n, text |-> at.text]
  ELSE Fail

DecodeName(m, start, cap) ==
  LET Loop[at \in [pos : Nat, text : Seq(Nat), n : Int, turns : 0..LoopGuard]] ==
        IF Proceeds(m, at, cap) THEN Loop[Proceed(m, at, start)] ELSE Ended(m, at, start)
  IN Loop[AtByte(start, <<>>, -1, LoopGuard)]

(* encode_name on a dotted text: cut at the dots, refuse an empty label    *)
(* (but for one dot at the end) or a long one, and leave room for the      *)
(* final 0.  `out' is what it has written, `at' where the next label starts. *)
LabelEnd(text, i) ==
  LET dots == {j \in i..Len(text) : text[j] = Dot}
  IN IF dots = {} THEN Len(text) + 1 ELSE CHOOSE j \in dots : \A k \in dots : j <= k
CutAt(i, out) == [at |-> i, out |-> out]
Cuts(text, c, cap) ==
  LET size == LabelEnd(text, c.at) - c.at
  IN c.at <= Len(text) /\ size \in 1..MaxLabel /\ Len(c.out) + size + 2 <= cap
CutOff(text, c) ==
  LET end == LabelEnd(text, c.at) IN
  CutAt(IF end > Len(text) THEN end ELSE end + 1,
        c.out \o <<end - c.at>> \o SubSeq(text, c.at, end - 1))
Written(text, c) ==
  IF c.at > Len(text) THEN [ok |-> TRUE, wire |-> Append(c.out, 0)] ELSE [ok |-> FALSE, wire |-> c.out]

EncodeName(text, cap) ==
  LET Loop[c \in [at : 1..(Len(text) + 1), out : Seq(Nat)]] ==
        IF Cuts(text, c, cap) THEN Loop[CutOff(text, c)] ELSE Written(text, c)
  IN Loop[CutAt(1, <<>>)]

(* dns_name_eq_ci. *)
Lower(c) == IF c \in 65..90 THEN c + 32 ELSE c
SameName(a, b) == Len(a) = Len(b) /\ \A i \in DOMAIN a : Lower(a[i]) = Lower(b[i])
-----------------------------------------------------------------------------
(* A server's message grows name by name.  `names' records what each one   *)
(* says: where it starts, its text, where the data behind it begins, and   *)
(* how many labels and pointers lead to its end.                           *)
VARIABLES message, names
nameVars == <<message, names>>

(* What labels spell, as text and as bytes.                                *)
Extend(spelt, l) == [text |-> Dotted(spelt.text) \o l, wire |-> spelt.wire \o <<Len(l)>> \o l]
Spell(labels) == FoldLeft(LAMBDA spelt, l : Extend(spelt, l), [text |-> <<>>, wire |-> <<>>], labels)

NameInit == message = <<>> /\ names = {}

Write(bytes, text, turns) ==
  /\ Len(message) + Len(bytes) <= MaxMessage
  /\ message' = message \o bytes
  /\ names' = names \union {[at |-> Len(message), text |-> text,
                             size |-> Len(bytes), turns |-> turns]}

(* A name in full, as encode_name writes it (a dot may end its text).  A   *)
(* server that echoes a question may change the case of its letters.       *)
WriteFull ==
  \E labels \in SeqOf(Labels, MaxLabels), dot \in {<<>>, <<Dot>>}, echoed \in BOOLEAN :
    LET e == EncodeName(Spell(labels).text \o dot, MaxMessage) IN
    /\ labels # <<>> /\ e.ok /\ (echoed => message = <<>>)
    /\ Write(IF echoed THEN [i \in DOMAIN e.wire |-> Lower(e.wire[i])] ELSE e.wire,
             Spell(labels).text, Len(labels) + 1)

(* Labels of its own and then a pointer to a name already there, whose     *)
(* text becomes the rest.                                                  *)
WriteCompressed ==
  \E own \in SeqOf(Labels, MaxLabels), target \in names :
    Write(Spell(own).wire \o <<Pointer + target.at \div 256, target.at % 256>>,
          IF own = <<>> THEN target.text ELSE Dotted(Spell(own).text) \o target.text,
          Len(own) + 1 + target.turns)

(* Record data between the names. *)
WriteData == \E b \in {0, 1, Reserved, Pointer} :
  /\ Len(message) < MaxMessage
  /\ message' = Append(message, b) /\ names' = names

NameNext == WriteFull \/ WriteCompressed \/ WriteData
NameSpec == NameInit /\ [][NameNext]_nameVars
-----------------------------------------------------------------------------
(* Whatever encode_name or a server has written, at whatever depth of      *)
(* pointers to pointers, decode_name gives the text back and the place of  *)
(* the data behind the name, unless it is too long for the buffer or takes *)
(* more turns than the loop guard allows: then it is refused, never cut.   *)
NamesDecode ==
  \A nm \in names :
    LET d == DecodeName(message, nm.at, NameCap) IN
    IF Len(nm.text) < NameCap /\ nm.turns <= LoopGuard
    THEN d.n = nm.size /\ SameName(d.text, nm.text)
    ELSE d = Fail

(* Read from any other place, where bytes of data pass for a name, a loop  *)
(* of pointers included, decode_name still ends within the buffer: what    *)
(* it accepts fits with its terminator and lies within the message.        *)
DecodeStaysInside ==
  \A start \in 0..Len(message) :
    LET d == DecodeName(message, start, NameCap) IN
    d # Fail => /\ d.n \in 1..(Len(message) - start)
                /\ Len(d.text) < NameCap

NamesRead == NamesDecode /\ DecodeStaysInside
=============================================================================
