----------------------------- MODULE BsonBase64 -----------------------------
(***************************************************************************)
(* Base64 as libbson writes it (binary values in JSON) and reads it        *)
(* (common-b64.c).  Bytes and characters are numbers below 256; a text     *)
(* that is read ends before its NUL, which may come early.                 *)
(***************************************************************************)
EXTENDS Integers, Sequences, SequencesExt

Pad64 == 61

(* The table Base64, and bson_b64_initialize_rmap's reverse of it. *)
Digit(v) ==
  CASE v \in 0..25 -> 65 + v [] v \in 26..51 -> 71 + v [] v \in 52..61 -> v - 4
    [] v = 62 -> 43 [] v = 63 -> 47
WhiteSpace == 254
EndOfText == 253
NoDigit == 255
Rmap(ch) ==
  CASE ch \in 65..90 -> ch - 65 [] ch \in 97..122 -> ch - 71 [] ch \in 48..57 -> ch + 4
    [] ch = 43 -> 62 [] ch = 47 -> 63
    [] ch \in (9..13) \union {32} -> WhiteSpace
    [] ch \in {0, Pad64} -> EndOfText
    [] OTHER -> NoDigit
IsSpace(ch) == Rmap(ch) = WhiteSpace

NtopSize(size) == 4 * ((((size * 8 + 5) \div 6) + 3) \div 4) + 1
PtonSize(size) == (size * 6) \div 8

(* mcommon_b64_ntop: each three bytes, as far as the target has room, then *)
(* one or two with padding, then the NUL.                                  *)
Group(a, b, c) == << Digit(a \div 4), Digit((a % 4) * 16 + (b \div 16)),
                     Digit((b % 16) * 4 + (c \div 64)), Digit(c % 64) >>
Refused == [rc |-> -1, out |-> <<>>]
Ntop(src, room) ==
  LET n == Len(src)
      At(i) == IF i <= n THEN src[i] ELSE 0
      Four(k) == LET g == Group(At(3 * k + 1), At(3 * k + 2), At(3 * k + 3)) IN
                 CASE n - 3 * k >= 3 -> g
                   [] n - 3 * k = 2  -> SubSeq(g, 1, 3) \o <<Pad64>>
                   [] n - 3 * k = 1  -> SubSeq(g, 1, 2) \o <<Pad64, Pad64>>
      out == FlattenSeq([k \in 1..((n + 2) \div 3) |-> Four(k - 1)])
  IN IF Len(out) >= room THEN Refused ELSE [rc |-> Len(out), out |-> out]

(* The loop of mongoc_b64_pton_do: how many digits it has taken decides    *)
(* what the next one completes; `next' is the byte that digit is to add    *)
(* to.  It stops at the NUL, at a pad or with an error.                    *)
Scan(text, room) ==
  LET Turn[i \in 1..(Len(text) + 1), digits \in Nat, out \in Seq(Nat), next \in Nat] ==
        LET ch == IF i <= Len(text) THEN text[i] ELSE 0
            v == Rmap(ch)
            full == Len(out) + (IF digits % 4 \in {1, 2} THEN 1 ELSE 0) >= room
        IN CASE v = WhiteSpace -> Turn[i + 1, digits, out, next]
             [] v = EndOfText -> [at |-> i, ch |-> ch, state |-> digits % 4, out |-> out,
                            next |-> next, ok |-> TRUE]
             [] v = NoDigit -> [ok |-> FALSE]
             [] OTHER ->
                IF full THEN [ok |-> FALSE]
                ELSE CASE digits % 4 = 0 -> Turn[i + 1, digits + 1, out, v * 4]
                       [] digits % 4 = 1 -> Turn[i + 1, digits + 1, Append(out, next + v \div 16),
                                                 (v % 16) * 16]
                       [] digits % 4 = 2 -> Turn[i + 1, digits + 1, Append(out, next + v \div 4),
                                                 (v % 4) * 64]
                       [] digits % 4 = 3 -> Turn[i + 1, digits + 1, Append(out, next + v), 0]
  IN Turn[1, 0, <<>>, 0]

(* What may follow the first pad: after two digits a second one, then      *)
(* nothing but white space.                                                *)
Tail64(text, i) == SelectSeq(SubSeq(text, i + 1, Len(text)), LAMBDA ch : ~IsSpace(ch))
UpToNul(rest) == SubSeq(rest, 1, CHOOSE n \in 0..Len(rest) :
                          /\ n = Len(rest) \/ rest[n + 1] = 0
                          /\ \A k \in 1..n : rest[k] # 0)
Padded(state, rest) == (state = 2 /\ rest = <<Pad64>>) \/ (state = 3 /\ rest = <<>>)

(* The bits that slopped past the last byte. *)
AnySlop(next) == TRUE  \* mutant: they are not looked at
NoSlop(next) == next = 0

(* mcommon_b64_pton, with a target and without one. *)
Pton(text, room) ==
  LET s == Scan(text, room)
      good == /\ s.ok
              /\ IF s.ch = Pad64
                 THEN Padded(s.state, UpToNul(Tail64(text, s.at))) /\ NoSlop(s.next)
                 ELSE s.state = 0
  IN IF good THEN [rc |-> Len(s.out), out |-> s.out] ELSE Refused
PtonLen(text) ==
  LET s == Scan(text, Len(text) + 1)
      good == /\ s.ok
              /\ IF s.ch = Pad64 THEN Padded(s.state, UpToNul(Tail64(text, s.at)))
                 ELSE s.state = 0
  IN IF good THEN Len(s.out) ELSE -1
-----------------------------------------------------------------------------
(* What mcommon_b64_ntop writes into a target of the size that             *)
(* ..._calculate_target_size computes is read back byte for byte into one  *)
(* of the size that its inverse computes, and into no smaller one that     *)
(* would not hold it; a target too small for the text is refused.          *)
RoundTrips(bytes) ==
  LET text == Ntop(bytes, NtopSize(Len(bytes))) IN
  /\ text.rc = NtopSize(Len(bytes)) - 1
  /\ Pton(text.out, PtonSize(text.rc)) = [rc |-> Len(bytes), out |-> bytes]
  /\ PtonLen(text.out) = Len(bytes)
  /\ Ntop(bytes, text.rc) = Refused

(* A text that is accepted is, but for its white space, the one spelling   *)
(* of what it gives (common-b64.c:412: other bits would be a subliminal    *)
(* channel), and its length was foretold.                                  *)
Canonical(text) ==
  LET p == Pton(text, Len(text) + 1)
      shown == SelectSeq(UpToNul(text), LAMBDA ch : ~IsSpace(ch))
  IN p.rc >= 0 => /\ shown = Ntop(p.out, NtopSize(p.rc)).out
                  /\ PtonLen(text) = p.rc
=============================================================================
