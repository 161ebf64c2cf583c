---------------------------- MODULE SessionProofs ---------------------------
(***************************************************************************)
(* What the two conversations of one client keep, each by itself: the SCRAM*)
(* conversation (mongo_auth.c), for every password, nonce and iteration    *)
(* count, any number of attempts, and any server that can sign only with   *)
(* what it has stored; and a cursor (mongo_cursor.c), for any number of    *)
(* documents, any batches and any calls, those that fail included.         *)
(***************************************************************************)
EXTENDS Scram, MongoCursor, TLAPS
-----------------------------------------------------------------------------
(***************************************************************************)
(* mongo_auth.c.                                                           *)
(***************************************************************************)
ScramSpec == ScramInit /\ [][ScramNext]_scramVars

(* A signature names the attempt that it was made in. *)
AttemptOf(signature) == signature[3][1]

(* Past server-first both sides have the same messages, of this attempt;   *)
(* what the server has signed is older; and past server-final it has       *)
(* proved that it has the password.                                        *)
PastServerFirst ==
  /\ attempt \in Nat
  /\ step \in {"idle", "first", "final", "last"}
  /\ step = "final" \/ step = "last" \/ authRc = "ok" =>
       /\ authMessage = AuthMessage(serverFirst[1]) /\ serverFirst[1].nonce = attempt
  /\ step = "last" \/ authRc = "ok" => serverPw = password /\ serverUp # "no"
  /\ step # "idle" => authRc = ""

SignedInTime ==
  \A s \in signatures :
    /\ AttemptOf(s) \in Nat /\ AttemptOf(s) <= attempt
    /\ step = "first" \/ step = "final" => AttemptOf(s) # attempt
AuthInv == PastServerFirst /\ SignedInTime

LEMMA AuthInit == ScramInit => AuthInv
<1> SUFFICES ASSUME ScramInit PROVE AuthInv
  OBVIOUS
<1>1. attempt = 0 /\ step = "idle" /\ authRc = "" /\ signatures = {} BY DEF ScramInit
<1>2. PastServerFirst BY <1>1 DEF PastServerFirst
<1>3. SignedInTime BY <1>1 DEF SignedInTime
<1> QED BY <1>2, <1>3 DEF AuthInv

(* The messages' own parts can be told from them, and a password from      *)
(* what is prepared of it.                                                 *)
LEMMA Messages ==
  ASSUME authMessage = AuthMessage(serverFirst[1])
  PROVE  ServerMessage = authMessage /\ authMessage[2] = serverFirst[1] /\ authMessage[1] = attempt
BY DEF AuthMessage, ServerMessage

LEMMA SignatureParts ==
  ASSUME NEW key, NEW msg, NEW key2, NEW msg2, Signature(key, msg) = Signature(key2, msg2)
  PROVE  key = key2 /\ msg = msg2
BY DEF Signature

LEMMA ThirdPart == ASSUME NEW key, NEW msg PROVE Signature(key, msg)[3] = msg
BY DEF Signature

LEMMA SameKey ==
  ASSUME NEW first, NEW pw, NEW pw2, Key(pw, first) = Key(pw2, first) PROVE pw = pw2
<1>1. Prepared(pw) = Prepared(pw2) BY DEF Key
<1>2. CASE mech = Sha1 BY <1>1, <1>2 DEF Prepared
<1>3. CASE mech # Sha1 BY <1>1, <1>3 DEF Prepared
<1> QED BY <1>2, <1>3

(* The client accepts nothing but the signature of this attempt, which     *)
(* only a server that has the password can have made.                      *)
LEMMA AcceptedIsOwn ==
  ASSUME AuthInv, step = "final", NEW signature,
         signature \in {<<>>, <<"short">>} \union signatures
                       \union (IF Proved THEN {OwnSignature} ELSE {}),
         FinalRc(signature) = "ok"
  PROVE  Proved /\ serverPw = password
<1>1. signature = Signature(ClientKey, authMessage) BY DEF FinalRc
<1>2. authMessage = AuthMessage(serverFirst[1]) BY DEF AuthInv, PastServerFirst, SignedInTime
<1>3. signature[3] = authMessage BY <1>1, ThirdPart
<1>4. AttemptOf(signature) = attempt BY <1>2, <1>3, Messages DEF AttemptOf
<1>5. signature # <<>> /\ signature # <<"short">> BY <1>1 DEF Signature
<1>6. signature \notin signatures BY <1>4 DEF AuthInv, PastServerFirst, SignedInTime
<1>7. Proved /\ signature = OwnSignature BY <1>5, <1>6
<1>8. ClientKey = ServerKey BY <1>1, <1>7, SignatureParts DEF OwnSignature
<1>9. Key(password, serverFirst[1]) = Key(serverPw, serverFirst[1])
  BY <1>2, <1>8, Messages DEF ClientKey, ServerKey
<1> QED BY <1>7, <1>9, SameKey

LEMMA AuthStep == AuthInv /\ [ScramNext]_scramVars => AuthInv'
<1> SUFFICES ASSUME AuthInv, [ScramNext]_scramVars PROVE AuthInv'
  OBVIOUS
<1>1. ASSUME NEW mechs, Authenticate(mechs) PROVE AuthInv'
  <2>1. step' \in {"idle", "first"} /\ authRc' # "ok" /\ (step' # "idle" => authRc' = "")
    BY <1>1 DEF Authenticate, Return
  <2>2. attempt \in Nat BY DEF AuthInv, PastServerFirst
  <2>3. attempt' = attempt + 1 /\ signatures' = signatures BY <1>1 DEF Authenticate
  <2>4. PastServerFirst'
    <3>1. attempt' \in Nat BY <2>2, <2>3
    <3>2. ~(step = "final" \/ step = "last" \/ authRc = "ok")' BY <2>1
    <3> QED BY <2>1, <3>1, <3>2 DEF PastServerFirst
  <2>5. ASSUME NEW s \in signatures
        PROVE  AttemptOf(s) \in Nat /\ AttemptOf(s) <= attempt' /\ AttemptOf(s) # attempt'
    <3>1. AttemptOf(s) \in Nat /\ AttemptOf(s) <= attempt BY DEF AuthInv, SignedInTime
    <3> QED BY <2>2, <2>3, <3>1
  <2>6. SignedInTime' BY <2>3, <2>5 DEF SignedInTime
  <2> QED BY <2>4, <2>6 DEF AuthInv
<1>2. CASE CommandFails
  BY <1>2 DEF CommandFails, AuthInv, PastServerFirst, SignedInTime, Return, AuthMessage
<1>3. ASSUME NEW first, Start(first) PROVE AuthInv'
  <2>1. serverFirst'[1] = first BY <1>3 DEF Start
  <2>2. CASE FirstRc(first) = "ok"
    <3>1. first.nonce = attempt BY <2>2 DEF FirstRc
    <3> QED
      BY <1>3, <2>1, <2>2, <3>1
      DEF Start, AuthInv, PastServerFirst, SignedInTime, AuthMessage
  <2>3. CASE FirstRc(first) # "ok"
    BY <1>3, <2>3 DEF Start, AuthInv, PastServerFirst, SignedInTime, Return, AuthMessage
  <2> QED BY <2>2, <2>3
<1>4. ASSUME NEW done \in BOOLEAN, NEW signature, Continue(signature, done) PROVE AuthInv'
  <2>1. /\ step = "final" /\ authRc = "" /\ attempt \in Nat
        /\ authMessage = AuthMessage(serverFirst[1]) /\ serverFirst[1].nonce = attempt
        /\ UNCHANGED <<password, attempt, mech, authMessage, serverPw, serverFirst>>
    BY <1>4 DEF Continue, AuthInv, PastServerFirst
  <2>2. authMessage' = AuthMessage(serverFirst[1])' BY <2>1 DEF AuthMessage
  <2>3. FinalRc(signature) = "ok" => Proved /\ serverPw = password
    BY <1>4, AcceptedIsOwn DEF Continue
  <2>4. step' \in {"idle", "last"}
    BY <1>4 DEF Continue, Return
  <2>5. step' = "last" \/ authRc' = "ok" => FinalRc(signature) = "ok"
    BY <1>4, <2>1 DEF Continue, Return
  <2>6. Proved => serverUp' # "no" BY <1>4 DEF Continue
  <2>7. step' # "idle" => authRc' = "" BY <1>4, <2>1 DEF Continue, Return
  <2>8. ASSUME NEW s \in signatures'
        PROVE  AttemptOf(s) \in Nat /\ AttemptOf(s) <= attempt
    <3>1. CASE s \in signatures BY <3>1 DEF AuthInv, PastServerFirst, SignedInTime
    <3>2. CASE s \notin signatures
      <4>1. s = Signature(ServerKey, ServerMessage)
        BY <1>4, <3>2 DEF Continue, OwnSignature
      <4>2. AttemptOf(s) = attempt BY <2>1, <4>1, ThirdPart, Messages DEF AttemptOf
      <4>3. attempt \in Nat BY <2>1
      <4> QED BY <4>2, <4>3
    <3> QED BY <3>1, <3>2
  <2> QED
    BY <2>1, <2>2, <2>3, <2>4, <2>5, <2>6, <2>7, <2>8
    DEF AuthInv, PastServerFirst, SignedInTime
<1>5. CASE LastRound
  BY <1>5 DEF LastRound, AuthInv, PastServerFirst, SignedInTime, Return, AuthMessage
<1>6. CASE UNCHANGED scramVars
  BY <1>6 DEF scramVars, AuthInv, PastServerFirst, SignedInTime, AuthMessage
<1> QED BY <1>1, <1>2, <1>3, <1>4, <1>5, <1>6 DEF ScramNext

(* mongo_auth.c: MONGO_AUTH_OK only from a server that has the password    *)
(* and signed this attempt; and one that has it accepts the proof.         *)
THEOREM AuthIsSound == ScramSpec => []AuthSound
<1>1. AuthInv => OkIsMutual BY Messages DEF AuthInv, PastServerFirst, OkIsMutual
<1>2. AuthInv => ProofAccepted
  BY Messages DEF AuthInv, PastServerFirst, ProofAccepted, Proved, ClientKey, ServerKey
<1> QED BY <1>1, <1>2, AuthInit, AuthStep, PTL DEF ScramSpec, AuthSound
-----------------------------------------------------------------------------
(***************************************************************************)
(* mongo_cursor.c.                                                         *)
(***************************************************************************)
CursorSpec == CursorInit /\ [][CursorNext]_findVars

Holding == curPc \in {"ready", "next"}  \* the caller has a cursor

(* What is left of the batch are the last documents the server has sent,   *)
(* in order; everything given came before them; and nothing before them is *)
(* missing unless a call has failed.                                       *)
BatchIsTail ==
  /\ sent \in Nat /\ docIter \in [reply : {0, 1, 2}, left : Seq(Int \union {Odd})]
  /\ Len(docIter.left) <= sent
  /\ \A k \in 1..Len(docIter.left) : docIter.left[k] \in {Odd, sent - Len(docIter.left) + k}
GivenBefore ==
  /\ given \in Seq(Int)
  /\ \A i \in 1..Len(given) : given[i] \in 1..(sent - Len(docIter.left))
  /\ \A i, j \in 1..Len(given) : i < j => given[i] < given[j]
NoneMissing ==
  ~failed => /\ Len(given) = sent - Len(docIter.left)
             /\ \A i \in 1..Len(given) : given[i] = i
(* The client's id says what the server last told it, and the iterator     *)
(* points into the reply that is allocated.                                *)
IdSaysMore == Holding /\ cursorId = 0 => ~open /\ sent = Size
EndIsEnd == lastRc = "end" /\ ~failed => Len(given) = Size
IterInReply ==
  /\ batch \in {0, 1, 2}
  /\ Holding => /\ docIter.reply \in {0, batch}
                /\ docIter.left # <<>> => docIter.reply # 0
                /\ lastRc = "doc" => batch # 0
NotStarted ==
  /\ open \in BOOLEAN /\ failed \in BOOLEAN /\ curPc \in {"none", "ready", "next", "gone"}
  /\ curPc = "none" => /\ sent = 0 /\ given = <<>> /\ docIter = NoIter /\ batch = 0
                       /\ lastRc = "none" /\ ~failed
CursorInv == /\ BatchIsTail /\ GivenBefore /\ NoneMissing /\ IdSaysMore /\ EndIsEnd
             /\ IterInReply /\ NotStarted /\ NoCursorLeak

LEMMA CursorStarts == CursorInit => CursorInv
<1> SUFFICES ASSUME CursorInit PROVE CursorInv
  OBVIOUS
<1>1. BatchIsTail BY DEF BatchIsTail, CursorInit, NoIter
<1>2. GivenBefore BY DEF GivenBefore, CursorInit, NoIter
<1>3. NoneMissing
  <2>1. sent = 0 /\ Len(given) = 0 /\ Len(docIter.left) = 0 BY DEF CursorInit, NoIter
  <2> QED BY <2>1 DEF NoneMissing
<1> QED
  BY <1>1, <1>2, <1>3
  DEF CursorInv, IdSaysMore, EndIsEnd, IterInReply, NotStarted, NoCursorLeak, Holding,
      CursorInit, NoIter

(* What a round trip may bring. *)
LEMMA BatchShape ==
  ASSUME NEW from \in Nat, NEW b \in Batches(from)
  PROVE  b \in Seq(Int \union {Odd}) /\ \A k \in 1..Len(b) : b[k] \in {Odd, from + k}
<1>1. PICK n \in 0..(IF Size - from < BatchSize THEN Size - from ELSE BatchSize),
           odd \in 0..BatchSize : b = [i \in 1..n |-> IF i = odd THEN Odd ELSE from + i]
  BY DEF Batches
<1>2. n \in Nat BY CursorAssumption DEF CursorAssumption
<1> QED BY <1>1, <1>2

LEMMA OutcomeShape ==
  ASSUME NEW new, NEW o \in RoundTrips(new), sent \in Nat, open \in BOOLEAN
  PROVE  /\ o.rc \in {"ok", "wire", "protocol"} /\ o.sent \in Nat /\ o.sent >= sent
         /\ o.open \in BOOLEAN
         /\ o.rc = "ok" =>
              /\ o.batch \in Seq(Int \union {Odd}) /\ o.sent = sent + Len(o.batch)
              /\ \A k \in 1..Len(o.batch) : o.batch[k] \in {Odd, sent + k}
              /\ o.open \/ o.sent = Size
<1>1. CASE o = Outcome("wire", sent, open, <<>>) BY <1>1 DEF Outcome
<1>2. CASE o = Outcome("protocol", sent, open, <<>>) BY <1>2 DEF Outcome
<1>3. ASSUME NEW rc \in {"ok", "wire", "protocol"}, NEW more \in BOOLEAN, NEW b \in Batches(sent),
             o = Outcome(rc, sent + Len(b), more, b), o.open \/ o.sent = Size
      PROVE  /\ o.rc \in {"ok", "wire", "protocol"} /\ o.sent \in Nat /\ o.sent >= sent
             /\ o.open \in BOOLEAN /\ o.batch \in Seq(Int \union {Odd})
             /\ o.sent = sent + Len(o.batch)
             /\ \A k \in 1..Len(o.batch) : o.batch[k] \in {Odd, sent + k}
  <2>1. o.rc = rc /\ o.sent = sent + Len(b) /\ o.open = more /\ o.batch = b
    BY <1>3 DEF Outcome
  <2>2. b \in Seq(Int \union {Odd}) /\ \A k \in 1..Len(b) : b[k] \in {Odd, sent + k}
    BY BatchShape
  <2>3. Len(b) \in Nat BY <2>2
  <2> QED BY <2>1, <2>2, <2>3
<1> QED BY <1>1, <1>2, <1>3 DEF RoundTrips

LEMMA CursorStep == CursorInv /\ [CursorNext]_findVars => CursorInv'
<1> SUFFICES ASSUME CursorInv, [CursorNext]_findVars PROVE CursorInv'
  OBVIOUS
<1> USE DEF Holding
<1>t. sent \in Nat /\ open \in BOOLEAN /\ failed \in BOOLEAN BY DEF CursorInv, BatchIsTail, NotStarted
<1>f. Fresh \in {1, 2} BY DEF Fresh
<1>1. CASE Find
  <2>1. PICK o \in RoundTrips(TRUE) :
          /\ Served(o) /\ lastRc' = o.rc /\ failed' = (o.rc # "ok")
          /\ IF o.rc = "ok" THEN Load(o) /\ curPc' = "ready"
                            ELSE curPc' = "gone" /\ UNCHANGED <<cursorId, batch, docIter>>
    BY <1>1 DEF Find
  <2>2. /\ sent = 0 /\ given = <<>> /\ docIter = NoIter /\ batch = 0 /\ given' = <<>>
        /\ curPc = "none"
    BY <1>1 DEF Find, CursorInv, NotStarted
  <2>3. /\ o.rc \in {"ok", "wire", "protocol"} /\ o.sent \in Nat /\ o.sent >= sent
        /\ o.open \in BOOLEAN
        /\ o.rc = "ok" =>
              /\ o.batch \in Seq(Int \union {Odd}) /\ o.sent = sent + Len(o.batch)
              /\ \A k \in 1..Len(o.batch) : o.batch[k] \in {Odd, sent + k}
              /\ o.open \/ o.sent = Size
    BY <1>t, OutcomeShape
  <2>4. CASE o.rc = "ok"
    <3>1. /\ sent' = Len(o.batch) /\ open' = o.open /\ lastRc' = "ok" /\ failed' = FALSE
          /\ curPc' = "ready" /\ batch' = Fresh /\ docIter' = [reply |-> Fresh, left |-> o.batch]
          /\ (cursorId' = 0 => ~o.open)
      <4>1. Len(o.batch) \in Nat /\ o.sent = Len(o.batch) BY <2>2, <2>3, <2>4
      <4>2. Served(o) /\ Load(o) /\ lastRc' = o.rc /\ curPc' = "ready" BY <2>1, <2>4
      <4>3. failed' = FALSE BY <2>1, <2>4
      <4> QED BY <2>4, <4>1, <4>2, <4>3 DEF Served, Load
    <3>2. BatchIsTail' BY <1>f, <2>2, <2>3, <2>4, <3>1 DEF BatchIsTail
    <3>3. GivenBefore' BY <2>2, <3>1 DEF GivenBefore
    <3>4. NoneMissing' BY <2>2, <2>3, <2>4, <3>1 DEF NoneMissing
    <3>5. IterInReply' BY <1>f, <3>1 DEF IterInReply
    <3>6. NotStarted' BY <2>3, <3>1 DEF NotStarted
    <3>7. IdSaysMore' BY <2>2, <2>3, <2>4, <3>1 DEF IdSaysMore
    <3> QED
      BY <3>1, <3>2, <3>3, <3>4, <3>5, <3>6, <3>7
      DEF CursorInv, EndIsEnd, NoCursorLeak
  <2>5. CASE o.rc # "ok"
    <3>1. /\ sent' \in Nat /\ open' \in BOOLEAN /\ failed' = TRUE /\ curPc' = "gone"
          /\ docIter' = NoIter /\ batch' = 0 /\ given' = <<>>
      BY <2>1, <2>2, <2>3, <2>5 DEF Served
    <3>2. BatchIsTail' BY <3>1 DEF BatchIsTail, NoIter
    <3>3. GivenBefore' BY <3>1 DEF GivenBefore
    <3> QED
      BY <3>1, <3>2, <3>3
      DEF CursorInv, EndIsEnd, NoCursorLeak, NoneMissing, IdSaysMore, IterInReply, NotStarted
  <2> QED BY <2>4, <2>5
<1>2. CASE Call
  BY <1>2
  DEF Call, serverVars, CursorInv, BatchIsTail, GivenBefore, NoneMissing, IdSaysMore, EndIsEnd,
      IterInReply, NotStarted, NoCursorLeak
<1>3. CASE Give
  <2> DEFINE left == docIter.left
  <2>1. /\ curPc = "next" /\ left # <<>> /\ curPc' = "ready"
        /\ docIter' = [docIter EXCEPT !.left = Tail(@)]
        /\ UNCHANGED <<sent, open, cursorId, batch>>
    BY <1>3 DEF Give, serverVars
  <2>2. left \in Seq(Int \union {Odd}) /\ docIter \in [reply : {0, 1, 2}, left : Seq(Int \union {Odd})]
    BY DEF CursorInv, BatchIsTail
  <2>3. docIter'.left = Tail(left) /\ docIter'.reply = docIter.reply
    BY <2>1, <2>2
  <2>4. /\ Tail(left) \in Seq(Int \union {Odd}) /\ Len(Tail(left)) = Len(left) - 1
        /\ Len(left) \in Nat \ {0} /\ \A k \in 1..Len(Tail(left)) : Tail(left)[k] = left[k+1]
    BY <2>1, <2>2
  <2>5. Len(left) <= sent /\ \A k \in 1..Len(left) : left[k] \in {Odd, sent - Len(left) + k}
    BY DEF CursorInv, BatchIsTail
  <2>n. PICK n \in Nat \ {0} : n = Len(left) /\ n - 1 = Len(Tail(left)) BY <2>4
  <2>m. PICK m \in Nat : m = Len(given) BY DEF CursorInv, GivenBefore
  <2>6. BatchIsTail'
    <3>1. \A k \in 1..Len(Tail(left)) : Tail(left)[k] \in {Odd, sent - Len(Tail(left)) + k}
      <4> TAKE k \in 1..Len(Tail(left))
      <4>1. k \in 1..(n - 1) BY <2>n
      <4>2. k + 1 \in 1..n /\ sent - (n - 1) + k = sent - n + (k + 1) BY <1>t, <4>1
      <4> QED BY <2>4, <2>5, <2>n, <4>2
    <3>2. docIter' \in [reply : {0, 1, 2}, left : Seq(Int \union {Odd})]
      BY <2>1, <2>2, <2>4
    <3>3. Len(Tail(left)) <= sent BY <1>t, <2>4, <2>5
    <3> QED BY <1>t, <2>1, <2>3, <3>1, <3>2, <3>3 DEF BatchIsTail
  <2>7. /\ given \in Seq(Int) /\ Len(given) \in Nat
        /\ \A i \in 1..Len(given) : given[i] \in Int /\ given[i] >= 1 /\ given[i] <= sent - Len(left)
        /\ \A i, j \in 1..Len(given) : i < j => given[i] < given[j]
    BY <1>t, <2>4 DEF CursorInv, GivenBefore
  <2>8. /\ docIter.reply \in {0, batch} /\ docIter.reply # 0 /\ batch \in {0, 1, 2}
    BY <2>1 DEF CursorInv, IterInReply
  <2>9. CASE Head(left) = Odd
    <3>1. lastRc' = "protocol" /\ failed' = TRUE /\ given' = given
      BY <1>3, <2>9 DEF Give
    <3>2. GivenBefore' BY <1>t, <2>1, <2>3, <2>4, <2>7, <3>1 DEF GivenBefore
    <3> QED
      BY <2>1, <2>3, <2>6, <2>8, <3>1, <3>2
      DEF CursorInv, NoneMissing, IdSaysMore, EndIsEnd, IterInReply, NotStarted, NoCursorLeak
  <2>10. CASE Head(left) # Odd
    <3>1. lastRc' = "doc" /\ failed' = failed /\ given' = Append(given, left[1])
      BY <1>3, <2>1, <2>2, <2>10 DEF Give
    <3>2. left[1] = sent - Len(left) + 1 BY <2>1, <2>2, <2>4, <2>5, <2>10
    <3>3. left[1] \in Int BY <1>t, <2>4, <3>2
    <3>4. /\ given' \in Seq(Int) /\ Len(given') = Len(given) + 1
          /\ \A i \in 1..Len(given) : given'[i] = given[i]
          /\ given'[Len(given) + 1] = left[1]
      BY <2>7, <3>1, <3>3
    <3>5. GivenBefore'
      <4>0. Len(given') = m + 1 /\ n <= sent BY <2>5, <2>m, <2>n, <3>4
      <4>1. ASSUME NEW i \in 1..(m + 1) PROVE given'[i] \in 1..(sent - (n - 1))
        <5>1. CASE i = m + 1
          <6>1. given'[i] = sent - n + 1 BY <2>m, <2>n, <3>2, <3>4, <5>1
          <6> QED BY <1>t, <4>0, <6>1
        <5>2. CASE i \in 1..m
          <6>1. given'[i] = given[i] /\ given[i] \in Int /\ given[i] >= 1 /\ given[i] <= sent - n
            BY <2>7, <2>m, <2>n, <3>4, <5>2
          <6> QED BY <1>t, <6>1
        <5> QED BY <5>1, <5>2
      <4>2. ASSUME NEW i \in 1..(m + 1), NEW j \in 1..(m + 1), i < j
            PROVE  given'[i] < given'[j]
        <5>1. i \in 1..m BY <4>2
        <5>2. given'[i] = given[i] /\ given[i] \in Int /\ given[i] <= sent - n
          BY <2>7, <2>m, <2>n, <3>4, <5>1
        <5>3. CASE j = m + 1
          <6>1. given'[j] = sent - n + 1 BY <2>m, <2>n, <3>2, <3>4, <5>3
          <6> QED BY <1>t, <5>2, <6>1
        <5>4. CASE j \in 1..m BY <2>7, <2>m, <3>4, <4>2, <5>1, <5>4
        <5> QED BY <5>3, <5>4
      <4> QED BY <2>1, <2>3, <2>n, <3>4, <4>0, <4>1, <4>2 DEF GivenBefore
    <3>6. NoneMissing'
      <4> SUFFICES ASSUME ~failed PROVE /\ Len(given') = sent - Len(Tail(left))
                                        /\ \A i \in 1..Len(given') : given'[i] = i
        BY <2>1, <2>3, <3>1 DEF NoneMissing
      <4>1. Len(given) = sent - Len(left) /\ \A i \in 1..Len(given) : given[i] = i
        BY DEF CursorInv, NoneMissing
      <4>2. m = sent - n /\ \A i \in 1..m : given[i] = i BY <2>m, <2>n, <4>1
      <4>3. m + 1 = sent - (n - 1) BY <1>t, <4>2
      <4>4. given'[m + 1] = m + 1 BY <2>m, <2>n, <3>2, <3>4, <4>2
      <4>5. \A i \in 1..(m + 1) : i = m + 1 \/ i \in 1..m OBVIOUS
      <4> QED BY <2>m, <2>n, <3>4, <4>2, <4>3, <4>4, <4>5
    <3>7. IterInReply' BY <2>1, <2>3, <2>8 DEF IterInReply
    <3> QED
      BY <2>1, <2>6, <3>1, <3>5, <3>6, <3>7
      DEF CursorInv, IdSaysMore, EndIsEnd, NotStarted, NoCursorLeak
  <2> QED BY <2>9, <2>10
<1>4. CASE Exhaust
  <2>1. /\ curPc = "next" /\ docIter.left = <<>> /\ cursorId = 0
        /\ docIter' = NoIter /\ curPc' = "ready" /\ lastRc' = "end"
        /\ UNCHANGED <<sent, open, cursorId, batch, given, failed>>
    BY <1>4 DEF Exhaust, Over, Exhausted, serverVars
  <2>2. docIter'.left = <<>> /\ docIter'.reply = 0 BY <2>1 DEF NoIter
  <2>3. BatchIsTail' BY <1>t, <2>1 DEF BatchIsTail, NoIter
  <2>4. GivenBefore' BY <2>1, <2>2 DEF GivenBefore, CursorInv
  <2>5. NoneMissing' BY <2>1, <2>2 DEF NoneMissing, CursorInv
  <2>6. EndIsEnd'
    <3>1. sent = Size BY <2>1 DEF CursorInv, IdSaysMore
    <3>2. ~failed => Len(given) = sent BY <1>t, <2>1 DEF CursorInv, NoneMissing
    <3> QED BY <2>1, <3>1, <3>2 DEF EndIsEnd
  <2> QED
    BY <2>1, <2>2, <2>3, <2>4, <2>5, <2>6
    DEF CursorInv, IdSaysMore, IterInReply, NotStarted, NoCursorLeak
<1>5. CASE GetMore
  <2>1. PICK o \in RoundTrips(FALSE) :
       /\ Served(o)
       /\ IF o.rc = "ok"
          THEN Load(o) /\ UNCHANGED <<curPc, lastRc, failed>>
          ELSE /\ curPc' = "ready" /\ lastRc' = o.rc /\ failed' = TRUE
               /\ docIter' = Exhausted /\ UNCHANGED cursorId
               /\ batch' = IF o.rc = "protocol" THEN Fresh ELSE 0
    BY <1>5 DEF GetMore
  <2>2. /\ curPc = "next" /\ docIter.left = <<>> /\ cursorId # 0 /\ given' = given
    BY <1>5 DEF GetMore
  <2>3. /\ o.rc \in {"ok", "wire", "protocol"} /\ o.sent \in Nat /\ o.sent >= sent
        /\ o.open \in BOOLEAN
        /\ o.rc = "ok" =>
              /\ o.batch \in Seq(Int \union {Odd}) /\ o.sent = sent + Len(o.batch)
              /\ \A k \in 1..Len(o.batch) : o.batch[k] \in {Odd, sent + k}
              /\ o.open \/ o.sent = Size
    BY <1>t, OutcomeShape
  <2>4. /\ given \in Seq(Int)
        /\ \A i \in 1..Len(given) : given[i] \in 1..sent
        /\ \A i, j \in 1..Len(given) : i < j => given[i] < given[j]
    BY <1>t, <2>2 DEF CursorInv, GivenBefore
  <2>5. CASE o.rc = "ok"
    <3>1. /\ sent' = sent + Len(o.batch) /\ open' = o.open /\ UNCHANGED <<curPc, lastRc, failed>>
          /\ batch' = Fresh /\ docIter' = [reply |-> Fresh, left |-> o.batch]
          /\ (cursorId' = 0 => ~o.open)
      BY <2>1, <2>3, <2>5 DEF Served, Load
    <3>2. Len(o.batch) \in Nat /\ o.batch \in Seq(Int \union {Odd})
          /\ docIter'.left = o.batch /\ docIter'.reply = Fresh
      BY <2>3, <2>5, <3>1
    <3>3. sent' - Len(o.batch) = sent BY <1>t, <3>1, <3>2
    <3>4. BatchIsTail' BY <1>f, <1>t, <2>3, <2>5, <3>1, <3>2, <3>3 DEF BatchIsTail
    <3>5. GivenBefore' BY <2>2, <2>4, <3>2, <3>3 DEF GivenBefore
    <3>6. NoneMissing'
      <4>1. ~failed => Len(given) = sent /\ \A i \in 1..Len(given) : given[i] = i
        BY <1>t, <2>2 DEF CursorInv, NoneMissing
      <4> QED BY <2>2, <3>1, <3>2, <3>3, <4>1 DEF NoneMissing
    <3>7. IterInReply' BY <1>f, <3>1, <3>2 DEF IterInReply
    <3> QED
      BY <2>2, <2>3, <2>5, <3>1, <3>4, <3>5, <3>6, <3>7
      DEF CursorInv, IdSaysMore, EndIsEnd, NotStarted, NoCursorLeak
  <2>6. CASE o.rc # "ok"
    <3>1. /\ sent' \in Nat /\ sent' >= sent /\ open' \in BOOLEAN /\ failed' = TRUE
          /\ curPc' = "ready" /\ docIter' = NoIter /\ cursorId' = cursorId
          /\ batch' \in {0, 1, 2} /\ lastRc' \in {"wire", "protocol"}
      BY <1>f, <2>1, <2>3, <2>6 DEF Served, Exhausted
    <3>2. docIter'.left = <<>> /\ docIter'.reply = 0 BY <3>1 DEF NoIter
    <3>3. BatchIsTail' BY <3>1 DEF BatchIsTail, NoIter
    <3>4. GivenBefore' BY <1>t, <2>2, <2>4, <3>1, <3>2 DEF GivenBefore
    <3> QED
      BY <2>2, <3>1, <3>2, <3>3, <3>4
      DEF CursorInv, NoneMissing, IdSaysMore, EndIsEnd, IterInReply, NotStarted, NoCursorLeak
  <2> QED BY <2>5, <2>6
<1>6. CASE Destroy
  <2>1. /\ curPc = "ready" /\ curPc' = "gone" /\ batch' = 0 /\ lastRc' \in {"kept", "killed"}
        /\ open' \in {FALSE, open} /\ (cursorId = 0 => open' = open)
        /\ failed' = (failed \/ (cursorId # 0 /\ open'))
        /\ UNCHANGED <<sent, cursorId, docIter, given>>
    BY <1>6 DEF Destroy, Kill
  <2>2. open' \in BOOLEAN /\ failed' \in BOOLEAN /\ (~failed' => ~failed) BY <1>t, <2>1
  <2>3. ~failed' => ~open' BY <1>t, <2>1 DEF CursorInv, IdSaysMore
  <2>4. BatchIsTail' BY <2>1 DEF CursorInv, BatchIsTail
  <2>5. GivenBefore' BY <2>1 DEF CursorInv, GivenBefore
  <2>6. NoneMissing' BY <2>1, <2>2 DEF CursorInv, NoneMissing
  <2> QED
    BY <2>1, <2>2, <2>3, <2>4, <2>5, <2>6
    DEF CursorInv, IdSaysMore, EndIsEnd, IterInReply, NotStarted, NoCursorLeak
<1>7. CASE ServerTimeout
  <2>1. open' = FALSE /\ UNCHANGED <<sent, curPc, cursorId, batch, docIter, lastRc, given, failed>>
    BY <1>7 DEF ServerTimeout, cursorVars, callerVars
  <2> QED
    BY <2>1
    DEF CursorInv, BatchIsTail, GivenBefore, NoneMissing, IdSaysMore, EndIsEnd,
        IterInReply, NotStarted, NoCursorLeak
<1>8. CASE UNCHANGED findVars
  BY <1>8
  DEF findVars, serverVars, cursorVars, callerVars, CursorInv, BatchIsTail, GivenBefore,
      NoneMissing, IdSaysMore, EndIsEnd, IterInReply, NotStarted, NoCursorLeak
<1> QED BY <1>1, <1>2, <1>3, <1>4, <1>5, <1>6, <1>7, <1>8 DEF CursorNext

(* mongo_cursor.c: whatever batches and failures the server brings, the    *)
(* documents come in order and without a gap until a call fails, what was  *)
(* lent lies in a live reply, and the server's cursor ends with ours.      *)
THEOREM CursorIsSound == CursorSpec => []CursorSound
<1>1. CursorInv => CursorSound
  <2> SUFFICES ASSUME CursorInv PROVE CursorSound
    OBVIOUS
  <2>1. GivenInOrder
    <3>1. DOMAIN given = 1..Len(given) BY DEF CursorInv, GivenBefore
    <3> QED BY <3>1 DEF CursorInv, GivenBefore, NoneMissing, EndIsEnd, GivenInOrder
  <2>2. BorrowedLive BY DEF CursorInv, IterInReply, Holding, BorrowedLive
  <2> QED BY <2>1, <2>2 DEF CursorInv, CursorSound
<1> QED BY <1>1, CursorStarts, CursorStep, PTL DEF CursorSpec
=============================================================================
