------------------------ MODULE MongoTransportProofs ------------------------
(***************************************************************************)
(* What mongo_transport.c keeps for every pool of pcbs, every window and   *)
(* every length of read, when each connection is closed before the next    *)
(* connect (as mongo_client.c does by building a new transport).           *)
(*                                                                         *)
(* The owner reads t->state and t->pcb outside the lwIP lock, so none of   *)
(* the properties is inductive alone.  IInv ties the four things together  *)
(* that the code leaves apart: who holds the lock, which callback still    *)
(* has a semaphore to give, what lwIP thinks of t->pcb, and where the      *)
(* owner is.                                                               *)
(***************************************************************************)
EXTENDS MongoTransport, TLAPS

(* The owner copies under the lock; a callback with a semaphore yet to     *)
(* give holds it.                                                          *)
LockInv ==
  /\ pc = "copy" <=> lock = "owner"
  /\ giving # {} <=> lock = "stack"

(* From the first test of connect to the new pcb, nothing can call back    *)
(* and both semaphores are empty.  A callback that runs on without a pcb   *)
(* is cb_err, and the state says so: connect refuses.                      *)
QuietInv ==
  /\ pc \in {"resolve", "dnswait", "open", "freed"} => pcb = NULL
  /\ pc \in {"resolve", "dnswait", "open"} => ~connectSem /\ ~recvSem /\ giving = {}
  /\ pc = "freed" => giving = {}
  /\ pcb = NULL /\ giving # {} => state = "error"

(* While the handshake goes on only connect's own code runs and nothing    *)
(* has woken it; once it has ended some way, connect has been woken.       *)
HandshakeInv ==
  /\ pcb # NULL /\ life[pcb] = "syn" =>
       /\ ~connectSem /\ "connect" \notin giving
       /\ pc \in {"opened", "cwait", "close"}
       /\ state = "connecting"
  /\ pc \in {"opened", "cwait"} /\ ~connectSem /\ "connect" \notin giving =>
       pcb # NULL /\ life[pcb] = "syn"

(* A reader that was not woken since it emptied the chain sees an empty    *)
(* chain.                                                                  *)
EmptyInv ==
  pc \in {"rcheck", "rwait"} /\ ~recvSem /\ "recv" \notin giving => rx = <<>>

CreditInv == pcb # NULL /\ pc # "copy" => credited = Len(out)

ControlInv == /\ LockInv /\ PcbExact /\ QuietInv /\ HandshakeInv
              /\ EmptyInv /\ NoLostWakeup /\ CreditInv

IInv == TypeOK /\ ControlInv

(* Each pbuf carries consecutive bytes.                                    *)
PbufInv == \A i \in 1..Len(rx) : \A j \in 1..Len(rx[i]) : rx[i][j] = rx[i][1] + j - 1

(* A new connection starts with an empty chain: connect takes the struct   *)
(* IDLE or CLOSED and without a pcb, and then there is nothing in it.      *)
FreshInv ==
  /\ pc \in {"resolve", "dnswait", "open"} => state \in {"idle", "closed"}
  /\ state \in {"idle", "closed"} /\ pcb = NULL => rx = <<>>

StreamInv == PbufInv /\ FreshInv /\ StreamIntact

----------------------------------------------------------------------------
(* Types.                                                                  *)
LEMMA ChunkType ==
  ASSUME TypeOK, rx # <<>>, got < want
  PROVE  /\ rx \in Seq(Seq(Nat) \ {<<>>}) /\ Len(rx) \in Nat \ {0}
         /\ Head(rx) = rx[1] /\ Head(rx) \in Seq(Nat)
         /\ Tail(rx) \in Seq(Seq(Nat) \ {<<>>})
         /\ Len(Head(rx)) \in Nat \ {0} /\ offset < Len(Head(rx))
         /\ Chunk \in Nat \ {0} /\ Chunk <= want - got
         /\ offset + Chunk <= Len(Head(rx))
         /\ SubSeq(Head(rx), offset + 1, offset + Chunk) \in Seq(Nat)
<1>1. rx \in Seq(Seq(Nat) \ {<<>>}) /\ Len(rx) \in Nat \ {0}
  BY DEF TypeOK, ChainTypes
<1>2. Head(rx) = rx[1] /\ Head(rx) \in Seq(Nat) \ {<<>>}
  BY <1>1
<1>3. Tail(rx) \in Seq(Seq(Nat) \ {<<>>})
  BY <1>1
<1>4. Len(Head(rx)) \in Nat \ {0} /\ offset < Len(Head(rx)) /\ offset \in Nat
  BY <1>2 DEF TypeOK, ChainTypes
<1>5. Chunk \in Nat \ {0} /\ Chunk <= want - got /\ offset + Chunk <= Len(Head(rx))
  BY <1>4 DEF Chunk, TypeOK, OwnerTypes
<1>6. \A i \in (offset + 1)..(offset + Chunk) : i \in 1..Len(Head(rx))
  BY <1>4, <1>5
<1>7. SubSeq(Head(rx), offset + 1, offset + Chunk) \in Seq(Nat)
  BY <1>2, <1>4, <1>5, <1>6
<1> QED BY <1>1, <1>2, <1>3, <1>4, <1>5, <1>7

LEMMA CopyType ==
  ASSUME TypeOK, Copy
  PROVE  TypeOK'
<1>0. rx # <<>> /\ got < want BY DEF Copy
<1>1. StructTypes' BY DEF Copy, TypeOK, StructTypes, sems
<1>2. ChainTypes'
  <2>1. /\ rx \in Seq(Seq(Nat) \ {<<>>}) /\ Tail(rx) \in Seq(Seq(Nat) \ {<<>>})
        /\ Len(Head(rx)) \in Nat /\ Chunk \in Nat /\ offset \in Nat
    BY <1>0, ChunkType DEF TypeOK, ChainTypes
  <2>2. IF offset + Chunk >= Len(Head(rx)) THEN rx' = Tail(rx) /\ offset' = 0
        ELSE rx' = rx /\ offset' = offset + Chunk
    BY DEF Copy, CopyHead
  <2>3. CASE offset + Chunk >= Len(Head(rx))
    <3>1. rx' = Tail(rx) /\ offset' = 0 BY <2>2, <2>3
    <3>2. rx' \in Seq(Seq(Nat) \ {<<>>}) /\ offset' \in Nat BY <2>1, <3>1
    <3> QED BY <3>1, <3>2 DEF ChainTypes
  <2>4. CASE ~(offset + Chunk >= Len(Head(rx)))
    <3>1. rx' = rx /\ offset' = offset + Chunk BY <2>2, <2>4
    <3>2. offset' \in Nat /\ offset' < Len(Head(rx')) BY <2>1, <2>4, <3>1
    <3>3. rx' # <<>> /\ rx' \in Seq(Seq(Nat) \ {<<>>}) BY <1>0, <2>1, <3>1
    <3> QED BY <3>2, <3>3 DEF ChainTypes
  <2> QED BY <2>3, <2>4
<1>3. OwnerTypes'
  <2>1. Chunk \in Nat BY <1>0, ChunkType
  <2>2. got' = got + Chunk /\ want' = want /\ pc' = pc /\ ok' = ok
    BY DEF Copy, CopyHead
  <2> QED BY <2>1, <2>2 DEF TypeOK, OwnerTypes
<1>4. DnsTypes' BY DEF Copy, TypeOK, DnsTypes, dns
<1>5. LwipTypes' BY DEF Copy, TypeOK, LwipTypes, lwip
<1>6. WireTypes' BY <1>0, ChunkType DEF Copy, CopyHead, TypeOK, WireTypes
<1> QED BY <1>1, <1>2, <1>3, <1>4, <1>5, <1>6 DEF TypeOK

LEMMA DataChain ==
  ASSUME TypeOK, NEW p \in Pcb, NEW n \in 1..Window, Data(p, n)
  PROVE  ChainTypes'
<1> DEFINE new == [i \in 1..n |-> arrived + i]
<1>1. arrived \in Nat /\ n \in Nat \ {0}
  BY BoundAssumption DEF TypeOK, WireTypes
<1>2. new \in Seq(Nat) /\ Len(new) = n /\ new # <<>>
  BY <1>1
<1>3. rx \in Seq(Seq(Nat) \ {<<>>}) BY DEF TypeOK, ChainTypes
<1>4. rx' = Append(rx, new) /\ offset' = IF rx = <<>> THEN 0 ELSE offset
  BY DEF Data
<1> HIDE DEF new
<1>5. rx' \in Seq(Seq(Nat) \ {<<>>}) /\ rx' # <<>> BY <1>2, <1>3, <1>4
<1>6. rx # <<>> => Head(rx') = Head(rx) BY <1>2, <1>3, <1>4
<1> QED BY <1>4, <1>5, <1>6 DEF TypeOK, ChainTypes

LEMMA ConnectType ==
  ASSUME TypeOK, Connect
  PROVE  TypeOK'
BY DEF Connect, TypeOK, StructTypes, ChainTypes, OwnerTypes, DnsTypes,
  LwipTypes, WireTypes, Pcs, ConnectPcs, SendPcs, RecvPcs, States, chain, call,
  dns, lwip, wire

LEMMA ResolveType ==
  ASSUME TypeOK, Resolve
  PROVE  TypeOK'
<1>1. StructTypes' BY DEF Resolve, TypeOK, StructTypes, States, sems
<1>2. ChainTypes' BY DEF Resolve, TypeOK, ChainTypes, chain
<1>3. OwnerTypes'
      BY DEF Resolve, TypeOK, OwnerTypes, Pcs, ConnectPcs, SendPcs, RecvPcs,
        call
<1>4. DnsTypes' BY DEF Resolve, TypeOK, DnsTypes
<1>5. LwipTypes' BY DEF Resolve, TypeOK, LwipTypes, lwip
<1>6. WireTypes' BY DEF Resolve, TypeOK, WireTypes, wire
<1> QED BY <1>1, <1>2, <1>3, <1>4, <1>5, <1>6 DEF TypeOK

LEMMA DnsWakeType ==
  ASSUME TypeOK, DnsWake
  PROVE  TypeOK'
<1>1. StructTypes' BY DEF DnsWake, TypeOK, StructTypes, States, sems
<1>2. ChainTypes' BY DEF DnsWake, TypeOK, ChainTypes, chain
<1>3. OwnerTypes'
      BY DEF DnsWake, TypeOK, OwnerTypes, Pcs, ConnectPcs, SendPcs, RecvPcs,
        call
<1>4. DnsTypes' BY DEF DnsWake, TypeOK, DnsTypes
<1>5. LwipTypes' BY DEF DnsWake, TypeOK, LwipTypes, lwip
<1>6. WireTypes' BY DEF DnsWake, TypeOK, WireTypes, wire
<1> QED BY <1>1, <1>2, <1>3, <1>4, <1>5, <1>6 DEF TypeOK

LEMMA DnsTimeoutType ==
  ASSUME TypeOK, DnsTimeout
  PROVE  TypeOK'
<1>1. StructTypes' BY DEF DnsTimeout, TypeOK, StructTypes, sems
<1>2. ChainTypes' BY DEF DnsTimeout, TypeOK, ChainTypes, chain
<1>3. OwnerTypes' BY DEF DnsTimeout, TypeOK, OwnerTypes, Pcs, ConnectPcs, RecvPcs, call
<1>4. DnsTypes' BY DEF DnsTimeout, TypeOK, DnsTypes, dns
<1>5. LwipTypes' BY DEF DnsTimeout, TypeOK, LwipTypes, lwip
<1>6. WireTypes' BY DEF DnsTimeout, TypeOK, WireTypes, wire
<1> QED BY <1>1, <1>2, <1>3, <1>4, <1>5, <1>6 DEF TypeOK

LEMMA OpenType ==
  ASSUME TypeOK, Open
  PROVE  TypeOK'
<1>1. StructTypes' BY PcbAssumption DEF Open, TypeOK, StructTypes, States, sems
<1>2. ChainTypes' BY DEF Open, TypeOK, ChainTypes, chain
<1>3. OwnerTypes'
      BY DEF Open, TypeOK, OwnerTypes, Pcs, ConnectPcs, SendPcs, RecvPcs,
        call
<1>4. DnsTypes' BY DEF Open, TypeOK, DnsTypes, dns
<1>5. LwipTypes' BY DEF Open, TypeOK, LwipTypes
<1>6. WireTypes' BY DEF Open, TypeOK, WireTypes
<1> QED BY <1>1, <1>2, <1>3, <1>4, <1>5, <1>6 DEF TypeOK

LEMMA OpenedType ==
  ASSUME TypeOK, Opened
  PROVE  TypeOK'
BY DEF Opened, TypeOK, StructTypes, ChainTypes, OwnerTypes, DnsTypes,
  LwipTypes, WireTypes, Pcs, ConnectPcs, SendPcs, RecvPcs, States, sems, chain,
  call, dns, lwip, wire

LEMMA ConnectWakeType ==
  ASSUME TypeOK, ConnectWake
  PROVE  TypeOK'
<1>1. StructTypes' BY DEF ConnectWake, TypeOK, StructTypes, sems
<1>2. ChainTypes' BY DEF ConnectWake, TypeOK, ChainTypes, chain
<1>3. OwnerTypes' BY DEF ConnectWake, TypeOK, OwnerTypes, Pcs, ConnectPcs, RecvPcs, call
<1>4. DnsTypes' BY DEF ConnectWake, TypeOK, DnsTypes, dns
<1>5. LwipTypes' BY DEF ConnectWake, TypeOK, LwipTypes, lwip
<1>6. WireTypes' BY DEF ConnectWake, TypeOK, WireTypes, wire
<1> QED BY <1>1, <1>2, <1>3, <1>4, <1>5, <1>6 DEF TypeOK

LEMMA ConnectTimeoutType ==
  ASSUME TypeOK, ConnectTimeout
  PROVE  TypeOK'
BY DEF ConnectTimeout, TypeOK, StructTypes, ChainTypes, OwnerTypes, DnsTypes,
  LwipTypes, WireTypes, Pcs, ConnectPcs, SendPcs, RecvPcs, States, sems, chain,
  call, dns, lwip, wire

LEMMA ConnectCheckType ==
  ASSUME TypeOK, ConnectCheck
  PROVE  TypeOK'
BY DEF ConnectCheck, ConnectEnds, TypeOK, StructTypes, ChainTypes, OwnerTypes, DnsTypes,
  LwipTypes, WireTypes, Pcs, ConnectPcs, SendPcs, RecvPcs, States, sems, chain,
  call, dns, lwip, wire

LEMMA CloseType ==
  ASSUME TypeOK, Close
  PROVE  TypeOK'
BY PcbAssumption DEF Close, Detached, TypeOK, StructTypes, ChainTypes,
  OwnerTypes, DnsTypes, LwipTypes, WireTypes, Pcs, ConnectPcs, SendPcs,
  RecvPcs, States, sems, call, dns, wire

LEMMA ReleaseType ==
  ASSUME TypeOK, Release
  PROVE  TypeOK'
BY PcbAssumption DEF Release, Detached, TypeOK, StructTypes, ChainTypes,
  OwnerTypes, DnsTypes, LwipTypes, WireTypes, Pcs, ConnectPcs, SendPcs,
  RecvPcs, States, sems, call, dns, wire

LEMMA NewType ==
  ASSUME TypeOK, New
  PROVE  TypeOK'
<1>1. StructTypes' BY PcbAssumption DEF New, TypeOK, StructTypes, States
<1>2. ChainTypes' BY DEF New, TypeOK, ChainTypes
<1>3. OwnerTypes'
      BY DEF New, TypeOK, OwnerTypes, Pcs, ConnectPcs, SendPcs, RecvPcs, call
<1>4. DnsTypes' BY DEF New, TypeOK, DnsTypes, dns
<1>5. LwipTypes' BY DEF New, TypeOK, LwipTypes, lwip
<1>6. WireTypes' BY DEF New, TypeOK, WireTypes, wire
<1> QED BY <1>1, <1>2, <1>3, <1>4, <1>5, <1>6 DEF TypeOK

LEMMA SendType ==
  ASSUME NEW n \in 1..MaxWant, TypeOK, Send(n)
  PROVE  TypeOK'
<1>1. StructTypes' BY DEF Send, TypeOK, StructTypes, sems
<1>2. ChainTypes' BY DEF Send, TypeOK, ChainTypes, chain
<1>3. OwnerTypes'
  <2>1. n \in 1..MaxWant /\ 0 \in Nat OBVIOUS
  <2> QED BY <2>1 DEF Send, OwnerTypes, Pcs, SendPcs
<1>4. DnsTypes' BY DEF Send, TypeOK, DnsTypes, dns
<1>5. LwipTypes' BY DEF Send, TypeOK, LwipTypes, lwip
<1>6. WireTypes' BY DEF Send, TypeOK, WireTypes, wire
<1> QED BY <1>1, <1>2, <1>3, <1>4, <1>5, <1>6 DEF TypeOK

LEMMA SendPassType ==
  ASSUME TypeOK, SendPass
  PROVE  TypeOK'
<1>1. StructTypes' BY DEF SendPass, TypeOK, StructTypes, sems
<1>2. ChainTypes' BY DEF SendPass, TypeOK, ChainTypes, chain
<1>3. OwnerTypes'
  <2>1. pc' \in Pcs /\ want' = want BY DEF SendPass, Pcs, SendPcs
  <2>2. got' \in Nat BY DEF SendPass, TypeOK, OwnerTypes
  <2>3. ok' \in BOOLEAN BY DEF SendPass, TypeOK, OwnerTypes
  <2> QED BY <2>1, <2>2, <2>3 DEF TypeOK, OwnerTypes
<1>4. DnsTypes' BY DEF SendPass, TypeOK, DnsTypes, dns
<1>5. LwipTypes' BY DEF SendPass, TypeOK, LwipTypes, lwip
<1>6. WireTypes' BY DEF SendPass, TypeOK, WireTypes, wire
<1> QED BY <1>1, <1>2, <1>3, <1>4, <1>5, <1>6 DEF TypeOK

LEMMA SendCheckType ==
  ASSUME TypeOK, SendCheck
  PROVE  TypeOK'
<1>1. StructTypes' BY DEF SendCheck, TypeOK, StructTypes, sems
<1>2. ChainTypes' BY DEF SendCheck, TypeOK, ChainTypes, chain
<1>3. OwnerTypes'
  <2>1. pc' \in Pcs BY DEF SendCheck, GiveUp, Pcs, SendPcs
  <2>2. got' \in Nat BY DEF SendCheck, TypeOK, OwnerTypes
  <2>3. want' \in 1..MaxWant
    BY BoundAssumption DEF SendCheck, Queued, GiveUp, TypeOK, OwnerTypes
  <2>4. ok' \in BOOLEAN BY DEF SendCheck, GiveUp, TypeOK, OwnerTypes
  <2> QED BY <2>1, <2>2, <2>3, <2>4 DEF OwnerTypes
<1>4. DnsTypes' BY DEF SendCheck, TypeOK, DnsTypes, dns
<1>5. LwipTypes' BY DEF SendCheck, TypeOK, LwipTypes, lwip
<1>6. WireTypes' BY DEF SendCheck, TypeOK, WireTypes, wire
<1> QED BY <1>1, <1>2, <1>3, <1>4, <1>5, <1>6 DEF TypeOK

LEMMA RecvType ==
  ASSUME NEW n \in 1..MaxWant, TypeOK, Recv(n)
  PROVE  TypeOK'
<1>1. StructTypes' BY DEF Recv, TypeOK, StructTypes, sems
<1>2. ChainTypes' BY DEF Recv, TypeOK, ChainTypes, chain
<1>3. OwnerTypes'
  <2>1. pc' \in Pcs BY DEF Recv, Pcs, RecvPcs
  <2>2. want' \in 1..MaxWant /\ got' \in Nat BY DEF Recv
  <2>3. ok' \in BOOLEAN BY DEF Recv
  <2> QED BY <2>1, <2>2, <2>3 DEF OwnerTypes
<1>4. DnsTypes' BY DEF Recv, TypeOK, DnsTypes, dns
<1>5. LwipTypes' BY DEF Recv, TypeOK, LwipTypes, lwip
<1>6. WireTypes' BY DEF Recv, TypeOK, WireTypes, wire
<1> QED BY <1>1, <1>2, <1>3, <1>4, <1>5, <1>6 DEF TypeOK

LEMMA DrainType ==
  ASSUME TypeOK, Drain
  PROVE  TypeOK'
BY DEF Drain, TypeOK, StructTypes, ChainTypes, OwnerTypes, DnsTypes,
  LwipTypes, WireTypes, Pcs, ConnectPcs, SendPcs, RecvPcs, States, sems, chain,
  call, dns, wire

LEMMA DrainDoneType ==
  ASSUME TypeOK, DrainDone
  PROVE  TypeOK'
BY DEF DrainDone, Credit, TypeOK, StructTypes, ChainTypes, OwnerTypes,
  DnsTypes, LwipTypes, WireTypes, Pcs, ConnectPcs, SendPcs, RecvPcs, States,
  sems, chain, call, dns

LEMMA RecvCheckType ==
  ASSUME TypeOK, RecvCheck
  PROVE  TypeOK'
BY DEF RecvCheck, RecvCheckState, TypeOK, StructTypes, ChainTypes,
  OwnerTypes, DnsTypes, LwipTypes, WireTypes, Pcs, ConnectPcs, SendPcs,
  RecvPcs, States, sems, chain, call, dns, lwip, wire

LEMMA RecvWakeType ==
  ASSUME TypeOK, RecvWake
  PROVE  TypeOK'
<1>1. StructTypes' BY DEF RecvWake, TypeOK, StructTypes, sems
<1>2. ChainTypes' BY DEF RecvWake, TypeOK, ChainTypes, chain
<1>3. OwnerTypes' BY DEF RecvWake, TypeOK, OwnerTypes, Pcs, ConnectPcs, RecvPcs, call
<1>4. DnsTypes' BY DEF RecvWake, TypeOK, DnsTypes, dns
<1>5. LwipTypes' BY DEF RecvWake, TypeOK, LwipTypes, lwip
<1>6. WireTypes' BY DEF RecvWake, TypeOK, WireTypes, wire
<1> QED BY <1>1, <1>2, <1>3, <1>4, <1>5, <1>6 DEF TypeOK

LEMMA RecvTimeoutType ==
  ASSUME TypeOK, RecvTimeout
  PROVE  TypeOK'
BY DEF RecvTimeout, TypeOK, StructTypes, ChainTypes, OwnerTypes, DnsTypes,
  LwipTypes, WireTypes, Pcs, ConnectPcs, SendPcs, RecvPcs, States, sems, chain,
  call, dns, lwip, wire

LEMMA CallbackEndsType ==
  ASSUME TypeOK, CallbackEnds
  PROVE  TypeOK'
BY DEF CallbackEnds, Give, TypeOK, StructTypes, ChainTypes, OwnerTypes,
  DnsTypes, LwipTypes, WireTypes, Pcs, ConnectPcs, SendPcs, RecvPcs, States,
  chain, call, dns, wire

LEMMA DnsAnswerType ==
  ASSUME TypeOK, DnsAnswer
  PROVE  TypeOK'
<1>1. StructTypes' BY DEF DnsAnswer, TypeOK, StructTypes, States, sems
<1>2. ChainTypes' BY DEF DnsAnswer, TypeOK, ChainTypes, chain
<1>3. OwnerTypes'
      BY DEF DnsAnswer, TypeOK, OwnerTypes, Pcs, ConnectPcs, SendPcs,
        RecvPcs, call
<1>4. DnsTypes' BY DEF DnsAnswer, TypeOK, DnsTypes
<1>5. LwipTypes' BY DEF DnsAnswer, TypeOK, LwipTypes, lwip
<1>6. WireTypes' BY DEF DnsAnswer, TypeOK, WireTypes, wire
<1> QED BY <1>1, <1>2, <1>3, <1>4, <1>5, <1>6 DEF TypeOK

LEMMA ConnectedType ==
  ASSUME NEW p \in Pcb, TypeOK, Connected(p)
  PROVE  TypeOK'
BY DEF Connected, Callback, TypeOK, StructTypes, ChainTypes, OwnerTypes,
  DnsTypes, LwipTypes, WireTypes, Pcs, ConnectPcs, SendPcs, RecvPcs, States,
  sems, chain, call, dns, wire

LEMMA RecvEndsType ==
  ASSUME NEW p \in Pcb, TypeOK, RecvEnds(p)
  PROVE  TypeOK'
BY DEF RecvEnds, Callback, TypeOK, StructTypes, ChainTypes, OwnerTypes,
  DnsTypes, LwipTypes, WireTypes, Pcs, ConnectPcs, SendPcs, RecvPcs, States,
  sems, chain, call, dns, wire

LEMMA ErrType ==
  ASSUME NEW p \in Pcb, TypeOK, Err(p)
  PROVE  TypeOK'
BY PcbAssumption DEF Err, Callback, ErrPcb, ErrWakes, TypeOK, StructTypes,
  ChainTypes, OwnerTypes, DnsTypes, LwipTypes, WireTypes, Pcs, ConnectPcs,
  SendPcs, RecvPcs, States, sems, chain, call, dns, wire

LEMMA DataType ==
  ASSUME NEW p \in Pcb, NEW n \in 1..Window, TypeOK, Data(p, n)
  PROVE  TypeOK'
<1>1. StructTypes' BY DEF Data, Callback, TypeOK, StructTypes, States, sems
<1>2. ChainTypes' BY DataChain
<1>3. OwnerTypes'
      BY DEF Data, Callback, TypeOK, OwnerTypes, Pcs, ConnectPcs, SendPcs,
        RecvPcs, call
<1>4. DnsTypes' BY DEF Data, Callback, TypeOK, DnsTypes, dns
<1>5. LwipTypes' BY DEF Data, Callback, TypeOK, LwipTypes
<1>6. WireTypes' BY BoundAssumption DEF Data, Callback, TypeOK, WireTypes
<1> QED BY <1>1, <1>2, <1>3, <1>4, <1>5, <1>6 DEF TypeOK

----------------------------------------------------------------------------
(* The lock, the pcb, the semaphores and the owner.                        *)

LEMMA ConnectControl ==
  ASSUME IInv, Reuse = FALSE, Connect
  PROVE  ControlInv'
<1>1. LockInv' BY DEF Connect, IInv, ControlInv, LockInv, lwip
<1>2. PcbExact' BY DEF Connect, IInv, ControlInv, PcbExact, lwip
<1>3. QuietInv' BY DEF Connect, IInv, ControlInv, QuietInv, lwip
<1>4. HandshakeInv' BY DEF Connect, IInv, ControlInv, HandshakeInv, lwip
<1>5. EmptyInv' BY DEF Connect, IInv, ControlInv, EmptyInv, chain, lwip
<1>6. NoLostWakeup' BY DEF Connect, IInv, ControlInv, NoLostWakeup, chain, lwip
<1>7. CreditInv' BY DEF Connect, IInv, ControlInv, CreditInv, wire
<1> QED BY <1>1, <1>2, <1>3, <1>4, <1>5, <1>6, <1>7 DEF ControlInv

LEMMA ResolveControl ==
  ASSUME IInv, Reuse = FALSE, Resolve
  PROVE  ControlInv'
<1>1. LockInv' BY DEF Resolve, IInv, ControlInv, LockInv, lwip
<1>2. PcbExact' BY DEF Resolve, IInv, ControlInv, PcbExact, lwip
<1>3. QuietInv' BY DEF Resolve, IInv, ControlInv, QuietInv, sems, lwip
<1>4. HandshakeInv' BY DEF Resolve, IInv, ControlInv, HandshakeInv, sems, lwip
<1>5. EmptyInv' BY DEF Resolve, IInv, ControlInv, EmptyInv, sems, chain, lwip
<1>6. NoLostWakeup'
      BY DEF Resolve, IInv, ControlInv, NoLostWakeup, sems, chain, lwip
<1>7. CreditInv' BY DEF Resolve, IInv, ControlInv, CreditInv, wire
<1> QED BY <1>1, <1>2, <1>3, <1>4, <1>5, <1>6, <1>7 DEF ControlInv

LEMMA DnsWakeControl ==
  ASSUME IInv, Reuse = FALSE, DnsWake
  PROVE  ControlInv'
<1>1. LockInv' BY DEF DnsWake, IInv, ControlInv, LockInv, lwip
<1>2. PcbExact' BY DEF DnsWake, IInv, ControlInv, PcbExact, lwip
<1>3. QuietInv' BY DEF DnsWake, IInv, ControlInv, QuietInv, sems, lwip
<1>4. HandshakeInv' BY DEF DnsWake, IInv, ControlInv, HandshakeInv, sems, lwip
<1>5. EmptyInv' BY DEF DnsWake, IInv, ControlInv, EmptyInv, sems, chain, lwip
<1>6. NoLostWakeup'
      BY DEF DnsWake, IInv, ControlInv, NoLostWakeup, sems, chain, lwip
<1>7. CreditInv' BY DEF DnsWake, IInv, ControlInv, CreditInv, wire
<1> QED BY <1>1, <1>2, <1>3, <1>4, <1>5, <1>6, <1>7 DEF ControlInv

LEMMA DnsTimeoutControl ==
  ASSUME IInv, Reuse = FALSE, DnsTimeout
  PROVE  ControlInv'
<1>1. LockInv' BY DEF DnsTimeout, IInv, ControlInv, LockInv, lwip
<1>2. PcbExact' BY DEF DnsTimeout, IInv, ControlInv, PcbExact, lwip
<1>3. QuietInv' BY DEF DnsTimeout, IInv, ControlInv, QuietInv, sems, lwip
<1>4. HandshakeInv'
      BY DEF DnsTimeout, IInv, ControlInv, HandshakeInv, sems, lwip
<1>5. EmptyInv'
      BY DEF DnsTimeout, IInv, ControlInv, EmptyInv, sems, chain, lwip
<1>6. NoLostWakeup'
      BY DEF DnsTimeout, IInv, ControlInv, NoLostWakeup, sems, chain, lwip
<1>7. CreditInv' BY DEF DnsTimeout, IInv, ControlInv, CreditInv, wire
<1> QED BY <1>1, <1>2, <1>3, <1>4, <1>5, <1>6, <1>7 DEF ControlInv

LEMMA OpenControl ==
  ASSUME IInv, Reuse = FALSE, Open
  PROVE  ControlInv'
<1>1. LockInv' BY DEF Open, IInv, ControlInv, LockInv
<1>2. PcbExact'
      BY PcbAssumption DEF Open, IInv, ControlInv, PcbExact, QuietInv,
        TypeOK, StructTypes, LwipTypes
<1>3. QuietInv' BY DEF Open, IInv, ControlInv, QuietInv, sems
<1>4. HandshakeInv'
      BY PcbAssumption DEF Open, IInv, ControlInv, HandshakeInv, QuietInv,
        TypeOK, StructTypes, LwipTypes, sems
<1>5. EmptyInv' BY DEF Open, IInv, ControlInv, EmptyInv, sems, chain
<1>6. NoLostWakeup' BY DEF Open, IInv, ControlInv, NoLostWakeup, sems, chain
<1>7. CreditInv' BY DEF Open, IInv, ControlInv, CreditInv
<1> QED BY <1>1, <1>2, <1>3, <1>4, <1>5, <1>6, <1>7 DEF ControlInv

LEMMA OpenedControl ==
  ASSUME IInv, Reuse = FALSE, Opened
  PROVE  ControlInv'
<1>1. LockInv' BY DEF Opened, IInv, ControlInv, LockInv, lwip
<1>2. PcbExact' BY DEF Opened, IInv, ControlInv, PcbExact, lwip
<1>3. QuietInv' BY DEF Opened, IInv, ControlInv, QuietInv, sems, lwip
<1>4. HandshakeInv' BY DEF Opened, IInv, ControlInv, HandshakeInv, sems, lwip
<1>5. EmptyInv' BY DEF Opened, IInv, ControlInv, EmptyInv, sems, chain, lwip
<1>6. NoLostWakeup'
      BY DEF Opened, IInv, ControlInv, NoLostWakeup, sems, chain, lwip
<1>7. CreditInv' BY DEF Opened, IInv, ControlInv, CreditInv, wire
<1> QED BY <1>1, <1>2, <1>3, <1>4, <1>5, <1>6, <1>7 DEF ControlInv

LEMMA ConnectWakeControl ==
  ASSUME IInv, Reuse = FALSE, ConnectWake
  PROVE  ControlInv'
<1>1. LockInv' BY DEF ConnectWake, IInv, ControlInv, LockInv, lwip
<1>2. PcbExact' BY DEF ConnectWake, IInv, ControlInv, PcbExact, lwip
<1>3. QuietInv' BY DEF ConnectWake, IInv, ControlInv, QuietInv, lwip
<1>4. HandshakeInv' BY DEF ConnectWake, IInv, ControlInv, HandshakeInv, lwip
<1>5. EmptyInv' BY DEF ConnectWake, IInv, ControlInv, EmptyInv, chain, lwip
<1>6. NoLostWakeup'
      BY DEF ConnectWake, IInv, ControlInv, NoLostWakeup, chain, lwip
<1>7. CreditInv' BY DEF ConnectWake, IInv, ControlInv, CreditInv, wire
<1> QED BY <1>1, <1>2, <1>3, <1>4, <1>5, <1>6, <1>7 DEF ControlInv

LEMMA ConnectTimeoutControl ==
  ASSUME IInv, Reuse = FALSE, ConnectTimeout
  PROVE  ControlInv'
<1>1. LockInv' BY DEF ConnectTimeout, IInv, ControlInv, LockInv, lwip
<1>2. PcbExact' BY DEF ConnectTimeout, IInv, ControlInv, PcbExact, lwip
<1>3. QuietInv' BY DEF ConnectTimeout, IInv, ControlInv, QuietInv, sems, lwip
<1>4. HandshakeInv'
      BY DEF ConnectTimeout, IInv, ControlInv, HandshakeInv, sems, lwip
<1>5. EmptyInv'
      BY DEF ConnectTimeout, IInv, ControlInv, EmptyInv, sems, chain, lwip
<1>6. NoLostWakeup'
      BY DEF ConnectTimeout, IInv, ControlInv, NoLostWakeup, sems, chain,
        lwip
<1>7. CreditInv' BY DEF ConnectTimeout, IInv, ControlInv, CreditInv, wire
<1> QED BY <1>1, <1>2, <1>3, <1>4, <1>5, <1>6, <1>7 DEF ControlInv

LEMMA ConnectCheckControl ==
  ASSUME IInv, Reuse = FALSE, ConnectCheck
  PROVE  ControlInv'
<1>1. LockInv' BY DEF ConnectCheck, ConnectEnds, IInv, ControlInv, LockInv, lwip
<1>2. PcbExact' BY DEF ConnectCheck, ConnectEnds, IInv, ControlInv, PcbExact, lwip
<1>3. QuietInv' BY DEF ConnectCheck, ConnectEnds, IInv, ControlInv, QuietInv, sems, lwip
<1>4. HandshakeInv'
      BY DEF ConnectCheck, ConnectEnds, IInv, ControlInv, HandshakeInv, sems, lwip
<1>5. EmptyInv'
      BY DEF ConnectCheck, ConnectEnds, IInv, ControlInv, EmptyInv, sems, chain, lwip
<1>6. NoLostWakeup'
      BY DEF ConnectCheck, ConnectEnds, IInv, ControlInv, NoLostWakeup, sems, chain, lwip
<1>7. CreditInv' BY DEF ConnectCheck, ConnectEnds, IInv, ControlInv, CreditInv, wire
<1> QED BY <1>1, <1>2, <1>3, <1>4, <1>5, <1>6, <1>7 DEF ControlInv

LEMMA CloseControl ==
  ASSUME IInv, Reuse = FALSE, Close
  PROVE  ControlInv'
<1>1. LockInv' BY DEF Close, Detached, IInv, ControlInv, LockInv
<1>2. PcbExact' BY DEF Close, Detached, IInv, ControlInv, PcbExact
<1>3. QuietInv'
      BY DEF Close, Detached, IInv, ControlInv, QuietInv, LockInv, sems
<1>4. HandshakeInv'
      BY DEF Close, Detached, IInv, ControlInv, HandshakeInv, sems
<1>5. EmptyInv' BY DEF Close, Detached, IInv, ControlInv, EmptyInv, sems
<1>6. NoLostWakeup'
      BY DEF Close, Detached, IInv, ControlInv, NoLostWakeup, sems
<1>7. CreditInv' BY DEF Close, Detached, IInv, ControlInv, CreditInv, wire
<1> QED BY <1>1, <1>2, <1>3, <1>4, <1>5, <1>6, <1>7 DEF ControlInv

LEMMA ReleaseControl ==
  ASSUME IInv, Reuse = FALSE, Release
  PROVE  ControlInv'
<1>1. LockInv' BY DEF Release, Detached, IInv, ControlInv, LockInv
<1>2. PcbExact' BY DEF Release, Detached, IInv, ControlInv, PcbExact
<1>3. QuietInv'
      BY DEF Release, Detached, IInv, ControlInv, QuietInv, LockInv, sems
<1>4. HandshakeInv'
      BY DEF Release, Detached, IInv, ControlInv, HandshakeInv, sems
<1>5. EmptyInv' BY DEF Release, Detached, IInv, ControlInv, EmptyInv, sems
<1>6. NoLostWakeup'
      BY DEF Release, Detached, IInv, ControlInv, NoLostWakeup, sems
<1>7. CreditInv' BY DEF Release, Detached, IInv, ControlInv, CreditInv, wire
<1> QED BY <1>1, <1>2, <1>3, <1>4, <1>5, <1>6, <1>7 DEF ControlInv

LEMMA NewControl ==
  ASSUME IInv, Reuse = FALSE, New
  PROVE  ControlInv'
<1>1. LockInv' BY DEF New, IInv, ControlInv, LockInv, lwip
<1>2. PcbExact' BY DEF New, IInv, ControlInv, PcbExact, QuietInv, lwip
<1>3. QuietInv' BY DEF New, IInv, ControlInv, QuietInv, lwip
<1>4. HandshakeInv' BY DEF New, IInv, ControlInv, HandshakeInv, lwip
<1>5. EmptyInv' BY DEF New, IInv, ControlInv, EmptyInv, lwip
<1>6. NoLostWakeup' BY DEF New, IInv, ControlInv, NoLostWakeup, lwip
<1>7. CreditInv' BY DEF New, IInv, ControlInv, CreditInv, wire
<1> QED BY <1>1, <1>2, <1>3, <1>4, <1>5, <1>6, <1>7 DEF ControlInv

LEMMA SendControl ==
  ASSUME NEW n \in 1..MaxWant, IInv, Reuse = FALSE, Send(n)
  PROVE  ControlInv'
<1>1. LockInv' BY DEF Send, IInv, ControlInv, LockInv, lwip
<1>2. PcbExact' BY DEF Send, IInv, ControlInv, PcbExact, lwip
<1>3. QuietInv' BY DEF Send, IInv, ControlInv, QuietInv, sems, lwip
<1>4. HandshakeInv' BY DEF Send, IInv, ControlInv, HandshakeInv, sems, lwip
<1>5. EmptyInv' BY DEF Send, IInv, ControlInv, EmptyInv, sems, chain, lwip
<1>6. NoLostWakeup'
      BY DEF Send, IInv, ControlInv, NoLostWakeup, sems, chain, lwip
<1>7. CreditInv' BY DEF Send, IInv, ControlInv, CreditInv, wire
<1> QED BY <1>1, <1>2, <1>3, <1>4, <1>5, <1>6, <1>7 DEF ControlInv

LEMMA SendPassControl ==
  ASSUME IInv, Reuse = FALSE, SendPass
  PROVE  ControlInv'
<1>1. LockInv' BY DEF SendPass, IInv, ControlInv, LockInv, lwip
<1>2. PcbExact' BY DEF SendPass, IInv, ControlInv, PcbExact, lwip
<1>3. QuietInv' BY DEF SendPass, IInv, ControlInv, QuietInv, sems, lwip
<1>4. HandshakeInv' BY DEF SendPass, IInv, ControlInv, HandshakeInv, sems, lwip
<1>5. EmptyInv' BY DEF SendPass, IInv, ControlInv, EmptyInv, sems, chain, lwip
<1>6. NoLostWakeup'
      BY DEF SendPass, IInv, ControlInv, NoLostWakeup, sems, chain, lwip
<1>7. CreditInv' BY DEF SendPass, IInv, ControlInv, CreditInv, wire
<1> QED BY <1>1, <1>2, <1>3, <1>4, <1>5, <1>6, <1>7 DEF ControlInv

LEMMA SendCheckControl ==
  ASSUME IInv, Reuse = FALSE, SendCheck
  PROVE  ControlInv'
<1>1. LockInv'
      BY DEF SendCheck, Queued, GiveUp, IInv, ControlInv, LockInv, lwip
<1>2. PcbExact'
      BY DEF SendCheck, Queued, GiveUp, IInv, ControlInv, PcbExact, lwip
<1>3. QuietInv'
      BY DEF SendCheck, Queued, GiveUp, IInv, ControlInv, QuietInv, sems,
        lwip
<1>4. HandshakeInv'
      BY DEF SendCheck, Queued, GiveUp, IInv, ControlInv, HandshakeInv, sems,
        lwip
<1>5. EmptyInv'
      BY DEF SendCheck, Queued, GiveUp, IInv, ControlInv, EmptyInv, sems,
        chain, lwip
<1>6. NoLostWakeup'
      BY DEF SendCheck, Queued, GiveUp, IInv, ControlInv, NoLostWakeup, sems,
        chain, lwip
<1>7. CreditInv'
      BY DEF SendCheck, Queued, GiveUp, IInv, ControlInv, CreditInv, wire
<1> QED BY <1>1, <1>2, <1>3, <1>4, <1>5, <1>6, <1>7 DEF ControlInv

LEMMA RecvControl ==
  ASSUME NEW n \in 1..MaxWant, IInv, Reuse = FALSE, Recv(n)
  PROVE  ControlInv'
<1>1. LockInv' BY DEF Recv, IInv, ControlInv, LockInv, lwip
<1>2. PcbExact' BY DEF Recv, IInv, ControlInv, PcbExact, lwip
<1>3. QuietInv' BY DEF Recv, IInv, ControlInv, QuietInv, sems, lwip
<1>4. HandshakeInv' BY DEF Recv, IInv, ControlInv, HandshakeInv, sems, lwip
<1>5. EmptyInv' BY DEF Recv, IInv, ControlInv, EmptyInv, sems, chain, lwip
<1>6. NoLostWakeup'
      BY DEF Recv, IInv, ControlInv, NoLostWakeup, sems, chain, lwip
<1>7. CreditInv' BY DEF Recv, IInv, ControlInv, CreditInv, wire
<1> QED BY <1>1, <1>2, <1>3, <1>4, <1>5, <1>6, <1>7 DEF ControlInv

LEMMA DrainControl ==
  ASSUME IInv, Reuse = FALSE, Drain
  PROVE  ControlInv'
<1>1. LockInv' BY DEF Drain, IInv, ControlInv, LockInv
<1>2. PcbExact' BY DEF Drain, IInv, ControlInv, PcbExact
<1>3. QuietInv' BY DEF Drain, IInv, ControlInv, QuietInv, sems
<1>4. HandshakeInv' BY DEF Drain, IInv, ControlInv, HandshakeInv, sems
<1>5. EmptyInv' BY DEF Drain, IInv, ControlInv, EmptyInv, sems, chain
<1>6. NoLostWakeup' BY DEF Drain, IInv, ControlInv, NoLostWakeup, sems, chain
<1>7. CreditInv' BY DEF Drain, IInv, ControlInv, CreditInv, wire
<1> QED BY <1>1, <1>2, <1>3, <1>4, <1>5, <1>6, <1>7 DEF ControlInv

LEMMA CopyControl ==
  ASSUME IInv, Reuse = FALSE, Copy
  PROVE  ControlInv'
<1>1. LockInv' BY DEF Copy, CopyHead, IInv, ControlInv, LockInv, lwip
<1>2. PcbExact' BY DEF Copy, CopyHead, IInv, ControlInv, PcbExact, lwip
<1>3. QuietInv' BY DEF Copy, CopyHead, IInv, ControlInv, QuietInv, sems, lwip
<1>4. HandshakeInv'
      BY DEF Copy, CopyHead, IInv, ControlInv, HandshakeInv, sems, lwip
<1>5. EmptyInv' BY DEF Copy, CopyHead, IInv, ControlInv, EmptyInv, sems, lwip
<1>6. NoLostWakeup'
      BY DEF Copy, CopyHead, IInv, ControlInv, NoLostWakeup, sems, lwip
<1>7. CreditInv' BY DEF Copy, CopyHead, IInv, ControlInv, CreditInv
<1> QED BY <1>1, <1>2, <1>3, <1>4, <1>5, <1>6, <1>7 DEF ControlInv

LEMMA DrainDoneControl ==
  ASSUME IInv, Reuse = FALSE, DrainDone
  PROVE  ControlInv'
<1>1. LockInv' BY DEF DrainDone, Credit, IInv, ControlInv, LockInv
<1>2. PcbExact' BY DEF DrainDone, Credit, IInv, ControlInv, PcbExact
<1>3. QuietInv' BY DEF DrainDone, Credit, IInv, ControlInv, QuietInv, sems
<1>4. HandshakeInv'
      BY DEF DrainDone, Credit, IInv, ControlInv, HandshakeInv, sems
<1>5. EmptyInv'
      BY DEF DrainDone, Credit, IInv, ControlInv, EmptyInv, sems, chain
<1>6. NoLostWakeup'
      BY DEF DrainDone, Credit, IInv, ControlInv, NoLostWakeup, sems, chain
<1>7. CreditInv' BY DEF DrainDone, Credit, IInv, ControlInv, CreditInv
<1> QED BY <1>1, <1>2, <1>3, <1>4, <1>5, <1>6, <1>7 DEF ControlInv

LEMMA RecvCheckControl ==
  ASSUME IInv, Reuse = FALSE, RecvCheck
  PROVE  ControlInv'
<1>1. LockInv'
      BY DEF RecvCheck, RecvCheckState, IInv, ControlInv, LockInv, lwip
<1>2. PcbExact'
      BY DEF RecvCheck, RecvCheckState, IInv, ControlInv, PcbExact, lwip
<1>3. QuietInv'
      BY DEF RecvCheck, RecvCheckState, IInv, ControlInv, QuietInv, sems,
        lwip
<1>4. HandshakeInv'
      BY DEF RecvCheck, RecvCheckState, IInv, ControlInv, HandshakeInv, sems,
        lwip
<1>5. EmptyInv'
      BY DEF RecvCheck, RecvCheckState, IInv, ControlInv, EmptyInv, sems,
        chain, lwip
<1>6. NoLostWakeup'
      BY DEF RecvCheck, RecvCheckState, IInv, ControlInv, NoLostWakeup,
        EmptyInv, sems, chain, lwip
<1>7. CreditInv'
      BY DEF RecvCheck, RecvCheckState, IInv, ControlInv, CreditInv, wire
<1> QED BY <1>1, <1>2, <1>3, <1>4, <1>5, <1>6, <1>7 DEF ControlInv

LEMMA RecvWakeControl ==
  ASSUME IInv, Reuse = FALSE, RecvWake
  PROVE  ControlInv'
<1>1. LockInv' BY DEF RecvWake, IInv, ControlInv, LockInv, lwip
<1>2. PcbExact' BY DEF RecvWake, IInv, ControlInv, PcbExact, lwip
<1>3. QuietInv' BY DEF RecvWake, IInv, ControlInv, QuietInv, lwip
<1>4. HandshakeInv' BY DEF RecvWake, IInv, ControlInv, HandshakeInv, lwip
<1>5. EmptyInv' BY DEF RecvWake, IInv, ControlInv, EmptyInv, chain, lwip
<1>6. NoLostWakeup'
      BY DEF RecvWake, IInv, ControlInv, NoLostWakeup, chain, lwip
<1>7. CreditInv' BY DEF RecvWake, IInv, ControlInv, CreditInv, wire
<1> QED BY <1>1, <1>2, <1>3, <1>4, <1>5, <1>6, <1>7 DEF ControlInv

LEMMA RecvTimeoutControl ==
  ASSUME IInv, Reuse = FALSE, RecvTimeout
  PROVE  ControlInv'
<1>1. LockInv' BY DEF RecvTimeout, IInv, ControlInv, LockInv, lwip
<1>2. PcbExact' BY DEF RecvTimeout, IInv, ControlInv, PcbExact, lwip
<1>3. QuietInv' BY DEF RecvTimeout, IInv, ControlInv, QuietInv, sems, lwip
<1>4. HandshakeInv'
      BY DEF RecvTimeout, IInv, ControlInv, HandshakeInv, sems, lwip
<1>5. EmptyInv'
      BY DEF RecvTimeout, IInv, ControlInv, EmptyInv, sems, chain, lwip
<1>6. NoLostWakeup'
      BY DEF RecvTimeout, IInv, ControlInv, NoLostWakeup, sems, chain, lwip
<1>7. CreditInv' BY DEF RecvTimeout, IInv, ControlInv, CreditInv, wire
<1> QED BY <1>1, <1>2, <1>3, <1>4, <1>5, <1>6, <1>7 DEF ControlInv

LEMMA CallbackEndsControl ==
  ASSUME IInv, Reuse = FALSE, CallbackEnds
  PROVE  ControlInv'
<1>1. LockInv' BY DEF CallbackEnds, Give, IInv, ControlInv, LockInv
<1>2. PcbExact' BY DEF CallbackEnds, Give, IInv, ControlInv, PcbExact
<1>3. QuietInv' BY DEF CallbackEnds, Give, IInv, ControlInv, QuietInv
<1>4. HandshakeInv' BY DEF CallbackEnds, Give, IInv, ControlInv, HandshakeInv
<1>5. EmptyInv' BY DEF CallbackEnds, Give, IInv, ControlInv, EmptyInv, chain
<1>6. NoLostWakeup'
      BY DEF CallbackEnds, Give, IInv, ControlInv, NoLostWakeup, chain
<1>7. CreditInv' BY DEF CallbackEnds, Give, IInv, ControlInv, CreditInv, wire
<1> QED BY <1>1, <1>2, <1>3, <1>4, <1>5, <1>6, <1>7 DEF ControlInv

LEMMA DnsAnswerControl ==
  ASSUME IInv, Reuse = FALSE, DnsAnswer
  PROVE  ControlInv'
<1>1. LockInv' BY DEF DnsAnswer, IInv, ControlInv, LockInv, lwip
<1>2. PcbExact' BY DEF DnsAnswer, IInv, ControlInv, PcbExact, lwip
<1>3. QuietInv' BY DEF DnsAnswer, IInv, ControlInv, QuietInv, sems, lwip
<1>4. HandshakeInv'
      BY DEF DnsAnswer, IInv, ControlInv, HandshakeInv, sems, lwip
<1>5. EmptyInv' BY DEF DnsAnswer, IInv, ControlInv, EmptyInv, sems, chain, lwip
<1>6. NoLostWakeup'
      BY DEF DnsAnswer, IInv, ControlInv, NoLostWakeup, sems, chain, lwip
<1>7. CreditInv' BY DEF DnsAnswer, IInv, ControlInv, CreditInv, wire
<1> QED BY <1>1, <1>2, <1>3, <1>4, <1>5, <1>6, <1>7 DEF ControlInv

LEMMA ConnectedControl ==
  ASSUME NEW p \in Pcb, IInv, Reuse = FALSE, Connected(p)
  PROVE  ControlInv'
<1>1. LockInv' BY DEF Connected, Callback, IInv, ControlInv, LockInv
<1>2. PcbExact' BY DEF Connected, Callback, IInv, ControlInv, PcbExact
<1>3. QuietInv'
      BY DEF Connected, Callback, IInv, ControlInv, QuietInv, PcbExact, sems
<1>4. HandshakeInv'
      BY DEF Connected, Callback, IInv, ControlInv, HandshakeInv, PcbExact,
        TypeOK, StructTypes, LwipTypes, sems
<1>5. EmptyInv'
      BY DEF Connected, Callback, IInv, ControlInv, EmptyInv, LockInv, sems,
        chain
<1>6. NoLostWakeup'
      BY DEF Connected, Callback, IInv, ControlInv, NoLostWakeup, PcbExact,
        HandshakeInv, sems, chain
<1>7. CreditInv' BY DEF Connected, Callback, IInv, ControlInv, CreditInv, wire
<1> QED BY <1>1, <1>2, <1>3, <1>4, <1>5, <1>6, <1>7 DEF ControlInv

LEMMA RecvEndsControl ==
  ASSUME NEW p \in Pcb, IInv, Reuse = FALSE, RecvEnds(p)
  PROVE  ControlInv'
<1>1. LockInv' BY DEF RecvEnds, Callback, IInv, ControlInv, LockInv
<1>2. PcbExact' BY DEF RecvEnds, Callback, IInv, ControlInv, PcbExact
<1>3. QuietInv'
      BY DEF RecvEnds, Callback, IInv, ControlInv, QuietInv, PcbExact, sems
<1>4. HandshakeInv'
      BY DEF RecvEnds, Callback, IInv, ControlInv, HandshakeInv, LockInv,
        PcbExact, sems
<1>5. EmptyInv'
      BY DEF RecvEnds, Callback, IInv, ControlInv, EmptyInv, sems, chain
<1>6. NoLostWakeup'
      BY DEF RecvEnds, Callback, IInv, ControlInv, NoLostWakeup, sems, chain
<1>7. CreditInv' BY DEF RecvEnds, Callback, IInv, ControlInv, CreditInv, wire
<1> QED BY <1>1, <1>2, <1>3, <1>4, <1>5, <1>6, <1>7 DEF ControlInv

LEMMA ErrControl ==
  ASSUME NEW p \in Pcb, IInv, Reuse = FALSE, Err(p)
  PROVE  ControlInv'
<1>1. LockInv'
      BY DEF Err, Callback, ErrPcb, ErrWakes, IInv, ControlInv, LockInv
<1>2. PcbExact'
      BY DEF Err, Callback, ErrPcb, ErrWakes, IInv, ControlInv, PcbExact,
        TypeOK, StructTypes, LwipTypes
<1>3. QuietInv'
      BY DEF Err, Callback, ErrPcb, ErrWakes, IInv, ControlInv, QuietInv,
        PcbExact, sems
<1>4. HandshakeInv'
      BY DEF Err, Callback, ErrPcb, ErrWakes, IInv, ControlInv, HandshakeInv,
        sems
<1>5. EmptyInv'
      BY DEF Err, Callback, ErrPcb, ErrWakes, IInv, ControlInv, EmptyInv,
        sems, chain
<1>6. NoLostWakeup'
      BY DEF Err, Callback, ErrPcb, ErrWakes, IInv, ControlInv, NoLostWakeup,
        sems, chain
<1>7. CreditInv'
      BY DEF Err, Callback, ErrPcb, ErrWakes, IInv, ControlInv, CreditInv,
        wire
<1> QED BY <1>1, <1>2, <1>3, <1>4, <1>5, <1>6, <1>7 DEF ControlInv

LEMMA DataControl ==
  ASSUME NEW p \in Pcb, NEW n \in 1..Window, IInv, Reuse = FALSE, Data(p, n)
  PROVE  ControlInv'
<1>1. LockInv' BY DEF Data, Callback, IInv, ControlInv, LockInv
<1>2. PcbExact' BY DEF Data, Callback, IInv, ControlInv, PcbExact
<1>3. QuietInv'
      BY DEF Data, Callback, IInv, ControlInv, QuietInv, PcbExact, sems
<1>4. HandshakeInv'
      BY DEF Data, Callback, IInv, ControlInv, HandshakeInv, LockInv, sems
<1>5. EmptyInv' BY DEF Data, Callback, IInv, ControlInv, EmptyInv, sems
<1>6. NoLostWakeup' BY DEF Data, Callback, IInv, ControlInv, NoLostWakeup, sems
<1>7. CreditInv' BY DEF Data, Callback, IInv, ControlInv, CreditInv
<1> QED BY <1>1, <1>2, <1>3, <1>4, <1>5, <1>6, <1>7 DEF ControlInv

----------------------------------------------------------------------------
(* The bytes.                                                              *)

LEMMA CopyStream ==
  ASSUME TypeOK, PbufInv, StreamIntact, Copy
  PROVE  PbufInv' /\ StreamIntact'
<1> DEFINE h == Head(rx)
           k == Len(out)
           piece == SubSeq(h, offset + 1, offset + Chunk)
<1>0. rx # <<>> /\ got < want BY DEF Copy
<1>1. offset \in Nat /\ out \in Seq(Nat) /\ k \in Nat
  BY DEF TypeOK, ChainTypes, WireTypes
<1>2. h = rx[1] /\ h \in Seq(Nat) /\ Len(h) \in Nat \ {0} /\ Len(rx) \in Nat \ {0}
      /\ Chunk \in Nat \ {0} /\ offset + Chunk <= Len(h) /\ piece \in Seq(Nat)
      /\ rx \in Seq(Seq(Nat) \ {<<>>})
  BY <1>0, ChunkType
<1>3. \A j \in 1..Len(h) : h[j] = h[1] + j - 1
  <2>1. 1 \in 1..Len(rx) BY <1>2
  <2>2. \A j \in 1..Len(rx[1]) : rx[1][j] = rx[1][1] + j - 1 BY <2>1 DEF PbufInv
  <2> QED BY <1>2, <2>2
<1>4. h[1] \in Nat /\ h[1] + offset = k + 1
  <2>1. h[offset + 1] = k + 1 BY <1>0 DEF StreamIntact
  <2>2. offset + 1 \in 1..Len(h) /\ 1 \in 1..Len(h) BY <1>1, <1>2, SMTT(30)
  <2>3. h[1] \in Nat BY <1>2, <2>2
  <2>4. h[offset + 1] = h[1] + (offset + 1) - 1 BY <1>3, <2>2
  <2> HIDE DEF h, k
  <2> QED BY <1>1, <2>1, <2>3, <2>4
<1>a. /\ offset \in Nat /\ k \in Nat /\ Chunk \in Nat /\ Len(h) \in Nat
      /\ offset + Chunk <= Len(h) /\ h[1] \in Nat /\ h[1] + offset = k + 1
  BY <1>1, <1>2, <1>4
<1>5. Len(piece) = Chunk /\ \A i \in 1..Chunk : piece[i] = h[offset + i]
  BY <1>1, <1>2
<1>6. out' = out \o piece /\ Len(out') = k + Chunk
  BY <1>1, <1>2, <1>5 DEF Copy, CopyHead
<1>7. \A i \in 1..Len(out') : out'[i] = i
  <2> SUFFICES ASSUME NEW i \in 1..(k + Chunk) PROVE out'[i] = i
    BY <1>6
  <2>1. CASE i <= k
    BY <1>1, <1>2, <1>6, <2>1 DEF StreamIntact
  <2>2. CASE i > k
    <3>1. i - k \in 1..Chunk /\ offset + (i - k) \in 1..Len(h)
      BY <1>1, <1>2, <2>2, SMTT(30)
    <3>2. out'[i] = piece[i - k]
      BY <1>1, <1>2, <1>5, <1>6, <2>2
    <3>3. out'[i] = h[offset + (i - k)] BY <1>5, <3>1, <3>2
    <3>4. h[offset + (i - k)] = h[1] + (offset + (i - k)) - 1 BY <1>3, <3>1
    <3> HIDE DEF h, k
    <3>5. i \in Nat BY <1>a
    <3> QED BY <1>a, <3>3, <3>4, <3>5
  <2> QED BY <1>1, <2>1, <2>2
<1> HIDE DEF h, k, piece
<1>8. CASE offset + Chunk >= Len(h)
  <2>1. rx' = Tail(rx) /\ offset' = 0 /\ arrived' = arrived /\ pcb' = pcb
    BY <1>8 DEF Copy, CopyHead, h, wire
  <2>2. offset + Chunk = Len(h) /\ h[Len(h)] = k + Chunk
    <3>1. offset + Chunk = Len(h) BY <1>a, <1>8
    <3>2. Len(h) \in 1..Len(h) BY <1>2
    <3>3. h[Len(h)] = h[1] + Len(h) - 1 BY <1>3, <3>2
    <3> QED BY <1>a, <3>1, <3>3
  <2>3. Len(rx') = Len(rx) - 1 /\ \A i \in 1..Len(rx') : rx'[i] = rx[i + 1]
    BY <1>2, <2>1
  <2>4. PbufInv'
    <3> SUFFICES ASSUME NEW i \in 1..Len(rx'), NEW j \in 1..Len(rx'[i])
                 PROVE  rx'[i][j] = rx'[i][1] + j - 1
      BY DEF PbufInv
    <3>1. i + 1 \in 1..Len(rx) /\ rx'[i] = rx[i + 1] BY <1>2, <2>3
    <3> QED BY <3>1 DEF PbufInv
  <2>5. CASE rx' = <<>>
    <3>1. Len(rx) = 1 BY <1>2, <2>3, <2>5
    <3>2. arrived = h[Len(h)] BY <1>0, <1>2, <3>1 DEF StreamIntact
    <3> QED BY <1>6, <1>7, <2>1, <2>2, <2>4, <2>5, <3>2 DEF StreamIntact
  <2>6. CASE rx' # <<>>
    <3>0. rx' \in Seq(Seq(Nat) \ {<<>>}) /\ Len(rx') \in Nat \ {0} /\ Len(rx) >= 2
      <4>1. rx' \in Seq(Seq(Nat) \ {<<>>}) BY <1>0, <2>1, ChunkType
      <4>2. Len(rx') \in Nat \ {0} BY <2>6, <4>1
      <4>3. Len(rx) \in Nat BY <1>2
      <4> QED BY <2>3, <4>1, <4>2, <4>3
    <3>1. Head(rx')[1] = k + Chunk + 1
      <4>1. Head(rx') = rx[2] BY <2>3, <3>0
      <4>2. rx[2][1] = rx[1][Len(rx[1])] + 1 BY <1>0, <1>2, <3>0 DEF StreamIntact
      <4> QED BY <1>2, <2>2, <4>1, <4>2
    <3>2. \A i \in 2..Len(rx') : rx'[i][1] = rx'[i - 1][Len(rx'[i - 1])] + 1
      <4> SUFFICES ASSUME NEW i \in 2..Len(rx')
                   PROVE  rx'[i][1] = rx'[i - 1][Len(rx'[i - 1])] + 1
        OBVIOUS
      <4>1. rx'[i] = rx[i + 1] /\ rx'[i - 1] = rx[i]
        <5>1. i \in 1..Len(rx') /\ i - 1 \in 1..Len(rx') /\ (i - 1) + 1 = i BY <3>0
        <5> QED BY <2>3, <5>1
      <4>2. rx[i + 1][1] = rx[i][Len(rx[i])] + 1
        <5>1. i + 1 \in 2..Len(rx) /\ (i + 1) - 1 = i BY <1>2, <2>3, <3>0
        <5> QED BY <1>0, <5>1 DEF StreamIntact
      <4> QED BY <4>1, <4>2
    <3>3. rx'[Len(rx')] = rx[Len(rx)]
      <4>1. Len(rx') \in 1..Len(rx') /\ Len(rx') + 1 = Len(rx)
        <5>1. Len(rx) \in Nat BY <1>2
        <5> QED BY <2>3, <3>0, <5>1
      <4> QED BY <2>3, <4>1
    <3>4. rx'[Len(rx')][Len(rx'[Len(rx')])] = arrived'
      BY <1>0, <2>1, <3>3 DEF StreamIntact
    <3>5. Head(rx')[offset' + 1] = Len(out') + 1
      <4>1. offset' + 1 = 1 BY <2>1
      <4> QED BY <1>6, <3>1, <4>1
    <3> QED BY <1>7, <2>4, <2>6, <3>2, <3>4, <3>5 DEF StreamIntact
  <2> QED BY <2>5, <2>6
<1>9. CASE offset + Chunk < Len(h)
  <2>0. ~(offset + Chunk >= Len(h)) BY <1>1, <1>2, <1>9
  <2>1. rx' = rx /\ offset' = offset + Chunk /\ arrived' = arrived /\ pcb' = pcb
    BY <2>0 DEF Copy, CopyHead, h, wire
  <2>2. PbufInv' BY <2>1 DEF PbufInv
  <2>3. Head(rx')[offset' + 1] = Len(out') + 1
    <3>1. offset' + 1 \in 1..Len(h) BY <1>1, <1>2, <1>9, <2>1
    <3>2. h[offset' + 1] = k + Chunk + 1
      <4>1. h[offset' + 1] = h[1] + (offset' + 1) - 1 BY <1>3, <3>1
      <4> QED BY <1>a, <2>1, <4>1
    <3> QED BY <1>6, <2>1, <3>2 DEF h
  <2> QED BY <1>0, <1>7, <2>1, <2>2, <2>3 DEF StreamIntact
<1> QED BY <1>1, <1>2, <1>8, <1>9

LEMMA DataStream ==
  ASSUME TypeOK, PcbExact, PbufInv, StreamIntact,
         NEW p \in Pcb, NEW n \in 1..Window, Data(p, n)
  PROVE  PbufInv' /\ StreamIntact'
<1> DEFINE new == [i \in 1..n |-> arrived + i]
<1>1. arrived \in Nat /\ n \in Nat \ {0} /\ rx \in Seq(Seq(Nat) \ {<<>>}) /\ Len(rx) \in Nat
  BY BoundAssumption DEF TypeOK, WireTypes, ChainTypes
<1>2. Len(new) = n /\ new \in Seq(Nat) /\ \A j \in 1..n : new[j] = arrived + j
  BY <1>1
<1>3. /\ rx' = Append(rx, new) /\ offset' = IF rx = <<>> THEN 0 ELSE offset
      /\ arrived' = arrived + n /\ out' = out /\ pcb' = pcb
  BY DEF Data
<1>4. pcb # NULL BY PcbAssumption DEF Data, PcbExact
<1> HIDE DEF new
<1>5. /\ Len(rx') = Len(rx) + 1 /\ rx'[Len(rx')] = new /\ rx' # <<>>
      /\ \A i \in 1..Len(rx) : rx'[i] = rx[i]
  <2>1. Len(rx') = Len(rx) + 1 /\ rx'[Len(rx) + 1] = new BY <1>1, <1>2, <1>3
  <2>2. \A i \in 1..Len(rx) : rx'[i] = rx[i] BY <1>1, <1>2, <1>3
  <2>3. rx' # <<>> BY <1>1, <2>1
  <2> QED BY <2>1, <2>2, <2>3
<1>6. PbufInv'
  <2> SUFFICES ASSUME NEW i \in 1..Len(rx'), NEW j \in 1..Len(rx'[i])
               PROVE  rx'[i][j] = rx'[i][1] + j - 1
    BY DEF PbufInv
  <2>1. CASE i = Len(rx') BY <1>1, <1>2, <1>5, <2>1
  <2>2. CASE i # Len(rx')
    <3>1. i \in 1..Len(rx) BY <1>1, <1>5, <2>2
    <3> QED BY <1>5, <3>1 DEF PbufInv
  <2> QED BY <2>1, <2>2
<1>7. rx'[Len(rx')][Len(rx'[Len(rx')])] = arrived' BY <1>1, <1>2, <1>3, <1>5
<1>8. Head(rx')[offset' + 1] = Len(out') + 1
  <2>1. CASE rx = <<>>
    <3>1. Len(out) = arrived BY <1>4, <2>1 DEF StreamIntact
    <3>2. Head(rx') = new BY <1>1, <1>3, <1>5, <2>1
    <3> QED BY <1>1, <1>2, <1>3, <2>1, <3>1, <3>2
  <2>2. CASE rx # <<>>
    <3>1. Head(rx') = Head(rx) BY <1>1, <1>5, <2>2
    <3> QED BY <1>3, <2>2, <3>1 DEF StreamIntact
  <2> QED BY <2>1, <2>2
<1>9. \A i \in 2..Len(rx') : rx'[i][1] = rx'[i - 1][Len(rx'[i - 1])] + 1
  <2> SUFFICES ASSUME NEW i \in 2..Len(rx')
               PROVE  rx'[i][1] = rx'[i - 1][Len(rx'[i - 1])] + 1
    OBVIOUS
  <2>1. CASE i = Len(rx')
    <3>1. rx # <<>> /\ rx'[i - 1] = rx[Len(rx)] /\ rx'[i] = new
      <4>1. Len(rx) \in 1..Len(rx) /\ i - 1 = Len(rx) BY <1>1, <1>5, <2>1
      <4> QED BY <1>1, <1>5, <2>1, <4>1
    <3>2. rx[Len(rx)][Len(rx[Len(rx)])] = arrived BY <3>1 DEF StreamIntact
    <3> QED BY <1>1, <1>2, <3>1, <3>2
  <2>2. CASE i # Len(rx')
    <3>1. i \in 2..Len(rx) /\ rx # <<>> /\ rx'[i] = rx[i] /\ rx'[i - 1] = rx[i - 1]
      <4>1. i \in 2..Len(rx) /\ i \in 1..Len(rx) /\ i - 1 \in 1..Len(rx)
        BY <1>1, <1>5, <2>2
      <4>2. rx # <<>> BY <1>1, <4>1
      <4> QED BY <1>5, <4>1, <4>2
    <3> QED BY <3>1 DEF StreamIntact
  <2> QED BY <2>1, <2>2
<1> QED BY <1>3, <1>5, <1>6, <1>7, <1>8, <1>9 DEF StreamIntact

(* What leaves the chain and the bytes alone leaves PbufInv alone, and     *)
(* StreamIntact too unless it installs a pcb.                              *)
LEMMA SameStream ==
  ASSUME PbufInv, StreamIntact, UNCHANGED <<chain, arrived, out>>,
         pcb' = pcb \/ pcb' = NULL
  PROVE  PbufInv' /\ StreamIntact'
<1>1. PbufInv' BY DEF PbufInv, chain
<1>2. StreamIntact' BY DEF StreamIntact, chain
<1> QED BY <1>1, <1>2

(* An empty chain with no pcb and nothing handed out.                      *)
LEMMA EmptyStream ==
  ASSUME rx' = <<>>, StreamIntact, out' = out, pcb' = NULL
  PROVE  PbufInv' /\ StreamIntact'
<1>1. PbufInv' BY DEF PbufInv
<1>2. StreamIntact' BY DEF StreamIntact
<1> QED BY <1>1, <1>2

LEMMA OpenStream ==
  ASSUME IInv, StreamInv, Open
  PROVE  PbufInv' /\ StreamIntact'
<1>1. rx = <<>> /\ rx' = rx
  BY DEF IInv, ControlInv, QuietInv, StreamInv, FreshInv, Open, chain
<1>2. out' = <<>> /\ arrived' = 0 BY DEF Open
<1>3. PbufInv' BY <1>1 DEF PbufInv
<1>4. StreamIntact' BY <1>1, <1>2 DEF StreamIntact
<1> QED BY <1>3, <1>4

LEMMA StreamStep ==
  ASSUME IInv, StreamInv, [Next]_vars
  PROVE  StreamInv'
<1>a. PbufInv /\ FreshInv /\ StreamIntact /\ TypeOK /\ PcbExact /\ QuietInv
  BY DEF StreamInv, IInv, ControlInv
<1>1. CASE Copy
  <2>1. FreshInv'
    <3>1. state' = state /\ pcb' = pcb /\ pc' = pc /\ rx # <<>> BY <1>1 DEF Copy
    <3> QED BY <1>a, <3>1 DEF FreshInv
  <2>2. PbufInv' /\ StreamIntact' BY <1>a, <1>1, CopyStream
  <2> QED BY <2>1, <2>2 DEF StreamInv
<1>2. ASSUME NEW p \in Pcb, NEW n \in 1..Window, Data(p, n)
     PROVE  StreamInv'
  <2>1. FreshInv'
      BY <1>a, <1>2, PcbAssumption DEF Data, Callback, PcbExact, FreshInv
  <2>2. PbufInv' /\ StreamIntact' BY <1>a, <1>2, DataStream
  <2> QED BY <2>1, <2>2 DEF StreamInv
<1>3. CASE Open
  <2>1. FreshInv'
      BY <1>a, <1>3, PcbAssumption DEF Open, chain, QuietInv, FreshInv
  <2>2. PbufInv' /\ StreamIntact' BY <1>3, OpenStream
  <2> QED BY <2>1, <2>2 DEF StreamInv
<1>4. CASE Close \/ Release \/ New
  <2>1. FreshInv' BY <1>a, <1>4 DEF Close, Release, New, FreshInv
  <2>2. PbufInv' /\ StreamIntact'
      BY <1>a, <1>4, EmptyStream DEF Close, Release, New, wire
  <2> QED BY <2>1, <2>2 DEF StreamInv
<1>5. CASE Connect \/ Resolve \/ DnsWake \/ DnsTimeout \/ Opened \/
            ConnectWake \/ ConnectTimeout \/ ConnectCheck
  <2>1. FreshInv'
      BY <1>a, <1>5, PcbAssumption DEF Connect, Resolve, DnsWake, DnsTimeout,
        Opened, ConnectWake, ConnectTimeout, ConnectCheck, ConnectEnds, chain, lwip,
        QuietInv, PcbExact, FreshInv
  <2>2. PbufInv' /\ StreamIntact'
      BY <1>a, <1>5, SameStream DEF Connect, Resolve, DnsWake, DnsTimeout,
        Opened, ConnectWake, ConnectTimeout, ConnectCheck, ConnectEnds, chain, wire
  <2> QED BY <2>1, <2>2 DEF StreamInv
<1>6. CASE (\E n \in 1..MaxWant : Send(n) \/ Recv(n)) \/ SendPass \/
            SendCheck \/ Drain \/ DrainDone \/ RecvCheck \/ RecvWake \/
            RecvTimeout
  <2>1. FreshInv'
      BY <1>a, <1>6, PcbAssumption DEF Send, SendPass, SendCheck, Recv,
        Drain, DrainDone, RecvCheck, RecvWake, RecvTimeout, Queued, GiveUp,
        Credit, RecvCheckState, chain, lwip, QuietInv, PcbExact, FreshInv
  <2>2. PbufInv' /\ StreamIntact'
      BY <1>a, <1>6, SameStream DEF Send, SendPass, SendCheck, Recv, Drain,
        DrainDone, RecvCheck, RecvWake, RecvTimeout, Queued, GiveUp, Credit,
        RecvCheckState, chain, wire
  <2> QED BY <2>1, <2>2 DEF StreamInv
<1>7. CASE CallbackEnds \/ DnsAnswer \/ (\E p \in Pcb : Connected(p) \/
            RecvEnds(p) \/ Err(p))
  <2>1. FreshInv'
      BY <1>a, <1>7, PcbAssumption DEF CallbackEnds, DnsAnswer, Connected,
        RecvEnds, Err, Give, Callback, ErrPcb, ErrWakes, chain, lwip, QuietInv,
        PcbExact, FreshInv
  <2>2. PbufInv' /\ StreamIntact'
      BY <1>a, <1>7, SameStream DEF CallbackEnds, DnsAnswer, Connected,
        RecvEnds, Err, Give, Callback, ErrPcb, ErrWakes, chain, wire
  <2> QED BY <2>1, <2>2 DEF StreamInv
<1>8. CASE UNCHANGED vars
  <2>1. FreshInv' BY <1>a, <1>8 DEF vars, chain, FreshInv
  <2>2. PbufInv' /\ StreamIntact'
      BY <1>a, <1>8, SameStream DEF vars, chain, wire
  <2> QED BY <2>1, <2>2 DEF StreamInv
<1> QED
    BY <1>1, <1>2, <1>3, <1>4, <1>5, <1>6, <1>7, <1>8 DEF Next, OwnerStep,
      OwnerCall, Stack

----------------------------------------------------------------------------
(* The invariants and the theorems.                                        *)

LEMMA InitInv == ASSUME Init PROVE IInv /\ StreamInv
<1>1. TypeOK
  <2>1. StructTypes BY DEF Init, StructTypes, States
  <2>2. ChainTypes BY DEF Init, ChainTypes
  <2>3. OwnerTypes
    <3>1. pc \in Pcs /\ want \in 1..MaxWant /\ got \in Nat
      BY BoundAssumption DEF Init, Pcs
    <3>2. ok \in BOOLEAN BY DEF Init
    <3> QED BY <3>1, <3>2 DEF OwnerTypes
  <2>4. DnsTypes BY DEF Init, DnsTypes
  <2>5. LwipTypes BY DEF Init, LwipTypes
  <2>6. WireTypes BY DEF Init, WireTypes
  <2> QED BY <2>1, <2>2, <2>3, <2>4, <2>5, <2>6 DEF TypeOK
<1>2. ControlInv
  BY DEF Init, ControlInv, LockInv, PcbExact, QuietInv, HandshakeInv,
         EmptyInv, NoLostWakeup, CreditInv
<1>3. StreamInv
  BY DEF Init, StreamInv, PbufInv, FreshInv, StreamIntact
<1> QED BY <1>1, <1>2, <1>3 DEF IInv

LEMMA StepTypeOK == ASSUME TypeOK, [Next]_vars PROVE TypeOK'
<1>1. CASE Connect BY <1>1, ConnectType
<1>2. CASE Resolve BY <1>2, ResolveType
<1>3. CASE DnsWake BY <1>3, DnsWakeType
<1>4. CASE DnsTimeout BY <1>4, DnsTimeoutType
<1>5. CASE Open BY <1>5, OpenType
<1>6. CASE Opened BY <1>6, OpenedType
<1>7. CASE ConnectWake BY <1>7, ConnectWakeType
<1>8. CASE ConnectTimeout BY <1>8, ConnectTimeoutType
<1>9. CASE ConnectCheck BY <1>9, ConnectCheckType
<1>10. CASE Close BY <1>10, CloseType
<1>11. CASE Release BY <1>11, ReleaseType
<1>12. CASE New BY <1>12, NewType
<1>13. ASSUME NEW n \in 1..MaxWant, Send(n) PROVE TypeOK' BY <1>13, SendType
<1>14. CASE SendPass BY <1>14, SendPassType
<1>15. CASE SendCheck BY <1>15, SendCheckType
<1>16. ASSUME NEW n \in 1..MaxWant, Recv(n) PROVE TypeOK' BY <1>16, RecvType
<1>17. CASE Drain BY <1>17, DrainType
<1>18. CASE Copy BY <1>18, CopyType
<1>19. CASE DrainDone BY <1>19, DrainDoneType
<1>20. CASE RecvCheck BY <1>20, RecvCheckType
<1>21. CASE RecvWake BY <1>21, RecvWakeType
<1>22. CASE RecvTimeout BY <1>22, RecvTimeoutType
<1>23. CASE CallbackEnds BY <1>23, CallbackEndsType
<1>24. CASE DnsAnswer BY <1>24, DnsAnswerType
<1>25. ASSUME NEW p \in Pcb, Connected(p) PROVE TypeOK' BY <1>25, ConnectedType
<1>26. ASSUME NEW p \in Pcb, RecvEnds(p) PROVE TypeOK' BY <1>26, RecvEndsType
<1>27. ASSUME NEW p \in Pcb, Err(p) PROVE TypeOK' BY <1>27, ErrType
<1>28. ASSUME NEW p \in Pcb, NEW n \in 1..Window, Data(p, n) PROVE TypeOK' BY <1>28, DataType
<1>29. CASE UNCHANGED vars
  BY <1>29 DEF TypeOK, StructTypes, ChainTypes, OwnerTypes, DnsTypes, LwipTypes,
              WireTypes, vars, sems, chain, call, dns, lwip, wire
<1> QED
    BY <1>1, <1>2, <1>3, <1>4, <1>5, <1>6, <1>7, <1>8, <1>9, <1>10, <1>11,
      <1>12, <1>13, <1>14, <1>15, <1>16, <1>17, <1>18, <1>19, <1>20, <1>21,
      <1>22, <1>23, <1>24, <1>25, <1>26, <1>27, <1>28, <1>29 DEF Next,
      OwnerStep, OwnerCall, Stack

LEMMA StepControl == ASSUME IInv, Reuse = FALSE, [Next]_vars PROVE ControlInv'
<1>1. CASE Connect BY <1>1, ConnectControl
<1>2. CASE Resolve BY <1>2, ResolveControl
<1>3. CASE DnsWake BY <1>3, DnsWakeControl
<1>4. CASE DnsTimeout BY <1>4, DnsTimeoutControl
<1>5. CASE Open BY <1>5, OpenControl
<1>6. CASE Opened BY <1>6, OpenedControl
<1>7. CASE ConnectWake BY <1>7, ConnectWakeControl
<1>8. CASE ConnectTimeout BY <1>8, ConnectTimeoutControl
<1>9. CASE ConnectCheck BY <1>9, ConnectCheckControl
<1>10. CASE Close BY <1>10, CloseControl
<1>11. CASE Release BY <1>11, ReleaseControl
<1>12. CASE New BY <1>12, NewControl
<1>13. ASSUME NEW n \in 1..MaxWant, Send(n) PROVE ControlInv' BY <1>13, SendControl
<1>14. CASE SendPass BY <1>14, SendPassControl
<1>15. CASE SendCheck BY <1>15, SendCheckControl
<1>16. ASSUME NEW n \in 1..MaxWant, Recv(n) PROVE ControlInv' BY <1>16, RecvControl
<1>17. CASE Drain BY <1>17, DrainControl
<1>18. CASE Copy BY <1>18, CopyControl
<1>19. CASE DrainDone BY <1>19, DrainDoneControl
<1>20. CASE RecvCheck BY <1>20, RecvCheckControl
<1>21. CASE RecvWake BY <1>21, RecvWakeControl
<1>22. CASE RecvTimeout BY <1>22, RecvTimeoutControl
<1>23. CASE CallbackEnds BY <1>23, CallbackEndsControl
<1>24. CASE DnsAnswer BY <1>24, DnsAnswerControl
<1>25. ASSUME NEW p \in Pcb, Connected(p) PROVE ControlInv' BY <1>25, ConnectedControl
<1>26. ASSUME NEW p \in Pcb, RecvEnds(p) PROVE ControlInv' BY <1>26, RecvEndsControl
<1>27. ASSUME NEW p \in Pcb, Err(p) PROVE ControlInv' BY <1>27, ErrControl
<1>28. ASSUME NEW p \in Pcb, NEW n \in 1..Window, Data(p, n) PROVE ControlInv' BY <1>28, DataControl
<1>29. CASE UNCHANGED vars
  BY <1>29 DEF IInv, ControlInv, LockInv, PcbExact, QuietInv, HandshakeInv, EmptyInv,
              NoLostWakeup, CreditInv, vars, sems, chain, lwip, wire
<1> QED
    BY <1>1, <1>2, <1>3, <1>4, <1>5, <1>6, <1>7, <1>8, <1>9, <1>10, <1>11,
      <1>12, <1>13, <1>14, <1>15, <1>16, <1>17, <1>18, <1>19, <1>20, <1>21,
      <1>22, <1>23, <1>24, <1>25, <1>26, <1>27, <1>28, <1>29 DEF Next,
      OwnerStep, OwnerCall, Stack

(* IInv and StreamInv hold in every state of a transport that is closed    *)
(* before it is connected again.                                           *)
THEOREM Invariance == ASSUME Reuse = FALSE PROVE Spec => [](IInv /\ StreamInv)
<1>1. Init => IInv /\ StreamInv BY InitInv
<1>2. IInv /\ StreamInv /\ [Next]_vars => (IInv /\ StreamInv)'
  BY StepTypeOK, StepControl, StreamStep DEF IInv
<1> QED BY <1>1, <1>2, PTL DEF Spec

(* The struct, the owner, resolve_host's frame and lwIP's side stay within *)
(* their types, however the transport is used.                             *)
THEOREM TypeCorrect == Spec => []TypeOK
<1>1. Init => TypeOK BY InitInv DEF IInv
<1>2. TypeOK /\ [Next]_vars => TypeOK' BY StepTypeOK
<1> QED BY <1>1, <1>2, PTL DEF Spec

(* t->pcb is the one pcb lwIP knows with this transport's callbacks: never *)
(* dangling, never leaked, never shared.                                   *)
THEOREM PcbIsExact == ASSUME Reuse = FALSE PROVE Spec => []PcbExact
<1>1. IInv => PcbExact BY DEF IInv, ControlInv
<1> QED BY <1>1, Invariance, PTL

(* A reader never sleeps over data, a close or an error, and connect never *)
(* once its handshake has ended.                                           *)
THEOREM NoSignalIsLost == ASSUME Reuse = FALSE PROVE Spec => []NoLostSignal
<1>1. IInv => NoLostWakeup BY DEF IInv, ControlInv
<1>2. IInv => NoLostConnect
  BY DEF IInv, ControlInv, HandshakeInv, NoLostConnect
<1>3. IInv => NoLostSignal BY <1>1, <1>2 DEF NoLostSignal
<1> QED BY <1>3, Invariance, PTL

(* After mongo_transport_free nothing can call back.                       *)
THEOREM FreedStaysQuiet == ASSUME Reuse = FALSE PROVE Spec => []FreedIsQuiet
<1>1. IInv => FreedIsQuiet
  BY DEF IInv, ControlInv, PcbExact, QuietInv, FreedIsQuiet
<1> QED BY <1>1, Invariance, PTL

(* Flow control does not leak.                                             *)
THEOREM WindowIsCredited == ASSUME Reuse = FALSE PROVE Spec => []WindowCredited
<1>1. IInv => WindowCredited
  BY DEF IInv, ControlInv, LockInv, CreditInv, WindowCredited
<1> QED BY <1>1, Invariance, PTL

(* recv_exact hands out the peer's bytes once each and in order.           *)
THEOREM StreamIsIntact == ASSUME Reuse = FALSE PROVE Spec => []StreamIntact
<1>1. StreamInv => StreamIntact BY DEF StreamInv
<1> QED BY <1>1, Invariance, PTL
----------------------------------------------------------------------------
(* The transport implements ByteStream.                                    *)

(* What ByteStream's link says of the struct.  A connection that lwIP has  *)
(* not given up but the code does not call connected is one that connect   *)
(* still works on; and within connect and send only cb_err removes a pcb.  *)
DialInv ==
  /\ state = "connected" => pcb # NULL /\ life[pcb] = "up"
  /\ pcb # NULL /\ state # "connected" /\ life[pcb] \in {"syn", "up"} =>
       pc \in {"opened", "cwait", "ccheck", "close"}
  /\ pcb = NULL /\ pc \in {"opened", "cwait", "ccheck", "close", "send", "scheck"} =>
       state = "error"

(* A read takes no more than it wants, and waits only while it wants more. *)
WantInv ==
  /\ pc \in RecvPcs => got <= want
  /\ pc \in {"rcheck", "rwait"} => got < want

(* No byte in the chain is ahead of those that have arrived.               *)
ArrivedInv == \A i \in 1..Len(rx) : \A j \in 1..Len(rx[i]) : rx[i][j] <= arrived

(* Within a call nothing has succeeded yet.                                *)
OkInv == pc \notin {"idle", "freed"} => ~ok

RefInv == DialInv /\ WantInv /\ ArrivedInv /\ OkInv

LEMMA OkStep == ASSUME TypeOK, OkInv, [Next]_vars PROVE OkInv'
<1>a. ok \in BOOLEAN BY DEF TypeOK, OwnerTypes
<1>1. CASE Connect BY <1>1 DEF Connect, OkInv
<1>2. CASE Resolve \/ DnsWake \/ DnsTimeout \/ Open \/ Opened
           \/ ConnectWake \/ ConnectTimeout
  BY <1>2 DEF Resolve, DnsWake, DnsTimeout, Open, Opened, ConnectWake,
     ConnectTimeout, call, OkInv
<1>3. CASE ConnectCheck BY <1>3 DEF ConnectCheck, OkInv
<1>4. CASE Close \/ Release \/ New BY <1>4 DEF Close, Release, New, OkInv
<1>5. ASSUME NEW n \in 1..MaxWant, Send(n) \/ Recv(n) PROVE OkInv'
  BY <1>5 DEF Send, Recv, OkInv
<1>6. CASE SendPass BY <1>6 DEF SendPass, OkInv
<1>7. CASE SendCheck BY <1>7 DEF SendCheck, GiveUp, OkInv
<1>8. CASE Drain \/ Copy BY <1>8 DEF Drain, Copy, call, OkInv
<1>9. CASE DrainDone BY <1>9 DEF DrainDone, OkInv
<1>10. CASE RecvCheck \/ RecvWake \/ RecvTimeout
  BY <1>10 DEF RecvCheck, RecvWake, RecvTimeout, call, OkInv
<1>11. CASE CallbackEnds \/ DnsAnswer \/ UNCHANGED vars
  BY <1>11 DEF CallbackEnds, DnsAnswer, vars, call, OkInv
<1>12. ASSUME NEW p \in Pcb, \/ Connected(p) \/ RecvEnds(p) \/ Err(p)
                             \/ \E n \in 1..Window : Data(p, n)
      PROVE OkInv'
  BY <1>12 DEF Connected, RecvEnds, Err, Data, call, OkInv
<1> QED
  BY <1>1, <1>2, <1>3, <1>4, <1>5, <1>6, <1>7, <1>8, <1>9, <1>10, <1>11, <1>12
     DEF Next, OwnerStep, OwnerCall, Stack

LEMMA DialStep == ASSUME IInv, DialInv, Reuse = FALSE, [Next]_vars PROVE DialInv'
<1>a. PcbExact /\ QuietInv /\ HandshakeInv /\ StructTypes /\ LwipTypes
  BY DEF IInv, ControlInv, TypeOK
<1>b. NULL \notin Pcb BY PcbAssumption
<1>1. CASE Connect \/ Resolve \/ DnsWake \/ DnsTimeout
  BY <1>1, <1>a DEF Connect, Resolve, DnsWake, DnsTimeout, DialInv, QuietInv, lwip
<1>2. CASE Open
  <2>1. ASSUME NEW p \in Pcb, pcb' = p, life' = [life EXCEPT ![p] = "syn"],
               state' = "connecting", pc' \in {"opened", "close"}
        PROVE  DialInv'
    BY <2>1, <1>b DEF DialInv
  <2>2. ASSUME pcb' = NULL, state' = "error", pc' = "idle" PROVE DialInv'
    BY <2>2 DEF DialInv
  <2> QED BY <1>2, <2>1, <2>2 DEF Open
<1>3. CASE Opened BY <1>3 DEF Opened, DialInv, lwip
<1>4. CASE ConnectWake \/ ConnectTimeout
  BY <1>4 DEF ConnectWake, ConnectTimeout, DialInv, lwip
<1>5. CASE ConnectCheck BY <1>5 DEF ConnectCheck, ConnectEnds, DialInv, lwip
<1>6. CASE Close \/ Release \/ New
  BY <1>6 DEF Close, Release, New, DialInv
<1>7. ASSUME NEW n \in 1..MaxWant, Send(n) \/ Recv(n) PROVE DialInv'
  BY <1>7 DEF Send, Recv, DialInv, lwip
<1>8. CASE SendPass BY <1>8 DEF SendPass, DialInv, lwip
<1>9. CASE SendCheck BY <1>9 DEF SendCheck, GiveUp, DialInv, lwip
<1>10. CASE Drain \/ Copy \/ DrainDone
  BY <1>10 DEF Drain, Copy, DrainDone, DialInv, lwip
<1>11. CASE RecvCheck \/ RecvWake \/ RecvTimeout
  BY <1>11 DEF RecvCheck, RecvCheckState, RecvWake, RecvTimeout, DialInv, lwip
<1>12. CASE CallbackEnds \/ DnsAnswer
  BY <1>12 DEF CallbackEnds, DnsAnswer, DialInv, lwip
<1>13. ASSUME NEW p \in Pcb, Connected(p) PROVE DialInv'
  <2>1. pcb = p /\ pcb' = pcb /\ pcb # NULL /\ life[p] = "syn"
    BY <1>13, <1>a, <1>b DEF Connected, PcbExact
  <2>2. life'[p] = "up" BY <1>13, <1>a DEF Connected, LwipTypes
  <2>3. pc' \in {"opened", "cwait", "close"}
    BY <1>13, <1>a, <2>1 DEF Connected, HandshakeInv
  <2> QED BY <2>1, <2>2, <2>3 DEF DialInv
<1>14. ASSUME NEW p \in Pcb, RecvEnds(p) PROVE DialInv'
  <2>1. pcb = p /\ pcb' = pcb /\ pcb # NULL
    BY <1>14, <1>a, <1>b DEF RecvEnds, PcbExact
  <2>2. life'[p] = "fin" /\ state' # "connected"
    BY <1>14, <1>a DEF RecvEnds, Callback, LwipTypes
  <2> QED BY <2>1, <2>2 DEF DialInv
<1>15. ASSUME NEW p \in Pcb, Err(p) PROVE DialInv'
  BY <1>15 DEF Err, ErrPcb, Callback, DialInv
<1>16. ASSUME NEW p \in Pcb, NEW n \in 1..Window, Data(p, n) PROVE DialInv'
  BY <1>16 DEF Data, Callback, DialInv
<1>17. CASE UNCHANGED vars BY <1>17 DEF vars, lwip, DialInv
<1> QED
  BY <1>1, <1>2, <1>3, <1>4, <1>5, <1>6, <1>7, <1>8, <1>9, <1>10, <1>11,
     <1>12, <1>13, <1>14, <1>15, <1>16, <1>17 DEF Next, OwnerStep, OwnerCall, Stack

LEMMA WantStep == ASSUME TypeOK, WantInv, [Next]_vars PROVE WantInv'
<1>a. want \in Nat /\ got \in Nat BY BoundAssumption DEF TypeOK, OwnerTypes
<1>1. CASE Connect \/ Resolve \/ DnsWake \/ DnsTimeout \/ Open \/ Opened
           \/ ConnectWake \/ ConnectTimeout \/ ConnectCheck
  <2>1. pc' \notin RecvPcs
    BY <1>1 DEF Connect, Resolve, DnsWake, DnsTimeout, Open, Opened, ConnectWake,
       ConnectTimeout, ConnectCheck, ConnectEnds, RecvPcs
  <2> QED BY <2>1 DEF WantInv, RecvPcs
<1>2. CASE Close \/ Release \/ New \/ SendPass \/ SendCheck \/ \E n \in 1..MaxWant : Send(n)
  <2>1. pc' \notin RecvPcs
    BY <1>2 DEF Close, Release, New, SendPass, SendCheck, GiveUp, Send, RecvPcs
  <2> QED BY <2>1 DEF WantInv, RecvPcs
<1>3. ASSUME NEW n \in 1..MaxWant, Recv(n) PROVE WantInv'
  BY <1>3, BoundAssumption DEF Recv, WantInv
<1>4. CASE Drain BY <1>4 DEF Drain, call, WantInv, RecvPcs
<1>5. CASE Copy
  <2>1. rx # <<>> /\ got < want BY <1>5 DEF Copy
  <2>2. Chunk \in Nat /\ Chunk <= want - got BY <2>1, ChunkType
  <2>3. got' = got + Chunk /\ want' = want /\ pc' = "copy" BY <1>5 DEF Copy, CopyHead
  <2> QED BY <1>a, <2>1, <2>2, <2>3 DEF WantInv
<1>6. CASE DrainDone BY <1>a, <1>6 DEF DrainDone, WantInv, RecvPcs
<1>7. CASE RecvCheck \/ RecvWake \/ RecvTimeout
  BY <1>a, <1>7 DEF RecvCheck, RecvCheckState, RecvWake, RecvTimeout, call, WantInv, RecvPcs
<1>8. CASE CallbackEnds \/ DnsAnswer \/ UNCHANGED vars
  BY <1>8 DEF CallbackEnds, DnsAnswer, vars, call, WantInv
<1>9. ASSUME NEW p \in Pcb, \/ Connected(p) \/ RecvEnds(p) \/ Err(p)
                            \/ \E n \in 1..Window : Data(p, n)
      PROVE WantInv'
  BY <1>9 DEF Connected, RecvEnds, Err, Data, call, WantInv
<1> QED
  BY <1>1, <1>2, <1>3, <1>4, <1>5, <1>6, <1>7, <1>8, <1>9
     DEF Next, OwnerStep, OwnerCall, Stack

LEMMA ArrivedStep ==
  ASSUME IInv, StreamInv, ArrivedInv, [Next]_vars PROVE ArrivedInv'
<1>a. TypeOK /\ QuietInv /\ FreshInv
  BY DEF IInv, ControlInv, StreamInv
<1>1. CASE Copy
  <2>1. rx # <<>> /\ got < want BY <1>1 DEF Copy
  <2>2. rx \in Seq(Seq(Nat) \ {<<>>}) /\ Len(rx) \in Nat \ {0} BY <1>a, <2>1, ChunkType
  <2>3. arrived' = arrived /\ (rx' = rx \/ rx' = Tail(rx)) BY <1>1 DEF Copy, CopyHead
  <2>4. CASE rx' = rx BY <2>3, <2>4 DEF ArrivedInv
  <2>5. CASE rx' = Tail(rx)
    <3>1. Len(rx') = Len(rx) - 1 /\ \A i \in 1..Len(rx') : rx'[i] = rx[i + 1]
      BY <2>2, <2>5
    <3>0. Len(rx) \in Nat BY <2>2
    <3>2. \A i \in 1..Len(rx') : i + 1 \in 1..Len(rx) BY <3>0, <3>1
    <3> QED BY <2>3, <3>1, <3>2 DEF ArrivedInv
  <2> QED BY <2>3, <2>4, <2>5
<1>2. ASSUME NEW p \in Pcb, NEW n \in 1..Window, Data(p, n) PROVE ArrivedInv'
  <2> DEFINE new == [i \in 1..n |-> arrived + i]
  <2>1. /\ arrived \in Nat /\ n \in Nat /\ rx \in Seq(Seq(Nat) \ {<<>>})
        /\ Len(rx) \in Nat
    BY <1>a, BoundAssumption DEF TypeOK, WireTypes, ChainTypes
  <2>2. Len(new) = n /\ \A j \in 1..n : new[j] = arrived + j BY <2>1
  <2>3. rx' = Append(rx, new) /\ arrived' = arrived + n BY <1>2 DEF Data
  <2>4. new \in Seq(Nat) BY <2>1
  <2> HIDE DEF new
  <2>5. /\ Len(rx') = Len(rx) + 1 /\ rx'[Len(rx) + 1] = new
        /\ \A i \in 1..Len(rx) : rx'[i] = rx[i]
    BY <2>1, <2>3, <2>4
  <2> SUFFICES ASSUME NEW i \in 1..Len(rx'), NEW j \in 1..Len(rx'[i])
               PROVE  rx'[i][j] <= arrived'
    BY DEF ArrivedInv
  <2>6. CASE i = Len(rx) + 1
    <3>1. rx'[i] = new /\ j \in 1..n BY <2>2, <2>5, <2>6
    <3> QED BY <2>1, <2>2, <2>3, <3>1
  <2>7. CASE i # Len(rx) + 1
    <3>1. i \in 1..Len(rx) BY <2>1, <2>5, <2>7
    <3>2. rx'[i] = rx[i] /\ rx[i] \in Seq(Nat) BY <2>1, <2>5, <3>1
    <3>3. j \in 1..Len(rx[i]) /\ rx[i][j] \in Nat BY <3>2
    <3>4. rx[i][j] <= arrived BY <3>1, <3>3 DEF ArrivedInv
    <3>5. rx'[i][j] <= arrived BY <3>2, <3>4
    <3>6. rx'[i][j] \in Nat BY <3>2, <3>3
    <3>7. \A a, b, c \in Nat : a <= b => a <= b + c OBVIOUS
    <3> QED BY <2>1, <2>3, <3>5, <3>6, <3>7
  <2> QED BY <2>6, <2>7
<1>3. CASE Open
  <2>1. rx' = <<>> BY <1>a, <1>3 DEF Open, QuietInv, FreshInv, chain
  <2> QED BY <2>1 DEF ArrivedInv
<1>4. CASE Close \/ Release \/ New
  <2>1. rx' = <<>> BY <1>4 DEF Close, Release, New
  <2> QED BY <2>1 DEF ArrivedInv
<1>5. ASSUME rx' = rx, arrived' = arrived PROVE ArrivedInv' BY <1>5 DEF ArrivedInv
<1>6. CASE Connect \/ Resolve \/ DnsWake \/ DnsTimeout \/ Opened
           \/ ConnectWake \/ ConnectTimeout \/ ConnectCheck
  BY <1>5, <1>6 DEF Connect, Resolve, DnsWake, DnsTimeout, Opened, ConnectWake,
     ConnectTimeout, ConnectCheck, chain, wire
<1>7. CASE (\E n \in 1..MaxWant : Send(n) \/ Recv(n)) \/ SendPass \/ SendCheck
           \/ Drain \/ DrainDone \/ RecvCheck \/ RecvWake \/ RecvTimeout
  BY <1>5, <1>7 DEF Send, Recv, SendPass, SendCheck, Drain, DrainDone, RecvCheck,
     RecvWake, RecvTimeout, chain, wire
<1>8. CASE CallbackEnds \/ DnsAnswer
           \/ \E p \in Pcb : Connected(p) \/ RecvEnds(p) \/ Err(p)
  BY <1>5, <1>8 DEF CallbackEnds, DnsAnswer, Connected, RecvEnds, Err, chain, wire
<1>9. CASE UNCHANGED vars BY <1>5, <1>9 DEF vars, chain, wire
<1> QED
  BY <1>1, <1>2, <1>3, <1>4, <1>6, <1>7, <1>8, <1>9
     DEF Next, OwnerStep, OwnerCall, Stack

(* Where the owner is, as ByteStream sees it.                              *)
LEMMA CallsAre ==
  /\ pc \in {"idle", "freed"} => Calls = "none" /\ Left = 0
  /\ pc \in ConnectPcs => Calls = "connect" /\ Left = 0
  /\ pc = "send" => Calls = "send" /\ Left = want
  /\ pc = "scheck" => Calls = "send" /\ Left = want - got
  /\ pc \in RecvPcs => Calls = "recv" /\ Left = want - got
BY DEF Calls, Left, ConnectPcs, SendPcs, RecvPcs

LEMMA CallsBecome ==
  /\ pc' \in {"idle", "freed"} => Calls' = "none" /\ Left' = 0
  /\ pc' \in ConnectPcs => Calls' = "connect" /\ Left' = 0
  /\ pc' = "send" => Calls' = "send" /\ Left' = want'
  /\ pc' = "scheck" => Calls' = "send" /\ Left' = want' - got'
  /\ pc' \in RecvPcs => Calls' = "recv" /\ Left' = want' - got'
BY DEF Calls, Left, ConnectPcs, SendPcs, RecvPcs

LEMMA SameLink ==
  ASSUME UNCHANGED <<state, pcb, life>>, pc # "freed", pc' # "freed"
  PROVE  Link' = Link
BY DEF Link

LEMMA SameCall ==
  ASSUME UNCHANGED <<pc, call>>
  PROVE  Calls' = Calls /\ Left' = Left /\ ok' = ok
BY DEF Calls, Left, call

(* connect *)
LEMMA ConnectMaps ==
  ASSUME IInv, StreamInv, RefInv, Reuse = FALSE,
         Connect \/ Resolve \/ DnsWake \/ DnsTimeout
  PROVE  Stream!Next \/ UNCHANGED Stream!vars
<1>a. QuietInv /\ FreshInv BY DEF IInv, ControlInv, StreamInv
<1>b. pc # "freed" /\ pc' # "freed"
  BY DEF Connect, Resolve, DnsWake, DnsTimeout
<1>1. UNCHANGED <<state, pcb, life, wire>> /\ Link' = Link
  BY <1>b, SameLink DEF Connect, Resolve, DnsWake, DnsTimeout, lwip
<1>2. Link = "down"
  BY <1>a, <1>b DEF Connect, Resolve, DnsWake, DnsTimeout, QuietInv, FreshInv, Link
<1>3. CASE Connect
  <2>1. Calls = "none" /\ Left = 0 /\ Calls' = "connect" /\ Left' = 0 /\ ok' = FALSE
    BY <1>3, CallsAre, CallsBecome DEF Connect, ConnectPcs
  <2> QED BY <1>1, <1>2, <2>1 DEF Stream!Next, Stream!Connect, Stream!Begins, Stream!bytes, wire
<1>4. CASE Resolve \/ DnsWake \/ DnsTimeout
  <2>1. Calls = "connect" /\ Left = 0 /\ ok' = ok
    BY <1>4, CallsAre DEF Resolve, DnsWake, DnsTimeout, ConnectPcs, call
  <2>2. CASE pc' = "idle"
    <3>1. Calls' = "none" /\ Left' = 0 BY <2>2, CallsBecome
    <3>2. Stream!ConnectFails
      BY <1>1, <1>2, <2>1, <3>1 DEF Stream!ConnectFails, Stream!Returns, Stream!bytes, wire
    <3> QED BY <3>2 DEF Stream!Next
  <2>3. CASE pc' # "idle"
    <3>1. pc' \in {"open", "dnswait"} BY <1>4, <2>3 DEF Resolve, DnsWake, DnsTimeout
    <3>2. Calls' = "connect" /\ Left' = 0 BY <3>1, CallsBecome DEF ConnectPcs
    <3> QED BY <1>1, <2>1, <3>2 DEF Stream!vars, wire
  <2> QED BY <2>2, <2>3
<1> QED BY <1>3, <1>4

LEMMA OpenMaps ==
  ASSUME IInv, StreamInv, RefInv, Open
  PROVE  Stream!Next
<1>1. Link = "down" /\ Calls = "connect" /\ Left = 0
  <2>1. pcb = NULL /\ state \in {"idle", "closed"} /\ pc = "open"
    BY DEF Open, IInv, ControlInv, QuietInv, StreamInv, FreshInv
  <2> QED BY <2>1, CallsAre DEF Link, ConnectPcs
<1>2. arrived' = 0 /\ out' = <<>> /\ ok' = ok BY DEF Open, call
<1>3. ASSUME NEW p \in Pcb, pcb' = p, life' = [life EXCEPT ![p] = "syn"],
             state' = "connecting", pc' \in {"opened", "close"}
      PROVE  Stream!Dial
  <2>1. life'[pcb'] = "syn" /\ pcb' # NULL
    BY <1>3, PcbAssumption DEF IInv, TypeOK, LwipTypes
  <2>2. Link' = "dialing" BY <1>3, <2>1 DEF Link
  <2>3. Calls' = "connect" /\ Left' = 0 BY <1>3, CallsBecome DEF ConnectPcs
  <2> QED BY <1>1, <1>2, <2>2, <2>3 DEF Stream!Dial
<1>4. ASSUME pcb' = NULL, state' = "error", pc' = "idle" PROVE Stream!Dial
  <2>1. Link' = "broken" BY <1>4 DEF Link
  <2>2. Calls' = "none" /\ Left' = 0 BY <1>4, CallsBecome
  <2> QED BY <1>1, <1>2, <2>1, <2>2 DEF Stream!Dial, Stream!Returns
<1> QED BY <1>3, <1>4 DEF Open, Stream!Next

LEMMA DialMaps ==
  ASSUME IInv, RefInv, Opened \/ ConnectWake \/ ConnectTimeout \/ ConnectCheck
  PROVE  Stream!Next \/ UNCHANGED Stream!vars
<1>a. Calls = "connect" /\ Left = 0 /\ UNCHANGED wire
  BY CallsAre DEF Opened, ConnectWake, ConnectTimeout, ConnectCheck, ConnectPcs
<1>1. CASE Opened /\ pcb = NULL
  <2>1. state = "error" /\ state' = "error" /\ pc' = "idle" /\ pcb' = NULL /\ ok' = ok
    BY <1>1 DEF Opened, RefInv, DialInv, call
  <2>2. Link = "broken" /\ Link' = "broken" BY <1>1, <2>1 DEF Link, Opened
  <2>3. Calls' = "none" /\ Left' = 0 BY <2>1, CallsBecome
  <2> QED
    BY <1>a, <2>1, <2>2, <2>3
       DEF Stream!Next, Stream!ConnectFails, Stream!Returns, Stream!bytes, wire
<1>2. ASSUME UNCHANGED <<state, pcb, life, ok>>, pc # "freed",
             pc' \in {"cwait", "ccheck", "close"}
      PROVE  UNCHANGED Stream!vars
  <2>1. Calls' = "connect" /\ Left' = 0 BY <1>2, CallsBecome DEF ConnectPcs
  <2>2. Link' = Link BY <1>2, SameLink
  <2> QED BY <1>a, <1>2, <2>1, <2>2 DEF Stream!vars, wire
<1>3. CASE Opened /\ pcb # NULL BY <1>2, <1>3 DEF Opened, lwip, call
<1>4. CASE ConnectWake \/ ConnectTimeout
  BY <1>2, <1>4 DEF ConnectWake, ConnectTimeout, lwip, call
<1>5. CASE ConnectCheck /\ state = "connected"
  <2>1. pc' = "idle" /\ ok' = TRUE /\ state' = state /\ pc = "ccheck"
    BY <1>5 DEF ConnectCheck, ConnectEnds
  <2>2. Link = "linked" /\ Link' = "linked" BY <1>5, <2>1 DEF Link
  <2>3. Calls' = "none" /\ Left' = 0 BY <2>1, CallsBecome
  <2> QED
    BY <1>a, <2>1, <2>2, <2>3
       DEF Stream!Next, Stream!ConnectOk, Stream!Returns, Stream!bytes, wire
<1>6. CASE ConnectCheck /\ state # "connected"
  <2>1. pc = "ccheck" /\ pc' = "close" /\ UNCHANGED <<state, pcb, life>> /\ ~ok'
    BY <1>6 DEF ConnectCheck, ConnectEnds, lwip
  <2>2. ok = FALSE /\ ok' = FALSE
    BY <1>6, <2>1 DEF ConnectCheck, RefInv, OkInv, IInv, TypeOK, OwnerTypes
  <2> QED BY <1>2, <2>1, <2>2
<1> QED BY <1>1, <1>3, <1>4, <1>5, <1>6

(* A close by connect, by the caller, and the one in free; new.            *)
LEMMA CloseMaps ==
  ASSUME IInv, RefInv, Close \/ Release \/ New
  PROVE  Stream!Next
<1>1. CASE Close
  <2>1. Link' = "down" /\ Calls' = "none" /\ Left' = 0
    BY <1>1, CallsBecome DEF Close, Link
  <2>2. ok' = ok /\ UNCHANGED wire BY <1>1 DEF Close, call
  <2>3. CASE pc = "close"
    <3>1. Calls = "connect" /\ Left = 0 BY <2>3, CallsAre DEF ConnectPcs
    <3> QED
      BY <2>1, <2>2, <3>1
         DEF Stream!Next, Stream!ConnectFails, Stream!Returns, Stream!bytes, wire
  <2>4. CASE pc = "idle"
    <3>1. Calls = "none" /\ Left = 0 /\ Link # "freed" BY <2>4, CallsAre DEF Link
    <3> QED BY <2>1, <2>2, <3>1 DEF Stream!Next, Stream!Close, Stream!bytes, wire
  <2> QED BY <1>1, <2>3, <2>4 DEF Close
<1>2. CASE Release
  <2>1. Link' = "freed" /\ Calls' = "none" /\ Left' = 0
    BY <1>2, CallsBecome DEF Release, Link
  <2>2. Calls = "none" /\ Left = 0 /\ Link # "freed"
    BY <1>2, CallsAre DEF Release, Link
  <2>3. ok' = ok /\ UNCHANGED wire BY <1>2 DEF Release, call
  <2> QED BY <2>1, <2>2, <2>3 DEF Stream!Next, Stream!Close, Stream!bytes, wire
<1>3. CASE New
  <2>1. Link' = "down" /\ Calls' = "none" /\ Left' = 0
    BY <1>3, CallsBecome DEF New, Link
  <2>2. Calls = "none" /\ Left = 0 /\ Link = "freed"
    BY <1>3, CallsAre DEF New, Link
  <2>3. ok' = ok /\ UNCHANGED wire BY <1>3 DEF New, call
  <2> QED BY <2>1, <2>2, <2>3 DEF Stream!Next, Stream!New, Stream!bytes, wire
<1> QED BY <1>1, <1>2, <1>3

(* send *)
LEMMA SendMaps ==
  ASSUME IInv, RefInv, NEW n \in 1..MaxWant, Send(n)
  PROVE  Stream!Next
<1>1. Link = "linked" /\ Link' = "linked" BY DEF Send, Link
<1>2. Calls = "none" /\ Left = 0 BY CallsAre DEF Send
<1>3. Calls' = "send" /\ Left' = n BY CallsBecome DEF Send
<1>4. Stream!Send(n)
  BY <1>1, <1>2, <1>3 DEF Send, Stream!Send, Stream!Begins, Stream!bytes, wire
<1> QED BY <1>4 DEF Stream!Next

(* While send runs its connection is there or broken: no close comes in    *)
(* between.                                                                *)
LEMMA SendLink ==
  ASSUME IInv, RefInv, pc \in SendPcs
  PROVE  Link \in {"linked", "broken"}
BY DEF IInv, RefInv, DialInv, TypeOK, StructTypes, LwipTypes, SendPcs, Link

LEMMA SendPassMaps ==
  ASSUME IInv, RefInv, SendPass
  PROVE  Stream!Next
<1>1. Link \in {"linked", "broken"} BY SendLink DEF SendPass, SendPcs
<1>2. Link' = Link BY SameLink DEF SendPass, lwip
<1>3. Calls = "send" /\ Left = want BY CallsAre DEF SendPass
<1>4. Calls' = "send" /\ Left' = want' - got' BY CallsBecome DEF SendPass
<1>5. want \in Nat BY BoundAssumption DEF IInv, TypeOK, OwnerTypes
<1>6. got' \in 0..want /\ want' = want BY <1>5 DEF SendPass
<1>7. Left' \in 0..Left
  <2>0. got' \in Nat /\ got' <= want BY <1>5, <1>6
  <2>3. \A a, b \in Nat : b <= a => a - b \in 0..a OBVIOUS
  <2>1. want - got' \in 0..want BY <1>5, <2>0, <2>3
  <2>2. Left' = want - got' BY <1>4, <1>6
  <2> QED BY <1>3, <2>1, <2>2
<1>8. ok' = ok /\ UNCHANGED wire BY DEF SendPass
<1> QED
  BY <1>1, <1>2, <1>3, <1>4, <1>7, <1>8 DEF Stream!Next, Stream!Queue, Stream!bytes, wire

LEMMA SendCheckMaps ==
  ASSUME IInv, RefInv, SendCheck
  PROVE  Stream!Next \/ UNCHANGED Stream!vars
<1>1. pc = "scheck" /\ UNCHANGED <<state, pcb, life, wire>> /\ got' = got
  BY DEF SendCheck, lwip
<1>2. Calls = "send" /\ Left = want - got BY <1>1, CallsAre
<1>3. want \in Nat /\ got \in Nat
  BY BoundAssumption DEF IInv, TypeOK, OwnerTypes
<1>4. CASE Queued /\ got = want /\ pc' = "idle" /\ ok' = TRUE
  <2>1. Link = "linked" /\ Link' = "linked" BY <1>1, <1>4 DEF Queued, Link
  <2>2. Calls' = "none" /\ Left' = 0 BY <1>4, CallsBecome
  <2>3. Left = 0 BY <1>2, <1>3, <1>4
  <2> QED
    BY <1>1, <1>2, <1>4, <2>1, <2>2, <2>3
       DEF Stream!Next, Stream!SendOk, Stream!Returns, Stream!bytes, wire
<1>5. CASE /\ pc' = "send" /\ ok' = ok
           /\ (want' = want - got) \/ (got = 0 /\ want' = want)
  <2>1. Link' = Link BY <1>1, <1>5, SameLink
  <2>2. Calls' = "send" /\ Left' = want' BY <1>5, CallsBecome
  <2>3. Left' = Left BY <1>2, <1>3, <1>5, <2>2
  <2> QED BY <1>1, <1>2, <1>5, <2>1, <2>2, <2>3 DEF Stream!vars, wire
<1>6. CASE GiveUp
  <2>1. pc' = "idle" /\ ok' = ok BY <1>6 DEF GiveUp
  <2>2. Link' = Link BY <1>1, <2>1, SameLink
  <2>3. Calls' = "none" /\ Left' = 0 BY <2>1, CallsBecome
  <2> QED
    BY <1>1, <1>2, <2>1, <2>2, <2>3
       DEF Stream!Next, Stream!SendFails, Stream!Returns, Stream!bytes, wire
<1> QED BY <1>4, <1>5, <1>6 DEF SendCheck

(* recv_exact *)
LEMMA RecvMaps ==
  ASSUME IInv, RefInv, NEW n \in 1..MaxWant, Recv(n)
  PROVE  Stream!Next
<1>1. Link' = Link /\ Link # "freed" BY SameLink DEF Recv, Link, lwip
<1>2. Calls = "none" /\ Left = 0 BY CallsAre DEF Recv
<1>3. Calls' = "recv" /\ Left' = want' - got' BY CallsBecome DEF Recv, RecvPcs
<1>4. Left' = n BY <1>3, BoundAssumption DEF Recv
<1>5. Stream!Recv(n)
  BY <1>1, <1>2, <1>3, <1>4 DEF Recv, Stream!Recv, Stream!Begins, Stream!bytes, wire
<1> QED BY <1>5 DEF Stream!Next

LEMMA RecvWaitMaps ==
  ASSUME IInv, RefInv, Drain \/ DrainDone \/ RecvCheck \/ RecvWake \/ RecvTimeout
  PROVE  Stream!Next \/ UNCHANGED Stream!vars
<1>1. /\ pc \in RecvPcs /\ pc' \in RecvPcs \cup {"idle"}
      /\ UNCHANGED <<state, pcb, life, arrived, out, want, got>>
  BY DEF Drain, DrainDone, RecvCheck, RecvCheckState, RecvWake, RecvTimeout, RecvPcs,
     lwip, wire, call
<1>2. Calls = "recv" /\ Left = want - got BY <1>1, CallsAre
<1>3. Link' = Link
  <2>1. pc # "freed" /\ pc' # "freed" BY <1>1 DEF RecvPcs
  <2> QED BY <1>1, <2>1, SameLink
<1>4. want \in Nat /\ got \in Nat /\ got <= want
  BY <1>1, BoundAssumption DEF IInv, TypeOK, OwnerTypes, RefInv, WantInv
<1>5. CASE pc' \in RecvPcs
  <2>1. Calls' = "recv" /\ Left' = want' - got' BY <1>5, CallsBecome
  <2>2. ok' = ok
    <3>1. CASE DrainDone
      <4>1. (got >= want) = FALSE BY <1>5, <3>1 DEF DrainDone, RecvPcs
      <4>2. ok' = (got >= want) BY <3>1 DEF DrainDone
      <4>4. ok' = FALSE BY <4>1, <4>2
      <4>3. ok = FALSE
        BY <3>1 DEF DrainDone, RefInv, OkInv, IInv, TypeOK, OwnerTypes
      <4> QED BY <4>3, <4>4
    <3>2. CASE Drain \/ RecvCheck \/ RecvWake \/ RecvTimeout
      BY <3>2 DEF Drain, RecvCheck, RecvWake, RecvTimeout, call
    <3> QED BY <3>1, <3>2
  <2> QED BY <1>1, <1>2, <1>3, <2>1, <2>2 DEF Stream!vars
<1>6. CASE pc' = "idle"
  <2>1. Calls' = "none" /\ Left' = 0 BY <1>6, CallsBecome
  <2>2. CASE DrainDone
    <3>1. got >= want /\ ok' = TRUE BY <1>6, <2>2 DEF DrainDone
    <3>2. Left = 0 BY <1>2, <1>4, <3>1
    <3> QED
      BY <1>1, <1>2, <1>3, <2>1, <3>1, <3>2
         DEF Stream!Next, Stream!RecvOk, Stream!Returns, Stream!bytes
  <2>3. CASE RecvCheck \/ RecvTimeout
    <3>1. got < want /\ ok' = ok
      BY <2>3 DEF RecvCheck, RecvTimeout, RefInv, WantInv, call
    <3>2. Left > 0 BY <1>2, <1>4, <3>1
    <3> QED
      BY <1>1, <1>2, <1>3, <2>1, <3>1, <3>2
         DEF Stream!Next, Stream!RecvFails, Stream!Returns, Stream!bytes
  <2> QED BY <1>6, <2>2, <2>3 DEF Drain, RecvWake
<1> QED BY <1>1, <1>5, <1>6

(* The copy takes the bytes that are next: out has them in order already   *)
(* and keeps them so, and what it takes has arrived.                       *)
LEMMA CopyMaps ==
  ASSUME IInv, StreamInv, RefInv, StreamInv', Copy
  PROVE  Stream!Next
<1> DEFINE h == Head(rx)
           k == Len(out)
<1>a. rx # <<>> /\ got < want /\ pc = "copy" /\ pc' = "copy"
  BY DEF Copy
<1>b. /\ TypeOK /\ TypeOK' /\ got \in Nat /\ want \in Nat /\ offset \in Nat
      /\ k \in Nat /\ out \in Seq(Nat)
  BY CopyType, BoundAssumption DEF IInv, TypeOK, OwnerTypes, ChainTypes, WireTypes
<1>1. /\ Chunk \in Nat \ {0} /\ Chunk <= want - got /\ h \in Seq(Nat) /\ h = rx[1]
      /\ offset + Chunk <= Len(h) /\ Len(rx) \in Nat \ {0}
      /\ SubSeq(h, offset + 1, offset + Chunk) \in Seq(Nat)
  BY <1>a, <1>b, ChunkType
<1>2. k + Chunk <= arrived
  <2>1. 1 \in 1..Len(rx) /\ offset + Chunk \in 1..Len(h) /\ offset + 1 \in 1..Len(h)
    BY <1>b, <1>1
  <2>2. h[offset + 1] = k + 1 BY <1>a DEF StreamInv, StreamIntact
  <2>0. \A j \in 1..Len(h) : h[j] = h[1] + j - 1
    <3>1. \A j \in 1..Len(rx[1]) : rx[1][j] = rx[1][1] + j - 1
      BY <2>1 DEF StreamInv, PbufInv
    <3>2. h = rx[1] BY <1>1
    <3> HIDE DEF h
    <3> QED BY <3>1, <3>2, Zenon
  <2>3. /\ h[offset + 1] = h[1] + (offset + 1) - 1
        /\ h[offset + Chunk] = h[1] + (offset + Chunk) - 1
    BY <2>0, <2>1, Zenon
  <2>4. h[offset + Chunk] <= arrived BY <1>1, <2>1 DEF RefInv, ArrivedInv
  <2>5. h[1] \in Nat
    <3>1. 1 \in 1..Len(h) BY <1>b, <1>1
    <3> QED BY <1>1, <3>1
  <2>6. h[offset + Chunk] = k + Chunk
    <3>1. k \in Nat /\ offset \in Nat /\ Chunk \in Nat BY <1>b, <1>1
    <3> HIDE DEF h, k
    <3>2. h[1] + (offset + 1) - 1 = k + 1 BY <2>2, <2>3
    <3>3. k = h[1] + offset - 1 BY <2>5, <3>1, <3>2
    <3> QED BY <2>3, <2>5, <3>1, <3>3
  <2> QED BY <2>4, <2>6
<1>3. out' = [i \in 1..(k + Chunk) |-> i]
  <2>1. out' = out \o SubSeq(h, offset + 1, offset + Chunk) BY DEF Copy, CopyHead
  <2>2. Len(SubSeq(h, offset + 1, offset + Chunk)) = Chunk BY <1>b, <1>1
  <2>3. Len(out') = k + Chunk BY <1>b, <1>1, <2>1, <2>2
  <2>4. out' \in Seq(Nat) BY <1>b DEF TypeOK, WireTypes
  <2>5. \A i \in 1..Len(out') : out'[i] = i BY DEF StreamInv, StreamIntact
  <2>6. out' = [i \in 1..Len(out') |-> out'[i]] BY <2>4
  <2> QED BY <2>3, <2>5, <2>6
<1>4. Link \in {"linked", "broken"}
  BY <1>a DEF IInv, TypeOK, StructTypes, LwipTypes, RefInv, DialInv, StreamInv, FreshInv, Link
<1>5. Link' = Link BY <1>a, SameLink DEF Copy, lwip
<1>6. /\ Calls = "recv" /\ Calls' = "recv"
      /\ Left = want - got /\ Left' = want - (got + Chunk)
  <2>1. want' = want /\ got' = got + Chunk BY DEF Copy, CopyHead
  <2> QED BY <1>a, <2>1, CallsAre, CallsBecome DEF RecvPcs
<1> HIDE DEF k, h
<1>7. Left' \in 0..Left /\ Left - Left' = Chunk BY <1>b, <1>1, <1>6
<1>8. ok' = ok /\ arrived' = arrived BY DEF Copy
<1>9. Stream!Take
  BY <1>2, <1>3, <1>4, <1>5, <1>6, <1>7, <1>8 DEF Stream!Take, k
<1> QED BY <1>9 DEF Stream!Next

(* lwIP's callbacks                                                        *)
LEMMA CallbackMaps ==
  ASSUME IInv, RefInv, CallbackEnds \/ DnsAnswer \/ UNCHANGED vars
  PROVE  UNCHANGED Stream!vars
<1>1. UNCHANGED <<state, pcb, life, pc, call, wire>>
  BY DEF CallbackEnds, DnsAnswer, vars, lwip
<1>2. Link' = Link BY <1>1 DEF Link
<1>3. Calls' = Calls /\ Left' = Left /\ ok' = ok BY <1>1, SameCall
<1> QED BY <1>1, <1>2, <1>3 DEF Stream!vars, wire

(* A pcb that lwIP calls back for is t->pcb, and the struct is not freed.  *)
LEMMA CalledBack ==
  ASSUME IInv, NEW p \in Pcb, p \in attached
  PROVE  p = pcb /\ pcb # NULL /\ pc # "freed"
<1>1. PcbExact /\ QuietInv BY DEF IInv, ControlInv
<1>2. pcb = p /\ pcb # NULL BY <1>1, PcbAssumption DEF PcbExact
<1> QED BY <1>1, <1>2 DEF QuietInv

LEMMA ConnectedMaps ==
  ASSUME IInv, RefInv, NEW p \in Pcb, Connected(p)
  PROVE  Stream!Next \/ UNCHANGED Stream!vars
<1>1. p = pcb /\ pcb # NULL /\ pc # "freed" BY CalledBack DEF Connected
<1>2. life[pcb] = "syn" /\ state = "connecting"
  BY <1>1 DEF Connected, IInv, ControlInv, HandshakeInv
<1>3. Link = "dialing" BY <1>1, <1>2 DEF Link
<1>4. /\ pcb' = pcb /\ pc' = pc /\ state' \in {"connected", "error"} /\ UNCHANGED wire
      /\ life' = [life EXCEPT ![p] = "up"]
  BY DEF Connected, Callback
<1>5. life'[pcb'] = "up" BY <1>1, <1>4 DEF IInv, TypeOK, LwipTypes
<1>6. Calls' = Calls /\ Left' = Left /\ ok' = ok BY SameCall DEF Connected
<1>7. CASE state' = "connected"
  <2>1. Link' = "linked" BY <1>1, <1>4, <1>7 DEF Link
  <2>2. Stream!Established
    BY <1>3, <1>4, <1>6, <2>1 DEF Stream!Established, Stream!bytes, wire
  <2> QED BY <2>2 DEF Stream!Next
<1>8. CASE state' = "error"
  <2>1. Link' = "dialing" BY <1>1, <1>4, <1>5, <1>8 DEF Link
  <2> QED BY <1>3, <1>4, <1>6, <2>1 DEF Stream!vars, wire
<1> QED BY <1>4, <1>7, <1>8

LEMMA RecvEndsMaps ==
  ASSUME IInv, RefInv, NEW p \in Pcb, RecvEnds(p)
  PROVE  Stream!Next
<1>1. p = pcb /\ pcb # NULL /\ pc # "freed" BY CalledBack DEF RecvEnds
<1>2. life[pcb] = "up" BY <1>1 DEF RecvEnds
<1>3. Link \in {"dialing", "linked"} BY <1>1, <1>2 DEF Link
<1>4. /\ pcb' = pcb /\ pc' = pc /\ state' \in {"closed", "error"} /\ UNCHANGED wire
      /\ life' = [life EXCEPT ![p] = "fin"]
  BY DEF RecvEnds, Callback
<1>5. life'[pcb'] = "fin" BY <1>1, <1>4 DEF IInv, TypeOK, LwipTypes
<1>6. Calls' = Calls /\ Left' = Left /\ ok' = ok BY SameCall DEF RecvEnds
<1>7. Link' = "broken" BY <1>1, <1>4, <1>5 DEF Link
<1>8. Stream!Breaks BY <1>3, <1>4, <1>6, <1>7 DEF Stream!Breaks, Stream!bytes, wire
<1> QED BY <1>8 DEF Stream!Next

LEMMA ErrMaps ==
  ASSUME IInv, RefInv, NEW p \in Pcb, Err(p)
  PROVE  Stream!Next \/ UNCHANGED Stream!vars
<1>1. p = pcb /\ pcb # NULL /\ pc # "freed" BY CalledBack DEF Err
<1>2. pcb' = NULL /\ pc' = pc /\ state' = "error" /\ UNCHANGED wire
  BY DEF Err, ErrPcb, Callback
<1>3. Link' = "broken" BY <1>1, <1>2 DEF Link
<1>4. Calls' = Calls /\ Left' = Left /\ ok' = ok BY SameCall DEF Err
<1>5. Link \in {"dialing", "linked", "broken"} BY <1>1 DEF Link
<1>6. CASE Link = "broken" BY <1>2, <1>3, <1>4, <1>6 DEF Stream!vars, wire
<1>7. CASE Link \in {"dialing", "linked"}
  <2>1. Stream!Breaks BY <1>2, <1>3, <1>4, <1>7 DEF Stream!Breaks, Stream!bytes, wire
  <2> QED BY <2>1 DEF Stream!Next
<1> QED BY <1>5, <1>6, <1>7

LEMMA DataMaps ==
  ASSUME IInv, RefInv, NEW p \in Pcb, NEW n \in 1..Window, Data(p, n)
  PROVE  Stream!Next
<1>1. p = pcb /\ pcb # NULL /\ pc # "freed" BY CalledBack DEF Data
<1>2. life[pcb] = "up" BY <1>1 DEF Data
<1>3. Link \in {"dialing", "linked"} BY <1>1, <1>2 DEF Link
<1>4. UNCHANGED <<pcb, pc, call, life, state, out>> /\ arrived' = arrived + n
  BY DEF Data, Callback
<1>5. Link' = Link BY <1>4 DEF Link
<1>6. Calls' = Calls /\ Left' = Left /\ ok' = ok BY <1>4, SameCall
<1>7. arrived' \in Nat /\ arrived' > arrived
  BY <1>4, BoundAssumption DEF IInv, TypeOK, WireTypes
<1>8. Stream!Arrive BY <1>3, <1>4, <1>5, <1>6, <1>7 DEF Stream!Arrive
<1> QED BY <1>8 DEF Stream!Next

----------------------------------------------------------------------------
LEMMA StreamMaps ==
  ASSUME IInv, StreamInv, RefInv, StreamInv', Reuse = FALSE, [Next]_vars
  PROVE  [Stream!Next]_(Stream!vars)
<1>1. CASE Connect \/ Resolve \/ DnsWake \/ DnsTimeout BY <1>1, ConnectMaps
<1>2. CASE Open BY <1>2, OpenMaps
<1>3. CASE Opened \/ ConnectWake \/ ConnectTimeout \/ ConnectCheck BY <1>3, DialMaps
<1>4. CASE Close \/ Release \/ New BY <1>4, CloseMaps
<1>5. ASSUME NEW n \in 1..MaxWant, Send(n) PROVE Stream!Next BY <1>5, SendMaps
<1>6. CASE SendPass BY <1>6, SendPassMaps
<1>7. CASE SendCheck BY <1>7, SendCheckMaps
<1>8. ASSUME NEW n \in 1..MaxWant, Recv(n) PROVE Stream!Next BY <1>8, RecvMaps
<1>9. CASE Drain \/ DrainDone \/ RecvCheck \/ RecvWake \/ RecvTimeout
  BY <1>9, RecvWaitMaps
<1>10. CASE Copy BY <1>10, CopyMaps
<1>11. CASE CallbackEnds \/ DnsAnswer \/ UNCHANGED vars BY <1>11, CallbackMaps
<1>12. ASSUME NEW p \in Pcb, Connected(p) PROVE [Stream!Next]_(Stream!vars)
  BY <1>12, ConnectedMaps
<1>13. ASSUME NEW p \in Pcb, RecvEnds(p) PROVE Stream!Next BY <1>13, RecvEndsMaps
<1>14. ASSUME NEW p \in Pcb, Err(p) PROVE [Stream!Next]_(Stream!vars) BY <1>14, ErrMaps
<1>15. ASSUME NEW p \in Pcb, NEW n \in 1..Window, Data(p, n) PROVE Stream!Next
  BY <1>15, DataMaps
<1> QED
  BY <1>1, <1>2, <1>3, <1>4, <1>5, <1>6, <1>7, <1>8, <1>9, <1>10, <1>11, <1>12,
     <1>13, <1>14, <1>15 DEF Next, OwnerStep, OwnerCall, Stack

LEMMA StreamStarts == ASSUME Init PROVE Stream!Init /\ RefInv
<1>1. Link = "down" BY DEF Init, Link
<1>2. Calls = "none" /\ Left = 0 BY CallsAre DEF Init
<1>3. Stream!Init BY <1>1, <1>2 DEF Init, Stream!Init
<1>4. DialInv /\ WantInv /\ OkInv BY DEF Init, DialInv, WantInv, OkInv, RecvPcs
<1>5. ArrivedInv BY DEF Init, ArrivedInv
<1> QED BY <1>3, <1>4, <1>5 DEF RefInv

(* Whatever lwIP does and whenever it calls back, the transport's callers  *)
(* see a blocking byte stream: connect succeeds only on an established     *)
(* connection, and reads hand out the bytes of this connection only, once  *)
(* each, in order and all that were asked for.                             *)
THEOREM ImplementsStream == ASSUME Reuse = FALSE PROVE Spec => StreamSpec
<1>1. Init => Stream!Init /\ RefInv BY StreamStarts
<1>2. IInv /\ StreamInv /\ RefInv /\ [Next]_vars => RefInv'
  <2> SUFFICES ASSUME IInv, StreamInv, RefInv, [Next]_vars PROVE RefInv'
    OBVIOUS
  <2>1. DialInv' BY DialStep DEF RefInv
  <2>2. WantInv' BY WantStep DEF RefInv, IInv
  <2>3. ArrivedInv' BY ArrivedStep DEF RefInv
  <2>4. OkInv' BY OkStep DEF RefInv, IInv
  <2> QED BY <2>1, <2>2, <2>3, <2>4 DEF RefInv
<1>3. IInv /\ StreamInv /\ RefInv /\ StreamInv' /\ [Next]_vars => [Stream!Next]_(Stream!vars)
  BY StreamMaps
<1> QED BY <1>1, <1>2, <1>3, Invariance, PTL DEF Spec, StreamSpec, Stream!Spec
=============================================================================
