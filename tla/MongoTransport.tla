--------------------------- MODULE MongoTransport ---------------------------
(***************************************************************************)
(* mongo_transport.c: one transport, its owner task and lwIP's tcpip       *)
(* thread.                                                                 *)
(*                                                                         *)
(* The owner calls connect, send, recv_exact, close and free, one at a     *)
(* time (the client's mutex sees to that).  lwIP calls back cb_connected,  *)
(* cb_recv, cb_err and cb_dns on its own thread, with the lwIP lock held.  *)
(* The two share the struct: the owner takes the lwIP lock around the pcb  *)
(* and the rx chain, but reads t->state and t->pcb outside it, and sleeps  *)
(* on two binary semaphores.                                               *)
(*                                                                         *)
(* A callback is two steps, its writes and its xSemaphoreGive: between     *)
(* them the owner, which may run on the other core, can read the state.    *)
(* The bytes of a connection are numbered as the peer sends them.  lwIP's  *)
(* pcb pool is Pcb, so addresses are handed out again.                     *)
(***************************************************************************)
EXTENDS Naturals, Sequences

CONSTANTS Pcb,        \* lwIP's pool of altcp_pcb structs
          NULL,
          Window,     \* TCP_WND: bytes the peer may have outstanding
          MaxBytes,   \* bytes a peer sends on one connection (a bound)
          MaxWant,    \* the longest read (a bound)
          Reuse       \* whether connect may be called on a transport whose
                      \* last connection ended without mongo_transport_close

ASSUME PcbAssumption == NULL \notin Pcb
ASSUME BoundAssumption == /\ Window \in Nat \ {0} /\ MaxBytes \in Nat
                          /\ MaxWant \in Nat \ {0} /\ Reuse \in BOOLEAN

VARIABLES
  state,       \* t->state
  pcb,         \* t->pcb
  connectSem, recvSem,   \* the binary semaphores: given or not
  rx, offset,  \* t->rx_head as a sequence of pbufs, t->rx_offset
  pc,          \* where the owner is
  want, got,   \* recv_exact's argument and progress; send's bytes left and
               \* what lwIP took of them in this pass
  ok,          \* the last call has returned MONGO_TRANSPORT_OK
  dnsSem,      \* resolve_host's private semaphore: none | given | waiting
  query,       \* lwIP's outstanding DNS request for the frame on the stack
  orphan,      \* an outstanding request whose frame is gone
  stray,       \* cb_dns ran on a frame that is gone
  attached,    \* pcbs whose callbacks carry this transport
  life,        \* lwIP's side of each pcb: none | syn | up | fin
  lock,        \* the lwIP lock: free | owner | stack
  giving,      \* semaphores the running callback has yet to give
  arrived,     \* bytes the peer has sent on the connection
  credited,    \* bytes given back to its window by altcp_recved
  out          \* the bytes recv_exact has handed to its callers

sems == <<connectSem, recvSem>>
chain == <<rx, offset>>
call == <<want, got, ok>>
dns == <<dnsSem, query, orphan, stray>>
lwip == <<attached, life, lock, giving>>
wire == <<arrived, credited, out>>
vars == <<state, pcb, sems, chain, pc, call, dns, lwip, wire>>

States == {"idle", "connecting", "connected", "closed", "error"}
ConnectPcs == {"resolve", "dnswait", "open", "opened", "cwait", "ccheck", "close"}
SendPcs == {"send", "scheck"}
RecvPcs == {"drain", "copy", "rcheck", "rwait"}
Pcs == {"idle", "freed"} \cup ConnectPcs \cup SendPcs \cup RecvPcs

Init ==
  /\ state = "idle" /\ pcb = NULL
  /\ connectSem = FALSE /\ recvSem = FALSE
  /\ rx = <<>> /\ offset = 0
  /\ pc = "idle" /\ want = 1 /\ got = 0 /\ ok = FALSE
  /\ dnsSem = FALSE /\ query = FALSE /\ orphan = FALSE /\ stray = FALSE
  /\ attached = {} /\ life = [p \in Pcb |-> "none"]
  /\ lock = "free" /\ giving = {}
  /\ arrived = 0 /\ credited = 0 /\ out = <<>>

----------------------------------------------------------------------------
(* The owner: mongo_transport_connect.                                     *)

(* Its state check, and the draining of stale semaphore counts. *)
Connect ==
  /\ pc = "idle" /\ state \in {"idle", "closed"} /\ (Reuse \/ pcb = NULL)
  /\ connectSem' = FALSE /\ recvSem' = FALSE
  /\ pc' = "resolve" /\ ok' = FALSE
  /\ UNCHANGED <<state, pcb, chain, want, got, dns, lwip, wire>>

(* resolve_host: a literal or cached address, a refusal, or a request to   *)
(* the resolver that carries the address of the local dns_ctx_t.           *)
Resolve ==
  /\ pc = "resolve" /\ lock = "free"
  /\ \/ pc' \in {"open", "idle"} /\ UNCHANGED query
     \/ pc' = "dnswait" /\ query' = TRUE
  /\ UNCHANGED <<state, pcb, sems, chain, call, dnsSem, orphan, stray, lwip, wire>>

(* xSemaphoreTake(ctx.sem) succeeds; ctx.ok says how the query ended. *)
DnsWake ==
  /\ pc = "dnswait" /\ dnsSem
  /\ dnsSem' = FALSE
  /\ pc' \in {"open", "idle"}
  /\ UNCHANGED <<state, pcb, sems, chain, call, query, orphan, stray, lwip, wire>>

(* It times out: the semaphore is deleted, the frame goes, and nobody      *)
(* tells the resolver.                                                     *)
DnsTimeout ==
  /\ pc = "dnswait" /\ ~dnsSem
  /\ query' = FALSE /\ orphan' = (query \/ orphan)
  /\ pc' = "idle"
  /\ UNCHANGED <<state, pcb, sems, chain, call, dnsSem, stray, lwip, wire>>

(* Under the lwIP lock: a pcb with this transport's callbacks, CONNECTING, *)
(* altcp_connect; without a pcb, ERROR.                                    *)
Open ==
  /\ pc = "open" /\ lock = "free"
  /\ \/ \E p \in Pcb :
          /\ p \notin attached /\ life[p] = "none"
          /\ pcb' = p /\ attached' = attached \cup {p}
          /\ life' = [life EXCEPT ![p] = "syn"]
          /\ state' = "connecting"
          /\ pc' \in {"opened", "close"}
     \/ pcb' = NULL /\ state' = "error" /\ pc' = "idle" /\ UNCHANGED <<attached, life>>
  /\ arrived' = 0 /\ credited' = 0 /\ out' = <<>>
  /\ UNCHANGED <<sems, chain, call, dns, lock, giving>>

(* The test of t->pcb after the lock is released: cb_err may have run. *)
Opened ==
  /\ pc = "opened"
  /\ IF pcb = NULL THEN state' = "error" /\ pc' = "idle"
                   ELSE pc' = "cwait" /\ UNCHANGED state
  /\ UNCHANGED <<pcb, sems, chain, call, dns, lwip, wire>>

ConnectWake ==
  /\ pc = "cwait" /\ connectSem
  /\ connectSem' = FALSE /\ pc' = "ccheck"
  /\ UNCHANGED <<state, pcb, recvSem, chain, call, dns, lwip, wire>>

ConnectTimeout ==
  /\ pc = "cwait" /\ ~connectSem
  /\ pc' = "close"
  /\ UNCHANGED <<state, pcb, sems, chain, call, dns, lwip, wire>>

ConnectEndsUnlessError ==  \* mutant: a peer that hangs up at once is taken for one that accepts
  pc' = IF state # "error" THEN "idle" ELSE "close"
ConnectEnds == pc' = IF state = "connected" THEN "idle" ELSE "close"

ConnectCheck ==
  /\ pc = "ccheck"
  /\ ConnectEnds
  /\ ok' = (pc' = "idle")
  /\ UNCHANGED <<state, pcb, sems, chain, want, got, dns, lwip, wire>>

(* mongo_transport_close, called by the owner or by a failing connect:     *)
(* callbacks off, pcb closed or aborted, rx chain freed.                   *)
DetachedForgetful == [live |-> attached,  \* mutant: the callbacks stay on
                      life |-> life]
Detached == [live |-> attached \ {pcb},
             life |-> [p \in Pcb |-> IF p = pcb THEN "none" ELSE life[p]]]

Close ==
  /\ pc \in {"idle", "close"} /\ lock = "free"
  /\ attached' = Detached.live /\ life' = Detached.life
  /\ pcb' = NULL /\ rx' = <<>> /\ offset' = 0 /\ state' = "closed"
  /\ pc' = "idle"
  /\ UNCHANGED <<sems, call, dns, lock, giving, wire>>

(* mongo_transport_free is a close, after which the semaphores and the     *)
(* struct are gone.                                                        *)
Release ==
  /\ pc = "idle" /\ lock = "free"
  /\ attached' = Detached.live /\ life' = Detached.life
  /\ pcb' = NULL /\ rx' = <<>> /\ offset' = 0 /\ state' = "closed"
  /\ pc' = "freed"
  /\ UNCHANGED <<sems, call, dns, lock, giving, wire>>

(* mongo_transport_new. *)
New ==
  /\ pc = "freed"
  /\ state' = "idle" /\ pcb' = NULL /\ rx' = <<>> /\ offset' = 0
  /\ connectSem' = FALSE /\ recvSem' = FALSE
  /\ pc' = "idle"
  /\ UNCHANGED <<call, dns, lwip, wire>>

----------------------------------------------------------------------------
(* The owner: mongo_transport_send.                                        *)

Send(n) ==
  /\ pc = "idle" /\ state = "connected"
  /\ want' = n /\ got' = 0 /\ ok' = FALSE /\ pc' = "send"
  /\ UNCHANGED <<state, pcb, sems, chain, dns, lwip, wire>>

(* altcp_write under the lock: lwIP takes what its send buffer has room    *)
(* for, perhaps nothing; without a pcb there is nothing to write to.       *)
SendPass ==
  /\ pc = "send" /\ lock = "free"
  /\ got' \in IF pcb = NULL THEN {0} ELSE 0..want
  /\ pc' = "scheck"
  /\ UNCHANGED <<state, pcb, sems, chain, want, ok, dns, lwip, wire>>

(* Outside the lock: the connection is gone, or all bytes are queued, or   *)
(* some are, or none are and the 10 ms poll goes on until the deadline.    *)
Queued == got > 0 /\ pcb # NULL /\ state = "connected"
GiveUpIfGone ==  \* mutant: the poll has no deadline
  /\ pcb = NULL \/ state # "connected"
  /\ pc' = "idle" /\ UNCHANGED <<want, ok>>
GiveUp == ~Queued /\ pc' = "idle" /\ UNCHANGED <<want, ok>>

SendCheck ==
  /\ pc = "scheck"
  /\ \/ Queued /\ got = want /\ pc' = "idle" /\ ok' = TRUE /\ UNCHANGED want
     \/ Queued /\ got < want /\ pc' = "send" /\ want' = want - got /\ UNCHANGED ok
     \/ /\ got = 0 /\ pcb # NULL /\ state = "connected"
        /\ pc' = "send" /\ UNCHANGED <<want, ok>>
     \/ GiveUp
  /\ UNCHANGED <<state, pcb, sems, chain, got, dns, lwip, wire>>

SendDeadline == SendCheck /\ GiveUp

----------------------------------------------------------------------------
(* The owner: mongo_transport_recv_exact.                                  *)

Recv(n) ==
  /\ pc = "idle"
  /\ want' = n /\ got' = 0 /\ ok' = FALSE /\ pc' = "drain"
  /\ UNCHANGED <<state, pcb, sems, chain, dns, lwip, wire>>

(* cyw43_arch_lwip_begin. *)
Drain ==
  /\ pc = "drain" /\ lock = "free"
  /\ lock' = "owner" /\ pc' = "copy"
  /\ UNCHANGED <<state, pcb, sems, chain, call, dns, attached, life, giving, wire>>

(* One turn of the copy loop: as much as is wanted of the head pbuf, which *)
(* is freed once it is used up.                                            *)
Chunk == IF Len(Head(rx)) - offset < want - got THEN Len(Head(rx)) - offset
                                                ELSE want - got
CopyForgetsOffset ==  \* mutant: a pbuf taken in part is taken from its start again
  /\ out' = out \o SubSeq(Head(rx), offset + 1, offset + Chunk)
  /\ got' = got + Chunk
  /\ IF offset + Chunk >= Len(Head(rx)) THEN rx' = Tail(rx) /\ offset' = 0
                                        ELSE rx' = rx /\ offset' = 0
CopyKeepsOffset ==  \* mutant: the next pbuf is entered at the old offset
  /\ out' = out \o SubSeq(Head(rx), offset + 1, offset + Chunk)
  /\ got' = got + Chunk
  /\ offset' = offset + Chunk
  /\ rx' = IF offset + Chunk >= Len(Head(rx)) THEN Tail(rx) ELSE rx
CopyHead ==
  /\ out' = out \o SubSeq(Head(rx), offset + 1, offset + Chunk)
  /\ got' = got + Chunk
  /\ IF offset + Chunk >= Len(Head(rx)) THEN rx' = Tail(rx) /\ offset' = 0
                                        ELSE rx' = rx /\ offset' = offset + Chunk

Copy ==
  /\ pc = "copy" /\ rx # <<>> /\ got < want
  /\ CopyHead
  /\ UNCHANGED <<state, pcb, sems, pc, want, ok, dns, lwip, arrived, credited>>

(* altcp_recved for what this pass took, unless the pcb is gone, and       *)
(* cyw43_arch_lwip_end.                                                    *)
CreditWhenDone(n) ==  \* mutant: only a pass that completes the read credits
  IF pcb # NULL /\ got >= want THEN n ELSE credited
Credit(n) == IF pcb # NULL THEN n ELSE credited

DrainDone ==
  /\ pc = "copy" /\ (rx = <<>> \/ got >= want)
  /\ credited' = Credit(Len(out))
  /\ lock' = "free"
  /\ pc' = IF got >= want THEN "idle" ELSE "rcheck"
  /\ ok' = (got >= want)
  /\ UNCHANGED <<state, pcb, sems, chain, want, got, dns, attached, life, giving, arrived, out>>

(* Outside the lock: the peer's close and errors end the read, and so does *)
(* the deadline.                                                           *)
RecvCheckIgnoresClose ==  \* mutant: only an error ends the read
  pc' \in IF state = "error" THEN {"idle"} ELSE {"idle", "rwait"}
RecvCheckState ==
  pc' \in IF state \in {"closed", "error"} THEN {"idle"} ELSE {"idle", "rwait"}

RecvCheck ==
  /\ pc = "rcheck"
  /\ RecvCheckState
  /\ UNCHANGED <<state, pcb, sems, chain, call, dns, lwip, wire>>

RecvWake ==
  /\ pc = "rwait" /\ recvSem
  /\ recvSem' = FALSE /\ pc' = "drain"
  /\ UNCHANGED <<state, pcb, connectSem, chain, call, dns, lwip, wire>>

RecvTimeout ==
  /\ pc = "rwait" /\ ~recvSem
  /\ pc' = "idle"
  /\ UNCHANGED <<state, pcb, sems, chain, call, dns, lwip, wire>>

----------------------------------------------------------------------------
(* The tcpip thread.  Callback(s, S) is the first half of a callback: the  *)
(* lock is lwIP's, t->state becomes s, the semaphores S are still to give. *)
Callback(s, S) == lock = "free" /\ lock' = "stack" /\ state' = s /\ giving' = S

Give(S) == /\ connectSem' = (connectSem \/ "connect" \in S)
           /\ recvSem' = (recvSem \/ "recv" \in S)

CallbackEnds ==
  /\ lock = "stack"
  /\ Give(giving)
  /\ lock' = "free" /\ giving' = {}
  /\ UNCHANGED <<state, pcb, chain, pc, call, dns, attached, life, wire>>

(* cb_connected. *)
Connected(p) ==
  /\ p \in attached /\ life[p] = "syn"
  /\ \E s \in {"connected", "error"} : Callback(s, {"connect"})
  /\ life' = [life EXCEPT ![p] = "up"]
  /\ UNCHANGED <<pcb, sems, chain, pc, call, dns, attached, wire>>

(* cb_recv with data: the window has room for n more bytes, which arrive   *)
(* in one pbuf at the end of the chain.                                    *)
Data(p, n) ==
  /\ p \in attached /\ life[p] = "up"
  /\ arrived + n <= MaxBytes /\ arrived + n <= credited + Window
  /\ Callback(state, {"recv"})
  /\ rx' = Append(rx, [i \in 1..n |-> arrived + i])
  /\ offset' = IF rx = <<>> THEN 0 ELSE offset
  /\ arrived' = arrived + n
  /\ UNCHANGED <<pcb, sems, pc, call, dns, attached, life, credited, out>>

(* cb_recv with the peer's FIN, or with an error: nothing follows it. *)
RecvEnds(p) ==
  /\ p \in attached /\ life[p] = "up"
  /\ \E s \in {"closed", "error"} : Callback(s, {"recv"})
  /\ life' = [life EXCEPT ![p] = "fin"]
  /\ UNCHANGED <<pcb, sems, chain, pc, call, dns, attached, wire>>

(* cb_err: lwIP has freed the pcb already. *)
ErrKeepsPcb(p) == UNCHANGED pcb  \* mutant: the pointer outlives the pcb
ErrPcb(p) == pcb' = NULL
ErrWakes == {"connect", "recv"}

Err(p) ==
  /\ p \in attached
  /\ Callback("error", ErrWakes)
  /\ ErrPcb(p)
  /\ attached' = attached \ {p} /\ life' = [life EXCEPT ![p] = "none"]
  /\ UNCHANGED <<sems, chain, pc, call, dns, wire>>

(* cb_dns for the frame that waits, and for one that is gone: the second   *)
(* writes to dead stack memory and gives a deleted semaphore.              *)
DnsAnswer ==
  /\ lock = "free"
  /\ \/ query /\ query' = FALSE /\ dnsSem' = TRUE /\ UNCHANGED <<orphan, stray>>
     \/ orphan /\ orphan' = FALSE /\ stray' = TRUE /\ UNCHANGED <<query, dnsSem>>
  /\ UNCHANGED <<state, pcb, sems, chain, pc, call, lwip, wire>>

----------------------------------------------------------------------------
OwnerStep ==
  \/ Resolve \/ DnsWake \/ DnsTimeout \/ Open \/ Opened
  \/ ConnectWake \/ ConnectTimeout \/ ConnectCheck
  \/ (pc = "close" /\ Close)
  \/ SendPass \/ SendCheck
  \/ Drain \/ Copy \/ DrainDone \/ RecvCheck \/ RecvWake \/ RecvTimeout

OwnerCall ==
  \/ Connect \/ (pc = "idle" /\ Close) \/ Release \/ New
  \/ \E n \in 1..MaxWant : Send(n) \/ Recv(n)

Stack ==
  \/ CallbackEnds \/ DnsAnswer
  \/ \E p \in Pcb : \/ Connected(p) \/ RecvEnds(p) \/ Err(p)
                    \/ \E n \in 1..Window : Data(p, n)

Next == OwnerStep \/ OwnerCall \/ Stack

Spec == Init /\ [][Next]_vars

(* The owner's task is scheduled, its waits time out, a poll that runs     *)
(* again and again reaches its deadline, and a callback that has started   *)
(* ends.                                                                   *)
Fairness == WF_vars(OwnerStep) /\ SF_vars(SendDeadline) /\ WF_vars(CallbackEnds)

FairSpec == Spec /\ Fairness

----------------------------------------------------------------------------
(* Properties. *)

(* Types of struct mongo_transport, of the owner, of resolve_host's frame, *)
(* of lwIP's side and of the bytes; no pbuf in the chain is used up.       *)
StructTypes == /\ state \in States /\ pcb \in Pcb \cup {NULL}
               /\ connectSem \in BOOLEAN /\ recvSem \in BOOLEAN
ChainTypes == /\ rx \in Seq(Seq(Nat) \ {<<>>}) /\ offset \in Nat
              /\ offset = 0 \/ (rx # <<>> /\ offset < Len(Head(rx)))
OwnerTypes == pc \in Pcs /\ want \in 1..MaxWant /\ got \in Nat /\ ok \in BOOLEAN
DnsTypes == /\ dnsSem \in BOOLEAN /\ query \in BOOLEAN
            /\ orphan \in BOOLEAN /\ stray \in BOOLEAN
LwipTypes == /\ attached \in SUBSET Pcb
             /\ life \in [Pcb -> {"none", "syn", "up", "fin"}]
             /\ lock \in {"free", "owner", "stack"}
             /\ giving \in SUBSET {"connect", "recv"}
WireTypes == arrived \in Nat /\ credited \in Nat /\ out \in Seq(Nat)

TypeOK == /\ StructTypes /\ ChainTypes /\ OwnerTypes
          /\ DnsTypes /\ LwipTypes /\ WireTypes

(* mongo_transport.c, "The semaphore wakes the caller when a recv callback *)
(* fires OR when an error/close signal arrives": a reader never sleeps     *)
(* over data, a close or an error that has been signalled already, though  *)
(* it tests the state outside the lock.                                    *)
NoLostWakeup ==
  pc = "rwait" /\ ~recvSem /\ "recv" \notin giving
    => rx = <<>> /\ state \notin {"closed", "error"}

(* The same for connect: while it sleeps, the handshake is still going on. *)
NoLostConnect ==
  pc = "cwait" /\ ~connectSem /\ giving = {} => state = "connecting"

(* The owner never waits on either semaphore for what has happened. *)
NoLostSignal == NoLostWakeup /\ NoLostConnect

(* t->pcb is exact: it is the one pcb whose callbacks come here, so lwIP   *)
(* has not freed it, no other connection writes to this struct, and a      *)
(* connected transport has one.                                            *)
PcbExact ==
  /\ attached = IF pcb = NULL THEN {} ELSE {pcb}
  /\ state = "connected" => pcb # NULL
  /\ \A p \in Pcb : life[p] # "none" <=> p \in attached

(* After mongo_transport_free no callback is running or can ever run on    *)
(* the freed struct.                                                       *)
FreedIsQuiet == pc = "freed" => attached = {} /\ giving = {}

(* recv_exact hands out the peer's bytes once each and in order, across    *)
(* pbuf boundaries, partial reads and timeouts, and the chain goes on      *)
(* where the last read stopped, up to the last byte that arrived.          *)
StreamIntact ==
  /\ \A i \in 1..Len(out) : out[i] = i
  /\ IF rx = <<>> THEN pcb # NULL => Len(out) = arrived
     ELSE /\ Head(rx)[offset + 1] = Len(out) + 1
          /\ \A i \in 2..Len(rx) : rx[i][1] = rx[i - 1][Len(rx[i - 1])] + 1
          /\ rx[Len(rx)][Len(rx[Len(rx)])] = arrived

(* Flow control does not leak: outside a drain, every byte handed out has  *)
(* been credited to the peer's window.                                     *)
WindowCredited == pcb # NULL /\ lock # "owner" => credited = Len(out)

(* Every call comes back, whatever lwIP does or fails to do. *)
CallReturns == pc \notin {"idle", "freed"} ~> pc \in {"idle", "freed"}

(* The transport implements ByteStream.  A connection counts as linked     *)
(* while the code says so, as dialled while lwIP has not given up on it,   *)
(* and as broken until the struct is closed.                               *)
Link == IF pc = "freed" THEN "freed"
        ELSE IF state = "connected" THEN "linked"
        ELSE IF pcb = NULL THEN (IF state \in {"idle", "closed"} THEN "down" ELSE "broken")
        ELSE IF life[pcb] \in {"syn", "up"} THEN "dialing" ELSE "broken"
Calls == CASE pc \in ConnectPcs -> "connect" [] pc \in SendPcs -> "send"
           [] pc \in RecvPcs -> "recv" [] OTHER -> "none"
Left == CASE pc = "send" -> want [] pc \in {"scheck"} \union RecvPcs -> want - got [] OTHER -> 0
Stream == INSTANCE ByteStream WITH link <- Link, call <- Calls, left <- Left

(* mongo_transport.h: what its callers are promised, call by call, however *)
(* lwIP's callbacks fall between the steps of the owner: see ByteStream.   *)
StreamSpec == Stream!Spec

(* mongo_transport.c: resolve_host signals "a private semaphore": cb_dns   *)
(* only ever runs on a frame that is still waiting for it.                 *)
NoStrayDnsCallback == ~stray
=============================================================================
