----------------------------- MODULE ByteStream -----------------------------
(***************************************************************************)
(* What mongo_transport.h promises the one task that owns a transport:     *)
(* blocking calls over a stream of bytes.  connect succeeds only on an     *)
(* established connection; one that is lost stays lost until it has been   *)
(* closed.  recv_exact reads the bytes of this connection and of no other, *)
(* each once and in the order they arrived, and a partial read is an       *)
(* error; send succeeds when a connection that is still there has taken    *)
(* everything.  On a freed transport nothing happens.                      *)
(*                                                                         *)
(* lwIP's lock, callbacks, pcbs and pbufs and the semaphores are not seen  *)
(* here.  MongoTransport implements this specification; see Stream there.  *)
(***************************************************************************)
EXTENDS Naturals, Sequences

CONSTANT MaxWant   \* the longest read or write

VARIABLES link,      \* down | dialing | linked | broken | freed
          call,      \* the call the owner is in: none | connect | send | recv
          left,      \* what the read or write in progress still has to do
          ok,        \* the last call has returned MONGO_TRANSPORT_OK
          arrived,   \* bytes the peer has sent on this connection
          out        \* the bytes of it that reads have handed out, by number

vars == <<link, call, left, ok, arrived, out>>
bytes == <<arrived, out>>

Init == /\ link = "down" /\ call = "none" /\ ok = FALSE
        /\ left = 0 /\ arrived = 0 /\ out = <<>>

Begins(c) == call = "none" /\ call' = c /\ ok' = FALSE
Returns(c) == call = c /\ call' = "none" /\ left' = 0

----------------------------------------------------------------------------
(* The owner.  A connect may fail before there is anything to dial; from   *)
(* the dialing on there is a connection, with bytes of its own, and it     *)
(* fails by closing it, or with what was dialled broken.                   *)
Connect == Begins("connect") /\ link = "down" /\ UNCHANGED <<link, left, bytes>>

Dial == /\ call = "connect" /\ link = "down"
        /\ \/ link' = "dialing" /\ UNCHANGED <<call, left>>
           \/ link' = "broken" /\ Returns("connect")
        /\ arrived' = 0 /\ out' = <<>>
        /\ UNCHANGED ok

ConnectOk == /\ Returns("connect") /\ link = "linked" /\ ok' = TRUE
             /\ UNCHANGED <<link, bytes>>

ConnectFails == /\ Returns("connect")
                /\ \/ link \in {"down", "broken"} /\ UNCHANGED link
                   \/ link' = "down"
                /\ UNCHANGED <<ok, bytes>>

(* send: parts of the data are taken, until everything is or it gives up. *)
Send(n) == /\ Begins("send") /\ link = "linked" /\ left' = n
           /\ UNCHANGED <<link, bytes>>

Queue == /\ call = "send" /\ link \in {"linked", "broken"}
         /\ left' \in 0..left
         /\ UNCHANGED <<link, call, ok, bytes>>

SendOk == /\ Returns("send") /\ link = "linked" /\ left = 0 /\ ok' = TRUE
          /\ UNCHANGED <<link, bytes>>
SendFails == Returns("send") /\ UNCHANGED <<link, ok, bytes>>

(* recv_exact: the next bytes that have not been read, until all that are  *)
(* wanted are there or it gives up.                                        *)
Recv(n) == /\ Begins("recv") /\ link # "freed" /\ left' = n
           /\ UNCHANGED <<link, bytes>>

Take == /\ call = "recv" /\ link \in {"linked", "broken"}
        /\ left' \in 0..left /\ Len(out) + (left - left') <= arrived
        /\ out' = [i \in 1..(Len(out) + (left - left')) |-> i]
        /\ UNCHANGED <<link, call, ok, arrived>>

RecvOk == /\ Returns("recv") /\ left = 0 /\ ok' = TRUE
          /\ UNCHANGED <<link, bytes>>
RecvFails == Returns("recv") /\ left > 0 /\ UNCHANGED <<link, ok, bytes>>

(* close, twice or on a transport that was never connected; free; new. *)
Close == /\ call = "none" /\ link # "freed"
         /\ link' \in {"down", "freed"} /\ UNCHANGED <<call, left, ok, bytes>>
New == /\ call = "none" /\ link = "freed"
       /\ link' = "down" /\ UNCHANGED <<call, left, ok, bytes>>

----------------------------------------------------------------------------
(* The peer and the network, at any moment of any call. *)
Established == /\ link = "dialing" /\ link' = "linked"
               /\ UNCHANGED <<call, left, ok, bytes>>
Breaks == /\ link \in {"dialing", "linked"} /\ link' = "broken"
          /\ UNCHANGED <<call, left, ok, bytes>>
Arrive == /\ link \in {"dialing", "linked"}
          /\ arrived' \in Nat /\ arrived' > arrived
          /\ UNCHANGED <<link, call, left, ok, out>>

Next == \/ Connect \/ Dial \/ ConnectOk \/ ConnectFails
        \/ \E n \in 1..MaxWant : Send(n) \/ Recv(n)
        \/ Queue \/ SendOk \/ SendFails
        \/ Take \/ RecvOk \/ RecvFails
        \/ Close \/ New
        \/ Established \/ Breaks \/ Arrive

Spec == Init /\ [][Next]_vars
=============================================================================
