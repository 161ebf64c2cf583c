------------------------------ MODULE MongoDns ------------------------------
(***************************************************************************)
(* One SRV or TXT query of mongo_dns.c: a task that asks over a UDP pcb of *)
(* its own and sleeps on a semaphore, and lwIP's thread, which runs        *)
(* udp_recv_cb on whatever arrives at that pcb.                            *)
(*                                                                         *)
(* A packet is a sequence of cells: the header and question, then one cell *)
(* per resource record.  ctx->reply is such a sequence too, so a packet    *)
(* copied over another leaves the longer one's last cells in place, as     *)
(* pbuf_copy_partial does.  Names are values (DnsName has their bytes).    *)
(***************************************************************************)
EXTENDS Naturals, Sequences, SequencesExt

CONSTANTS Packets,     \* what may arrive at the pcb
          Ids,         \* transaction ids
          MaxHosts,    \* MONGO_URI_MAX_HOSTS, the capacity of the caller's array
          MaxArrivals, \* bound: how many packets arrive during one query
          Texts,       \* what a name, a key or a value can be
          NULL

NoText == ""

(* What the code reads of a message.  A record's data is the target's name *)
(* (NULL if it is malformed) or the options of a text, which may have none *)
(* of them; that of others, as a text without any bytes is, and of one     *)
(* that is broken off, is not looked at.                                   *)
Headers == [id : Ids, qr : BOOLEAN, rcode : Nat, qdcount : Nat, name : Texts, ancount : Nat]
Options == [key : Texts, val : Texts]
Answers == [type : {"srv"}, data : Texts \union {NULL}]
           \union [type : {"txt"}, data : Seq(Options)]
           \union [type : {"other", "broken"}, data : {NULL}]

IsPacket(p) == /\ p \in Seq(Headers \union Answers) /\ p # <<>> /\ p[1] \in Headers
               /\ \A i \in 2..Len(p) : p[i] \in Answers

DnsAssumption ==
  /\ MaxHosts \in Nat \ {0} /\ MaxArrivals \in Nat
  /\ NULL \notin Texts /\ {NoText, "admin", "true"} \subseteq Texts
  /\ \A p \in Packets : IsPacket(p)
ASSUME DnsAssumption

VARIABLES
  dnsPc,      \* where the asking task is
  asked,      \* the query: its type and name
  expect,     \* ctx->expect_id
  frame,      \* whether ctx is allocated
  listening,  \* whether udp_recv_cb is registered with ctx as its argument
  woken,      \* ctx->sem
  reply,      \* ctx->reply
  replyLen,   \* ctx->reply_len
  took,       \* what xSemaphoreTake returned
  dnsRc,      \* the call's return code
  found,      \* its records (SRV) or options (TXT)
  arrivals    \* bound

ctx == <<expect, frame, listening, woken, reply, replyLen>>
dnsVars == <<dnsPc, asked, ctx, took, dnsRc, found, arrivals>>

DnsCodes == {"ok", "args", "alloc", "nameserver", "send", "timeout", "format",
             "rcode", "none"}

DnsInit ==
  /\ dnsPc = "idle" /\ asked = NULL /\ frame = FALSE /\ listening = FALSE
  /\ expect \in Ids /\ woken = FALSE /\ reply = <<>> /\ replyLen = 0
  /\ took = FALSE /\ dnsRc = "ok" /\ found = <<>> /\ arrivals = 0

(* The early returns: arguments, allocation, no nameserver, a name that    *)
(* has no encoding, no pcb, no pbuf.  All free what they hold.             *)
DnsRefuse ==
  /\ dnsPc = "ask"
  /\ dnsRc' \in {"args", "alloc", "nameserver"} /\ found' = <<>> /\ dnsPc' = "idle"
  /\ UNCHANGED <<asked, ctx, took, arrivals>>

(* ctx zeroed, a new semaphore, a random id, the callback registered, the  *)
(* question sent: all under the lwIP lock but for the last two.            *)
DnsSend ==
  /\ dnsPc = "ask"
  /\ frame' = TRUE /\ woken' = FALSE /\ reply' = <<>> /\ replyLen' = 0
  /\ expect' \in Ids /\ listening' = TRUE /\ arrivals' = 0
  /\ dnsPc' \in {"wait", "unsent"}   \* udp_sendto's result
  /\ found' = <<>> /\ took' = FALSE
  /\ UNCHANGED <<asked, dnsRc>>

(* udp_recv_cb: copies first, compares the id afterwards. *)
Copied(p) == p \o SubSeq(reply, Len(p) + 1, Len(reply))
Accepts(p) == p[1].id = expect
Receive(p) ==
  /\ listening /\ arrivals < MaxArrivals
  /\ arrivals' = arrivals + 1
  /\ reply' = Copied(p)
  /\ IF Accepts(p) THEN replyLen' = Len(p) /\ woken' = TRUE
                   ELSE UNCHANGED <<replyLen, woken>>
  /\ UNCHANGED <<dnsPc, asked, expect, frame, listening, took, dnsRc, found>>

DnsWake ==
  /\ dnsPc = "wait" /\ woken
  /\ woken' = FALSE /\ took' = TRUE /\ dnsPc' = "remove"
  /\ UNCHANGED <<asked, expect, frame, listening, reply, replyLen, dnsRc, found, arrivals>>

DnsTimeout ==
  /\ dnsPc = "wait" /\ ~woken
  /\ took' = FALSE /\ dnsPc' = "remove"
  /\ UNCHANGED <<asked, ctx, dnsRc, found, arrivals>>

(* udp_remove under the lwIP lock: from here on nobody writes to ctx.  A   *)
(* query that has no reply frees it and returns.                           *)
ListeningIfUnsent == dnsPc = "unsent"  \* mutant: a failed send leaves its pcb
ListeningWhileRead == took  \* mutant: the pcb goes with the frame
Listening == FALSE
DnsRemove ==
  /\ dnsPc \in {"remove", "unsent"}
  /\ listening' = Listening
  /\ IF took THEN dnsPc' = "parse" /\ UNCHANGED <<frame, dnsRc>>
             ELSE /\ dnsPc' = "idle" /\ frame' = FALSE
                  /\ dnsRc' = IF dnsPc = "unsent" THEN "send" ELSE "timeout"
  /\ UNCHANGED <<asked, expect, woken, reply, replyLen, took, found, arrivals>>

(* check_reply_header and skip_question, in their order. *)
HeaderRc(h) ==
  CASE ~h.qr                    -> "format"
    [] h.qr /\ h.rcode # 0      -> "rcode"
    [] h.qr /\ h.rcode = 0      -> IF h.qdcount = 1 /\ h.name = asked.name
                                   THEN "ok" ELSE "format"

(* The loop over the answers ends at the count, at the end of the reply,   *)
(* or at a record that runs over it or whose name is malformed.            *)
Walk ==
  LET n == IF reply[1].ancount < replyLen THEN reply[1].ancount ELSE replyLen - 1
      whole == {k \in 0..n : \A i \in 1..k : reply[i + 1].type # "broken"}
  IN SubSeq(reply, 2, 1 + CHOOSE k \in whole : \A j \in whole : j <= k)

(* mongo_dns_query_srv keeps the SRV records with a readable target, as    *)
(* many as the caller has room for.                                        *)
KeepTarget(kept, rr) ==
  IF rr.type = "srv" /\ rr.data # NULL /\ Len(kept) < MaxHosts THEN Append(kept, rr.data) ELSE kept
SrvRecords == FoldLeft(LAMBDA kept, rr : KeepTarget(kept, rr), <<>>, Walk)

(* mongo_dns_query_txt stops at the first TXT record with data, which may  *)
(* hold no option.                                                         *)
KeepText(kept, rr) == IF kept = NULL /\ rr.type = "txt" THEN rr.data ELSE kept
TxtOptions == FoldLeft(LAMBDA kept, rr : KeepText(kept, rr), NULL, Walk)

(* The caller reads ctx->reply and frees ctx. *)
DnsParse ==
  LET all == IF asked.type = "srv" THEN SrvRecords ELSE TxtOptions
      none == all = (IF asked.type = "srv" THEN <<>> ELSE NULL)
  IN
  /\ dnsPc = "parse"
  /\ dnsRc' = (IF HeaderRc(reply[1]) # "ok" THEN HeaderRc(reply[1])
               ELSE IF none THEN "none" ELSE "ok")
  /\ found' = IF HeaderRc(reply[1]) = "ok" /\ ~none THEN all ELSE <<>>
  /\ frame' = FALSE /\ dnsPc' = "idle"
  /\ UNCHANGED <<asked, expect, listening, woken, reply, replyLen, took, arrivals>>

DnsStep == DnsRefuse \/ DnsSend \/ DnsWake \/ DnsTimeout \/ DnsRemove \/ DnsParse
DnsNext == DnsStep \/ \E p \in Packets : Receive(p)
-----------------------------------------------------------------------------
(* udp_recv_cb never runs on a freed ctx: on every path, the timeout and a *)
(* failed send included, the pcb goes before the frame does.               *)
CallbackOnLiveFrame == listening => frame

(* mongo_dns.c:256: once the task looks at ctx->reply, no packet can       *)
(* change it, nor its length, until the query has returned.                *)
ReplySettled == [][dnsPc = "parse" => UNCHANGED <<reply, replyLen>>]_dnsVars
=============================================================================
