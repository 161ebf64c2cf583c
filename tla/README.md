# A TLA+ model of micro-mongodb

micro-mongodb is a MongoDB driver for the Raspberry Pi Pico W: C on FreeRTOS,
lwIP and mbedTLS. This directory models the parts of it where tasks, callbacks
and the network meet, checks them with TLC on small instances, and proves the
main results with TLAPS for every value of the constants.

`tlc -config MCMongoClient.cfg MCMongoClient.tla` checks a model,
`tlapm MongoClientProofs.tla` checks a proof. `PROJECT.json` lists the runs,
the mutants that show each property can fail, the source lines behind every
definition, the findings, the hazards and the theorems.

## The system

```
 telemetry task   aggregator task   ...            application
        \            /        \
         mongo_client          mongo_cursor        one mutex, one connection
        /     |      \            |
  mongo_uri mongo_auth mongo_crud |                commands
     |          \       /         |
  mongo_dns      mongo_wire ------+                one request, one reply
     |              |
     |         mongo_transport                     blocking calls
     |              |        ^ callbacks
     +---------- lwIP tcpip thread, mbedTLS, cyw43
```

| Component | State | Operations | Shared with | What makes it correct |
|---|---|---|---|---|
| Client `mongo_client.c` | mutex, target, last known primary, `t`, `connected`, failure counter, next attempt tick | new, connect, insert, find, update, delete, run_command, ensure_timeseries, free; lock, unlock, note_op_rc for cursors | every task that holds the client; cursors | one exchange on the wire at a time; `connected` means a usable session; the mutex always comes back; transports are freed; backoff is kept; the client reconnects |
| Transport `mongo_transport.c` | state, pcb, two binary semaphores, rx pbuf chain and offset | new, connect, send, recv_exact, close, free; callbacks connected, recv, err, dns | its owner and lwIP's thread | no lost wakeup; the pcb pointer is exact; the byte stream arrives once and in order; window credit does not leak; every call ends |
| Cursor `mongo_cursor.c` | transport pointer, client, cursor id, batch reply and iterator | find, next (getMore), destroy (killCursors) | the client's mutex and its transport | uses a live transport; hands out each document once |
| Wire `mongo_wire.c` | global request counter; the connection's unread bytes | run_command = send + recv | the transport | each reply goes to its request, or the connection is given up |
| Auth `mongo_auth.c` | SCRAM conversation on the stack | handshake, authenticate | wire | ends authenticated or with an error, and leaves no reply behind |
| CRUD `mongo_crud.c` | none | insert, update, delete, builders | wire | one command per call |
| DNS `mongo_dns.c` | query context on the stack, filled by a UDP callback | query_srv, query_txt | lwIP's thread | the answer parsed is the one to this query; decompression ends; no callback after return |
| URI `mongo_uri.c` | none | parse (with SRV and TXT) | DNS | URI options win over TXT; a parsed URI has a host |
| Time `mongo_time.c` | synced flag, 64-bit offset, semaphore | sync, now_ms, SNTP callback | lwIP's thread, all tasks | never a torn or unset clock |
| Logging `logging.c` | bounded queue | log, reader task | all tasks | never blocks a caller; order kept per task; stamps in order but for the wrap |
| Application `app/` | none of its own | start-up; telemetry (writes), aggregator (reads) | client, clock | documents carry a real date |
| libbson documents `bson.c`, `bson-iter.c` | a buffer, inline or allocated, its length and its owner; an iterator's offsets | append, nested begin and end, iterate, validate, print as JSON, copy, steal, destroy | none; a child writes into its parent's buffer | what is appended is what is read; no reader leaves the buffer; each block is freed once |
| libbson texts `bson-utf8.c`, `bson-string.c`, `bson-decimal128.c`, `common-b64.c` | a growing string | validate, escape, append, convert | none | conversions are exact, or refused |
| libbson ObjectIDs `bson-oid.c`, `bson-context.c` | contexts with their counters, a spin lock | init, init_sequence | all tasks | no two are equal while the counters are apart |
| Wi-Fi, CA bundle | - | - | - | one blocking call; a constant |

### What is hard here

*Interleaving.* Tasks share one client, and a cursor carries a raw transport
pointer from one critical section to another. On the transport the owner reads
`t->state` and `t->pcb` outside the lwIP lock and sleeps on semaphores whose
counts survive from earlier waits. *Failure.* The connection can go at every
step; connect_locked has eleven ways out, five of which skip the code at its
end. *Timeouts.* A wait that times out leaves somebody else (the resolver, the
server) with an answer under way. *Liveness.* Backoff sleeps under the mutex;
a cached primary must not trap the client. *Bounds.* Five attempts, a pcb pool,
a receive window, 32-bit ticks. The hazards are listed with their lines in
`PROJECT.json`, each with the properties that watch it, or the reason why none does.

## Modules

| Module | Models |
|---|---|
| `ClientSession` | what `mongo_client.h` promises under "Threading": one session, opened and lost only by the task inside |
| `MongoClient` | `mongo_client.c`, and what `mongo_cursor.c` does to the client |
| `MCMongoClient` | its instances for TLC |
| `MongoClientProofs` | invariance, and that MongoClient implements ClientSession |
| `MongoTransport` | `mongo_transport.c` against lwIP's callbacks |
| `MCMongoTransport` | its instance for TLC |
| `ByteStream` | what `mongo_transport.h` promises: blocking calls over one stream of bytes |
| `MongoTransportProofs` | types, ownership, wakeups, flow control and the byte stream; that MongoTransport implements ByteStream |
| `MongoWire` | `mongo_wire.c` under its callers: the handshake and SCRAM commands of `mongo_auth.c`, then CRUD |
| `MCMongoWire` | its instance for TLC |
| `MongoWireProofs` | replies go to their requests; what failed commands leave behind |
| `DnsName` | encode_name and decode_name of `mongo_dns.c`, on bytes |
| `MongoDns` | one DNS query: the asking task against udp_recv_cb |
| `MongoUri` | `mongo_uri.c`, on top of MongoDns |
| `MongoUriProofs` | names are read back; the frame of every query and its reply; what a parse accepts |
| `MongoTime` | `mongo_time.c`: the clock, SNTP's thread and its readers |
| `App` | the start-up of `app/`, on top of MongoTime |
| `Logger` | `logging.c`: callers, queue, reader task |
| `MongoCursor` | `mongo_cursor.c`: one cursor against one result set |
| `Ticks` | the arithmetic of waiting in `mongo_client.c` and `mongo_transport.c` |
| `Scram` | `mongo_authenticate` of `mongo_auth.c` |
| `SessionProofs` | what MONGO_AUTH_OK says of the server; what a cursor hands out |
| `FirmwareProofs` | one clock from two words, what dates the documents, and App implements the clock; waiting on ticks; the order of the log |
| `BsonOid` | ObjectIDs: `bson-oid.c`, `bson-context.c`, `bson-atomic.c` |
| `BsonValueProofs` | their uniqueness; which texts UTF-8 accepts and how they are escaped |
| `MCServices` | these, side by side, for TLC |
| `BsonCells` | the cells of a document, its types and their widths |
| `BsonDocument` | building a document: `bson.c` |
| `BsonWalk` | the iterator over a buffer of any bytes, iterators inside iterators, overwriting in place: `bson-iter.c` |
| `BsonIter` | what is built on it: finding by key and path, copying; reading back what BsonDocument wrote |
| `BsonVisit` | what walks one: bson_validate, bson_as_json |
| `BsonSizes` | the sizes by which blocks grow |
| `BsonHandle` | who owns which block: init, steal, copy, destroy |
| `BsonUtf8`, `BsonBase64`, `BsonDecimal`, `BsonString` | the conversions, and the growing string |
| `BsonMemory` | the blocks of documents (BsonHandle) and of the string (BsonString), together |
| `BsonMemoryProofs` | each block has one owner; a string holds what was put in it; no iterator leaves its document |
| `MCDocuments` | libbson for TLC |

### MongoClient

A step ends where a task can block: on the mutex, in the backoff delay, in the
allocator and in each network exchange. What the code does between two such
points it does with the mutex held, so nobody can see it half done.

`pc` names these points: `lock` (xSemaphoreTake), then in connect_locked
`backoff`, `rebuild`, `dial`, `hello`, `auth`, then `io` (the command) and
`unlock`. The outcomes of each are actions: `DialOk`, `DialFail`, `HelloFail`,
`HelloRedirect`, `HelloPrimary`, `AuthOk`, `AuthFail`. `NextAttempt` is the end
of the loop body, with the counter and the tick set after the last attempt.
`NoteRc` is mark_disconnected under its condition, shared by CLIENT_DO, find and
mongo_client_note_op_rc_.

Data is abstracted like this:

- The four CRUD calls, run_command and ensure_timeseries are one operation,
  `crud`: they differ in the document they send. A server's `{ok: 0}` and its
  NotWritablePrimary are `ok`, as they are for mongo_run_command.
- Transports live at addresses. A freed address may be handed out again, which
  is what makes a stale cursor's pointer interesting: it can be freed memory or
  the *new* connection. On freed memory every outcome is possible. With two
  addresses a reconnect may or may not reuse the old one.
- `ready` marks a connection on which the server said it was primary and SCRAM,
  if any, succeeded. It is not a variable of the code; SessionSound compares it
  with the code's flag.
- `due` says that the tick count has reached next_attempt_tick; the lengths of
  the delays and the 32-bit subtraction are left out. The failure counter stops
  at `MaxFailures`, after which its value changes the delay only.
- `HostOf`: the cached primary is retired when the *host name* of the target is
  that of the cached primary, whatever the port, as the code does; one
  configuration puts both servers on one host name.
- `credentials` is fixed by the URI: none, refused (SCRAM without TLS and
  without allowInsecureAuth) or scram.

The environment crashes and restarts servers, breaks links, holds elections and
stepdowns (which close no connection), and lets any exchange fail. `calm` ends
that, once, for the liveness properties.

### MongoTransport

The owner is one task. `lock` is cyw43_arch_lwip_begin/end. A callback is two
steps, its writes to the struct and its xSemaphoreGive calls, because the owner
may read `t->state` between them. The owner's copy loop takes one step per pbuf
chunk.

The bytes of a connection are numbered 1, 2, 3, ... as the peer sends them: the
chain `rx` holds the numbers that have arrived and `out` collects what
recv_exact handed out, so "in order, once each" can be said. The window is
enforced by the sender (`Data`), and `credited` counts altcp_recved.
A binary semaphore is a Boolean. `attached` and `life` are lwIP's side: which
pcbs carry this transport as callback argument, and how far each connection is.
After the peer's FIN or an error reported through cb_recv no data follows.
`resolve_host` keeps its semaphore in a stack frame; `orphan` is a query that
outlived it. Sends lose their content: how much lwIP takes, perhaps nothing, is
all the loop depends on.

`ok` says that the last call returned MONGO_TRANSPORT_OK. With it the state maps
to ByteStream, what `mongo_transport.h` promises the owner: `Link` is made of
`t->state`, `t->pcb` and what lwIP knows of that pcb (down, dialing, linked,
broken, freed); `Calls` is the call that `pc` is in; `Left` what that call still
has to read or to write. ByteStream has no lwIP, no lock, no semaphore, no pbuf and
no window: connect succeeds on an established connection only, one that is lost
stays lost until it is closed, and a read that succeeds has handed out the next
bytes of this connection.

`Reuse = FALSE` says that connect is not called on a transport that still has a
pcb. The state check alone would let it (a peer's FIN leaves CLOSED *and* a
pcb), but the only caller, connect_locked, builds a fresh transport for each
attempt (rebuild_transport, `mongo_client.c:257`).

### MongoWire

One connection, used by one task at a time (that is MongoClient's
ExclusiveWire), and the commands that follow each other on it. `stage` says
who asks: hello, saslStart, saslContinue, the empty last saslContinue, and then
any CRUD command. `pc` follows mongo_run_command: between the two recv_exact
calls (`header`, `body`) and after its return, where the caller decides
(`HelloReturns` ... `CommandReturns`) whether the connection stays.

The stream is cut in units as long as a header, since 16 bytes are what
recv_op_msg reads before it can refuse. A unit names the request it answers; a
header also has a length. Bodies need not be multiples of 16 bytes in the code;
what matters, that a reader behind the stream takes less than a reply and never
lands on the header it awaits, is the same. That no document contains bytes
which pass for such a header, at the place where one is looked for, is assumed.
Opcodes and lengths below the minimum do not come from a server in step, so
they are refused only as part of a body that is taken for a header.

A message that fails to be sent was not sent, or is torn, or went out whole; a
torn one ends the server's understanding of the connection (`hearing`), and so
does a chunk written twice: mongo_transport_send repeats altcp_write when
altcp_output reports ERR_MEM. A read that fails may have taken part of what it
asked for, and may come before or after the reply.

Ids are `first + asked` modulo `IdSpace`. The bound `MaxAsked <= IdSpace` says
that a connection does not outlive 2^32 ids.

### The services (MCServices)

Ten small machines that touch each other little. `MCServices` runs one at a
time, picked by `focus` in the initial state, so that their states add up; where
components do interact the modules do: `MongoUri` drives `MongoDns`, and `App`
reads the clock of `MongoTime`.

*DnsName* works on bytes. The labels that occur, their longest length, the loop
guard, the capacity of the caller's buffer and the number of labels that a name
spells itself (`MaxLabels`) are constants. A message grows name by name, written
in full, as encode_name writes it, or as labels and a pointer to a name already
there, with record data between. Each name must be read back from its place, to
the text it was written for, unless it is too long or takes too many turns, and
then it must be refused; and from every other place, where data pass for a name,
decode_name must stay inside the message and the buffer.

*MongoDns.* A packet is a sequence of cells, one for the header and question and
one per record. `Receive` copies first and compares the id afterwards, as the
callback does, and a shorter packet leaves the longer one's tail in the buffer.
So the model contains the window between the give and udp_remove in which a
stranger's packet replaces an accepted reply, contrary to the comment at
`mongo_dns.c:156`: the copy (151) comes before the comparison of the ids (160), and
`reply_len` stays that of the reply. UriAccepted holds, and is proved, with such
replies too. `mongo_dns.c` does not retransmit: one
query, one wait. A TXT query ends at its first record with data, whether these are
options or not (475-491); a record of no data counts as of another type.

*MongoUri.* A string is what its scan meets, each part good or bad in the ways
the code tells apart. An SRV target of `.` decodes to an empty host name and is
accepted, which an entry of the list may not be: HostsUsable says so.

*MongoTime.* The offset's words are written and read in steps of their own. The
unit is a second. ClockSane names the one exception: from the wrap of the 32-bit
uptime to the next SNTP reply the clock is a wrap (49.7 days) behind. One task
calls mongo_time_sync, as in `main.c`; two at once would share one give.

*Logger.* The reader's pvPortMalloc may fail, and then the malloc-failed hook
stops the system before the test for NULL. A stamp is `to_ms_since_boot` in a u32
(`logging.c:193`), which starts again after 2^32 ms, 49.7 days: `UptimeWrap`.
PrintedInOrder names this exception: a stamp is smaller than the one before it, or
than the uptime at its line's call, only if a wrap came between the two. The whole
time (`passed`, `when`) and the numbers of the calls (`called`, `at`, `sent`) are
ghosts; the order of the lines does not rest on the stamps.

*MongoCursor.* An iterator is the address of a reply and what is left of it. A
round trip may be lost before or after the server acted on it; batches may be
empty, as the protocol allows. CursorSound is order, completeness, the life of
what is lent, and that a server's cursor outlives the client's only after a
failure.

*Ticks.* A counter of `TickRange` values against the true time. BackoffExact
carries its condition, that the client did not idle for half the counter's range;
DeadlineMet carries its own, that the counter did not wrap during the call:
without it the code's comparison is wrong, in either direction.

*Scram.* Keys, proofs and signatures are terms, which are equal only if their
parts are. The server may have another password, repeat anything it ever said,
and leave out any field.

*BsonOid.* The emulated 64-bit addition is lock, load, store and unlock. A seed's
five bytes of randomness are the number of its seeding: the hash is assumed to give
each call others. seq32 starts at 0 in every context, the worst case, since the
randomness stands before it. With seq64 nothing does: `_bson_context_set_oid_seq64`
writes the counter's eight bytes and bson_oid_init_sequence adds no randomness
(`bson-oid.c:94-99`), so two contexts whose seq64 start alike make equal ObjectIDs
within a second. `Seed` therefore picks any start of `SeqStarts`, equal ones and
ones that run into the randomness included, and OidsUnique has an assumption,
`CountersApart`: no seq64 has come to where another context's started, nor to
the bytes of a context's randomness. In the code this rests on 64-bit hash values
and is likely, not certain. That a seq64 reaches 2^64 is left out. `Alone` is the
condition the comment of bson_once (`common-thread-private.h:40`) puts on callers.

### libbson (MCDocuments)

A byte is a cell, and so is an aligned 4-byte word that the code writes as one
(a length, an int32, half of an int64): the sizes of the inline buffer, the first
allocation and the largest document are constants in cells. *BsonDocument* keeps
the stack of documents that are being built in one buffer, as the parent chain of
the code does. *BsonWalk* reads cells by the code's own tests, in their order. It
has a buffer of any bytes, and a stack of iterators into it: the caller goes on
with the innermost (`WalkOn`), starts another on the child it is at, where
bson_iter_recurse takes the child's length as it is (`EnterDocument`) and
bson_init_static looks at it once more (`EnterScope`), goes back (`Leave`), or
overwrites a value of fixed size. Each iterator reads the memory from where its
document starts to the end of the whole buffer: nothing but the code's tests
stops it. Where a value's last part starts (d4 in the code) is computed when it is
read, from cells that WalkInside shows to be unchanged. A *copy* of an iterator
(mongo_cursor.c keeps one) is the iterator at the time of the copy. For TLC the
buffers are documents of each element type, alone, in a document, in an array
and in a scope, sound, cut short at any length or with one cell replaced by a
value that matters (0, one off, too large, a type). *BsonIter* adds the search
for keys and paths and the copying of elements.
*BsonVisit* follows the visitor's convention, in which `true` stops the walk.
What bson_validate accepts is compared with `Acceptable`, a definition of the
five checks that the flags ask for, and the JSON text with the text without a
limit. *BsonHandle* has no contents, only blocks, flags and lengths: what
matters there is who frees what. Two things in it are not as one would wish, and
BlocksOwned names both. bson_new_from_buffer believes the length word of a buffer
the caller has (`bson.c:1967`): what it compares with 5 and BSON_MAX_SIZE is
`*buf_len`, so a document may say more than there is. (The words here are 1, an
empty document's, and more than the inline room; a word of 0 would have it read
the byte before the buffer and is left out.) And bson_steal of such a document
(2189-2193) points `buf` at an `alloc` that was never set: a live document with
NULL for its bytes, which still must not free (NO_FREE), so that the block it grows
into leaks when it is destroyed. `hollow` holds these documents, until they grow,
and `leaked` those blocks; both are ghosts. A hollow document of the second kind is
not copied in the model, since memcpy would read from NULL. The caller has one
document at a time over its buffer, and frees the buffer only when there is none.

*BsonUtf8* has in its reference every code point that its bytes can spell
(`Utf8Assumption`), and all strings of up to four bytes at the edges of the ranges
that the code compares. *BsonBase64* counts
sizes as the callers do. *BsonDecimal* is parameterised by the format, so that
two digits and six exponents meet every case of thirty-four digits and twelve
thousand: the exponents that are moved in either direction, the digits that are
not stored, and significands beyond the largest. It excludes by name (`Rounded`)
the two kinds of text that the code rounds although its comment says it does not:
more than 34 digits behind leading zeros (`bson-decimal128.c:669` indexes the
text as if there were none), and an exponent below -16384 (626). *BsonString* has
an unsigned and a signed type of the width its constants say; the saturating
block size is reached.

## Runs

| Run | Instance | Question |
|---|---|---|
| `client_safety` | 2 tasks making every call, 2 servers on one host name, 2 addresses, 2 attempts, counter to 2; the environment never calms down | all safety properties, and ClientSession |
| `client_live` | a writer and a cursor reader, 2 servers on two host names, 1 address, 3 attempts | every call returns; the client reconnects |
| `client_cursor` | as client_safety | *violated*: a cursor outlives its transport |
| `client_backoff` | as client_safety | *violated*: a failed SCRAM conversation arms no backoff |
| `client_stepdown` | as client_live | *violated*: the client does not follow the primary |
| `transport` | 2 pcbs, window of 3, 4 bytes per connection, reads of up to 3 | all transport properties, and ByteStream |
| `wire` | 9 ids, 8 drawn per connection from any start, replies of 1 to 3 units, 2 acceptable | whose reply a command returns; what it leaves behind |
| `wire_kept` | as wire | *violated*: a connection is kept with a refused reply in its stream |
| `transport_dns` | as transport | *violated*: a late DNS answer hits a dead frame |
| `services` | messages of up to 7 bytes, 2 labels of a name's own, 3 turns of the loop guard; 2 packets per query; an uptime that wraps at 3, for the log at 2; a queue of 2; 4 documents in batches of up to 2; 16 ticks; 2 SCRAM attempts; 2 tasks and 3 ObjectIDs with 2 values of seq32 and 3 starts of seq64 | the properties of the ten services |
| `documents` | documents of up to 31 cells, three deep, each element type; strings of up to 4 bytes, texts of up to 6 characters; 2 handles and 3 blocks; 8,500 buffers, sound and damaged, of up to 3 levels | libbson reads what it writes, leaves no buffer, and converts exactly |
| `validate` | documents with a code-with-scope | *violated*: bson_validate accepts what it has not looked at |

Why these bounds are enough to be interesting. Two tasks give every
interleaving of a holder and an intruder; a third would only queue. Two
addresses let a stale pointer be freed, or reused, or differ from `c->t`. Two
attempts reach "another attempt", "last attempt" and the counter. Three are
needed for liveness: one may be lost on a cached primary, one on the seed that
redirects, and the third gets there; the code has five. One address in the
liveness run is no loss: without a leak there is never more than one transport,
as NoTransportLeak shows. In the transport, pbufs of one to three bytes and
reads of one to three give every kind of overlap of a read with a chain of
pbufs; four bytes exceed the window, so credit is needed; two pcbs let lwIP hand
out a fresh one or the old one. On the wire, eight ids are enough for a whole
SCRAM conversation and four commands behind it, so that a stale header comes to
the front of a spoiled stream, and nine make every start but one wrap.

In the services: seven bytes hold a name in full, one that points to it and one
that points to the pointer, three turns of the loop guard refuse the last of
them, and four bytes of buffer refuse the longest; three cycles of the uptime's range and two packets per query
meet every overlap that two of anything can; a log that lives for three
milliseconds wraps once between, before or after any two of its lines; batches of up to two over four
documents give empty, partial and last batches in every order; 34 ticks are two
wraps of the counter and a call across one of them; two attempts let the server
repeat the first in the second; three ObjectIDs are one more than seq32 has
values, and the three starts of seq64 lie below, among and beyond the bytes that begin
with a randomness, the same for two contexts or not. In libbson: an inline buffer of six cells and blocks of eight are
outgrown twice before the limit of 31; three levels have a parent that is itself
a child; each element type is damaged at every cell, alone and under a parent that must
not be left; four bytes are the
longest UTF-8 sequence; five characters are a group of base64 and the beginning
of the next; six characters of a decimal hold more digits than fit, a point and
an exponent. Safety runs use symmetry on tasks, addresses or
nothing; liveness runs use none.

Every property has a mutant of a mapped definition that TLC finds to violate it
under the same configuration. Most are one line of the code: a `<=` for a `<`,
an early return that keeps the mutex, a flag that survives its connection, a
callback left registered.

### What the violations show

- **client_cursor.** A task opens a cursor; the connection dies; another task's
  call reconnects, and rebuild_transport frees the transport. The cursor still
  points to it, takes the mutex, and calls mongo_run_command on freed memory.
  The mutex does not help: the pointer is stale across critical sections.
- **client_backoff.** The comment on `consecutive_failures` speaks of each
  failed connect attempt; the early returns for authentication and for the
  allocator leave counter and tick as they were.
- **client_stepdown.** After a stepdown that keeps its connections, every write
  is refused, every refusal is MONGO_WIRE_OK, and nothing starts the reconnect
  cycle the troubleshooting guide waits for.
- **wire_kept.** A reply above 16 MB is refused with its body still to come.
  CLIENT_DO closes for TRANSPORT and ALLOC, not for TOO_BIG or PROTOCOL, so the
  client stays `connected`. SpoiledIsUseless says what follows: no later command
  on that connection can succeed, and each adds a reply to the backlog; only a
  timeout or the server ends it. The last SCRAM round does the same when its
  reply is late.
- **transport_dns.** resolve_host gives up waiting, but lwIP does not.
- **validate.** The visitor for code-with-scope returns `true` for a sound scope,
  and `true` ends the walk: what follows is accepted unseen. A string with bad
  UTF-8 ends it in the same way. mongo_wire.c and mongo_cursor.c validate replies
  so that nobody walks into a malformed length later; with a code-with-scope in
  front that is not so. (WalkInside shows that a later walk still stays inside the
  buffer, whatever it holds.)

### Fairness

`MongoClient!Fairness`: weak fairness on a task inside the client, since every
blocking point there has a timeout; on the tick. Strong fairness on `Acquire`:
a FreeRTOS mutex is given back, not handed over, so the giver could take it
again before the waiter runs; the tasks sleep between their calls (vTaskDelay
in the loops of telemetry.c and aggregator.c), so a waiter finds it free again
and again and gets it. Strong fairness on `Call(k, "crud")`: telemetry inserts
for ever. `Reconnects` assumes `Healthy`: the environment is calm, the primary
and *the seed* answer (the code dials no other seed), and credentials are not
refused by policy.

`MongoTransport!Fairness`: the owner is scheduled and its waits time out (weak
fairness on `OwnerStep`); a callback that has started ends; and a poll of the
send buffer that runs again and again reaches its deadline (strong fairness on
`SendDeadline`). Nothing is assumed of the peer or of lwIP: CallReturns holds
if no callback ever comes.

## Proofs

`MongoClientProofs` takes for its inductive invariant the conjunction of the
type invariant and the six safety properties. None of the six is inductive
alone. That a session survives other tasks' work (SessionSound) needs that
whoever connects does so while `connected` is false and on `c->t`
(ConnectInProgress, a part of CallsInPlace), that only the mutex holder is there (ExclusiveWire), and
that every allocated transport is `c->t` (NoTransportLeak): then an error
reported by a stale cursor closes `c->t` and clears the flag with it. There is
one lemma per action and one step per conjunct it can disturb. `SessionStep`
maps each step to one of ClientSession or to a stutter: Ready opens, NoteRc on
an error drops, Acquire enters, Unlock leaves. Assumptions: the distinctness of
the null values and at least one redirect (`TaskAssumption` ...
`BoundAssumption`).

`MongoTransportProofs` has two layers. `IInv` is the type invariant with
`ControlInv`: who may hold the lock at which point (LockInv); `attached`, `life`
and `pcb` agree (PcbExact); nothing runs on a freed struct (QuietInv); while a
handshake is waited for, the state is CONNECTING or a signal is on its way
(HandshakeInv); a reader that passed the drain with an empty chain has no byte
it was not told of (EmptyInv, NoLostWakeup; with HandshakeInv, NoLostSignal); and credit equals consumption, or
the drain that will pay it is running (CreditInv). `StreamInv` adds the bytes:
each pbuf is a run of consecutive numbers, a fresh connection starts from
nothing, and `out` followed by the unread chain is 1, 2, ... up to what arrived.
StreamIntact says this by the ends of neighbouring pbufs, since a
concatenation over a chain would be an induction the prover cannot do; TLC and
the proof therefore check the same formula. All but TypeCorrect assume
`Reuse = FALSE`; the assumption is named in each theorem. `ImplementsStream` maps
every step to one of ByteStream or to a stutter. It adds `RefInv`: within a call nothing has succeeded yet (OkInv);
a connection that lwIP keeps and the code does not call connected is one that
connect still works on, and within connect and send only cb_err removes a pcb
(DialInv); a read takes no more than it wants, and waits only while it wants more
(WantInv); no byte in the chain is ahead of those that have arrived (ArrivedInv).
`StreamStarts` and one lemma per action of the owner and of lwIP do the mapping.
The drain, the credit, the lock and the semaphores are stutters; what the copy loop
takes is a `Take`, what altcp_write accepts a `Queue`, a callback's write to
`t->state` an `Established` or `Breaks`.

`MongoWireProofs` has one inductive invariant for both kinds of connection. In
step (OrderInv): what is under way is nothing, the request alone, the whole
reply to it, or what is left of it, depending on `pc`. Spoiled (SpoiledInv):
there is always something older in front of the awaited reply, because a
command takes one unit and its own reply has two or more, unless the server is
lost. Both rest on `FreshId`: the id a command draws is none of those drawn
before on the connection, which is where `MaxAsked <= IdSpace` is used. OwnReply
is then a property of the one step that returns `ok`.

`MongoUriProofs` has three parts. The loops of the code over names, options and
records are recursive functions or folds. A definition of such a function says
nothing until a function that satisfies it is shown to exist (`LoopExists`,
`FoldExists`: the loop has a measure that falls, and CHOOSE finds one); what
it returns after k turns is then an induction over k, each written as "no least
counterexample" (`LeastNatural`).

- *Names.* `NamesInv`: every name of the message is `Spelled`, that is, its labels
  lie at its place one after the other, up to case, and behind them a byte 0 or a
  pointer to another name of the message, one that takes fewer turns.
  `SpelledIsDecoded` runs decode_name along such a name, through its pointers, by
  induction over the turns; `StaysInside` runs it from anywhere. `EncodedIsSpelled`
  does encode_name. That a name once spelled stays so while the message grows
  behind it is `SpelledGrows`. `NameAssumption`: labels have at most MaxLabel
  letters, MaxLabel is at most 63, and a message is no longer than the 2^14 bytes
  a pointer can reach. Labels are of upper-case letters, so that a name has no
  dot but between its labels and the case of a letter is a choice of the server.
- *Queries.* The parser is composed with its queries (`ParseSpec`). `FrameInv`
  ties the task's place to the two things udp_recv_cb needs: the frame is there
  from the question to the end of the parsing, the registration ends before it.
  CallbackHasFrame and ReplyIsSettled follow in one step, for every set of
  packets, ids and strings.
- *What a parse accepts.* `ParseInv` adds that whatever lies in `ctx->reply`,
  packets of several senders over each other included, has a header and answers
  behind it (`ReplyInv`); that a query is of the kind the parse is waiting for and
  a good one brings options or at least one target (`AskInv`); and that between
  the scan and the end only TXT records have been applied, to values that they may
  set (`OutInv`). The rest is what a fold of apply_option leaves: the last value
  of each key (`OptionsApply`, `LastIsSaid`). `DnsAssumption`: there is room for a
  host, and the null value is not a text.

`FirmwareProofs` is about three services. The *clock*: two words put together are
one clock. `CriticalInv` says who is inside the critical section; while nobody
writes, the stored halves are the quotient and the remainder of an offset of a
reply (`Fix`); a reader that has the first half has that of the present offset
(ReaderInv); and the sum with the uptime is then the true time, or whole wraps
behind (lemma `Added`, where the arithmetic is). `AppImplementsClock` maps each
step of the firmware to one of `TimeSpec`, in which anybody reads the clock at any
time, so that the documents' dates rest on the clock's theorem. Assumptions: word
and wrap are positive, Epoch is more than 1 (a reply outside the sane range is
dropped before), and no reader is called "free" or "sntp", the two other owners
of the critical section.

*Waiting on ticks.* `TickInv` has two facts beside the property: next_attempt_tick
is the remainder of a tick at most one delay away (`DueInv`), and a deadline that
of the tick at which the call began plus its timeout (`CallInv`). The sign of the
difference of two remainders is then that of the difference of the ticks while
they are less than half a range apart. All of it rests on `DivisionUnique`: a
quotient and a remainder in range are *the* quotient and remainder. The delays
need only be at most MaxDelay, below half the range (`TickAssumption`), so the
power of two in the backoff is bounded, not computed.

*The log.* All lines on their way are ordered: those printed, then the one in the
reader's hand, then the queue (`QueueInv`, `PrintInv`), each after those whose
call had ended before its own began; `PastInv` says that a call that goes on has
a higher number than what its caller has sent. The moments of the prints, which do
not wrap, are in order; `StampInv` says that a stamp is the remainder of its moment,
and of two moments with the same number of wraps the later has the later remainder.

`SessionProofs`, on *SCRAM*, says of each signature ever made in which attempt it
was made (`SignedInTime`): one that is repeated is of an earlier attempt, and
signs another message, so the one that the client accepts was made now, with the
key that both derive. It holds for every password, nonce and iteration count.
What it takes for granted is the model's view of a signature as the tuple of its
arguments. On the *cursor*: what is left of the batch are the last documents the
server has sent (`BatchIsTail`), all that was given came before them
(`GivenBefore`), and until a call fails nothing before them is missing
(`NoneMissing`). So an end is the end (`EndIsEnd`) since the client's id says what
the server last told it (`IdSaysMore`); and the iterator points into the reply
that is allocated (`IterInReply`). The parts are inductive together.

`BsonMemoryProofs` is about memory. `HandleInv` says that each block has one owner,
a bson_t that lies in it, one whose bytes are in it, the caller's buffer, or what
documents have let go of, to the caller or to nobody (`OneOwner`);
what each flag of a document says of its other fields (`FlagsSay`); that bytes do
not reach past their block, where a child's are counted from its place in the
parent (`Fits`); that a child's parent waits for this child alone (`Nested`);
that one document at most is over the caller's buffer (`OneForeign`); and that a
hollow document is one over that buffer, or one stolen from it without a block, and
has no child (`Hollow`), since the child's beginning would have made it grow. All
but those fit. A step gives an owner a block, takes one, or moves one, and each of these is a lemma (`Allocates`, `Frees`,
`Moves`, ...). The sizes are powers of two, of which the proof needs that the next
one fits (`NextPowerFits`). `StringInv` says that a string's first `len` cells are
what was appended and not truncated, and the cell behind them its end.
`SizeAssumption`: a bson_t's inline room holds an empty document, the first block
is larger, and twice that is at most BSON_MAX_SIZE.

The same module proves `WalkIsInside`. WalkInside alone is not inductive: a write
through the innermost iterator could change the length that an outer one has
accepted, and the outer one does not look again. `WalkInv` adds that each
iterator but the innermost is at an element with a document inside (`Opens`), and
that every later one's document starts at, or behind, the last cell its accessor
goes by (`Anchor`): where the child starts, which for a code with scope is behind
both lengths. An element's value lies at least two cells behind the start of its
document (the length, the type), so what is overwritten lies behind every such cell
of every outer iterator (`OverwriteStep`). That one step stays inside is
`EndsInside`, one case per kind of element: if the code's tests accept the
element, the last cell its accessor reads is before the place where the next
begins. `WalkAssumption` says that a buffer is a sequence of numbers.

`BsonValueProofs` shows of ObjectIDs, from the spin lock (`LockInv`), that each seeding has a
number of its own (`RandInv`) and that seq64 hands out each value once
(`Seq64Inv`); that a context is seeded once, by one task (`SeedInv`, which rests
on `Alone`); and that an ObjectID's number lies behind its context's counter:
below it for seq64, by 1 to n steps modulo SeqWrap for seq32, where n ObjectIDs
have been made since (`DrawnInv`). Equal numbers of seq32 are then a whole round apart
(`ModFixed`), since equal bytes have equal randomness in front of them (`SameDigits`)
and so come from one context. Numbers of seq64 lie between their counter's start and
its value (`OwnedInv`, `DrawnInv`), and these ranges are disjoint by `CountersApart`, which is a
premise of the property and no consequence of the code.
Each step's effect on its task's fields is a lemma of its own.
It assumes that no task is called "default".

Of texts it shows Utf8Sound, for strings of bytes of any length and all code points
where the run has four bytes at the edges of the ranges. `Utf8Assumption` says that
CodePoints has every code point that Utf8Bytes can spell (`SpelledBy`): TLC evaluates
it for the edges, with all 256 bytes it is the whole of Unicode.
Validating, spelling and escaping are functions of the position that are defined by
their own values further on; that such functions exist is `Recursion`, by induction
from the end of the string (`Backwards`). A character is then settled by its length
(`Char1` to `Char4` for what spells a code point, `Fits1` to `Fits4` for what the code
asks of it): a character is accepted if and only if it is spelled (`CharSpells`), an
accepted character does not halt the escape (`NotHalted`), and what is written for it
is clean, also when more follows (`EscapedCharIs`, `CleanConcat`). `AgreesStep` puts
these together at a position, given that all three agree at the later ones.

Only model-checked, not proved. Liveness (CallReturns of both modules,
Reconnects) depends on fairness and on ENABLED. DocEncodes, IterAgrees,
ValidateAgrees and JsonTruncates are about functions of libbson that recur over
a document, written with RECURSIVE operators. ConversionsExact is about numbers
and texts that are folded digit by digit, in loops that carry what they have
made so far: unlike UTF-8, no position settles its own character there, so that
the induction would be over data. The violations are counterexamples, which TLC
finds and nothing need prove. The bounds in the guards (MaxFailures, MaxMessage,
MaxTicks and the like) are in the theorems too, as constants without an upper
limit.

## Not modelled

mongo_client_free with tasks still inside (the API forbids it); TLS as such (a
handshake that fails is a connection that fails); the documents of commands; the
aggregator's pipeline, which is constant; the Wi-Fi driver; the CA bundle. Of
libbson: bson_value_t, bson_writer, bcon, the calendar of dates in JSON, and the
digits of a double; `bson-json.c`, `bson-reader.c` and `bson-md5.c` are not
compiled into the firmware. DSL and API headers are declarations.

Known limits of the code that no property states, since nothing promises more:
without a cached primary only the first seed is dialled (`mongo_client.c:250`);
transport codes are returned where wire codes are documented (266); connect on a
transport whose peer sent FIN opens a second pcb (`mongo_transport.c:242`, no
caller does it); a reply that arrives together with the FIN may be reported as a
closed connection (407); one timeout_ms is spent up to four times per command
(251).

## Plan

Done: the client, the transport and the wire with their proofs; DNS, URI, clock,
log, cursor, ticks and SCRAM; libbson's documents, texts and ObjectIDs; the
proofs of every safety property of the services, of libbson's memory and of its
iterator; that the transport implements ByteStream.

1. Composition: ByteStream as the transport that MongoClient assumes (down,
   linked, broken) and that MongoWire reads from.
2. Copies of an iterator that live on while the original goes on.
3. A server that accepts connections and fails hello, against Reconnects.
