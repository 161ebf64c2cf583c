-------------------------------- MODULE Scram --------------------------------
(***************************************************************************)
(* mongo_authenticate (mongo_auth.c): the choice of a mechanism and the    *)
(* SCRAM conversation, attempt after attempt, with a server that has the   *)
(* user's password, or had another one, and may repeat what it said in an  *)
(* earlier attempt or leave fields out.                                    *)
(*                                                                         *)
(* A key, proof or signature is the tuple of what it is computed from.     *)
(* The random nonce of the n-th attempt is n.  What a failed command       *)
(* leaves on the wire is MongoWire's.                                      *)
(***************************************************************************)
EXTENDS Integers, Sequences

CONSTANTS Passwords,      \* the client's is one of them
          Stored,         \* passwords the server may have for the user
          ServerNonces,   \* what servers append to the nonce; "" is nothing
          MinIterations, MaxIterations,  \* SCRAM_MIN_ITERATIONS, SCRAM_MAX_ITERATIONS
          Iterations,     \* counts that servers name
          MaxAttempts     \* bound

Sha1 == "SCRAM-SHA-1"
Sha256 == "SCRAM-SHA-256"
NoMech == "none"
NotAscii == "not ASCII"   \* a password with a byte above 127
Long == "long"            \* a password of more than 63 bytes

VARIABLES
  password,     \* the client's
  step,         \* where the client is: "idle", "first", "final" or "last"
  attempt,      \* how many attempts so far; the nonce of this one
  mech,         \* the mechanism chosen
  authMessage,  \* auth_message, <<>> before server-first is parsed
  authRc,       \* what the last attempt returned, "" while it runs
  serverPw,     \* what the server has for the user
  serverFirst,  \* the server-first it has sent in this attempt, or <<>>
  serverUp,     \* whether it takes the connection for authenticated: "no",
                \* "proved" (but for the last, empty exchange) or "yes"
  firsts,       \* all it has sent as server-first, and as signatures
  signatures

scramVars == <<password, step, attempt, mech, authMessage, authRc, serverPw, serverFirst, serverUp, firsts, signatures>>

ScramInit ==
  /\ password \in Passwords /\ step = "idle" /\ attempt = 0 /\ mech = NoMech /\ authMessage = <<>> /\ authRc = ""
  /\ serverPw \in Stored /\ serverFirst = <<>> /\ serverUp = "no"
  /\ firsts = {} /\ signatures = {}

(* server-first: r= (the client's nonce, then `own'), s= and i=.  `whole'  *)
(* is FALSE when a field is missing or too long, `ext' is a leading m=, a  *)
(* salt that is no base64 or too long is "bad".                            *)
First(nonce, own, salt, count) ==
  [nonce |-> nonce, own |-> own, salt |-> salt, count |-> count, whole |-> TRUE, ext |-> FALSE]

(* client-first-bare, server-first and client-final-without-proof, which   *)
(* repeats the nonces of server-first.                                     *)
AuthMessage(first) == <<attempt, first, first.nonce, first.own>>

(* prep_password: the password, or for SHA-1 the MONGODB-CR digest of it.  *)
Prepared(pw) == IF mech = Sha1 THEN <<"md5", pw>> ELSE <<"plain", pw>>
Key(pw, first) == <<Prepared(pw), first.salt, first.count, mech>>
Proof(key, msg) == <<"proof", key, msg>>
Signature(key, msg) == <<"signature", key, msg>>

Return(rc) == step' = "idle" /\ authRc' = rc
-----------------------------------------------------------------------------
(* mongo_authenticate: SHA-256 if the server lists it or lists nothing,    *)
(* else SHA-1.  `mechs' has the entries of saslSupportedMechs.             *)
Unlisted == {"unlisted"}
Chosen(mechs) ==
  IF mechs = Unlisted \/ Sha256 \in mechs THEN Sha256 ELSE IF Sha1 \in mechs THEN Sha1 ELSE NoMech

Authenticate(mechs) ==
  /\ step = "idle" /\ attempt < MaxAttempts
  /\ attempt' = attempt + 1 /\ mech' = Chosen(mechs) /\ authMessage' = <<>>
  /\ serverPw' \in Stored /\ serverFirst' = <<>> /\ serverUp' = "no"
  /\ IF mech' = NoMech THEN Return("protocol")
     ELSE IF password = NotAscii THEN Return("ascii only")
     ELSE IF password = Long /\ mech' = Sha256 THEN Return("crypto")
     ELSE step' = "first" /\ authRc' = ""
  /\ UNCHANGED <<password, firsts, signatures>>

(* A command of the conversation fails on the wire, or the server rejects  *)
(* it.                                                                     *)
CommandFails ==
  /\ step \in {"first", "final"} /\ \E rc \in {"transport", "rejected"} : Return(rc)
  /\ UNCHANGED <<password, attempt, mech, authMessage, serverPw, serverFirst, serverUp, firsts, signatures>>

(* The checks of server-first, in their order. *)
FirstRc(first) ==
  IF first.ext \/ ~first.whole THEN "protocol"
  ELSE IF first.nonce # attempt \/ first.own = "" THEN "nonce mismatch"
  ELSE IF first.count \notin MinIterations..MaxIterations \/ first.salt = "bad" THEN "protocol"
  ELSE "ok"

(* What a server may send: a proper server-first, a crippled one, or one   *)
(* of an earlier attempt.                                                  *)
Proper == First(attempt, "s", "salt", MinIterations)
Firsts ==
  {First(attempt, own, salt, n) : own \in ServerNonces, salt \in {"salt", "bad"}, n \in Iterations}
  \union {[Proper EXCEPT !.ext = TRUE], [Proper EXCEPT !.whole = FALSE]} \union firsts

(* saslStart and its reply. *)
Start(first) ==
  /\ step = "first" /\ first \in Firsts
  /\ firsts' = firsts \union {first} /\ serverFirst' = <<first>>
  /\ IF FirstRc(first) = "ok"
     THEN step' = "final" /\ authMessage' = AuthMessage(first) /\ UNCHANGED authRc
     ELSE Return(FirstRc(first)) /\ UNCHANGED authMessage
  /\ UNCHANGED <<password, attempt, mech, serverPw, serverUp, signatures>>

(* The server's side of saslContinue: it has its own copy of all three     *)
(* messages, and answers a right proof only with the signature.            *)
ServerMessage == <<attempt, serverFirst[1], serverFirst[1].nonce, serverFirst[1].own>>
ServerKey == Key(serverPw, serverFirst[1])
ClientKey == Key(password, authMessage[2])
Proved == Proof(ClientKey, authMessage) = Proof(ServerKey, ServerMessage)
OwnSignature == Signature(ServerKey, ServerMessage)

(* server-final: <<>> stands for a payload that is missing or without v=,  *)
(* <<"short">> for a signature of another length.                          *)
FinalRcAnyLength(signature) ==    \* mutant: nothing is compared of a short signature
  IF signature = <<>> THEN "protocol"
  ELSE IF signature \in {<<"short">>, Signature(ClientKey, authMessage)} THEN "ok" ELSE "server signature"
FinalRc(signature) ==
  IF signature = <<>> THEN "protocol"
  ELSE IF signature = Signature(ClientKey, authMessage) THEN "ok" ELSE "server signature"

(* A server may ignore skipEmptyExchange: `done' is false, and one more    *)
(* round follows.                                                          *)
Continue(signature, done) ==
  /\ step = "final"
  /\ signature \in {<<>>, <<"short">>} \union signatures \union (IF Proved THEN {OwnSignature} ELSE {})
  /\ signatures' = signatures \union (IF Proved THEN {OwnSignature} ELSE {})
  /\ serverUp' = IF ~Proved THEN "no" ELSE IF done THEN "yes" ELSE "proved"
  /\ IF FinalRc(signature) = "ok" /\ ~done THEN step' = "last" /\ UNCHANGED authRc
     ELSE Return(FinalRc(signature))
  /\ UNCHANGED <<password, attempt, mech, authMessage, serverPw, serverFirst, firsts>>

(* The last, empty saslContinue: whatever becomes of it, the client        *)
(* returns MONGO_AUTH_OK.                                                  *)
LastRound ==
  /\ step = "last" /\ Return("ok") /\ serverUp' \in {serverUp, "yes"}
  /\ UNCHANGED <<password, attempt, mech, authMessage, serverPw, serverFirst, firsts, signatures>>

ScramNext ==
  \/ \E mechs \in {Unlisted, {}, {Sha1}, {Sha256}, {Sha1, Sha256}} : Authenticate(mechs)
  \/ \E first \in Firsts : Start(first)
  \/ \E done \in BOOLEAN, signature \in {<<>>, <<"short">>} \union signatures
         \union (IF step = "final" THEN {OwnSignature} ELSE {}) : Continue(signature, done)
  \/ CommandFails \/ LastRound
-----------------------------------------------------------------------------
(* MONGO_AUTH_OK means that a server with the user's password has signed   *)
(* this very attempt, whatever it repeated from earlier ones, and that it  *)
(* has accepted the client's proof, if not yet the last, empty round.      *)
OkIsMutual ==
  authRc = "ok" => /\ serverPw = password /\ serverUp # "no"
                   /\ authMessage = ServerMessage /\ authMessage[2].nonce = attempt

(* A server that has the user's password and was understood accepts the    *)
(* proof: both sides derive the same keys from the same messages.          *)
ProofAccepted == step = "final" /\ serverPw = password => Proved

AuthSound == OkIsMutual /\ ProofAccepted
=============================================================================
