------------------------------ MODULE MongoUri ------------------------------
(***************************************************************************)
(* mongo_uri_parse: a connection string, and for mongodb+srv:// the TXT    *)
(* and SRV queries of MongoDns that complete it.  One parse, which         *)
(* mongo_client_new runs in the task that creates the client.              *)
(*                                                                         *)
(* A string is the record of what its scan meets: the scheme, the user     *)
(* info, the host entries, the database and the options, each well formed  *)
(* or one of the ways in which it is not.                                  *)
(***************************************************************************)
EXTENDS MongoDns

CONSTANTS Uris,       \* connection strings
          SrvNameOf   \* [seed host -> the name "_mongodb._tcp.<seed>"]

(* A host entry is a name, empty before a port, or one that does not fit   *)
(* (NULL).                                                                 *)
UriAssumption ==
  \A u \in Uris : u \in [scheme : {"plain", "srv", "other"}, userinfo : {"none", "ok", "bad"},
                         hosts : Seq(Texts \union {NULL}), db : {"ok", "long"},
                         options : Seq(Options)]
ASSUME UriAssumption

VARIABLES uriPc, uri, out, uriRc

uriVars == <<uriPc, uri, out, uriRc>>
UriCodes == {"ok", "format", "too_many", "dns"}

(* memset and "admin". *)
Blank == [hosts |-> <<>>, tls |-> FALSE, replicaSet |-> NoText, authSource |-> "admin",
          insecure |-> FALSE, user |-> FALSE, db |-> FALSE]

(* apply_option.  A value that does not fit its field is dropped and what  *)
(* the field held stays (copy_n).  TXT may set two of the keys only.       *)
(* "tls" is both spellings of the key: ssl sets the same field.            *)
ApplyIf(u, o, trusted) ==
  [u EXCEPT !.tls = IF o.key = "tls" /\ trusted THEN o.val = "true" ELSE @,
            !.insecure = IF o.key = "allowInsecureAuth" /\ trusted THEN o.val = "true" ELSE @,
            !.replicaSet = IF o.key = "replicaSet" /\ o.val # "long" THEN o.val ELSE @,
            !.authSource = IF o.key = "authSource" /\ o.val # "long" THEN o.val ELSE @]
ApplyAnyOption(u, o, source) == ApplyIf(u, o, TRUE)  \* mutant: the source is not looked at
ApplyOption(u, o, source) == ApplyIf(u, o, source = "uri")

(* parse_options: left to right, so the last of two equal keys stays. *)
ParseOptions(u, options, source) ==
  FoldLeft(LAMBDA acc, o : ApplyOption(acc, o, source), u, options)

(* parse_host_list: the code of the first bad entry in list order. *)
HostListRc(hosts) ==
  LET bad == {i \in DOMAIN hosts : hosts[i] \in {NULL, NoText} \/ i > MaxHosts}
      first == CHOOSE i \in bad : \A j \in bad : i <= j
  IN IF bad = {} THEN "ok" ELSE IF first > MaxHosts THEN "too_many" ELSE "format"

(* What is refused before any network, in the code's order: the prefix,    *)
(* user info that is too long or badly encoded, the hosts, and the         *)
(* database name.                                                          *)
ScanRc(u) ==
  IF u.scheme = "other" \/ u.userinfo = "bad" THEN "format"
  ELSE IF HostListRc(u.hosts) # "ok" THEN HostListRc(u.hosts)
  ELSE IF u.hosts = <<>> \/ (u.scheme = "srv" /\ Len(u.hosts) # 1) \/ u.db = "long"
  THEN "format" ELSE "ok"

Scanned(u) == [Blank EXCEPT !.hosts = u.hosts, !.tls = (u.scheme = "srv"),
                            !.user = (u.userinfo = "ok"), !.db = (u.db = "ok")]

UriInit == /\ uriPc = "new" /\ uri \in Uris /\ out = Blank /\ uriRc = "ok"

(* The string itself; a plain one is complete after its options, an SRV    *)
(* one waits for TXT.                                                      *)
Scan ==
  /\ uriPc = "new" /\ dnsPc = "idle"
  /\ IF ScanRc(uri) # "ok"
     THEN /\ uriPc' = "done" /\ uriRc' = ScanRc(uri) /\ UNCHANGED <<out, dnsPc, asked>>
     ELSE IF uri.scheme = "srv"
     THEN /\ out' = Scanned(uri) /\ uriPc' = "txt" /\ uriRc' = uriRc
          /\ dnsPc' = "ask" /\ asked' = [type |-> "txt", name |-> uri.hosts[1]]
     ELSE /\ out' = ParseOptions(Scanned(uri), uri.options, "uri")
          /\ uriPc' = "done" /\ uriRc' = "ok" /\ UNCHANGED <<dnsPc, asked>>
  /\ UNCHANGED <<uri, ctx, took, dnsRc, found, arrivals>>

(* mongo_dns_query_txt has returned: its options first, so that the URI's  *)
(* can override them; a failed query is no error.  Then SRV.               *)
TxtOptionsOf == IF dnsRc = "ok" THEN found ELSE <<>>
Txt ==
  /\ uriPc = "txt" /\ dnsPc = "idle"
  /\ out' = ParseOptions(out, TxtOptionsOf, "txt")
  /\ uriPc' = "srv" /\ dnsPc' = "ask"
  /\ asked' = [type |-> "srv", name |-> SrvNameOf[uri.hosts[1]]]
  /\ UNCHANGED <<uri, uriRc, ctx, took, dnsRc, found, arrivals>>

(* mongo_dns_query_srv has returned: its targets replace the seed, and the *)
(* URI's options come last.                                                *)
Completed(u) == ParseOptions([u EXCEPT !.hosts = found], uri.options, "uri")
Srv ==
  /\ uriPc = "srv" /\ dnsPc = "idle"
  /\ uriPc' = "done"
  /\ IF dnsRc = "ok" THEN out' = Completed(out) /\ uriRc' = "ok"
                     ELSE out' = out /\ uriRc' = "dns"
  /\ UNCHANGED <<uri, dnsVars>>

UriStep == Scan \/ Txt \/ Srv
-----------------------------------------------------------------------------
(* The value of the last option with this key that fits its field. *)
Says(options, key) ==
  LET hits == {i \in DOMAIN options : /\ options[i].key = key
                                      /\ key \in {"replicaSet", "authSource"}
                                           => options[i].val # "long"}
  IN IF hits = {} THEN NULL ELSE options[CHOOSE i \in hits : \A j \in hits : j <= i].val

(* mongo_uri.c:123: whatever TXT records say, and whenever they say it, a  *)
(* key that the URI gives keeps the URI's value, and transport encryption  *)
(* and the insecure-SCRAM opt-in are the URI's alone.                      *)
UriRules ==
  uriPc = "done" /\ uriRc = "ok" =>
    /\ out.tls = IF Says(uri.options, "tls") = NULL THEN uri.scheme = "srv"
                 ELSE Says(uri.options, "tls") = "true"
    /\ out.insecure = (Says(uri.options, "allowInsecureAuth") = "true")
    /\ \A k \in {"replicaSet", "authSource"} :
         Says(uri.options, k) # NULL => out[k] = Says(uri.options, k)

(* mongo_client dials hosts[0] of whatever parse accepts: an accepted      *)
(* string has a host, and no more than its array holds, whichever of the   *)
(* list's and the resolver's ways to come out empty or too long occurs;    *)
(* and the host has a name.  (An SRV target "." decodes to the empty name, *)
(* which an entry of the list may not be: that one is accepted.)           *)
HostsUsable ==
  uriPc = "done" /\ uriRc = "ok" =>
    /\ Len(out.hosts) \in 1..MaxHosts
    /\ \A i \in DOMAIN out.hosts :
         out.hosts[i] # NULL /\ (uri.scheme = "plain" => out.hosts[i] # NoText)

UriAccepted == UriRules /\ HostsUsable
=============================================================================
