----------------------------- MODULE MCServices -----------------------------
(***************************************************************************)
(* The services around the client, checked side by side: `focus' picks the *)
(* one that moves, so that their states add up instead of multiplying.     *)
(***************************************************************************)
EXTENDS DnsName, MongoUri, App, Logger, MongoCursor, Ticks, Scram, BsonOid

VARIABLE focus

vars == <<focus, nameVars, dnsVars, uriVars, timeVars, appVars, logVars,
          findVars, tickVars, scramVars, oidVars>>

(* What may answer a query: our answer in several shapes, an answer with   *)
(* errors, and a stranger's packet.  MCId is the id of our query.          *)
Header(id, qr, rcode, name, n) ==
  [id |-> id, qr |-> qr, rcode |-> rcode, qdcount |-> 1, name |-> name, ancount |-> n]
Rr(type, data) == [type |-> type, data |-> data]
Option(k, v) == [key |-> k, val |-> v]
MCTxt == <<Option("authSource", "ext"), Option("replicaSet", "rs"), Option("tls", "false")>>

MCPackets ==
  { <<Header(1, TRUE, 0, "_srv.seed", 2), Rr("srv", "a"), Rr("srv", "b")>>,
    <<Header(1, TRUE, 0, "_srv.seed", 3), Rr("srv", NULL), Rr("srv", ""), Rr("srv", "b")>>,
    <<Header(1, TRUE, 0, "_srv.seed", 4), Rr("srv", "a"), Rr("srv", "b"), Rr("srv", "c"),
      Rr("broken", NULL)>>,
    <<Header(1, TRUE, 0, "_srv.seed", 2), Rr("broken", NULL), Rr("srv", "a")>>,
    <<Header(1, TRUE, 0, "seed", 2), Rr("other", NULL), Rr("txt", MCTxt)>>,
    <<Header(1, TRUE, 0, "seed", 2), Rr("txt", <<>>), Rr("txt", MCTxt)>>,
    <<Header(1, TRUE, 3, "seed", 0)>>,
    <<Header(1, FALSE, 0, "seed", 0)>>,
    <<Header(2, TRUE, 0, "seed", 1), Rr("txt", <<Option("replicaSet", "x")>>)>>,
    <<Header(2, TRUE, 0, "_srv.seed", 1), Rr("srv", "x")>> }

Uri(scheme, userinfo, hosts, db, options) ==
  [scheme |-> scheme, userinfo |-> userinfo, hosts |-> hosts, db |-> db, options |-> options]
MCHosts == {<<>>, <<"seed">>, <<"seed", "a">>, <<NULL>>, <<"">>, <<"seed", "a", NULL>>,
            <<"seed", "a", "b">>}
MCOptions == {<<>>, <<Option("tls", "false"), Option("authSource", "own")>>,
              <<Option("replicaSet", "long"), Option("allowInsecureAuth", "true"),
                Option("tls", "true"), Option("authSource", "long")>>,
              <<Option("authSource", "old"), Option("authSource", "own")>>}
MCUris == {Uri(s, u, h, d, o) : s \in {"plain", "srv", "other"}, u \in {"none", "ok", "bad"},
                                h \in MCHosts, d \in {"ok", "long"}, o \in MCOptions}
MCSrvNameOf == [seed |-> "_srv.seed"]
MCTexts == STRING
MCLabels == {<<65>>, <<66, 67>>}

Init == /\ NameInit /\ DnsInit /\ UriInit /\ AppInit /\ LogInit
        /\ CursorInit /\ TickInit /\ ScramInit /\ OidInit
        /\ focus \in {"names", "uri", "app", "log", "cursor", "ticks", "auth", "oids"}
        /\ focus # "uri" => uri = Uri("other", "none", <<>>, "ok", <<>>) /\ expect = 1
        /\ focus # "auth" => password = "pw" /\ serverPw = "pw"

Names == focus = "names" /\ NameNext
         /\ UNCHANGED <<focus, dnsVars, uriVars, timeVars, appVars, logVars, findVars, tickVars, scramVars, oidVars>>
Parsing == focus = "uri" /\ (UriStep \/ (DnsNext /\ UNCHANGED uriVars))
           /\ UNCHANGED <<focus, nameVars, timeVars, appVars, logVars, findVars, tickVars, scramVars, oidVars>>
Booting == focus = "app" /\ AppNext
           /\ UNCHANGED <<focus, nameVars, dnsVars, uriVars, logVars, findVars, tickVars, scramVars, oidVars>>
Logging == focus = "log" /\ LogNext
           /\ UNCHANGED <<focus, nameVars, dnsVars, uriVars, timeVars, appVars, findVars, tickVars, scramVars, oidVars>>
Finding == focus = "cursor" /\ CursorNext
           /\ UNCHANGED <<focus, nameVars, dnsVars, uriVars, timeVars, appVars, logVars, tickVars, scramVars, oidVars>>
Waiting == focus = "ticks" /\ TickNext
           /\ UNCHANGED <<focus, nameVars, dnsVars, uriVars, timeVars, appVars, logVars, findVars, scramVars, oidVars>>
Proving == focus = "auth" /\ ScramNext
           /\ UNCHANGED <<focus, nameVars, dnsVars, uriVars, timeVars, appVars, logVars, findVars, tickVars, oidVars>>
Making == focus = "oids" /\ OidNext
          /\ UNCHANGED <<focus, nameVars, dnsVars, uriVars, timeVars, appVars, logVars, findVars, tickVars, scramVars>>

Next == Names \/ Parsing \/ Booting \/ Logging \/ Finding \/ Waiting \/ Proving \/ Making
Spec == Init /\ [][Next]_vars
=============================================================================
