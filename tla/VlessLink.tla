----------------------------- MODULE VlessLink -----------------------------
(***************************************************************************)
(* The vless:// link (crates/vpncore/src/vless.rs) and the outbound that   *)
(* xray gets of it (crates/vpncore/src/xray_config.rs).  A link is a       *)
(* sequence of pieces: the scheme, each character the parser looks for,    *)
(* each %XX, and what is between them.                                     *)
(***************************************************************************)
EXTENDS Naturals, Sequences, SequencesExt

Blank == " "

\* percent_decode, of the %XX that links are made of; "+" stays.
Plain == [code \in {"%20", "%23", "%26", "%3D"} |->
            CASE code = "%20" -> Blank [] code = "%23" -> "#" [] code = "%26" -> "&"
              [] code = "%3D" -> "="]

Decode(s) == [k \in DOMAIN s |-> IF s[k] \in DOMAIN Plain THEN Plain[s[k]] ELSE s[k]]

\* split_once and rsplit_once: what is before and after the piece at k.
First(s, p) == SelectInSeq(s, LAMBDA q : q = p)
Final(s, p) == SelectLastInSeq(s, LAMBDA q : q = p)
Before(s, k) == IF k = 0 THEN s ELSE SubSeq(s, 1, k - 1)
After(s, k)  == IF k = 0 THEN <<>> ELSE SubSeq(s, k + 1, Len(s))

Split(s, p) ==
    FoldLeft(LAMBDA acc, q : IF q = p THEN Append(acc, <<>>)
                             ELSE [acc EXCEPT ![Len(acc)] = Append(@, q)], << <<>> >>, s)

-----------------------------------------------------------------------------
(* parse *)

NoLink == [ok |-> FALSE]

\* The address is followed by nothing, or by ":" and a port that parse_port takes.
DefaultPort == <<"443">>
Ports == {<<"443">>, <<"8443">>}

Uuids == {<<"uuid">>}

\* Mutant: an address without brackets is cut at its first ":", like one with.
MutantEndpoint(s) ==
    LET from == First(s, ":")
        port == IF from = 0 THEN DefaultPort ELSE After(s, from)
    IN [host |-> Before(s, from), port |-> port,
        ok |-> port \in Ports /\ Before(s, from) # <<>>]

\* host:port; an IPv6 address is in brackets, after which only ":port" is looked at.
Endpoint(s) ==
    LET v6   == s # <<>> /\ s[1] = "["
        end  == First(s, "]")
        from == IF v6 THEN end + 1 ELSE Final(s, ":")
        host == IF v6 THEN SubSeq(s, 2, end - 1) ELSE Before(s, from)
        port == IF (v6 /\ from <= Len(s) /\ s[from] = ":") \/ (~ v6 /\ from # 0)
                THEN After(s, from) ELSE DefaultPort
    IN [host |-> host, port |-> port,
        ok |-> (v6 => end # 0) /\ port \in Ports /\ host # <<>>]

ReadParam(params, pair) ==
    LET k == First(pair, "=") IN
    IF pair = <<>> THEN params
    ELSE Append(params, <<Decode(Before(pair, k)), Decode(After(pair, k))>>)

ParseLink(s) ==
    LET rest  == Tail(s)
        name  == First(rest, "#")
        link  == Before(rest, name)
        query == First(link, "?")
        auth  == Split(Before(link, query), "/")[1]
        at    == Final(auth, "@")
        end   == Endpoint(After(auth, at))
    IN IF s = <<>> \/ s[1] \notin {"vless://", "VLESS://"} THEN NoLink
       ELSE IF at = 0 \/ Before(auth, at) \notin Uuids \/ ~ end.ok THEN NoLink
       ELSE [ok |-> TRUE, id |-> Before(auth, at), host |-> end.host, port |-> end.port,
             name |-> Decode(After(rest, name)),
             params |-> FoldLeft(ReadParam, <<>>, Split(After(link, query), "&"))]

\* Of two parameters with one key the last counts.
Param(params, key, default) ==
    FoldLeft(LAMBDA v, p : IF p[1] = key THEN p[2] ELSE v, default, params)

\* looks_like_vless: the scheme in any case.
LooksLikeVless(s) == s # <<>> /\ s[1] \in {"vless://", "VLESS://", "Vless://"}

-----------------------------------------------------------------------------
\* build_from_uri: of the outbound what tells where it goes and how.
Xray(uri) ==
    LET asked == Param(uri.params, <<"security">>, <<"none">>)
        mode == IF asked \in {<<"reality">>, <<"tls">>} THEN asked ELSE <<"none">>
        of(modes, key, default) ==
            IF mode \in modes THEN Param(uri.params, <<key>>, default) ELSE <<>>
    IN [address |-> uri.host, port |-> uri.port, id |-> uri.id,
        flow |-> Param(uri.params, <<"flow">>, <<>>),
        network |-> Param(uri.params, <<"type">>, <<"tcp">>),
        security |-> mode,
        serverName |-> of({<<"reality">>, <<"tls">>}, "sni", <<>>),
        fingerprint |-> of({<<"reality">>, <<"tls">>}, "fp", <<"chrome">>),
        publicKey |-> of({<<"reality">>}, "pbk", <<>>),
        shortId |-> of({<<"reality">>}, "sid", <<>>)]
=============================================================================
