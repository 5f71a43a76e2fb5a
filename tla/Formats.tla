------------------------------ MODULE Formats ------------------------------
(***************************************************************************)
(* The texts that WgConf, OvpnConf, VlessLink and Profiles are             *)
(* checked on: one text of one format, which grows by a line or a part at  *)
(* a time, so that every text of up to MaxLength of them is a state.       *)
(***************************************************************************)
EXTENDS Profiles

CONSTANT MaxLength   \* lines or parts, by format

VARIABLES format, text

vars == <<format, text>>

AllFormats == {"wg", "ovpn", "link", "import", "profile"}

Init == format \in AllFormats /\ text = <<>>

-----------------------------------------------------------------------------
(* The lines and parts. *)

Good(kind) ==
    CASE kind = "wg"    -> <<W!Header("Interface"), W!Pair("PrivateKey", <<"k">>)>>
      [] kind = "ovpn"  -> <<O!Words(0, "client", <<>>, 0)>>
      [] kind = "vless" -> <<Link(<<"vless://", "uuid", "@", "host">>)>>

WgLines ==
    {W!Header(name) : name \in {"Interface", "Peer", "Office"}}
    \cup {W!Pair(key, <<"a", ",", "b">>) : key \in {"PrivateKey", "DNS", "AllowedIPs"}}
    \cup {W!Pair("MTU", <<"01280">>), W!Pair("ListenPort", <<"65536">>),
          W!Pair("PostUp", <<"a", "#", "b">>), W!Pair("PostUp", <<"#", "a">>),
          Comment(FALSE)}

OvpnLines ==
    {O!Words(0, word, <<>>, 0) : word \in {"client", "<ca>", "auth-nocache"}}
    \cup {O!Words(1, word, <<"file">>, 0) : word \in {"auth-user-pass", "askpass", "up"}}
    \cup {O!Words(0, "auth-user-pass", <<"file">>, 1), O!Words(0, "auth-user-pass", <<>>, 0),
          O!Words(0, "auth-user-pass-verify", <<"file">>, 0),
          O!Words(0, "remote", <<"h", "1194">>, 0), O!Words(0, "remote", <<"g", "x">>, 0),
          Comment(FALSE)}

Addresses ==
    [host : {<<"host">>, <<"a", ":", "b">>}, port : {<<>>, <<"8443">>},
     name : {<<>>, <<"my", Blank, "#", "1">>}]

Params ==
    {<<"security">>} \X {<<"reality">>, <<"tls">>, <<"xtls">>}
    \cup {<<"sni">>, <<"fp">>, <<"flow">>, <<"pbk">>} \X {<<"x">>, <<"x", "&", "=", "y">>, <<>>}

ImportLines ==
    {W!Header("Interface"), W!Pair("PrivateKey", <<"k">>), Comment(FALSE), Comment(TRUE),
     BlankLine, O!Words(0, "client", <<>>, 0), O!Words(0, "remote", <<"h">>, 0),
     O!Words(0, "remote", <<>>, 0)}

Links ==
    LET schemes == {"vless://", "VLESS://", "Vless://", "http://"}
        ends == {<<>>, <<Blank>>, <<":", "8443">>, <<":", "8443", Blank>>}
    IN {Link(lead \o <<scheme, user, "@">> \o host \o end) :
          lead \in {<<>>, <<Blank>>}, scheme \in schemes, user \in {"uuid", "nobody"},
          host \in {<<>>, <<"host">>, <<"[", "a", ":", "b", "]">>}, end \in ends}

\* Of the profile: what it has of each kind, in the order wg, ovpn, vless.
Configs(kind) == {<<>>, << <<>> >>, <<Good(kind)>>}

Parts ==
    CASE format = "wg"   -> WgLines
      [] format = "ovpn" -> OvpnLines
      [] format = "link" -> IF text = <<>> THEN Addresses ELSE Params
      [] format = "import" -> IF text = <<>> THEN ImportLines \cup Links
                              ELSE IF text[1].is = "link" THEN {} ELSE ImportLines
      [] format = "profile" -> Configs(<<"wg", "ovpn", "vless">>[Len(text) + 1])

Grow ==
    /\ Len(text) < MaxLength[format]
    /\ \E part \in Parts : text' = Append(text, part)
    /\ UNCHANGED format

Next == Grow

Spec == Init /\ [][Next]_vars

-----------------------------------------------------------------------------
(* WireGuard. *)

Overrides ==
    {[set |-> FALSE, list |-> <<>>]} \cup [set : {TRUE}, list : {<<>>, <<"c">>, <<"c", "d">>}]

\* What the engine writes for the service reads back as the profile's configuration with
\* the overrides and nothing else changed, unknown keys, repeated keys and all
\* (wg.rs:5-7 says that unknown keys survive the round trip). It is so of overrides whose
\* elements are one word each: nobody checks them (rpc.rs:157, wg.rs:245-255), and one
\* with a comma or a comment character in it reads back as something else.
ServiceReadsProfile ==
    format = "wg" /\ W!Parse(text).ok =>
        \A ips, dns \in Overrides :
            LET o == [ips |-> ips, dns |-> dns] IN
            W!Parse(W!ServiceConf(text, o)) =
                [ok |-> TRUE, conf |-> W!WithOverrides(W!Parse(text).conf, o)]

-----------------------------------------------------------------------------
(* OpenVPN. *)

\* With a blank after auth-user-pass its line is spoilt (ovpn.rs:115).
Spoilt(line) == O!IsWord(line, O!AuthUserPass) /\ line.trail # 0

\* The lines that normalizing leaves as they are.
AddOther(others, line) ==
    IF O!IsWord(line, O!AuthUserPass \cup O!AuthNocache) \/ O!Dropped(line)
    THEN others ELSE Append(others, line)

Others(lines) == FoldLeft(AddOther, <<>>, lines)

\* In the configuration that openvpn is run with no auth-user-pass names a file, and
\* there is one, as there is an auth-nocache; what is read of it and its other lines are
\* the profile's; and normalizing it again changes nothing (ovpn.rs:75-89, and the
\* tests). Two lines of auth-user-pass stay two.
NormalizedForDaemon ==
    (format = "ovpn" /\ \A k \in DOMAIN text : ~ Spoilt(text[k])) =>
        LET n == O!Normalize(text) IN
        /\ \A k \in DOMAIN n :
             O!IsWord(n[k], O!AuthUserPass) => n[k].word = "auth-user-pass" /\ n[k].args = <<>>
        /\ O!Info(n) = [O!Info(text) EXCEPT !.auth = TRUE]
        /\ \E k \in DOMAIN n : O!IsWord(n[k], O!AuthNocache)
        /\ Others(n) = Others(text) /\ O!Normalize(n) = n

-----------------------------------------------------------------------------
(* Links. *)

Encode(s) ==
    [k \in DOMAIN s |-> IF \E p \in DOMAIN Plain : Plain[p] = s[k]
                        THEN CHOOSE p \in DOMAIN Plain : Plain[p] = s[k] ELSE s[k]]

\* The link as the portal and other panels make it of an address and parameters.
MakeLink(address, params) ==
    LET v6 == Contains(address.host, ":") IN
    <<"vless://", "uuid", "@">>
    \o (IF v6 THEN <<"[">> \o address.host \o <<"]">> ELSE address.host)
    \o (IF address.port = <<>> THEN <<>> ELSE <<":">> \o address.port)
    \o FlattenSeq([k \in DOMAIN params |->
         <<IF k = 1 THEN "?" ELSE "&">> \o Encode(params[k][1]) \o <<"=">> \o Encode(params[k][2])])
    \o (IF address.name = <<>> THEN <<>> ELSE <<"#">> \o Encode(address.name))

\* A link leads xray to the server it was made for, under the name and with the
\* parameters it was made with, whatever characters are in them, and a link that asks
\* for TLS or REALITY is never used in the clear (vless.rs:58-60, xray_config.rs:42-68).
LinkReachesServer ==
    format = "link" /\ text # <<>> =>
        LET a == text[1]
            made == Tail(text)
            uri == ParseLink(MakeLink(a, made))
            x == Xray(uri)
            secured == {k \in DOMAIN made : made[k][1] = <<"security">>}
            mode == IF secured = {} THEN <<"none">>
                    ELSE made[CHOOSE k \in secured : \A j \in secured : j <= k][2]
        IN /\ uri.ok /\ uri.name = a.name /\ uri.params = made
           /\ x.address = a.host
           /\ x.port = IF a.port = <<>> THEN <<"443">> ELSE a.port
           /\ mode \in {<<"reality">>, <<"tls">>} <=> x.security # <<"none">>
           /\ x.security # <<"none">> =>
                \A k \in DOMAIN made : made[k][1] = <<"sni">> =>
                    \E j \in DOMAIN made : made[j] = <<<<"sni">>, x.serverName>>

-----------------------------------------------------------------------------
(* Profiles. *)

\* An imported profile can be connected, but for a link whose host is only blanks, which
\* are cut after the check; and it is of the kind that the window took it for, if for
\* any, but for a WireGuard text with a comment about a remote (state.rs:292-320,
\* types.ts:76-82).
ImportedAsSeen ==
    format = "import" /\ Import(text).ok =>
        LET p == Import(text).profile IN
        /\ \/ Validate(p)
           \/ p.kind = "vless" /\ ToSet(Tail(Pieces(text))) = {"uuid", "@", Blank}
        /\ \/ DetectKind(text) \in {"none", p.kind}
           \/ p.kind = "wireguard" /\ Comment(TRUE) \in ToSet(text)

\* A client that sends back the profile it was shown, with another name, loses none of
\* its configurations, and the profile can be connected as before (model.rs:169-172).
EditKeepsSecrets ==
    format = "profile" /\ Len(text) = 3 =>
        \A kind \in {"wireguard", "openvpn", "vless"} :
            LET p == [kind |-> kind, wg |-> text[1], ovpn |-> text[2], vless |-> text[3]]
                edited == Update(p, PublicView(p))
            IN edited.ok = Validate(p) /\ (edited.ok => edited.profile = p)
=============================================================================
