------------------------------- MODULE WgConf -------------------------------
(***************************************************************************)
(* The WireGuard configuration (crates/vpncore/src/wg.rs): a text is a     *)
(* sequence of lines, and a line is what its first characters make it: a   *)
(* section's header, a pair "key = value", words, a comment or a blank.    *)
(* A value is a sequence of the pieces that matter: ",", "#" (either       *)
(* character that begins a comment), and anything else.                    *)
(***************************************************************************)
EXTENDS Naturals, Sequences, SequencesExt

Header(name)     == [is |-> "section", name |-> name]
Pair(key, value) == [is |-> "pair", key |-> key, value |-> value]

\* The keys of each section, in the order of render; any other key is kept as extra.
Keys == [Interface |-> <<"PrivateKey", "Address", "DNS", "ListenPort", "Fwmark", "MTU">>,
         Peer |-> <<"PublicKey", "PresharedKey", "AllowedIPs", "Endpoint",
                    "PersistentKeepalive">>]

Lists   == {"Address", "DNS", "AllowedIPs"}
Numbers == {"ListenPort", "MTU", "PersistentKeepalive"}

\* What parse::<u16> and parse::<u32> make of some digits, and render of the number.
Canonical == [d \in {"1280", "01280", "65536"} |-> IF d = "01280" THEN "1280" ELSE d]

Fits(key, value) ==
    Len(value) = 1 /\ value[1] \in DOMAIN Canonical
    /\ (key = "ListenPort" => value # <<"65536">>)

NewSection(name) == [known |-> [k \in ToSet(Keys[name]) |-> <<>>], extra |-> <<>>]

\* strip_comment: also inside a value.
Uncommented(value) ==
    IF Contains(value, "#") THEN SubSeq(value, 1, SelectInSeq(value, LAMBDA p : p = "#") - 1)
                            ELSE value

SplitList(value) ==
    FoldLeft(LAMBDA list, p : IF p = "," THEN list ELSE Append(list, p), <<>>, value)

\* A list grows, of anything else the last one counts.
AddPair(sec, key, value) ==
    IF key \notin DOMAIN sec.known
    THEN [sec EXCEPT !.extra = Append(@, <<key, value>>)]
    ELSE [sec EXCEPT !.known[key] =
           CASE key \in Lists   -> @ \o SplitList(value)
             [] key \in Numbers -> <<Canonical[value[1]]>>
             [] OTHER           -> value]

-----------------------------------------------------------------------------
(* parse: at holds the section being read; an error ends it. *)

Fail(acc) == [acc EXCEPT !.ok = FALSE]

ReadHeader(acc, name) ==
    CASE name = "Interface" /\ ~ acc.seen ->
            [acc EXCEPT !.seen = TRUE, !.at = name]
      [] name = "Peer" ->
            [acc EXCEPT !.at = name, !.conf.peers = Append(@, NewSection("Peer"))]
      [] OTHER -> Fail(acc)

ReadPair(acc, key, value) ==
    IF \/ value = <<>> \/ acc.at = "none"
       \/ key \in Numbers /\ key \in ToSet(Keys[acc.at]) /\ ~ Fits(key, value)
    THEN Fail(acc)
    ELSE CASE acc.at = "Interface" -> [acc EXCEPT !.conf.interface = AddPair(@, key, value)]
           [] acc.at = "Peer" ->
                [acc EXCEPT !.conf.peers[Len(acc.conf.peers)] = AddPair(@, key, value)]

ReadLine(acc, line) ==
    IF ~ acc.ok \/ line.is \in {"blank", "comment"} THEN acc
    ELSE CASE line.is = "section" -> ReadHeader(acc, line.name)
           [] line.is = "pair" -> ReadPair(acc, line.key, Uncommented(line.value))
           [] OTHER -> Fail(acc)

Parse(text) ==
    LET start == [ok |-> TRUE, seen |-> FALSE, at |-> "none",
                  conf |-> [interface |-> NewSection("Interface"), peers |-> <<>>]]
        end == FoldLeft(ReadLine, start, text)
    IN [ok |-> end.ok /\ end.seen, conf |-> end.conf]

-----------------------------------------------------------------------------
(* render, and the overrides: None, or what replaces a list. *)

Join(list) == FoldLeft(LAMBDA s, p : IF s = <<>> THEN <<p>> ELSE s \o <<",", p>>, <<>>, list)

RenderKnown(sec, key) ==
    IF sec.known[key] = <<>> THEN <<>>
    ELSE <<Pair(key, IF key \in Lists THEN Join(sec.known[key]) ELSE sec.known[key])>>

\* Mutant: keys that parse does not know are not written.
MutantRenderSection(name, sec) ==
    <<Header(name)>>
    \o FlattenSeq([k \in DOMAIN Keys[name] |-> RenderKnown(sec, Keys[name][k])])

RenderSection(name, sec) ==
    <<Header(name)>>
    \o FlattenSeq([k \in DOMAIN Keys[name] |-> RenderKnown(sec, Keys[name][k])])
    \o [k \in DOMAIN sec.extra |-> Pair(sec.extra[k][1], sec.extra[k][2])]

Render(conf) ==
    RenderSection("Interface", conf.interface)
    \o FlattenSeq([k \in DOMAIN conf.peers |-> RenderSection("Peer", conf.peers[k])])

WithOverrides(conf, o) ==
    [interface |-> IF o.dns.set THEN [conf.interface EXCEPT !.known["DNS"] = o.dns.list]
                                ELSE conf.interface,
     peers |-> [k \in DOMAIN conf.peers |->
         IF o.ips.set THEN [conf.peers[k] EXCEPT !.known["AllowedIPs"] = o.ips.list]
                      ELSE conf.peers[k]]]

\* What the WireGuard engine writes for the service.
ServiceConf(text, o) == Render(WithOverrides(Parse(text).conf, o))

\* looks_like_wg_config
LooksLikeWg(text) ==
    \E k \in DOMAIN text : text[k].is = "section" /\ text[k].name \in {"Interface", "Peer"}
=============================================================================
