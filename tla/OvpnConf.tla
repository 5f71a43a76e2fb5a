------------------------------ MODULE OvpnConf ------------------------------
(***************************************************************************)
(* The OpenVPN configuration (crates/vpncore/src/ovpn.rs): what the client *)
(* reads of it, and how normalize makes it fit for the daemon to run.  A   *)
(* line of words has its first word, its arguments, and the number of      *)
(* blanks before and after them, which only one line of the code looks at. *)
(* Other lines are those of WgConf; whole inline blocks are one word each. *)
(***************************************************************************)
EXTENDS Naturals, Sequences, SequencesExt

Words(indent, word, args, trail) ==
    [is |-> "words", word |-> word, args |-> args, indent |-> indent, trail |-> trail]

\* The words of the code's list that the texts are made of.
ScriptDirectives == {"up", "script-security", "plugin"}

\* starts_with: a longer word counts too.
Askpass      == {"askpass"}
AuthUserPass == {"auth-user-pass", "auth-user-pass-verify"}
AuthNocache  == {"auth-nocache"}

IsWord(line, words) == line.is = "words" /\ line.word \in words

-----------------------------------------------------------------------------
(* parse: of each directive the first one that has an argument counts, and   *)
(* the port is the one beside the host.                                      *)

NoInfo == [host |-> "", port |-> "", proto |-> "", ca |-> FALSE, auth |-> FALSE]

Argument(line, k) == IF Len(line.args) < k THEN "" ELSE line.args[k]

\* parse::<u16>
Port(digits) == IF digits \in {"1194", "443"} THEN digits ELSE ""

ReadDirective(info, line) ==
    CASE IsWord(line, {"remote"}) /\ info.host = "" ->
           [info EXCEPT !.host = Argument(line, 1), !.port = Port(Argument(line, 2))]
      [] IsWord(line, {"proto"}) /\ info.proto = "" ->
           [info EXCEPT !.proto = Argument(line, 1)]
      [] IsWord(line, {"auth-user-pass"}) -> [info EXCEPT !.auth = TRUE]
      [] IsWord(line, {"<ca>"}) /\ line.args = <<>> -> [info EXCEPT !.ca = TRUE]
      [] OTHER -> info

Info(text) == FoldLeft(ReadDirective, NoInfo, text)

-----------------------------------------------------------------------------
(* normalize *)

\* The indent is the part of the raw line that is as long as all its blanks: with one
\* blank at the end it has a letter of the directive in it.
Bare(line) ==
    Words(line.indent, IF line.trail = 0 THEN "auth-user-pass" ELSE "aauth-user-pass", <<>>, 0)

Dropped(line) == IsWord(line, ScriptDirectives \cup Askpass)

\* One turn of the loop; lines is what there is of the result.
WriteLine(lines, line) ==
    CASE Dropped(line) -> lines
      [] IsWord(line, AuthUserPass) -> Append(lines, Bare(line))
      [] OTHER -> Append(lines, line)

Lacks(text, words) == \A k \in DOMAIN text : ~ IsWord(text[k], words)

\* Mutant: only a directive with a file is replaced, and seen.
MutantNormalize(text) ==
    LET file(line) == line.is = "words" /\ line.args # <<>>
        lacks(words) == \A k \in DOMAIN text : ~ (IsWord(text[k], words) /\ file(text[k]))
        write(lines, line) ==
            IF IsWord(line, AuthUserPass) /\ ~ file(line) THEN Append(lines, line)
                                                         ELSE WriteLine(lines, line)
    IN FoldLeft(write, <<>>, text)
       \o (IF lacks(AuthUserPass) THEN <<Words(0, "auth-user-pass", <<>>, 0)>> ELSE <<>>)
       \o (IF lacks(AuthNocache) THEN <<Words(0, "auth-nocache", <<>>, 0)>> ELSE <<>>)

Normalize(text) ==
    FoldLeft(WriteLine, <<>>, text)
    \o (IF Lacks(text, AuthUserPass) THEN <<Words(0, "auth-user-pass", <<>>, 0)>> ELSE <<>>)
    \o (IF Lacks(text, AuthNocache) THEN <<Words(0, "auth-nocache", <<>>, 0)>> ELSE <<>>)

\* looks_like_ovpn; a remote has a blank after it.
LooksLikeOvpn(text) ==
    \E k \in DOMAIN text :
        \/ IsWord(text[k], {"client", "<ca>"})
        \/ IsWord(text[k], {"remote"}) /\ text[k].args # <<>>
=============================================================================
