------------------------------ MODULE Profiles ------------------------------
(***************************************************************************)
(* What becomes of a configuration that a user brings: the window's guess  *)
(* of its kind (app/ui/src/types.ts), the daemon's (vpncore/src/lib.rs),   *)
(* import_profile and update_profile (vpndaemon/src/state.rs), and the     *)
(* checks and the view of a profile (vpncore/src/model.rs).                *)
(*                                                                         *)
(* A text is a sequence of lines; a vless link is a line of its own, of    *)
(* pieces, and then there is no other.  A configuration that may be        *)
(* missing is <<>> or <<text>>; the empty text is <<>>.                    *)
(***************************************************************************)
EXTENDS VlessLink

W == INSTANCE WgConf
O == INSTANCE OvpnConf

Link(pieces)    == [is |-> "link", pieces |-> pieces]
Comment(remote) == [is |-> "comment", remote |-> remote]   \* it says "remote", and more
BlankLine       == [is |-> "blank"]

Pieces(text) == IF text # <<>> /\ text[1].is = "link" THEN text[1].pieces ELSE <<>>

Trim(s) ==
    LET full(k) == s[k] # Blank
        from == CHOOSE k \in 1 .. Len(s) + 1 :
                    (k <= Len(s) => full(k)) /\ \A j \in 1 .. k - 1 : ~ full(j)
        to   == CHOOSE k \in 0 .. Len(s) :
                    (k >= 1 => full(k)) /\ \A j \in k + 1 .. Len(s) : ~ full(j)
    IN SubSeq(s, from, to)

Trimmed(text) ==
    CASE Pieces(text) # <<>> -> <<Link(Trim(Pieces(text)))>>
      [] OTHER -> text

-----------------------------------------------------------------------------
\* infer_profile_kind
InferKind(text) ==
    IF LooksLikeVless(Trim(Pieces(text))) THEN "vless"
    ELSE IF W!LooksLikeWg(text) THEN "wireguard"
    ELSE IF O!LooksLikeOvpn(text) THEN "openvpn"
    ELSE "none"

\* detectKind of the window: how the text begins, or a "remote" with anything after it,
\* be it in a comment or in the next line.
DetectKind(text) ==
    LET full == {k \in DOMAIN text : text[k].is # "blank"}
        first == text[CHOOSE k \in full : \A j \in full : k <= j]
        remote(k) == \/ text[k].is = "comment" /\ text[k].remote
                     \/ /\ O!IsWord(text[k], {"remote"})
                        /\ text[k].args # <<>> \/ \E j \in full : j > k
    IN IF full = {} THEN "none"
       ELSE IF first.is = "section" /\ first.name = "Interface" THEN "wireguard"
       ELSE IF first.is = "link" /\ ToSet(SubSeq(Trim(first.pieces), 1, 1)) = {"vless://"}
       THEN "vless"
       ELSE IF O!IsWord(first, {"client"}) \/ \E k \in full : remote(k) THEN "openvpn"
       ELSE "none"

-----------------------------------------------------------------------------
(* Profiles. *)

Empty(kind) == [kind |-> kind, wg |-> <<>>, ovpn |-> <<>>, vless |-> <<>>]

Validate(p) ==
    CASE p.kind = "wireguard" -> p.wg # <<>> /\ W!Parse(p.wg[1]).ok
      [] p.kind = "openvpn"   -> p.ovpn # <<>>
      [] p.kind = "vless"     -> p.vless # <<>> /\ ParseLink(Pieces(p.vless[1])).ok

Refused == [ok |-> FALSE]

\* Mutant: only the kind is looked at.
MutantImport(text) ==
    LET kind == InferKind(text) IN
    CASE kind = "wireguard" -> [ok |-> TRUE, profile |-> [Empty(kind) EXCEPT !.wg = <<text>>]]
      [] kind = "openvpn" -> [ok |-> TRUE, profile |-> [Empty(kind) EXCEPT !.ovpn = <<text>>]]
      [] kind = "vless" ->
           [ok |-> TRUE, profile |-> [Empty(kind) EXCEPT !.vless = <<Trimmed(text)>>]]
      [] OTHER -> Refused

\* The link is checked as it came and kept without the blanks around it.
Import(text) ==
    LET kind == InferKind(text) IN
    CASE kind = "wireguard" /\ W!Parse(text).ok ->
           [ok |-> TRUE, profile |-> [Empty(kind) EXCEPT !.wg = <<text>>]]
      [] kind = "openvpn" ->
           [ok |-> TRUE, profile |-> [Empty(kind) EXCEPT !.ovpn = <<text>>]]
      [] kind = "vless" /\ ParseLink(Pieces(text)).ok ->
           [ok |-> TRUE, profile |-> [Empty(kind) EXCEPT !.vless = <<Trimmed(text)>>]]
      [] OTHER -> Refused

\* What clients see: a configuration that is there is empty.
PublicView(p) ==
    LET hide(config) == IF config = <<>> THEN <<>> ELSE << <<>> >> IN
    [p EXCEPT !.wg = hide(@), !.ovpn = hide(@), !.vless = hide(@)]

\* Mutant: only a configuration that is missing is filled in.
MutantUpdate(existing, p) ==
    LET keep(new, old) == IF new = <<>> THEN old ELSE new
        updated == [p EXCEPT !.wg = keep(@, existing.wg), !.ovpn = keep(@, existing.ovpn),
                             !.vless = keep(@, existing.vless)]
    IN IF Validate(updated) THEN [ok |-> TRUE, profile |-> updated] ELSE Refused

\* update_profile: what is missing or empty stays as it was.
Update(existing, p) ==
    LET keep(new, old) == IF new \in {<<>>, << <<>> >>} THEN old ELSE new
        updated == [p EXCEPT !.wg = keep(@, existing.wg), !.ovpn = keep(@, existing.ovpn),
                             !.vless = keep(@, existing.vless)]
    IN IF Validate(updated) THEN [ok |-> TRUE, profile |-> updated] ELSE Refused
=============================================================================
