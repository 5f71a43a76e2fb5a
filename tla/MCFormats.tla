----------------------------- MODULE MCFormats -----------------------------
(***************************************************************************)
(* The instance of Formats for TLC.                                        *)
(***************************************************************************)
EXTENDS Formats

MCMaxLength == [wg |-> 4, ovpn |-> 4, link |-> 4, import |-> 4, profile |-> 3]
=============================================================================
