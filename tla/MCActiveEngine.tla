--------------------------- MODULE MCActiveEngine ---------------------------
(***************************************************************************)
(* Instances of ActiveEngine for TLC.                                      *)
(***************************************************************************)
EXTENDS ActiveEngine

\* socksOnly or a Unix build, and the system mode of Windows.
SocksOnly  == <<"xray">>
SystemMode == <<"xray", "tun2socks">>
MCPlans    == {SocksOnly, SystemMode}
=============================================================================
