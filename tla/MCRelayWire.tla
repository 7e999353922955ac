----------------------------- MODULE MCRelayWire -----------------------------
(***************************************************************************)
(* Two connections that overlap in every way, one of which may break.  The *)
(* contents: none, and one with a line end in it that looks like the end   *)
(* of the headers.                                                         *)
(***************************************************************************)
EXTENDS RelayWire

ConstContent == {<< >>, <<"CR", "LF", ":">>}
=============================================================================
