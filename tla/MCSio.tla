------------------------------- MODULE MCSio -------------------------------
(***************************************************************************)
(* What is written in the instances of Sio that TLC checks: strings with   *)
(* an LF in the first and in another place, and buffers that are shorter   *)
(* and longer than the driver's own, with an LF in the first place, in     *)
(* others and in none.                                                     *)
(***************************************************************************)
EXTENDS Sio

MCStrings == {<<LF>>, <<"a", LF>>}
MCBuffers == {<<"a">>, <<LF, "a">>, <<"a", LF, "a", "a", LF>>}

=============================================================================
