----------------------------- MODULE MCConsole -----------------------------
(* Instances of Console for TLC.                                           *)
EXTENDS Console
CONSTANT X
SomeBuffers == {<<X, NL, X, X>>, <<CR, X, X, X>>, <<NL, X, CR, X>>}
MCMessage == <<X, NL>>
=============================================================================
