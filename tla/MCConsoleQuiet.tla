--------------------------- MODULE MCConsoleQuiet ---------------------------
(* Instance of ConsoleHistory for TLC.                                     *)
EXTENDS ConsoleHistory
CONSTANTS MaxLen, X
MCBuffers == [1..MaxLen -> Byte]
MCLens == {-1, MaxLen}
MCMessage == <<X, NL>>
=============================================================================
