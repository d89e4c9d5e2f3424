------------------------------ MODULE MCShell ------------------------------
(* Shell with a buffer of four characters, commands of one or two, up to   *)
(* five keys, a terminal of five columns, and a screen of three rows of    *)
(* two cells: lines that fill the buffer, are erased, and are typed again; *)
(* lines that reach the margin, with tabs, and with an escape; rows of the *)
(* screen that are filled by characters and left by newlines.              *)
EXTENDS Shell, TLC

MCBoot == <<"Z", "O", "S", NL>>
MCPrompt == <<">", " ">>
MCReplies == <<"h">> :> <<"H", NL>>
MCLs == <<"h", "h">>
MCListings == {<<>>, <<"F", NL, "G", NL>>}
MCExit == <<"h", "c">>
MCClear == <<"c">>
=============================================================================
