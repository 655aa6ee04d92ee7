---------------------------- MODULE MCNetConnect ----------------------------
(***************************************************************************)
(* TLC instance of NetConnect.  The body cells 0, 1 and 2 also occur as    *)
(* lengths and types, so a misplaced frame boundary shows.                 *)
(***************************************************************************)
EXTENDS NetConnect

MCMsgType == {1, 2}
MCBody == {<<>>, <<1>>, <<0, 2, 1, 2>>}

=============================================================================
