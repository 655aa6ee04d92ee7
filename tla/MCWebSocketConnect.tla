------------------------- MODULE MCWebSocketConnect -------------------------
(* Values for WebSocketConnect: a masked and an unmasked message, one without  *)
(* a body, a ping and a close, and for the run on extended lengths two that    *)
(* need one.                                                                   *)
EXTENDS WebSocketConnect

Key == <<0, 255>>
Plain == [op |-> 130, key |-> <<>>, body |-> <<5>>]
MaskedText == [op |-> 129, key |-> Key, body |-> <<1, 130>>]
Empty == [op |-> 129, key |-> Key, body |-> <<>>]
Ping == [op |-> 137, key |-> Key, body |-> <<7>>]
Close == [op |-> 136, key |-> Key, body |-> <<>>]
Medium == [op |-> 129, key |-> Key, body |-> <<1, 2, 3>>]

MCFrames == {Plain, MaskedText, Empty, Ping, Close}
MCLongFrames == {MaskedText, Medium}
=============================================================================
