---------------------------- MODULE MCTcpSocket ----------------------------
(***************************************************************************)
(* TLC instance of TcpSocket: a few packets, one of them empty and one     *)
(* that fills a batch alone, written in every order.                       *)
(***************************************************************************)
EXTENDS TcpSocket

MCPacket == 1 .. 5
MCsendSize == <<1, 2, 0, 4, 1>>

=============================================================================
