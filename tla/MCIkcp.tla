------------------------------- MODULE MCIkcp -------------------------------
(***************************************************************************)
(* Values for Ikcp: endA sends, endB only acknowledges.                  *)
(***************************************************************************)
EXTENDS Ikcp

CONSTANTS endA, endB

MCMaxSend == (endA :> 2) @@ (endB :> 0)

\* The settings of KcpEvent::onKcp with a stale datagram in one direction or
\* the other, stream mode, and the congestion window.
MCModes ==
  {[stream |-> FALSE, nocwnd |-> TRUE, lens |-> {3, 7}, room |-> (endA :> 1) @@ (endB :> 2)],
   [stream |-> FALSE, nocwnd |-> TRUE, lens |-> {1}, room |-> (endA :> 2) @@ (endB :> 1)],
   [stream |-> TRUE, nocwnd |-> TRUE, lens |-> {1, 7}, room |-> (endA :> 1) @@ (endB :> 1)],
   [stream |-> FALSE, nocwnd |-> FALSE, lens |-> {3}, room |-> (endA :> 1) @@ (endB :> 1)]}

=============================================================================
