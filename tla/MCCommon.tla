------------------------------ MODULE MCCommon ------------------------------
(***************************************************************************)
(* The timers, the clock of KCP, the log, the packets and the set-up of    *)
(* connections, each in behaviours of its own: part says which one a       *)
(* behaviour is about.                                                     *)
(***************************************************************************)
EXTENDS Timer, IkcpClock, XLog, Packet, TcpEndpoint, TLC

CONSTANTS w1, w2, w3, c1, c2, c3

VARIABLE part

vars == <<timerVars, clockVars, logVars, packetVars, endpointVars, part>>

\* Six timers that expire in the order of their numbers and one instant, to
\* reach every shape of the heap; and three that repeat while time goes on,
\* across the end of the clock.
MCPlans ==
  {[timeouts |-> [t \in TimerId |-> {t}], repeats |-> {0}, until |-> StartTime],
   [timeouts |-> [t \in TimerId |-> CASE t <= 2 -> {0, 3} [] t = 3 -> {2} [] OTHER -> {}],
    repeats |-> {0, 2}, until |-> StartTime + 3]}

\* A number and a string.
MCValues == {[id |-> 1, width |-> 2, len |-> 0], [id |-> 2, width |-> 0, len |-> 1]}

\* Where a part has a choice at the start, the behaviours of the others take one.
Init ==
  /\ TimerInit /\ ClockInit /\ LogInit /\ PacketInit /\ EndpointInit
  /\ part \in {"timer", "clock", "log", "packet", "endpoint"}
  /\ part # "timer" => plan.until = StartTime
  /\ part # "packet" => bufpool.max_free = 0

Next ==
  \/ part = "timer" /\ TimerNext /\ UNCHANGED <<clockVars, logVars, packetVars, endpointVars, part>>
  \/ part = "clock" /\ ClockNext /\ UNCHANGED <<timerVars, logVars, packetVars, endpointVars, part>>
  \/ part = "log" /\ LogNext /\ UNCHANGED <<timerVars, clockVars, packetVars, endpointVars, part>>
  \/ part = "packet" /\ PacketNext /\ UNCHANGED <<timerVars, clockVars, logVars, endpointVars, part>>
  \/ part = "endpoint" /\ EndpointNext /\ UNCHANGED <<timerVars, clockVars, logVars, packetVars, part>>

Spec == Init /\ [][Next]_vars

=============================================================================
