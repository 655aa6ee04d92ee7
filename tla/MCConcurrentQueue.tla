------------------------- MODULE MCConcurrentQueue -------------------------
(***************************************************************************)
(* The three parts of the concurrent queue, each in behaviours of its own: *)
(* part says which one a behaviour is about.                               *)
(***************************************************************************)
EXTENDS FreeList, ImplicitProducer, ProducerHash

CONSTANTS t1, t2, t3, p1, p2, c1, c2

VARIABLE part

vars == <<flVars, queueVars, hashVars, part>>

\* Two threads own a block each, a third only looks for one.
MCOwned == (t1 :> {1}) @@ (t2 :> {2}) @@ (t3 :> {})

\* One producer that fills three blocks, or two that share them.
MCQuotas == {(p1 :> 6) @@ (p2 :> 0), (p1 :> 2) @@ (p2 :> 2)}

\* Two threads that start at the same slot.
MCHashOf == <<0, 0, 3>>

Init ==
  /\ FlInit /\ QueueInit /\ HashInit
  /\ part \in {"free list", "producer", "hash"}
  /\ part # "producer" => quota[p2] = 0

Next ==
  \/ part = "free list" /\ FlNext /\ UNCHANGED <<queueVars, hashVars, part>>
  \/ part = "producer" /\ QueueNext /\ UNCHANGED <<flVars, hashVars, part>>
  \/ part = "hash" /\ HashNext /\ UNCHANGED <<flVars, queueVars, part>>

Spec == Init /\ [][Next]_vars

=============================================================================
