----------------------------- MODULE ObjectPool -----------------------------
(***************************************************************************)
(* ObjectPool<T> and the CommPool functions (common/Objectpool.h,          *)
(* common/CommonPool.h) as operators on a record:                          *)
(*   objects    objects_, the free list, oldest first                      *)
(*   obj_count  obj_count_, kept beside the list                           *)
(*   max_free   max_free                                                   *)
(*   enabled    the objects whose isEnabledPoolObject_ flag is set         *)
(*   live       the objects that exist (new, not yet deleted)              *)
(* Objects are numbers; new takes the smallest one that does not exist.    *)
(***************************************************************************)
EXTENDS Integers, Sequences, FiniteSetsExt, SequencesExt

CONSTANT Object

EmptyPool(max) ==
  [objects |-> << >>, obj_count |-> 0, max_free |-> max, enabled |-> {}, live |-> {}]

\* newObj: an object's flag starts out set.
newObj(pl) ==
  LET o == Min(Object \ pl.live)
  IN  [obj  |-> o,
       pool |-> [pl EXCEPT !.live = @ \cup {o}, !.enabled = @ \cup {o}]]

createObject(pl) ==
  IF pl.obj_count > 0
    THEN LET o == Head(pl.objects)
         IN  [obj  |-> o,
              pool |-> [pl EXCEPT !.objects = Tail(@), !.obj_count = @ - 1,
                                  !.enabled = @ \cup {o}]]
    ELSE newObj(pl)

\* Fault: a full pool deletes the object and still keeps it.
reclaimObject_KeepsDeleted(pl, o) ==
  IF o \notin pl.enabled THEN pl
  ELSE [pl EXCEPT !.enabled = @ \ {o}, !.objects = Append(@, o), !.obj_count = @ + 1,
                  !.live = IF pl.obj_count >= pl.max_free THEN @ \ {o} ELSE @]

\* An object that is no longer enabled is left alone (after an XAssert).
reclaimObject(pl, o) ==
  IF o \notin pl.enabled THEN pl
  ELSE IF pl.obj_count >= pl.max_free
    THEN [pl EXCEPT !.enabled = @ \ {o}, !.live = @ \ {o}]
    ELSE [pl EXCEPT !.enabled = @ \ {o}, !.objects = Append(@, o), !.obj_count = @ + 1]

\* init only sets the limit: a list that is longer by now stays as it is.
init(pl, count) == [pl EXCEPT !.max_free = count]

destroy(pl) ==
  [pl EXCEPT !.objects = << >>, !.obj_count = 0,
             !.enabled = @ \ ToSet(pl.objects), !.live = @ \ ToSet(pl.objects)]

\* What the pool keeps and what is handed out are apart, and all of it exists.
PoolSound(pl, out) ==
  /\ pl.obj_count = Len(pl.objects)
  /\ IsInjective(pl.objects)
  /\ pl.live = out \cup ToSet(pl.objects)
  /\ pl.enabled = out
  /\ out \cap ToSet(pl.objects) = {}

=============================================================================
