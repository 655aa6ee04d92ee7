------------------------------- MODULE Timer -------------------------------
(***************************************************************************)
(* Timer (src/src/common/Timer.cpp): timers in a heap ordered by expiry    *)
(* time.  update() is called by the main loop and runs callbacks, which    *)
(* may start, stop and delete timers, the running one included.            *)
(*                                                                         *)
(* m_time is XTime::iclock() plus the timeout, both uint32 milliseconds:   *)
(* time is counted modulo Range32.  0 also means: stopped.                 *)
(***************************************************************************)
EXTENDS Heap

CONSTANTS
  TimerId,       \* positive numbers
  Range32,       \* 2^32 in the code
  UPDATE_LIMIT,  \* 10 in the code
  StartTime,     \* the time at which a run starts
  Plans          \* bounds: what a run tries, [timeouts, repeats, until]

ASSUME TimerAssumption ==
  /\ TimerId \subseteq Nat \ {0}
  /\ {Range32, UPDATE_LIMIT} \subseteq Nat \ {0}
  /\ StartTime \in Nat
  /\ Plans \subseteq [timeouts : [TimerId -> SUBSET Nat], repeats : SUBSET Nat, until : Nat]

VARIABLES
  msec,          \* milliseconds, not reduced
  gRootHeap,
  m_time, m_repeat,
  alive,        \* timers that have not been deleted
  phase,        \* "out", "loop" or "callback" of update()
  i,            \* its loop counter
  due,          \* history: when a timer in the heap was set and when it should expire
  fired,        \* history: the same for the timer whose callback runs, and when it began
  fault,        \* "twice": a running timer was started; "freed": a node in the heap was
  plan

timerVars == <<msec, gRootHeap, m_time, m_repeat, alive, phase, i, due, fired, fault, plan>>

iclock == msec % Range32

Never == [from |-> 0, to |-> 0, at |-> 0]

TimerInit ==
  /\ msec = StartTime
  /\ gRootHeap = heap_init(TimerId)
  /\ m_time = [t \in TimerId |-> 0]
  /\ m_repeat = [t \in TimerId |-> 0]
  /\ phase = "out" /\ i = 0
  /\ due = [t \in TimerId |-> Never]
  /\ fired = Never
  /\ fault = "none"
  /\ plan \in Plans
  /\ alive = {t \in TimerId : plan.timeouts[t] # {}}

\* The application calls a timer from outside update() or in a callback.
MayCall == fault = "none" /\ phase \in {"out", "callback"}

\* start does not ask whether the timer is running: its node is then linked in a
\* second time, and nothing is known about the heap afterwards.
start(t, timeout, repeat) ==
  /\ MayCall /\ t \in alive
  /\ IF t \in Nodes(gRootHeap)
     THEN fault' = "twice" /\ UNCHANGED <<gRootHeap, m_time, m_repeat, due>>
     ELSE /\ m_time' = [m_time EXCEPT ![t] = (timeout + iclock) % Range32]
          /\ m_repeat' = [m_repeat EXCEPT ![t] = repeat]
          /\ gRootHeap' = heap_insert(gRootHeap, m_time', t)
          /\ due' = [due EXCEPT ![t] = [from |-> msec, to |-> msec + timeout, at |-> 0]]
          /\ UNCHANGED fault
  /\ UNCHANGED <<msec, alive, phase, i, fired, plan>>

\* What stop() leaves in m_time and the heap.
Stopped(t) ==
  IF m_time[t] = 0 THEN [time |-> m_time, heap |-> gRootHeap, due |-> due]
  ELSE LET time == [m_time EXCEPT ![t] = 0] IN
       [time |-> time, heap |-> heap_remove(gRootHeap, time, t), due |-> [due EXCEPT ![t] = Never]]

stop(t) ==
  /\ MayCall /\ t \in alive
  /\ m_time' = Stopped(t).time
  /\ gRootHeap' = Stopped(t).heap
  /\ due' = Stopped(t).due
  /\ UNCHANGED <<msec, m_repeat, alive, phase, i, fired, fault, plan>>

\* ~Timer
delete(t) ==
  /\ MayCall /\ t \in alive
  /\ alive' = alive \ {t}
  /\ m_time' = Stopped(t).time
  /\ gRootHeap' = Stopped(t).heap
  /\ due' = Stopped(t).due
  /\ fault' = IF t \in Nodes(gRootHeap') THEN "freed" ELSE fault
  /\ UNCHANGED <<msec, m_repeat, phase, i, fired, plan>>

Expired ==
  i < UPDATE_LIMIT /\ gRootHeap.min # 0 /\ iclock >= m_time[gRootHeap.min]

update ==
  /\ fault = "none" /\ phase = "out"
  /\ phase' = "loop" /\ i' = 0
  /\ UNCHANGED <<msec, gRootHeap, m_time, m_repeat, alive, due, fired, fault, plan>>

\* One round of the loop: the first timer, if it is due, leaves the heap, is
\* entered again if it repeats, and its callback begins.
expire ==
  LET t == gRootHeap.min
      removed == heap_remove(gRootHeap, m_time, t)
      again == m_repeat[t] > 0
  IN  /\ fault = "none" /\ phase = "loop"
      /\ Expired
      /\ m_time' = [m_time EXCEPT ![t] = IF again THEN (m_repeat[t] + iclock) % Range32 ELSE 0]
      /\ gRootHeap' = IF again THEN heap_insert(removed, m_time', t) ELSE removed
      /\ fired' = [due[t] EXCEPT !.at = msec]
      /\ due' = [due EXCEPT ![t] = IF again THEN [from |-> msec, to |-> msec + m_repeat[t], at |-> 0]
                                   ELSE Never]
      /\ phase' = "callback" /\ i' = i + 1
      /\ UNCHANGED <<msec, m_repeat, alive, fault, plan>>

\* m_cb() returns.
returns ==
  /\ fault = "none" /\ phase = "callback"
  /\ phase' = "loop"
  /\ fired' = Never
  /\ UNCHANGED <<msec, gRootHeap, m_time, m_repeat, alive, i, due, fault, plan>>

leaveLoop ==
  /\ fault = "none" /\ phase = "loop"
  /\ ~Expired
  /\ phase' = "out" /\ i' = 0
  /\ UNCHANGED <<msec, gRootHeap, m_time, m_repeat, alive, due, fired, fault, plan>>

timePasses ==
  /\ fault = "none" /\ msec < plan.until
  /\ msec' = msec + 1
  /\ UNCHANGED <<gRootHeap, m_time, m_repeat, alive, phase, i, due, fired, fault, plan>>

TimerNext ==
  \/ \E t \in TimerId :
       \/ \E timeout \in plan.timeouts[t], repeat \in plan.repeats : start(t, timeout, repeat)
       \/ stop(t) \/ delete(t)
  \/ update \/ expire \/ returns \/ leaveLoop \/ timePasses

TimerSpec == TimerInit /\ [][TimerNext]_timerVars

-----------------------------------------------------------------------------
(***************************************************************************)
(* Property                                                                *)
(***************************************************************************)

\* The heap stays a heap whatever callbacks do, and holds exactly the timers that
\* have an expiry time; none of them has been deleted.  The exception is a
\* timer whose expiry time happened to wrap to 0: stop and ~Timer take it for
\* stopped.
TimersInHeap ==
  fault = "none" =>
    /\ IsHeap(gRootHeap, m_time)
    /\ Nodes(gRootHeap) \subseteq alive
    /\ {t \in TimerId : m_time[t] # 0} =
         {t \in Nodes(gRootHeap) : due[t].to % Range32 # 0}

\* A timer expires when its time has come, not before, unless the clock was about
\* to wrap when it was set.
FiredInTime ==
  fired.from \div Range32 = fired.to \div Range32 => fired.at >= fired.to

\* What breaks the timers is one of two things: starting a timer that runs, or
\* deleting one whose expiry time has wrapped to 0.
TimersSound ==
  /\ TimersInHeap
  /\ FiredInTime
  /\ fault = "freed" => \E t \in TimerId \ alive : due[t] # Never /\ due[t].to % Range32 = 0

=============================================================================
