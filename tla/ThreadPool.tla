----------------------------- MODULE ThreadPool -----------------------------
(***************************************************************************)
(* The database thread pool (src/src/common/ThreadPool.cpp, TQueue.h,      *)
(* src/src/db/DBThreadPool.cpp).  The main thread, driven by the script,   *)
(* creates workers, adds tasks, collects results with update() and stops   *)
(* the workers with exit().  Each worker opens a database connection of    *)
(* its own, takes tasks from _waitTasks, processes them and puts them in   *)
(* _completeTasks.                                                         *)
(*                                                                         *)
(* TQueue is a moodycamel::ConcurrentQueue: the elements of one producer   *)
(* leave in the order they entered, those of different producers in any    *)
(* order.  The main thread is the only producer of _waitTasks, and each    *)
(* worker is a producer of _completeTasks.                                 *)
(*                                                                         *)
(* A CThread object starts its std::thread before the rest of the object   *)
(* is constructed, and the new thread sleeps 10 ms in the hope that this   *)
(* is enough.  SleepCoversConstructor is that hope.                        *)
(***************************************************************************)
EXTENDS Naturals, Sequences, FiniteSets

CONSTANTS
  Task,                   \* task objects, numbered in the order of addTask
  Worker,                 \* CThread objects, numbered in the order of create
  MaxCreate,              \* bound: the largest count passed to create
  Device,                 \* DBConfig::device
  SleepCoversConstructor  \* construction ends before the 10 ms sleep does

ASSUME ThreadPoolAssumption ==
  /\ Task \subseteq Nat
  /\ Worker \subseteq Nat
  /\ MaxCreate \in Nat \ {0}
  /\ Device \in {"mysql", "redis"}
  /\ SleepCoversConstructor \in BOOLEAN

VARIABLES
  main,          \* what the main thread is in: "idle", "create" or "join"
  todo,          \* threads that create still has to make
  threads,       \* _threads
  object,        \* of each worker: "none", "starting", "made", "deleted"
  isrun,         \* _isrun
  db,            \* m_db: "null", "open", "failed" (connect failed)
  pc,            \* where the thread is in backfunc
  task,          \* the task a worker has in its hands: {} or {t}
  waitTasks,     \* _waitTasks
  completeTasks, \* _completeTasks, by producer
  result,        \* _ret of a task: "none", "ok" or "error"
  crashed,       \* a NULL pointer has been dereferenced
  added,         \* history: the tasks passed to addTask, in order
  runs,          \* history: how often process has been called
  reports        \* history: calls of backfunc with the task and its result

mainVars == <<main, todo, threads, object>>
workVars == <<isrun, db, pc, task>>
taskVars == <<waitTasks, completeTasks, result, added, runs, reports>>
vars == <<main, todo, threads, object, isrun, db, pc, task, waitTasks,
          completeTasks, result, crashed, added, runs, reports>>

InSeq(t, q) == \E i \in 1 .. Len(q) : q[i] = t

Init ==
  /\ main = "idle"
  /\ todo = 0
  /\ threads = <<>>
  /\ object = [w \in Worker |-> "none"]
  /\ isrun = [w \in Worker |-> FALSE]
  /\ db = [w \in Worker |-> "null"]
  /\ pc = [w \in Worker |-> "none"]
  /\ task = [w \in Worker |-> {}]
  /\ waitTasks = <<>>
  /\ completeTasks = [w \in Worker |-> <<>>]
  /\ result = [t \in Task |-> "none"]
  /\ crashed = FALSE
  /\ added = <<>>
  /\ runs = [t \in Task |-> 0]
  /\ reports = <<>>

-----------------------------------------------------------------------------
(***************************************************************************)
(* The main thread                                                         *)
(***************************************************************************)

create(n) ==
  /\ ~crashed
  /\ main = "idle"
  /\ n <= Cardinality({w \in Worker : object[w] = "none"})
  /\ main' = "create"
  /\ todo' = n
  /\ UNCHANGED <<threads, object, crashed>>
  /\ UNCHANGED workVars
  /\ UNCHANGED taskVars

\* CThread::CThread up to the start of _thread.  _isrun and m_db are not yet
\* initialised.
startThread(w) ==
  /\ ~crashed
  /\ main = "create"
  /\ todo > 0
  /\ object[w] = "none"
  /\ \A v \in Worker : v < w => object[v] # "none"
  /\ \A v \in Worker : object[v] # "starting"
  /\ object' = [object EXCEPT ![w] = "starting"]
  /\ pc' = [pc EXCEPT ![w] = "sleep"]
  /\ \E b \in BOOLEAN : isrun' = [isrun EXCEPT ![w] = b]
  /\ UNCHANGED <<main, todo, threads, db, task, crashed>>
  /\ UNCHANGED taskVars

\* The rest of the constructors of CThread and DBThread, and push_back.
construct(w) ==
  /\ ~crashed
  /\ object[w] = "starting"
  /\ object' = [object EXCEPT ![w] = "made"]
  /\ isrun' = [isrun EXCEPT ![w] = TRUE]
  /\ db' = [db EXCEPT ![w] = "null"]
  /\ threads' = Append(threads, w)
  /\ todo' = todo - 1
  /\ main' = IF todo = 1 THEN "idle" ELSE "create"
  /\ UNCHANGED <<pc, task, crashed>>
  /\ UNCHANGED taskVars

addTask(t) ==
  /\ ~crashed
  /\ main = "idle"
  /\ ~InSeq(t, added)
  /\ \A s \in Task : s < t => InSeq(s, added)
  /\ waitTasks' = Append(waitTasks, t)
  /\ added' = Append(added, t)
  /\ UNCHANGED <<completeTasks, result, runs, reports, crashed>>
  /\ UNCHANGED mainVars
  /\ UNCHANGED workVars

\* update takes at most one task, whose backfunc reports its result.
update(w) ==
  /\ ~crashed
  /\ main = "idle"
  /\ completeTasks[w] # <<>>
  /\ LET t == Head(completeTasks[w]) IN
       reports' = Append(reports, <<t, result[t]>>)
  /\ completeTasks' = [completeTasks EXCEPT ![w] = Tail(@)]
  /\ UNCHANGED <<waitTasks, result, added, runs, crashed>>
  /\ UNCHANGED mainVars
  /\ UNCHANGED workVars

\* exit, entering the loop: stop() of the first thread up to join.
exit ==
  /\ ~crashed
  /\ main = "idle"
  /\ threads # <<>>
  /\ isrun' = [isrun EXCEPT ![Head(threads)] = FALSE]
  /\ main' = "join"
  /\ UNCHANGED <<todo, threads, object, db, pc, task, crashed>>
  /\ UNCHANGED taskVars

\* Fault: stop() does not join.
joined_NoWait ==
  /\ ~crashed
  /\ main = "join"
  /\ object' = [object EXCEPT ![Head(threads)] = "deleted"]
  /\ threads' = Tail(threads)
  /\ IF Tail(threads) = <<>>
     THEN main' = "idle" /\ UNCHANGED isrun
     ELSE /\ isrun' = [isrun EXCEPT ![Head(Tail(threads))] = FALSE]
          /\ UNCHANGED main
  /\ UNCHANGED <<todo, db, pc, task, crashed>>
  /\ UNCHANGED taskVars

\* join returns; the thread is deleted and the next one, if any, is stopped.
joined ==
  /\ ~crashed
  /\ main = "join"
  /\ pc[Head(threads)] = "ended"
  /\ object' = [object EXCEPT ![Head(threads)] = "deleted"]
  /\ threads' = Tail(threads)
  /\ IF Tail(threads) = <<>>
     THEN main' = "idle" /\ UNCHANGED isrun
     ELSE /\ isrun' = [isrun EXCEPT ![Head(Tail(threads))] = FALSE]
          /\ UNCHANGED main
  /\ UNCHANGED <<todo, db, pc, task, crashed>>
  /\ UNCHANGED taskVars

-----------------------------------------------------------------------------
(***************************************************************************)
(* A worker: CThread::backfunc                                             *)
(***************************************************************************)

\* onStart after the sleep: DBThread's, which connects and ignores whether it
\* worked, or, while the object is still a CThread, the empty one.
onStart(w) ==
  /\ ~crashed
  /\ pc[w] = "sleep"
  /\ SleepCoversConstructor => object[w] = "made"
  /\ \/ \E d \in {"open", "failed"} : db' = [db EXCEPT ![w] = d]
     \/ object[w] = "starting" /\ UNCHANGED db
  /\ pc' = [pc EXCEPT ![w] = "check"]
  /\ UNCHANGED <<isrun, task, crashed>>
  /\ UNCHANGED mainVars
  /\ UNCHANGED taskVars

\* Fault: a connection that is open keeps the loop going.
checkRun_WhileOpen(w) ==
  /\ ~crashed
  /\ pc[w] = "check"
  /\ pc' = [pc EXCEPT ![w] = IF isrun[w] \/ db[w] = "open" THEN "pop" ELSE "end"]
  /\ UNCHANGED <<isrun, db, task, crashed>>
  /\ UNCHANGED mainVars
  /\ UNCHANGED taskVars

\* The condition of the loop.
checkRun(w) ==
  /\ ~crashed
  /\ pc[w] = "check"
  /\ pc' = [pc EXCEPT ![w] = IF isrun[w] THEN "pop" ELSE "end"]
  /\ UNCHANGED <<isrun, db, task, crashed>>
  /\ UNCHANGED mainVars
  /\ UNCHANGED taskVars

\* Fault: the head of the queue is read and removed in two steps, as if the
\* queue were not safe for several consumers.
popWaitTask_Peek(w) ==
  /\ ~crashed
  /\ pc[w] = "pop"
  /\ IF waitTasks = <<>>
     THEN pc' = [pc EXCEPT ![w] = "check"] /\ UNCHANGED <<task, waitTasks>>
     ELSE /\ pc' = [pc EXCEPT ![w] = "run"]
          /\ task' = [task EXCEPT ![w] = {Head(waitTasks)}]
          /\ waitTasks' \in {waitTasks, Tail(waitTasks)}
  /\ UNCHANGED <<isrun, db, completeTasks, result, added, runs, reports, crashed>>
  /\ UNCHANGED mainVars

popWaitTask(w) ==
  /\ ~crashed
  /\ pc[w] = "pop"
  /\ IF waitTasks = <<>>
     THEN pc' = [pc EXCEPT ![w] = "check"] /\ UNCHANGED <<task, waitTasks>>
     ELSE /\ pc' = [pc EXCEPT ![w] = "run"]
          /\ task' = [task EXCEPT ![w] = {Head(waitTasks)}]
          /\ waitTasks' = Tail(waitTasks)
  /\ UNCHANGED <<isrun, db, completeTasks, result, added, runs, reports, crashed>>
  /\ UNCHANGED mainVars

\* What process can make of a task on a connection: a MySQL handle that is
\* not connected fails the statement, a Redis context is used unchecked.
Outcome(d) ==
  CASE d = "open"                         -> {"ok", "error"}
    [] d = "failed" /\ Device = "mysql"   -> {"error"}
    [] OTHER                              -> {"crash"}

\* DBThread::run: dbi(m_db) and process.
run(w) ==
  /\ ~crashed
  /\ pc[w] = "run"
  /\ \E r \in Outcome(db[w]), t \in task[w] :
       IF r = "crash"
       THEN crashed' = TRUE /\ UNCHANGED <<pc, result, runs>>
       ELSE /\ result' = [result EXCEPT ![t] = r]
            /\ runs' = [runs EXCEPT ![t] = @ + 1]
            /\ pc' = [pc EXCEPT ![w] = "push"]
            /\ UNCHANGED crashed
  /\ UNCHANGED <<isrun, db, task, waitTasks, completeTasks, added, reports>>
  /\ UNCHANGED mainVars

\* Fault: the flag is looked at again before the result is handed over.
push_IfRun(w) ==
  /\ ~crashed
  /\ pc[w] = "push"
  /\ \E t \in task[w] :
       completeTasks' = IF isrun[w]
                        THEN [completeTasks EXCEPT ![w] = Append(@, t)]
                        ELSE completeTasks
  /\ task' = [task EXCEPT ![w] = {}]
  /\ pc' = [pc EXCEPT ![w] = "check"]
  /\ UNCHANGED <<isrun, db, waitTasks, result, added, runs, reports, crashed>>
  /\ UNCHANGED mainVars

\* _completeTasks.push.
push(w) ==
  /\ ~crashed
  /\ pc[w] = "push"
  /\ \E t \in task[w] :
       completeTasks' = [completeTasks EXCEPT ![w] = Append(@, t)]
  /\ task' = [task EXCEPT ![w] = {}]
  /\ pc' = [pc EXCEPT ![w] = "check"]
  /\ UNCHANGED <<isrun, db, waitTasks, result, added, runs, reports, crashed>>
  /\ UNCHANGED mainVars

\* onEnd: the connection is deleted and the thread returns.
onEnd(w) ==
  /\ ~crashed
  /\ pc[w] = "end"
  /\ db' = [db EXCEPT ![w] = "null"]
  /\ pc' = [pc EXCEPT ![w] = "ended"]
  /\ UNCHANGED <<isrun, task, crashed>>
  /\ UNCHANGED mainVars
  /\ UNCHANGED taskVars

backfunc(w) ==
  \/ onStart(w)
  \/ checkRun(w)
  \/ popWaitTask(w)
  \/ run(w)
  \/ push(w)
  \/ onEnd(w)

Next ==
  \/ \E n \in 1 .. MaxCreate : create(n)
  \/ \E w \in Worker : startThread(w) \/ construct(w)
  \/ \E t \in Task : addTask(t)
  \/ \E w \in Worker : update(w)
  \/ exit
  \/ joined
  \/ \E w \in Worker : backfunc(w)

Spec == Init /\ [][Next]_vars

\* The operating system runs every thread, a query ends, and the script calls
\* update from a timer.
Fairness ==
  /\ \A w \in Worker : WF_vars(backfunc(w))
  /\ WF_vars(\E w \in Worker : startThread(w) \/ construct(w))
  /\ WF_vars(joined)
  /\ WF_vars(\E w \in Worker : update(w))

FairSpec == Spec /\ Fairness

-----------------------------------------------------------------------------
(***************************************************************************)
(* Properties                                                              *)
(***************************************************************************)

TypeOK ==
  /\ main \in {"idle", "create", "join"}
  /\ todo \in Nat
  /\ threads \in Seq(Worker)
  /\ object \in [Worker -> {"none", "starting", "made", "deleted"}]
  /\ isrun \in [Worker -> BOOLEAN]
  /\ db \in [Worker -> {"null", "open", "failed"}]
  /\ pc \in [Worker -> {"none", "sleep", "check", "pop", "run", "push", "end", "ended"}]
  /\ task \in [Worker -> SUBSET Task]
  /\ waitTasks \in Seq(Task)
  /\ completeTasks \in [Worker -> Seq(Task)]
  /\ result \in [Task -> {"none", "ok", "error"}]
  /\ crashed \in BOOLEAN
  /\ added \in Seq(Task)
  /\ runs \in [Task -> Nat]
  /\ reports \in Seq(Task \X {"none", "ok", "error"})

\* The four places where a task can be.
Waiting(t) == InSeq(t, waitTasks)
InHand(t) == \E w \in Worker : t \in task[w]
Complete(t) == \E w \in Worker : InSeq(t, completeTasks[w])
Reported(t) == \E i \in 1 .. Len(reports) : reports[i][1] = t

\* No task is lost or duplicated between the main thread and the workers,
\* whoever of them runs when and even if exit() stops workers in between: a
\* task that has been added is in exactly one place.
TasksConserved ==
  \A t \in Task :
    IF InSeq(t, added)
    THEN \/ Waiting(t) /\ ~InHand(t) /\ ~Complete(t) /\ ~Reported(t)
         \/ ~Waiting(t) /\ InHand(t) /\ ~Complete(t) /\ ~Reported(t)
         \/ ~Waiting(t) /\ ~InHand(t) /\ Complete(t) /\ ~Reported(t)
         \/ ~Waiting(t) /\ ~InHand(t) /\ ~Complete(t) /\ Reported(t)
    ELSE ~Waiting(t) /\ ~InHand(t) /\ ~Complete(t) /\ ~Reported(t)

\* The script's callback is called at most once for a task, after exactly one
\* run of process, and is told what that run gave.
ReportedOnce ==
  /\ \A i, j \in 1 .. Len(reports) : reports[i][1] = reports[j][1] => i = j
  /\ \A i \in 1 .. Len(reports) :
       /\ runs[reports[i][1]] = 1
       /\ reports[i][2] = result[reports[i][1]]
       /\ reports[i][2] # "none"

\* When exit() has returned, no thread runs, no connection is open and no task
\* is in the hands of a worker: what is left is in the two queues.
ExitLeavesNothing ==
  main = "idle" /\ threads = <<>> =>
    \A w \in Worker : pc[w] \in {"none", "ended"} /\ db[w] = "null" /\ task[w] = {}

\* A worker that has taken a task has a DB_Interface to give it.  doc/src-note
\* says so of DBThread: onStart makes the DB_Interface and connects it, run
\* sets the DB_Interface of the task.
RunsWithDb == \A w \in Worker : pc[w] = "run" => db[w] # "null"

\* As long as there has only been one worker, callbacks come in the order of
\* addTask.
OneWorkerInOrder ==
  Cardinality({w \in Worker : object[w] # "none"}) <= 1 =>
    \A i \in 1 .. Len(reports) : i <= Len(added) /\ reports[i][1] = added[i]

\* The pool's tasks, threads and connections are accounted for at every step of
\* ThreadPool, CThread and DBThread.
PoolSafe ==
  /\ TypeOK
  /\ TasksConserved
  /\ ReportedOnce
  /\ ExitLeavesNothing
  /\ RunsWithDb
  /\ OneWorkerInOrder

\* A task that is added is reported, unless there is no worker to do it.
EventuallyReported ==
  \A t \in Task :
    InSeq(t, added) ~> Reported(t) \/ main = "join" \/ threads = <<>>

\* exit() returns: a worker sees the flag and its thread ends.
ExitReturns == main = "join" ~> main = "idle"

\* What the script relies on, module TaskService.
Phase(t) ==
  CASE Reported(t)      -> "reported"
    [] ~Reported(t) /\ runs[t] > 0 -> "processed"
    [] ~Reported(t) /\ runs[t] = 0 /\ InSeq(t, added) -> "queued"
    [] OTHER            -> "new"

Service == INSTANCE TaskService WITH
             phase <- [t \in Task |-> Phase(t)], outcome <- result

ImplementsService == Service!Spec

=============================================================================
