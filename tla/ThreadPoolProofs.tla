-------------------------- MODULE ThreadPoolProofs --------------------------
(***************************************************************************)
(* Proofs about ThreadPool, for every set of tasks and of workers.  What   *)
(* concerns the tasks holds whether or not the 10 ms sleep of a new thread *)
(* is long enough; that a task is given a connection depends on it.        *)
(***************************************************************************)
EXTENDS ThreadPool, TLAPS, FiniteSetTheorems, SequenceTheorems

-----------------------------------------------------------------------------
(***************************************************************************)
(* The inductive invariant                                                 *)
(***************************************************************************)

Distinct(q) == \A i, j \in 1 .. Len(q) : q[i] = q[j] => i = j

\* A CThread object, its thread and its place in _threads go together, and
\* only create has an object that is not constructed yet.
ThreadsInv ==
  /\ Distinct(threads)
  /\ \A w \in Worker : InSeq(w, threads) <=> object[w] = "made"
  /\ \A w \in Worker : object[w] = "none" <=> pc[w] = "none"
  /\ \A w \in Worker : object[w] = "none" => db[w] = "null" /\ completeTasks[w] = <<>>
  /\ \A w \in Worker : object[w] = "deleted" => pc[w] = "ended"
  /\ \A w \in Worker : pc[w] = "ended" => db[w] = "null"
  /\ \A w \in Worker : object[w] = "starting" => main = "create"
  /\ \A v, w \in Worker : object[v] = "starting" /\ object[w] = "starting" => v = w
  /\ main = "create" => todo > 0
  /\ main = "join" => threads # <<>>
  /\ IsFiniteSet({w \in Worker : object[w] # "none"})

\* If construction ends within the sleep, a worker in its loop has a
\* connection object.
ConnectedInv ==
  SleepCoversConstructor =>
    /\ \A w \in Worker : object[w] = "starting" => pc[w] = "sleep"
    /\ \A w \in Worker :
         pc[w] \in {"check", "pop", "run", "push", "end"} => db[w] # "null"
    /\ Device = "mysql" => ~crashed

\* No task is twice in a queue, in two workers' hands or completed by two.
OwnedOnce ==
  /\ Distinct(waitTasks)
  /\ \A w \in Worker : Distinct(completeTasks[w])
  /\ \A w \in Worker : \A s, t \in task[w] : s = t
  /\ \A v, w \in Worker : \A t \in task[v] : t \in task[w] => v = w
  /\ \A v, w \in Worker : \A t \in Task :
       InSeq(t, completeTasks[v]) /\ InSeq(t, completeTasks[w]) => v = w

\* How far a task is processed follows from where it is.
TaskStage ==
  /\ \A w \in Worker : task[w] # {} => pc[w] \in {"run", "push"}
  /\ \A t \in Task : ~InSeq(t, added) \/ Waiting(t) => runs[t] = 0 /\ result[t] = "none"
  /\ \A w \in Worker : \A t \in task[w] :
       pc[w] = "run" => runs[t] = 0 /\ result[t] = "none"
  /\ \A w \in Worker : \A t \in task[w] :
       pc[w] = "push" => runs[t] = 1 /\ result[t] # "none"
  /\ \A t \in Task : Complete(t) => runs[t] = 1 /\ result[t] # "none"

\* What a worker that has never shared the pool has left to report, behind what
\* is reported: its completed tasks, the one in its hands and the waiting ones,
\* in the order of addTask.
Lined(w) ==
  LET r == Len(reports)
      c == r + Len(completeTasks[w])
      h == IF task[w] = {} THEN c ELSE c + 1
  IN  /\ Len(added) = h + Len(waitTasks)
      /\ \A i \in 1 .. r : reports[i][1] = added[i]
      /\ \A i \in 1 .. Len(completeTasks[w]) : completeTasks[w][i] = added[r + i]
      /\ \A t \in task[w] : added[c + 1] = t
      /\ \A i \in 1 .. Len(waitTasks) : waitTasks[i] = added[h + i]

Alone(w) == \A v \in Worker : object[v] # "none" => v = w

OrderInv ==
  /\ \A w \in Worker : Alone(w) => Lined(w)
  /\ (\A w \in Worker : object[w] = "none") => reports = <<>>

TaskInv ==
  /\ OwnedOnce
  /\ TaskStage
  /\ TasksConserved
  /\ ReportedOnce

IInv ==
  /\ TypeOK
  /\ ThreadsInv
  /\ ConnectedInv
  /\ TaskInv
  /\ OrderInv

-----------------------------------------------------------------------------
(***************************************************************************)
(* Facts about queues                                                      *)
(***************************************************************************)

\* An empty queue.
LEMMA EmptyQueue ==
  /\ Distinct(<<>>)
  /\ \A t : ~InSeq(t, <<>>)
  BY DEF Distinct, InSeq

\* A push at the back of a queue adds the element and nothing else.
LEMMA PushBack ==
  ASSUME NEW S, NEW q \in Seq(S), NEW e \in S
  PROVE  /\ Append(q, e) \in Seq(S)
         /\ \A t : InSeq(t, Append(q, e)) <=> InSeq(t, q) \/ t = e
         /\ Distinct(q) /\ ~InSeq(e, q) => Distinct(Append(q, e))
<1>1. /\ Append(q, e) \in Seq(S)
      /\ Len(Append(q, e)) = Len(q) + 1
      /\ \A i \in 1 .. Len(q) : Append(q, e)[i] = q[i]
      /\ Append(q, e)[Len(q) + 1] = e
  OBVIOUS
<1>2. /\ Len(q) \in Nat
      /\ 1 .. Len(q) + 1 = (1 .. Len(q)) \cup {Len(q) + 1}
  OBVIOUS
<1>3. ASSUME NEW t
      PROVE  InSeq(t, Append(q, e)) <=> InSeq(t, q) \/ t = e
  BY <1>1, <1>2 DEF InSeq
<1>4. Distinct(q) /\ ~InSeq(e, q) => Distinct(Append(q, e))
  BY <1>1, <1>2 DEF InSeq, Distinct
<1> QED
  BY <1>1, <1>3, <1>4

\* A pop at the front takes one element off and leaves the others.
LEMMA PopFront ==
  ASSUME NEW S, NEW q \in Seq(S), q # <<>>
  PROVE  /\ Head(q) \in S
         /\ Tail(q) \in Seq(S)
         /\ \A t : InSeq(t, q) <=> InSeq(t, Tail(q)) \/ t = Head(q)
         /\ Distinct(q) => Distinct(Tail(q)) /\ ~InSeq(Head(q), Tail(q))
<1>1. /\ Head(q) \in S
      /\ Head(q) = q[1]
      /\ Tail(q) \in Seq(S)
      /\ Len(q) \in Nat \ {0}
      /\ Len(Tail(q)) = Len(q) - 1
      /\ \A i \in 1 .. Len(q) - 1 : Tail(q)[i] = q[i + 1]
  OBVIOUS
<1>2. ASSUME NEW t
      PROVE  InSeq(t, q) <=> InSeq(t, Tail(q)) \/ t = Head(q)
  <2>1. ASSUME NEW i \in 1 .. Len(q), q[i] = t, t # Head(q)
        PROVE  InSeq(t, Tail(q))
    <3>1. i - 1 \in 1 .. Len(q) - 1 /\ Tail(q)[i - 1] = t
      BY <1>1, <2>1
    <3> QED
      BY <3>1, <1>1 DEF InSeq
  <2>2. ASSUME NEW i \in 1 .. Len(Tail(q)), Tail(q)[i] = t
        PROVE  InSeq(t, q)
    <3>1. i + 1 \in 1 .. Len(q) /\ q[i + 1] = t
      BY <1>1, <2>2
    <3> QED
      BY <3>1 DEF InSeq
  <2>3. InSeq(Head(q), q)
    BY <1>1 DEF InSeq
  <2> QED
    BY <2>1, <2>2, <2>3 DEF InSeq
<1>3. Distinct(q) => Distinct(Tail(q)) /\ ~InSeq(Head(q), Tail(q))
  BY <1>1 DEF Distinct, InSeq
<1> QED
  BY <1>1, <1>2, <1>3

-----------------------------------------------------------------------------
(***************************************************************************)
(* Each part of the invariant is kept by every step                        *)
(***************************************************************************)

\* The pool starts empty.
LEMMA InitInv == Init => IInv
<1> SUFFICES ASSUME Init PROVE IInv
  OBVIOUS
<1>1. TypeOK
  <2>1. threads \in Seq(Worker) /\ waitTasks \in Seq(Task) /\ added \in Seq(Task)
    BY DEF Init
  <2>2. completeTasks \in [Worker -> Seq(Task)]
    BY DEF Init
  <2>3. reports \in Seq(Task \X {"none", "ok", "error"})
    BY DEF Init
  <2>4. isrun \in [Worker -> BOOLEAN] /\ crashed \in BOOLEAN
    BY DEF Init
  <2>5. task \in [Worker -> SUBSET Task]
    BY DEF Init
  <2> QED
    BY <2>1, <2>2, <2>3, <2>4, <2>5 DEF Init, TypeOK
<1>2. ThreadsInv
  <2>1. {w \in Worker : object[w] # "none"} = {}
    BY DEF Init
  <2> QED
    BY <2>1, EmptyQueue, FS_EmptySet DEF Init, ThreadsInv
<1>3. ConnectedInv
  BY DEF Init, ConnectedInv
<1>4. TaskInv
  <2>1. OwnedOnce
    BY EmptyQueue DEF Init, OwnedOnce
  <2>2. TaskStage
    BY EmptyQueue DEF Init, TaskStage, Complete
  <2>3. TasksConserved
    BY EmptyQueue DEF Init, TasksConserved, Waiting, InHand, Complete, Reported
  <2>4. ReportedOnce
    BY DEF Init, ReportedOnce
  <2> QED
    BY <2>1, <2>2, <2>3, <2>4 DEF TaskInv
<1>5. OrderInv
  BY DEF Init, OrderInv, Lined
<1> QED
  BY <1>1, <1>2, <1>3, <1>4, <1>5 DEF IInv

\* The steps of the main thread and of the workers, by name.
LEMMA StepCases ==
  ASSUME [Next]_vars
  PROVE  \/ \E n \in 1 .. MaxCreate : create(n)
         \/ \E w \in Worker : startThread(w)
         \/ \E w \in Worker : construct(w)
         \/ \E t \in Task : addTask(t)
         \/ \E w \in Worker : update(w)
         \/ exit
         \/ joined
         \/ \E w \in Worker : onStart(w)
         \/ \E w \in Worker : checkRun(w)
         \/ \E w \in Worker : popWaitTask(w)
         \/ \E w \in Worker : run(w)
         \/ \E w \in Worker : push(w)
         \/ \E w \in Worker : onEnd(w)
         \/ UNCHANGED vars
  BY DEF Next, backfunc

\* process ends with a result, or stops the program.
LEMMA RunCases ==
  ASSUME TypeOK, NEW w \in Worker, run(w)
  PROVE  \/ /\ crashed' = TRUE
            /\ "crash" \in Outcome(db[w])
            /\ UNCHANGED <<pc, result, runs>>
         \/ \E r \in {"ok", "error"}, t \in task[w] :
              /\ result' = [result EXCEPT ![t] = r]
              /\ runs' = [runs EXCEPT ![t] = @ + 1]
              /\ pc' = [pc EXCEPT ![w] = "push"]
              /\ crashed' = crashed
<1>1. PICK r \in Outcome(db[w]), t \in task[w] :
        IF r = "crash"
        THEN crashed' = TRUE /\ UNCHANGED <<pc, result, runs>>
        ELSE /\ result' = [result EXCEPT ![t] = r]
             /\ runs' = [runs EXCEPT ![t] = @ + 1]
             /\ pc' = [pc EXCEPT ![w] = "push"]
             /\ UNCHANGED crashed
  BY DEF run
<1>2. r = "crash" \/ r \in {"ok", "error"}
  BY DEF Outcome
<1>3. CASE r = "crash"
  BY <1>1, <1>3
<1>4. CASE r \in {"ok", "error"}
  BY <1>1, <1>4
<1> QED
  BY <1>2, <1>3, <1>4

\* Every step keeps the types of the state.
LEMMA TypeStep ==
  ASSUME TypeOK, ThreadsInv, [Next]_vars
  PROVE  TypeOK'
<1> USE DEF mainVars, workVars, taskVars
<1>1. ASSUME NEW n \in 1 .. MaxCreate, create(n) PROVE TypeOK'
  BY <1>1, ThreadPoolAssumption DEF TypeOK, create
<1>2. ASSUME NEW w \in Worker, startThread(w) PROVE TypeOK'
  BY <1>2 DEF TypeOK, startThread
<1>3. ASSUME NEW w \in Worker, construct(w) PROVE TypeOK'
  <2>1. todo - 1 \in Nat
    BY <1>3 DEF TypeOK, ThreadsInv, construct
  <2> QED
    BY <1>3, <2>1, PushBack DEF TypeOK, construct
<1>4. ASSUME NEW t \in Task, addTask(t) PROVE TypeOK'
  BY <1>4 DEF TypeOK, addTask
<1>5. ASSUME NEW w \in Worker, update(w) PROVE TypeOK'
  <2>1. Head(completeTasks[w]) \in Task /\ Tail(completeTasks[w]) \in Seq(Task)
    BY <1>5, PopFront DEF TypeOK, update
  <2>2. <<Head(completeTasks[w]), result[Head(completeTasks[w])]>>
          \in Task \X {"none", "ok", "error"}
    BY <2>1 DEF TypeOK
  <2>3. reports' \in Seq(Task \X {"none", "ok", "error"})
    BY <1>5, <2>2, PushBack DEF TypeOK, update
  <2> QED
    BY <1>5, <2>1, <2>3 DEF TypeOK, update
<1>6. ASSUME exit PROVE TypeOK'
  BY <1>6 DEF TypeOK, exit
<1>7. ASSUME joined PROVE TypeOK'
  <2>1. Head(threads) \in Worker /\ Tail(threads) \in Seq(Worker)
    BY <1>7, PopFront DEF TypeOK, ThreadsInv, joined
  <2>2. Tail(threads) # <<>> => Head(Tail(threads)) \in Worker
    BY <2>1
  <2>3. isrun' \in [Worker -> BOOLEAN]
    BY <1>7, <2>2 DEF TypeOK, joined
  <2> QED
    BY <1>7, <2>1, <2>3 DEF TypeOK, joined
<1>8. ASSUME NEW w \in Worker, onStart(w) PROVE TypeOK'
  BY <1>8 DEF TypeOK, onStart
<1>9. ASSUME NEW w \in Worker, checkRun(w) PROVE TypeOK'
  <2>1. \E p \in {"pop", "end"} : pc' = [pc EXCEPT ![w] = p]
    BY <1>9 DEF checkRun
  <2> QED
    BY <1>9, <2>1 DEF TypeOK, checkRun
<1>10. ASSUME NEW w \in Worker, popWaitTask(w) PROVE TypeOK'
  <2>1. waitTasks # <<>> => Head(waitTasks) \in Task /\ Tail(waitTasks) \in Seq(Task)
    BY PopFront DEF TypeOK
  <2>2. CASE waitTasks = <<>>
    BY <1>10, <2>2 DEF TypeOK, popWaitTask
  <2>3. CASE waitTasks # <<>>
    <3>1. task' \in [Worker -> SUBSET Task]
      <4>1. {Head(waitTasks)} \in SUBSET Task
        BY <2>1, <2>3
      <4>2. task' = [task EXCEPT ![w] = {Head(waitTasks)}]
        BY <1>10, <2>3 DEF popWaitTask
      <4> QED
        BY <4>1, <4>2 DEF TypeOK
    <3>2. waitTasks' \in Seq(Task)
      BY <1>10, <2>1, <2>3 DEF popWaitTask
    <3> QED
      BY <1>10, <2>3, <3>1, <3>2 DEF TypeOK, popWaitTask
  <2> QED
    BY <2>2, <2>3
<1>11. ASSUME NEW w \in Worker, run(w) PROVE TypeOK'
  <2>1. CASE crashed'
    BY <1>11, <2>1, RunCases DEF TypeOK, run
  <2>2. CASE ~crashed'
    <3>1. PICK r \in {"ok", "error"}, t \in task[w] :
            /\ result' = [result EXCEPT ![t] = r]
            /\ runs' = [runs EXCEPT ![t] = @ + 1]
            /\ pc' = [pc EXCEPT ![w] = "push"]
            /\ crashed' = crashed
      BY <1>11, <2>2, RunCases
    <3>2. t \in Task
      BY DEF TypeOK
    <3>3. runs' \in [Task -> Nat] /\ result' \in [Task -> {"none", "ok", "error"}]
      BY <3>1, <3>2 DEF TypeOK
    <3> QED
      BY <1>11, <3>1, <3>3 DEF TypeOK, run
  <2> QED
    BY <2>1, <2>2
<1>12. ASSUME NEW w \in Worker, push(w) PROVE TypeOK'
  BY <1>12, PushBack DEF TypeOK, push
<1>13. ASSUME NEW w \in Worker, onEnd(w) PROVE TypeOK'
  BY <1>13 DEF TypeOK, onEnd
<1>14. ASSUME UNCHANGED vars PROVE TypeOK'
  BY <1>14 DEF TypeOK, vars
<1> QED
  BY <1>1, <1>2, <1>3, <1>4, <1>5, <1>6, <1>7, <1>8, <1>9, <1>10, <1>11,
     <1>12, <1>13, <1>14, StepCases

\* Threads, objects and the list of threads stay in step.
LEMMA ThreadsStep ==
  ASSUME TypeOK, ThreadsInv, TaskStage, [Next]_vars
  PROVE  ThreadsInv'
<1> USE DEF mainVars, workVars, taskVars
<1>1. ASSUME NEW n \in 1 .. MaxCreate, create(n) PROVE ThreadsInv'
  BY <1>1, ThreadPoolAssumption DEF ThreadsInv, create
<1>2. ASSUME NEW w \in Worker, startThread(w) PROVE ThreadsInv'
  <2>1. {v \in Worker : object'[v] # "none"} = {v \in Worker : object[v] # "none"} \cup {w}
    BY <1>2 DEF TypeOK, startThread
  <2>2. IsFiniteSet({v \in Worker : object[v] # "none"} \cup {w})
    BY FS_AddElement DEF ThreadsInv
  <2>3. IsFiniteSet({v \in Worker : object'[v] # "none"})
    BY <2>1, <2>2
  <2> QED
    BY <1>2, <2>3 DEF TypeOK, ThreadsInv, startThread
<1>3. ASSUME NEW w \in Worker, construct(w) PROVE ThreadsInv'
  <2>1. ~InSeq(w, threads) /\ main = "create"
    BY <1>3 DEF ThreadsInv, construct
  <2>2. /\ Distinct(threads')
        /\ \A v \in Worker : InSeq(v, threads') <=> InSeq(v, threads) \/ v = w
    BY <1>3, <2>1, PushBack DEF TypeOK, ThreadsInv, construct
  <2>3. {v \in Worker : object'[v] # "none"} = {v \in Worker : object[v] # "none"}
    BY <1>3 DEF TypeOK, construct
  <2>4. main' = "create" => todo' > 0
    BY <1>3, <2>1 DEF TypeOK, ThreadsInv, construct
  <2>5. main' # "join"
    BY <1>3 DEF construct
  <2>6. \A v \in Worker : object'[v] # "starting"
    BY <1>3 DEF TypeOK, ThreadsInv, construct
  <2>7. IsFiniteSet({v \in Worker : object'[v] # "none"})
    BY <2>3 DEF ThreadsInv
  <2>8. \A v \in Worker : /\ object'[v] = IF v = w THEN "made" ELSE object[v]
                          /\ db'[v] = IF v = w THEN "null" ELSE db[v]
    BY <1>3 DEF TypeOK, construct
  <2>9. pc' = pc /\ completeTasks' = completeTasks /\ object[w] = "starting"
    BY <1>3 DEF construct
  <2> QED
    BY <2>2, <2>4, <2>5, <2>6, <2>7, <2>8, <2>9 DEF ThreadsInv
<1>4. ASSUME NEW t \in Task, addTask(t) PROVE ThreadsInv'
  BY <1>4 DEF ThreadsInv, addTask
<1>5. ASSUME NEW w \in Worker, update(w) PROVE ThreadsInv'
  BY <1>5 DEF TypeOK, ThreadsInv, update
<1>6. ASSUME exit PROVE ThreadsInv'
  BY <1>6 DEF ThreadsInv, exit
<1>7. ASSUME joined PROVE ThreadsInv'
  <2>1. threads # <<>> /\ Head(threads) \in Worker
    BY <1>7 DEF TypeOK, ThreadsInv, joined
  <2>2. /\ Distinct(threads')
        /\ \A v \in Worker : InSeq(v, threads') <=> InSeq(v, threads) /\ v # Head(threads)
    BY <1>7, <2>1, PopFront DEF TypeOK, ThreadsInv, joined
  <2>3. {v \in Worker : object'[v] # "none"} = {v \in Worker : object[v] # "none"}
    <3>1. object[Head(threads)] = "made"
      BY <2>1, PopFront DEF TypeOK, ThreadsInv
    <3> QED
      BY <1>7, <3>1 DEF TypeOK, joined
  <2>4. IsFiniteSet({v \in Worker : object'[v] # "none"})
    BY <2>3 DEF ThreadsInv
  <2>5. /\ main' = "join" => threads' # <<>>
        /\ main' # "create" /\ main = "join"
        /\ pc[Head(threads)] = "ended"
        /\ UNCHANGED <<db, pc, completeTasks>>
    BY <1>7 DEF joined
  <2>6. \A v \in Worker : object'[v] = IF v = Head(threads) THEN "deleted" ELSE object[v]
    BY <1>7 DEF TypeOK, joined
  <2>7. object[Head(threads)] = "made"
    BY <2>1, PopFront DEF TypeOK, ThreadsInv
  <2> QED
    BY <2>1, <2>2, <2>4, <2>5, <2>6, <2>7 DEF ThreadsInv
<1>8. ASSUME NEW w \in Worker, onStart(w) PROVE ThreadsInv'
  BY <1>8 DEF TypeOK, ThreadsInv, onStart
<1>9. ASSUME NEW w \in Worker, checkRun(w) PROVE ThreadsInv'
  BY <1>9 DEF TypeOK, ThreadsInv, checkRun
<1>10. ASSUME NEW w \in Worker, popWaitTask(w) PROVE ThreadsInv'
  BY <1>10 DEF TypeOK, ThreadsInv, popWaitTask
<1>11. ASSUME NEW w \in Worker, run(w) PROVE ThreadsInv'
  BY <1>11, RunCases DEF TypeOK, ThreadsInv, run
<1>12. ASSUME NEW w \in Worker, push(w) PROVE ThreadsInv'
  BY <1>12 DEF TypeOK, ThreadsInv, push
<1>13. ASSUME NEW w \in Worker, onEnd(w) PROVE ThreadsInv'
  BY <1>13 DEF TypeOK, ThreadsInv, onEnd
<1>14. ASSUME UNCHANGED vars PROVE ThreadsInv'
  BY <1>14 DEF ThreadsInv, vars
<1> QED
  BY <1>1, <1>2, <1>3, <1>4, <1>5, <1>6, <1>7, <1>8, <1>9, <1>10, <1>11,
     <1>12, <1>13, <1>14, StepCases

\* Under SleepCoversConstructor no worker in its loop loses its connection.
LEMMA ConnectedStep ==
  ASSUME TypeOK, ThreadsInv, ConnectedInv, [Next]_vars
  PROVE  ConnectedInv'
<1> USE DEF mainVars, workVars, taskVars
<1> SUFFICES ASSUME SleepCoversConstructor
             PROVE  /\ \A w \in Worker : object'[w] = "starting" => pc'[w] = "sleep"
                    /\ \A w \in Worker :
                         pc'[w] \in {"check", "pop", "run", "push", "end"} => db'[w] # "null"
                    /\ Device = "mysql" => ~crashed'
  BY DEF ConnectedInv
<1>0. /\ \A w \in Worker : object[w] = "starting" => pc[w] = "sleep"
      /\ \A w \in Worker :
           pc[w] \in {"check", "pop", "run", "push", "end"} => db[w] # "null"
      /\ Device = "mysql" => ~crashed
  BY DEF ConnectedInv
<1>1. CASE \E n \in 1 .. MaxCreate : create(n)
  BY <1>0, <1>1 DEF create
<1>2. CASE \E w \in Worker : startThread(w)
  BY <1>0, <1>2 DEF TypeOK, startThread
<1>3. CASE \E w \in Worker : construct(w)
  BY <1>0, <1>3 DEF TypeOK, construct
<1>4. CASE \E t \in Task : addTask(t)
  BY <1>0, <1>4 DEF addTask
<1>5. CASE \E w \in Worker : update(w)
  BY <1>0, <1>5 DEF update
<1>6. CASE exit
  BY <1>0, <1>6 DEF exit
<1>7. CASE joined
  BY <1>0, <1>7 DEF TypeOK, joined
<1>8. CASE \E w \in Worker : onStart(w)
  BY <1>0, <1>8 DEF TypeOK, onStart
<1>9. CASE \E w \in Worker : checkRun(w)
  <2>1. PICK w \in Worker : checkRun(w)
    BY <1>9
  <2>2. object[w] # "starting"
    BY <1>0, <2>1 DEF checkRun
  <2> QED
    BY <1>0, <2>1, <2>2 DEF TypeOK, checkRun
<1>10. CASE \E w \in Worker : popWaitTask(w)
  BY <1>0, <1>10 DEF TypeOK, popWaitTask
<1>11. CASE \E w \in Worker : run(w)
  <2>1. PICK w \in Worker : run(w)
    BY <1>11
  <2>2. db[w] \in {"open", "failed"} /\ object[w] # "starting"
    BY <1>0, <2>1 DEF TypeOK, run
  <2>3. Device = "mysql" => "crash" \notin Outcome(db[w])
    BY <2>2 DEF Outcome
  <2>4. UNCHANGED <<object, db>>
    BY <2>1 DEF run
  <2>5. CASE crashed'
    <3>1. "crash" \in Outcome(db[w]) /\ UNCHANGED pc
      BY <2>1, <2>5, RunCases DEF run
    <3> QED
      BY <1>0, <2>3, <2>4, <3>1
  <2>6. CASE ~crashed'
    <3>1. pc' = [pc EXCEPT ![w] = "push"]
      BY <2>1, <2>6, RunCases
    <3> QED
      BY <1>0, <2>2, <2>4, <2>6, <3>1 DEF TypeOK
  <2> QED
    BY <2>5, <2>6
<1>12. CASE \E w \in Worker : push(w)
  BY <1>0, <1>12 DEF TypeOK, push
<1>13. CASE \E w \in Worker : onEnd(w)
  BY <1>0, <1>13 DEF TypeOK, onEnd
<1>14. CASE UNCHANGED vars
  BY <1>0, <1>14 DEF vars
<1> QED
  BY <1>1, <1>2, <1>3, <1>4, <1>5, <1>6, <1>7, <1>8, <1>9, <1>10, <1>11,
     <1>12, <1>13, <1>14, StepCases

\* A step that moves no task, and only moves threads that have none.
LEMMA NoTaskMoved ==
  ASSUME TaskInv, UNCHANGED taskVars, UNCHANGED task,
         \A w \in Worker : pc'[w] = pc[w] \/ task[w] = {}
  PROVE  TaskInv'
<1> USE DEF taskVars
<1>1. OwnedOnce'
  BY DEF TaskInv, OwnedOnce
<1>2. TaskStage'
  BY DEF TaskInv, TaskStage, Waiting, Complete
<1>3. TasksConserved'
  BY DEF TaskInv, TasksConserved, Waiting, InHand, Complete, Reported
<1>4. ReportedOnce'
  BY DEF TaskInv, ReportedOnce
<1> QED
  BY <1>1, <1>2, <1>3, <1>4 DEF TaskInv

\* A task that addTask is given is nowhere yet, and waits afterwards.
LEMMA AddTaskStep ==
  ASSUME TypeOK, TaskInv, NEW t \in Task, addTask(t)
  PROVE  TaskInv'
<1> USE DEF workVars, mainVars
<1>1. ~InSeq(t, added) /\ ~Waiting(t) /\ ~InHand(t) /\ ~Complete(t) /\ ~Reported(t)
  BY DEF addTask, TaskInv, TasksConserved
<1>2. /\ \A s \in Task : InSeq(s, added)' <=> InSeq(s, added) \/ s = t
      /\ \A s \in Task : Waiting(s)' <=> Waiting(s) \/ s = t
      /\ Distinct(waitTasks)'
  <2>1. Distinct(waitTasks) /\ waitTasks \in Seq(Task) /\ added \in Seq(Task)
    BY DEF TypeOK, TaskInv, OwnedOnce
  <2> QED
    BY <1>1, <2>1, PushBack DEF addTask, Waiting
<1>3. \A s \in Task : /\ InHand(s)' <=> InHand(s)
                      /\ Complete(s)' <=> Complete(s)
                      /\ Reported(s)' <=> Reported(s)
  BY DEF addTask, InHand, Complete, Reported
<1>4. UNCHANGED <<pc, task, completeTasks, runs, result, reports>>
  BY DEF addTask
<1>5. OwnedOnce'
  BY <1>2, <1>4 DEF TaskInv, OwnedOnce
<1>6. TaskStage'
  <2>1. runs[t] = 0 /\ result[t] = "none"
    BY <1>1 DEF TaskInv, TaskStage
  <2> QED
    BY <1>2, <1>3, <1>4, <2>1 DEF TaskInv, TaskStage
<1>7. TasksConserved'
  BY <1>1, <1>2, <1>3 DEF TaskInv, TasksConserved
<1>8. ReportedOnce'
  BY <1>4 DEF TaskInv, ReportedOnce
<1> QED
  BY <1>5, <1>6, <1>7, <1>8 DEF TaskInv

\* update takes a completed task away and reports it.
LEMMA UpdateStep ==
  ASSUME TypeOK, TaskInv, NEW w \in Worker, update(w)
  PROVE  TaskInv'
<1> DEFINE t == Head(completeTasks[w])
<1> USE DEF workVars, mainVars
<1>1. /\ completeTasks[w] \in Seq(Task) /\ completeTasks[w] # <<>>
      /\ t \in Task
      /\ \A v \in Worker : completeTasks'[v] = IF v = w THEN Tail(completeTasks[w])
                                               ELSE completeTasks[v]
  BY DEF TypeOK, update
<1>2. /\ Distinct(Tail(completeTasks[w]))
      /\ \A s : InSeq(s, Tail(completeTasks[w])) <=> InSeq(s, completeTasks[w]) /\ s # t
      /\ InSeq(t, completeTasks[w])
  BY <1>1, PopFront DEF TaskInv, OwnedOnce
<1>3. /\ reports \in Seq(Task \X {"none", "ok", "error"})
      /\ reports' = Append(reports, <<t, result[t]>>)
      /\ <<t, result[t]>> \in Task \X {"none", "ok", "error"}
      /\ UNCHANGED <<pc, task, waitTasks, added, runs, result>>
  BY <1>1 DEF TypeOK, update
<1> HIDE DEF t
<1>4. /\ Len(reports') = Len(reports) + 1
      /\ Len(reports) \in Nat
      /\ \A i \in 1 .. Len(reports) : reports'[i] = reports[i]
      /\ reports'[Len(reports) + 1] = <<t, result[t]>>
      /\ 1 .. Len(reports) + 1 = (1 .. Len(reports)) \cup {Len(reports) + 1}
  BY <1>3
<1>5. \A s \in Task : Reported(s)' <=> Reported(s) \/ s = t
  BY <1>4 DEF Reported
<1>6. \A s \in Task : Complete(s)' <=> Complete(s) /\ s # t
  <2>1. ASSUME NEW s \in Task, NEW v \in Worker, InSeq(s, completeTasks'[v])
        PROVE  InSeq(s, completeTasks[v]) /\ s # t
    <3>1. CASE v = w
      BY <1>1, <1>2, <2>1, <3>1
    <3>2. CASE v # w
      BY <1>1, <1>2, <2>1, <3>2 DEF TaskInv, OwnedOnce
    <3> QED
      BY <3>1, <3>2
  <2>2. ASSUME NEW s \in Task, NEW v \in Worker, InSeq(s, completeTasks[v]), s # t
        PROVE  InSeq(s, completeTasks'[v])
    BY <1>1, <1>2, <2>2
  <2> QED
    BY <2>1, <2>2 DEF Complete
<1>7. /\ Complete(t) /\ ~Waiting(t) /\ ~InHand(t) /\ ~Reported(t)
      /\ InSeq(t, added)
      /\ runs[t] = 1 /\ result[t] # "none"
  <2>1. Complete(t)
    BY <1>2 DEF Complete
  <2> QED
    BY <1>1, <2>1 DEF TaskInv, TasksConserved, TaskStage
<1>8. \A s \in Task : (Waiting(s)' <=> Waiting(s)) /\ (InHand(s)' <=> InHand(s))
  BY <1>3 DEF Waiting, InHand
<1>9. OwnedOnce'
  <2>1. ASSUME NEW u \in Worker, NEW v \in Worker, NEW s \in Task,
               InSeq(s, completeTasks'[u]), InSeq(s, completeTasks'[v])
        PROVE  u = v
    <3>1. InSeq(s, completeTasks[u]) /\ InSeq(s, completeTasks[v])
      BY <1>1, <1>2, <2>1
    <3> QED
      BY <3>1 DEF TaskInv, OwnedOnce
  <2>2. \A v \in Worker : Distinct(completeTasks'[v])
    BY <1>1, <1>2 DEF TaskInv, OwnedOnce
  <2> QED
    BY <1>3, <2>1, <2>2 DEF TaskInv, OwnedOnce
<1>10. TaskStage'
  BY <1>3, <1>6, <1>8 DEF TaskInv, TaskStage
<1>11. TasksConserved'
  BY <1>3, <1>5, <1>6, <1>7, <1>8 DEF TaskInv, TasksConserved
<1>12. ReportedOnce'
  <2>1. \A i \in 1 .. Len(reports) : reports[i][1] # t
    BY <1>7 DEF Reported
  <2>2. <<t, result[t]>>[1] = t /\ <<t, result[t]>>[2] = result[t]
    OBVIOUS
  <2> QED
    BY <1>3, <1>4, <1>7, <2>1, <2>2 DEF TaskInv, ReportedOnce
<1> QED
  BY <1>9, <1>10, <1>11, <1>12 DEF TaskInv

\* A worker that pops a waiting task has it in its hands alone.
LEMMA PopStep ==
  ASSUME TypeOK, TaskInv, NEW w \in Worker, popWaitTask(w)
  PROVE  TaskInv'
<1> USE DEF mainVars
<1>0. task[w] = {}
  BY DEF popWaitTask, TaskInv, TaskStage
<1>1. CASE waitTasks = <<>>
  <2>1. /\ UNCHANGED <<taskVars, task>>
        /\ \A v \in Worker : pc'[v] = pc[v] \/ task[v] = {}
    BY <1>0, <1>1 DEF TypeOK, popWaitTask, taskVars
  <2> QED
    BY <2>1, NoTaskMoved
<1>2. CASE waitTasks # <<>>
  <2> DEFINE t == Head(waitTasks)
  <2>1. /\ waitTasks' = Tail(waitTasks)
        /\ \A v \in Worker : task'[v] = IF v = w THEN {t} ELSE task[v]
        /\ \A v \in Worker : pc'[v] = IF v = w THEN "run" ELSE pc[v]
        /\ UNCHANGED <<completeTasks, added, runs, result, reports>>
    BY <1>2 DEF TypeOK, popWaitTask
  <2>2. /\ t \in Task
        /\ Distinct(waitTasks')
        /\ \A s : InSeq(s, waitTasks') <=> InSeq(s, waitTasks) /\ s # t
        /\ InSeq(t, waitTasks)
    BY <1>2, <2>1, PopFront DEF TypeOK, TaskInv, OwnedOnce
  <2> HIDE DEF t
  <2>3. /\ Waiting(t) /\ InSeq(t, added) /\ ~InHand(t) /\ ~Complete(t) /\ ~Reported(t)
        /\ runs[t] = 0 /\ result[t] = "none"
    BY <2>2 DEF TaskInv, TasksConserved, TaskStage, Waiting
  <2>4. \A s \in Task : /\ Waiting(s)' <=> Waiting(s) /\ s # t
                        /\ InHand(s)' <=> InHand(s) \/ s = t
                        /\ Complete(s)' <=> Complete(s)
                        /\ Reported(s)' <=> Reported(s)
    <3>1. \A s \in Task : InHand(s)' <=> InHand(s) \/ s = t
      BY <1>0, <2>1 DEF InHand
    <3> QED
      BY <2>1, <2>2, <3>1 DEF Waiting, Complete, Reported
  <2>5. OwnedOnce'
    <3>1. ASSUME NEW u \in Worker, NEW v \in Worker, NEW s \in task'[u], s \in task'[v]
          PROVE  u = v
      BY <2>1, <2>3, <3>1 DEF TaskInv, OwnedOnce, InHand
    <3>2. \A v \in Worker : \A r, s \in task'[v] : r = s
      BY <2>1 DEF TaskInv, OwnedOnce
    <3> QED
      BY <2>1, <2>2, <3>1, <3>2 DEF TaskInv, OwnedOnce
  <2>6. TaskStage'
    BY <1>0, <2>1, <2>3, <2>4 DEF TaskInv, TaskStage
  <2>7. TasksConserved'
    BY <2>1, <2>3, <2>4 DEF TaskInv, TasksConserved
  <2>8. ReportedOnce'
    BY <2>1 DEF TaskInv, ReportedOnce
  <2> QED
    BY <2>5, <2>6, <2>7, <2>8 DEF TaskInv
<1> QED
  BY <1>1, <1>2

\* process is called for a task in the hands of one worker, for the first time.
LEMMA RunStep ==
  ASSUME TypeOK, TaskInv, NEW w \in Worker, run(w)
  PROVE  TaskInv'
<1> USE DEF mainVars
<1>0. UNCHANGED <<task, waitTasks, completeTasks, added, reports>> /\ pc[w] = "run"
  BY DEF run
<1>1. CASE crashed'
  <2>1. UNCHANGED <<pc, result, runs>>
    BY <1>1, RunCases DEF run
  <2> QED
    BY <1>0, <2>1, NoTaskMoved DEF taskVars
<1>2. CASE ~crashed'
  <2>1. PICK r \in {"ok", "error"}, t \in task[w] :
          /\ result' = [result EXCEPT ![t] = r]
          /\ runs' = [runs EXCEPT ![t] = @ + 1]
          /\ pc' = [pc EXCEPT ![w] = "push"]
    BY <1>2, RunCases
  <2>2. /\ t \in Task /\ InHand(t) /\ runs[t] = 0
        /\ \A s \in task[w] : s = t
        /\ \A v \in Worker : t \in task[v] => v = w
    BY <1>0 DEF TypeOK, TaskInv, TaskStage, OwnedOnce, InHand
  <2>3. InSeq(t, added) /\ ~Waiting(t) /\ ~Complete(t) /\ ~Reported(t)
    BY <2>2 DEF TaskInv, TasksConserved
  <2>4. /\ \A s \in Task : result'[s] = IF s = t THEN r ELSE result[s]
        /\ \A s \in Task : runs'[s] = IF s = t THEN 1 ELSE runs[s]
        /\ \A v \in Worker : pc'[v] = IF v = w THEN "push" ELSE pc[v]
    BY <2>1, <2>2 DEF TypeOK
  <2>5. \A s \in Task : /\ Waiting(s)' <=> Waiting(s)
                        /\ InHand(s)' <=> InHand(s)
                        /\ Complete(s)' <=> Complete(s)
                        /\ Reported(s)' <=> Reported(s)
    BY <1>0 DEF Waiting, InHand, Complete, Reported
  <2>6. OwnedOnce'
    BY <1>0 DEF TaskInv, OwnedOnce
  <2>7. TaskStage'
    <3>1. /\ \A v \in Worker : task'[v] # {} => pc'[v] \in {"run", "push"}
          /\ \A s \in Task :
               ~InSeq(s, added') \/ Waiting(s)' => runs'[s] = 0 /\ result'[s] = "none"
      BY <1>0, <2>3, <2>4, <2>5 DEF TaskInv, TaskStage
    <3>2. ASSUME NEW v \in Worker, NEW s \in task'[v]
          PROVE  /\ pc'[v] = "run" => runs'[s] = 0 /\ result'[s] = "none"
                 /\ pc'[v] = "push" => runs'[s] = 1 /\ result'[s] # "none"
      <4>1. s \in task[v] /\ s \in Task
        BY <1>0 DEF TypeOK
      <4>2. CASE v = w
        BY <2>2, <2>4, <4>1, <4>2
      <4>3. CASE v # w
        BY <2>2, <2>4, <4>1, <4>3 DEF TaskInv, TaskStage
      <4> QED
        BY <4>2, <4>3
    <3>3. \A s \in Task : Complete(s)' => runs'[s] = 1 /\ result'[s] # "none"
      BY <2>3, <2>4, <2>5 DEF TaskInv, TaskStage
    <3> QED
      BY <3>1, <3>2, <3>3 DEF TaskStage
  <2>8. TasksConserved'
    BY <1>0, <2>5 DEF TaskInv, TasksConserved
  <2>9. ReportedOnce'
    <3>1. \A i \in 1 .. Len(reports) : reports[i][1] # t /\ reports[i][1] \in Task
      BY <2>3 DEF Reported, TypeOK
    <3> QED
      BY <1>0, <2>4, <3>1 DEF TaskInv, ReportedOnce
  <2> QED
    BY <2>6, <2>7, <2>8, <2>9 DEF TaskInv
<1> QED
  BY <1>1, <1>2

\* A processed task goes from a worker's hands to the completed ones.
LEMMA PushStep ==
  ASSUME TypeOK, TaskInv, NEW w \in Worker, push(w)
  PROVE  TaskInv'
<1> USE DEF mainVars
<1>1. PICK t \in task[w] : completeTasks' = [completeTasks EXCEPT ![w] = Append(@, t)]
  BY DEF push
<1>2. /\ \A v \in Worker : task'[v] = IF v = w THEN {} ELSE task[v]
      /\ \A v \in Worker : pc'[v] = IF v = w THEN "check" ELSE pc[v]
      /\ UNCHANGED <<waitTasks, added, runs, result, reports>>
      /\ pc[w] = "push"
  BY DEF TypeOK, push
<1>3. /\ t \in Task /\ InHand(t) /\ runs[t] = 1 /\ result[t] # "none"
      /\ \A s \in task[w] : s = t
      /\ \A v \in Worker : t \in task[v] => v = w
  BY <1>2 DEF TypeOK, TaskInv, TaskStage, OwnedOnce, InHand
<1>4. InSeq(t, added) /\ ~Waiting(t) /\ ~Complete(t) /\ ~Reported(t)
  BY <1>3 DEF TaskInv, TasksConserved
<1>5. /\ \A v \in Worker : \A s \in Task :
           InSeq(s, completeTasks'[v]) <=> InSeq(s, completeTasks[v]) \/ (v = w /\ s = t)
      /\ \A v \in Worker : Distinct(completeTasks'[v])
  <2>1. completeTasks[w] \in Seq(Task) /\ ~InSeq(t, completeTasks[w])
    BY <1>4 DEF TypeOK, Complete
  <2>2. \A v \in Worker : completeTasks'[v] = IF v = w THEN Append(completeTasks[w], t)
                                              ELSE completeTasks[v]
    BY <1>1 DEF TypeOK
  <2>3. /\ Distinct(Append(completeTasks[w], t))
        /\ \A s : InSeq(s, Append(completeTasks[w], t)) <=> InSeq(s, completeTasks[w]) \/ s = t
    BY <1>3, <2>1, PushBack DEF TaskInv, OwnedOnce
  <2> QED
    BY <2>2, <2>3 DEF TaskInv, OwnedOnce
<1>6. \A s \in Task : /\ Waiting(s)' <=> Waiting(s)
                      /\ InHand(s)' <=> InHand(s) /\ s # t
                      /\ Complete(s)' <=> Complete(s) \/ s = t
                      /\ Reported(s)' <=> Reported(s)
  <2>1. \A s \in Task : InHand(s)' <=> InHand(s) /\ s # t
    BY <1>2, <1>3 DEF InHand
  <2>2. \A s \in Task : Complete(s)' <=> Complete(s) \/ s = t
    BY <1>5 DEF Complete
  <2> QED
    BY <1>2, <2>1, <2>2 DEF Waiting, Reported
<1>7. OwnedOnce'
  <2>1. ASSUME NEW u \in Worker, NEW v \in Worker, NEW s \in Task,
               InSeq(s, completeTasks'[u]), InSeq(s, completeTasks'[v])
        PROVE  u = v
    BY <1>4, <1>5, <2>1 DEF TaskInv, OwnedOnce, Complete
  <2>2. /\ \A v \in Worker : \A r, s \in task'[v] : r = s
        /\ \A u, v \in Worker : \A s \in task'[u] : s \in task'[v] => u = v
    BY <1>2 DEF TaskInv, OwnedOnce
  <2>3. Distinct(waitTasks')
    BY <1>2 DEF TaskInv, OwnedOnce
  <2> QED
    BY <1>5, <2>1, <2>2, <2>3 DEF OwnedOnce
<1>8. TaskStage'
  BY <1>2, <1>3, <1>6 DEF TaskInv, TaskStage
<1>9. TasksConserved'
  BY <1>2, <1>3, <1>4, <1>6 DEF TaskInv, TasksConserved
<1>10. ReportedOnce'
  BY <1>2 DEF TaskInv, ReportedOnce
<1> QED
  BY <1>7, <1>8, <1>9, <1>10 DEF TaskInv

\* No step of any thread loses or duplicates a task.
LEMMA TaskStep ==
  ASSUME TypeOK, ThreadsInv, TaskInv, [Next]_vars
  PROVE  TaskInv'
<1> USE DEF mainVars, workVars
<1>0. \A w \in Worker : pc[w] \notin {"run", "push"} => task[w] = {}
  BY DEF TaskInv, TaskStage
<1>1. CASE \E n \in 1 .. MaxCreate : create(n)
  BY <1>1, NoTaskMoved DEF create
<1>2. CASE \E w \in Worker : startThread(w)
  <2>1. \A w \in Worker : object[w] = "none" => task[w] = {}
    BY <1>0 DEF ThreadsInv
  <2> QED
    BY <1>2, <2>1, NoTaskMoved DEF TypeOK, startThread
<1>3. CASE \E w \in Worker : construct(w)
  BY <1>3, NoTaskMoved DEF construct
<1>4. CASE \E t \in Task : addTask(t)
  BY <1>4, AddTaskStep
<1>5. CASE \E w \in Worker : update(w)
  BY <1>5, UpdateStep
<1>6. CASE exit
  BY <1>6, NoTaskMoved DEF exit
<1>7. CASE joined
  BY <1>7, NoTaskMoved DEF joined
<1>8. CASE \E w \in Worker : onStart(w)
  BY <1>0, <1>8, NoTaskMoved DEF TypeOK, onStart
<1>9. CASE \E w \in Worker : checkRun(w)
  BY <1>0, <1>9, NoTaskMoved DEF TypeOK, checkRun
<1>10. CASE \E w \in Worker : popWaitTask(w)
  BY <1>10, PopStep
<1>11. CASE \E w \in Worker : run(w)
  BY <1>11, RunStep
<1>12. CASE \E w \in Worker : push(w)
  BY <1>12, PushStep
<1>13. CASE \E w \in Worker : onEnd(w)
  BY <1>0, <1>13, NoTaskMoved DEF TypeOK, onEnd
<1>14. CASE UNCHANGED vars
  BY <1>14, NoTaskMoved DEF vars, taskVars
<1> QED
  BY <1>1, <1>2, <1>3, <1>4, <1>5, <1>6, <1>7, <1>8, <1>9, <1>10, <1>11,
     <1>12, <1>13, <1>14, StepCases

\* A step that moves no task and does not take a worker's object away.
LEMMA NoOrderChanged ==
  ASSUME OrderInv, UNCHANGED <<reports, completeTasks, task, added, waitTasks>>,
         \A w \in Worker : object'[w] = "none" => object[w] = "none"
  PROVE  OrderInv'
<1>1. \A w \in Worker : Lined(w)' <=> Lined(w)
  BY DEF Lined
<1>2. \A w \in Worker : Alone(w)' => Alone(w)
  BY DEF Alone
<1> QED
  BY <1>1, <1>2 DEF OrderInv

\* A worker that acts has an object; if a worker is alone, it is the one.
LEMMA TheOnlyOne ==
  ASSUME TypeOK, ThreadsInv, UNCHANGED object,
         NEW w \in Worker, completeTasks[w] # <<>> \/ pc[w] # "none",
         \A v \in Worker : Alone(v) /\ v = w => Lined(v)'
  PROVE  OrderInv'
<1>1. object[w] # "none"
  BY DEF ThreadsInv
<1>2. \A v \in Worker : Alone(v)' => v = w /\ Alone(v)
  BY <1>1 DEF Alone
<1> QED
  BY <1>1, <1>2 DEF OrderInv

\* With one worker, the tasks stay in line on their way through the pool.
LEMMA OrderStep ==
  ASSUME TypeOK, ThreadsInv, TaskInv, OrderInv, [Next]_vars
  PROVE  OrderInv'
<1> USE DEF mainVars, workVars, taskVars
<1>0. /\ added \in Seq(Task) /\ waitTasks \in Seq(Task)
      /\ reports \in Seq(Task \X {"none", "ok", "error"})
      /\ \A v \in Worker : completeTasks[v] \in Seq(Task)
  BY DEF TypeOK
<1>1. CASE \E n \in 1 .. MaxCreate : create(n)
  BY <1>1, NoOrderChanged DEF create
<1>2. CASE \E w \in Worker : startThread(w)
  BY <1>2, NoOrderChanged DEF TypeOK, startThread
<1>3. CASE \E w \in Worker : construct(w)
  BY <1>3, NoOrderChanged DEF TypeOK, construct
<1>4. ASSUME NEW t \in Task, addTask(t) PROVE OrderInv'
  <2>1. /\ added' = Append(added, t) /\ waitTasks' = Append(waitTasks, t)
        /\ UNCHANGED <<reports, completeTasks, task, object>>
    BY <1>4 DEF addTask
  <2>2. /\ Len(added') = Len(added) + 1 /\ Len(waitTasks') = Len(waitTasks) + 1
        /\ \A i \in 1 .. Len(added) : added'[i] = added[i]
        /\ \A i \in 1 .. Len(waitTasks) : waitTasks'[i] = waitTasks[i]
        /\ added'[Len(added) + 1] = t /\ waitTasks'[Len(waitTasks) + 1] = t
    BY <1>0, <2>1
  <2>3. ASSUME NEW w \in Worker, Lined(w)
        PROVE  Lined(w)'
    <3> DEFINE r == Len(reports)
               c == r + Len(completeTasks[w])
               h == IF task[w] = {} THEN c ELSE c + 1
    <3>1. /\ r \in Nat /\ c \in Nat /\ h \in Nat /\ Len(waitTasks) \in Nat
          /\ r <= c /\ c <= h /\ Len(completeTasks[w]) = c - r
          /\ task[w] # {} => h = c + 1
      BY <1>0
    <3>2. /\ Len(added) = h + Len(waitTasks)
          /\ \A i \in 1 .. r : reports[i][1] = added[i]
          /\ \A i \in 1 .. Len(completeTasks[w]) : completeTasks[w][i] = added[r + i]
          /\ \A s \in task[w] : added[c + 1] = s
          /\ \A i \in 1 .. Len(waitTasks) : waitTasks[i] = added[h + i]
      BY <2>3 DEF Lined
    <3>3. /\ r' = r /\ c' = c /\ h' = h
      BY <2>1
    <3> HIDE DEF r, c, h
    <3>4. Len(added') = h + Len(waitTasks')
      BY <2>2, <3>1, <3>2
    <3>5. \A i \in 1 .. r : reports'[i][1] = added'[i]
      BY <2>1, <2>2, <3>1, <3>2
    <3>6. \A i \in 1 .. Len(completeTasks'[w]) : completeTasks'[w][i] = added'[r + i]
      BY <2>1, <2>2, <3>1, <3>2
    <3>7. \A s \in task'[w] : added'[c + 1] = s
      BY <2>1, <2>2, <3>1, <3>2
    <3>8. \A i \in 1 .. Len(waitTasks') : waitTasks'[i] = added'[h + i]
      <4> TAKE i \in 1 .. Len(waitTasks')
      <4>1. CASE i = Len(waitTasks) + 1
        BY <2>2, <3>1, <3>2, <4>1
      <4>2. CASE i # Len(waitTasks) + 1
        <5>1. i \in 1 .. Len(waitTasks) /\ h + i \in 1 .. Len(added)
          BY <2>2, <3>1, <3>2, <4>2
        <5> QED
          BY <2>2, <3>2, <5>1
      <4> QED
        BY <4>1, <4>2
    <3> QED
      BY <2>1, <3>3, <3>4, <3>5, <3>6, <3>7, <3>8 DEF Lined, r, c, h
  <2> QED
    BY <2>1, <2>3 DEF OrderInv, Alone
<1>5. ASSUME NEW w \in Worker, update(w) PROVE OrderInv'
  <2> DEFINE q == completeTasks[w]
  <2>1. /\ reports' = Append(reports, <<Head(q), result[Head(q)]>>)
        /\ completeTasks'[w] = Tail(q) /\ q # <<>>
        /\ UNCHANGED <<added, waitTasks, task, object>>
    BY <1>5 DEF TypeOK, update
  <2>2. /\ Len(reports') = Len(reports) + 1 /\ Len(completeTasks'[w]) = Len(q) - 1
        /\ \A i \in 1 .. Len(reports) : reports'[i] = reports[i]
        /\ reports'[Len(reports) + 1][1] = q[1]
        /\ \A i \in 1 .. Len(q) - 1 : completeTasks'[w][i] = q[i + 1]
        /\ Len(q) \in Nat \ {0} /\ Len(reports) \in Nat
    <3>1. Head(q) \in Task /\ result[Head(q)] \in {"none", "ok", "error"} /\ Head(q) = q[1]
      BY <1>0, <2>1 DEF TypeOK
    <3> QED
      BY <1>0, <2>1, <3>1
  <2>3. ASSUME Lined(w) PROVE Lined(w)'
    <3> DEFINE r == Len(reports)
               c == r + Len(q)
               h == IF task[w] = {} THEN c ELSE c + 1
    <3>1. /\ Len(added) = h + Len(waitTasks)
          /\ \A i \in 1 .. r : reports[i][1] = added[i]
          /\ \A i \in 1 .. Len(q) : q[i] = added[r + i]
          /\ \A s \in task[w] : added[c + 1] = s
          /\ \A i \in 1 .. Len(waitTasks) : waitTasks[i] = added[h + i]
      BY <2>3 DEF Lined
    <3>2. r' = r + 1 /\ c' = c /\ h' = h
      <4>1. c' = (r + 1) + (Len(q) - 1)
        BY <2>2
      <4>2. c' = c
        <5>1. ASSUME NEW m \in Nat, NEW n \in Nat PROVE (m + 1) + (n - 1) = m + n
          OBVIOUS
        <5>2. (r + 1) + (Len(q) - 1) = r + Len(q)
          BY <2>2, <5>1
        <5> QED
          BY <4>1, <5>2
      <4> HIDE DEF c
      <4> QED
        BY <2>1, <2>2, <4>2
    <3>3. \A i \in 1 .. r + 1 : reports'[i][1] = added[i]
      <4> HIDE DEF q
      <4> TAKE i \in 1 .. r + 1
      <4>1. i \in 1 .. r \/ i = r + 1
        BY <2>2
      <4>2. q[1] = added[r + 1]
        BY <2>2, <3>1
      <4> QED
        BY <2>2, <3>1, <4>1, <4>2
    <3>4. \A i \in 1 .. Len(completeTasks'[w]) : completeTasks'[w][i] = added[r + 1 + i]
      <4> TAKE i \in 1 .. Len(completeTasks'[w])
      <4>1. i + 1 \in 1 .. Len(q) /\ r + 1 + i = r + (i + 1)
        BY <2>2
      <4> QED
        BY <2>2, <3>1, <4>1
    <3> HIDE DEF r, c, h, q
    <3> QED
      BY <2>1, <3>1, <3>2, <3>3, <3>4 DEF Lined, r, c, h, q
  <2> QED
    BY <2>1, <2>3, TheOnlyOne DEF OrderInv
<1>6. CASE exit
  BY <1>6, NoOrderChanged DEF exit
<1>7. CASE joined
  BY <1>7, NoOrderChanged DEF TypeOK, joined
<1>8. CASE \E w \in Worker : onStart(w)
  BY <1>8, NoOrderChanged DEF onStart
<1>9. CASE \E w \in Worker : checkRun(w)
  BY <1>9, NoOrderChanged DEF checkRun
<1>10. ASSUME NEW w \in Worker, popWaitTask(w) PROVE OrderInv'
  <2>1. CASE waitTasks = <<>>
    BY <1>10, <2>1, NoOrderChanged DEF popWaitTask
  <2>2. CASE waitTasks # <<>>
    <3>1. /\ task[w] = {} /\ task'[w] = {Head(waitTasks)} /\ waitTasks' = Tail(waitTasks)
          /\ UNCHANGED <<added, reports, completeTasks, object>>
          /\ pc[w] # "none"
      BY <1>10, <2>2 DEF TypeOK, TaskInv, TaskStage, popWaitTask
    <3>2. /\ Len(waitTasks) \in Nat \ {0}
          /\ Head(waitTasks) = waitTasks[1]
          /\ Len(waitTasks') = Len(waitTasks) - 1
          /\ \A i \in 1 .. Len(waitTasks) - 1 : waitTasks'[i] = waitTasks[i + 1]
      BY <1>0, <2>2, <3>1
    <3>3. ASSUME Lined(w) PROVE Lined(w)'
      <4> DEFINE c == Len(reports) + Len(completeTasks[w])
      <4>1. /\ Len(added) = c + Len(waitTasks)
            /\ \A i \in 1 .. Len(waitTasks) : waitTasks[i] = added[c + i]
        BY <3>1, <3>3 DEF Lined
      <4>2. c \in Nat /\ c' = c
        BY <1>0, <3>1
      <4> HIDE DEF c
      <4>3. added[c + 1] = Head(waitTasks)
        BY <3>2, <4>1
      <4>4. \A i \in 1 .. Len(waitTasks') : waitTasks'[i] = added[c + 1 + i]
        <5> TAKE i \in 1 .. Len(waitTasks')
        <5>1. i + 1 \in 1 .. Len(waitTasks) /\ c + 1 + i = c + (i + 1)
          BY <3>2, <4>2
        <5> QED
          BY <3>2, <4>1, <5>1
      <4>5. Len(added) = c + 1 + Len(waitTasks')
        BY <3>2, <4>1, <4>2
      <4> QED
        BY <3>1, <3>3, <4>2, <4>3, <4>4, <4>5 DEF Lined, c
    <3> QED
      BY <3>1, <3>3, TheOnlyOne DEF OrderInv
  <2> QED
    BY <2>1, <2>2
<1>11. ASSUME NEW w \in Worker, run(w) PROVE OrderInv'
  BY <1>11, NoOrderChanged DEF run
<1>12. ASSUME NEW w \in Worker, push(w) PROVE OrderInv'
  <2> DEFINE q == completeTasks[w]
  <2>1. PICK t \in task[w] : completeTasks'[w] = Append(q, t)
    BY <1>12 DEF TypeOK, push
  <2>2. /\ task'[w] = {} /\ task[w] # {} /\ pc[w] # "none"
        /\ UNCHANGED <<added, reports, waitTasks, object>>
    BY <1>12 DEF TypeOK, push
  <2>3. /\ Len(q) \in Nat
        /\ Len(completeTasks'[w]) = Len(q) + 1
        /\ \A i \in 1 .. Len(q) : completeTasks'[w][i] = q[i]
        /\ completeTasks'[w][Len(q) + 1] = t
    <3>1. t \in Task
      BY DEF TypeOK
    <3> QED
      BY <1>0, <2>1, <3>1
  <2>4. ASSUME Lined(w) PROVE Lined(w)'
    <3> DEFINE r == Len(reports)
    <3>1. /\ Len(added) = r + Len(q) + 1 + Len(waitTasks)
          /\ \A i \in 1 .. Len(q) : q[i] = added[r + i]
          /\ added[r + Len(q) + 1] = t
          /\ \A i \in 1 .. Len(waitTasks) : waitTasks[i] = added[r + Len(q) + 1 + i]
          /\ \A i \in 1 .. r : reports[i][1] = added[i]
      BY <2>2, <2>4 DEF Lined
    <3>2. r \in Nat /\ r' = r
      BY <1>0, <2>2
    <3>3. \A i \in 1 .. Len(completeTasks'[w]) : completeTasks'[w][i] = added[r + i]
      <4> HIDE DEF q, r
      <4> TAKE i \in 1 .. Len(completeTasks'[w])
      <4>1. i \in 1 .. Len(q) \/ i = Len(q) + 1
        BY <2>3
      <4>2. r + (Len(q) + 1) = r + Len(q) + 1
        BY <2>3, <3>2
      <4> QED
        BY <2>3, <3>1, <4>1, <4>2
    <3>4. r + Len(completeTasks'[w]) = r + Len(q) + 1
      BY <2>3, <3>2
    <3> HIDE DEF r, q
    <3> QED
      BY <2>2, <3>1, <3>2, <3>3, <3>4 DEF Lined, r
  <2> QED
    BY <2>2, <2>4, TheOnlyOne DEF OrderInv
<1>13. CASE \E w \in Worker : onEnd(w)
  BY <1>13, NoOrderChanged DEF onEnd
<1>14. CASE UNCHANGED vars
  BY <1>14, NoOrderChanged DEF vars
<1> QED
  BY <1>1, <1>2, <1>3, <1>4, <1>5, <1>6, <1>7, <1>8, <1>9, <1>10, <1>11,
     <1>12, <1>13, <1>14, StepCases

\* The invariant is inductive.
LEMMA IInvStep ==
  ASSUME IInv, [Next]_vars
  PROVE  IInv'
<1>1. TypeOK /\ ThreadsInv /\ ConnectedInv /\ TaskInv /\ OrderInv /\ TaskStage
  BY DEF IInv, TaskInv
<1>2. TypeOK'
  BY <1>1, TypeStep
<1>3. ThreadsInv'
  BY <1>1, ThreadsStep
<1>4. ConnectedInv'
  BY <1>1, ConnectedStep
<1>5. TaskInv'
  BY <1>1, TaskStep
<1>6. OrderInv'
  BY <1>1, OrderStep
<1> QED
  BY <1>2, <1>3, <1>4, <1>5, <1>6 DEF IInv

\* The inductive invariant holds of every run of the pool.
LEMMA Invariant == Spec => []IInv
<1>1. Init => IInv
  BY InitInv
<1>2. IInv /\ [Next]_vars => IInv'
  BY IInvStep
<1> QED
  BY <1>1, <1>2, PTL DEF Spec

-----------------------------------------------------------------------------
(***************************************************************************)
(* The theorems                                                            *)
(***************************************************************************)

\* Two workers that have been created make two.
LEMMA AtMostOne ==
  ASSUME NEW S, IsFiniteSet(S), Cardinality(S) <= 1
  PROVE  \A v, w \in S : v = w
<1> SUFFICES ASSUME NEW v \in S, NEW w \in S, v # w PROVE FALSE
  OBVIOUS
<1>1. IsFiniteSet({v}) /\ Cardinality({v}) = 1
  BY FS_Singleton
<1>2. IsFiniteSet({v} \cup {w}) /\ Cardinality({v} \cup {w}) = 2
  <2>1. w \notin {v}
    OBVIOUS
  <2>2. Cardinality({v} \cup {w}) = Cardinality({v}) + 1 /\ IsFiniteSet({v} \cup {w})
    BY <1>1, <2>1, FS_AddElement
  <2> QED
    BY <1>1, <2>2
<1>3. Cardinality({v} \cup {w}) <= Cardinality(S)
  <2>1. {v} \cup {w} \in SUBSET S
    OBVIOUS
  <2> QED
    BY <2>1, FS_Subset
<1>4. Cardinality(S) \in Nat
  BY FS_CardinalityType
<1> QED
  BY <1>2, <1>3, <1>4

\* With one worker the reports are a prefix of the tasks added.
LEMMA OrderFromInv ==
  ASSUME IInv
  PROVE  OneWorkerInOrder
<1> DEFINE S == {w \in Worker : object[w] # "none"}
<1> SUFFICES ASSUME Cardinality(S) <= 1, NEW i \in 1 .. Len(reports)
             PROVE  i <= Len(added) /\ reports[i][1] = added[i]
  BY DEF OneWorkerInOrder
<1>1. \A v, w \in S : v = w
  BY AtMostOne DEF IInv, ThreadsInv
<1>2. PICK w \in Worker : object[w] # "none"
  <2>1. reports # <<>>
    OBVIOUS
  <2> QED
    BY <2>1 DEF IInv, OrderInv
<1>3. Lined(w)
  BY <1>1, <1>2 DEF IInv, OrderInv, Alone
<1>4. /\ Len(reports) \in Nat /\ Len(waitTasks) \in Nat /\ Len(completeTasks[w]) \in Nat
  BY DEF IInv, TypeOK
<1>5. Len(reports) <= Len(added)
  BY <1>3, <1>4 DEF Lined
<1>6. reports[i][1] = added[i]
  BY <1>3 DEF Lined
<1>7. Len(added) \in Nat
  BY DEF IInv, TypeOK
<1> QED
  BY <1>4, <1>5, <1>6, <1>7

\* When _threads is empty every thread has ended or was never started.
LEMMA ExitFromInv ==
  ASSUME IInv
  PROVE  ExitLeavesNothing
<1> SUFFICES ASSUME main = "idle", threads = <<>>, NEW w \in Worker
             PROVE  pc[w] \in {"none", "ended"} /\ db[w] = "null" /\ task[w] = {}
  BY DEF ExitLeavesNothing
<1>1. object[w] \in {"none", "deleted"}
  <2>1. object[w] # "made"
    BY EmptyQueue DEF IInv, ThreadsInv
  <2>2. object[w] # "starting"
    BY DEF IInv, ThreadsInv
  <2> QED
    BY <2>1, <2>2 DEF IInv, TypeOK
<1>2. pc[w] \in {"none", "ended"} /\ db[w] = "null"
  BY <1>1 DEF IInv, ThreadsInv
<1> QED
  BY <1>2 DEF IInv, TaskInv, TaskStage

\* What does not depend on the sleep.
PoolSafeAnyway ==
  /\ TypeOK
  /\ TasksConserved
  /\ ReportedOnce
  /\ ExitLeavesNothing
  /\ OneWorkerInOrder

\* Whatever the timing of a thread's constructor, no task is lost, duplicated,
\* processed twice or reported twice or before its result is there, exit()
\* leaves no thread behind, and one worker reports in the order of addTask
\* (addTask, update, exit and backfunc of ThreadPool.cpp).
THEOREM PoolIsSafeAnyway == Spec => []PoolSafeAnyway
<1>1. IInv => PoolSafeAnyway
  BY OrderFromInv, ExitFromInv DEF IInv, TaskInv, PoolSafeAnyway
<1> QED
  BY <1>1, Invariant, PTL

\* If a CThread is constructed before its thread's 10 ms sleep ends, the pool is
\* safe, which includes that a task is only ever run with a DB_Interface.
THEOREM PoolIsSafe == SleepCoversConstructor => (Spec => []PoolSafe)
<1> SUFFICES ASSUME SleepCoversConstructor PROVE Spec => []PoolSafe
  OBVIOUS
<1>1. IInv => PoolSafe
  <2> SUFFICES ASSUME IInv PROVE PoolSafe
    OBVIOUS
  <2>1. RunsWithDb
    BY DEF IInv, ConnectedInv, RunsWithDb
  <2> QED
    BY <2>1, OrderFromInv, ExitFromInv DEF IInv, TaskInv, PoolSafe
<1> QED
  BY <1>1, Invariant, PTL

\* With MySQL, and a sleep that is long enough, DBThread::run never uses a NULL
\* connection, even when connecting has failed.
THEOREM MysqlNeverCrashes ==
  SleepCoversConstructor /\ Device = "mysql" => (Spec => []~crashed)
<1> SUFFICES ASSUME SleepCoversConstructor, Device = "mysql" PROVE Spec => []~crashed
  OBVIOUS
<1>1. IInv => ~crashed
  BY DEF IInv, ConnectedInv
<1> QED
  BY <1>1, Invariant, PTL

-----------------------------------------------------------------------------
(***************************************************************************)
(* The pool implements TaskService                                         *)
(***************************************************************************)

\* The phase of a task, read off the history.
LEMMA PhaseOf ==
  ASSUME TypeOK, NEW t \in Task
  PROVE  /\ Reported(t) => Phase(t) = "reported"
         /\ ~Reported(t) /\ runs[t] > 0 => Phase(t) = "processed"
         /\ ~Reported(t) /\ runs[t] = 0 /\ InSeq(t, added) => Phase(t) = "queued"
         /\ ~Reported(t) /\ runs[t] = 0 /\ ~InSeq(t, added) => Phase(t) = "new"
<1> runs[t] \in Nat
  BY DEF TypeOK
<1> QED
  BY DEF Phase

\* A step that leaves what the phases are made of alone is a stutter.
LEMMA ServiceStutter ==
  ASSUME UNCHANGED <<reports, runs, added, result>>
  PROVE  UNCHANGED <<[t \in Task |-> Phase(t)], result>>
  BY DEF Phase, Reported

\* addTask is Add.
LEMMA ImplementsAdd ==
  ASSUME IInv, IInv', NEW t \in Task, addTask(t)
  PROVE  Service!Add(t)
<1> USE DEF mainVars, workVars
<1>1. TypeOK /\ TypeOK' /\ TasksConserved /\ TaskStage
  BY DEF IInv, TaskInv
<1>2. ~InSeq(t, added) /\ ~Reported(t) /\ runs[t] = 0
  BY <1>1 DEF addTask, TasksConserved, TaskStage
<1>3. UNCHANGED <<reports, runs, result>>
  BY DEF addTask
<1>4. \A s \in Task : (Reported(s)' <=> Reported(s)) /\ runs'[s] = runs[s]
  BY <1>3 DEF Reported
<1>5. \A s \in Task : InSeq(s, added)' <=> InSeq(s, added) \/ s = t
  BY <1>1, PushBack DEF TypeOK, addTask
<1>6. Phase(t) = "new"
  BY <1>1, <1>2, PhaseOf
<1>7. Phase(t)' = "queued"
  BY <1>1, <1>2, <1>4, <1>5 DEF Phase
<1>8. \A s \in Task : s # t => Phase(s)' = Phase(s)
  BY <1>4, <1>5 DEF Phase
<1> QED
  BY <1>3, <1>6, <1>7, <1>8 DEF Service!Add

\* run of a worker, when it does not stop the program, is Process.
LEMMA ImplementsProcess ==
  ASSUME IInv, IInv', NEW w \in Worker, run(w), ~crashed'
  PROVE  \E t \in Task : Service!Process(t)
<1>1. TypeOK /\ TypeOK' /\ TaskInv
  BY DEF IInv
<1>2. PICK r \in {"ok", "error"}, t \in task[w] :
        /\ result' = [result EXCEPT ![t] = r]
        /\ runs' = [runs EXCEPT ![t] = @ + 1]
  BY <1>1, RunCases
<1>3. t \in Task /\ runs[t] = 0 /\ InHand(t)
  BY <1>1 DEF run, TypeOK, TaskInv, TaskStage, InHand
<1>4. InSeq(t, added) /\ ~Reported(t)
  BY <1>1, <1>3 DEF TaskInv, TasksConserved
<1>5. UNCHANGED <<added, reports>>
  BY DEF run
<1>6. \A s \in Task : Reported(s)' <=> Reported(s)
  BY <1>5 DEF Reported
<1>7. runs'[t] = 1 /\ \A s \in Task : s # t => runs'[s] = runs[s]
  BY <1>1, <1>2, <1>3 DEF TypeOK
<1>8. Phase(t) = "queued"
  BY <1>1, <1>3, <1>4, PhaseOf
<1>9. Phase(t)' = "processed"
  BY <1>3, <1>4, <1>6, <1>7 DEF Phase
<1>10. \A s \in Task : s # t => Phase(s)' = Phase(s)
  BY <1>5, <1>6, <1>7 DEF Phase
<1>11. Service!Process(t)
  BY <1>2, <1>3, <1>8, <1>9, <1>10 DEF Service!Process
<1> QED
  BY <1>3, <1>11

\* update is Report.
LEMMA ImplementsReport ==
  ASSUME IInv, IInv', NEW w \in Worker, update(w)
  PROVE  \E t \in Task : Service!Report(t)
<1> USE DEF mainVars, workVars
<1>1. TypeOK /\ TypeOK' /\ TaskInv
  BY DEF IInv
<1>2. PICK t \in Task : t = Head(completeTasks[w]) /\ InSeq(t, completeTasks[w])
  BY <1>1, PopFront DEF update, TypeOK
<1>3. Complete(t) /\ ~Reported(t) /\ runs[t] = 1
  <2>1. Complete(t)
    BY <1>2 DEF Complete
  <2> QED
    BY <1>1, <1>2, <2>1 DEF TaskInv, TasksConserved, TaskStage
<1>4. /\ reports \in Seq(Task \X {"none", "ok", "error"})
      /\ reports' = Append(reports, <<t, result[t]>>)
      /\ <<t, result[t]>> \in Task \X {"none", "ok", "error"}
      /\ UNCHANGED <<added, runs, result>>
  BY <1>1, <1>2 DEF TypeOK, update
<1>5. /\ Len(reports') = Len(reports) + 1
      /\ \A i \in 1 .. Len(reports) : reports'[i] = reports[i]
      /\ reports'[Len(reports) + 1][1] = t
      /\ Len(reports) \in Nat
      /\ 1 .. Len(reports) + 1 = (1 .. Len(reports)) \cup {Len(reports) + 1}
  BY <1>4
<1>6. \A s \in Task : Reported(s)' <=> Reported(s) \/ s = t
  BY <1>5 DEF Reported
<1>7. Phase(t) = "processed"
  BY <1>1, <1>2, <1>3, PhaseOf
<1>8. Phase(t)' = "reported"
  BY <1>2, <1>6 DEF Phase
<1>9. \A s \in Task : s # t => Phase(s)' = Phase(s)
  BY <1>4, <1>6 DEF Phase
<1>10. Service!Report(t)
  BY <1>2, <1>4, <1>7, <1>8, <1>9 DEF Service!Report
<1> QED
  BY <1>2, <1>10

\* The pool, as the script sees it, is a TaskService: every task goes from new
\* to queued, processed and reported, once each, and is reported with the
\* outcome of its one run.
THEOREM PoolImplementsService == Spec => ImplementsService
<1>1. Init => Service!Init
  <2> SUFFICES ASSUME Init PROVE Service!Init
    OBVIOUS
  <2>1. \A t \in Task : Phase(t) = "new"
    <3>1. TypeOK
      BY InitInv DEF IInv
    <3>2. \A t \in Task : ~Reported(t) /\ runs[t] = 0 /\ ~InSeq(t, added)
      BY EmptyQueue DEF Init, Reported
    <3> QED
      BY <3>1, <3>2, PhaseOf
  <2> QED
    BY <2>1 DEF Init, Service!Init
<1>2. IInv /\ IInv' /\ [Next]_vars => [Service!Next]_(Service!serviceVars)
  <2> USE DEF mainVars, workVars, taskVars, Service!serviceVars, Service!Next
  <2> SUFFICES ASSUME IInv, IInv', [Next]_vars
               PROVE  Service!Next \/ UNCHANGED <<[t \in Task |-> Phase(t)], result>>
    OBVIOUS
  <2>1. CASE \E n \in 1 .. MaxCreate : create(n)
    BY <2>1, ServiceStutter DEF create
  <2>2. CASE \E w \in Worker : startThread(w)
    BY <2>2, ServiceStutter DEF startThread
  <2>3. CASE \E w \in Worker : construct(w)
    BY <2>3, ServiceStutter DEF construct
  <2>4. CASE \E t \in Task : addTask(t)
    BY <2>4, ImplementsAdd
  <2>5. CASE \E w \in Worker : update(w)
    BY <2>5, ImplementsReport
  <2>6. CASE exit
    BY <2>6, ServiceStutter DEF exit
  <2>7. CASE joined
    BY <2>7, ServiceStutter DEF joined
  <2>8. CASE \E w \in Worker : onStart(w)
    BY <2>8, ServiceStutter DEF onStart
  <2>9. CASE \E w \in Worker : checkRun(w)
    BY <2>9, ServiceStutter DEF checkRun
  <2>10. CASE \E w \in Worker : popWaitTask(w)
    BY <2>10, ServiceStutter DEF popWaitTask
  <2>11. CASE \E w \in Worker : run(w)
    <3>1. PICK w \in Worker : run(w)
      BY <2>11
    <3>2. CASE crashed'
      <4>1. UNCHANGED <<reports, runs, added, result>>
        BY <3>1, <3>2, RunCases DEF run, IInv
      <4> QED
        BY <4>1, ServiceStutter
    <3>3. CASE ~crashed'
      BY <3>1, <3>3, ImplementsProcess
    <3> QED
      BY <3>2, <3>3
  <2>12. CASE \E w \in Worker : push(w)
    BY <2>12, ServiceStutter DEF push
  <2>13. CASE \E w \in Worker : onEnd(w)
    BY <2>13, ServiceStutter DEF onEnd
  <2>14. CASE UNCHANGED vars
    BY <2>14, ServiceStutter DEF vars
  <2> QED
    BY <2>1, <2>2, <2>3, <2>4, <2>5, <2>6, <2>7, <2>8, <2>9, <2>10, <2>11,
       <2>12, <2>13, <2>14, StepCases
<1> QED
  BY <1>1, <1>2, Invariant, PTL DEF Spec, ImplementsService, Service!Spec

=============================================================================
