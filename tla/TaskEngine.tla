----------------------------- MODULE TaskEngine -----------------------------
(***************************************************************************)
(* taskEngine.c: a queue of tasks served by worker threads.                *)
(*                                                                         *)
(* The threads are the workers the engine creates and Main, the client's   *)
(* thread, which calls the API and is itself a worker when it starts the   *)
(* engine with wait.  A thread is between two statements of the source;    *)
(* pc names the next one.  Statements under a mutex that every access to   *)
(* the same data takes are one step; what the code does without the mutex  *)
(* is cut where another thread can get in between.                         *)
(*                                                                         *)
(* Listings are taken by their interface (listing.h): finite sequences.    *)
(* A push or a removal on the workers listing, which the code also does    *)
(* without the mutex, reads the listing in one step and writes it in the   *)
(* next, so that two of them can lose an update.  Mutexes are normal       *)
(* pthread mutexes: locking one's own blocks for ever, and unlocking       *)
(* somebody else's releases it.                                            *)
(***************************************************************************)
EXTENDS TaskGraph, ListingOps, Integers

CONSTANTS Worker,         \* the threads pthread_create can return
          Main,           \* the client's thread
          None,           \* no thread, no task, an uninitialised pthread_t
          Graphs,         \* dependency graphs the client may have built
          Preloads,       \* what the client put in task_queue itself
          Priority,       \* Task.priority
          MaxWorkers,     \* the max_workers argument of TaskEngine_Start
          MaxStarts,      \* bound: calls of TaskEngine_Start
          MaxQueue,       \* bound: entries in task_queue when the client adds
          CreateFails,    \* whether malloc or pthread_create may fail
          CallbackStops,  \* whether a task may call TaskEngine_Stop(te, false)
          Added,          \* tasks the client adds, deletes, enables, disables
          Batches         \* listings the client adds and deletes

Thread == Worker \cup {Main}

ASSUME NamesAssumption == Main \notin Worker /\ None \notin Thread \cup Task
ASSUME GraphsAssumption == Graphs \subseteq [Task -> Seq(Task)]
ASSUME PreloadsAssumption == Preloads \subseteq Seq(Task)
ASSUME BatchesAssumption == Added \subseteq Task /\ Batches \subseteq Seq(Task)
ASSUME NumbersAssumption == /\ Priority \in [Task -> Int]
                            /\ MaxWorkers \in Int /\ MaxStarts \in Nat /\ MaxQueue \in Nat
                            /\ CreateFails \in BOOLEAN /\ CallbackStops \in BOOLEAN

VARIABLES running, task_queue, workers,  \* struct taskengine_t
          task_mutex, worker_mutex,      \* their owners, or None
          mutex, depend, enable, exec,   \* struct task_t, by task
          pc, myTask, canExec,           \* TaskEngine_Worker's locals
          snap,                          \* the workers listing a thread has read
          peer,                          \* the pthread_t in a thread's hands
          caller, wait, starts,          \* Main: the call it is in, its argument
          fault                          \* what stopped the program, or "none"

engine == <<running, task_queue, workers, task_mutex, worker_mutex>>
tasks  == <<mutex, depend, enable, exec>>
locals == <<pc, myTask, canExec, snap, peer>>
client == <<caller, wait, starts>>
vars   == <<engine, tasks, locals, client, fault>>

-----------------------------------------------------------------------------
(* The definitions whose names end in _Slip are what a small mistake in    *)
(* the code would make of the definition that follows them.  The model     *)
(* does not use them: a property that still held with one of them in place *)
(* would not be about that code.                                           *)

(* Queries.  TaskEngine_Task_Queued is true of the tasks that are NOT in   *)
(* the queue (it compares with == -1); the slip compares with != -1.       *)
Task_Queued_Slip(t) == t \in Queued(task_queue)
TaskEngine_Task_Queued(t) == t \notin Queued(task_queue)

TaskEngine_Task_OK(t) ==
  ~exec[t] /\ ~TaskEngine_Task_Queued(t) /\ Task_isEnabled(depend, enable, t)

TaskEngine_SortQueue_cb(a, b) ==
  \/ exec[b] /\ ~exec[a]
  \/ Task_isDependent(depend, b, a) /\ ~Task_isDependent(depend, a, b)
  \/ Priority[b] > Priority[a]
  \/ ~Task_isEnabled(depend, enable, b) /\ Task_isEnabled(depend, enable, a)

(* Listing_Sort ends in an arrangement in which the callback is true of    *)
(* every two adjacent entries; where there is none it never returns.       *)
Sorted(q) ==
  { r \in { Pick(q, f) : f \in Orders(DOMAIN q) } :
      \A i \in 1..(Len(q) - 1) : TaskEngine_SortQueue_cb(r[i], r[i + 1]) }

(* TaskEngine_Task_Add by thread th, whose next statement is then next.    *)
(* A sort that has no end is taken to have none for ever: an exec flag set *)
(* meanwhile, without task_mutex, is not seen by it.                       *)
Task_Add(th, t, next) ==
  /\ task_mutex = None
  /\ LET q == Append(task_queue, t)
     IN  \/ /\ ~TaskEngine_Task_OK(t)
            /\ pc' = [pc EXCEPT ![th] = next]
            /\ UNCHANGED <<task_queue, task_mutex>>
         \/ /\ TaskEngine_Task_OK(t)
            /\ task_queue' \in Sorted(q)
            /\ pc' = [pc EXCEPT ![th] = next]
            /\ UNCHANGED task_mutex
         \/ /\ TaskEngine_Task_OK(t) /\ Sorted(q) = {}
            /\ task_queue' = q
            /\ task_mutex' = th
            /\ pc' = [pc EXCEPT ![th] = "stuck"]
  /\ UNCHANGED <<running, workers, worker_mutex>>

(* TaskEngine_Task_Add_Batch: Listing_Find runs on several threads, so the *)
(* entries it lets through arrive in any order; they are not sorted.       *)
Task_Add_Batch(th, tl, next) ==
  /\ task_mutex = None
  /\ \E f \in Orders({ i \in DOMAIN tl : TaskEngine_Task_OK(tl[i]) }) :
       task_queue' = task_queue \o Pick(tl, f)
  /\ pc' = [pc EXCEPT ![th] = next]
  /\ UNCHANGED <<running, workers, task_mutex, worker_mutex>>

-----------------------------------------------------------------------------
(* TaskEngine_Worker.  A thread that works on the engine: *)
Alive == fault = "none" /\ pc[Main] # "destroyed"
At(th, here) == Alive /\ pc[th] = here
Go(th, next) == pc' = [pc EXCEPT ![th] = next]

Loop(th) ==
  /\ At(th, "loop")
  /\ Go(th, IF running THEN "count" ELSE "exit")
  /\ UNCHANGED <<engine, tasks, myTask, canExec, snap, peer, client, fault>>

(* With more than one task queued the worker tries worker_mutex, and goes  *)
(* on to spawn workers when somebody else, or itself, holds it already.    *)
CountTasks(th) ==
  /\ At(th, "count") /\ task_mutex = None
  /\ \/ /\ Len(task_queue) > 1 /\ worker_mutex = None
        /\ task_mutex' = th /\ worker_mutex' = th
        /\ Go(th, "pop")
     \/ /\ Len(task_queue) > 1 /\ worker_mutex # None
        /\ Go(th, "spawn")
        /\ UNCHANGED <<task_mutex, worker_mutex>>
     \/ /\ Len(task_queue) <= 1
        /\ Go(th, "exit")
        /\ UNCHANGED <<task_mutex, worker_mutex>>
  /\ UNCHANGED <<running, task_queue, workers, tasks, myTask, canExec, snap, peer, client, fault>>

MoreWorkers == Len(workers) < MaxWorkers /\ Len(workers) < Len(task_queue)

(* One turn of the spawn loop: the reads of line 111, which no mutex       *)
(* protects, and pthread_create at line 115 are one step.                  *)
SpawnCreate(th) ==
  /\ At(th, "spawn") /\ MoreWorkers
  /\ \E w \in Worker :
       /\ pc[w] = "none"
       /\ pc' = [pc EXCEPT ![w] = "loop", ![th] = "push"]
       /\ peer' = [peer EXCEPT ![th] = w]
  /\ UNCHANGED <<engine, tasks, myTask, canExec, snap, client, fault>>

SpawnEnd(th) ==
  /\ At(th, "spawn")
  /\ ~MoreWorkers \/ CreateFails \/ \A w \in Worker : pc[w] # "none"
  /\ Go(th, "unspawn")
  /\ UNCHANGED <<engine, tasks, myTask, canExec, snap, peer, client, fault>>

(* Listing_PushBack of the new thread, without worker_mutex in the spawn   *)
(* loop and with it in TaskEngine_Start.                                   *)
PushRead(th) ==
  /\ At(th, "push") \/ At(th, "first_push")
  /\ snap' = [snap EXCEPT ![th] = workers]
  /\ Go(th, IF pc[th] = "push" THEN "link" ELSE "first_link")
  /\ UNCHANGED <<engine, tasks, myTask, canExec, peer, client, fault>>

PushLink(th) ==
  /\ At(th, "link")
  /\ workers' = Append(snap[th], peer[th])
  /\ snap' = [snap EXCEPT ![th] = <<>>]
  /\ peer' = [peer EXCEPT ![th] = None]
  /\ Go(th, "spawn")
  /\ UNCHANGED <<running, task_queue, task_mutex, worker_mutex, tasks, myTask, canExec, client, fault>>

Unspawn(th) ==
  /\ At(th, "unspawn")
  /\ worker_mutex' = None
  /\ Go(th, "relock")
  /\ UNCHANGED <<running, task_queue, workers, task_mutex, tasks, myTask, canExec, snap, peer, client, fault>>

Relock_Slip(th) ==      \* line 124 is missing
  /\ At(th, "relock")
  /\ Go(th, "pop")
  /\ UNCHANGED <<engine, tasks, myTask, canExec, snap, peer, client, fault>>

Relock(th) ==
  /\ At(th, "relock") /\ task_mutex = None
  /\ task_mutex' = th
  /\ Go(th, "pop")
  /\ UNCHANGED <<running, task_queue, workers, worker_mutex, tasks, myTask, canExec, snap, peer, client, fault>>

(* One turn of the pop loop: a task whose mutex is busy is dropped, and    *)
(* with the queue empty the front task is NULL and is dereferenced.        *)
TryLock_Slip(t) == TRUE     \* pthread_mutex_trylock's result is ignored
TryLock(t) == mutex[t] = None

CanStart_Slip(t) == enable[t]     \* an executed task is started again
CanStart(t) == ~exec[t] /\ enable[t]

Pop(th) ==
  /\ At(th, "pop") /\ task_queue # <<>>
  /\ LET t == Head(task_queue)
     IN  \/ /\ TryLock(t)
            /\ mutex' = [mutex EXCEPT ![t] = th]
            /\ myTask' = [myTask EXCEPT ![th] = t]
            /\ canExec' = [canExec EXCEPT ![th] = CanStart(t)]
            /\ Go(th, "check")
         \/ ~TryLock(t) /\ UNCHANGED <<mutex, myTask, canExec, pc>>
  /\ task_queue' = Tail(task_queue)
  /\ UNCHANGED <<running, workers, task_mutex, worker_mutex, depend, enable, exec, snap, peer, client, fault>>

PopEmpty_Slip(th) ==     \* the NULL task is worked on
  /\ At(th, "pop") /\ task_queue = <<>>
  /\ Go(th, "check")
  /\ UNCHANGED <<engine, tasks, myTask, canExec, snap, peer, client, fault>>

PopEmpty(th) ==
  /\ At(th, "pop") /\ task_queue = <<>>
  /\ fault' = "NULL task"
  /\ UNCHANGED <<engine, tasks, locals, client>>

(* The dependencies are tried one by one under task_mutex.  A dependency   *)
(* that passed stays passed while the mutex is held, so the outcome is     *)
(* that of the step at which the last one is tried.                        *)
DependDone_Slip(t, d) ==     \* a busy dependency is taken for a done one
  mutex[d] # None \/ exec[d] \/ (Task_isDependent(depend, d, t) /\ d \in Queued(task_queue))
DependDone(t, d) ==
  mutex[d] = None /\ (exec[d] \/ (Task_isDependent(depend, d, t) /\ d \in Queued(task_queue)))

Check(th) ==
  /\ At(th, "check")
  /\ LET t == myTask[th]
     IN  Go(th, IF canExec[th] /\ \A d \in Queued(depend[t]) : DependDone(t, d)
                THEN "run" ELSE "readd")
  /\ task_mutex' = None
  /\ UNCHANGED <<running, task_queue, workers, worker_mutex, tasks, myTask, canExec, snap, peer, client, fault>>

(* The callback, then the flag, then the mutex: none of it is under        *)
(* task_mutex.  The callback may stop the engine.                          *)
Run(th) ==
  /\ fault = "none" /\ pc[th] = "run"
  /\ running' \in (IF CallbackStops THEN {running, FALSE} ELSE {running})
  /\ Go(th, "ran")
  /\ UNCHANGED <<task_queue, workers, task_mutex, worker_mutex, tasks, myTask, canExec, snap, peer, client, fault>>

Ran(th) ==
  /\ fault = "none" /\ pc[th] = "ran"
  /\ exec' = [exec EXCEPT ![myTask[th]] = TRUE]
  /\ Go(th, "unlock")
  /\ UNCHANGED <<engine, mutex, depend, enable, myTask, canExec, snap, peer, client, fault>>

Unlock(th) ==
  /\ fault = "none" /\ pc[th] = "unlock"
  /\ mutex' = [mutex EXCEPT ![myTask[th]] = None]
  /\ myTask' = [myTask EXCEPT ![th] = None]
  /\ Go(th, "loop")
  /\ UNCHANGED <<engine, depend, enable, exec, canExec, snap, peer, client, fault>>

Readd(th) ==
  /\ At(th, "readd")
  /\ Task_Add_Batch(th, depend[myTask[th]], "repost")
  /\ UNCHANGED <<tasks, myTask, canExec, snap, peer, client, fault>>

Repost(th) ==
  /\ At(th, "repost")
  /\ Task_Add(th, myTask[th], "unlock")
  /\ UNCHANGED <<tasks, myTask, canExec, snap, peer, client, fault>>

(* The cleanup: find oneself in workers and remove the entries found.  A   *)
(* thread that still holds worker_mutex waits here for itself.             *)
Exit(th) ==
  /\ At(th, "exit") /\ worker_mutex = None
  /\ worker_mutex' = th
  /\ snap' = [snap EXCEPT ![th] = workers]
  /\ Go(th, "unlink")
  /\ UNCHANGED <<running, task_queue, workers, task_mutex, tasks, myTask, canExec, peer, client, fault>>

Unlink_Slip(th) ==      \* the entry is freed but stays in the listing
  /\ At(th, "unlink")
  /\ Go(th, "last")
  /\ UNCHANGED <<engine, tasks, myTask, canExec, snap, peer, client, fault>>

Unlink(th) ==
  /\ At(th, "unlink")
  /\ workers' \in Without(snap[th], {th})
  /\ snap' = [snap EXCEPT ![th] = <<>>]
  /\ Go(th, "last")
  /\ UNCHANGED <<running, task_queue, task_mutex, worker_mutex, tasks, myTask, canExec, peer, client, fault>>

LastWorker_Slip(th) ==      \* line 182 is missing
  /\ At(th, "last")
  /\ worker_mutex' = None
  /\ Go(th, IF th = Main THEN "join" ELSE "dead")
  /\ UNCHANGED <<running, task_queue, workers, task_mutex, tasks, myTask, canExec, snap, peer, client, fault>>

LastWorker(th) ==
  /\ At(th, "last")
  /\ running' = (running /\ workers # <<>>)
  /\ worker_mutex' = None
  /\ Go(th, IF th = Main THEN "join" ELSE "dead")
  /\ UNCHANGED <<task_queue, workers, task_mutex, tasks, myTask, canExec, snap, peer, client, fault>>

WorkerStep(th) ==
  \/ Loop(th) \/ CountTasks(th) \/ SpawnCreate(th) \/ SpawnEnd(th)
  \/ PushRead(th) \/ PushLink(th) \/ Unspawn(th) \/ Relock(th)
  \/ Pop(th) \/ PopEmpty(th) \/ Check(th) \/ Run(th) \/ Ran(th)
  \/ Unlock(th) \/ Readd(th) \/ Repost(th)
  \/ Exit(th) \/ Unlink(th) \/ LastWorker(th)

(* A worker that goes on after TaskEngine_Destroy uses freed memory.       *)
UseAfterDestroy(th) ==
  /\ fault = "none" /\ pc[Main] = "destroyed"
  /\ th # Main /\ pc[th] \notin {"none", "dead", "run", "ran", "unlock"}
  /\ fault' = "use after destroy"
  /\ UNCHANGED <<engine, tasks, locals, client>>

-----------------------------------------------------------------------------
(* TaskEngine_Start *)
Start(w) ==
  /\ At(Main, "idle") /\ starts < MaxStarts
  /\ running' = TRUE
  /\ wait' = w /\ caller' = "Start" /\ starts' = starts + 1
  /\ Go(Main, "first")
  /\ UNCHANGED <<task_queue, workers, task_mutex, worker_mutex, tasks, myTask, canExec, snap, peer, fault>>

(* The first thread.  The result of pthread_create is not looked at: when  *)
(* it fails the listing gets an uninitialised pthread_t.                   *)
FirstThread_Slip ==     \* worker_mutex is not taken
  /\ At(Main, "first")
  /\ IF wait
     THEN /\ peer' = [peer EXCEPT ![Main] = Main]
          /\ Go(Main, "first_push")
     ELSE \E w \in Worker : /\ pc[w] = "none"
                            /\ peer' = [peer EXCEPT ![Main] = w]
                            /\ pc' = [pc EXCEPT ![w] = "loop", ![Main] = "first_push"]
  /\ UNCHANGED <<engine, tasks, myTask, canExec, snap, client, fault>>

FirstThread ==
  /\ At(Main, "first") /\ worker_mutex = None
  /\ worker_mutex' = Main
  /\ \/ /\ wait
        /\ peer' = [peer EXCEPT ![Main] = Main]
        /\ Go(Main, "first_push")
     \/ /\ ~wait
        /\ \E w \in Worker : /\ pc[w] = "none"
                             /\ peer' = [peer EXCEPT ![Main] = w]
                             /\ pc' = [pc EXCEPT ![w] = "loop", ![Main] = "first_push"]
     \/ /\ ~wait /\ CreateFails
        /\ peer' = [peer EXCEPT ![Main] = None]
        /\ Go(Main, "first_push")
  /\ UNCHANGED <<running, task_queue, workers, task_mutex, tasks, myTask, canExec, snap, client, fault>>

FirstLink ==
  /\ At(Main, "first_link")
  /\ workers' = Append(snap[Main], peer[Main])
  /\ snap' = [snap EXCEPT ![Main] = <<>>]
  /\ peer' = [peer EXCEPT ![Main] = None]
  /\ worker_mutex' = None
  /\ Go(Main, IF wait THEN "loop" ELSE "idle")
  /\ UNCHANGED <<running, task_queue, task_mutex, tasks, myTask, canExec, client, fault>>

(* TaskEngine_Stop, and TaskEngine_Destroy which calls it when running.    *)
Stop(w) ==
  /\ At(Main, "idle")
  /\ running' = FALSE
  /\ caller' = "Stop" /\ wait' = w
  /\ Go(Main, IF w THEN "join" ELSE "idle")
  /\ UNCHANGED <<task_queue, workers, task_mutex, worker_mutex, tasks, myTask, canExec, snap, peer, starts, fault>>

Destroy ==
  /\ At(Main, "idle")
  /\ running' = FALSE
  /\ caller' = "Destroy" /\ wait' = TRUE
  /\ Go(Main, IF running THEN "join" ELSE "destroyed")
  /\ UNCHANGED <<task_queue, workers, task_mutex, worker_mutex, tasks, myTask, canExec, snap, peer, starts, fault>>

(* The join loop reads the listing twice, then the pthread_t it points to, *)
(* all without worker_mutex.  An entry is good as long as it is listed; so *)
(* is, here and in Unlink, one that its thread freed and that a lost       *)
(* update listed again, which needs workers that spawn workers.            *)
JoinTest ==
  /\ At(Main, "join")
  /\ Go(Main, IF workers # <<>> THEN "front" ELSE IF caller = "Destroy" THEN "destroyed" ELSE "idle")
  /\ UNCHANGED <<engine, tasks, myTask, canExec, snap, peer, client, fault>>

JoinFront ==
  /\ At(Main, "front")
  /\ \/ /\ workers # <<>>
        /\ peer' = [peer EXCEPT ![Main] = Head(workers)]
        /\ Go(Main, "deref")
        /\ UNCHANGED fault
     \/ /\ workers = <<>>
        /\ fault' = "NULL thread"
        /\ UNCHANGED <<peer, pc>>
  /\ UNCHANGED <<engine, tasks, myTask, canExec, snap, client>>

JoinDeref ==
  /\ At(Main, "deref")
  /\ \/ /\ peer[Main] \in Queued(workers) \ {None}
        /\ Go(Main, "joining")
        /\ UNCHANGED fault
     \/ /\ peer[Main] \notin Queued(workers) \ {None}
        /\ fault' = "freed or garbage thread"
        /\ UNCHANGED pc
  /\ UNCHANGED <<engine, tasks, myTask, canExec, snap, peer, client>>

Join ==
  /\ At(Main, "joining")
  /\ peer[Main] = Main \/ pc[peer[Main]] = "dead"
  /\ peer' = [peer EXCEPT ![Main] = None]
  /\ Go(Main, "join")
  /\ UNCHANGED <<engine, tasks, myTask, canExec, snap, client, fault>>

MainStep == FirstThread \/ FirstLink \/ JoinTest \/ JoinFront \/ JoinDeref \/ Join

-----------------------------------------------------------------------------
(* The task management the client calls between Start and Stop.            *)
ClientAdd(t) ==
  /\ At(Main, "idle") /\ Len(task_queue) < MaxQueue
  /\ Task_Add(Main, t, "idle")
  /\ UNCHANGED <<tasks, myTask, canExec, snap, peer, client, fault>>

ClientAddBatch(tl) ==
  /\ At(Main, "idle") /\ Len(task_queue) < MaxQueue
  /\ Task_Add_Batch(Main, tl, "idle")
  /\ UNCHANGED <<tasks, myTask, canExec, snap, peer, client, fault>>

(* TaskEngine_Task_Del and TaskEngine_Task_Del_Batch remove every entry of *)
(* the tasks they are given.                                               *)
ClientDel(D) ==
  /\ At(Main, "idle") /\ task_mutex = None
  /\ task_queue' \in Without(task_queue, D)
  /\ UNCHANGED <<running, workers, task_mutex, worker_mutex, tasks, locals, client, fault>>

SetEnabled(t, val) ==
  /\ At(Main, "idle")
  /\ enable' = [enable EXCEPT ![t] = val]
  /\ UNCHANGED <<engine, mutex, depend, exec, locals, client, fault>>

ClientCall ==
  \/ \E w \in BOOLEAN : Start(w) \/ Stop(w)
  \/ Destroy
  \/ \E t \in Added : ClientAdd(t) \/ ClientDel({t})
  \/ \E tl \in Batches : ClientAddBatch(tl) \/ ClientDel(Queued(tl))
  \/ \E t \in Added, val \in BOOLEAN : SetEnabled(t, val)

-----------------------------------------------------------------------------
(* TaskEngine_Init, after which the client may have filled the queue.      *)
Init ==
  /\ running = FALSE /\ workers = <<>>
  /\ task_queue \in Preloads
  /\ task_mutex = None /\ worker_mutex = None
  /\ mutex = [t \in Task |-> None]
  /\ depend \in Graphs
  /\ enable = [t \in Task |-> TRUE] /\ exec = [t \in Task |-> FALSE]
  /\ pc = [th \in Thread |-> IF th = Main THEN "idle" ELSE "none"]
  /\ myTask = [th \in Thread |-> None]
  /\ canExec = [th \in Thread |-> FALSE]
  /\ snap = [th \in Thread |-> <<>>]
  /\ peer = [th \in Thread |-> None]
  /\ caller = "Stop" /\ wait = FALSE /\ starts = 0
  /\ fault = "none"

Step(th) == WorkerStep(th) \/ UseAfterDestroy(th) \/ (th = Main /\ MainStep)

Next == ClientCall \/ \E th \in Thread : Step(th)

Spec == Init /\ [][Next]_vars

(* The operating system runs every thread that can run.  The client need   *)
(* not make another call.                                                  *)
FairSpec == Spec /\ \A th \in Thread : WF_vars(Step(th))

-----------------------------------------------------------------------------
(* Properties *)

(* Every variable keeps its type: the queue holds tasks, the workers       *)
(* listing threads, a mutex has one owner or none, and a thread past the   *)
(* pop loop has a task in its hands (taskEngine.c:133-162).                *)
Places == {"none", "loop", "count", "spawn", "push", "link", "unspawn", "relock",
           "pop", "check", "run", "ran", "unlock", "readd", "repost", "stuck",
           "exit", "unlink", "last", "dead", "idle", "first", "first_push",
           "first_link", "join", "front", "deref", "joining", "destroyed"}
Holding == {"check", "run", "ran", "unlock", "readd", "repost"}
Owner == Thread \cup {None}
TypeOK ==
  /\ running \in BOOLEAN /\ task_queue \in Seq(Task) /\ workers \in Seq(Owner)
  /\ task_mutex \in Owner /\ worker_mutex \in Owner
  /\ mutex \in [Task -> Owner] /\ depend \in Graphs
  /\ enable \in [Task -> BOOLEAN] /\ exec \in [Task -> BOOLEAN]
  /\ pc \in [Thread -> Places]
  /\ myTask \in [Thread -> Task \cup {None}]
  /\ \A th \in Thread : pc[th] \in Holding => myTask[th] \in Task
  /\ canExec \in [Thread -> BOOLEAN]
  /\ snap \in [Thread -> Seq(Owner)] /\ peer \in [Thread -> Owner]
  /\ caller \in {"Start", "Stop", "Destroy"} /\ wait \in BOOLEAN /\ starts \in Nat
  /\ fault \in {"none", "NULL task", "NULL thread", "freed or garbage thread", "use after destroy"}

(* task_mutex (taskEngine.c:104-151) is held exactly by the thread that is *)
(* taking a task from the queue or is caught in a Listing_Sort that does   *)
(* not end: no path of the worker loop, through worker_mutex or not, gets  *)
(* to the queue without it or leaves with it locked.                       *)
QueueMutex == \A th \in Thread : task_mutex = th <=> pc[th] \in {"pop", "check", "stuck"}

(* A task's mutex (taskEngine.c:137-162) is held by the thread that popped *)
(* the task, from the pop until it is done with it, and by nobody else:    *)
(* however often the task is in the queue, no two threads work on it.      *)
TaskOwned == \A th \in Thread, t \in Task : mutex[t] = th <=> myTask[th] = t

(* Executed tasks are closed under dependencies, except those that depend  *)
(* on the task in turn (taskEngine.c:141-144): whatever the order in which *)
(* tasks were queued, dropped and run, no task got ahead of one it needs.  *)
ExecClosed ==
  \A t \in Task : exec[t] =>
    \A d \in Queued(depend[t]) : exec[d] \/ Task_isDependent(depend, d, t)

(* No operation of the engine or of its API makes a task queued that was   *)
(* not queued before: TaskEngine_Task_OK (taskEngine.c:42-44) lets only    *)
(* tasks through that are in the queue already.                            *)
QueueOnlyShrinks == [][Queued(task_queue') \subseteq Queued(task_queue)]_vars

(* The engine implements the abstract pool: a task is executing from the   *)
(* moment its thread decides to call the callback (taskEngine.c:153) until *)
(* the thread has set exec (taskEngine.c:155).                             *)
Executing == { t \in Task : \E th \in Thread : pc[th] \in {"run", "ran"} /\ myTask[th] = t }
Pool == INSTANCE TaskPool WITH executing <- Executing, executed <- { t \in Task : exec[t] }
PoolSpec == Pool!Spec

(* The engine stops: its workers run out of tasks, remove themselves from  *)
(* workers, and the last one clears running (taskEngine.c:182).            *)
Faulty == fault # "none"
EngineStops == running ~> (~running \/ Faulty)

(* Waiting out the death of the workers (taskEngine.c:221) is safe: the    *)
(* join loop uses neither the front of an empty listing nor an entry that  *)
(* a worker has freed.  It does: nothing keeps the workers from removing   *)
(* themselves between lines 222 and 224.                                   *)
JoinFault == fault \in {"NULL thread", "freed or garbage thread"}
JoinSafe == ~JoinFault

(* A call of the API comes to an end (taskEngine.c:193, 209, 222): Start   *)
(* and Stop wait neither for a mutex that nobody releases nor for an entry *)
(* of workers that nobody removes.  The end is a return, or the crash of   *)
(* the join loop that JoinSafe is about, and no other.                     *)
CallsEnd == pc[Main] # "idle" ~> (pc[Main] \in {"idle", "destroyed"} \/ JoinFault)

(* A client that only uses the API never gets a task into the queue, let   *)
(* alone executed (taskEngine.c:29 and 49).                                *)
NothingEverQueued == task_queue = <<>> /\ \A t \in Task : ~exec[t]

(* A worker that has started is in workers until it has removed itself     *)
(* (taskEngine.c:193-202 and 167-180), so that Stop can wait for it.       *)
AliveListed ==
  \A w \in Worker :
    pc[w] \notin {"none", "last", "dead"} /\ pc[Main] \notin {"first_push", "first_link"}
      => w \in Queued(workers)
=============================================================================
