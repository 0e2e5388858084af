-------------------------- MODULE TaskEngineProofs --------------------------
(***************************************************************************)
(* What holds of TaskEngine for every set of tasks and threads, every      *)
(* dependency graph, every queue the client starts from and every bound.   *)
(***************************************************************************)
EXTENDS TaskEngine, ListingLemmas

-----------------------------------------------------------------------------
(* Sorting leaves a listing of the same tasks.                            *)
LEMMA SortedSeq ==
  ASSUME NEW q \in Seq(Task), NEW r \in Sorted(q)
  PROVE  r \in Seq(Task) /\ Queued(r) \subseteq Queued(q)
<1>1. PICK f \in Orders(DOMAIN q) : r = Pick(q, f)
  BY DEF Sorted
<1> QED
  BY <1>1, PickSeq

-----------------------------------------------------------------------------
(* The type invariant *)

(* A graph of the client is a function from tasks to listings of tasks.    *)
LEMMA GraphType ==
  ASSUME TypeOK
  PROVE  depend \in [Task -> Seq(Task)]
BY GraphsAssumption DEF TypeOK

LEMMA InitType == Init => TypeOK
<1> SUFFICES ASSUME Init PROVE TypeOK
  OBVIOUS
<1>1. task_queue \in Seq(Task) /\ depend \in Graphs
  BY PreloadsAssumption DEF Init
<1>2. <<>> \in Seq(Owner)
  BY EmptySeq
<1>3. pc \in [Thread -> Places] /\ \A th \in Thread : pc[th] \notin Holding
  BY DEF Init, Places, Holding
<1> QED
  BY <1>1, <1>2, <1>3 DEF Init, TypeOK, Owner

LEMMA AddType ==
  ASSUME TypeOK, NEW th \in Thread, NEW t \in Task, NEW next \in Places, Task_Add(th, t, next)
  PROVE  /\ running' \in BOOLEAN /\ task_queue' \in Seq(Task) /\ workers' \in Seq(Owner)
         /\ task_mutex' \in Owner /\ worker_mutex' \in Owner
         /\ pc' = [pc EXCEPT ![th] = next] \/ pc' = [pc EXCEPT ![th] = "stuck"]
<1>1. Append(task_queue, t) \in Seq(Task)
  BY QueuedFacts DEF TypeOK
<1> QED
  BY <1>1, SortedSeq DEF TypeOK, Task_Add, Owner

LEMMA BatchType ==
  ASSUME TypeOK, NEW th \in Thread, NEW tl \in Seq(Task), NEW next \in Places,
         Task_Add_Batch(th, tl, next)
  PROVE  /\ running' \in BOOLEAN /\ task_queue' \in Seq(Task) /\ workers' \in Seq(Owner)
         /\ task_mutex' \in Owner /\ worker_mutex' \in Owner
         /\ pc' = [pc EXCEPT ![th] = next]
<1> DEFINE K == { i \in DOMAIN tl : TaskEngine_Task_OK(tl[i]) }
<1>1. PICK f \in Orders(K) : task_queue' = task_queue \o Pick(tl, f)
  BY DEF Task_Add_Batch
<1>2. Pick(tl, f) \in Seq(Task)
  BY PickSeq
<1>3. task_queue' \in Seq(Task)
  BY <1>1, <1>2, QueuedFacts DEF TypeOK
<1> QED
  BY <1>3 DEF Task_Add_Batch, TypeOK

(* Every step of a thread keeps the types.                                 *)
LEMMA WorkerType ==
  ASSUME TypeOK, NEW th \in Thread, WorkerStep(th)
  PROVE  TypeOK'
<1> USE DEF At, Go, Alive, engine, tasks, locals, client, Places, Holding, Owner
<1>1. CASE Loop(th)
  BY <1>1 DEF Loop, TypeOK
<1>2. CASE CountTasks(th)
  <2>1. pc' \in [Thread -> Places] /\ pc'[th] \notin Holding
        /\ \A u \in Thread : u # th => pc'[u] = pc[u]
    BY <1>2 DEF CountTasks, TypeOK
  <2>2. task_mutex' \in Owner /\ worker_mutex' \in Owner
    BY <1>2 DEF CountTasks, TypeOK
  <2> QED
    BY <1>2, <2>1, <2>2 DEF CountTasks, TypeOK
<1>3. CASE SpawnCreate(th)
  <2>1. PICK w \in Worker : /\ pc[w] = "none"
                            /\ pc' = [pc EXCEPT ![w] = "loop", ![th] = "push"]
                            /\ peer' = [peer EXCEPT ![th] = w]
    BY <1>3 DEF SpawnCreate
  <2>2. w \in Thread
    BY DEF Thread
  <2> QED
    BY <1>3, <2>1, <2>2 DEF SpawnCreate, TypeOK
<1>4. CASE SpawnEnd(th)
  BY <1>4 DEF SpawnEnd, TypeOK
<1>5. CASE PushRead(th)
  BY <1>5 DEF PushRead, TypeOK
<1>6. CASE PushLink(th)
  BY <1>6, QueuedFacts DEF PushLink, TypeOK
<1>7. CASE Unspawn(th)
  BY <1>7 DEF Unspawn, TypeOK
<1>8. CASE Relock(th)
  BY <1>8 DEF Relock, TypeOK
<1>9. CASE Pop(th)
  <2> DEFINE t == Head(task_queue)
  <2>1. t \in Task /\ task_queue' \in Seq(Task)
    BY <1>9, QueuedFacts DEF Pop, TypeOK
  <2>2. CASE TryLock(t)
    <3>1. /\ mutex' = [mutex EXCEPT ![t] = th]
          /\ myTask' = [myTask EXCEPT ![th] = t]
          /\ canExec' = [canExec EXCEPT ![th] = ~exec[t] /\ enable[t]]
          /\ pc' = [pc EXCEPT ![th] = "check"]
      BY <1>9, <2>2 DEF Pop, CanStart, TypeOK
    <3>2. (~exec[t] /\ enable[t]) \in BOOLEAN
      OBVIOUS
    <3>3. canExec' \in [Thread -> BOOLEAN]
      BY <3>1, <3>2, Zenon DEF TypeOK
    <3> QED
      BY <1>9, <2>1, <3>1, <3>3 DEF Pop, TypeOK
  <2>3. CASE ~TryLock(t)
    BY <1>9, <2>1, <2>3 DEF Pop, TypeOK
  <2> QED
    BY <2>2, <2>3
<1>10. CASE PopEmpty(th)
  BY <1>10 DEF PopEmpty, TypeOK
<1>11. CASE Check(th)
  BY <1>11 DEF Check, TypeOK
<1>12. CASE Run(th)
  BY <1>12 DEF Run, TypeOK
<1>13. CASE Ran(th)
  BY <1>13 DEF Ran, TypeOK
<1>14. CASE Unlock(th)
  BY <1>14 DEF Unlock, TypeOK
<1>15. CASE Readd(th)
  <2>1. myTask[th] \in Task /\ depend[myTask[th]] \in Seq(Task)
    BY <1>15, GraphType DEF Readd, TypeOK
  <2>2. /\ running' \in BOOLEAN /\ task_queue' \in Seq(Task) /\ workers' \in Seq(Owner)
        /\ task_mutex' \in Owner /\ worker_mutex' \in Owner
        /\ pc' = [pc EXCEPT ![th] = "repost"]
    BY <1>15, <2>1, BatchType DEF Readd
  <2> QED
    BY <1>15, <2>1, <2>2 DEF Readd, TypeOK
<1>16. CASE Repost(th)
  <2>1. myTask[th] \in Task
    BY <1>16 DEF Repost, TypeOK
  <2>2. /\ running' \in BOOLEAN /\ task_queue' \in Seq(Task) /\ workers' \in Seq(Owner)
        /\ task_mutex' \in Owner /\ worker_mutex' \in Owner
        /\ pc' = [pc EXCEPT ![th] = "unlock"] \/ pc' = [pc EXCEPT ![th] = "stuck"]
    BY <1>16, <2>1, AddType DEF Repost
  <2> QED
    BY <1>16, <2>1, <2>2 DEF Repost, TypeOK
<1>17. CASE Exit(th)
  BY <1>17 DEF Exit, TypeOK
<1>18. CASE Unlink(th)
  BY <1>18, WithoutSeq DEF Unlink, TypeOK
<1>19. CASE LastWorker(th)
  BY <1>19 DEF LastWorker, TypeOK
<1> QED
  BY <1>1, <1>2, <1>3, <1>4, <1>5, <1>6, <1>7, <1>8, <1>9, <1>10, <1>11, <1>12, <1>13, <1>14, <1>15, <1>16, <1>17, <1>18, <1>19 DEF WorkerStep

LEMMA MainType ==
  ASSUME TypeOK, MainStep
  PROVE  TypeOK'
<1> USE DEF At, Go, Alive, engine, tasks, locals, client, Places, Holding, Owner
<1>0. Main \in Thread /\ Worker \subseteq Thread
  BY DEF Thread
<1>1. CASE FirstThread
  <2>1. CASE pc' = [pc EXCEPT ![Main] = "first_push"]
    BY <1>0, <1>1, <2>1 DEF FirstThread, TypeOK
  <2>2. ASSUME NEW w \in Worker, pc[w] = "none", peer' = [peer EXCEPT ![Main] = w],
               pc' = [pc EXCEPT ![w] = "loop", ![Main] = "first_push"]
        PROVE  TypeOK'
    BY <1>0, <1>1, <2>2 DEF FirstThread, TypeOK
  <2> QED
    BY <1>1, <2>1, <2>2 DEF FirstThread
<1>2. CASE FirstLink
  BY <1>0, <1>2, QueuedFacts DEF FirstLink, TypeOK
<1>3. CASE JoinTest
  BY <1>0, <1>3 DEF JoinTest, TypeOK
<1>4. CASE JoinFront
  <2>1. workers # <<>> => Head(workers) \in Owner
    BY QueuedFacts DEF TypeOK
  <2>2. CASE workers = <<>>
    BY <1>0, <1>4, <2>2 DEF JoinFront, TypeOK
  <2>3. CASE workers # <<>>
    <3>1. /\ peer' = [peer EXCEPT ![Main] = Head(workers)]
          /\ pc' = [pc EXCEPT ![Main] = "deref"]
          /\ UNCHANGED <<engine, tasks, myTask, canExec, snap, client, fault>>
      BY <1>4, <2>3 DEF JoinFront
    <3> QED
      BY <1>0, <2>1, <2>3, <3>1 DEF TypeOK
  <2> QED
    BY <2>2, <2>3
<1>5. CASE JoinDeref
  BY <1>0, <1>5 DEF JoinDeref, TypeOK
<1>6. CASE Join
  BY <1>0, <1>6 DEF Join, TypeOK
<1> QED
  BY <1>1, <1>2, <1>3, <1>4, <1>5, <1>6 DEF MainStep

LEMMA ClientType ==
  ASSUME TypeOK, ClientCall
  PROVE  TypeOK'
<1> USE DEF At, Go, Alive, engine, tasks, locals, client, Places, Holding, Owner
<1>0. Main \in Thread /\ Added \subseteq Task /\ Batches \subseteq Seq(Task)
  BY BatchesAssumption DEF Thread
<1>1. ASSUME NEW w \in BOOLEAN, Start(w)
      PROVE  TypeOK'
  BY <1>0, <1>1 DEF Start, TypeOK
<1>2. ASSUME NEW w \in BOOLEAN, Stop(w)
      PROVE  TypeOK'
  BY <1>0, <1>2 DEF Stop, TypeOK
<1>3. CASE Destroy
  BY <1>0, <1>3 DEF Destroy, TypeOK
<1>4. ASSUME NEW t \in Added, ClientAdd(t)
      PROVE  TypeOK'
  <2>1. /\ running' \in BOOLEAN /\ task_queue' \in Seq(Task) /\ workers' \in Seq(Owner)
        /\ task_mutex' \in Owner /\ worker_mutex' \in Owner
        /\ pc' = [pc EXCEPT ![Main] = "idle"] \/ pc' = [pc EXCEPT ![Main] = "stuck"]
    BY <1>0, <1>4, AddType DEF ClientAdd
  <2> QED
    BY <1>0, <1>4, <2>1 DEF ClientAdd, TypeOK
<1>5. ASSUME NEW tl \in Batches, ClientAddBatch(tl)
      PROVE  TypeOK'
  <2>1. /\ running' \in BOOLEAN /\ task_queue' \in Seq(Task) /\ workers' \in Seq(Owner)
        /\ task_mutex' \in Owner /\ worker_mutex' \in Owner
        /\ pc' = [pc EXCEPT ![Main] = "idle"]
    BY <1>0, <1>5, BatchType DEF ClientAddBatch
  <2> QED
    BY <1>0, <1>5, <2>1 DEF ClientAddBatch, TypeOK
<1>6. ASSUME NEW D, ClientDel(D)
      PROVE  TypeOK'
  BY <1>6, WithoutSeq DEF ClientDel, TypeOK
<1>7. ASSUME NEW t \in Added, NEW val \in BOOLEAN, SetEnabled(t, val)
      PROVE  TypeOK'
  BY <1>0, <1>7 DEF SetEnabled, TypeOK
<1> QED
  BY <1>1, <1>2, <1>3, <1>4, <1>5, <1>6, <1>7 DEF ClientCall

-----------------------------------------------------------------------------
(* Mutual exclusion on the queue *)

LEMMA ThreadFacts ==
  /\ None \notin Thread /\ None \notin Task /\ Main \in Thread /\ Main \notin Worker
  /\ \A w \in Worker : w \in Thread
BY NamesAssumption DEF Thread

LEMMA QueueWorker ==
  ASSUME TypeOK, QueueMutex, NEW th \in Thread, WorkerStep(th)
  PROVE  QueueMutex'
<1> USE ThreadFacts DEF At, Go, Alive, engine, tasks, locals, client
<1>1. CASE Loop(th)
  BY <1>1 DEF Loop, QueueMutex, TypeOK
<1>2. CASE CountTasks(th)
  BY <1>2 DEF CountTasks, QueueMutex, TypeOK
<1>3. CASE SpawnCreate(th)
  BY <1>3 DEF SpawnCreate, QueueMutex, TypeOK
<1>4. CASE SpawnEnd(th)
  BY <1>4 DEF SpawnEnd, QueueMutex, TypeOK
<1>5. CASE PushRead(th)
  BY <1>5 DEF PushRead, QueueMutex, TypeOK
<1>6. CASE PushLink(th)
  BY <1>6 DEF PushLink, QueueMutex, TypeOK
<1>7. CASE Unspawn(th)
  BY <1>7 DEF Unspawn, QueueMutex, TypeOK
<1>8. CASE Relock(th)
  BY <1>8 DEF Relock, QueueMutex, TypeOK
<1>9. CASE Pop(th)
  BY <1>9 DEF Pop, QueueMutex, TypeOK
<1>10. CASE PopEmpty(th)
  BY <1>10 DEF PopEmpty, QueueMutex, TypeOK
<1>11. CASE Check(th)
  BY <1>11 DEF Check, QueueMutex, TypeOK
<1>12. CASE Run(th)
  BY <1>12 DEF Run, QueueMutex, TypeOK
<1>13. CASE Ran(th)
  BY <1>13 DEF Ran, QueueMutex, TypeOK
<1>14. CASE Unlock(th)
  BY <1>14 DEF Unlock, QueueMutex, TypeOK
<1>15. CASE Readd(th)
  BY <1>15 DEF Readd, QueueMutex, TypeOK, Task_Add_Batch
<1>16. CASE Repost(th)
  BY <1>16 DEF Repost, QueueMutex, TypeOK, Task_Add
<1>17. CASE Exit(th)
  BY <1>17 DEF Exit, QueueMutex, TypeOK
<1>18. CASE Unlink(th)
  BY <1>18 DEF Unlink, QueueMutex, TypeOK
<1>19. CASE LastWorker(th)
  BY <1>19 DEF LastWorker, QueueMutex, TypeOK
<1> QED
  BY <1>1, <1>2, <1>3, <1>4, <1>5, <1>6, <1>7, <1>8, <1>9, <1>10, <1>11, <1>12, <1>13, <1>14, <1>15, <1>16, <1>17, <1>18, <1>19 DEF WorkerStep

LEMMA QueueMain ==
  ASSUME TypeOK, QueueMutex, MainStep
  PROVE  QueueMutex'
<1> USE ThreadFacts DEF At, Go, Alive, engine, tasks, locals, client
<1>1. CASE FirstThread
  BY <1>1 DEF FirstThread, QueueMutex, TypeOK
<1>2. CASE FirstLink
  BY <1>2 DEF FirstLink, QueueMutex, TypeOK
<1>3. CASE JoinTest
  BY <1>3 DEF JoinTest, QueueMutex, TypeOK
<1>4. CASE JoinFront
  BY <1>4 DEF JoinFront, QueueMutex, TypeOK
<1>5. CASE JoinDeref
  BY <1>5 DEF JoinDeref, QueueMutex, TypeOK
<1>6. CASE Join
  BY <1>6 DEF Join, QueueMutex, TypeOK
<1> QED
  BY <1>1, <1>2, <1>3, <1>4, <1>5, <1>6 DEF MainStep

LEMMA QueueClient ==
  ASSUME TypeOK, QueueMutex, ClientCall
  PROVE  QueueMutex'
<1> USE ThreadFacts DEF At, Go, Alive, engine, tasks, locals, client
<1>1. ASSUME NEW w \in BOOLEAN, Start(w)
      PROVE  QueueMutex'
  BY <1>1 DEF Start, QueueMutex, TypeOK
<1>2. ASSUME NEW w \in BOOLEAN, Stop(w)
      PROVE  QueueMutex'
  BY <1>2 DEF Stop, QueueMutex, TypeOK
<1>3. CASE Destroy
  BY <1>3 DEF Destroy, QueueMutex, TypeOK
<1>4. ASSUME NEW t \in Added, ClientAdd(t)
      PROVE  QueueMutex'
  BY <1>4 DEF ClientAdd, QueueMutex, TypeOK, Task_Add
<1>5. ASSUME NEW tl \in Batches, ClientAddBatch(tl)
      PROVE  QueueMutex'
  BY <1>5 DEF ClientAddBatch, QueueMutex, TypeOK, Task_Add_Batch
<1>6. ASSUME NEW D, ClientDel(D)
      PROVE  QueueMutex'
  BY <1>6 DEF ClientDel, QueueMutex, TypeOK
<1>7. ASSUME NEW t \in Added, NEW val \in BOOLEAN, SetEnabled(t, val)
      PROVE  QueueMutex'
  BY <1>7 DEF SetEnabled, QueueMutex, TypeOK
<1> QED
  BY <1>1, <1>2, <1>3, <1>4, <1>5, <1>6, <1>7 DEF ClientCall

-----------------------------------------------------------------------------
(* The five statements that matter to the tasks.  Every other step leaves  *)
(* the tasks alone, and a thread that works on a task goes on to the next  *)
(* statement of that work.                                                 *)
Busy == Holding \cup {"stuck"}
Quiet ==
  /\ UNCHANGED <<mutex, myTask, canExec, exec, depend>>
  /\ \A u \in Thread : \/ pc'[u] = pc[u]
                       \/ pc[u] \notin Busy /\ pc'[u] \notin Holding
                       \/ pc[u] \in {"readd", "repost"} /\ pc'[u] \in {"repost", "unlock", "stuck"}

LEMMA QuietWorker ==
  ASSUME TypeOK, NEW th \in Thread, WorkerStep(th)
  PROVE  Quiet \/ Pop(th) \/ Check(th) \/ Run(th) \/ Ran(th) \/ Unlock(th)
<1> USE ThreadFacts DEF At, Go, Alive, engine, tasks, locals, client, Quiet, Busy, Holding
<1>1. CASE Loop(th)
  BY <1>1 DEF Loop, TypeOK
<1>2. CASE CountTasks(th)
  BY <1>2 DEF CountTasks, TypeOK
<1>3. CASE SpawnCreate(th)
  BY <1>3 DEF SpawnCreate, TypeOK
<1>4. CASE SpawnEnd(th)
  BY <1>4 DEF SpawnEnd, TypeOK
<1>5. CASE PushRead(th)
  BY <1>5 DEF PushRead, TypeOK
<1>6. CASE PushLink(th)
  BY <1>6 DEF PushLink, TypeOK
<1>7. CASE Unspawn(th)
  BY <1>7 DEF Unspawn, TypeOK
<1>8. CASE Relock(th)
  BY <1>8 DEF Relock, TypeOK
<1>9. CASE PopEmpty(th)
  BY <1>9 DEF PopEmpty, TypeOK
<1>10. CASE Readd(th)
  BY <1>10 DEF Readd, TypeOK, Task_Add_Batch
<1>11. CASE Repost(th)
  BY <1>11 DEF Repost, TypeOK, Task_Add
<1>12. CASE Exit(th)
  BY <1>12 DEF Exit, TypeOK
<1>13. CASE Unlink(th)
  BY <1>13 DEF Unlink, TypeOK
<1>14. CASE LastWorker(th)
  BY <1>14 DEF LastWorker, TypeOK
<1> QED
  BY <1>1, <1>2, <1>3, <1>4, <1>5, <1>6, <1>7, <1>8, <1>9, <1>10, <1>11, <1>12, <1>13, <1>14 DEF WorkerStep

LEMMA QuietMain ==
  ASSUME TypeOK, MainStep
  PROVE  Quiet
<1> USE ThreadFacts DEF At, Go, Alive, engine, tasks, locals, client, Quiet, Busy, Holding
<1>1. CASE FirstThread
  BY <1>1 DEF FirstThread, TypeOK
<1>2. CASE FirstLink
  BY <1>2 DEF FirstLink, TypeOK
<1>3. CASE JoinTest
  BY <1>3 DEF JoinTest, TypeOK
<1>4. CASE JoinFront
  BY <1>4 DEF JoinFront, TypeOK
<1>5. CASE JoinDeref
  BY <1>5 DEF JoinDeref, TypeOK
<1>6. CASE Join
  BY <1>6 DEF Join, TypeOK
<1> QED
  BY <1>1, <1>2, <1>3, <1>4, <1>5, <1>6 DEF MainStep

LEMMA QuietClient ==
  ASSUME TypeOK, ClientCall
  PROVE  Quiet
<1> USE ThreadFacts DEF At, Go, Alive, engine, tasks, locals, client, Quiet, Busy, Holding
<1>1. ASSUME NEW w \in BOOLEAN, Start(w)
      PROVE  Quiet
  BY <1>1 DEF Start, TypeOK
<1>2. ASSUME NEW w \in BOOLEAN, Stop(w)
      PROVE  Quiet
  BY <1>2 DEF Stop, TypeOK
<1>3. CASE Destroy
  BY <1>3 DEF Destroy, TypeOK
<1>4. ASSUME NEW t \in Added, ClientAdd(t)
      PROVE  Quiet
  <2>1. /\ UNCHANGED <<mutex, myTask, canExec, exec, depend>> /\ pc[Main] = "idle"
        /\ pc' = [pc EXCEPT ![Main] = "idle"] \/ pc' = [pc EXCEPT ![Main] = "stuck"]
    BY <1>4 DEF ClientAdd, Task_Add
  <2>2. ASSUME NEW u \in Thread
        PROVE  pc'[u] = pc[u] \/ (pc[u] = "idle" /\ pc'[u] \in {"idle", "stuck"})
    BY <2>1 DEF TypeOK
  <2> QED
    BY <2>1, <2>2 DEF TypeOK
<1>5. ASSUME NEW tl \in Batches, ClientAddBatch(tl)
      PROVE  Quiet
  BY <1>5 DEF ClientAddBatch, TypeOK, Task_Add_Batch
<1>6. ASSUME NEW D, ClientDel(D)
      PROVE  Quiet
  BY <1>6 DEF ClientDel, TypeOK
<1>7. ASSUME NEW t \in Added, NEW val \in BOOLEAN, SetEnabled(t, val)
      PROVE  Quiet
  BY <1>7 DEF SetEnabled, TypeOK
<1> QED
  BY <1>1, <1>2, <1>3, <1>4, <1>5, <1>6, <1>7 DEF ClientCall

LEMMA StepCases ==
  ASSUME TypeOK, [Next]_vars
  PROVE  Quiet \/ \E th \in Thread : Pop(th) \/ Check(th) \/ Run(th) \/ Ran(th) \/ Unlock(th)
<1>1. CASE UNCHANGED vars
  BY <1>1 DEF vars, tasks, locals, Quiet
<1>2. CASE ClientCall
  BY <1>2, QuietClient
<1>3. ASSUME NEW th \in Thread, Step(th)
      PROVE  Quiet \/ Pop(th) \/ Check(th) \/ Run(th) \/ Ran(th) \/ Unlock(th)
  <2>1. CASE UseAfterDestroy(th)
    BY <2>1 DEF UseAfterDestroy, tasks, locals, Quiet
  <2> QED
    BY <1>3, <2>1, QuietWorker, QuietMain DEF Step
<1> QED
  BY <1>1, <1>2, <1>3 DEF Next

-----------------------------------------------------------------------------
(* Ownership of the tasks *)

(* A thread outside the processing of a task has none in its hands: with   *)
(* it TaskOwned is inductive.                                              *)
HandEmpty == \A th \in Thread : pc[th] \notin Busy => myTask[th] = None
Owned == TaskOwned /\ HandEmpty

LEMMA OwnStep ==
  ASSUME TypeOK, Owned, [Next]_vars
  PROVE  Owned'
<1> USE ThreadFacts DEF Busy, Holding
<1>1. CASE Quiet
  BY <1>1 DEF Quiet, Owned, TaskOwned, HandEmpty
<1>2. ASSUME NEW th \in Thread, Pop(th)
      PROVE  Owned'
  <2> DEFINE t == Head(task_queue)
  <2>1. CASE ~TryLock(t)
    BY <1>2, <2>1 DEF Pop, Owned, TaskOwned, HandEmpty
  <2>2. CASE TryLock(t)
    <3>1. /\ t \in Task /\ mutex[t] = None /\ myTask[th] = None
          /\ mutex' = [mutex EXCEPT ![t] = th]
          /\ myTask' = [myTask EXCEPT ![th] = t]
          /\ pc' = [pc EXCEPT ![th] = "check"]
      BY <1>2, <2>2, QueuedFacts DEF Pop, At, Go, TryLock, TypeOK, Owned, HandEmpty
    <3>2. ASSUME NEW u \in Thread, NEW x \in Task
          PROVE  mutex'[x] = u <=> myTask'[u] = x
      <4>1. /\ mutex'[x] = IF x = t THEN th ELSE mutex[x]
            /\ myTask'[u] = IF u = th THEN t ELSE myTask[u]
        BY <3>1 DEF TypeOK
      <4>2. mutex[x] = u <=> myTask[u] = x
        BY DEF Owned, TaskOwned
      <4>3. mutex[t] = u <=> myTask[u] = t
        BY <3>1 DEF Owned, TaskOwned
      <4> QED
        BY <3>1, <4>1, <4>2, <4>3
    <3>3. ASSUME NEW u \in Thread, pc'[u] \notin Busy
          PROVE  myTask'[u] = None
      BY <3>1, <3>3 DEF TypeOK, Owned, HandEmpty
    <3> QED
      BY <3>2, <3>3 DEF Owned, TaskOwned, HandEmpty
  <2> QED
    BY <2>1, <2>2
<1>3. ASSUME NEW th \in Thread, Check(th) \/ Run(th) \/ Ran(th)
      PROVE  Owned'
  <2>1. UNCHANGED <<mutex, myTask>> /\ \A u \in Thread : pc[u] \in Busy <=> pc'[u] \in Busy
    <3>1. UNCHANGED <<mutex, myTask>> /\ pc[th] \in {"check", "run", "ran"}
      BY <1>3 DEF Check, Run, Ran, At, tasks
    <3>2. \/ pc' = [pc EXCEPT ![th] = "run"] \/ pc' = [pc EXCEPT ![th] = "readd"]
          \/ pc' = [pc EXCEPT ![th] = "ran"] \/ pc' = [pc EXCEPT ![th] = "unlock"]
      BY <1>3 DEF Check, Run, Ran, Go
    <3> QED
      BY <3>1, <3>2 DEF TypeOK
  <2> QED
    BY <2>1 DEF Owned, TaskOwned, HandEmpty
<1>4. ASSUME NEW th \in Thread, Unlock(th)
      PROVE  Owned'
  <2>1. /\ myTask[th] \in Task
        /\ mutex' = [mutex EXCEPT ![myTask[th]] = None]
        /\ myTask' = [myTask EXCEPT ![th] = None]
        /\ pc' = [pc EXCEPT ![th] = "loop"]
    BY <1>4 DEF Unlock, Go, TypeOK
  <2>2. ASSUME NEW u \in Thread, NEW x \in Task
        PROVE  mutex'[x] = u <=> myTask'[u] = x
    <3>1. /\ mutex'[x] = IF x = myTask[th] THEN None ELSE mutex[x]
          /\ myTask'[u] = IF u = th THEN None ELSE myTask[u]
      BY <2>1 DEF TypeOK
    <3>2. mutex[x] = u <=> myTask[u] = x
      BY DEF Owned, TaskOwned
    <3>3. mutex[myTask[th]] = th
      BY <2>1 DEF Owned, TaskOwned
    <3> QED
      BY <2>1, <3>1, <3>2, <3>3
  <2>3. ASSUME NEW u \in Thread, pc'[u] \notin Busy
        PROVE  myTask'[u] = None
    BY <2>1, <2>3 DEF TypeOK, Owned, HandEmpty
  <2> QED
    BY <2>2, <2>3 DEF Owned, TaskOwned, HandEmpty
<1> QED
  BY <1>1, <1>2, <1>3, <1>4, StepCases

-----------------------------------------------------------------------------
(* The order of the tasks *)

(* What a thread knows of the task it is about to run: it is not executed, *)
(* and no dependency of it is still to come.                               *)
NotExecuted ==
  \A th \in Thread :
    (pc[th] = "check" /\ canExec[th]) \/ pc[th] = "run" => ~exec[myTask[th]]
ReadyToRun ==
  \A th \in Thread : pc[th] \in {"run", "ran"} =>
    \A d \in Queued(depend[myTask[th]]) : exec[d] \/ Task_isDependent(depend, d, myTask[th])
Ordered == NotExecuted /\ ReadyToRun /\ ExecClosed

LEMMA OrderStep ==
  ASSUME TypeOK, Owned, Ordered, [Next]_vars
  PROVE  Ordered'
<1> USE ThreadFacts DEF Ordered, NotExecuted, ReadyToRun, ExecClosed
<1>1. CASE Quiet
  BY <1>1 DEF Quiet, Busy, Holding
<1>2. ASSUME NEW th \in Thread, Pop(th)
      PROVE  Ordered'
  <2> DEFINE t == Head(task_queue)
  <2>1. CASE ~TryLock(t)
    BY <1>2, <2>1 DEF Pop
  <2>2. CASE TryLock(t)
    <3>1. /\ t \in Task /\ UNCHANGED <<depend, exec>>
          /\ myTask' = [myTask EXCEPT ![th] = t]
          /\ canExec' = [canExec EXCEPT ![th] = ~exec[t] /\ enable[t]]
          /\ pc' = [pc EXCEPT ![th] = "check"]
      BY <1>2, <2>2, QueuedFacts DEF Pop, CanStart, At, Go, TypeOK
    <3>2. canExec'[th] => ~exec[t]
      BY <3>1, Zenon DEF TypeOK
    <3>3. NotExecuted'
      BY <3>1, <3>2 DEF TypeOK
    <3>4. ReadyToRun' /\ ExecClosed'
      BY <3>1 DEF TypeOK
    <3> QED
      BY <3>3, <3>4
  <2> QED
    BY <2>1, <2>2
<1>3. ASSUME NEW th \in Thread, Check(th)
      PROVE  Ordered'
  <2>1. /\ UNCHANGED <<myTask, canExec, depend, exec>>
        /\ pc[th] = "check"
        /\ \/ /\ canExec[th]
              /\ \A d \in Queued(depend[myTask[th]]) : DependDone(myTask[th], d)
              /\ pc' = [pc EXCEPT ![th] = "run"]
           \/ pc' = [pc EXCEPT ![th] = "readd"]
    BY <1>3 DEF Check, At, Go, tasks
  <2>2. NotExecuted' /\ ExecClosed'
    BY <2>1 DEF TypeOK
  <2>3. ReadyToRun'
    BY <2>1 DEF TypeOK, DependDone
  <2> QED
    BY <2>2, <2>3
<1>4. ASSUME NEW th \in Thread, Run(th)
      PROVE  Ordered'
  BY <1>4 DEF Run, Go, TypeOK, tasks
<1>5. ASSUME NEW th \in Thread, Ran(th)
      PROVE  Ordered'
  <2> DEFINE t == myTask[th]
  <2>1. /\ UNCHANGED <<myTask, canExec, depend, mutex>>
        /\ pc[th] = "ran" /\ t \in Task
        /\ exec' = [exec EXCEPT ![t] = TRUE]
        /\ pc' = [pc EXCEPT ![th] = "unlock"]
    BY <1>5 DEF Ran, Go, TypeOK, Holding
  <2>2. \A u \in Thread : u # th => myTask[u] # t
    BY <2>1 DEF Owned, TaskOwned
  <2>3. ASSUME NEW u \in Thread, (pc'[u] = "check" /\ canExec'[u]) \/ pc'[u] = "run"
        PROVE  ~exec'[myTask'[u]]
    <3>1. u # th /\ pc[u] = pc'[u] /\ canExec'[u] = canExec[u] /\ myTask'[u] = myTask[u]
      BY <2>1, <2>3 DEF TypeOK
    <3>2. ~exec[myTask[u]]
      BY <2>3, <3>1 DEF Ordered, NotExecuted
    <3>3. myTask[u] # t
      BY <2>2, <3>1
    <3>4. myTask[u] \in Task
      BY <2>3, <3>1 DEF TypeOK, Holding
    <3> QED
      BY <2>1, <3>1, <3>2, <3>3, <3>4 DEF TypeOK
  <2>4. \A d \in Task : exec[d] => exec'[d]
    BY <2>1 DEF TypeOK
  <2>5. \A u \in Task : Queued(depend[u]) \subseteq Task
    BY GraphType, QueuedFacts
  <2>6. ReadyToRun'
    BY <2>1, <2>4, <2>5 DEF TypeOK, Holding
  <2>7. ASSUME NEW u \in Task, exec'[u], NEW d \in Queued(depend'[u])
        PROVE  exec'[d] \/ Task_isDependent(depend', d, u)
    <3>1. d \in Queued(depend[u]) /\ d \in Task /\ depend' = depend
      BY <2>1, <2>5, <2>7
    <3>2. exec[d] \/ Task_isDependent(depend, d, u)
      <4>1. CASE u = t
        BY <2>1, <3>1, <4>1
      <4>2. CASE u # t
        BY <2>1, <2>7, <3>1, <4>2 DEF TypeOK
      <4> QED
        BY <4>1, <4>2
    <3> QED
      BY <2>4, <3>1, <3>2
  <2> QED
    BY <2>3, <2>6, <2>7
<1>6. ASSUME NEW th \in Thread, Unlock(th)
      PROVE  Ordered'
  BY <1>6 DEF Unlock, Go, TypeOK
<1> QED
  BY <1>1, <1>2, <1>3, <1>4, <1>5, <1>6, StepCases

-----------------------------------------------------------------------------
(* The theorems *)

IInv == TypeOK /\ QueueMutex /\ Owned /\ Ordered

LEMMA InitInv == Init => IInv
<1> SUFFICES ASSUME Init PROVE IInv
  OBVIOUS
<1>1. TypeOK
  BY InitType
<1>2. QueueMutex
  BY ThreadFacts DEF Init, QueueMutex
<1>3. Owned
  BY ThreadFacts DEF Init, Owned, TaskOwned, HandEmpty
<1>4. Ordered
  BY DEF Init, Ordered, NotExecuted, ReadyToRun, ExecClosed
<1> QED
  BY <1>1, <1>2, <1>3, <1>4 DEF IInv

LEMMA QueueStep ==
  ASSUME TypeOK, QueueMutex, [Next]_vars
  PROVE  QueueMutex'
<1>1. CASE UNCHANGED vars
  BY <1>1 DEF vars, engine, locals, QueueMutex
<1>2. CASE ClientCall
  BY <1>2, QueueClient
<1>3. ASSUME NEW th \in Thread, Step(th)
      PROVE  QueueMutex'
  <2>1. CASE UseAfterDestroy(th)
    BY <2>1 DEF UseAfterDestroy, engine, locals, QueueMutex
  <2> QED
    BY <1>3, <2>1, QueueWorker, QueueMain DEF Step
<1> QED
  BY <1>1, <1>2, <1>3 DEF Next

LEMMA TypeStep ==
  ASSUME TypeOK, [Next]_vars
  PROVE  TypeOK'
<1>1. CASE ClientCall
  BY <1>1, ClientType
<1>2. ASSUME NEW th \in Thread, Step(th)
      PROVE  TypeOK'
  <2>1. CASE UseAfterDestroy(th)
    BY <2>1 DEF UseAfterDestroy, TypeOK, engine, tasks, locals, client
  <2> QED
    BY <1>2, <2>1, WorkerType, MainType DEF Step
<1>3. CASE UNCHANGED vars
  BY <1>3 DEF vars, engine, tasks, locals, client, TypeOK
<1> QED
  BY <1>1, <1>2, <1>3 DEF Next

(* The inductive invariant of the engine.                                  *)
THEOREM Invariance == Spec => []IInv
<1>1. IInv /\ [Next]_vars => IInv'
  BY TypeStep, QueueStep, OwnStep, OrderStep DEF IInv
<1> QED
  BY <1>1, InitInv, PTL DEF Spec

(* Every variable of the engine keeps its type, and a thread past the pop  *)
(* loop of TaskEngine_Worker has a task in its hands.                      *)
THEOREM TypeCorrect == Spec => []TypeOK
<1>1. IInv => TypeOK
  BY DEF IInv
<1> QED
  BY <1>1, Invariance, PTL

(* task_mutex is held by exactly the thread that is taking a task from the *)
(* queue, or that a Listing_Sort without end keeps in TaskEngine_Task_Add. *)
THEOREM QueueMutexHolds == Spec => []QueueMutex
<1>1. IInv => QueueMutex
  BY DEF IInv
<1> QED
  BY <1>1, Invariance, PTL

(* A task's mutex is held by the thread that popped the task and by nobody *)
(* else: no two threads work on a task, however often it is queued.        *)
THEOREM TaskOwnedHolds == Spec => []TaskOwned
<1>1. IInv => TaskOwned
  BY DEF IInv, Owned
<1> QED
  BY <1>1, Invariance, PTL

(* Executed tasks are closed under dependencies, those that depend on the  *)
(* task in turn excepted.                                                  *)
THEOREM ExecClosedHolds == Spec => []ExecClosed
<1>1. IInv => ExecClosed
  BY DEF IInv, Ordered
<1> QED
  BY <1>1, Invariance, PTL

-----------------------------------------------------------------------------
(* Nothing new is queued *)

LEMMA AddShrinks ==
  ASSUME TypeOK, NEW th, NEW t \in Task, NEW next, Task_Add(th, t, next)
  PROVE  Queued(task_queue') \subseteq Queued(task_queue)
<1>1. CASE ~TaskEngine_Task_OK(t)
  BY <1>1 DEF Task_Add
<1>2. CASE TaskEngine_Task_OK(t)
  <2>1. t \in Queued(task_queue)
    BY <1>2 DEF TaskEngine_Task_OK, TaskEngine_Task_Queued
  <2>2. /\ Append(task_queue, t) \in Seq(Task)
        /\ Queued(Append(task_queue, t)) \subseteq Queued(task_queue)
    <3>1. task_queue \in Seq(Task)
      BY DEF TypeOK
    <3>2. /\ Append(task_queue, t) \in Seq(Task)
          /\ Queued(Append(task_queue, t)) \subseteq Queued(task_queue) \cup {t}
      BY <3>1, QueuedFacts
    <3> QED
      BY <2>1, <3>2
  <2> QED
    BY <1>2, <2>2, SortedSeq DEF Task_Add
<1> QED
  BY <1>1, <1>2

LEMMA BatchShrinks ==
  ASSUME TypeOK, NEW th, NEW tl \in Seq(Task), NEW next, Task_Add_Batch(th, tl, next)
  PROVE  Queued(task_queue') \subseteq Queued(task_queue)
<1> DEFINE K == { i \in DOMAIN tl : TaskEngine_Task_OK(tl[i]) }
<1>1. PICK f \in Orders(K) : task_queue' = task_queue \o Pick(tl, f)
  BY DEF Task_Add_Batch
<1>2. \A i \in K : tl[i] \in Queued(task_queue)
  BY DEF TaskEngine_Task_OK, TaskEngine_Task_Queued
<1>3. Pick(tl, f) \in Seq(Task) /\ Queued(Pick(tl, f)) \subseteq Queued(task_queue)
  BY <1>2, PickSeq
<1> QED
  BY <1>1, <1>3, QueuedFacts DEF TypeOK

LEMMA ShrinkStep ==
  ASSUME TypeOK, [Next]_vars
  PROVE  Queued(task_queue') \subseteq Queued(task_queue)
<1> USE DEF engine
<1>1. CASE UNCHANGED vars
  BY <1>1 DEF vars
<1>2. CASE ClientCall
  <2>1. ASSUME NEW t \in Added, ClientAdd(t)
        PROVE  Queued(task_queue') \subseteq Queued(task_queue)
    BY <2>1, AddShrinks, BatchesAssumption DEF ClientAdd
  <2>2. ASSUME NEW tl \in Batches, ClientAddBatch(tl)
        PROVE  Queued(task_queue') \subseteq Queued(task_queue)
    BY <2>2, BatchShrinks, BatchesAssumption DEF ClientAddBatch
  <2>3. ASSUME NEW D, ClientDel(D)
        PROVE  Queued(task_queue') \subseteq Queued(task_queue)
    BY <2>3, WithoutSeq DEF ClientDel, TypeOK
  <2> QED
    BY <1>2, <2>1, <2>2, <2>3 DEF ClientCall, Start, Stop, Destroy, SetEnabled
<1>3. ASSUME NEW th \in Thread, WorkerStep(th)
      PROVE  Queued(task_queue') \subseteq Queued(task_queue)
  <2>1. CASE Pop(th)
    BY <2>1, QueuedFacts DEF Pop, TypeOK
  <2>2. CASE Readd(th)
    <3>1. depend[myTask[th]] \in Seq(Task)
      BY <2>2, GraphType DEF Readd, At, TypeOK, Holding
    <3> QED
      BY <2>2, <3>1, BatchShrinks DEF Readd
  <2>3. CASE Repost(th)
    <3>1. myTask[th] \in Task
      BY <2>3 DEF Repost, At, TypeOK, Holding
    <3> QED
      BY <2>3, <3>1, AddShrinks DEF Repost
  <2>4. CASE \/ Loop(th) \/ CountTasks(th) \/ SpawnCreate(th) \/ SpawnEnd(th)
             \/ PushRead(th) \/ PushLink(th) \/ Unspawn(th) \/ Relock(th)
    BY <2>4 DEF Loop, CountTasks, SpawnCreate, SpawnEnd, PushRead, PushLink, Unspawn, Relock
  <2>5. CASE \/ PopEmpty(th) \/ Check(th) \/ Run(th) \/ Ran(th)
             \/ Unlock(th) \/ Exit(th) \/ Unlink(th) \/ LastWorker(th)
    BY <2>5 DEF PopEmpty, Check, Run, Ran, Unlock, Exit, Unlink, LastWorker
  <2> QED
    BY <1>3, <2>1, <2>2, <2>3, <2>4, <2>5 DEF WorkerStep
<1>4. CASE MainStep
  BY <1>4 DEF MainStep, FirstThread, FirstLink, JoinTest, JoinFront, JoinDeref, Join
<1>5. ASSUME NEW th \in Thread, UseAfterDestroy(th)
      PROVE  Queued(task_queue') \subseteq Queued(task_queue)
  BY <1>5 DEF UseAfterDestroy
<1> QED
  BY <1>1, <1>2, <1>3, <1>4, <1>5 DEF Next, Step

(* No operation queues a task that is not in the queue already: what the   *)
(* inverted test of TaskEngine_Task_Queued makes of the whole engine.      *)
THEOREM QueueOnlyShrinksHolds == Spec => QueueOnlyShrinks
<1>1. TypeOK /\ [Next]_vars => [Queued(task_queue') \subseteq Queued(task_queue)]_vars
  BY ShrinkStep
<1> QED
  BY <1>1, TypeCorrect, PTL DEF Spec, QueueOnlyShrinks

-----------------------------------------------------------------------------
(* The engine implements the abstract pool *)

LEMMA PoolInit == Init => Pool!Init
<1> SUFFICES ASSUME Init PROVE Pool!Init
  OBVIOUS
<1>1. Executing = {}
  BY DEF Init, Executing
<1>2. { t \in Task : exec[t] } = {} /\ depend \in Graphs
  BY DEF Init
<1> QED
  BY <1>1, <1>2 DEF Pool!Init

(* The instance has its own copies of the walks; they are the same ones.   *)
LEMMA SameWalk ==
  ASSUME NEW d, NEW t
  PROVE  Pool!Task_isDependent(depend, d, t) <=> Task_isDependent(depend, d, t)
BY DEF Task_isDependent, Popped, Walk, depStack_hasTask, Frame,
       Pool!Task_isDependent, Pool!Popped, Pool!Walk, Pool!depStack_hasTask, Pool!Frame

LEMMA PoolStep ==
  ASSUME IInv, [Next]_vars
  PROVE  [Pool!Next]_Pool!poolVars
<1> DEFINE Done == { t \in Task : exec[t] }
<1> USE DEF IInv
<1>1. ASSUME UNCHANGED <<depend, exec>>, Executing' = Executing
      PROVE  UNCHANGED Pool!poolVars
  BY <1>1 DEF Pool!poolVars
<1>2. CASE Quiet
  <2>1. \A u \in Thread : /\ pc'[u] \in {"run", "ran"} <=> pc[u] \in {"run", "ran"}
                          /\ myTask'[u] = myTask[u]
    BY <1>2 DEF Quiet, Busy, Holding
  <2> QED
    BY <1>1, <1>2, <2>1 DEF Quiet, Executing
<1>3. ASSUME NEW th \in Thread, Pop(th) \/ Run(th) \/ Unlock(th)
      PROVE  UNCHANGED Pool!poolVars
  <2>1. UNCHANGED <<depend, exec>>
    BY <1>3 DEF Pop, Run, Unlock, tasks
  <2>2. \A u \in Thread : /\ pc'[u] \in {"run", "ran"} <=> pc[u] \in {"run", "ran"}
                          /\ pc[u] \in {"run", "ran"} => myTask'[u] = myTask[u]
    BY <1>3 DEF Pop, Run, Unlock, At, Go, TypeOK
  <2> QED
    BY <1>1, <2>1, <2>2 DEF Executing
<1>4. ASSUME NEW th \in Thread, Check(th)
      PROVE  Pool!Next \/ UNCHANGED Pool!poolVars
  <2> DEFINE t == myTask[th]
  <2>1. /\ t \in Task /\ pc[th] = "check" /\ UNCHANGED <<depend, exec, myTask>>
    BY <1>4 DEF Check, At, TypeOK, Holding, tasks
  <2>2. CASE pc' = [pc EXCEPT ![th] = "readd"]
    <3>1. \A u \in Thread : pc'[u] \in {"run", "ran"} <=> pc[u] \in {"run", "ran"}
      BY <2>1, <2>2 DEF TypeOK
    <3> QED
      BY <1>1, <2>1, <3>1 DEF Executing
  <2>3. CASE /\ pc' = [pc EXCEPT ![th] = "run"] /\ canExec[th]
             /\ \A d \in Queued(depend[t]) : DependDone(t, d)
    <3>1. \A u \in Thread : pc'[u] \in {"run", "ran"} <=> (u = th \/ pc[u] \in {"run", "ran"})
      BY <2>1, <2>3 DEF TypeOK
    <3>2. Executing' = Executing \cup {t}
      BY <2>1, <3>1 DEF Executing
    <3>3. t \notin Executing
      BY <2>1, ThreadFacts DEF Executing, Owned, TaskOwned
    <3>4. t \notin Done
      BY <2>1, <2>3 DEF Ordered, NotExecuted
    <3>5. ASSUME NEW i \in DOMAIN depend[t]
          PROVE  \/ depend[t][i] \in Done
                 \/ /\ depend[t][i] \notin Executing
                    /\ Task_isDependent(depend, depend[t][i], t)
      <4> DEFINE d == depend[t][i]
      <4>1. d \in Queued(depend[t]) /\ d \in Task
        BY <2>1, GraphType, QueuedFacts DEF Queued
      <4>2. mutex[d] = None /\ (exec[d] \/ Task_isDependent(depend, d, t))
        BY <2>3, <4>1 DEF DependDone
      <4>3. d \notin Executing
        BY <4>1, <4>2, ThreadFacts DEF Executing, Owned, TaskOwned
      <4> QED
        BY <4>1, <4>2, <4>3
    <3>6. Done' = Done
      BY <2>1
    <3>7. Pool!Begin(t)
      <4>1. t \notin Executing \cup Done
        BY <3>3, <3>4
      <4> QED
        BY <2>1, <3>2, <3>5, <3>6, <4>1, SameWalk DEF Pool!Begin
    <3>8. \E u \in Task : Pool!Begin(u) \/ Pool!End(u)
      BY <2>1, <3>7
    <3> QED
      BY <3>8 DEF Pool!Next
  <2> QED
    BY <1>4, <2>2, <2>3 DEF Check, Go
<1>5. ASSUME NEW th \in Thread, Ran(th)
      PROVE  Pool!Next
  <2>1. myTask[th] \in Task
    BY <1>5 DEF Ran, TypeOK, Holding
  <2>2. PICK t \in Task : t = myTask[th]
    BY <2>1
  <2>3. /\ pc[th] = "ran" /\ UNCHANGED <<depend, myTask>>
        /\ pc' = [pc EXCEPT ![th] = "unlock"]
        /\ exec' = [exec EXCEPT ![t] = TRUE]
    BY <1>5, <2>2 DEF Ran, Go
  <2>4. \A u \in Thread : pc'[u] \in {"run", "ran"} <=> (u # th /\ pc[u] \in {"run", "ran"})
    BY <2>3 DEF TypeOK
  <2>5. \A u \in Thread : u # th => myTask[u] # t
    BY <2>2 DEF Owned, TaskOwned
  <2>6. t \in Executing /\ Executing' = Executing \ {t}
    BY <2>2, <2>3, <2>4, <2>5 DEF Executing
  <2>7. Done' = Done \cup {t}
    BY <2>3 DEF TypeOK
  <2>8. Pool!End(t)
    BY <2>3, <2>6, <2>7 DEF Pool!End
  <2> QED
    BY <2>8 DEF Pool!Next
<1> QED
  BY <1>2, <1>3, <1>4, <1>5, StepCases

(* The engine implements TaskPool: whatever its threads do, a task is run  *)
(* at most once, and only when its dependencies are done or are waiting    *)
(* for it in turn and not running.                                         *)
THEOREM Implementation == Spec => PoolSpec
<1>1. IInv /\ [Next]_vars => [Pool!Next]_Pool!poolVars
  BY PoolStep
<1> QED
  BY <1>1, PoolInit, Invariance, PTL DEF Spec, PoolSpec, Pool!Spec
-----------------------------------------------------------------------------
(* An engine whose client uses nothing but the API *)

(* Nothing is queued or executed, so that no worker gets past the count of *)
(* the queue: none of them takes task_mutex or spawns another.  What is    *)
(* left are the two places that change the workers listing, and both have  *)
(* worker_mutex there: what they have read of the listing is what it is    *)
(* when they write it, and a worker that lives is in it, or still in the   *)
(* hands of the client's thread.                                           *)
WorkerPlaces == {"none", "loop", "count", "exit", "unlink", "last", "dead"}
ClientPlaces == {"loop", "count", "exit", "unlink", "last", "idle", "first", "first_push",
                 "first_link", "join", "front", "deref", "joining", "destroyed"}
Changing == {"unlink", "last", "first_push", "first_link"}
CalmPlaces == (\A w \in Worker : pc[w] \in WorkerPlaces) /\ pc[Main] \in ClientPlaces
ListingMutex == \A th \in Thread : worker_mutex = th <=> pc[th] \in Changing
ReadStill == \A th \in Thread : pc[th] \in {"unlink", "first_link"} => snap[th] = workers
ListedOrHeld ==
  \A w \in Worker : pc[w] \notin {"none", "last", "dead"} =>
    \/ w \in Queued(workers)
    \/ pc[Main] \in {"first_push", "first_link"} /\ peer[Main] = w
Calm == NothingEverQueued /\ CalmPlaces /\ ListingMutex /\ ReadStill /\ ListedOrHeld

LEMMA CalmInit ==
  ASSUME Preloads \subseteq {<<>>}, Init
  PROVE  Calm
<1>1. NothingEverQueued
  BY DEF Init, NothingEverQueued
<1>2. \A w \in Worker : pc[w] = "none"
  BY ThreadFacts DEF Init
<1>3. pc[Main] = "idle"
  BY ThreadFacts DEF Init
<1>4. ListingMutex /\ ReadStill
  BY ThreadFacts DEF Init, ListingMutex, ReadStill, Changing
<1> QED
  BY <1>1, <1>2, <1>3, <1>4 DEF Calm, CalmPlaces, WorkerPlaces, ClientPlaces, ListedOrHeld

LEMMA CalmQueue ==
  ASSUME TypeOK, Calm, [Next]_vars
  PROVE  NothingEverQueued'
<1>1. task_queue' = <<>>
  <2>1. Queued(<<>>) = {}
    BY DEF Queued
  <2>2. Queued(task_queue') = {} /\ task_queue' \in Seq(Task)
    BY <2>1, ShrinkStep, TypeStep DEF Calm, NothingEverQueued, TypeOK
  <2>3. DOMAIN task_queue' = {}
    BY <2>2 DEF Queued
  <2> QED
    BY <2>2, <2>3, EmptySeq, LenProperties
<1>2. UNCHANGED exec
  <2>1. \A th \in Thread : pc[th] \notin {"pop", "check", "run", "ran", "unlock"}
    BY DEF Calm, CalmPlaces, WorkerPlaces, ClientPlaces, Thread
  <2> QED
    BY <2>1, StepCases DEF Quiet, Pop, Check, Run, Ran, Unlock, At
<1> QED
  BY <1>1, <1>2 DEF Calm, NothingEverQueued

(* A step that leaves the listing and its mutex alone.                     *)
LEMMA CalmElsewhere ==
  ASSUME TypeOK, Calm, NEW th \in Thread,
         UNCHANGED <<workers, worker_mutex, snap>>, th # Main => UNCHANGED peer,
         \A u \in Thread : u # th => pc'[u] = pc[u],
         pc[th] \notin Changing, pc'[th] \notin Changing,
         pc[th] \notin {"none", "dead"} /\ pc'[th] \notin {"none", "dead"},
         IF th = Main THEN pc'[th] \in ClientPlaces ELSE pc'[th] \in WorkerPlaces
  PROVE  (CalmPlaces /\ ListingMutex /\ ReadStill /\ ListedOrHeld)'
<1> USE ThreadFacts
<1>1. CalmPlaces'
  BY DEF Calm, CalmPlaces
<1>2. ListingMutex'
  BY DEF Calm, ListingMutex
<1>3. ReadStill'
  BY DEF Calm, ReadStill, Changing
<1>4. ListedOrHeld'
  BY DEF Calm, ListedOrHeld, Changing
<1> QED
  BY <1>1, <1>2, <1>3, <1>4
LEMMA CalmSame ==
  ASSUME Calm, UNCHANGED <<pc, workers, worker_mutex, snap, peer>>
  PROVE  (CalmPlaces /\ ListingMutex /\ ReadStill /\ ListedOrHeld)'
BY DEF Calm, CalmPlaces, ListingMutex, ReadStill, ListedOrHeld

LEMMA CalmWorker ==
  ASSUME TypeOK, Calm, NEW th \in Thread, WorkerStep(th)
  PROVE  (CalmPlaces /\ ListingMutex /\ ReadStill /\ ListedOrHeld)'
<1> USE ThreadFacts DEF At, Go, Alive, engine, tasks, locals, client, Changing
<1>0. /\ th # Main => pc[th] \in WorkerPlaces
      /\ th = Main => pc[th] \in ClientPlaces
      /\ Len(task_queue) = 0
  BY LenProperties DEF Calm, CalmPlaces, NothingEverQueued, Thread
<1>1. CASE Loop(th) \/ CountTasks(th)
  <2>1. pc' = [pc EXCEPT ![th] = "count"] \/ pc' = [pc EXCEPT ![th] = "exit"]
    BY <1>0, <1>1 DEF Loop, CountTasks
  <2>2. UNCHANGED <<workers, worker_mutex, snap, peer>> /\ pc[th] \in {"loop", "count"}
    BY <1>0, <1>1 DEF Loop, CountTasks
  <2>3. pc'[th] \in {"count", "exit"} /\ \A u \in Thread : u # th => pc'[u] = pc[u]
    BY <2>1 DEF TypeOK
  <2>4. IF th = Main THEN pc'[th] \in ClientPlaces ELSE pc'[th] \in WorkerPlaces
    BY <2>3 DEF ClientPlaces, WorkerPlaces
  <2> QED
    BY <2>2, <2>3, <2>4, CalmElsewhere
<1>2. CASE PushRead(th)
  <2>1. th = Main /\ pc[Main] = "first_push"
    BY <1>0, <1>2 DEF PushRead, WorkerPlaces, ClientPlaces
  <2>2. /\ UNCHANGED <<workers, worker_mutex, peer>>
        /\ snap' = [snap EXCEPT ![Main] = workers]
        /\ pc' = [pc EXCEPT ![Main] = "first_link"]
    BY <1>2, <2>1 DEF PushRead
  <2>3. CalmPlaces' /\ ListingMutex'
    BY <2>1, <2>2 DEF Calm, CalmPlaces, ListingMutex, ClientPlaces, TypeOK
  <2>4. ReadStill'
    BY <2>1, <2>2 DEF Calm, ReadStill, TypeOK
  <2>5. ListedOrHeld'
    BY <2>1, <2>2 DEF Calm, ListedOrHeld, TypeOK
  <2> QED
    BY <2>3, <2>4, <2>5
<1>3. CASE Exit(th)
  <2>1. /\ UNCHANGED <<workers, peer>> /\ pc[th] = "exit" /\ worker_mutex = None
        /\ worker_mutex' = th
        /\ snap' = [snap EXCEPT ![th] = workers]
        /\ pc' = [pc EXCEPT ![th] = "unlink"]
    BY <1>3 DEF Exit
  <2>2. CalmPlaces'
    BY <2>1 DEF Calm, CalmPlaces, ClientPlaces, WorkerPlaces, TypeOK
  <2>3. ListingMutex'
    BY <2>1 DEF Calm, ListingMutex, TypeOK
  <2>4. ReadStill'
    BY <2>1 DEF Calm, ReadStill, TypeOK
  <2>5. ListedOrHeld'
    BY <2>1 DEF Calm, ListedOrHeld, TypeOK
  <2> QED
    BY <2>2, <2>3, <2>4, <2>5
<1>4. CASE Unlink(th)
  <2>1. /\ UNCHANGED <<worker_mutex, peer>> /\ pc[th] = "unlink"
        /\ workers' \in Without(snap[th], {th})
        /\ snap' = [snap EXCEPT ![th] = <<>>]
        /\ pc' = [pc EXCEPT ![th] = "last"]
    BY <1>4 DEF Unlink
  <2>2. worker_mutex = th /\ snap[th] = workers
    BY <2>1 DEF Calm, ListingMutex, ReadStill
  <2>3. \A u \in Thread : pc[u] \in {"unlink", "first_push", "first_link"} => u = th
    BY <2>2 DEF Calm, ListingMutex
  <2>4. CalmPlaces'
    BY <2>1 DEF Calm, CalmPlaces, ClientPlaces, WorkerPlaces, TypeOK
  <2>5. ListingMutex'
    BY <2>1 DEF Calm, ListingMutex, TypeOK
  <2>6. ReadStill'
    BY <2>1, <2>3 DEF ReadStill, TypeOK
  <2>7. ASSUME NEW w \in Worker, w # th, w \in Queued(workers)
        PROVE  w \in Queued(workers')
    <3>1. workers \in Seq(Owner) /\ workers' \in Without(workers, {th})
      BY <2>1, <2>2 DEF TypeOK
    <3>2. workers' \in Seq(Owner)
      BY <3>1, WithoutSeq
    <3>3. Times(workers', w) = Times(workers, w)
      BY <2>7, <3>1, WithoutTimes
    <3> QED
      BY <2>7, <3>1, <3>2, <3>3, NoneTimes
  <2>8. ListedOrHeld'
    <3>1. pc[Main] \notin {"first_push", "first_link"} /\ pc'[Main] \notin {"first_push", "first_link"}
      BY <2>1, <2>3 DEF TypeOK
    <3>2. ASSUME NEW w \in Worker, pc'[w] \notin {"none", "last", "dead"}
          PROVE  w \in Queued(workers')
      <4>1. w # th /\ pc[w] = pc'[w]
        BY <2>1, <3>2 DEF TypeOK
      <4>2. w \in Queued(workers)
        BY <3>1, <3>2, <4>1 DEF Calm, ListedOrHeld
      <4> QED
        BY <2>7, <4>1, <4>2
    <3> QED
      BY <3>2 DEF ListedOrHeld
  <2> QED
    BY <2>4, <2>5, <2>6, <2>8
<1>5. CASE LastWorker(th)
  <2>1. /\ UNCHANGED <<workers, snap, peer>> /\ pc[th] = "last"
        /\ worker_mutex' = None
        /\ pc' = [pc EXCEPT ![th] = IF th = Main THEN "join" ELSE "dead"]
    BY <1>5 DEF LastWorker
  <2>2. worker_mutex = th
    BY <2>1 DEF Calm, ListingMutex
  <2>3. pc'[th] \in {"join", "dead"} /\ \A u \in Thread : u # th => pc'[u] = pc[u]
    BY <2>1 DEF TypeOK
  <2>4. CalmPlaces'
    BY <2>1, <2>3 DEF Calm, CalmPlaces, ClientPlaces, WorkerPlaces, TypeOK
  <2>5. ListingMutex'
    BY <2>1, <2>2, <2>3 DEF Calm, ListingMutex
  <2>6. ReadStill'
    BY <2>1, <2>3 DEF Calm, ReadStill
  <2>7. ListedOrHeld'
    <3>1. th # Main => pc'[th] = "dead"
      BY <2>1 DEF TypeOK
    <3>2. pc[Main] \notin {"first_push", "first_link"}
      BY <2>1, <2>2 DEF Calm, ListingMutex
    <3> QED
      BY <2>1, <2>3, <3>1, <3>2 DEF Calm, ListedOrHeld
  <2> QED
    BY <2>4, <2>5, <2>6, <2>7
<1>6. ~(SpawnCreate(th) \/ SpawnEnd(th) \/ PushLink(th) \/ Unspawn(th) \/ Relock(th))
  BY <1>0 DEF SpawnCreate, SpawnEnd, PushLink, Unspawn, Relock, WorkerPlaces, ClientPlaces
<1>7. ~(\/ Pop(th) \/ PopEmpty(th) \/ Check(th) \/ Run(th) \/ Ran(th) \/ Unlock(th)
        \/ Readd(th) \/ Repost(th))
  BY <1>0 DEF Pop, PopEmpty, Check, Run, Ran, Unlock, Readd, Repost, WorkerPlaces, ClientPlaces
<1> QED
  BY <1>1, <1>2, <1>3, <1>4, <1>5, <1>6, <1>7 DEF WorkerStep

LEMMA CalmMain ==
  ASSUME TypeOK, Calm, MainStep
  PROVE  (CalmPlaces /\ ListingMutex /\ ReadStill /\ ListedOrHeld)'
<1> USE ThreadFacts DEF At, Go, Alive, engine, tasks, locals, client, Changing
<1>1. CASE FirstThread
  <2>1. /\ UNCHANGED <<workers, snap>> /\ pc[Main] = "first" /\ worker_mutex = None
        /\ worker_mutex' = Main
    BY <1>1 DEF FirstThread
  <2>2. CASE pc' = [pc EXCEPT ![Main] = "first_push"]
    <3>1. CalmPlaces' /\ ListingMutex'
      BY <2>1, <2>2 DEF Calm, CalmPlaces, ListingMutex, ClientPlaces, TypeOK
    <3>2. ReadStill' /\ ListedOrHeld'
      BY <2>1, <2>2 DEF Calm, ReadStill, ListedOrHeld, TypeOK
    <3> QED
      BY <3>1, <3>2
  <2>3. ASSUME NEW w \in Worker, pc[w] = "none", peer' = [peer EXCEPT ![Main] = w],
               pc' = [pc EXCEPT ![w] = "loop", ![Main] = "first_push"]
        PROVE  (CalmPlaces /\ ListingMutex /\ ReadStill /\ ListedOrHeld)'
    <3>1. /\ pc'[w] = "loop" /\ pc'[Main] = "first_push" /\ peer'[Main] = w
          /\ \A u \in Thread : u # w /\ u # Main => pc'[u] = pc[u]
      BY <2>3 DEF TypeOK
    <3>2. CalmPlaces' /\ ListingMutex'
      BY <2>1, <2>3, <3>1 DEF Calm, CalmPlaces, ListingMutex, ClientPlaces, WorkerPlaces
    <3>3. ReadStill' /\ ListedOrHeld'
      BY <2>1, <2>3, <3>1 DEF Calm, ReadStill, ListedOrHeld
    <3> QED
      BY <3>2, <3>3
  <2> QED
    BY <1>1, <2>2, <2>3 DEF FirstThread
<1>2. CASE FirstLink
  <2>1. /\ pc[Main] = "first_link" /\ worker_mutex' = None
        /\ workers' = Append(snap[Main], peer[Main])
        /\ snap' = [snap EXCEPT ![Main] = <<>>]
        /\ pc' = [pc EXCEPT ![Main] = IF wait THEN "loop" ELSE "idle"]
    BY <1>2 DEF FirstLink
  <2>2. worker_mutex = Main /\ snap[Main] = workers
    BY <2>1 DEF Calm, ListingMutex, ReadStill
  <2>3. pc'[Main] \in {"loop", "idle"} /\ \A u \in Thread : u # Main => pc'[u] = pc[u]
    BY <2>1 DEF TypeOK
  <2>4. Queued(workers') = Queued(workers) \cup {peer[Main]}
    <3>1. workers \in Seq(Owner) /\ peer[Main] \in Owner
      BY DEF TypeOK
    <3> QED
      BY <2>1, <2>2, <3>1, AppendQueued
  <2>5. CalmPlaces' /\ ListingMutex'
    BY <2>1, <2>2, <2>3 DEF Calm, CalmPlaces, ListingMutex, ClientPlaces
  <2>6. ReadStill'
    <3>1. \A u \in Thread : pc'[u] \notin {"unlink", "first_link"}
      BY <2>2, <2>3 DEF Calm, ListingMutex
    <3> QED
      BY <3>1 DEF ReadStill
  <2>7. ListedOrHeld'
    BY <2>1, <2>3, <2>4 DEF Calm, ListedOrHeld
  <2> QED
    BY <2>5, <2>6, <2>7
<1>3. CASE JoinFront /\ workers = <<>>
  BY <1>3, CalmSame DEF JoinFront
<1>4. CASE JoinDeref /\ UNCHANGED pc
  BY <1>4, CalmSame DEF JoinDeref
<1>5. CASE JoinTest \/ (JoinFront /\ workers # <<>>) \/ (JoinDeref /\ pc' # pc) \/ Join
  <2>1. /\ UNCHANGED <<workers, worker_mutex, snap>>
        /\ pc[Main] \in {"join", "front", "deref", "joining"}
    BY <1>5 DEF JoinTest, JoinFront, JoinDeref, Join
  <2>2. \E next \in {"front", "destroyed", "idle", "deref", "joining", "join"} :
          pc' = [pc EXCEPT ![Main] = next]
    BY <1>5 DEF JoinTest, JoinFront, JoinDeref, Join
  <2>3. /\ pc'[Main] \in {"front", "destroyed", "idle", "deref", "joining", "join"}
        /\ \A u \in Thread : u # Main => pc'[u] = pc[u]
    BY <2>2 DEF TypeOK
  <2>4. pc'[Main] \in ClientPlaces
    BY <2>3 DEF ClientPlaces
  <2> QED
    BY <2>1, <2>3, <2>4, CalmElsewhere
<1> QED
  BY <1>1, <1>2, <1>3, <1>4, <1>5 DEF MainStep

LEMMA CalmClient ==
  ASSUME TypeOK, Calm, ClientCall
  PROVE  (CalmPlaces /\ ListingMutex /\ ReadStill /\ ListedOrHeld)'
<1> USE ThreadFacts DEF At, Go, Alive, engine, tasks, locals, client, Changing
<1>1. \A t : ~TaskEngine_Task_OK(t)
  <2>1. Queued(task_queue) = {}
    <3>1. task_queue = <<>> /\ DOMAIN <<>> = {}
      BY DEF Calm, NothingEverQueued
    <3> QED
      BY ONLY <3>1 DEF Queued
  <2>2. \A t : TaskEngine_Task_Queued(t)
    BY ONLY <2>1 DEF TaskEngine_Task_Queued
  <2> QED
    BY ONLY <2>2 DEF TaskEngine_Task_OK
<1>2. ASSUME /\ UNCHANGED <<workers, worker_mutex, snap>> /\ pc[Main] = "idle"
             /\ \E next \in {"first", "join", "idle", "destroyed"} : pc' = [pc EXCEPT ![Main] = next]
      PROVE  (CalmPlaces /\ ListingMutex /\ ReadStill /\ ListedOrHeld)'
  <2>1. /\ pc'[Main] \in {"first", "join", "idle", "destroyed"}
        /\ \A u \in Thread : u # Main => pc'[u] = pc[u]
    BY <1>2 DEF TypeOK
  <2>2. pc'[Main] \in ClientPlaces
    BY <2>1 DEF ClientPlaces
  <2> QED
    BY <1>2, <2>1, <2>2, CalmElsewhere
<1>3. ASSUME NEW w \in BOOLEAN, Start(w) \/ Stop(w)
      PROVE  (CalmPlaces /\ ListingMutex /\ ReadStill /\ ListedOrHeld)'
  BY <1>2, <1>3 DEF Start, Stop
<1>4. CASE Destroy
  BY <1>2, <1>4 DEF Destroy
<1>5. ASSUME NEW t, ClientAdd(t)
      PROVE  (CalmPlaces /\ ListingMutex /\ ReadStill /\ ListedOrHeld)'
  BY <1>1, <1>2, <1>5 DEF ClientAdd, Task_Add
<1>6. ASSUME NEW tl, ClientAddBatch(tl)
      PROVE  (CalmPlaces /\ ListingMutex /\ ReadStill /\ ListedOrHeld)'
  BY <1>2, <1>6 DEF ClientAddBatch, Task_Add_Batch
<1>7. ASSUME NEW D, ClientDel(D)
      PROVE  (CalmPlaces /\ ListingMutex /\ ReadStill /\ ListedOrHeld)'
  BY <1>7, CalmSame DEF ClientDel
<1>8. ASSUME NEW t, NEW val, SetEnabled(t, val)
      PROVE  (CalmPlaces /\ ListingMutex /\ ReadStill /\ ListedOrHeld)'
  BY <1>8, CalmSame DEF SetEnabled
<1> QED
  BY <1>3, <1>4, <1>5, <1>6, <1>7, <1>8 DEF ClientCall

LEMMA CalmStep ==
  ASSUME TypeOK, Calm, [Next]_vars
  PROVE  Calm'
<1> DEFINE G == (CalmPlaces /\ ListingMutex /\ ReadStill /\ ListedOrHeld)'
<1>1. ASSUME UNCHANGED vars PROVE G
  <2>1. UNCHANGED <<pc, workers, worker_mutex, snap, peer>>
    BY <1>1 DEF vars, engine, locals
  <2> QED
    BY <2>1, CalmSame
<1>2. ASSUME NEW th \in Thread, UseAfterDestroy(th)
      PROVE  G
  <2>1. UNCHANGED <<pc, workers, worker_mutex, snap, peer>>
    BY <1>2 DEF UseAfterDestroy, engine, locals
  <2> QED
    BY <2>1, CalmSame
<1>3. ASSUME NEW th \in Thread, WorkerStep(th)
      PROVE  G
  BY <1>3, CalmWorker
<1>4. ASSUME MainStep PROVE G
  BY <1>4, CalmMain
<1>5. ASSUME ClientCall PROVE G
  BY <1>5, CalmClient
<1>6. G
  <2> HIDE DEF G
  <2> QED
    BY <1>1, <1>2, <1>3, <1>4, <1>5 DEF Next, Step
<1> QED
  BY <1>6, CalmQueue DEF Calm

(* A client that only uses the API, so that the engine starts with an      *)
(* empty queue, never gets a task executed: TaskEngine_Task_Add and        *)
(* TaskEngine_Task_Add_Batch (taskEngine.c:29, 49) let only tasks through  *)
(* that are queued, whatever the threads do and the client calls.          *)
THEOREM NothingEverQueuedHolds ==
  ASSUME Preloads \subseteq {<<>>}
  PROVE  Spec => []NothingEverQueued
<1>1. TypeOK /\ Calm /\ [Next]_vars => Calm'
  BY CalmStep
<1>2. Init => Calm
  BY CalmInit
<1>3. Calm => NothingEverQueued
  BY DEF Calm
<1> QED
  BY <1>1, <1>2, <1>3, TypeCorrect, PTL DEF Spec

(* In the engine of such a client every worker that has started is in the  *)
(* workers listing until it has removed itself (taskEngine.c:167-180 and   *)
(* 193-202): the only threads that change the listing have worker_mutex,   *)
(* for every number of starts, stops and workers.                          *)
THEOREM AliveListedHolds ==
  ASSUME Preloads \subseteq {<<>>}
  PROVE  Spec => []AliveListed
<1>1. TypeOK /\ Calm /\ [Next]_vars => Calm'
  BY CalmStep
<1>2. Init => Calm
  BY CalmInit
<1>3. Calm => AliveListed
  BY DEF Calm, ListedOrHeld, AliveListed
<1> QED
  BY <1>1, <1>2, <1>3, TypeCorrect, PTL DEF Spec
=============================================================================
