------------------------------ MODULE TaskGraph ------------------------------
(***************************************************************************)
(* The dependency walks of task.c.  Task_isEnabled, Task_hasCircDeps,      *)
(* Task_isDependent and Task_ResetTree are one depth-first loop over a     *)
(* stack of (task, next dependency) frames; they differ only in what they  *)
(* do when a frame is popped and in when they stop early.  The walk skips  *)
(* a dependency that is on the stack at that moment and nothing else, so a *)
(* task can be visited once per path that leads to it.                     *)
(*                                                                         *)
(* The operators are pure: depend (a function from tasks to sequences of   *)
(* tasks) and the flags are parameters, so that both the Task module and   *)
(* the TaskEngine module can use them on their own state.                  *)
(***************************************************************************)
EXTENDS Naturals, Sequences

CONSTANT Task               \* the addresses of Task structures

(* struct depStack_Node: a task and the index of its next dependency. *)
Frame == [t : Task, currdep : Nat]

depStack_hasTask(stk, u) == \E i \in DOMAIN stk : stk[i].t = u

(* The whole walk from t, never stopped early: the tasks in the order they *)
(* are popped, and whether it met a dependency that was on the stack.      *)
Walk(depend, t) ==
  LET walk[stk \in Seq(Frame)] ==
        IF stk = <<>> THEN [popped |-> <<>>, circ |-> FALSE]
        ELSE LET top  == Head(stk)
                 next == depend[top.t][top.currdep + 1]
                 rest == <<[top EXCEPT !.currdep = @ + 1]>> \o Tail(stk)
             IN  IF top.currdep >= Len(depend[top.t])
                 THEN [walk[Tail(stk)] EXCEPT !.popped = <<top.t>> \o @]
                 ELSE IF depStack_hasTask(stk, next)
                      THEN [walk[rest] EXCEPT !.circ = TRUE]
                      ELSE walk[<<[t |-> next, currdep |-> 0]>> \o rest]
  IN  walk[<<[t |-> t, currdep |-> 0]>>]

Popped(depend, t) == { Walk(depend, t).popped[i] : i \in DOMAIN Walk(depend, t).popped }

(* The queries.  They change nothing, so stopping early (at the first      *)
(* disabled task, at the target, at the first circle) is not visible.      *)
Task_isEnabled(depend, enable, t) ==
  enable[t] /\ \A u \in Popped(depend, t) : enable[u]

(* A slip: a task that is reached along two paths is taken for a circle.   *)
Task_hasCircDeps_Slip(depend, t) ==
  \E i, j \in DOMAIN Walk(depend, t).popped :
    i # j /\ Walk(depend, t).popped[i] = Walk(depend, t).popped[j]
Task_hasCircDeps(depend, t) == Walk(depend, t).circ

Task_isDependent(depend, start, target) == target \in Popped(depend, start)

Task_Ready(depend, enable, exec, t) ==
  /\ enable[t] /\ ~exec[t]
  /\ \A i \in DOMAIN depend[t] : exec[depend[t][i]]

-----------------------------------------------------------------------------
(* What the header says of the queries, over the dependencies and not over *)
(* the walk: the reference the walks are compared with.  The tree of t is  *)
(* the smallest set with t in it and all the dependencies of its members.  *)
Closed(depend, X) == \A u \in X : \A i \in DOMAIN depend[u] : depend[u][i] \in X

Reach(depend, t) ==
  { u \in Task : \A X \in SUBSET Task : t \in X /\ Closed(depend, X) => u \in X }

OnCycle(depend, u) == \E i \in DOMAIN depend[u] : u \in Reach(depend, depend[u][i])
=============================================================================
