------------------------------ MODULE TaskPool ------------------------------
(***************************************************************************)
(* What a task engine promises about the order in which tasks run, with no *)
(* queue, worker or mutex in it: a task runs at most once, after all its   *)
(* dependencies; a dependency that depends on the task in turn need not be *)
(* done, but is not running when the task begins.                          *)
(***************************************************************************)
EXTENDS TaskGraph

CONSTANT Graphs           \* the dependency graphs of the client

VARIABLES depend,         \* the graph; it does not change
          executing, executed

poolVars == <<depend, executing, executed>>

Init ==
  /\ depend \in Graphs
  /\ executing = {} /\ executed = {}

Begin(t) ==
  /\ t \notin executing \cup executed
  /\ \A i \in DOMAIN depend[t] :
       LET d == depend[t][i]
       IN  d \in executed \/ (d \notin executing /\ Task_isDependent(depend, d, t))
  /\ executing' = executing \cup {t}
  /\ UNCHANGED <<depend, executed>>

End(t) ==
  /\ t \in executing
  /\ executing' = executing \ {t}
  /\ executed' = executed \cup {t}
  /\ UNCHANGED depend

Next == \E t \in Task : Begin(t) \/ End(t)

Spec == Init /\ [][Next]_poolVars
=============================================================================
