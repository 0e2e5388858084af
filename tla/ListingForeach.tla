--------------------------- MODULE ListingForeach ---------------------------
(***************************************************************************)
(* listing_foreach.c, and the two operations of listing.c that go through  *)
(* a listing with it, Clone and Find.  The threads of one call, the        *)
(* client's included, take the cursor of the call under its mutex and run  *)
(* the callback outside of it; the client makes no other call meanwhile.   *)
(***************************************************************************)
EXTENDS Listing

CONSTANTS Thread,         \* the threads of a call
          Main,           \* the client's
          MaxBefore       \* bound: calls on a listing before one goes through it

ASSUME ThreadAssumption == Main \in Thread /\ MaxBefore \in Nat

VARIABLES pc,             \* by thread: outside "idle", "next" (line 57), in the
                          \* callback ("call", "push"), "done" (line 62)
          item,           \* mynode, by thread
          at,             \* the index at which the thread is going to push
          cursor,         \* lfq.current
          job,            \* the listing, and what the callback does with an entry
          lost            \* a pthread_create failed: its thread_list entry is not set

foreach == <<pc, item, at, cursor, job, lost>>
allVars == <<vars, foreach>>

Idle == \A th \in Thread : pc[th] = "idle"

ForeachInit ==
  /\ Init
  /\ pc = [th \in Thread |-> "idle"] /\ item = [th \in Thread |-> NULL]
  /\ at = [th \in Thread |-> 0]
  /\ cursor = NULL /\ lost = FALSE
  /\ job = [over |-> NULL, does |-> "nothing", list |-> NULL, finds |-> {}]

-----------------------------------------------------------------------------
Listing_Foreach_JobMeta_Setup(l, j) == cursor' = head[l] /\ job' = j

(* The main thread starts the others, of which there may be fewer than it  *)
(* asked for, and works with them.  A thread that starts late is one that  *)
(* is late in its first step.                                              *)
Starts(l, T, j) ==
  /\ Runs /\ Idle /\ l \in live /\ calls[l] <= MaxBefore
  /\ Call(l)
  /\ \E created \in SUBSET (T \ {Main}) :
       /\ pc' = [th \in Thread |-> IF th \in created \cup {Main} THEN "next" ELSE "idle"]
       /\ lost' = (created # T \ {Main})
  /\ Listing_Foreach_JobMeta_Setup(l, j)
  /\ UNCHANGED <<item, at>>

(* With a callback of the client's that leaves the listings alone.         *)
Listing_Foreach(l, T) ==
  /\ Starts(l, T, [over |-> l, does |-> "nothing", list |-> NULL, finds |-> {}])
  /\ UNCHANGED <<live, header, memory, freeing, fault>>

Listing_Clone(dest, orig) ==
  /\ dest \in live
  /\ Starts(orig, {Main}, [over |-> orig, does |-> "push", list |-> dest, finds |-> Data])
  /\ UNCHANGED <<live, header, memory, freeing, fault>>

(* The result is a new listing, or NULL when malloc fails; finds is the    *)
(* set of the entries of which test is true.                               *)
Listing_Find(l, T, finds) ==
  \E r \in (List \ live) \cup {NULL} :
    /\ Starts(l, T, [over |-> l, does |-> "push", list |-> r, finds |-> finds])
    /\ live' = live \cup ({r} \ {NULL})
    /\ head' = [m \in List |-> IF m = r THEN NULL ELSE head[m]]
    /\ tail' = [m \in List |-> IF m = r THEN NULL ELSE tail[m]]
    /\ count' = [m \in List |-> IF m = r THEN 0 ELSE count[m]]
    /\ UNCHANGED <<cache, memory, freeing, fault>>

(* The cursor is compared with the next node, not set to it (line 44).     *)
Advanced_Slip(p) == next[p]
Advanced(p) == p

Queue_Next_Slip(th) ==     \* an empty queue is not noticed
  /\ ~fault /\ pc[th] = "next"
  /\ item' = [item EXCEPT ![th] = cursor]
  /\ cursor' = IF cursor = NULL THEN NULL ELSE Advanced(cursor)
  /\ pc' = [pc EXCEPT ![th] = IF cursor = NULL THEN "next" ELSE "call"]
  /\ UNCHANGED <<vars, at, job, lost>>

Listing_Foreach_Queue_Next(th) ==
  /\ ~fault /\ pc[th] = "next"
  /\ item' = [item EXCEPT ![th] = cursor]
  /\ cursor' = IF cursor = NULL THEN NULL ELSE Advanced(cursor)
  /\ pc' = [pc EXCEPT ![th] = IF cursor = NULL THEN "done" ELSE "call"]
  /\ UNCHANGED <<vars, at, job, lost>>

(* The callback.  What pushes reads the count first, for the index.        *)
Callback(th) ==
  /\ ~fault /\ pc[th] = "call"
  /\ \/ /\ item[th] \in alloc
        /\ job.does = "nothing" \/ data[item[th]] \notin job.finds
        /\ pc' = [pc EXCEPT ![th] = "next"]
        /\ UNCHANGED <<vars, at>>
     \/ /\ item[th] \in alloc
        /\ job.does = "push" /\ data[item[th]] \in job.finds /\ job.list # NULL
        /\ pc' = [pc EXCEPT ![th] = "push"]
        /\ at' = [at EXCEPT ![th] = count[job.list]]
        /\ UNCHANGED vars
     \/ /\ \/ item[th] \notin alloc
           \/ job.does = "push" /\ data[item[th]] \in job.finds /\ job.list = NULL
        /\ Stops /\ UNCHANGED <<calls, pc, at>>
  /\ UNCHANGED <<item, cursor, job, lost>>

Push(th) ==
  /\ ~fault /\ pc[th] = "push"
  /\ InsertNode(job.list, at[th], data[item[th]])
  /\ pc' = [pc EXCEPT ![th] = "next"]
  /\ UNCHANGED <<live, freeing, calls, item, at, cursor, job, lost>>

(* The main thread joins the others; an entry of thread_list that was not  *)
(* set is not the identifier of a thread.                                  *)
Join ==
  /\ ~fault /\ pc[Main] = "done"
  /\ \A th \in Thread : pc[th] \in {"idle", "done"}
  /\ \/ /\ ~lost
        /\ pc' = [th \in Thread |-> "idle"]
        /\ UNCHANGED vars
     \/ lost /\ Stops /\ UNCHANGED <<calls, pc>>
  /\ UNCHANGED <<item, at, cursor, job, lost>>

Step(th) == Listing_Foreach_Queue_Next(th) \/ Callback(th) \/ Push(th)

ForeachNext ==
  \/ Idle /\ Next /\ UNCHANGED foreach
  \/ \E l \in List :
       \/ \E T \in {{Main}, Thread} :
            \/ Listing_Foreach(l, T)
            \/ \E finds \in {{}, Data} : Listing_Find(l, T, finds)
       \/ \E m \in List : Listing_Clone(m, l)
  \/ \E th \in Thread : Step(th)
  \/ Join

ForeachSpec == ForeachInit /\ [][ForeachNext]_allVars

(* Threads that can run do; the client need not call.                      *)
FairForeachSpec ==
  ForeachSpec /\ (\A th \in Thread : WF_allVars(Step(th))) /\ WF_allVars(Join)

-----------------------------------------------------------------------------
(* Properties *)

(* Every thread works on the first entry, in every turn, as long as the    *)
(* call lasts (listing_foreach.c:42-45): no other entry is ever given to a *)
(* callback.                                                               *)
OnlyFirstGiven ==
  \A th \in Thread : pc[th] \in {"call", "push"} => item[th] = head[job.over]

(* Going through an empty listing comes to an end, with any number of      *)
(* threads, unless one of them could not be created                        *)
(* (listing_foreach.c:56-62, 82-84).                                       *)
EmptyReturns ==
  \A l \in List :
    (~Idle /\ job.over = l /\ head[l] = NULL /\ ~lost) ~> Idle
=============================================================================
