----------------------------- MODULE Tabulation -----------------------------
(***************************************************************************)
(* tabulation.c over a hash tree and a listing as their headers describe   *)
(* them: a map from keys to data that are not NULL, whose Foreach gives    *)
(* every entry once, in any order; and a sequence.  HashTree_Retrieve,     *)
(* which the file calls and no file defines, is the look-up in that map.   *)
(*                                                                         *)
(* The hash routine and the cleaning routine of an index are the client's. *)
(* A cleaning routine frees what it is given the address of, or leaves it  *)
(* alone.  One turn of a Foreach over the indexes is one step.  A call     *)
(* that dereferences NULL or reads freed data stops the model.  Memory may *)
(* run out where this file allocates; a container never lacks it inside.   *)
(***************************************************************************)
EXTENDS ListingOps

CONSTANTS Id,             \* names of indexes
          Datum,          \* addresses of the client's data
          Value,          \* what the hash routines read of them
          Hasher          \* hash routines: functions of Value

VARIABLES exists,         \* between Table_Init and Table_Free
          index,          \* Table_Index by name: hashgen, whether hashclean frees, data
          value,          \* of the client's data, by address
          alive,          \* the data that are allocated
          todo,           \* the turns of the call under way: index, what to do, datum
          member,         \* history: by index, what was added since its creation and not deleted
          changed,        \* history: data that changed, or were freed and allocated again
          fault

history == <<member, changed>>
vars == <<exists, index, value, alive, todo, history, fault>>

(* HashTree_Assign( t, h, x ) *)
Assigned(t, h, x) == [g \in DOMAIN t \cup {h} |-> IF g = h THEN x ELSE t[g]]

Table_Index_Init(hasher, frees) == [hashgen |-> hasher, frees |-> frees, data |-> <<>>]
Idle == todo = {}
Runs == ~fault /\ Idle

Init ==
  /\ exists = FALSE /\ index = <<>>
  /\ value \in [Datum -> Value] /\ alive = Datum
  /\ todo = {}
  /\ member = [i \in Id |-> {}] /\ changed = {} /\ fault = FALSE

Listed(d) == { i \in DOMAIN index : \E h \in DOMAIN index[i].data : d \in Queued(index[i].data[h]) }

(* The client's data change, and an address that a cleaning routine has    *)
(* freed is allocated again.                                               *)
Client_Change(d, v) ==
  /\ Runs /\ (value[d] # v \/ d \notin alive)
  /\ value' = [value EXCEPT ![d] = v] /\ alive' = alive \cup {d}
  /\ changed' = IF Listed(d) = {} THEN changed ELSE changed \cup {d}
  /\ UNCHANGED <<exists, index, todo, member, fault>>

Table_Init ==
  /\ Runs /\ ~exists
  /\ exists' = TRUE
  /\ UNCHANGED <<index, value, alive, todo, history, fault>>

(* Every index with its listings; the data are not the table's.            *)
Table_Free ==
  /\ Runs /\ exists
  /\ exists' = FALSE /\ index' = <<>>
  /\ member' = [i \in Id |-> {}] /\ changed' = {}
  /\ UNCHANGED <<value, alive, todo, fault>>

(* What the new index takes over: lines 115-119 go through the data of the *)
(* new index itself, for the first index of the table.                     *)
Populated_Slip(new) ==     \* through those of an old one
  IF index = <<>> THEN new
  ELSE [new EXCEPT !.data = index[CHOOSE i \in DOMAIN index : TRUE].data]
Populated(new) == new

(* Without memory for the new index there is none of that name, but the    *)
(* callback of line 117 dereferences it when there is any index.           *)
Table_CreateIndex(i, hasher, frees) ==
  /\ Runs /\ exists
  /\ \/ /\ index' = Assigned(index, i, Populated(Table_Index_Init(hasher, frees)))
        /\ member' = [member EXCEPT ![i] = {}]
        /\ UNCHANGED fault
     \/ /\ fault' = (index # <<>>)
        /\ UNCHANGED <<index, member>>
  /\ UNCHANGED <<exists, value, alive, todo, changed>>

Table_DropIndex(i) ==
  /\ Runs /\ exists
  /\ index' = [j \in DOMAIN index \ {i} |-> index[j]]
  /\ member' = [member EXCEPT ![i] = {}]
  /\ UNCHANGED <<exists, value, alive, todo, changed, fault>>

Turn(i, does, d) == [index |-> i, does |-> does, datum |-> d]

Foreach(does, d) ==
  /\ Runs /\ exists
  /\ todo' = { Turn(i, does, d) : i \in DOMAIN index }
  /\ UNCHANGED <<exists, index, value, alive, changed, fault>>

Table_Add(d) ==
  /\ d \in alive
  /\ Foreach("add", d)
  /\ member' = [i \in Id |-> IF i \in DOMAIN index THEN member[i] \cup {d} ELSE member[i]]

Table_Del(d) ==
  /\ Foreach("del", d)
  /\ member' = [i \in Id |-> member[i] \ {d}]

-----------------------------------------------------------------------------

(* The listing under hash h once d is in it. *)
Appended(t, h, d) ==
  IF h \notin DOMAIN t THEN Assigned(t, h, <<d>>)
  ELSE IF d \in Queued(t[h]) THEN t
  ELSE [t EXCEPT ![h] = Append(@, d)]

(* Line 67 cleans data, and not the hash. *)
Cleaned_Slip(i, d) == alive
Cleaned(i, d) == IF index[i].frees THEN alive \ {d} ELSE alive

(* Without memory for a new listing, line 63 dereferences NULL.            *)
Table_Index_Add(i, d) ==
  /\ ~fault /\ Turn(i, "add", d) \in todo
  /\ LET h == index[i].hashgen[value[d]]
     IN  \/ /\ d \in alive
            /\ index' = [index EXCEPT ![i].data = Appended(@, h, d)]
            /\ alive' = Cleaned(i, d)
            /\ todo' = todo \ {Turn(i, "add", d)}
            /\ UNCHANGED fault
         \/ /\ d \notin alive \/ h \notin DOMAIN index[i].data
            /\ fault' = TRUE
            /\ UNCHANGED <<index, alive, todo>>
  /\ UNCHANGED <<exists, value, history>>

(* Listing_IndexOf, and Listing_Remove of what it finds *)
IndexOf(q, d) == CHOOSE k \in DOMAIN q : q[k] = d /\ \A j \in 1..(k - 1) : q[j] # d
Removed(q, d) ==
  IF d \notin Queued(q) THEN q
  ELSE SubSeq(q, 1, IndexOf(q, d) - 1) \o SubSeq(q, IndexOf(q, d) + 1, Len(q))

(* The tree without d under hash h: a listing that is empty then goes.     *)
Deleted_Slip(t, h, d) ==     \* lines 89-93 are missing
  IF h \notin DOMAIN t THEN t ELSE [t EXCEPT ![h] = Removed(@, d)]
Deleted(t, h, d) ==
  IF h \notin DOMAIN t THEN t
  ELSE IF Removed(t[h], d) = <<>> THEN [g \in DOMAIN t \ {h} |-> t[g]]
  ELSE [t EXCEPT ![h] = Removed(@, d)]

Table_Index_Del(i, d) ==
  /\ ~fault /\ Turn(i, "del", d) \in todo
  /\ \/ /\ d \in alive
        /\ index' = [index EXCEPT ![i].data = Deleted(@, index[i].hashgen[value[d]], d)]
        /\ todo' = todo \ {Turn(i, "del", d)}
        /\ UNCHANGED fault
     \/ /\ d \notin alive
        /\ fault' = TRUE /\ UNCHANGED <<index, todo>>
  /\ UNCHANGED <<exists, value, alive, history>>

(* Line 181 would look whether there is such an index.                     *)
Table_Query(i, d) ==
  /\ Runs /\ exists
  /\ fault' = (i \notin DOMAIN index \/ d \notin alive)
  /\ UNCHANGED <<exists, index, value, alive, todo, history>>

Next ==
  \/ Table_Init \/ Table_Free
  \/ \E d \in Datum :
       \/ Table_Add(d) \/ Table_Del(d)
       \/ \E v \in Value : Client_Change(d, v)
       \/ \E i \in Id : Table_Query(i, d) \/ Table_Index_Add(i, d) \/ Table_Index_Del(i, d)
  \/ \E i \in Id :
       \/ Table_DropIndex(i)
       \/ \E hasher \in Hasher, frees \in BOOLEAN : Table_CreateIndex(i, hasher, frees)

Spec == Init /\ [][Next]_vars

-----------------------------------------------------------------------------
(* Properties *)

(* Every variable keeps its type, and no listing of an index is empty      *)
(* (tabulation.c:89-93): a query that finds nothing answers NULL.          *)
TypeOK ==
  /\ exists \in BOOLEAN /\ fault \in BOOLEAN
  /\ value \in [Datum -> Value] /\ alive \subseteq Datum
  /\ DOMAIN index \subseteq Id /\ \A t \in todo : t.index \in DOMAIN index
  /\ member \in [Id -> SUBSET Datum] /\ changed \subseteq Datum
  /\ \A i \in DOMAIN index : \A h \in DOMAIN index[i].data :
       /\ index[i].hashgen \in Hasher /\ index[i].frees \in BOOLEAN
       /\ index[i].data[h] \in Seq(Datum) \ {<<>>}

(* Between calls, an index lists a datum under its hash, once and nowhere  *)
(* else, exactly if the datum was added since the index was created and    *)
(* not deleted since; unless it was changed while an index listed it, when *)
(* Del looks for it in the wrong listing.  So a new index knows nothing of *)
(* what the table holds already: line 127 says it is populated "with our   *)
(* existing data" (tabulation.c:46-99, 101-142).                           *)
IndexExact ==
  Runs => \A i \in DOMAIN index, d \in Datum \ changed :
    LET t == index[i].data
        home == index[i].hashgen[value[d]]
    IN  /\ d \in member[i] <=> home \in DOMAIN t /\ d \in Queued(t[home])
        /\ \A h \in DOMAIN t : d \in Queued(t[h]) => h = home
        /\ \A h \in DOMAIN t : \A j, k \in DOMAIN t[h] : {t[h][j], t[h][k]} = {d} => j = k

(* An index whose cleaning routine frees has freed all that it lists: a    *)
(* query answers with freed data (tabulation.c:66-67).                     *)
ListedFreed ==
  Runs => \A d \in Datum \ changed : \A i \in Listed(d) : index[i].frees => d \notin alive
=============================================================================
