------------------------------ MODULE MCListing ------------------------------
(***************************************************************************)
(* The caches malloc leaves in new headers: zeros, memory that is not      *)
(* mapped, and readable words, in all entries or in the first ones.        *)
(***************************************************************************)
EXTENDS ListingForeach, TLC

CONSTANTS la, lb

Found(index) ==
  [ids   |-> [j \in Slot |-> IF j = 0 THEN 1 ELSE 0],
   index |-> [j \in Slot |-> IF j + 1 \in DOMAIN index THEN index[j + 1] ELSE NoIndex],
   nodes |-> [j \in Slot |-> Wild]]
Word(where, v) == [to |-> where, n |-> v]

MCGarbage == lb :> {Found(<<Word("behind", 1)>>)} @@ la :>
  {Found(<<>>), Found(<<Word("before", 0), Word("behind", 9)>>),
   Found(<<Word("behind", 1), Word("behind", 1), Word("unmapped", 0)>>),
   Found([j \in 1..CacheSize |-> Word("behind", 1)])}
MCMaxCalls == la :> 3 @@ lb :> 0
MCContents == {[n \in Node |-> 2 - (n % 2)]}
=============================================================================
