----------------------------- MODULE ListingOps -----------------------------
(***************************************************************************)
(* What listing.h promises of a Listing, for the modules that use one: it  *)
(* is a finite sequence of entries.  Loops that remove every entry with    *)
(* some property, and callbacks that run on several threads, are given as  *)
(* the set of listings they can leave.                                     *)
(***************************************************************************)
EXTENDS Naturals, Sequences, FiniteSets

(* Listing_IndexOf(q, x) != -1 *)
Queued(q) == { q[i] : i \in DOMAIN q }

(* The ways of going once through the set K of positions of a listing, and *)
(* the entries in the order in which f goes through their positions.       *)
Orders(K) ==
  { f \in [1..Cardinality(K) -> K] : \A i, j \in DOMAIN f : i # j => f[i] # f[j] }
Pick(q, f) == [i \in DOMAIN f |-> q[f[i]]]

(* q once every entry that is in D has been removed, the others in order:  *)
(*   do { i = Listing_IndexOf(q, x); if found Listing_Remove(q, i); }      *)
(*   while found;      for each x in D.                                    *)
Without(q, D) ==
  { Pick(q, f) : f \in { g \in Orders({ i \in DOMAIN q : q[i] \notin D }) :
                           \A i, j \in DOMAIN g : i < j => g[i] < g[j] } }
=============================================================================
