------------------------------ MODULE MCLedger ------------------------------
(***************************************************************************)
(* Ledger on small instances. Client order ids either tell all intents     *)
(* apart, so that only the daily keys keep a second one out, or collide:   *)
(* intents with equal terms share theirs, whatever decision they are of.   *)
(***************************************************************************)
EXTENDS Ledger, TLC

MCDistinctKey(id)  == id
MCCollidingKey(id) == id[2]

Symmetry ==
  Permutations(Procs) \cup Permutations(Scopes) \cup Permutations(Inputs)
    \cup Permutations(Bodies) \cup Permutations(Reports)
=============================================================================
