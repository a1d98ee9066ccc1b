--------------------------- MODULE AppendOnlyBook ---------------------------
(***************************************************************************)
(* What the ledger promises its callers, whatever processes share the      *)
(* file, wait for it, or die holding it: a book of facts that only grows,  *)
(* in which no two facts claim one key and no fact precedes the fact it    *)
(* refers to, and an identifier that is handed out names a recorded fact.  *)
(***************************************************************************)
CONSTANTS
  Fact,       \* what may be written
  Keys(_),    \* the unique keys a fact claims
  Needs(_)    \* the keys of earlier facts that it refers to

VARIABLES
  book,       \* the facts that are durable
  acked       \* the facts whose identifier some caller has received

vars == <<book, acked>>

\* No fact of b claims a key of f, and every fact that f refers to is in b.
Admissible(f, b) ==
  /\ \A g \in b : Keys(f) \cap Keys(g) = {}
  /\ \A k \in Needs(f) : \E g \in b : k \in Keys(g)

Init ==
  /\ book \in SUBSET Fact
  /\ \A f, g \in book : Keys(f) \cap Keys(g) # {} => f = g
  /\ acked = {}

Record(f) ==
  /\ Admissible(f, book)
  /\ book' = book \cup {f}
  /\ UNCHANGED acked

Acknowledge(f) ==
  /\ f \in book
  /\ acked' = acked \cup {f}
  /\ UNCHANGED book

Next == \E f \in Fact : Record(f) \/ Acknowledge(f)

Spec == Init /\ [][Next]_vars

=============================================================================
