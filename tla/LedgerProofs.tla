---------------------------- MODULE LedgerProofs ----------------------------
(***************************************************************************)
(* Theorems about Ledger for every number of processes, rows and client    *)
(* order projection. What the safety properties rest on is that the        *)
(* process in a transaction is the only writer, so that what its INSERT    *)
(* found still holds when it commits.                                      *)
(***************************************************************************)
EXTENDS Ledger, TLAPS

Unique == \A r, s \in rows : Keys(r) \cap Keys(s) # {} => r = s

References == \A r \in rows : ~Orphan(r)

\* The write lock is held exactly during a transaction.
Locking ==
  \A p \in Procs : writer = p <=> pc[p] \in {"migrated", "inserted", "resolve"}

\* Where a process is says which call it is in.
Calling ==
  \A p \in Procs :
    /\ pc[p] \in {"init", "examine", "migrate", "migrated"} => call[p] = Initialize
    /\ pc[p] \in {"open", "insert", "inserted", "resolve", "return"} => call[p] \in Row

\* And that it found the schema that the call needs.
Schema ==
  \A p \in Procs :
    /\ pc[p] \in {"examine", "migrate", "migrated"} =>
         /\ seen[p] \in {0, 2, 3}
         /\ version \in {seen[p], 3}
    /\ pc[p] \in {"migrate", "migrated"} => objects # "foreign"
    /\ pc[p] \in {"insert", "inserted", "resolve"} => objects = "v3"

\* A row about to be committed is admissible, one about to be returned is there.
Pending ==
  \A p \in Procs :
    /\ pc[p] = "inserted" => ~Ignored(call[p]) /\ ~Orphan(call[p])
    /\ pc[p] = "resolve" => Ignored(call[p])
    /\ pc[p] = "return" => call[p] \in rows

\* A row that lost its keys to another stays out for good.
Refused ==
  \A p \in Procs :
    ret[p] = "conflict" => call[p] \in Row /\ call[p] \notin rows /\ Ignored(call[p])

IInv ==
  /\ TypeOK
  /\ Calling
  /\ Unique
  /\ References
  /\ Locking
  /\ Schema
  /\ Pending
  /\ Refused
  /\ AckedIsRecorded
  /\ FailedInitializeIsBenign

-----------------------------------------------------------------------------
(* Type correctness                                                        *)

\* The tags of the two kinds of calls differ: a row is never an initialize call.
LEMMA RowIsNotInitialize == Initialize \notin Row
  BY DEF Initialize, Row, DecisionRow, IntentRow, SnapshotRow

\* Every variable keeps its type: only a row is ever inserted or acknowledged.
LEMMA NextType == TypeOK /\ Calling /\ [Next]_vars => TypeOK' /\ Calling'
<1> SUFFICES ASSUME TypeOK, Calling, [Next]_vars PROVE TypeOK' /\ Calling'
  OBVIOUS
<1> USE DEF TypeOK, Calling
<1>1. CASE UNCHANGED vars
  BY <1>1 DEF vars, Found
<1>2. ASSUME NEW p \in Procs, NEW c \in Calls, Start(p, c) PROVE TypeOK' /\ Calling'
  BY <1>2, RowIsNotInitialize DEF Start, Goto, db, Calls
<1>3. ASSUME NEW p \in Procs, Crash(p) PROVE TypeOK' /\ Calling'
  BY <1>3 DEF Crash, db
<1>4. ASSUME NEW p \in Procs, Step(p) PROVE TypeOK' /\ Calling'
  <2>1. CASE ReadVersion(p)
    BY <2>1 DEF ReadVersion, Goto, Leave, db, Found
  <2>2. CASE Examine(p)
    BY <2>2 DEF Examine, Goto, Leave, db
  <2>3. CASE BeginMigration(p)
    BY <2>3 DEF BeginMigration, Goto, db
  <2>4. CASE CommitMigration(p)
    BY <2>4 DEF CommitMigration, Goto, Leave, Found
  <2>5. CASE RequireInitialized(p)
    BY <2>5 DEF RequireInitialized, Goto, Leave, db
  <2>6. CASE Insert(p)
    BY <2>6 DEF Insert, Goto, Leave, db
  <2>7. CASE Commit(p)
    BY <2>7 DEF Commit, Goto
  <2>8. CASE Resolve(p)
    BY <2>8 DEF Resolve, Goto, Leave, db
  <2>9. CASE Return(p)
    BY <2>9 DEF Return, Goto, Leave, db
  <2>10. CASE LockTimeout(p)
    BY <2>10 DEF LockTimeout, Goto, Leave, db
  <2> QED
    BY <1>4, <2>1, <2>2, <2>3, <2>4, <2>5, <2>6, <2>7, <2>8, <2>9, <2>10 DEF Step
<1> QED
  BY <1>1, <1>2, <1>3, <1>4 DEF Next

\* The initial states are well typed.
LEMMA InitType == Init => TypeOK /\ Calling
  BY DEF Init, TypeOK, Calling, Found, Row, Calls

\* Type correctness of the ledger.
THEOREM TypeCorrect == Spec => []TypeOK
<1>1. Spec => [](TypeOK /\ Calling)
  BY InitType, NextType, PTL DEF Spec
<1> QED
  BY <1>1, PTL

-----------------------------------------------------------------------------
(* The inductive invariant                                                 *)

\* Committing an admissible row keeps keys unique and references resolved.
LEMMA NewRow ==
  ASSUME Unique, References, NEW r, ~Ignored(r), ~Orphan(r), rows' = rows \cup {r}
  PROVE  Unique' /\ References'
<1>1. Unique'
  BY DEF Unique, Ignored
<1>2. \A s \in rows' : \A k \in Needs(s) : \E t \in rows' : k \in Keys(t)
  BY DEF References, Orphan
<1> QED
  BY <1>1, <1>2 DEF References, Orphan

\* Everything in the invariant but the lock and the schema speaks only of rows,
\* pc, call, ret and acked: a step of p that leaves rows alone preserves it if it
\* leaves it true at p.
LEMMA SameRows ==
  ASSUME IInv, TypeOK', rows' = rows, NEW p \in Procs,
         \A q \in Procs \ {p} : pc'[q] = pc[q] /\ call'[q] = call[q] /\ ret'[q] = ret[q],
         pc'[p] = "inserted" => ~Ignored(call'[p]) /\ ~Orphan(call'[p]),
         pc'[p] = "resolve" => Ignored(call'[p]),
         pc'[p] = "return" => call'[p] \in rows,
         ret'[p] = "conflict" =>
           call'[p] \in Row /\ call'[p] \notin rows /\ Ignored(call'[p]),
         acked' \subseteq rows
  PROVE  Unique' /\ References' /\ Pending' /\ Refused' /\ AckedIsRecorded'
<1>1. Unique' /\ References' /\ AckedIsRecorded'
  BY DEF IInv, Unique, References, Orphan, AckedIsRecorded
<1>2. Pending'
  BY DEF IInv, Pending, Ignored, Orphan
<1>3. Refused'
  BY DEF IInv, Refused, Ignored
<1> QED
  BY <1>1, <1>2, <1>3

\* A step preserves what is said of the lock and of the schema.
LEMMA NextLock == IInv /\ [Next]_vars => Locking' /\ Schema' /\ FailedInitializeIsBenign'
<1> SUFFICES ASSUME IInv, [Next]_vars
             PROVE  Locking' /\ Schema' /\ FailedInitializeIsBenign'
  OBVIOUS
<1> USE NoProcAssumption, RowIsNotInitialize
    DEF IInv, TypeOK, Calling, Locking, Schema, FailedInitializeIsBenign
<1>1. CASE UNCHANGED vars
  BY <1>1 DEF vars
<1>2. ASSUME NEW p \in Procs, NEW c \in Calls, Start(p, c)
      PROVE  Locking' /\ Schema' /\ FailedInitializeIsBenign'
  BY <1>2 DEF Start, Goto, db
<1>3. ASSUME NEW p \in Procs, Crash(p)
      PROVE  Locking' /\ Schema' /\ FailedInitializeIsBenign'
  BY <1>3 DEF Crash, db
<1>4. ASSUME NEW p \in Procs, Step(p)
      PROVE  Locking' /\ Schema' /\ FailedInitializeIsBenign'
  <2>1. CASE ReadVersion(p)
    BY <2>1 DEF ReadVersion, Goto, Leave, db, Found
  <2>2. CASE Examine(p)
    BY <2>2 DEF Examine, Expected, Goto, Leave, db, Found
  <2>3. CASE BeginMigration(p)
    BY <2>3 DEF BeginMigration, Goto, db
  <2>4. CASE CommitMigration(p)
    BY <2>4 DEF CommitMigration, Goto, Leave
  <2>5. CASE RequireInitialized(p)
    BY <2>5 DEF RequireInitialized, Goto, Leave, db
  <2>6. CASE Insert(p)
    BY <2>6 DEF Insert, Goto, Leave, db
  <2>7. CASE Commit(p)
    BY <2>7 DEF Commit, Goto
  <2>8. CASE Resolve(p)
    BY <2>8 DEF Resolve, Goto, Leave, db
  <2>9. CASE Return(p)
    BY <2>9 DEF Return, Goto, Leave, db
  <2>10. CASE LockTimeout(p)
    BY <2>10 DEF LockTimeout, Goto, Leave, db
  <2> QED
    BY <1>4, <2>1, <2>2, <2>3, <2>4, <2>5, <2>6, <2>7, <2>8, <2>9, <2>10 DEF Step
<1> QED
  BY <1>1, <1>2, <1>3, <1>4 DEF Next

\* A step preserves what is said of the rows and of the calls that concern them.
LEMMA NextRows ==
  IInv /\ [Next]_vars =>
    Unique' /\ References' /\ Pending' /\ Refused' /\ AckedIsRecorded'
<1> DEFINE Goal == Unique' /\ References' /\ Pending' /\ Refused' /\ AckedIsRecorded'
<1> SUFFICES ASSUME IInv, [Next]_vars PROVE Goal
  OBVIOUS
<1>0. TypeOK' /\ TypeOK /\ Calling
  BY NextType DEF IInv
<1>1. CASE UNCHANGED vars
  BY <1>1 DEF vars, IInv, Unique, References, Orphan, Pending, Refused, Ignored,
              AckedIsRecorded
<1>2. ASSUME NEW p \in Procs, NEW c \in Calls, Start(p, c) PROVE Goal
  <2>1. /\ rows' = rows /\ acked' = acked
        /\ \A q \in Procs \ {p} : pc'[q] = pc[q] /\ call'[q] = call[q] /\ ret'[q] = ret[q]
        /\ pc'[p] \in {"init", "open"} /\ ret'[p] = "none"
    BY <1>0, <1>2 DEF Start, Goto, db, TypeOK
  <2> QED
    BY <1>0, <2>1, SameRows DEF IInv, AckedIsRecorded
<1>3. ASSUME NEW p \in Procs, Crash(p) PROVE Goal
  <2>1. /\ rows' = rows /\ acked' = acked
        /\ \A q \in Procs \ {p} : pc'[q] = pc[q] /\ call'[q] = call[q] /\ ret'[q] = ret[q]
        /\ pc'[p] = "idle" /\ ret'[p] = "none"
    BY <1>0, <1>3 DEF Crash, db, TypeOK
  <2> QED
    BY <1>0, <2>1, SameRows DEF IInv, AckedIsRecorded
<1>4. ASSUME NEW p \in Procs, Step(p) PROVE Goal
  <2>1. CASE ReadVersion(p) \/ Examine(p) \/ BeginMigration(p) \/ CommitMigration(p)
    <3>1. /\ rows' = rows /\ acked' = acked /\ call' = call
          /\ \A q \in Procs \ {p} : pc'[q] = pc[q] /\ ret'[q] = ret[q]
          /\ pc'[p] \in {"idle", "examine", "migrate", "migrated"}
          /\ ret'[p] \in {ret[p], "ok", "error"}
      BY <1>0, <2>1 DEF ReadVersion, Examine, BeginMigration, CommitMigration, Goto,
                        Leave, db, TypeOK
    <3> QED
      BY <1>0, <3>1, SameRows DEF IInv, AckedIsRecorded, Refused
  <2>2. CASE RequireInitialized(p) \/ LockTimeout(p)
    <3>1. /\ rows' = rows /\ acked' = acked /\ call' = call
          /\ \A q \in Procs \ {p} : pc'[q] = pc[q] /\ ret'[q] = ret[q]
          /\ pc'[p] \in {"idle", "insert"}
          /\ ret'[p] \in {ret[p], "busy", "error"}
      BY <1>0, <2>2 DEF RequireInitialized, LockTimeout, Goto, Leave, db, TypeOK
    <3> QED
      BY <1>0, <3>1, SameRows DEF IInv, AckedIsRecorded, Refused
  <2>3. CASE Insert(p)
    <3>1. /\ rows' = rows /\ acked' = acked /\ call' = call
          /\ \A q \in Procs \ {p} : pc'[q] = pc[q] /\ ret'[q] = ret[q]
          /\ pc'[p] \in {"resolve", "inserted", "idle"}
          /\ pc'[p] = "resolve" => Ignored(call[p])
          /\ pc'[p] = "inserted" => ~Ignored(call[p]) /\ ~Orphan(call[p])
          /\ ret'[p] \in {ret[p], "error"}
      BY <1>0, <2>3 DEF Insert, Goto, Leave, db, TypeOK
    <3> QED
      BY <1>0, <3>1, SameRows DEF IInv, AckedIsRecorded, Refused
  <2>4. CASE Resolve(p)
    <3> DEFINE existing == {s \in rows : BusinessKey(s) = BusinessKey(call[p])}
    <3>1. /\ rows' = rows /\ acked' = acked /\ call' = call
          /\ \A q \in Procs \ {p} : pc'[q] = pc[q] /\ ret'[q] = ret[q]
          /\ pc[p] = "resolve"
          /\ \/ existing = {call[p]} /\ pc'[p] = "return" /\ ret'[p] = ret[p]
             \/ existing # {call[p]} /\ pc'[p] = "idle" /\ ret'[p] = "conflict"
      BY <1>0, <2>4 DEF Resolve, Goto, Leave, db, TypeOK
    <3>2. call[p] \in Row /\ Ignored(call[p])
      BY <3>1, <1>0 DEF IInv, Calling, Pending
    <3>3. existing = {call[p]} => call[p] \in rows
      OBVIOUS
    <3>4. ASSUME call[p] \in rows PROVE existing = {call[p]}
      <4>1. \A s \in existing : s = call[p]
        BY <3>4 DEF IInv, Unique, Keys
      <4> QED
        BY <3>4, <4>1
    <3> QED
      BY <1>0, <3>1, <3>2, <3>3, <3>4, SameRows DEF IInv, AckedIsRecorded, Refused
  <2>5. CASE Return(p)
    <3>1. /\ rows' = rows /\ acked' = acked \cup {call[p]} /\ call' = call
          /\ \A q \in Procs \ {p} : pc'[q] = pc[q] /\ ret'[q] = ret[q]
          /\ pc[p] = "return" /\ pc'[p] = "idle" /\ ret'[p] = "ok"
      BY <1>0, <2>5 DEF Return, Goto, Leave, db, TypeOK
    <3>2. call[p] \in rows
      BY <3>1 DEF IInv, Pending
    <3> QED
      BY <1>0, <3>1, <3>2, SameRows DEF IInv, AckedIsRecorded, Refused
  <2>6. CASE Commit(p)
    <3>1. /\ rows' = rows \cup {call[p]} /\ acked' = acked /\ call' = call /\ ret' = ret
          /\ \A q \in Procs \ {p} : pc'[q] = pc[q]
          /\ pc[p] = "inserted" /\ pc'[p] = "return"
      BY <1>0, <2>6 DEF Commit, Goto, TypeOK
    <3>2. ~Ignored(call[p]) /\ ~Orphan(call[p])
      BY <3>1 DEF IInv, Pending
    <3>3. Unique' /\ References'
      BY <3>1, <3>2, NewRow DEF IInv
    <3>4. \A q \in Procs \ {p} : pc[q] # "inserted"
      BY <3>1 DEF IInv, Locking, TypeOK
    <3>5. Pending'
      <4>1. \A q \in Procs : Ignored(call[q]) => Ignored(call[q])'
        BY <3>1 DEF Ignored
      <4> QED
        BY <3>1, <3>4, <4>1 DEF IInv, Pending
    <3>6. Refused'
      <4> SUFFICES ASSUME NEW q \in Procs, ret[q] = "conflict"
                   PROVE  call[q] \in Row /\ call[q] \notin rows' /\ Ignored(call[q])'
        BY <3>1 DEF Refused
      <4>1. call[q] \in Row /\ call[q] \notin rows /\ Ignored(call[q])
        BY DEF IInv, Refused
      <4>2. call[q] # call[p]
        BY <4>1, <3>2
      <4> QED
        BY <4>1, <4>2, <3>1 DEF Ignored
    <3> QED
      BY <3>1, <3>3, <3>5, <3>6 DEF IInv, AckedIsRecorded
  <2> QED
    BY <1>4, <2>1, <2>2, <2>3, <2>4, <2>5, <2>6 DEF Step
<1> QED
  BY <1>1, <1>2, <1>3, <1>4 DEF Next

\* The initial states satisfy the invariant.
LEMMA InitInv == Init => IInv
<1> SUFFICES ASSUME Init PROVE IInv
  OBVIOUS
<1>1. TypeOK /\ Calling
  BY InitType
<1>2. Unique
  BY DEF Init, Unique
<1>3. References
  <2>1. \A r \in rows : r \in DecisionRow
    BY DEF Init
  <2> QED
    BY <2>1 DEF References, Orphan, Needs, DecisionRow
<1> QED
  BY <1>1, <1>2, <1>3, NoProcAssumption
  DEF IInv, Init, Locking, Schema, Pending, Refused, AckedIsRecorded, FailedInitializeIsBenign

\* The invariant holds throughout.
THEOREM InvariantHolds == Spec => []IInv
<1>1. IInv /\ [Next]_vars => IInv'
  BY NextType, NextLock, NextRows DEF IInv
<1> QED
  BY <1>1, InitInv, PTL DEF Spec

-----------------------------------------------------------------------------
(* What the invariant gives                                                *)

\* Unique keys and resolved references leave one intent for a day: the decisions
\* that two intents of one day refer to are one row, so the intents share their
\* own unique key.
LEMMA IntentsOfOneDay ==
  ASSUME IInv,
         NEW r \in RowsOf("intent"), NEW s \in RowsOf("intent"),
         r.decision[1] = s.decision[1]
  PROVE  r = s
<1>1. r \in IntentRow /\ s \in IntentRow /\ r \in rows /\ s \in rows
  BY DEF IInv, TypeOK, RowsOf, Row, DecisionRow, IntentRow, SnapshotRow
<1>2. PICK d \in rows : <<"decision", r.decision>> \in Keys(d)
  BY <1>1 DEF IInv, References, Orphan, Needs, IntentRow
<1>3. PICK e \in rows : <<"decision", s.decision>> \in Keys(e)
  BY <1>1 DEF IInv, References, Orphan, Needs, IntentRow
<1>4. ASSUME NEW x \in rows, NEW id, <<"decision", id>> \in Keys(x)
      PROVE  x.kind = "decision" /\ id = <<x.scope, x.inputs>>
  <2>1. x \in DecisionRow \cup IntentRow \cup SnapshotRow
    BY DEF IInv, TypeOK, Row
  <2>2. x.kind \in {"decision", "intent", "snapshot"}
    BY <2>1 DEF DecisionRow, IntentRow, SnapshotRow
  <2> QED
    BY <2>2, <1>4 DEF Keys, Id, BusinessKey
<1>5. d.kind = "decision" /\ e.kind = "decision" /\ d.scope = e.scope
  BY <1>1, <1>2, <1>3, <1>4 DEF IntentRow
<1>6. d = e
  BY <1>5 DEF IInv, Unique, Keys, BusinessKey
<1>7. r.decision = s.decision
  BY <1>2, <1>3, <1>4, <1>6
<1> QED
  BY <1>1, <1>7 DEF IInv, Unique, Keys, BusinessKey, IntentRow

\* One account, strategy and day has at most one decision and one order intent.
THEOREM OneIntent == Spec => []OneIntentPerDay
<1>1. ASSUME IInv PROVE OneIntentPerDay
  <2>1. ASSUME NEW r \in RowsOf("decision"), NEW s \in RowsOf("decision"), r.scope = s.scope
        PROVE  r = s
    <3>1. r \in rows /\ s \in rows /\ BusinessKey(r) = BusinessKey(s)
      BY <2>1 DEF RowsOf, BusinessKey
    <3> QED
      BY <1>1, <3>1 DEF IInv, Unique, Keys
  <2> QED
    BY <1>1, <2>1, IntentsOfOneDay DEF OneIntentPerDay
<1> QED
  BY <1>1, InvariantHolds, PTL

\* A client order id names at most one recorded intent.
THEOREM ClientOrders == Spec => []ClientOrderNamesOneIntent
<1>1. IInv => ClientOrderNamesOneIntent
  BY DEF IInv, Unique, ClientOrderNamesOneIntent, RowsOf, Keys
<1> QED
  BY <1>1, InvariantHolds, PTL

\* An identifier that was returned names the caller's own row, durably.
THEOREM AcknowledgedRows == Spec => []AckedIsRecorded
<1>1. IInv => AckedIsRecorded
  BY DEF IInv
<1> QED
  BY <1>1, InvariantHolds, PTL

\* A conflict is reported only for a row that never enters the ledger.
THEOREM Conflicts == Spec => []ConflictMeansDifferent
<1>1. IInv => ConflictMeansDifferent
  BY DEF IInv, Refused, ConflictMeansDifferent
<1> QED
  BY <1>1, InvariantHolds, PTL

\* A migration that fails closed has been overtaken by one that succeeded.
THEOREM BenignFailure == Spec => []FailedInitializeIsBenign
<1>1. IInv => FailedInitializeIsBenign
  BY DEF IInv
<1> QED
  BY <1>1, InvariantHolds, PTL

\* No step changes or removes a row, or writes to a foreign database.
THEOREM OnlyAppends == Spec => AppendOnly
<1>1. IInv /\ [Next]_vars =>
        [rows \subseteq rows' /\ (objects = "foreign" => UNCHANGED db)]_vars
  <2> SUFFICES ASSUME IInv, Next
               PROVE  rows \subseteq rows' /\ (objects = "foreign" => UNCHANGED db)
    OBVIOUS
  <2>1. ASSUME NEW p \in Procs, NEW c \in Calls, Start(p, c) PROVE UNCHANGED db
    BY <2>1 DEF Start
  <2>2. ASSUME NEW p \in Procs, Crash(p) PROVE UNCHANGED db
    BY <2>2 DEF Crash
  <2>3. ASSUME NEW p \in Procs, Step(p)
        PROVE  rows \subseteq rows' /\ (objects = "foreign" => UNCHANGED db)
    BY <2>3 DEF Step, ReadVersion, Examine, BeginMigration, CommitMigration,
                RequireInitialized, Insert, Commit, Resolve, Return, LockTimeout, Goto,
                Leave, db, IInv, Schema
  <2> QED
    BY <2>1, <2>2, <2>3 DEF Next, db
<1> QED
  BY <1>1, InvariantHolds, PTL DEF Spec, AppendOnly

-----------------------------------------------------------------------------
(* The ledger implements the book of facts                                 *)

\* A commit records one admissible fact, a return acknowledges one, and every
\* other step leaves the book as it is.
LEMMA StepOfBook == IInv /\ [Next]_vars => [Book!Next]_(Book!vars)
<1> SUFFICES ASSUME IInv, [Next]_vars PROVE [Book!Next]_(Book!vars)
  OBVIOUS
<1>1. CASE UNCHANGED vars
  BY <1>1 DEF vars, Book!vars
<1>2. ASSUME NEW p \in Procs, NEW c \in Calls, Start(p, c) PROVE UNCHANGED Book!vars
  BY <1>2 DEF Start, db, Book!vars
<1>3. ASSUME NEW p \in Procs, Crash(p) PROVE UNCHANGED Book!vars
  BY <1>3 DEF Crash, db, Book!vars
<1>4. ASSUME NEW p \in Procs, Commit(p) PROVE \E f \in Row : Book!Record(f)
  <2>1. pc[p] = "inserted" /\ rows' = rows \cup {call[p]} /\ acked' = acked
    BY <1>4 DEF Commit, Goto
  <2>2. call[p] \in Row /\ ~Ignored(call[p]) /\ ~Orphan(call[p])
    BY <2>1 DEF IInv, Calling, Pending
  <2>3. Book!Admissible(call[p], rows)
    BY <2>2 DEF Book!Admissible, Ignored, Orphan
  <2> QED
    BY <2>1, <2>2, <2>3 DEF Book!Record
<1>5. ASSUME NEW p \in Procs, Return(p) PROVE \E f \in Row : Book!Acknowledge(f)
  <2>1. pc[p] = "return" /\ rows' = rows /\ acked' = acked \cup {call[p]}
    BY <1>5 DEF Return, Leave, Goto, db
  <2>2. call[p] \in Row /\ call[p] \in rows
    BY <2>1 DEF IInv, Calling, Pending
  <2> QED
    BY <2>1, <2>2 DEF Book!Acknowledge
<1>6. ASSUME NEW p \in Procs, Step(p), ~Commit(p), ~Return(p) PROVE UNCHANGED Book!vars
  BY <1>6 DEF Step, ReadVersion, Examine, BeginMigration, CommitMigration,
              RequireInitialized, Insert, Resolve, LockTimeout, db, Book!vars
<1> QED
  BY <1>1, <1>2, <1>3, <1>4, <1>5, <1>6 DEF Next, Book!Next

\* For every caller the ledger is the book of facts of AppendOnlyBook.
THEOREM ImplementsBook == Spec => BookSpec
<1>1. Init => Book!Init
  <2> SUFFICES ASSUME Init PROVE Book!Init
    OBVIOUS
  <2>1. rows \in SUBSET Row /\ Unique /\ acked = {}
    BY InitInv DEF IInv, TypeOK, Init
  <2> QED
    BY <2>1 DEF Book!Init, Unique
<1> QED
  BY <1>1, StepOfBook, InvariantHolds, PTL DEF Spec, BookSpec, Book!Spec

=============================================================================
