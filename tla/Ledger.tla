------------------------------- MODULE Ledger -------------------------------
(***************************************************************************)
(* ledger.py: the SQLite ledger of daily decisions, order intents and      *)
(* reconciliation snapshots, opened by several operating-system processes  *)
(* (the timer's job, an operator's command) that may wait for each other,  *)
(* give up, or be killed between any two statements.                       *)
(*                                                                         *)
(* SQLite is modelled by what the code relies on: statements outside a     *)
(* transaction see the last commit, one process holds the write lock, and  *)
(* what it wrote is committed as a whole or, if it dies, not at all.       *)
(*                                                                         *)
(* A row is modelled by its identity columns and its other immutable       *)
(* columns; recorded_at_utc takes no part in any decision of the code.     *)
(* SHA-256 is injective; its 16-digit prefix in client_order_id is not.    *)
(***************************************************************************)
EXTENDS FiniteSets

CONSTANTS
  Procs,        \* processes that open the ledger
  Scopes,       \* account_id, strategy_id, strategy_date
  Inputs,       \* configuration_hash, input_data_hash, pair, run_mode
  Bodies,       \* outcome, code_version, details of a decision; details of an intent
  Terms,        \* side, type, quantity, limit price, time in force, post_only
  Observations, \* account_id, observed_at
  Reports,      \* every other column of a reconciliation snapshot
  ClientKey(_), \* the projection of an intent_id onto client_order_id
  NoProc        \* nobody holds the write lock

ASSUME NoProcAssumption == NoProc \notin Procs

VARIABLES
  version,      \* PRAGMA user_version, committed
  objects,      \* the committed schema objects: "none", "v2", "v3" or "foreign"
  rows,         \* the committed rows of the three tables
  writer,       \* the process in a write transaction
  pc,           \* where each process is
  call,         \* the call each process last made
  seen,         \* the user_version that initialize read
  ret,          \* how that call ended
  acked         \* every row whose identifier a call has returned

db      == <<version, objects, rows>>
vars    == <<version, objects, rows, writer, pc, call, seen, ret, acked>>

-----------------------------------------------------------------------------
(* Rows and their keys                                                     *)

DecisionRow == [kind : {"decision"}, scope : Scopes, inputs : Inputs, body : Bodies]
IntentRow   == [kind : {"intent"}, decision : Scopes \X Inputs, terms : Terms, body : Bodies]
SnapshotRow == [kind : {"snapshot"}, observation : Observations, report : Reports]
Row         == DecisionRow \cup IntentRow \cup SnapshotRow

\* decision_id, intent_id and snapshot_id hash the identity columns: a
\* decision's body and an intent's body are not among them.
Id(r) ==
  CASE r.kind = "decision" -> <<r.scope, r.inputs>>
    [] r.kind = "intent"   -> <<r.decision, r.terms>>
    [] r.kind = "snapshot" -> <<r.observation, r.report>>

\* The columns by which a call that was ignored looks up the row it lost to.
BusinessKey(r) ==
  CASE r.kind = "decision" -> <<"scope", r.scope>>
    [] r.kind = "intent"   -> <<"intent of", r.decision>>
    [] r.kind = "snapshot" -> <<"observation", r.observation>>

\* PRIMARY KEY and UNIQUE columns, the ones INSERT OR IGNORE looks at.
Keys_NoClientOrder(r) == {<<r.kind, Id(r)>>, BusinessKey(r)}

Keys(r) ==
  {<<r.kind, Id(r)>>, BusinessKey(r)}
    \cup (IF r.kind = "intent" THEN {<<"client order", ClientKey(Id(r))>>} ELSE {})

\* decision_id REFERENCES daily_decisions(decision_id).
Needs(r) == IF r.kind = "intent" THEN {<<"decision", r.decision>>} ELSE {}

Ignored(r) == \E s \in rows : Keys(r) \cap Keys(s) # {}
Orphan(r)  == \E k \in Needs(r) : \A s \in rows : k \notin Keys(s)

-----------------------------------------------------------------------------
(* Calls                                                                   *)

Initialize == [kind |-> "initialize"]
Calls      == Row \cup {Initialize}

\* What may be found at the path: nothing, the schema of an earlier or of this
\* release, or a database of some other origin or release.
Found ==
  {<<0, "none">>, <<2, "v2">>, <<3, "v3">>}
    \cup ({0, 1, 2, 3} \X {"foreign"})

Init ==
  /\ \E f \in Found : version = f[1] /\ objects = f[2]
  /\ \E D \in SUBSET DecisionRow :
       /\ \A r, s \in D : Keys(r) \cap Keys(s) # {} => r = s
       /\ rows = IF objects \in {"v2", "v3"} THEN D ELSE {}
  /\ writer = NoProc
  /\ pc    = [p \in Procs |-> "idle"]
  /\ call  = [p \in Procs |-> Initialize]
  /\ seen  = [p \in Procs |-> 0]
  /\ ret   = [p \in Procs |-> "none"]
  /\ acked = {}

Goto(p, from, to) == pc[p] = from /\ pc' = [pc EXCEPT ![p] = to]
Leave(p, from, result) ==
  /\ Goto(p, from, "idle")
  /\ ret' = [ret EXCEPT ![p] = result]

Start(p, c) ==
  /\ Goto(p, "idle", IF c = Initialize THEN "init" ELSE "open")
  /\ call' = [call EXCEPT ![p] = c]
  /\ ret'  = [ret EXCEPT ![p] = "none"]
  /\ UNCHANGED <<db, writer, seen, acked>>

-----------------------------------------------------------------------------
(* initialize(): three statements that other processes can come between,   *)
(* and then one transaction                                                *)

ReadVersion(p) ==
  /\ seen' = [seen EXCEPT ![p] = version]
  /\ \/ version \in {0, 2, 3} /\ Goto(p, "init", "examine") /\ UNCHANGED ret
     \/ version \notin {0, 2, 3} /\ Leave(p, "init", "error")
  /\ UNCHANGED <<db, writer, call, acked>>

\* The objects that must be present, all of them and no other, for what the
\* version that was read says.
Expected(v) == CASE v = 0 -> "none" [] v = 2 -> "v2" [] v = 3 -> "v3"

Examine(p) ==
  /\ pc[p] = "examine"
  /\ \/ objects # Expected(seen[p]) /\ Leave(p, "examine", "error")
     \/ objects = Expected(seen[p]) /\ seen[p] = 3 /\ Leave(p, "examine", "ok")
     \/ objects = Expected(seen[p]) /\ seen[p] # 3 /\ Goto(p, "examine", "migrate")
                                    /\ UNCHANGED ret
  /\ UNCHANGED <<db, writer, call, seen, acked>>

\* BEGIN IMMEDIATE; every CREATE has IF NOT EXISTS.
BeginMigration(p) ==
  /\ writer = NoProc
  /\ Goto(p, "migrate", "migrated")
  /\ writer' = p
  /\ UNCHANGED <<db, call, seen, ret, acked>>

CommitMigration_NoVersion(p) ==
  /\ Leave(p, "migrated", "ok")
  /\ objects' = "v3"
  /\ writer' = NoProc
  /\ UNCHANGED <<version, rows, call, seen, acked>>

CommitMigration_Rebuild(p) ==
  /\ Leave(p, "migrated", "ok")
  /\ objects' = "v3"
  /\ version' = 3
  /\ rows' = {}
  /\ writer' = NoProc
  /\ UNCHANGED <<call, seen, acked>>

CommitMigration(p) ==
  /\ Leave(p, "migrated", "ok")
  /\ objects' = "v3"
  /\ version' = 3
  /\ writer' = NoProc
  /\ UNCHANGED <<rows, call, seen, acked>>

-----------------------------------------------------------------------------
(* append_daily_decision, append_order_intent and                          *)
(* append_reconciliation_snapshot                                          *)

\* _require_initialized, on a read-only connection of its own.
RequireInitialized(p) ==
  /\ \/ version = 3 /\ objects = "v3" /\ Goto(p, "open", "insert") /\ UNCHANGED ret
     \/ ~(version = 3 /\ objects = "v3") /\ Leave(p, "open", "error")
  /\ UNCHANGED <<db, writer, call, seen, acked>>

\* INSERT OR IGNORE takes the write lock. A row that is ignored is not checked
\* against its foreign key; one that is not ignored may fail it.
Insert_BeforeLock(p) ==
  /\ pc[p] = "insert"
  /\ Goto(p, "insert", IF Ignored(call[p]) THEN "resolve" ELSE "inserted")
  /\ writer' = p
  /\ UNCHANGED <<db, call, seen, ret, acked>>

Insert_NoForeignKey(p) ==
  /\ pc[p] = "insert"
  /\ writer = NoProc
  /\ Goto(p, "insert", IF Ignored(call[p]) THEN "resolve" ELSE "inserted")
  /\ writer' = p
  /\ UNCHANGED <<db, call, seen, ret, acked>>

Insert(p) ==
  /\ pc[p] = "insert"
  /\ writer = NoProc
  /\ \/ Ignored(call[p]) /\ Goto(p, "insert", "resolve")
                         /\ writer' = p /\ UNCHANGED ret
     \/ ~Ignored(call[p]) /\ ~Orphan(call[p]) /\ Goto(p, "insert", "inserted")
                         /\ writer' = p /\ UNCHANGED ret
     \/ ~Ignored(call[p]) /\ Orphan(call[p]) /\ Leave(p, "insert", "error")
                         /\ UNCHANGED writer
  /\ UNCHANGED <<db, call, seen, acked>>

Commit(p) ==
  /\ Goto(p, "inserted", "return")
  /\ rows' = rows \cup {call[p]}
  /\ writer' = NoProc
  /\ UNCHANGED <<version, objects, call, seen, ret, acked>>

\* The SELECT by business key, in the same transaction, and the comparison of
\* every immutable column; no row at all means that another key collided.
Resolve_ById(p) ==
  LET existing == {s \in rows : BusinessKey(s) = BusinessKey(call[p])}
  IN  /\ pc[p] = "resolve"
      /\ \/ (\E s \in existing : Id(s) = Id(call[p])) /\ Goto(p, "resolve", "return")
                                                      /\ UNCHANGED ret
         \/ (\A s \in existing : Id(s) # Id(call[p])) /\ Leave(p, "resolve", "conflict")
      /\ writer' = NoProc
      /\ UNCHANGED <<db, call, seen, acked>>

Resolve_Always(p) ==
  /\ Leave(p, "resolve", "conflict")
  /\ writer' = NoProc
  /\ UNCHANGED <<db, call, seen, acked>>

Resolve(p) ==
  LET existing == {s \in rows : BusinessKey(s) = BusinessKey(call[p])}
  IN  /\ pc[p] = "resolve"
      /\ \/ existing = {call[p]} /\ Goto(p, "resolve", "return") /\ UNCHANGED ret
         \/ existing # {call[p]} /\ Leave(p, "resolve", "conflict")
      /\ writer' = NoProc
      /\ UNCHANGED <<db, call, seen, acked>>

Return(p) ==
  /\ Leave(p, "return", "ok")
  /\ acked' = acked \cup {call[p]}
  /\ UNCHANGED <<db, writer, call, seen>>

-----------------------------------------------------------------------------
(* What SQLite and the operating system add                                *)

\* busy_timeout=5000 and the connection's own timeout. Of a new file, PRAGMA
\* journal_mode=WAL, which follows the reading of the version, waits for a lock too.
LockTimeout_Never(p) == FALSE /\ UNCHANGED vars

LockTimeout(p) ==
  /\ writer \notin {NoProc, p}
  /\ \/ seen[p] = 0 /\ Leave(p, "examine", "busy")
     \/ Leave(p, "migrate", "busy")
     \/ Leave(p, "insert", "busy")
  /\ UNCHANGED <<db, writer, call, seen, acked>>

\* The process dies. What it had not committed is rolled back.
Crash(p) ==
  /\ pc[p] # "idle"
  /\ pc'  = [pc EXCEPT ![p] = "idle"]
  /\ ret' = [ret EXCEPT ![p] = "none"]
  /\ writer' = IF writer = p THEN NoProc ELSE writer
  /\ UNCHANGED <<db, call, seen, acked>>

Step(p) ==
  \/ ReadVersion(p) \/ Examine(p) \/ BeginMigration(p) \/ CommitMigration(p)
  \/ RequireInitialized(p) \/ Insert(p) \/ Commit(p) \/ Resolve(p) \/ Return(p)
  \/ LockTimeout(p)

Next == \E p \in Procs : (\E c \in Calls : Start(p, c)) \/ Step(p) \/ Crash(p)

Spec == Init /\ [][Next]_vars

\* A process that is not killed goes on to its next statement, and whoever needs
\* the ledger calls initialize() again after a failure (every command of cli.py
\* that writes begins with it, and the timer runs the command every day).
FairSpec ==
  /\ Spec
  /\ \A p \in Procs : WF_vars(Step(p)) /\ SF_vars(Start(p, Initialize))

-----------------------------------------------------------------------------
(* Properties                                                              *)

TypeOK ==
  /\ <<version, objects>> \in Found
  /\ rows \in SUBSET Row
  /\ writer \in Procs \cup {NoProc}
  /\ pc \in [Procs -> {"idle", "init", "examine", "migrate", "migrated",
                       "open", "insert", "inserted", "resolve", "return"}]
  /\ call \in [Procs -> Calls]
  /\ seen \in [Procs -> {0, 1, 2, 3}]
  /\ ret \in [Procs -> {"none", "ok", "conflict", "error", "busy"}]
  /\ acked \in SUBSET Row

RowsOf(kind) == {r \in rows : r.kind = kind}

\* One account, strategy and day has at most one decision and at most one order
\* intent, whichever processes raced or retried to write them: the uniqueness of
\* decisions, the foreign key and the uniqueness of intents together.
OneIntentPerDay ==
  /\ \A r, s \in RowsOf("decision") : r.scope = s.scope => r = s
  /\ \A r, s \in RowsOf("intent") : r.decision[1] = s.decision[1] => r = s

\* A client order id, a truncated digest that may collide, never names two
\* recorded intents.
ClientOrderNamesOneIntent ==
  \A r, s \in RowsOf("intent") : ClientKey(Id(r)) = ClientKey(Id(s)) => r = s

\* An identifier that any call ever returned names a committed row with exactly
\* the columns that the caller passed: a retry after a crash, or a second
\* process, is never told that a different row is its own.
AckedIsRecorded == acked \subseteq rows

\* LedgerConflict is raised only for a row that is not in the ledger, and stays
\* out of it: an identical retry never conflicts.
ConflictMeansDifferent ==
  \A p \in Procs : ret[p] = "conflict" => call[p] \notin rows

\* initialize() reads the version and then the schema objects in separate
\* statements; when it finds them inconsistent, another process has completed
\* the migration in between, so that failing closed costs nothing but a retry.
FailedInitializeIsBenign ==
  \A p \in Procs :
    call[p] = Initialize /\ ret[p] = "error" /\ objects # "foreign" => version = 3

\* No call changes or removes a row, a migration included, and none writes to a
\* database whose version hides another schema.
AppendOnly ==
  [][rows \subseteq rows' /\ (objects = "foreign" => UNCHANGED db)]_vars

\* A call comes to an end even if other processes keep taking the write lock or
\* die with it.
EveryCallReturns == \A p \in Procs : pc[p] # "idle" ~> pc[p] = "idle"

\* An absent ledger, or one of the earlier release, reaches version 3 once
\* processes stop being killed, however many migrate it at the same time.
EventuallyMigrated ==
  /\ version \in {0, 2}
  /\ objects # "foreign"
  /\ <>[][\A p \in Procs : ~Crash(p)]_vars
  => <>(version = 3)

\* The ledger implements the book of facts.
Book == INSTANCE AppendOnlyBook WITH Fact <- Row, book <- rows
BookSpec == Book!Spec

=============================================================================
