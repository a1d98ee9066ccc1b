-------------------------- MODULE ReconcileJobProofs --------------------------
(***************************************************************************)
(* What holds of ReconcileJob for every set of processes, accounts and     *)
(* wallets, and for every behaviour of the host's clock: a run excludes    *)
(* the others, and the ledger never holds two verified identities for one  *)
(* account.                                                                *)
(*                                                                         *)
(* The continuity gate compares with what ReadPriors read. That is still   *)
(* what the ledger holds when the snapshot is appended, because nobody but *)
(* the lease's holder appends: Held makes PriorsFresh inductive, which     *)
(* makes ReportAgrees inductive, which is what Persist needs.              *)
(***************************************************************************)
EXTENDS ReconcileJob, TLAPS

\* Being inside a run and holding the lease are the same thing.
Held == \A p \in Procs : pc[p] # "idle" <=> lease = p

\* From the read of earlier bindings to the end of the collection they stay
\* what the ledger holds.
PriorsFresh ==
  \A p \in Procs : pc[p] \in {"bind", "collect"} => prior[p] = BindingHashes(run[p].account)

\* A run that collects the account passed the gates.
GatesPassed == \A p \in Procs : pc[p] = "collect" => GatesPass(p)

\* A pending verified report agrees with every verified row of its account.
ReportAgrees ==
  \A p \in Procs : pc[p] = "persist" /\ report[p].verified =>
    \A s \in snapshots :
      s.account = report[p].account /\ s.verified => s.binding = report[p].binding

IInv == TypeOK /\ Held /\ PriorsFresh /\ GatesPassed /\ ReportAgrees /\ BindingContinuity

-----------------------------------------------------------------------------

LEMMA NoRunIsRun == NoRun \in Runs
<1>1. \E r \in Runs : r.command = "discover"
  <2>1. PICK a \in Accounts, w \in Wallets : TRUE
    BY ReconcileAssumption
  <2>2. [command |-> "discover", account |-> a, pin |-> w] \in Runs
    BY <2>1 DEF Runs
  <2>. QED
    BY <2>2
<1>. QED
  BY <1>1 DEF NoRun

\* Every variable keeps its type, and a run that is about to append has a report.
THEOREM TypeCorrect == Spec => []TypeOK
<1>1. Init => TypeOK
  BY NoRunIsRun, ReconcileAssumption DEF Init, TypeOK, Stages
<1>2. TypeOK /\ [Next]_vars => TypeOK'
  <2>. SUFFICES ASSUME TypeOK, [Next]_vars PROVE TypeOK'
    OBVIOUS
  <2>. USE DEF TypeOK, Goto, Stages
  <2>1. CASE Tick
    BY <2>1 DEF Tick
  <2>2. CASE SetClock
    BY <2>2 DEF SetClock
  <2>3. ASSUME NEW p \in Procs, TryLease(p) PROVE TypeOK'
    BY <2>3 DEF TryLease
  <2>4. ASSUME NEW p \in Procs, ReadAccess(p) PROVE TypeOK'
    <3>1. EarlyReport(p) \in Snapshot
      BY <2>4, ReconcileAssumption DEF EarlyReport, Snapshot, Statuses, Runs
    <3>. QED
      BY <2>4, <3>1 DEF ReadAccess
  <2>5. ASSUME NEW p \in Procs, ReadWallets(p) PROVE TypeOK'
    BY <2>5 DEF ReadWallets
  <2>6. ASSUME NEW p \in Procs, ReadPriors(p) PROVE TypeOK'
    <3>1. BindingHashes(run[p].account) \in SUBSET Wallets
      BY DEF BindingHashes, Snapshot
    <3>. QED
      BY <2>6, <3>1 DEF ReadPriors
  <2>7. ASSUME NEW p \in Procs, Bind(p) PROVE TypeOK'
    <3>1. EarlyReport(p) \in Snapshot
      BY <2>7, ReconcileAssumption DEF EarlyReport, Snapshot, Statuses, Runs
    <3>. QED
      BY <2>7, <3>1 DEF Bind
  <2>8. ASSUME NEW p \in Procs, Collect(p) PROVE TypeOK'
    <3>1. ASSUME NEW s \in Statuses
          PROVE  [account |-> run[p].account, observed |-> time, binding |-> run[p].pin,
                  verified |-> TRUE, status |-> s] \in Snapshot
      BY DEF Snapshot, Runs
    <3>2. CompleteReports(p) \subseteq Snapshot
      BY <3>1 DEF CompleteReports, Statuses
    <3>. QED
      BY <2>8, <3>2 DEF Collect
  <2>9. ASSUME NEW p \in Procs, Persist(p) PROVE TypeOK'
    <3>1. report[p] \in Snapshot
      BY <2>9 DEF Persist
    <3>2. snapshots' \in SUBSET Snapshot /\ newest' \in [Accounts -> Snapshot \cup {NoSnapshot}]
      BY <2>9, <3>1 DEF Persist, Snapshot
    <3>. QED
      BY <2>9, <3>2 DEF Persist
  <2>10. ASSUME NEW p \in Procs, Release(p) PROVE TypeOK'
    BY <2>10, NoRunIsRun DEF Release, Forget
  <2>11. ASSUME NEW p \in Procs, Fail(p) PROVE TypeOK'
    BY <2>11 DEF Fail
  <2>12. ASSUME NEW p \in Procs, Crash(p) PROVE TypeOK'
    BY <2>12, NoRunIsRun DEF Crash, Forget
  <2>13. CASE UNCHANGED vars
    BY <2>13 DEF vars
  <2>. QED
    BY <2>1, <2>2, <2>3, <2>4, <2>5, <2>6, <2>7, <2>8, <2>9, <2>10, <2>11, <2>12, <2>13
    DEF Next, Step
<1>. QED
  BY <1>1, <1>2, PTL DEF Spec

-----------------------------------------------------------------------------

LEMMA InitInv == Init => IInv
<1>. SUFFICES ASSUME Init PROVE IInv
  OBVIOUS
<1>1. TypeOK
  BY NoRunIsRun, ReconcileAssumption DEF Init, TypeOK, Stages
<1>2. Held
  BY ReconcileAssumption DEF Init, Held
<1>3. PriorsFresh /\ GatesPassed /\ ReportAgrees /\ BindingContinuity
  BY DEF Init, PriorsFresh, GatesPassed, ReportAgrees, BindingContinuity
<1>. QED
  BY <1>1, <1>2, <1>3 DEF IInv

\* A step of one process that leaves the table alone disturbs nothing that the
\* others are in the middle of, as there are no others.
LEMMA Alone ==
  ASSUME Held, NEW p \in Procs, NEW q \in Procs, pc[p] # "idle", pc[q] # "idle"
  PROVE  q = p
BY DEF Held

LEMMA NextHeld == TypeOK /\ Held /\ [Next]_vars => Held'
<1>. SUFFICES ASSUME TypeOK, Held, [Next]_vars PROVE Held'
  OBVIOUS
<1>. USE ReconcileAssumption DEF TypeOK, Held, Goto
<1>1. CASE Tick \/ SetClock \/ UNCHANGED vars
  BY <1>1 DEF Tick, SetClock, vars
<1>2. ASSUME NEW p \in Procs, TryLease(p) PROVE Held'
  BY <1>2 DEF TryLease
<1>3. ASSUME NEW p \in Procs, pc[p] # "idle", lease' = lease,
             \E stage \in Stages \ {"idle"} : pc' = [pc EXCEPT ![p] = stage]
      PROVE  Held'
  BY <1>3
<1>4. ASSUME NEW p \in Procs, ReadAccess(p) \/ ReadWallets(p) \/ ReadPriors(p) \/ Bind(p)
      PROVE  Held'
  BY <1>3, <1>4 DEF ReadAccess, ReadWallets, ReadPriors, Bind, Stages
<1>5. ASSUME NEW p \in Procs, Collect(p) \/ Persist(p) \/ Fail(p)
      PROVE  Held'
  BY <1>3, <1>5 DEF Collect, Persist, Fail, Stages
<1>6. ASSUME NEW p \in Procs, Release(p) \/ Crash(p) PROVE Held'
  BY <1>6 DEF Release, Crash
<1>. QED
  BY <1>1, <1>2, <1>4, <1>5, <1>6 DEF Next, Step

\* What the runs in progress rely on, without the table.
Progress == PriorsFresh /\ GatesPassed /\ ReportAgrees

\* A step that leaves the table alone, after which the stepping process is not
\* collecting and has no verified report pending, keeps what runs rely on.
LEMMA Bystanders ==
  ASSUME IInv, NEW p \in Procs, UNCHANGED snapshots,
         \A q \in Procs \ {p} : /\ pc'[q] = pc[q] /\ run'[q] = run[q] /\ prior'[q] = prior[q]
                                /\ wallet'[q] = wallet[q] /\ report'[q] = report[q],
         pc'[p] \notin {"bind", "collect"},
         ~(pc'[p] = "persist" /\ report'[p].verified)
  PROVE  Progress'
BY DEF IInv, Progress, PriorsFresh, GatesPassed, ReportAgrees, BindingHashes, GatesPass

LEMMA NextProgress == IInv /\ [Next]_vars => (Progress /\ BindingContinuity)'
<1>. SUFFICES ASSUME IInv, [Next]_vars PROVE (Progress /\ BindingContinuity)'
  OBVIOUS
<1>. USE DEF TypeOK, Goto
<1>a. TypeOK /\ Held
  BY DEF IInv
<1>b. ASSUME UNCHANGED snapshots PROVE BindingContinuity'
  BY <1>b DEF IInv, BindingContinuity
<1>1. CASE Tick \/ SetClock \/ UNCHANGED vars
  <2>1. UNCHANGED <<pc, run, wallet, prior, report, snapshots>>
    BY <1>1 DEF Tick, SetClock, vars
  <2>. QED
    BY <2>1, <1>b DEF IInv, Progress, PriorsFresh, GatesPassed, ReportAgrees, BindingHashes,
                      GatesPass
<1>2. ASSUME NEW p \in Procs, TryLease(p) PROVE (Progress /\ BindingContinuity)'
  BY <1>2, <1>a, <1>b, Bystanders DEF TryLease
<1>3. ASSUME NEW p \in Procs, ReadAccess(p) PROVE (Progress /\ BindingContinuity)'
  <2>1. ~(pc'[p] = "persist" /\ report'[p].verified)
    BY <1>3, <1>a DEF ReadAccess, EarlyReport
  <2>. QED
    BY <1>3, <2>1, <1>a, <1>b, Bystanders DEF ReadAccess
<1>4. ASSUME NEW p \in Procs, ReadWallets(p) PROVE (Progress /\ BindingContinuity)'
  BY <1>4, <1>a, <1>b, Bystanders DEF ReadWallets
<1>5. ASSUME NEW p \in Procs, ReadPriors(p) PROVE (Progress /\ BindingContinuity)'
  <2>1. PriorsFresh'
    BY <1>5, <1>a DEF ReadPriors, IInv, PriorsFresh, BindingHashes
  <2>2. GatesPassed' /\ ReportAgrees'
    BY <1>5, <1>a DEF ReadPriors, IInv, GatesPassed, GatesPass, ReportAgrees
  <2>. QED
    BY <1>5, <2>1, <2>2, <1>b DEF ReadPriors, Progress
<1>6. ASSUME NEW p \in Procs, Bind(p) PROVE (Progress /\ BindingContinuity)'
  <2>1. PriorsFresh'
    BY <1>6, <1>a DEF Bind, IInv, PriorsFresh, BindingHashes
  <2>2. GatesPassed'
    BY <1>6, <1>a DEF Bind, IInv, GatesPassed, GatesPass
  <2>3. ReportAgrees'
    BY <1>6, <1>a DEF Bind, IInv, ReportAgrees, EarlyReport
  <2>. QED
    BY <1>6, <2>1, <2>2, <2>3, <1>b DEF Bind, Progress
<1>7. ASSUME NEW p \in Procs, Collect(p) PROVE (Progress /\ BindingContinuity)'
  <2>1. PriorsFresh' /\ GatesPassed'
    BY <1>7, <1>a DEF Collect, IInv, PriorsFresh, BindingHashes, GatesPassed, GatesPass
  <2>2. BindingHashes(run[p].account) \in {{}, {run[p].pin}}
    BY <1>7 DEF Collect, IInv, PriorsFresh, GatesPassed, GatesPass
  <2>3. \A s \in snapshots :
          s.account = run[p].account /\ s.verified => s.binding = run[p].pin
    BY <2>2 DEF BindingHashes
  <2>4. report'[p].account = run[p].account /\ report'[p].binding = run[p].pin
    BY <1>7, <1>a DEF Collect, CompleteReports
  <2>5. ReportAgrees'
    BY <1>7, <2>3, <2>4, <1>a DEF Collect, IInv, ReportAgrees
  <2>. QED
    BY <1>7, <2>1, <2>5, <1>b DEF Collect, Progress
<1>8. ASSUME NEW p \in Procs, Persist(p) PROVE (Progress /\ BindingContinuity)'
  <2>1. \A q \in Procs : pc'[q] \notin {"bind", "collect", "persist"}
    BY <1>8, <1>a DEF Persist, Held
  <2>2. Progress'
    BY <2>1 DEF Progress, PriorsFresh, GatesPassed, ReportAgrees
  <2>3. snapshots' \subseteq snapshots \cup {report[p]}
    BY <1>8 DEF Persist
  <2>4. report[p].verified =>
          \A s \in snapshots :
            s.account = report[p].account /\ s.verified => s.binding = report[p].binding
    BY <1>8 DEF Persist, IInv, ReportAgrees
  <2>5. BindingContinuity'
    BY <2>3, <2>4 DEF IInv, BindingContinuity
  <2>. QED
    BY <2>2, <2>5
<1>9. ASSUME NEW p \in Procs, Fail(p) PROVE (Progress /\ BindingContinuity)'
  BY <1>9, <1>a, <1>b, Bystanders DEF Fail
<1>10. ASSUME NEW p \in Procs, Release(p) \/ Crash(p)
       PROVE  (Progress /\ BindingContinuity)'
  BY <1>10, <1>a, <1>b, Bystanders DEF Release, Crash, Forget
<1>. QED
  BY <1>1, <1>2, <1>3, <1>4, <1>5, <1>6, <1>7, <1>8, <1>9, <1>10 DEF Next, Step

LEMMA InvariantHolds == Spec => []IInv
<1>1. IInv /\ [Next]_vars => Held' /\ Progress' /\ BindingContinuity'
  BY NextHeld, NextProgress DEF IInv
<1>2. TypeOK' /\ Held' /\ Progress' /\ BindingContinuity' => IInv'
  BY DEF IInv, Progress
<1>. QED
  BY InitInv, TypeCorrect, <1>1, <1>2, PTL DEF Spec

-----------------------------------------------------------------------------

\* A local account never has two verified wallet identities, whichever runs
\* overlap, fail or are killed (_account_binding_gates under the lease).
THEOREM Continuity == Spec => []BindingContinuity
<1>1. IInv => BindingContinuity
  BY DEF IInv
<1>. QED
  BY InvariantHolds, <1>1, PTL

\* Runs exclude one another (_reconciliation_lease).
THEOREM Exclusion == Spec => []OneRun
<1>1. IInv => OneRun
  BY DEF IInv, Held, OneRun
<1>. QED
  BY InvariantHolds, <1>1, PTL

=============================================================================
