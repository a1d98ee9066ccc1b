----------------------------- MODULE ReconcileJob -----------------------------
(***************************************************************************)
(* reconcile_job.py: the runs of several processes on one host. A run      *)
(* takes the host lease without waiting, asks Kraken who the key belongs   *)
(* to, compares the answer with the operator's pin and with every binding  *)
(* the ledger already verified, collects the account (ReconcileCollect has *)
(* the details) and appends one snapshot. Account discovery takes the same *)
(* lease and stops after the wallet read.                                  *)
(*                                                                         *)
(* The check against earlier bindings and the append that adds one are far *)
(* apart, with a minute of network reads between them: what keeps them     *)
(* together is the lease, and the kernel drops it when its holder dies.    *)
(***************************************************************************)
EXTENDS Integers

CONSTANTS
  Procs,      \* processes that may start a run
  Accounts,   \* settings.account_id, the local name of an account
  Wallets,    \* Kraken wallet accounts; a binding hash is a wallet's identity
  NoWallet,   \* Kraken's answer names no single active main wallet
  NoProc,     \* nobody holds the lease
  NoSnapshot, \* the account has no snapshot
  Skews,      \* host clock minus Kraken's clock, in units of the model's time
  SkewLimit,  \* MAX_CLOCK_SKEW_SECONDS
  MaxTime     \* bound of the model: Kraken's clock

ASSUME ReconcileAssumption ==
  /\ NoProc \notin Procs
  /\ NoWallet \notin Wallets
  /\ 0 \in Skews /\ Skews \subseteq Int
  /\ SkewLimit \in Nat /\ MaxTime \in Nat
  /\ Accounts # {} /\ Wallets # {}

Statuses == {"CLEAN", "DISARMED", "UNRESOLVED"}

\* reconciliation_snapshots, as far as identity and continuity are concerned.
Snapshot == [account : Accounts, observed : Int, binding : Wallets,
             verified : BOOLEAN, status : Statuses]

VARIABLES
  lease,      \* the process that holds kraken-knight-reconcile.lock
  pc,         \* where each process is
  run,        \* its command and settings: the local account, the pinned wallet
  wallet,     \* the wallet Kraken reported to it
  prior,      \* the verified bindings it read from the ledger
  report,     \* the snapshot it is about to append
  snapshots,  \* the reconciliation_snapshots table
  newest,     \* history: the row appended last for each account
  time,       \* Kraken's clock
  skew        \* host clock minus Kraken's clock

vars == <<lease, pc, run, wallet, prior, report, snapshots, newest, time, skew>>

Runs == [command : {"reconcile", "discover"}, account : Accounts, pin : Wallets]

\* What stands for the settings of a process that is not in a run.
NoRun == CHOOSE r \in Runs : r.command = "discover"

Init ==
  /\ lease = NoProc
  /\ pc = [p \in Procs |-> "idle"]
  /\ run = [p \in Procs |-> NoRun]
  /\ wallet = [p \in Procs |-> NoWallet]
  /\ prior = [p \in Procs |-> {}]
  /\ report = [p \in Procs |-> NoSnapshot]
  /\ snapshots = {}
  /\ newest = [a \in Accounts |-> NoSnapshot]
  /\ time = 0
  /\ skew = 0

Goto(p, from, to) == pc[p] = from /\ pc' = [pc EXCEPT ![p] = to]

\* What a run read dies with it; so does its lease.
Forget(p) ==
  /\ run' = [run EXCEPT ![p] = NoRun]
  /\ wallet' = [wallet EXCEPT ![p] = NoWallet]
  /\ prior' = [prior EXCEPT ![p] = {}]
  /\ report' = [report EXCEPT ![p] = NoSnapshot]
  /\ UNCHANGED <<snapshots, newest, time, skew>>

ClockAgrees == skew <= SkewLimit /\ -skew <= SkewLimit

\* A report that gates decide before the account is read carries the host's
\* clock and no verified binding; all of those gates disarm.
EarlyReport(p) ==
  [account |-> run[p].account, observed |-> time + skew, binding |-> run[p].pin,
   verified |-> FALSE, status |-> "DISARMED"]

\* A complete report carries Kraken's clock, and its binding is verified
\* whatever its status; the closing clock gates disarm.
CompleteReports(p) ==
  {[account |-> run[p].account, observed |-> time, binding |-> run[p].pin,
    verified |-> TRUE, status |-> s] : s \in IF ClockAgrees THEN Statuses ELSE {"DISARMED"}}

-----------------------------------------------------------------------------

\* flock(LOCK_EX | LOCK_NB): a run that does not get the lease ends at once.
TryLease_Unchecked(p) ==
  /\ Goto(p, "idle", "access")
  /\ lease' = p
  /\ \E r \in Runs : run' = [run EXCEPT ![p] = r]
  /\ UNCHANGED <<wallet, prior, report, snapshots, newest, time, skew>>

TryLease(p) ==
  /\ lease = NoProc
  /\ Goto(p, "idle", "access")
  /\ lease' = p
  /\ \E r \in Runs : run' = [run EXCEPT ![p] = r]
  /\ UNCHANGED <<wallet, prior, report, snapshots, newest, time, skew>>

\* Server time, system status, instrument and key profile; discovery raises
\* where a reconciliation persists an unverified report.
ReadAccess(p) ==
  /\ \/ ClockAgrees /\ Goto(p, "access", "wallets") /\ UNCHANGED report
     \/ run[p].command = "reconcile" /\ Goto(p, "access", "persist")
        /\ report' = [report EXCEPT ![p] = EarlyReport(p)]
     \/ run[p].command = "discover" /\ Goto(p, "access", "release") /\ UNCHANGED report
  /\ UNCHANGED <<lease, run, wallet, prior, snapshots, newest, time, skew>>

ReadWallets(p) ==
  /\ Goto(p, "wallets", IF run[p].command = "reconcile" THEN "priors" ELSE "release")
  /\ \E w \in Wallets \cup {NoWallet} : wallet' = [wallet EXCEPT ![p] = w]
  /\ UNCHANGED <<lease, run, prior, report, snapshots, newest, time, skew>>

\* Ledger.reconciliation_binding_hashes: SELECT DISTINCT ... verified = 1.
BindingHashes(a) == {s.binding : s \in {t \in snapshots : t.account = a /\ t.verified}}

ReadPriors(p) ==
  /\ Goto(p, "priors", "bind")
  /\ prior' = [prior EXCEPT ![p] = BindingHashes(run[p].account)]
  /\ UNCHANGED <<lease, run, wallet, report, snapshots, newest, time, skew>>

\* _account_binding_gates: one active main wallet, the pinned one, and no other
\* binding verified before.
GatesPass_NoContinuity(p) == wallet[p] = run[p].pin

GatesPass(p) == wallet[p] = run[p].pin /\ prior[p] \in {{}, {run[p].pin}}

Bind_Unreported(p) ==
  /\ Goto(p, "bind", IF GatesPass(p) THEN "collect" ELSE "persist")
  /\ UNCHANGED <<lease, run, wallet, prior, report, snapshots, newest, time, skew>>

Bind(p) ==
  /\ \/ GatesPass(p) /\ Goto(p, "bind", "collect") /\ UNCHANGED report
     \/ /\ ~GatesPass(p) /\ Goto(p, "bind", "persist")
        /\ report' = [report EXCEPT ![p] = EarlyReport(p)]
  /\ UNCHANGED <<lease, run, wallet, prior, snapshots, newest, time, skew>>

\* The read sequence and reconcile_account.
Collect(p) ==
  /\ Goto(p, "collect", "persist")
  /\ \E r \in CompleteReports(p) : report' = [report EXCEPT ![p] = r]
  /\ UNCHANGED <<lease, run, wallet, prior, snapshots, newest, time, skew>>

\* append_reconciliation_snapshot: UNIQUE(account_id, observed_at_utc). An equal
\* row is accepted, a different one is a LedgerConflict; both end the run.
Persist(p) ==
  /\ Goto(p, "persist", "release")
  /\ LET r == report[p]
     IN IF \E s \in snapshots : s.account = r.account /\ s.observed = r.observed
        THEN UNCHANGED <<snapshots, newest>>
        ELSE /\ snapshots' = snapshots \cup {r}
             /\ newest' = [newest EXCEPT ![r.account] = r]
  /\ UNCHANGED <<lease, run, wallet, prior, report, time, skew>>

\* A request, a parse or the ledger fails: the exception leaves through the
\* lease's finally.
Fail(p) ==
  /\ pc[p] \in {"access", "wallets", "priors", "collect", "persist"}
  /\ pc' = [pc EXCEPT ![p] = "release"]
  /\ UNCHANGED <<lease, run, wallet, prior, report, snapshots, newest, time, skew>>

Release_Forgotten(p) == Goto(p, "release", "idle") /\ UNCHANGED lease /\ Forget(p)

Release(p) == Goto(p, "release", "idle") /\ lease' = NoProc /\ Forget(p)

\* The process is killed; closing its descriptor releases the lock.
Crash(p) ==
  /\ pc[p] # "idle"
  /\ pc' = [pc EXCEPT ![p] = "idle"]
  /\ lease' = NoProc
  /\ Forget(p)

Tick ==
  /\ time < MaxTime
  /\ time' = time + 1
  /\ UNCHANGED <<lease, pc, run, wallet, prior, report, snapshots, newest, skew>>

\* The host's clock drifts, or is set.
SetClock ==
  /\ skew' \in Skews
  /\ UNCHANGED <<lease, pc, run, wallet, prior, report, snapshots, newest, time>>

Step(p) ==
  \/ ReadAccess(p) \/ ReadWallets(p) \/ ReadPriors(p) \/ Bind(p) \/ Collect(p)
  \/ Persist(p) \/ Release(p)

Next == Tick \/ SetClock \/ \E p \in Procs : TryLease(p) \/ Step(p) \/ Fail(p) \/ Crash(p)

Spec == Init /\ [][Next]_vars

\* A process that is not killed goes on (its requests and its database waits
\* have timeouts); nothing obliges anyone to start a run.
FairSpec == Spec /\ \A p \in Procs : WF_vars(Step(p))

-----------------------------------------------------------------------------

Stages == {"idle", "access", "wallets", "priors", "bind", "collect", "persist", "release"}

\* Typing; a stage in which a report is pending has one.
TypeOK ==
  /\ lease \in Procs \cup {NoProc}
  /\ pc \in [Procs -> Stages]
  /\ run \in [Procs -> Runs]
  /\ wallet \in [Procs -> Wallets \cup {NoWallet}]
  /\ prior \in [Procs -> SUBSET Wallets]
  /\ report \in [Procs -> Snapshot \cup {NoSnapshot}]
  /\ \A p \in Procs : pc[p] = "persist" => report[p] \in Snapshot
  /\ snapshots \in SUBSET Snapshot
  /\ newest \in [Accounts -> Snapshot \cup {NoSnapshot}]
  /\ time \in Nat /\ skew \in Skews

\* The ledger never holds two verified identities for one local account, though
\* the continuity gate looks long before the append: _account_binding_gates
\* ("account_binding_continuity") under _reconciliation_lease.
BindingContinuity ==
  \A s, t \in snapshots :
    s.account = t.account /\ s.verified /\ t.verified => s.binding = t.binding

\* At most one process is inside a run, also when holders fail or are killed.
OneRun == \A p, q \in Procs : pc[p] # "idle" /\ pc[q] # "idle" => p = q

\* ORDER BY observed_at_utc DESC LIMIT 1 for one account: what Ledger.status and
\* the dashboard call the latest reconciliation.
Shown(a) ==
  CHOOSE s \in snapshots :
    s.account = a /\ \A t \in snapshots : t.account = a => t.observed <= s.observed

\* After a run that a gate disarmed, latest_reconciliation says DISARMED
\* (tests/unit/test_reconcile_job.py asserts it of a first run): a later
\* disarming run is never hidden behind an earlier CLEAN one.
DisarmedIsShown ==
  \A a \in Accounts :
    newest[a] # NoSnapshot /\ newest[a].status = "DISARMED" => Shown(a).status = "DISARMED"

\* A lease that was taken is free again in the end: runs do not lock out each
\* other for good, whatever fails.
LeaseIsFreed == (lease # NoProc) ~> (lease = NoProc)

=============================================================================
