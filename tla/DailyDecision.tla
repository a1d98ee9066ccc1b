----------------------------- MODULE DailyDecision -----------------------------
(***************************************************************************)
(* daily_job.py and market_data.py: runs of the daily command, started by  *)
(* the timer or by an operator while the operator deploys a release, the   *)
(* host's clock drifts and Kraken's candles move on. A run binds itself to *)
(* a release, fetches daily candles, sets Kraken's mutable last row aside, *)
(* checks that the newest completed candle is the one to decide on, and    *)
(* appends one decision for its date. The reconciliation job appends to    *)
(* the same ledger (ReconcileJob).                                         *)
(*                                                                         *)
(* Account, strategy and pair are fixed by the settings, so that a date    *)
(* names a decision. The strategy is a function of the completed candles,  *)
(* all of which its hash covers: they stand for input hash, outcome and    *)
(* details. The schema that the command initializes is Ledger's matter.    *)
(***************************************************************************)
EXTENDS Integers, Sequences

CONSTANTS
  Procs,     \* processes that may run the command
  Releases,  \* deployed releases
  Modes,     \* _ALLOWED_MODES
  Data,      \* what a candle may contain
  Day,       \* a day in units of the model's time
  Delay,     \* MINIMUM_COMPLETION_DELAY
  MaxAge,    \* MAXIMUM_OBSERVATION_AGE
  Skews,     \* host clock minus Kraken's clock
  Observations,  \* when reconciliations observe the account
  Unknown,   \* what a run has not read yet
  MaxTime    \* bound of the model: how far Kraken's clock goes

ASSUME DailyAssumption ==
  /\ Day \in Nat \ {0} /\ Delay \in Nat /\ MaxAge \in Nat /\ MaxTime \in Nat
  /\ 0 \in Skews /\ Skews \subseteq Int
  /\ Observations \subseteq Nat

VARIABLES
  time,     \* Kraken's clock
  skew,     \* host clock minus Kraken's clock
  tail,     \* external: the date of the last row Kraken reports
  candle,   \* external: the candles up to that row
  revised,  \* external: dates whose candles Kraken corrected after the day
  env,      \* KRAKEN_KNIGHT_RELEASE_ID in daily.env
  current,  \* the release directory that is current
  ledger,   \* the rows of the ledger, in the order of their commits
  pc,       \* where each process is
  run       \* what it knows

market == <<tail, candle, revised>>
deploy == <<env, current>>
dailyVars == <<time, skew, market, deploy, ledger, pc, run>>

HostTime == time + skew

Begun(release, mode) ==
  [release |-> release, mode |-> mode, dir |-> Unknown, batch |-> Unknown,
   observed |-> Unknown]

Unread == Begun(Unknown, Unknown)

\* The history begins a day before the model does.
DailyInit ==
  /\ time = Day /\ skew = 0
  /\ tail = 1 /\ candle \in [0..1 -> Data] /\ revised = {}
  /\ env \in Releases /\ current = env
  /\ ledger = <<>>
  /\ pc = [p \in Procs |-> "idle"]
  /\ run = [p \in Procs |-> Unread]

Goto(p, from, to) == pc[p] = from /\ pc' = [pc EXCEPT ![p] = to]

\* A run ends, with nothing recorded or with its row in the ledger.
Leave(p, from) == Goto(p, from, "idle") /\ run' = [run EXCEPT ![p] = Unread]

\* A LedgerConflict ends it too, and is told apart.
Ended == {"idle", "conflict"}

-----------------------------------------------------------------------------
(* The command                                                             *)

\* The process gets its environment.
Start(p) ==
  /\ \E from \in Ended : Goto(p, from, "bind")
  /\ \E m \in Modes : run' = [run EXCEPT ![p] = Begun(env, m)]
  /\ UNCHANGED <<time, skew, market, deploy, ledger>>

\* And the directory it runs in: verify_release_binding.
Bind_Unverified(p) ==
  /\ Goto(p, "bind", "fetch")
  /\ run' = [run EXCEPT ![p].dir = current]
  /\ UNCHANGED <<time, skew, market, deploy, ledger>>

Bind(p) ==
  /\ \/ /\ current = run[p].release
        /\ Goto(p, "bind", "fetch")
        /\ run' = [run EXCEPT ![p].dir = current]
     \/ current # run[p].release /\ Leave(p, "bind")
  /\ UNCHANGED <<time, skew, market, deploy, ledger>>

\* parse_ohlc_payload: the last row is mutable, the one before it is completed.
Completed_WithTail == tail

Completed == tail - 1

History(date) == [n \in 0..date |-> candle[n]]

Fetch(p) ==
  /\ \/ /\ Goto(p, "fetch", "observe")
        /\ run' = [run EXCEPT ![p].batch =
                     [date |-> Completed, data |-> History(Completed)]]
     \/ Leave(p, "fetch")
  /\ UNCHANGED <<time, skew, market, deploy, ledger>>

\* The answer is in, and the host's clock stamps it.
Observe(p) ==
  /\ Goto(p, "observe", "evaluate")
  /\ run' = [run EXCEPT ![p].observed = HostTime]
  /\ UNCHANGED <<time, skew, market, deploy, ledger>>

\* validate_batch_freshness. The times are not needed after it. That too short a
\* history ends the run as a stale one does is left out: the market has its days.
Earliest(date) == (date + 1) * Day + Delay

Fresh(r, now) ==
  /\ r.observed <= now /\ now - r.observed <= MaxAge
  /\ Earliest(r.batch.date) <= now /\ now < Earliest(r.batch.date) + Day

Evaluate(p) ==
  /\ pc[p] = "evaluate"
  /\ \/ /\ Fresh(run[p], HostTime)
        /\ Goto(p, "evaluate", "record")
        /\ run' = [run EXCEPT ![p].observed = Unknown]
     \/ ~Fresh(run[p], HostTime) /\ Leave(p, "evaluate")
  /\ UNCHANGED <<time, skew, market, deploy, ledger>>

Decision(r) ==
  [kind |-> "decision", date |-> r.batch.date, data |-> r.batch.data,
   release |-> r.release, mode |-> r.mode, dir |-> r.dir]

Decisions(rows) == {rows[n] : n \in {m \in DOMAIN rows : rows[m].kind = "decision"}}

\* append_daily_decision compares every immutable column; recorded_at_utc is
\* none of them.
Same(row, r) ==
  /\ row.date = r.batch.date /\ row.data = r.batch.data
  /\ row.release = r.release /\ row.mode = r.mode

Record(p) ==
  /\ pc[p] = "record"
  /\ LET rivals == {row \in Decisions(ledger) : row.date = run[p].batch.date}
     IN  \/ /\ rivals = {}
            /\ ledger' = Append(ledger, Decision(run[p]))
            /\ Leave(p, "record")
         \/ /\ rivals # {} /\ \A row \in rivals : Same(row, run[p])
            /\ Leave(p, "record") /\ UNCHANGED ledger
         \/ /\ \E row \in rivals : ~Same(row, run[p])
            /\ Goto(p, "record", "conflict") /\ UNCHANGED <<run, ledger>>
  /\ UNCHANGED <<time, skew, market, deploy>>

\* Any other error ends the run, or the process is killed (TimeoutStartSec, an
\* operator, the host).
Crash(p) ==
  /\ pc[p] \notin Ended
  /\ Leave(p, pc[p])
  /\ UNCHANGED <<time, skew, market, deploy, ledger>>

-----------------------------------------------------------------------------
(* Kraken, the host, the operator and the other job (external)             *)

\* The row of a new day appears some time after midnight.
Roll ==
  /\ tail < time \div Day
  /\ tail' = tail + 1
  /\ \E d \in Data : candle' = [n \in 0..tail' |-> IF n = tail' THEN d ELSE candle[n]]
  /\ UNCHANGED <<time, skew, revised, deploy, ledger, pc, run>>

\* The last row changes until then.
Trade ==
  /\ \E d \in Data : candle' = [candle EXCEPT ![tail] = d]
  /\ UNCHANGED <<time, skew, tail, revised, deploy, ledger, pc, run>>

\* A row before it is corrected, once in the model.
Revise ==
  /\ revised = {}
  /\ \E n \in 0..(tail - 1), d \in Data :
       /\ revised' = {n}
       /\ candle' = [candle EXCEPT ![n] = d]
  /\ UNCHANGED <<time, skew, tail, deploy, ledger, pc, run>>

\* A deployment edits daily.env and switches the current directory.
Deploy ==
  /\ \/ env' \in Releases /\ UNCHANGED current
     \/ current' \in Releases /\ UNCHANGED env
  /\ UNCHANGED <<time, skew, market, ledger, pc, run>>

Tick ==
  /\ time < MaxTime
  /\ time' = time + 1
  /\ UNCHANGED <<skew, market, deploy, ledger, pc, run>>

SetClock ==
  /\ skew' \in Skews
  /\ UNCHANGED <<time, market, deploy, ledger, pc, run>>

Snapshots(rows) == {rows[n] : n \in {m \in DOMAIN rows : rows[m].kind = "reconciliation"}}

\* A reconciliation run appends its snapshot.
Reconcile ==
  /\ \E o \in Observations \ {s.observed : s \in Snapshots(ledger)} :
       ledger' = Append(ledger, [kind |-> "reconciliation", observed |-> o])
  /\ UNCHANGED <<time, skew, market, deploy, pc, run>>

DailyStep(p) == Bind(p) \/ Fetch(p) \/ Observe(p) \/ Evaluate(p) \/ Record(p)

DailyNext ==
  \/ Roll \/ Trade \/ Revise \/ Deploy \/ Tick \/ SetClock \/ Reconcile
  \/ \E p \in Procs : Start(p) \/ DailyStep(p) \/ Crash(p)

DailySpec == DailyInit /\ [][DailyNext]_dailyVars

-----------------------------------------------------------------------------
(* Properties                                                              *)

\* Typing; no decision is ever about the day that Kraken still reports last.
DailyTypeOK ==
  /\ time \in Nat /\ skew \in Skews
  /\ tail \in Nat \ {0} /\ tail <= time \div Day
  /\ candle \in [0..tail -> Data] /\ revised \subseteq 0..(tail - 1)
  /\ env \in Releases /\ current \in Releases
  /\ ledger \in Seq({ledger[n] : n \in DOMAIN ledger})
  /\ pc \in [Procs -> Ended \cup {"bind", "fetch", "observe", "evaluate", "record"}]
  /\ \A p \in Procs :
       /\ pc[p] \in {"observe", "evaluate", "record", "conflict"} =>
            /\ run[p].batch.date \in 0..(tail - 1)
            /\ run[p].batch.data \in [0..run[p].batch.date -> Data]
       /\ pc[p] = "evaluate" => run[p].observed \in Int
  /\ \A row \in Decisions(ledger) : row.date < tail

\* A recorded decision rests on candles that are over: whatever the host's clock
\* says, however late Kraken's answer or its new row, what was decided on is
\* what Kraken reports ever after, unless it corrects a finished day; and the
\* release that the row names is the directory that the process ran in, whatever
\* a deployment changed while it started.
DecisionIsFinal ==
  \A row \in Decisions(ledger) :
    /\ revised \cap 0..row.date = {} => row.data = History(row.date)
    /\ row.dir = row.release

\* "a same-release retry with the same completed data returns the existing
\* decision ID" (docs/DAILY_SHADOW.md:42): a run conflicts only if the release,
\* the mode or Kraken's account of a finished day has changed since.
RetryFindsItsDecision ==
  \A p \in Procs : pc[p] = "conflict" =>
    \E row \in Decisions(ledger) :
      /\ row.date = run[p].batch.date
      /\ \/ row.release # run[p].release
         \/ row.mode # run[p].mode
         \/ revised \cap 0..row.date # {}

=============================================================================
