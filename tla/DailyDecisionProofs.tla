-------------------------- MODULE DailyDecisionProofs --------------------------
(***************************************************************************)
(* Every decision in the ledger is final, for any processes, releases,     *)
(* delays and clocks. What a row says was true of a run first, so the      *)
(* invariant says it of both: of what a run knows from its fetch on, and   *)
(* of the rows. An export beside the jobs disturbs none of it, and shows   *)
(* one moment of the ledger.                                               *)
(***************************************************************************)
EXTENDS Telemetry, Numbers, TLAPS

Bound == {"fetch", "observe", "evaluate", "record", "conflict"}

Fetched == {"observe", "evaluate", "record", "conflict"}

\* Candles read up to a date are over, and are Kraken's own unless it corrects one.
Final(date, data) ==
  /\ date \in 0..(tail - 1)
  /\ revised \cap 0..date = {} => data = History(date)

Market ==
  /\ tail \in Nat \ {0}
  /\ candle \in [0..tail -> Data]

IsRun(r) ==
  r = [release |-> r.release, mode |-> r.mode, dir |-> r.dir,
       batch |-> r.batch, observed |-> r.observed]

\* A process runs in the directory of its release, and what it has fetched is final.
Knows(p) ==
  /\ IsRun(run[p])
  /\ pc[p] \in Bound => run[p].dir = run[p].release
  /\ pc[p] \in Fetched => Final(run[p].batch.date, run[p].batch.data)

Running ==
  /\ DOMAIN pc = Procs /\ DOMAIN run = Procs
  /\ pc = [p \in Procs |-> pc[p]] /\ run = [p \in Procs |-> run[p]]
  /\ \A p \in Procs : Knows(p)

Sound(row) == row.dir = row.release /\ Final(row.date, row.data)

Rows ==
  /\ ledger \in Seq({ledger[n] : n \in DOMAIN ledger})
  /\ \A row \in Decisions(ledger) : Sound(row)

IInv == Market /\ Running /\ Rows

-----------------------------------------------------------------------------

LEMMA Start0 == DailyInit => IInv
<1> SUFFICES ASSUME DailyInit PROVE IInv
  OBVIOUS
<1>1. Market
  BY DEF DailyInit, Market
<1>2. Running
  BY DEF DailyInit, Running, Knows, IsRun, Unread, Begun, Bound, Fetched
<1>3. Rows
  BY DEF DailyInit, Rows, Decisions
<1> QED
  BY <1>1, <1>2, <1>3 DEF IInv

\* An appended row is the only one that was not there before.
LEMMA Appended ==
  ASSUME NEW row, Rows, ledger' = Append(ledger, row)
  PROVE  /\ ledger' \in Seq({ledger'[n] : n \in DOMAIN ledger'})
         /\ \A r \in Decisions(ledger') :
              r \in Decisions(ledger) \/ (r = row /\ row.kind = "decision")
<1> DEFINE S == {ledger[n] : n \in DOMAIN ledger}
<1>1. ledger \in Seq(S) /\ ledger \in Seq(S \cup {row})
  BY DEF Rows
<1>2. /\ Len(ledger') = Len(ledger) + 1
      /\ DOMAIN ledger' = 1..(Len(ledger) + 1)
      /\ \A n \in 1..Len(ledger) : ledger'[n] = ledger[n]
      /\ ledger'[Len(ledger) + 1] = row
  BY <1>1
<1>3. ledger' \in Seq({ledger'[n] : n \in DOMAIN ledger'})
  BY <1>1, <1>2
<1>4. ASSUME NEW r \in Decisions(ledger')
      PROVE  r \in Decisions(ledger) \/ (r = row /\ row.kind = "decision")
  <2>1. PICK n \in DOMAIN ledger' : ledger'[n] = r /\ r.kind = "decision"
    BY DEF Decisions
  <2>2. CASE n = Len(ledger) + 1
    BY <2>1, <2>2, <1>2
  <2>3. CASE n \in 1..Len(ledger)
    BY <2>1, <2>3, <1>1, <1>2 DEF Decisions
  <2> QED
    BY <2>1, <2>2, <2>3, <1>1, <1>2
<1> QED
  BY <1>3, <1>4

\* The market moves behind what is over, or corrects it.
LEMMA MarketKeeps ==
  ASSUME Market, Roll \/ Trade \/ Revise \/ UNCHANGED market,
         NEW date, NEW data, Final(date, data)
  PROVE  Final(date, data)'
<1>1. CASE Roll
  <2>1. date \in 0..(tail' - 1) /\ revised' = revised
    BY <1>1 DEF Market, Roll, Final
  <2>2. PICK d \in Data : candle' = [n \in 0..tail' |-> IF n = tail' THEN d ELSE candle[n]]
    BY <1>1 DEF Roll
  <2>3. \A n \in 0..date : candle'[n] = candle[n]
    BY <1>1, <2>2 DEF Market, Roll, Final
  <2> QED
    BY <2>1, <2>3 DEF Final, History
<1>2. CASE Trade
  <2>1. \A n \in 0..date : candle'[n] = candle[n]
    BY <1>2 DEF Market, Trade, Final
  <2> QED
    BY <1>2, <2>1 DEF Trade, Final, History
<1>3. CASE Revise
  <2>1. PICK m \in 0..(tail - 1), d \in Data :
          revised' = {m} /\ candle' = [candle EXCEPT ![m] = d]
    BY <1>3 DEF Revise
  <2>2. revised = {} /\ tail' = tail
    BY <1>3 DEF Revise
  <2>3. CASE m \in 0..date
    BY <2>1, <2>2, <2>3 DEF Final
  <2>4. CASE m \notin 0..date
    <3>1. \A n \in 0..date : candle'[n] = candle[n]
      BY <2>1, <2>4 DEF Market, Final
    <3> QED
      BY <2>1, <2>2, <3>1 DEF Final, History
  <2> QED
    BY <2>3, <2>4
<1>4. CASE UNCHANGED market
  BY <1>4 DEF market, Final, History
<1> QED
  BY <1>1, <1>2, <1>3, <1>4

LEMMA MarketTyped ==
  ASSUME Market, Roll \/ Trade \/ Revise \/ UNCHANGED market
  PROVE  Market'
<1>1. CASE Roll
  <2>1. PICK d \in Data : candle' = [n \in 0..tail' |-> IF n = tail' THEN d ELSE candle[n]]
    BY <1>1 DEF Roll
  <2>2. tail' = tail + 1
    BY <1>1 DEF Roll
  <2> QED
    BY <2>1, <2>2 DEF Market
<1>2. CASE Trade
  BY <1>2 DEF Market, Trade
<1>3. CASE Revise
  BY <1>3 DEF Market, Revise
<1>4. CASE UNCHANGED market
  BY <1>4 DEF Market, market
<1> QED
  BY <1>1, <1>2, <1>3, <1>4

\* One process steps, and what it knows then is still good.
LEMMA ProcessKeeps ==
  ASSUME Running, NEW p \in Procs, NEW s, NEW r,
         pc' = [pc EXCEPT ![p] = s], run' = [run EXCEPT ![p] = r], UNCHANGED market,
         IsRun(r), s \in Bound => r.dir = r.release, s \in Fetched => Final(r.batch.date, r.batch.data)
  PROVE  Running'
<1>1. \A date, data : Final(date, data)' <=> Final(date, data)
  BY DEF market, Final, History
<1>2. pc'[p] = s /\ run'[p] = r
  BY DEF Running
<1>3. Knows(p)'
  BY <1>1, <1>2 DEF Knows, IsRun
<1>4. ASSUME NEW q \in Procs \ {p} PROVE Knows(q)'
  <2>1. pc'[q] = pc[q] /\ run'[q] = run[q]
    BY DEF Running
  <2> QED
    BY <1>1, <2>1 DEF Running, Knows, IsRun
<1> QED
  BY <1>3, <1>4 DEF Running

LEMMA LeaveKeeps ==
  ASSUME Running, NEW p \in Procs, NEW from, Leave(p, from), UNCHANGED market
  PROVE  Running'
<1>1. IsRun(Unread) /\ "idle" \notin Bound /\ "idle" \notin Fetched
  BY DEF IsRun, Unread, Begun, Bound, Fetched
<1> QED
  BY <1>1, ProcessKeeps DEF Leave, Goto

\* The ledger stays, and what the rows say stays final.
LEMMA RowsKept ==
  ASSUME Market, Rows, UNCHANGED ledger, Roll \/ Trade \/ Revise \/ UNCHANGED market
  PROVE  Rows'
BY MarketKeeps DEF Rows, Sound, Decisions

LEMMA RunsKept ==
  ASSUME Market, Running, UNCHANGED <<pc, run>>,
         Roll \/ Trade \/ Revise \/ UNCHANGED market
  PROVE  Running'
BY MarketKeeps DEF Running, Knows, IsRun

-----------------------------------------------------------------------------

LEMMA RunStarts ==
  ASSUME IInv, NEW p \in Procs, Start(p)
  PROVE  Running'
<1>1. PICK m \in Modes :
        run' = [run EXCEPT ![p] = Begun(env, m)]
  BY DEF Start
<1>2. pc' = [pc EXCEPT ![p] = "bind"]
  BY DEF Start, Goto
<1>3. IsRun(Begun(env, m))
  BY DEF IsRun, Begun
<1>4. "bind" \notin Bound /\ "bind" \notin Fetched
  BY DEF Bound, Fetched
<1> QED
  BY <1>1, <1>2, <1>3, <1>4, ProcessKeeps DEF IInv, Start

LEMMA RunBinds ==
  ASSUME IInv, NEW p \in Procs, Bind(p)
  PROVE  Running'
<1>1. CASE Leave(p, "bind")
  BY <1>1, LeaveKeeps DEF IInv, Bind
<1>2. CASE /\ current = run[p].release
           /\ Goto(p, "bind", "fetch")
           /\ run' = [run EXCEPT ![p].dir = current]
  <2> DEFINE r == [run[p] EXCEPT !.dir = current]
  <2>1. run' = [run EXCEPT ![p] = r]
    BY <1>2
  <2>2. IsRun(run[p])
    BY DEF IInv, Running, Knows
  <2>3. IsRun(r) /\ r.dir = current /\ r.release = run[p].release
    BY <2>2 DEF IsRun
  <2>4. "fetch" \notin Fetched
    BY DEF Fetched
  <2> HIDE DEF r
  <2> QED
    BY <1>2, <2>1, <2>3, <2>4, ProcessKeeps DEF IInv, Bind, Goto
<1> QED
  BY <1>1, <1>2 DEF Bind

LEMMA RunFetches ==
  ASSUME IInv, NEW p \in Procs, Fetch(p)
  PROVE  Running'
<1>1. CASE Leave(p, "fetch")
  BY <1>1, LeaveKeeps DEF IInv, Fetch
<1>2. CASE /\ Goto(p, "fetch", "observe")
           /\ run' = [run EXCEPT ![p].batch =
                        [date |-> Completed, data |-> History(Completed)]]
  <2> DEFINE b == [date |-> Completed, data |-> History(Completed)]
             r == [run[p] EXCEPT !.batch = b]
  <2>1. run' = [run EXCEPT ![p] = r]
    BY <1>2
  <2>2. IsRun(run[p]) /\ run[p].dir = run[p].release
    BY <1>2 DEF IInv, Running, Knows, Goto, Bound
  <2>3. Final(b.date, b.data)
    BY DEF Final, Completed, IInv, Market
  <2> HIDE DEF b
  <2>4. IsRun(r) /\ r.dir = r.release /\ r.batch = b
    BY <2>2 DEF IsRun
  <2> HIDE DEF r
  <2> QED
    BY <1>2, <2>1, <2>3, <2>4, ProcessKeeps DEF IInv, Fetch, Goto
<1> QED
  BY <1>1, <1>2 DEF Fetch

\* Neither the time of the observation nor the verdict on it changes what is known.
LEMMA RunKnowsOn ==
  ASSUME IInv, NEW p \in Procs, pc[p] \in Fetched, NEW s, NEW o,
         pc' = [pc EXCEPT ![p] = s], run' = [run EXCEPT ![p].observed = o], UNCHANGED market
  PROVE  Running'
<1> DEFINE r == [run[p] EXCEPT !.observed = o]
<1>1. run' = [run EXCEPT ![p] = r]
  OBVIOUS
<1>2. IsRun(run[p]) /\ run[p].dir = run[p].release /\ Final(run[p].batch.date, run[p].batch.data)
  BY DEF IInv, Running, Knows, Bound, Fetched
<1>3. IsRun(r) /\ r.dir = run[p].dir /\ r.release = run[p].release
  BY <1>2 DEF IsRun
<1>4. r.batch = run[p].batch
  BY <1>2 DEF IsRun
<1> HIDE DEF r
<1> QED
  BY <1>1, <1>2, <1>3, <1>4, ProcessKeeps DEF IInv

LEMMA RunEvaluates ==
  ASSUME IInv, NEW p \in Procs, Observe(p) \/ Evaluate(p)
  PROVE  Running'
<1>1. CASE Observe(p)
  <2>1. pc[p] \in Fetched
    BY <1>1 DEF Observe, Goto, Fetched
  <2> QED
    BY <1>1, <2>1, RunKnowsOn DEF Observe, Goto
<1>2. CASE Evaluate(p)
  <2>1. pc[p] \in Fetched
    BY <1>2 DEF Evaluate, Fetched
  <2>2. CASE Leave(p, "evaluate")
    BY <1>2, <2>2, LeaveKeeps DEF IInv, Evaluate
  <2>3. CASE /\ Goto(p, "evaluate", "record")
             /\ run' = [run EXCEPT ![p].observed = Unknown]
    BY <1>2, <2>1, <2>3, RunKnowsOn DEF Evaluate, Goto
  <2> QED
    BY <1>2, <2>2, <2>3 DEF Evaluate
<1> QED
  BY <1>1, <1>2

\* A row says what its run knew.
LEMMA RunRecords ==
  ASSUME IInv, NEW p \in Procs, Record(p)
  PROVE  Running' /\ Rows'
<1>1. /\ pc[p] = "record" /\ UNCHANGED market
      /\ Running /\ Rows /\ Market
      /\ run[p].dir = run[p].release /\ Final(run[p].batch.date, run[p].batch.data)
  BY DEF IInv, Record, Running, Knows, Bound, Fetched
<1>2. \A date, data : Final(date, data) => Final(date, data)'
  BY <1>1, MarketKeeps
<1>3. CASE Leave(p, "record") /\ ledger' = Append(ledger, Decision(run[p]))
  <2>1. Running'
    BY <1>1, <1>3, LeaveKeeps
  <2> PICK row : row = Decision(run[p])
    OBVIOUS
  <2>2. Sound(row)'
    <3>1. row.dir = row.release /\ Final(row.date, row.data)
      BY <1>1 DEF Decision
    <3> QED
      BY <1>2, <3>1 DEF Sound
  <2>3. \A r \in Decisions(ledger') : r \in Decisions(ledger) \/ r = row
    BY <1>1, <1>3, Appended
  <2>4. \A r \in Decisions(ledger') : Sound(r)'
    BY <1>1, <1>2, <2>2, <2>3 DEF Rows, Sound
  <2>5. ledger' \in Seq({ledger'[n] : n \in DOMAIN ledger'})
    BY <1>1, <1>3, Appended
  <2> QED
    BY <2>1, <2>4, <2>5 DEF Rows, Decisions
<1>4. CASE Leave(p, "record") /\ UNCHANGED ledger
  BY <1>1, <1>4, LeaveKeeps, RowsKept
<1>5. CASE Goto(p, "record", "conflict") /\ UNCHANGED <<run, ledger>>
  <2>1. run' = [run EXCEPT ![p] = run[p]] /\ pc' = [pc EXCEPT ![p] = "conflict"]
    BY <1>1, <1>5 DEF Goto, Running
  <2>2. IsRun(run[p])
    BY <1>1 DEF Running, Knows
  <2>3. Running'
    BY <1>1, <2>1, <2>2, ProcessKeeps
  <2> QED
    BY <1>1, <1>5, <2>3, RowsKept
<1> QED
  BY <1>3, <1>4, <1>5 DEF Record

LEMMA JobAppends ==
  ASSUME IInv, Reconcile
  PROVE  Rows'
<1>1. PICK row : ledger' = Append(ledger, row) /\ row.kind # "decision"
  <2>1. PICK o : ledger' = Append(ledger, [kind |-> "reconciliation", observed |-> o])
    BY DEF Reconcile
  <2>2. [kind |-> "reconciliation", observed |-> o].kind # "decision"
    OBVIOUS
  <2> QED
    BY <2>1, <2>2
<1>2. \A r \in Decisions(ledger') : r \in Decisions(ledger)
  BY <1>1, Appended DEF IInv
<1>3. ledger' \in Seq({ledger'[n] : n \in DOMAIN ledger'})
  BY <1>1, Appended DEF IInv
<1>4. \A r \in Decisions(ledger') : Sound(r)'
  BY <1>2, MarketKeeps DEF IInv, Rows, Sound, Reconcile
<1> QED
  BY <1>3, <1>4 DEF Rows, Decisions

LEMMA Inductive == IInv /\ [DailyNext]_dailyVars => IInv'
<1> SUFFICES ASSUME IInv, [DailyNext]_dailyVars PROVE IInv'
  OBVIOUS
<1> USE DEF IInv
<1>1. CASE Roll \/ Trade \/ Revise
  <2>1. UNCHANGED <<pc, run, ledger>>
    BY <1>1 DEF Roll, Trade, Revise
  <2> QED
    BY <1>1, <2>1, MarketTyped, RunsKept, RowsKept
<1>2. CASE Deploy \/ Tick \/ SetClock \/ UNCHANGED dailyVars
  <2>1. UNCHANGED <<pc, run, ledger>> /\ UNCHANGED market
    BY <1>2 DEF Deploy, Tick, SetClock, dailyVars
  <2> QED
    BY <2>1, MarketTyped, RunsKept, RowsKept
<1>3. CASE Reconcile
  <2>1. UNCHANGED <<pc, run>> /\ UNCHANGED market
    BY <1>3 DEF Reconcile
  <2> QED
    BY <1>3, <2>1, MarketTyped, RunsKept, JobAppends
<1>4. ASSUME NEW p \in Procs, Start(p) \/ DailyStep(p) \/ Crash(p)
      PROVE  IInv'
  <2>1. CASE Record(p)
    <3>1. UNCHANGED market
      BY <2>1 DEF Record
    <3> QED
      BY <2>1, <3>1, MarketTyped, RunRecords
  <2>2. CASE Start(p) \/ Bind(p) \/ Fetch(p) \/ Observe(p) \/ Evaluate(p) \/ Crash(p)
    <3>1. UNCHANGED market /\ UNCHANGED ledger
      BY <2>2 DEF Start, Bind, Fetch, Observe, Evaluate, Crash
    <3>2. CASE Crash(p)
      BY <3>1, <3>2, LeaveKeeps, MarketTyped, RowsKept DEF Crash
    <3> QED
      BY <2>2, <3>1, <3>2, MarketTyped, RowsKept,
         RunStarts, RunBinds, RunFetches, RunEvaluates
  <2> QED
    BY <1>4, <2>1, <2>2 DEF DailyStep
<1> QED
  BY <1>1, <1>2, <1>3, <1>4 DEF DailyNext

\* A decision in the ledger rests on candles that are over and on the release it
\* names, whatever the clocks, the market, a deployment or a crash do.
THEOREM DecisionsAreFinal == DailySpec => []DecisionIsFinal
<1>1. IInv => DecisionIsFinal
  BY DEF IInv, Rows, Sound, Final, DecisionIsFinal
<1> QED
  BY <1>1, Start0, Inductive, PTL DEF DailySpec

-----------------------------------------------------------------------------

\* The row that refused a run, and why.
Refuses(row, p) ==
  /\ row.date = run[p].batch.date
  /\ \/ row.release # run[p].release
     \/ row.mode # run[p].mode
     \/ revised \cap 0..row.date # {}

Conflicts ==
  \A p \in Procs : pc[p] = "conflict" => \E row \in Decisions(ledger) : Refuses(row, p)

\* Every step appends a row to the ledger or leaves it as it is.
LEMMA LedgerAppends ==
  ASSUME [DailyNext]_dailyVars
  PROVE  UNCHANGED ledger \/ \E row : ledger' = Append(ledger, row)
<1>1. ASSUME NEW p \in Procs, Start(p) \/ DailyStep(p) \/ Crash(p)
      PROVE  UNCHANGED ledger \/ \E row : ledger' = Append(ledger, row)
  BY <1>1 DEF Start, DailyStep, Bind, Fetch, Observe, Evaluate, Record, Crash
<1>2. CASE Reconcile
  BY <1>2 DEF Reconcile
<1> QED
  BY <1>1, <1>2 DEF DailyNext, Roll, Trade, Revise, Deploy, Tick, SetClock, dailyVars

LEMMA Grows ==
  ASSUME Rows, [DailyNext]_dailyVars
  PROVE  Decisions(ledger) \subseteq Decisions(ledger')
<1>1. CASE UNCHANGED ledger
  BY <1>1
<1>2. ASSUME NEW row, ledger' = Append(ledger, row)
      PROVE  Decisions(ledger) \subseteq Decisions(ledger')
  <2>1. /\ DOMAIN ledger = 1..Len(ledger) /\ DOMAIN ledger' = 1..(Len(ledger) + 1)
        /\ Len(ledger) \in Nat
        /\ \A n \in DOMAIN ledger : ledger'[n] = ledger[n]
    BY <1>2 DEF Rows
  <2>2. DOMAIN ledger \subseteq DOMAIN ledger'
    BY <2>1
  <2> QED
    BY <2>1, <2>2 DEF Decisions
<1> QED
  BY <1>1, <1>2, LedgerAppends

\* A correction is never taken back: the model has one.
LEMMA CorrectionStays ==
  ASSUME [DailyNext]_dailyVars
  PROVE  revised = {} \/ revised' = revised
BY DEF DailyNext, Roll, Trade, Revise, Deploy, Tick, SetClock, Reconcile, Start, DailyStep,
       Bind, Fetch, Observe, Evaluate, Record, Crash, dailyVars, market

\* A process in conflict either stays as it is, or was just refused.
LEMMA OnlyRecordConflicts ==
  ASSUME Running, [DailyNext]_dailyVars, NEW p \in Procs, pc'[p] = "conflict"
  PROVE  \/ pc[p] = "conflict" /\ run'[p] = run[p]
         \/ pc[p] = "record" /\ Record(p) /\ run'[p] = run[p]
<1>1. CASE UNCHANGED <<pc, run>>
  BY <1>1
<1>2. ASSUME NEW q \in Procs, Start(q) \/ DailyStep(q) \/ Crash(q)
      PROVE  \/ pc[p] = "conflict" /\ run'[p] = run[p]
             \/ pc[p] = "record" /\ Record(p) /\ run'[p] = run[p]
  <2>1. ASSUME q # p PROVE pc'[p] = pc[p] /\ run'[p] = run[p]
    BY <1>2, <2>1 DEF Running, Start, DailyStep, Bind, Fetch, Observe, Evaluate, Record,
                      Crash, Leave, Goto
  <2>2. ASSUME q = p PROVE pc[p] = "record" /\ Record(p) /\ run'[p] = run[p]
    BY <1>2, <2>2 DEF Running, Start, DailyStep, Bind, Fetch, Observe, Evaluate, Record,
                      Crash, Leave, Goto
  <2> QED
    BY <2>1, <2>2
<1>3. CASE Roll \/ Trade \/ Revise \/ Deploy \/ Tick \/ SetClock \/ Reconcile
           \/ UNCHANGED dailyVars
  BY <1>1, <1>3 DEF Roll, Trade, Revise, Deploy, Tick, SetClock, Reconcile, dailyVars
<1> QED
  BY <1>2, <1>3 DEF DailyNext

\* Two final accounts of one date are the same.
LEMMA ConflictKeeps ==
  IInv /\ Conflicts /\ [DailyNext]_dailyVars => Conflicts'
<1> SUFFICES ASSUME IInv, Conflicts, [DailyNext]_dailyVars,
                    NEW p \in Procs, pc'[p] = "conflict"
             PROVE  \E row \in Decisions(ledger') : Refuses(row, p)'
  BY DEF Conflicts, Decisions
<1>1. ASSUME NEW row \in Decisions(ledger), Refuses(row, p), run'[p] = run[p]
      PROVE  row \in Decisions(ledger') /\ Refuses(row, p)'
  BY <1>1, Grows, CorrectionStays DEF IInv, Refuses
<1>2. CASE pc[p] = "conflict" /\ run'[p] = run[p]
  BY <1>1, <1>2 DEF Conflicts
<1>3. CASE pc[p] = "record" /\ Record(p) /\ run'[p] = run[p]
  <2>1. pc'[p] # "idle"
    OBVIOUS
  <2>2. ~Leave(p, "record")
    BY <2>1 DEF Leave, Goto, IInv, Running
  <2>3. PICK row \in Decisions(ledger) : row.date = run[p].batch.date /\ ~Same(row, run[p])
    BY <1>3, <2>2 DEF Record
  <2>4. Final(row.date, row.data) /\ Final(run[p].batch.date, run[p].batch.data)
    BY <1>3, <2>3 DEF IInv, Rows, Sound, Running, Knows, Fetched
  <2>5. Refuses(row, p)
    BY <2>3, <2>4 DEF Refuses, Same, Final
  <2> QED
    BY <1>1, <1>3, <2>5
<1> QED
  BY <1>2, <1>3, OnlyRecordConflicts DEF IInv

\* A retry is refused only if the release, the mode or Kraken's account of a
\* finished day has changed since the decision of its date was recorded.
THEOREM RetriesFindTheirDecision == DailySpec => []RetryFindsItsDecision
<1>1. DailyInit => Conflicts
  BY DEF DailyInit, Conflicts
<1>2. Conflicts => RetryFindsItsDecision
  BY DEF Conflicts, Refuses, RetryFindsItsDecision
<1> QED
  BY <1>1, <1>2, Start0, Inductive, ConflictKeeps, PTL DEF DailySpec

-----------------------------------------------------------------------------
(* The export beside the jobs                                              *)

\* What an export has read is of the rows that its first query saw.
Draft ==
  /\ draft = [counts |-> draft.counts, signals |-> draft.signals, latest |-> draft.latest]
  /\ stage # "idle" => draft.counts = Counts(View)
  /\ stage \in {"reconciliation", "publish"} => draft.signals = Signals(View)
  /\ stage = "publish" => draft.latest = Latest(View)

ExportInv ==
  /\ stage \in {"idle", "signals", "reconciliation", "publish"}
  /\ view \in 0..Len(ledger)
  /\ Draft
  /\ PublishedIsOneMoment

LEMMA ExportInit == Init => ExportInv
<1> SUFFICES ASSUME Init PROVE ExportInv
  OBVIOUS
<1>1. ledger = <<>> /\ stage = "idle" /\ view = 0 /\ draft = NoDraft /\ published = {}
  BY DEF Init, DailyInit
<1>2. view \in 0..Len(ledger)
  BY <1>1
<1> QED
  BY <1>1, <1>2 DEF ExportInv, Draft, NoDraft, PublishedIsOneMoment

\* A row that is appended is behind every moment that was shown or is read.
LEMMA PrefixStays ==
  ASSUME NEW row, Rows, ledger' = Append(ledger, row), NEW n \in 0..Len(ledger)
  PROVE  n \in 0..Len(ledger') /\ SubSeq(ledger', 1, n) = SubSeq(ledger, 1, n)
<1>1. ledger \in Seq({ledger[m] : m \in DOMAIN ledger} \cup {row})
  BY DEF Rows
<1>2. Len(ledger') = Len(ledger) + 1 /\ \A m \in 1..Len(ledger) : ledger'[m] = ledger[m]
  BY <1>1
<1> QED
  BY <1>1, <1>2

LEMMA JobsKeep ==
  ASSUME Rows, ExportInv, [DailyNext]_dailyVars, UNCHANGED <<stage, view, draft, published>>
  PROVE  ExportInv'
<1>1. \A n \in 0..Len(ledger) : n \in 0..Len(ledger') /\ SubSeq(ledger', 1, n) = SubSeq(ledger, 1, n)
  BY LedgerAppends, PrefixStays
<1>2. view' \in 0..Len(ledger') /\ View' = View
  BY <1>1 DEF ExportInv, View
<1>3. Draft'
  BY <1>2 DEF ExportInv, Draft
<1>4. PublishedIsOneMoment'
  BY <1>1 DEF ExportInv, PublishedIsOneMoment
<1> QED
  BY <1>2, <1>3, <1>4 DEF ExportInv

\* Every ledger is its own prefix.
LEMMA WholeLedger ==
  ASSUME Rows
  PROVE  Len(ledger) \in 0..Len(ledger) /\ SubSeq(ledger, 1, Len(ledger)) = ledger
BY DEF Rows

LEMMA ExportKeeps ==
  ASSUME Rows, ExportInv, Export
  PROVE  ExportInv'
<1>1. UNCHANGED ledger
  BY DEF Export, ReadCounts, ReadSignals, ReadReconciliation, Publish, Abandon, dailyVars
<1>2. CASE ReadCounts
  <2>1. /\ stage' = "signals" /\ view' = Len(ledger)
        /\ draft' = [counts |-> Counts(ledger), signals |-> NoDraft.signals, latest |-> NoDraft.latest]
    BY <1>2 DEF ReadCounts, To, NoDraft
  <2>2. View' = ledger /\ view' \in 0..Len(ledger')
    BY <1>1, <2>1, WholeLedger DEF View
  <2>3. Draft'
    BY <1>1, <2>1, <2>2 DEF Draft
  <2> QED
    BY <1>1, <1>2, <2>1, <2>2, <2>3 DEF ReadCounts, ExportInv, PublishedIsOneMoment
<1>3. CASE ReadSignals
  <2>1. /\ stage = "signals" /\ stage' = "reconciliation" /\ view' = view
        /\ draft' = [counts |-> draft.counts, signals |-> Signals(View), latest |-> draft.latest]
    BY <1>3 DEF ReadSignals, To, ExportInv, Draft
  <2>2. Draft'
    BY <1>1, <2>1 DEF ExportInv, Draft, View
  <2> QED
    BY <1>1, <1>3, <2>1, <2>2 DEF ReadSignals, ExportInv, PublishedIsOneMoment
<1>4. CASE ReadReconciliation
  <2>1. /\ stage = "reconciliation" /\ stage' = "publish" /\ view' = view
        /\ draft' = [counts |-> draft.counts, signals |-> draft.signals, latest |-> Latest(View)]
    BY <1>4 DEF ReadReconciliation, To, ExportInv, Draft
  <2>2. Draft'
    BY <1>1, <2>1 DEF ExportInv, Draft, View
  <2> QED
    BY <1>1, <1>4, <2>1, <2>2 DEF ReadReconciliation, ExportInv, PublishedIsOneMoment
<1>5. CASE Publish
  <2>1. /\ stage = "publish" /\ stage' = "idle" /\ view' = 0
        /\ draft' = NoDraft /\ published' = {draft}
    BY <1>5 DEF Publish, To
  <2>2. draft = [counts |-> Counts(View), signals |-> Signals(View), latest |-> Latest(View)]
    BY <2>1 DEF ExportInv, Draft
  <2>3. PublishedIsOneMoment'
    BY <1>1, <2>1, <2>2 DEF ExportInv, PublishedIsOneMoment, View
  <2> QED
    BY <1>1, <2>1, <2>3, WholeLedger DEF ExportInv, Draft, NoDraft
<1>6. CASE Abandon
  <2>1. stage' = "idle" /\ view' = 0 /\ draft' = NoDraft /\ UNCHANGED published
    BY <1>6 DEF Abandon
  <2> QED
    BY <1>1, <2>1, WholeLedger DEF ExportInv, Draft, NoDraft, PublishedIsOneMoment
<1> QED
  BY <1>2, <1>3, <1>4, <1>5, <1>6 DEF Export

\* The export is a step of no job.
LEMMA ExportDisturbsNothing ==
  ASSUME [Next]_vars
  PROVE  [DailyNext]_dailyVars
BY DEF Next, vars, Export, ReadCounts, ReadSignals, ReadReconciliation, Publish, Abandon

LEMMA ExportStep == Rows /\ ExportInv /\ [Next]_vars => ExportInv'
<1>1. ASSUME Rows, ExportInv, DailyNext, UNCHANGED <<stage, view, draft, published>>
      PROVE  ExportInv'
  BY <1>1, JobsKeep
<1>2. ASSUME Rows, ExportInv, UNCHANGED vars PROVE ExportInv'
  BY <1>2, JobsKeep DEF vars
<1> QED
  BY <1>1, <1>2, ExportKeeps DEF Next

\* The dashboard's file (export_dashboard_snapshot, write_dashboard_snapshot) shows
\* one moment of the ledger, for any processes, rows and signal limit, though the
\* jobs append between the queries of the export.
THEOREM PublishedFilesAreOneMoment == Spec => []PublishedIsOneMoment
<1>1. Init => IInv
  BY Start0 DEF Init
<1>2. IInv /\ [Next]_vars => IInv'
  BY Inductive, ExportDisturbsNothing
<1>3. IInv => Rows
  BY DEF IInv
<1>4. ExportInv => PublishedIsOneMoment
  BY DEF ExportInv
<1> QED
  BY <1>1, <1>2, <1>3, <1>4, ExportInit, ExportStep, PTL DEF Spec

\* Beside the export the jobs do what they do alone, so what is proved of DailySpec
\* holds of the composition (export_dashboard_snapshot only reads the ledger).
THEOREM JobsUndisturbed == Spec => DailySpec
<1>1. Init => DailyInit
  BY DEF Init
<1>2. [Next]_vars => [DailyNext]_dailyVars
  BY ExportDisturbsNothing
<1> QED
  BY <1>1, <1>2, PTL DEF Spec, DailySpec

-----------------------------------------------------------------------------
(* Types                                                                   *)

Stages == Ended \cup {"bind", "fetch", "observe", "evaluate", "record"}

\* What a run holds at a stage.
Holds(r, s) ==
  /\ s \in Stages
  /\ s \in Fetched => r.batch.data \in [0..r.batch.date -> Data]
  /\ s = "evaluate" => r.observed \in Int

Clocked == time \in Nat /\ skew \in Skews /\ tail <= time \div Day

\* No two decisions are of one day.
OneADay == \A r, s \in Decisions(ledger) : r.date = s.date => r = s

TypeInv ==
  /\ Clocked
  /\ revised \subseteq 0..(tail - 1)
  /\ env \in Releases /\ current \in Releases
  /\ \A p \in Procs : Holds(run[p], pc[p])
  /\ OneADay

\* A day takes time.
LEMMA DaysPass ==
  ASSUME NEW t \in Nat
  PROVE  t \div Day \in Nat /\ t \div Day <= (t + 1) \div Day /\ Day \div Day = 1
PROOF
<1>1. Day \in Nat \ {0}
  BY DailyAssumption
<1>2. /\ t \div Day \in Nat /\ (t + 1) \div Day \in Nat
      /\ (t \div Day) * Day <= t /\ t + 1 < ((t + 1) \div Day) * Day + Day
  BY <1>1
<1> DEFINE a == t \div Day
           c == (t + 1) \div Day
<1>3. a \in Nat /\ c \in Nat /\ a * Day <= t /\ t + 1 < c * Day + Day
  BY <1>2
<1> HIDE DEF a, c
<1>4. ASSUME c < a PROVE FALSE
  <2>1. PICK e \in Nat : a = c + 1 + e
    <3>1. a - c - 1 \in Nat /\ a = c + 1 + (a - c - 1)
      BY <1>3, <1>4
    <3> QED
      BY <3>1
  <2>2. a * Day = c * Day + Day + e * Day /\ e * Day >= 0
    BY <1>1, <1>3, <2>1
  <2>3. a * Day \in Nat /\ c * Day \in Nat
    BY <1>1, <1>3
  <2> QED
    BY <1>1, <1>3, <2>2, <2>3
<1>5. a <= c
  BY <1>3, <1>4
<1>6. Day \div Day = 1
  BY <1>1
<1> QED
  BY <1>2, <1>5, <1>6 DEF a, c

\* One process steps.
LEMMA ProcessTyped ==
  ASSUME Running, TypeInv, NEW p \in Procs, NEW s, NEW r, Holds(r, s),
         pc' = [pc EXCEPT ![p] = s], run' = [run EXCEPT ![p] = r],
         UNCHANGED <<time, skew, market, deploy>>, OneADay'
  PROVE  TypeInv'
PROOF
<1>1. pc'[p] = s /\ run'[p] = r
  BY DEF Running
<1>2. \A q \in Procs \ {p} : pc'[q] = pc[q] /\ run'[q] = run[q]
  BY DEF Running
<1>3. \A q \in Procs : Holds(run'[q], pc'[q])
  BY <1>1, <1>2 DEF TypeInv
<1> QED
  BY <1>3 DEF TypeInv, Clocked, market, deploy, Holds

LEMMA LeaveTyped ==
  ASSUME Running, TypeInv, NEW p \in Procs, NEW from, Leave(p, from),
         UNCHANGED <<time, skew, market, deploy>>, OneADay'
  PROVE  TypeInv'
PROOF
<1>1. Holds(Unread, "idle")
  BY DEF Holds, Stages, Ended, Fetched
<1> QED
  BY <1>1, ProcessTyped DEF Leave, Goto

LEMMA RunTyped ==
  ASSUME IInv, TypeInv, NEW p \in Procs,
         Start(p) \/ Bind(p) \/ Fetch(p) \/ Observe(p) \/ Evaluate(p) \/ Crash(p)
  PROVE  TypeInv'
PROOF
<1>1. Running /\ UNCHANGED <<time, skew, market, deploy, ledger>>
  BY DEF IInv, Start, Bind, Fetch, Observe, Evaluate, Crash
<1>2. OneADay'
  BY <1>1 DEF TypeInv, OneADay, Decisions
<1>3. CASE \E from : Leave(p, from)
  BY <1>1, <1>2, <1>3, LeaveTyped
<1>4. CASE Start(p)
  <2>1. PICK m \in Modes : run' = [run EXCEPT ![p] = Begun(env, m)]
    BY <1>4 DEF Start
  <2>2. pc' = [pc EXCEPT ![p] = "bind"]
    BY <1>4 DEF Start, Goto
  <2>3. Holds(Begun(env, m), "bind")
    BY DEF Holds, Stages, Fetched
  <2> QED
    BY <1>1, <1>2, <2>1, <2>2, <2>3, ProcessTyped
<1>5. CASE Goto(p, "bind", "fetch") /\ run' = [run EXCEPT ![p].dir = current]
  <2> PICK r : r = [run[p] EXCEPT !.dir = current]
    OBVIOUS
  <2>1. run' = [run EXCEPT ![p] = r] /\ pc' = [pc EXCEPT ![p] = "fetch"]
    BY <1>5 DEF Goto
  <2>2. Holds(r, "fetch")
    BY DEF Holds, Stages, Fetched
  <2> QED
    BY <1>1, <1>2, <2>1, <2>2, ProcessTyped
<1>6. CASE /\ Goto(p, "fetch", "observe")
           /\ run' = [run EXCEPT ![p].batch = [date |-> Completed, data |-> History(Completed)]]
  <2> PICK batch : batch = [date |-> Completed, data |-> History(Completed)]
    OBVIOUS
  <2> PICK r : r = [run[p] EXCEPT !.batch = batch]
    OBVIOUS
  <2>1. run' = [run EXCEPT ![p] = r] /\ pc' = [pc EXCEPT ![p] = "observe"]
    BY <1>6 DEF Goto
  <2>2. IsRun(run[p])
    BY <1>1 DEF Running, Knows
  <2>3. r.batch = batch
    BY <2>2 DEF IsRun
  <2>4. batch.data \in [0..batch.date -> Data]
    BY DEF IInv, Market, Completed, History
  <2>5. Holds(r, "observe")
    BY <2>3, <2>4 DEF Holds, Stages
  <2> QED
    BY <1>1, <1>2, <2>1, <2>5, ProcessTyped
<1>7. ASSUME NEW s, NEW o, pc[p] \in Fetched, s \in Stages, s = "evaluate" => o \in Int,
             pc' = [pc EXCEPT ![p] = s], run' = [run EXCEPT ![p].observed = o]
      PROVE  TypeInv'
  <2> PICK r : r = [run[p] EXCEPT !.observed = o]
    OBVIOUS
  <2>1. run' = [run EXCEPT ![p] = r]
    BY <1>7
  <2>2. IsRun(run[p])
    BY <1>1 DEF Running, Knows
  <2>3. r.batch = run[p].batch /\ r.observed = o
    BY <2>2 DEF IsRun
  <2>4. Holds(r, s)
    BY <1>7, <2>3 DEF Holds, TypeInv
  <2> QED
    BY <1>1, <1>2, <1>7, <2>1, <2>4, ProcessTyped
<1>8. CASE Observe(p)
  <2>1. HostTime \in Int
    BY DailyAssumption DEF TypeInv, Clocked, HostTime
  <2>2. pc[p] \in Fetched /\ "evaluate" \in Stages
    BY <1>8 DEF Observe, Goto, Fetched, Stages
  <2> QED
    BY <1>7, <1>8, <2>1, <2>2 DEF Observe, Goto
<1>9. CASE Goto(p, "evaluate", "record") /\ run' = [run EXCEPT ![p].observed = Unknown]
  <2>1. pc[p] \in Fetched /\ "record" \in Stages
    BY <1>9 DEF Goto, Fetched, Stages
  <2> QED
    BY <1>7, <1>9, <2>1 DEF Goto
<1> QED
  BY <1>3, <1>4, <1>5, <1>6, <1>8, <1>9 DEF Bind, Fetch, Evaluate, Crash

\* A decision is recorded only if its day has none.
LEMMA RecordTyped ==
  ASSUME IInv, TypeInv, NEW p \in Procs, Record(p)
  PROVE  TypeInv'
PROOF
<1>1. Running /\ Rows /\ pc[p] = "record" /\ UNCHANGED <<time, skew, market, deploy>>
  BY DEF IInv, Record
<1>2. CASE UNCHANGED ledger
  <2>1. OneADay'
    BY <1>2 DEF TypeInv, OneADay, Decisions
  <2>2. CASE Leave(p, "record")
    BY <1>1, <2>1, <2>2, LeaveTyped
  <2>3. CASE Goto(p, "record", "conflict") /\ UNCHANGED run
    <3>1. run' = [run EXCEPT ![p] = run[p]] /\ pc' = [pc EXCEPT ![p] = "conflict"]
      BY <1>1, <2>3 DEF Goto, Running
    <3>2. Holds(run[p], "conflict")
      BY <1>1 DEF TypeInv, Holds, Fetched, Stages, Ended
    <3> QED
      BY <1>1, <2>1, <3>1, <3>2, ProcessTyped
  <2>4. CASE \E row : ledger' = Append(ledger, row)
    <3>1. Len(ledger') = Len(ledger) + 1 /\ Len(ledger) \in Nat
      BY <1>1, <2>4 DEF Rows
    <3> QED
      BY <1>2, <3>1
  <2> QED
    BY <2>2, <2>3, <2>4 DEF Record
<1>3. CASE /\ \A row \in Decisions(ledger) : row.date # run[p].batch.date
           /\ ledger' = Append(ledger, Decision(run[p])) /\ Leave(p, "record")
  <2> PICK row : row = Decision(run[p])
    OBVIOUS
  <2>1. row.date = run[p].batch.date
    BY DEF Decision
  <2>2. \A r \in Decisions(ledger') : r \in Decisions(ledger) \/ r = row
    BY <1>1, <1>3, Appended
  <2>3. OneADay'
    <3>1. \A r, s \in Decisions(ledger') : r.date = s.date => r = s
      BY <1>3, <2>1, <2>2 DEF TypeInv, OneADay
    <3> QED
      BY <3>1 DEF OneADay, Decisions
  <2> QED
    BY <1>1, <1>3, <2>3, LeaveTyped
<1> QED
  BY <1>2, <1>3 DEF Record

LEMMA TypeStep ==
  IInv /\ TypeInv /\ [DailyNext]_dailyVars => TypeInv'
PROOF
<1> SUFFICES ASSUME IInv, TypeInv, [DailyNext]_dailyVars PROVE TypeInv'
  OBVIOUS
<1>1. tail \in Nat \ {0} /\ candle \in [0..tail -> Data]
  BY DEF IInv, Market
<1>2. ASSUME UNCHANGED <<pc, run>> PROVE \A p \in Procs : Holds(run'[p], pc'[p])
  BY <1>2 DEF TypeInv
<1>3. ASSUME UNCHANGED ledger PROVE OneADay'
  BY <1>3 DEF TypeInv, OneADay, Decisions
<1>4. CASE Roll
  <2>1. /\ tail' = tail + 1 /\ tail < time \div Day
        /\ UNCHANGED <<time, skew, revised, env, current, ledger, pc, run>>
    BY <1>4 DEF Roll, deploy
  <2>2. time \div Day \in Nat
    BY DaysPass DEF TypeInv, Clocked
  <2>3. tail' <= time' \div Day
    <3>1. tail + 1 <= time \div Day
      BY <1>1, <2>1, <2>2
    <3> QED
      BY <2>1, <3>1
  <2>4. revised' \subseteq 0..(tail' - 1)
    BY <1>1, <2>1 DEF TypeInv
  <2> QED
    BY <1>2, <1>3, <2>1, <2>3, <2>4 DEF TypeInv, Clocked, Holds
<1>5. CASE Trade
  BY <1>2, <1>3, <1>5 DEF Trade, TypeInv, Clocked, deploy, Holds
<1>6. CASE Revise
  BY <1>2, <1>3, <1>6 DEF Revise, TypeInv, Clocked, deploy, Holds
<1>7. CASE Deploy
  BY <1>2, <1>3, <1>7 DEF Deploy, TypeInv, Clocked, market, Holds
<1>8. CASE Tick
  <2>1. time' = time + 1 /\ UNCHANGED <<skew, tail, revised, env, current, ledger, pc, run>>
    BY <1>8 DEF Tick, market, deploy
  <2>2. time \div Day <= (time + 1) \div Day /\ time \div Day \in Nat /\ (time + 1) \div Day \in Nat
    BY DaysPass DEF TypeInv, Clocked
  <2>3. tail <= time \div Day
    BY DEF TypeInv, Clocked
  <2>4. tail <= (time + 1) \div Day
    BY <1>1, <2>2, <2>3
  <2>5. Clocked'
    BY <2>1, <2>4 DEF TypeInv, Clocked
  <2> QED
    BY <1>2, <1>3, <2>1, <2>5 DEF TypeInv, Holds
<1>9. CASE SetClock
  BY <1>2, <1>3, <1>9 DEF SetClock, TypeInv, Clocked, market, deploy, Holds
<1>10. CASE Reconcile
  <2>1. PICK o : ledger' = Append(ledger, [kind |-> "reconciliation", observed |-> o])
    BY <1>10 DEF Reconcile
  <2> PICK row : row = [kind |-> "reconciliation", observed |-> o]
    OBVIOUS
  <2>2. row.kind # "decision"
    OBVIOUS
  <2>3. \A r \in Decisions(ledger') : r \in Decisions(ledger)
    BY <2>1, <2>2, Appended DEF IInv
  <2>4. OneADay'
    <3>1. \A r, s \in Decisions(ledger') : r.date = s.date => r = s
      BY <2>3 DEF TypeInv, OneADay
    <3> QED
      BY <3>1 DEF OneADay, Decisions
  <2> QED
    BY <1>2, <1>10, <2>4 DEF Reconcile, TypeInv, Clocked, market, deploy, Holds
<1>11. CASE UNCHANGED dailyVars
  BY <1>2, <1>3, <1>11 DEF dailyVars, TypeInv, Clocked, market, deploy, Holds
<1>12. ASSUME NEW p \in Procs, Start(p) \/ DailyStep(p) \/ Crash(p) PROVE TypeInv'
  BY <1>12, RunTyped, RecordTyped DEF DailyStep
<1> QED
  BY <1>4, <1>5, <1>6, <1>7, <1>8, <1>9, <1>10, <1>11, <1>12 DEF DailyNext

LEMMA TypeInit ==
  DailyInit => TypeInv
PROOF
<1> SUFFICES ASSUME DailyInit PROVE TypeInv
  OBVIOUS
<1>1. Day \div Day = 1 /\ Day \in Nat
  BY DaysPass, DailyAssumption
<1>2. Clocked
  BY <1>1, DailyAssumption DEF DailyInit, Clocked
<1>3. \A p \in Procs : Holds(run[p], pc[p])
  BY DEF DailyInit, Holds, Stages, Ended, Fetched
<1>4. OneADay
  BY DEF DailyInit, OneADay, Decisions
<1> QED
  BY <1>2, <1>3, <1>4 DEF DailyInit, TypeInv

\* The types of the jobs' part, for every process and clock; no decision is ever of
\* the day that Kraken still reports last.
LEMMA DailyTyped ==
  IInv /\ TypeInv => DailyTypeOK
PROOF
<1> SUFFICES ASSUME IInv, TypeInv PROVE DailyTypeOK
  OBVIOUS
<1>1. pc \in [Procs -> Stages]
  <2>1. \A p \in Procs : pc[p] \in Stages
    BY DEF TypeInv, Holds
  <2>2. pc = [p \in Procs |-> pc[p]]
    BY DEF IInv, Running
  <2> QED
    BY <2>1, <2>2
<1>2. ASSUME NEW p \in Procs, pc[p] \in {"observe", "evaluate", "record", "conflict"}
      PROVE  /\ run[p].batch.date \in 0..(tail - 1)
             /\ run[p].batch.data \in [0..run[p].batch.date -> Data]
  BY <1>2 DEF IInv, Running, Knows, Final, TypeInv, Holds, Fetched
<1>3. \A p \in Procs : pc[p] = "evaluate" => run[p].observed \in Int
  BY DEF TypeInv, Holds
<1>4. \A row \in Decisions(ledger) : row.date < tail
  BY DEF IInv, Market, Rows, Sound, Final
<1>5. ledger \in Seq({ledger[n] : n \in DOMAIN ledger})
  BY DEF IInv, Rows
<1> QED
  BY <1>1, <1>2, <1>3, <1>4, <1>5 DEF DailyTypeOK, IInv, Market, TypeInv, Clocked, Stages

\* The signals are decisions of the rows that the export sees.
LEMMA SignalsAreDecisions ==
  ASSUME IInv, TypeInv, NEW n \in 0..Len(ledger)
  PROVE  Signals(SubSeq(ledger, 1, n)) \in Seq(Decisions(ledger))
PROOF
<1> PICK rows : rows = SubSeq(ledger, 1, n)
  OBVIOUS
<1>1. ledger \in Seq({ledger[m] : m \in DOMAIN ledger})
  BY DEF IInv, Rows
<1>2. DOMAIN rows = 1..n /\ \A m \in 1..n : m \in DOMAIN ledger /\ rows[m] = ledger[m]
  BY <1>1
<1>3. Decisions(rows) \subseteq Decisions(ledger)
  BY <1>2 DEF Decisions
<1>4. /\ tail \in Nat \ {0}
      /\ \A row \in Decisions(ledger) : row.date \in 0..(tail - 1)
      /\ \A r, s \in Decisions(ledger) : r.date = s.date => r = s
  BY DEF IInv, Market, Rows, Sound, Final, TypeInv, OneADay
<1> DEFINE newest == {row \in Decisions(rows) :
                        Cardinality({s \in Decisions(rows) : s.date > row.date}) < SignalLimit}
           Nth(k) == CHOOSE row \in newest : Cardinality({s \in newest : s.date < row.date}) = k - 1
<1>5. newest \subseteq Decisions(ledger)
  BY <1>3
<1>6. Signals(rows) = [k \in 1..Cardinality(newest) |-> Nth(k)]
  BY DEF Signals
<1> HIDE DEF newest
<1>7. IsFiniteSet(newest)
  <2> DEFINE f == [row \in newest |-> row.date]
  <2>1. f \in Injection(newest, 0..(tail - 1))
    BY <1>4, <1>5 DEF Injection, IsInjective
  <2>2. IsFiniteSet(0..(tail - 1))
    BY <1>4, FS_Interval
  <2> HIDE DEF f
  <2> QED
    BY <2>1, <2>2, FS_Injection
<1>8. \A k \in 1..Cardinality(newest) : Nth(k) \in newest
  <2>1. \A r \in newest : r.date \in Nat /\ r.date <= tail - 1
    BY <1>4, <1>5
  <2>2. \A r, s \in newest : r.date = s.date => r = s
    BY <1>4, <1>5
  <2>3. tail - 1 \in Nat
    BY <1>4
  <2>4. \A k \in 1..Cardinality(newest) :
          \E r \in newest : Cardinality({s \in newest : s.date < r.date}) = k - 1
    BY <1>7, <2>1, <2>2, <2>3, RecordsInOrder
  <2> QED
    BY <2>4
<1>9. Cardinality(newest) \in Nat
  BY <1>7, FS_CardinalityType
<1> HIDE DEF Nth
<1>10. Signals(rows) \in Seq(Decisions(ledger))
  BY <1>5, <1>6, <1>8, <1>9
<1> QED
  BY <1>10

\* What an export has not read yet, it does not hold; and there is one file.
NotYetRead ==
  /\ stage \in {"idle", "signals"} => draft.signals = <<>>
  /\ stage # "publish" => draft.latest = {}
  /\ Cardinality(published) <= 1

LEMMA UnreadIsEmpty ==
  ExportInv /\ NotYetRead /\ [Next]_vars => NotYetRead'
PROOF
<1> SUFFICES ASSUME ExportInv, NotYetRead, [Next]_vars PROVE NotYetRead'
  OBVIOUS
<1>1. draft = [counts |-> draft.counts, signals |-> draft.signals, latest |-> draft.latest]
  BY DEF ExportInv, Draft
<1>2. Cardinality({draft}) = 1
  BY FS_Singleton
<1>3. CASE ReadCounts
  BY <1>3 DEF ReadCounts, To, NoDraft, NotYetRead
<1>4. CASE ReadSignals
  BY <1>1, <1>4 DEF ReadSignals, To, NotYetRead
<1>5. CASE ReadReconciliation
  BY <1>1, <1>5 DEF ReadReconciliation, To, NotYetRead
<1>6. CASE Publish \/ Abandon
  <2>1. stage' = "idle" /\ draft'.signals = <<>> /\ draft'.latest = {}
    BY <1>6 DEF Publish, Abandon, To, NoDraft
  <2>2. CASE published' = {draft}
    <3>1. Cardinality(published') = 1
      BY <1>2, <2>2, Zenon
    <3> QED
      BY <2>1, <3>1 DEF NotYetRead
  <2>3. CASE published' = published
    BY <2>1, <2>3 DEF NotYetRead
  <2> QED
    BY <1>6, <2>2, <2>3 DEF Publish, Abandon
<1>7. CASE UNCHANGED <<stage, view, draft, published>>
  BY <1>7 DEF NotYetRead
<1> QED
  BY <1>3, <1>4, <1>5, <1>6, <1>7 DEF Next, Export, vars

\* What an export holds, and the jobs' part (TypeOK), for any processes, clocks and
\* limit: the signals that it reads of a ledger that grows are decisions of it.
THEOREM ExportTypes == Spec => []TypeOK
PROOF
<1>1. IInv /\ TypeInv /\ ExportInv /\ NotYetRead => TypeOK
  <2> SUFFICES ASSUME IInv, TypeInv, ExportInv, NotYetRead PROVE TypeOK
    OBVIOUS
  <2>1. DailyTypeOK
    BY DailyTyped
  <2>2. stage \in {"idle", "signals", "reconciliation", "publish"} /\ view \in 0..Len(ledger)
    BY DEF ExportInv
  <2>3. draft.signals \in Seq(Decisions(ledger))
    <3>1. CASE stage \in {"idle", "signals"}
      <4>1. draft.signals = <<>>
        BY <3>1 DEF NotYetRead
      <4>2. \A S : <<>> \in Seq(S)
        OBVIOUS
      <4> QED
        BY <4>1, <4>2, Zenon
    <3>2. CASE stage \in {"reconciliation", "publish"}
      BY <2>2, <3>2, SignalsAreDecisions DEF ExportInv, Draft, View
    <3> QED
      BY <2>2, <3>1, <3>2
  <2>4. draft.latest \subseteq Snapshots(ledger)
    <3>1. CASE stage = "publish"
      <4>1. draft.latest \subseteq Snapshots(View)
        BY <3>1 DEF ExportInv, Draft, Latest
      <4>2. DOMAIN View = 1..view /\ \A m \in 1..view : m \in DOMAIN ledger /\ View[m] = ledger[m]
        BY <2>2 DEF IInv, Rows, View
      <4>3. Snapshots(View) \subseteq Snapshots(ledger)
        BY <4>2 DEF Snapshots
      <4> QED
        BY <4>1, <4>3
    <3> QED
      BY <3>1 DEF NotYetRead
  <2> QED
    BY <2>1, <2>2, <2>3, <2>4 DEF TypeOK, NotYetRead
<1>2. Init => IInv /\ TypeInv /\ NotYetRead
  <2>1. ASSUME Init PROVE NotYetRead
    BY <2>1, FS_EmptySet DEF Init, NoDraft, NotYetRead
  <2> QED
    BY <2>1, Start0, TypeInit DEF Init
<1>3. IInv /\ TypeInv /\ [Next]_vars => IInv' /\ TypeInv'
  BY Inductive, TypeStep, ExportDisturbsNothing
<1>4. IInv => Rows
  BY DEF IInv
<1> QED
  BY <1>1, <1>2, <1>3, <1>4, ExportInit, ExportStep, UnreadIsEmpty, PTL DEF Spec

=============================================================================
