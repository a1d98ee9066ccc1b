-------------------------- MODULE HistoricalDownload --------------------------
(***************************************************************************)
(* historical_data.py and its script: the resumable download of Kraken's   *)
(* public trades. Pages are appended to a raw archive; after each of them  *)
(* a state file that describes the archive is replaced. A rerun inspects   *)
(* both, goes on at the archive's cursor and, past the cutoff, normalizes  *)
(* the archive into a dataset with a manifest.                             *)
(*                                                                         *)
(* A trade is its position on Kraken's tape; hashes are what they hash;    *)
(* a dataset is its sequence of trades, before their grouping into days.   *)
(***************************************************************************)
EXTENDS Integers, Sequences, FiniteSets

CONSTANTS
  Procs,        \* runs of the script in one directory
  PageSize,     \* page_size, the trades of a page at most
  MaxAttempts,  \* max_attempts of one page's request
  Cutoff,       \* the timestamp at which the archive is to end
  MaxTrades,    \* bound on the tape
  Clocks        \* what the host's clock may say

ASSUME DownloadAssumption ==
  /\ PageSize \in Nat \ {0} /\ MaxAttempts \in Nat \ {0}
  /\ Cutoff \in Nat \ {0} /\ MaxTrades \in Nat
  /\ Clocks \subseteq Nat

VARIABLES
  tape,      \* external: timestamps of the pair's trades
  file,      \* the lines of the raw archive
  state,     \* the state file, as a set of at most one state
  csv,       \* the normalized dataset, likewise
  manifest,  \* its manifest, likewise
  pc,        \* where each process is
  archive,   \* what each process knows of the archive
  page,      \* the page it has received: first and last trade
  attempt,   \* failed attempts at the page it requests
  shared     \* history: two processes were running at once

disk == <<file, state, csv, manifest>>
vars == <<tape, disk, pc, archive, page, attempt, shared>>

-----------------------------------------------------------------------------
(* Pages and archives                                                      *)

Empty == [count |-> 0, cursor |-> 0, included |-> 0, complete |-> FALSE,
          at |-> 0, last |-> 0, digest |-> <<>>]

\* The beginning of a line whose writer died.
Torn == [torn |-> TRUE]

NoPage == <<1, 0>>

\* external: Trades since a cursor repeats the trade that the cursor addresses.
PageSince(cursor) ==
  LET first == 1 + Cardinality({i \in DOMAIN tape : tape[i] < cursor})
      end   == first + PageSize - 1
  IN  <<first, IF end < Len(tape) THEN end ELSE Len(tape)>>

\* parse_trades_payload: the cursor of a page must advance. An empty page
\* repeats the cursor of its request.
Advances(p, cursor) == p[1] <= p[2] /\ tape[p[2]] > cursor

Conflict_Never(p, last) == FALSE

\* The repeated boundary trade must be the first of its page, and is dropped. A
\* page that begins before the trade is refused too: PageSince gives none.
Conflict(p, last) == last # 0 /\ p[1] < last /\ last <= p[2]

NewTrades_KeepOverlap(p, last) == p[1]..p[2]

NewTrades(p, last) == IF last # 0 /\ p[1] = last THEN (last + 1)..p[2] ELSE p[1]..p[2]

Complete(timestamp) == timestamp >= Cutoff

Early(S) == {i \in S : tape[i] < Cutoff}

Record(a, p, at) ==
  [index |-> a.count, cursor |-> a.cursor, trades |-> p, at |-> at]

\* The archive with one more page.
Extend(a, r) ==
  [count    |-> a.count + 1,
   cursor   |-> tape[r.trades[2]],
   included |-> a.included + Cardinality(Early(NewTrades(r.trades, a.last))),
   complete |-> Complete(tape[r.trades[2]]),
   at       |-> r.at,
   last     |-> r.trades[2],
   digest   |-> Append(a.digest, r)]

\* _decode_raw_record and _new_page_trades: a line that continues the chain.
Chained(a, line) ==
  /\ line # Torn
  /\ line.index = a.count
  /\ line.cursor = a.cursor
  /\ ~Conflict(line.trades, a.last)

\* What _inspect_archive makes of the first lines: nothing at all if one of
\* them is rejected.
Scan ==
  LET upTo[n \in 0..Len(file)] ==
        IF n = 0 THEN {Empty}
        ELSE {Extend(a, file[n]) :
                a \in {b \in upTo[n - 1] : /\ Chained(b, file[n])
                                           /\ ~b.complete
                                           /\ b.at <= file[n].at}}
  IN  upTo

Stored(a) ==
  [count |-> a.count, cursor |-> a.cursor, included |-> a.included,
   complete |-> a.complete, digest |-> a.digest]

\* The archive may be ahead of its state file, never behind it or different.
Inspect_Exact ==
  LET scan == Scan
  IN  {a \in scan[Len(file)] : \A s \in state : s = Stored(a)}

Inspect ==
  LET scan == Scan
  IN  {a \in scan[Len(file)] :
         \A s \in state : /\ s.count <= Len(file)
                          /\ \A b \in scan[s.count] : s = Stored(b)}

\* Trades in the order of the tape.
InOrder(S) ==
  [n \in 1..Cardinality(S) |-> CHOOSE i \in S : Cardinality({j \in S : j < i}) = n - 1]

\* The trades that _iter_archive_trades yields from the lines: it checks the
\* chain again, on a file that it opens again.
Reading ==
  LET read[n \in 0..Len(file)] ==
        IF n = 0 THEN {[archive |-> Empty, trades |-> <<>>]}
        ELSE {[archive |-> Extend(y.archive, file[n]),
               trades  |-> y.trades \o InOrder(Early(NewTrades(file[n].trades, y.archive.last)))] :
                y \in {z \in read[n - 1] : Chained(z.archive, file[n])}}
  IN  read

Yielded == {y.trades : y \in Reading[Len(file)]}

-----------------------------------------------------------------------------
(* download_btc_cad_trades                                                 *)

Init ==
  /\ tape = <<>>
  /\ file = <<>> /\ state = {} /\ csv = {} /\ manifest = {}
  /\ pc = [p \in Procs |-> "stopped"]
  /\ archive = [p \in Procs |-> Empty]
  /\ page = [p \in Procs |-> NoPage]
  /\ attempt = [p \in Procs |-> 0]
  /\ shared = FALSE

Goto(p, from, to) == pc[p] = from /\ pc' = [pc EXCEPT ![p] = to]
Stopped == {"stopped", "saved", "failed", "done"}

\* A run ends, and with it all that it knew.
Leave(p, from, result) ==
  /\ Goto(p, from, result)
  /\ archive' = [archive EXCEPT ![p] = Empty]
  /\ page' = [page EXCEPT ![p] = NoPage]
  /\ attempt' = [attempt EXCEPT ![p] = 0]

\* The script starts and inspects what it finds. A complete archive's state is
\* only written again.
Begin(p) ==
  /\ pc[p] \in Stopped
  /\ LET found == Inspect
     IN  \/ found = {} /\ Leave(p, pc[p], "failed")
         \/ \E a \in found :
              /\ archive' = [archive EXCEPT ![p] = a]
              /\ Goto(p, pc[p], IF a.complete THEN "save" ELSE "rehash")
              /\ UNCHANGED <<page, attempt>>
  /\ shared' = (shared \/ \E q \in Procs \ {p} : pc[q] \notin Stopped)
  /\ UNCHANGED <<tape, disk>>

\* The running digest is started from the file as it is by now.
Rehash(p) ==
  /\ Goto(p, "rehash", "request")
  /\ archive' = [archive EXCEPT ![p].digest = file]
  /\ UNCHANGED <<tape, disk, page, attempt, shared>>

\* Kraken answers; an answer that cannot follow the archive ends the run.
Answer(p) ==
  LET answer == PageSince(archive[p].cursor)
      fits   == Advances(answer, archive[p].cursor) /\ ~Conflict(answer, archive[p].last)
  IN  /\ \/ /\ fits
            /\ Goto(p, "request", "append")
            /\ page' = [page EXCEPT ![p] = answer]
            /\ attempt' = [attempt EXCEPT ![p] = 0]
            /\ UNCHANGED archive
         \/ ~fits /\ Leave(p, "request", "failed")
      /\ UNCHANGED <<tape, disk, shared>>

\* A retryable failure, up to max_attempts for one page.
RequestFails(p) ==
  /\ \/ /\ attempt[p] + 1 < MaxAttempts
        /\ Goto(p, "request", "request")
        /\ attempt' = [attempt EXCEPT ![p] = @ + 1]
        /\ UNCHANGED <<archive, page>>
     \/ attempt[p] + 1 = MaxAttempts /\ Leave(p, "request", "failed")
  /\ UNCHANGED <<tape, disk, shared>>

\* The page is written, flushed and synced, with the time of the host's clock.
AppendPage(p) ==
  /\ Goto(p, "append", "save")
  /\ \E at \in Clocks :
       LET r == Record(archive[p], page[p], at)
       IN  /\ file' = Append(file, r)
           /\ archive' = [archive EXCEPT ![p] = Extend(archive[p], r)]
  /\ page' = [page EXCEPT ![p] = NoPage]
  /\ UNCHANGED <<tape, state, csv, manifest, attempt, shared>>

\* os.replace of the state file. The run goes on, or ends with max_pages.
SaveState(p) ==
  /\ state' = {Stored(archive[p])}
  /\ \/ /\ Goto(p, "save", IF archive[p].complete THEN "verify" ELSE "request")
        /\ UNCHANGED <<archive, page, attempt>>
     \/ ~archive[p].complete /\ Leave(p, "save", "saved")
  /\ UNCHANGED <<tape, file, csv, manifest, shared>>

-----------------------------------------------------------------------------
(* write_normalized_dataset                                                *)

\* The archive is inspected again, and must be the one that was downloaded.
Verify(p) ==
  /\ LET same == {a \in Inspect : a.complete /\ a.digest = archive[p].digest}
     IN  \/ same # {} /\ Goto(p, "verify", "read") /\ UNCHANGED <<archive, page, attempt>>
         \/ same = {} /\ Leave(p, "verify", "failed")
  /\ UNCHANGED <<tape, disk, shared>>

\* A dataset without a trade is refused.
WriteCsv(p) ==
  /\ LET dataset == Yielded \ {<<>>}
     IN  \/ dataset = {} /\ Leave(p, "read", "failed") /\ UNCHANGED csv
         \/ /\ dataset # {}
            /\ Goto(p, "read", "manifest")
            /\ csv' = dataset
            /\ UNCHANGED <<archive, page, attempt>>
  /\ UNCHANGED <<tape, file, state, manifest, shared>>

WriteManifest(p) ==
  /\ Leave(p, "manifest", "done")
  /\ manifest' = {[included |-> archive[p].included, raw |-> archive[p].digest]}
  /\ UNCHANGED <<tape, file, state, csv, shared>>

-----------------------------------------------------------------------------
(* What the host and the market add                                        *)

\* The process dies; of the line it writes, none, a part or all may be left.
Crash(p) ==
  /\ pc[p] \notin Stopped
  /\ Leave(p, pc[p], "stopped")
  /\ \/ UNCHANGED file
     \/ /\ pc[p] = "append"
        /\ \E at \in Clocks : file' \in {Append(file, Torn),
                                         Append(file, Record(archive[p], page[p], at))}
  /\ UNCHANGED <<tape, state, csv, manifest, shared>>

\* external: a trade, not before the last one.
Trade ==
  LET latest == IF tape = <<>> THEN 1 ELSE tape[Len(tape)]
  IN  /\ Len(tape) < MaxTrades
      /\ \E timestamp \in {latest, latest + 1} : tape' = Append(tape, timestamp)
      /\ UNCHANGED <<disk, pc, archive, page, attempt, shared>>

Step(p) ==
  \/ Rehash(p) \/ Answer(p) \/ RequestFails(p) \/ AppendPage(p) \/ SaveState(p)
  \/ Verify(p) \/ WriteCsv(p) \/ WriteManifest(p)

Next == Trade \/ \E p \in Procs : Begin(p) \/ Step(p) \/ Crash(p)

Spec == Init /\ [][Next]_vars

-----------------------------------------------------------------------------
(* Properties                                                              *)

Lines == {file[n] : n \in DOMAIN file}

\* No line is broken, and the clock never went back between two pages.
Intact == Torn \notin Lines /\ \A m, n \in DOMAIN file : m < n => file[m].at <= file[n].at

TypeOK ==
  /\ tape \in Seq(Nat)
  /\ pc \in [Procs -> {"rehash", "request", "append", "save", "verify", "read",
                       "manifest"} \cup Stopped]
  /\ attempt \in [Procs -> 0..MaxAttempts]
  /\ Cardinality(state) <= 1 /\ Cardinality(csv) <= 1 /\ Cardinality(manifest) <= 1
  /\ \A p \in Procs : archive[p].included <= Cardinality(Early(DOMAIN tape))

\* Whatever is written as the dataset is Kraken's tape up to the cutoff, every
\* trade once and none missing, and the manifest counts it: after crashes and
\* reruns, at page boundaries, and with two downloads in one directory.
DatasetIsTheTape ==
  /\ \A d \in csv : d = [i \in Early(DOMAIN tape) |-> i]
  /\ \A m \in manifest, d \in csv : m.included = Len(d)

\* A rerun always gets as far as the last page whose line is whole: no crash
\* between the archive and its state file makes the inspection reject them.
CrashLeavesResumable ==
  ~shared /\ Intact => \E a \in Inspect : a.count = Len(file)

\* "Backfill batch saved. Rerun the same command to resume." (the script, after
\* a run that ended with max_pages): whole pages that were saved are resumed.
SavedBatchResumes ==
  ~shared /\ Torn \notin Lines /\ (\E p \in Procs : pc[p] = "saved") => Inspect # {}

=============================================================================
