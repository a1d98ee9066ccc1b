----------------------------- MODULE ResearchProofs -----------------------------
(***************************************************************************)
(* What the research programs promise, for every set of archive versions   *)
(* and of studies and every history length; and what the replay that they  *)
(* run promises of its risk state, for every set of prices, every capital, *)
(* weight, threshold and cooldown.                                         *)
(***************************************************************************)
EXTENDS Research, RiskGate, TLAPS

\* A file that was written is there to the end, and holds what was written.
LEMMA FileHolds ==
  \A content : Whole(File(content)) /\ Content(File(content)) = content
PROOF
  BY DEF File, Absent, Truncated, Whole, Content

-----------------------------------------------------------------------------
(* The split of the history                                                *)

\* The parts of the split are there when the history is long enough to be taken.
LEMMA PartsAreThere ==
  ASSUME NEW n \in Nat, n >= 5
  PROVE  /\ Development(n) \in Nat \ {0} /\ Validation(n) \in Nat \ {0}
         /\ Holdout(n) \in Nat \ {0}
PROOF
<1>1. (n * 60) \div 100 >= 3 /\ (n * 20) \div 100 >= 1
  OBVIOUS
<1>2. 5 * ((n * 60) \div 100) <= 3 * n /\ 5 * ((n * 20) \div 100) <= n
  OBVIOUS
<1>3. Development(n) \in Int /\ Validation(n) \in Int
  BY DEF Development, Validation
<1> QED
  BY <1>1, <1>2, <1>3 DEF Development, Validation, Holdout

\* No replay that chooses between policies or costs reads a bar of the holdout,
\* which is never empty, though the execution references are bars of the days
\* after the decisions (bars_to_causal_inputs, _split_boundaries): for every
\* history that a study takes.
THEOREM TuningSparesHoldout ==
  ASSUME NEW first \in Nat, NEW last \in Nat,
         Length(<<first, last>>) > Warmup + 4
  PROVE  LET r == <<first, last>> IN
         /\ \A d \in TuningReads(r) : d < FirstHoldoutDay(r)
         /\ FirstHoldoutDay(r) <= r[2]
PROOF
<1> DEFINE r == <<first, last>>
           n == Evaluated(r)
<1>1. Warmup \in Nat /\ r[1] = first /\ r[2] = last
  BY InputsAssumption
<1>2. n \in Nat /\ n >= 5 /\ last - first + 1 = Warmup + n
  BY <1>1 DEF Evaluated, Length
<1>3. /\ Development(n) \in Nat /\ Validation(n) \in Nat
      /\ n - Development(n) - Validation(n) > 0
  BY <1>2, PartsAreThere DEF Holdout
<1>4. /\ FirstHoldoutDay(r) = first + Warmup + Development(n) + Validation(n)
      /\ PreHoldout(r) = Development(n) + Validation(n)
  BY <1>1, <1>3 DEF FirstHoldoutDay, PreHoldout
<1>5. FirstHoldoutDay(r) <= last
  BY <1>1, <1>2, <1>3, <1>4
<1>6. ASSUME NEW d \in TuningReads(r) PROVE d < FirstHoldoutDay(r)
  BY <1>1, <1>3, <1>4, <1>6 DEF TuningReads, Reads, Decision
<1> QED
  BY <1>1, <1>5, <1>6

-----------------------------------------------------------------------------
(* A study of the pinned tape                                              *)

\* Every program knows what the file it read last still holds, and provenance
\* names one version, unless a file was replaced between two reads.
Provenance ==
  /\ importer.pc = "stream" => importer.raw = archive
  /\ importer.pc \in {"replace", "manifest"} => importer.raw = importer.bars
  /\ manifest # Absent => Content(manifest).raw = Content(manifest).bars

Readings ==
  \A s \in Studies :
    /\ study[s].pc = "hash" => csv # Absent /\ study[s].bars = Content(csv)
    /\ study[s].pc \in {"check", "bind"} => study[s].input = study[s].bars
    /\ study[s].pc \in Writing \ {"bind"} => study[s].data.clean = CleanOf[Pinned]

PinnedInv ==
  /\ DOMAIN study = Studies
  /\ ~torn => Provenance /\ Readings

\* What a step of a study does to the studies.
LEMMA GotoMoves ==
  ASSUME NEW s \in Studies, NEW record, DOMAIN study = Studies, Goto(s, record)
  PROVE  /\ DOMAIN study' = Studies
         /\ study'[s] = record
         /\ \A t \in Studies \ {s} : study'[t] = study[t]
PROOF
  BY DEF Goto

LEMMA PinnedInit ==
  ResearchInit => PinnedInv
PROOF
  BY DEF ResearchInit, PinnedInv, Provenance, Readings, Idle, Absent, Writing

LEMMA PinnedImport ==
  PinnedInv /\ ImportNext => PinnedInv'
PROOF
<1> SUFFICES ASSUME PinnedInv, ImportNext PROVE PinnedInv'
  OBVIOUS
<1>1. CASE \E tape \in Tapes : Extract(tape)
  BY <1>1 DEF Extract, PinnedInv, Provenance, Readings
<1>2. CASE Identify
  BY <1>2 DEF Identify, files, PinnedInv, Provenance, Readings
<1>3. CASE Stream
  BY <1>3 DEF Stream, files, PinnedInv, Provenance, Readings, Idle
<1>4. CASE ReplaceCsv
  <2>1. ASSUME ~torn' PROVE Provenance'
    BY <1>4, <2>1 DEF ReplaceCsv, PinnedInv, Provenance
  <2>2. ASSUME ~torn' PROVE Readings'
    <3>1. csv' # Absent /\ Content(csv)' = importer.bars
      BY <1>4, FileHolds DEF ReplaceCsv, Content, Whole
    <3> QED
      BY <1>4, <2>2, <3>1 DEF ReplaceCsv, PinnedInv, Readings, Reading, Content
  <2> QED
    BY <1>4, <2>1, <2>2 DEF ReplaceCsv, PinnedInv
<1>5. CASE WriteProvenance
  <2>1. Content(manifest)' = [raw |-> importer.raw, bars |-> importer.bars]
    BY <1>5, FileHolds DEF WriteProvenance, Content
  <2> QED
    BY <1>5, <2>1 DEF WriteProvenance, PinnedInv, Provenance, Readings, Idle, Content
<1>6. CASE CrashImport
  BY <1>6 DEF CrashImport, files, PinnedInv, Provenance, Readings, Idle
<1> QED
  BY <1>1, <1>2, <1>3, <1>4, <1>5, <1>6 DEF ImportNext

LEMMA PinnedStudy ==
  ASSUME PinnedInv, NEW s \in Studies, StudyNext(s)
  PROVE  PinnedInv'
PROOF
<1>1. \A record : Goto(s, record) =>
        /\ DOMAIN study' = Studies
        /\ study'[s] = record
        /\ \A t \in Studies \ {s} : study'[t] = study[t]
  BY GotoMoves DEF PinnedInv
<1>2. StudyStep(s) => UNCHANGED <<torn, archive, csv, manifest, importer>>
  BY DEF StudyStep, files
<1>3. ASSUME StudyStep(s), DOMAIN study' = Studies,
             \A t \in Studies \ {s} : study'[t] = study[t],
             ~torn /\ Readings /\ Provenance =>
               /\ study'[s].pc = "hash" => csv # Absent /\ study'[s].bars = Content(csv)
               /\ study'[s].pc \in {"check", "bind"} => study'[s].input = study'[s].bars
               /\ study'[s].pc \in Writing \ {"bind"} => study'[s].data.clean = CleanOf[Pinned]
      PROVE  PinnedInv'
  <2>1. ASSUME ~torn' PROVE Provenance'
    BY <1>2, <1>3, <2>1 DEF PinnedInv, Provenance
  <2>2. ASSUME ~torn' PROVE Readings'
    BY <1>2, <1>3, <2>2 DEF PinnedInv, Readings
  <2> QED
    BY <1>3, <2>1, <2>2 DEF PinnedInv
<1>4. CASE Load(s)
  BY <1>1, <1>3, <1>4 DEF Load, Writing
<1>5. CASE Hash(s)
  BY <1>1, <1>3, <1>5 DEF Hash, Writing, Readings
<1>6. CASE CheckOutput(s)
  BY <1>1, <1>3, <1>6 DEF CheckOutput, Writing, Readings, Idle
<1>7. CASE Bind(s)
  <2>1. ASSUME ~torn, Readings, Provenance, manifest # Absent,
               Binds(Content(manifest), study[s].bars, study[s].input)
        PROVE  CleanOf[study[s].bars] = CleanOf[Pinned]
    BY <1>7, <2>1 DEF Bind, Binds, Readings, Provenance
  <2> QED
    BY <1>1, <1>3, <1>7, <2>1 DEF Bind, Writing, Readings, Idle
<1>8. ASSUME NEW f, NEW content, NEW next, f \in Writing \ {"bind"}, Write(s, f, content, next),
             next = Idle \/ (next.pc \in Writing \ {"bind"} /\ next.data = study[s].data)
      PROVE  PinnedInv'
  BY <1>1, <1>3, <1>8 DEF Write, Writing, Readings, Idle
<1>9. CASE WriteMetrics(s)
  BY <1>8, <1>9 DEF WriteMetrics, Then, Writing
<1>10. CASE WriteEquity(s) \/ WriteFills(s)
  BY <1>8, <1>10 DEF WriteEquity, WriteFills, Then, Writing
<1>11. CASE WriteSummary(s)
  BY <1>8, <1>11 DEF WriteSummary, Then, Writing
<1>12. CASE List(s)
  BY <1>1, <1>3, <1>12 DEF List, Writing, Readings
<1>13. CASE WriteChecksums(s)
  BY <1>8, <1>13 DEF WriteChecksums, Writing
<1>14. CASE WriteManifest(s)
  BY <1>8, <1>14 DEF WriteManifest, Writing
<1>15. CASE CrashStudy(s)
  BY <1>1, <1>3, <1>15 DEF CrashStudy, Writing, Idle
<1> QED
  BY <1>4, <1>5, <1>6, <1>7, <1>9, <1>10, <1>11, <1>12, <1>13, <1>14, <1>15 DEF StudyNext

\* The publication and the counterfactual touch nothing that a study reads.
LEMMA CounterfactualReadsOnly ==
  CounterfactualNext => UNCHANGED <<archive, csv, manifest, importer, study, out, frozen, torn, overlapped>>
PROOF
  BY DEF CounterfactualNext, Checkout, CfLoad, CfHash, CfSums, CfList, CfSummary, CfRecord,
         CfSeal, CfData, CfReplay, CfEquity, CfEnd, CfGo, CfStep, files, publication

LEMMA PinnedStep ==
  PinnedInv /\ [ResearchNext]_research => PinnedInv'
PROOF
<1> SUFFICES ASSUME PinnedInv, [ResearchNext]_research PROVE PinnedInv'
  OBVIOUS
<1>1. ASSUME UNCHANGED <<archive, csv, manifest, importer, study, torn>>
      PROVE  PinnedInv'
  BY <1>1 DEF PinnedInv, Provenance, Readings
<1>2. CASE Discard \/ Publish
  BY <1>1, <1>2 DEF Discard, Publish, files
<1>3. CASE UNCHANGED research
  BY <1>1, <1>3 DEF research, files
<1> QED
  BY <1>1, <1>2, <1>3, PinnedImport, PinnedStudy, CounterfactualReadsOnly DEF ResearchNext

\* A study that writes has the clean history of the preregistered archive
\* (_normalized_manifest_hash), unless a file was replaced between two reads of
\* it: for every set of versions, imports, crashes and studies.
THEOREM StudiesAreOfThePinnedTape ==
  ResearchSpec => []StudyIsOfThePinnedTape
PROOF
<1>1. PinnedInv => StudyIsOfThePinnedTape
  BY DEF PinnedInv, Readings, StudyIsOfThePinnedTape
<1> QED
  BY <1>1, PinnedInit, PinnedStep, PTL DEF ResearchSpec

-----------------------------------------------------------------------------
(* The bundle of one run                                                   *)

\* What a writing study has written so far.
Stage(s) ==
  /\ s \in Writers => out["manifest"] = Absent
  /\ study[s].pc \in {"equity", "fills", "summary", "list", "checksums", "manifest"} =>
       out["metrics"] = File(study[s].data.clean)
  /\ study[s].pc \in {"fills", "summary", "list", "checksums", "manifest"} =>
       out["equity"] = File(study[s].data.clean)
  /\ study[s].pc \in {"summary", "list", "checksums", "manifest"} =>
       out["fills"] = File(study[s].data.clean)
  /\ study[s].pc \in {"list", "checksums", "manifest"} =>
       out["summary"] = File(study[s].data)
  /\ study[s].pc \in {"checksums", "manifest"} =>
       \A f \in Artifacts : study[s].listed[f] = out[f]
  /\ study[s].pc = "manifest" => out["checksums"] = File(study[s].listed)

\* What its manifest says of a bundle.
Vouched ==
  LET record == Content(out["manifest"]) IN
  /\ \A f \in Artifacts : out[f] # Absent /\ out[f] = record.listed[f]
  /\ out["checksums"] = File(record.listed) /\ record.checksums = out["checksums"]
  /\ out["summary"] = File(record.data)
  /\ \A f \in Results : out[f] = File(record.data.clean)

OneWriter == \A s, t \in Writers : s = t

BundleInv ==
  /\ DOMAIN study = Studies /\ DOMAIN out = Bundle /\ overlapped \in BOOLEAN
  /\ ~overlapped =>
       /\ OneWriter
       /\ \A s \in Studies : Stage(s)
       /\ Whole(out["manifest"]) => Vouched

LEMMA BundleInit ==
  ResearchInit => BundleInv
PROOF
<1> SUFFICES ASSUME ResearchInit PROVE BundleInv
  OBVIOUS
<1>1. Writers = {} /\ \A s \in Studies : study[s] = Idle
  BY DEF ResearchInit, Writers, Writing, Idle
<1>2. out = Empty /\ out["manifest"] = Absent
  BY DEF ResearchInit, Empty, Bundle
<1>3. \A s \in Studies : Stage(s)
  BY <1>1, <1>2 DEF Stage, Idle
<1>4. DOMAIN study = Studies /\ overlapped \in BOOLEAN
  BY DEF ResearchInit
<1> QED
  BY <1>1, <1>2, <1>3, <1>4 DEF BundleInv, OneWriter, Empty, Whole

\* A step that takes no study to writing and writes nothing.
LEMMA BundleKept ==
  ASSUME BundleInv, DOMAIN study' = Studies, out' = out, overlapped' = overlapped,
         \A t \in Studies : study'[t] = study[t] \/ study'[t].pc \notin Writing
  PROVE  BundleInv'
PROOF
<1>1. Writers' \subseteq Writers /\ \A t \in Writers' : study'[t] = study[t]
  BY DEF Writers
<1>2. ASSUME ~overlapped, NEW t \in Studies PROVE Stage(t)'
  <2>1. CASE study'[t] = study[t]
    BY <1>1, <1>2, <2>1 DEF BundleInv, Stage, Writers
  <2>2. CASE study'[t].pc \notin Writing
    BY <2>2 DEF Stage, Writers, Writing
  <2> QED
    BY <2>1, <2>2
<1>3. OneWriter => OneWriter'
  BY <1>1 DEF OneWriter
<1>4. Vouched => Vouched'
  BY DEF Vouched
<1> QED
  BY <1>2, <1>3, <1>4 DEF BundleInv

\* One that lets the only writing study write on.
LEMMA BundleWritten ==
  ASSUME BundleInv, NEW s \in Writers, s \in Studies,
         DOMAIN study' = Studies, DOMAIN out' = Bundle, overlapped' = overlapped,
         \A t \in Studies \ {s} : study'[t] = study[t],
         ~overlapped => Stage(s)',
         ~overlapped /\ Whole(out'["manifest"]) => Vouched'
  PROVE  BundleInv'
PROOF
<1>1. Writers' \subseteq Writers
  BY DEF Writers
<1>2. ASSUME ~overlapped, NEW t \in Studies \ {s} PROVE Stage(t)'
  <2>1. t \notin Writers
    BY <1>2 DEF BundleInv, OneWriter
  <2> QED
    BY <2>1 DEF Stage, Writers, Writing
<1>3. OneWriter => OneWriter'
  BY <1>1 DEF OneWriter
<1> QED
  BY <1>2, <1>3 DEF BundleInv

LEMMA BundleStudy ==
  ASSUME BundleInv, NEW s \in Studies, StudyNext(s)
  PROVE  BundleInv'
PROOF
<1>1. \A record : Goto(s, record) =>
        /\ DOMAIN study' = Studies
        /\ study'[s] = record
        /\ \A t \in Studies \ {s} : study'[t] = study[t]
  BY GotoMoves DEF BundleInv
<1>2. CASE Load(s)
  BY <1>1, <1>2, BundleKept DEF Load, Writing
<1>3. CASE Hash(s)
  BY <1>1, <1>3, BundleKept DEF Hash, Writing
<1>4. CASE CheckOutput(s)
  <2>1. CASE ~MayWrite(out)
    <3>1. overlapped' = overlapped
      BY <1>4, <2>1 DEF CheckOutput, BundleInv
    <3> QED
      BY <1>1, <1>4, <2>1, <3>1, BundleKept DEF CheckOutput, Writing, Idle
  <2>2. CASE MayWrite(out)
    <3>1. /\ study'[s].pc = "bind" /\ DOMAIN study' = Studies
          /\ \A t \in Studies \ {s} : study'[t] = study[t]
          /\ out' = out /\ out = Empty
          /\ overlapped' = (overlapped \/ Writers # {}) /\ overlapped' \in BOOLEAN
      BY <1>1, <1>4, <2>2 DEF CheckOutput, MayWrite
    <3>2. out["manifest"] = Absent
      BY <3>1 DEF Empty, Bundle
    <3>3. ASSUME ~overlapped' PROVE Writers' \subseteq {s}
      BY <3>1, <3>3 DEF Writers
    <3>4. ASSUME ~overlapped', NEW t \in Studies PROVE Stage(t)'
      <4>1. t = s \/ study'[t].pc \notin Writing
        BY <3>3, <3>4 DEF Writers
      <4> QED
        BY <3>1, <3>2, <4>1 DEF Stage, Writers, Writing
    <3> QED
      BY <3>1, <3>2, <3>3, <3>4 DEF BundleInv, OneWriter, Whole
  <2> QED
    BY <2>1, <2>2
<1>5. CASE Bind(s)
  <2>1. s \in Writers
    BY <1>5 DEF Bind, Writers, Writing
  <2>2. /\ DOMAIN study' = Studies /\ out' = out /\ overlapped' = overlapped
        /\ \A t \in Studies \ {s} : study'[t] = study[t]
        /\ study'[s].pc \in {"idle", "metrics"}
    BY <1>1, <1>5 DEF Bind, Idle
  <2>3. ~overlapped => out["manifest"] = Absent
    BY <2>1 DEF BundleInv, Stage
  <2>4. ~overlapped => Stage(s)'
    BY <2>2, <2>3 DEF Stage
  <2> QED
    BY <2>1, <2>2, <2>3, <2>4, BundleWritten DEF BundleInv, Whole
<1>6. ASSUME NEW f \in Bundle, NEW content, NEW next, Write(s, f, content, next)
      PROVE  /\ DOMAIN study' = Studies /\ DOMAIN out' = Bundle /\ overlapped' = overlapped
             /\ \A t \in Studies \ {s} : study'[t] = study[t]
             /\ study'[s] = next
             /\ out'[f] = File(content) /\ \A g \in Bundle \ {f} : out'[g] = out[g]
             /\ s \in Writers
  BY <1>1, <1>6 DEF Write, BundleInv, Writers, Writing, Bundle, Artifacts, Results
<1>7. ASSUME ~overlapped, s \in Writers PROVE out["manifest"] = Absent /\ ~Whole(out["manifest"])
  BY <1>7 DEF BundleInv, Stage, Whole
<1>8. CASE WriteMetrics(s)
  <2>1. Write(s, "metrics", study[s].data.clean, Then(s, "equity"))
    BY <1>8 DEF WriteMetrics
  <2>2. ~overlapped => Stage(s)'
    BY <1>6, <1>7, <2>1 DEF Stage, Then, Bundle, Artifacts, Results
  <2> QED
    BY <1>6, <1>7, <2>1, <2>2, BundleWritten DEF Bundle, Artifacts, Results
<1>9. CASE WriteEquity(s) \/ WriteFills(s)
  <2>1. PICK f \in {"equity", "fills"}, next \in {"fills", "summary"} :
          /\ Write(s, f, study[s].data.clean, Then(s, next)) /\ study[s].pc = f
          /\ f = "equity" <=> next = "fills"
    BY <1>9 DEF WriteEquity, WriteFills, Write
  <2>2. ~overlapped => Stage(s)'
    BY <1>6, <1>7, <2>1 DEF BundleInv, Stage, Then, Bundle, Artifacts, Results
  <2> QED
    BY <1>6, <1>7, <2>1, <2>2, BundleWritten DEF Bundle, Artifacts, Results
<1>10. CASE WriteSummary(s)
  <2>1. Write(s, "summary", study[s].data, Then(s, "list")) /\ study[s].pc = "summary"
    BY <1>10 DEF WriteSummary, Write
  <2>2. ~overlapped => Stage(s)'
    BY <1>6, <1>7, <2>1 DEF BundleInv, Stage, Then, Bundle, Artifacts, Results
  <2> QED
    BY <1>6, <1>7, <2>1, <2>2, BundleWritten DEF Bundle, Artifacts, Results
<1>11. CASE List(s)
  <2>1. s \in Writers /\ study[s].pc = "list"
    BY <1>11 DEF List, Writers, Writing
  <2>2. /\ DOMAIN study' = Studies /\ out' = out /\ overlapped' = overlapped
        /\ \A t \in Studies \ {s} : study'[t] = study[t]
        /\ study'[s] = [pc |-> "checksums", data |-> study[s].data,
                        listed |-> [f \in Artifacts |-> out[f]]]
    BY <1>1, <1>11 DEF List
  <2>3. ~overlapped => Stage(s)'
    BY <1>7, <2>1, <2>2 DEF BundleInv, Stage
  <2> QED
    BY <1>7, <2>1, <2>2, <2>3, BundleWritten DEF BundleInv
<1>12. CASE WriteChecksums(s)
  <2>1. /\ Write(s, "checksums", study[s].listed,
                 [pc |-> "manifest", data |-> study[s].data, listed |-> study[s].listed])
        /\ study[s].pc = "checksums"
    BY <1>12 DEF WriteChecksums, Write
  <2>2. ~overlapped => Stage(s)'
    BY <1>6, <1>7, <2>1 DEF BundleInv, Stage, Bundle, Artifacts, Results
  <2> QED
    BY <1>6, <1>7, <2>1, <2>2, BundleWritten DEF Bundle, Artifacts, Results
<1>13. CASE WriteManifest(s)
  <2> DEFINE record == [data |-> study[s].data, listed |-> study[s].listed,
                        checksums |-> out["checksums"]]
  <2>1. Write(s, "manifest", record, Idle) /\ study[s].pc = "manifest"
    BY <1>13 DEF WriteManifest, Write
  <2>2. /\ out'["manifest"] = File(record)
        /\ study'[s] = Idle /\ s \notin Writers'
        /\ \A g \in Artifacts \cup {"checksums"} : out'[g] = out[g]
    BY <1>6, <2>1 DEF Bundle, Artifacts, Results, Writers, Writing, Idle
  <2>3. ~overlapped => Stage(s)'
    BY <2>2 DEF Stage, Idle
  <2>4. ASSUME ~overlapped PROVE Vouched'
    <3>1. Content(out'["manifest"]) = record
      BY <2>2, FileHolds
    <3>2. /\ \A f \in Artifacts : record.listed[f] = out[f]
          /\ out["checksums"] = File(record.listed) /\ record.checksums = out["checksums"]
          /\ out["summary"] = File(record.data)
          /\ \A f \in Results : out[f] = File(record.data.clean)
      BY <2>1, <2>4 DEF BundleInv, Stage, Results
    <3>3. \A f \in Artifacts : out[f] # Absent
      BY <3>2, FileHolds DEF Artifacts, Whole
    <3> QED
      BY <2>2, <3>1, <3>2, <3>3 DEF Vouched, Artifacts
  <2> QED
    BY <1>6, <2>1, <2>2, <2>3, <2>4, BundleWritten DEF Bundle
<1>14. CASE CrashStudy(s)
  <2>1. /\ DOMAIN study' = Studies /\ overlapped' = overlapped
        /\ study'[s] = Idle /\ \A t \in Studies \ {s} : study'[t] = study[t]
    BY <1>1, <1>14 DEF CrashStudy
  <2>2. CASE out' = out
    BY <2>1, <2>2, BundleKept DEF Writing, Idle
  <2>3. CASE study[s].pc \in Bundle /\ out' = [out EXCEPT ![study[s].pc] = Truncated]
    <3>1. s \in Writers /\ s \notin Writers'
      BY <2>1, <2>3 DEF Writers, Writing, Bundle, Artifacts, Results, Idle
    <3>2. DOMAIN out' = Bundle /\ out'["manifest"] \in {out["manifest"], Truncated}
      BY <2>3 DEF BundleInv, Bundle
    <3>3. ~overlapped => Stage(s)' /\ ~Whole(out'["manifest"])
      BY <1>7, <2>1, <3>1, <3>2 DEF Stage, Idle, Whole
    <3> QED
      BY <2>1, <3>1, <3>2, <3>3, BundleWritten
  <2> QED
    BY <1>14, <2>1, <2>2, <2>3 DEF CrashStudy
<1> QED
  BY <1>2, <1>3, <1>4, <1>5, <1>8, <1>9, <1>10, <1>11, <1>12, <1>13, <1>14 DEF StudyNext

LEMMA BundleStep ==
  BundleInv /\ [ResearchNext]_research => BundleInv'
PROOF
<1> SUFFICES ASSUME BundleInv, [ResearchNext]_research PROVE BundleInv'
  OBVIOUS
<1>1. ASSUME UNCHANGED <<study, out, overlapped>> PROVE BundleInv'
  BY <1>1, BundleKept DEF BundleInv
<1>2. CASE ImportNext
  BY <1>1, <1>2 DEF ImportNext, Extract, Identify, Stream, ReplaceCsv, WriteProvenance, CrashImport
<1>3. CASE Discard
  <2>1. Writers' = {} /\ out' = Empty /\ study' = study
    BY <1>3 DEF Discard, Writers
  <2>2. \A s \in Studies : Stage(s)'
    BY <2>1 DEF Stage, Writers, Writing
  <2>3. out'["manifest"] = Absent /\ overlapped' \in BOOLEAN
    BY <1>3, <2>1 DEF Discard, Empty, Bundle
  <2> QED
    BY <2>1, <2>2, <2>3 DEF BundleInv, OneWriter, Empty, Whole
<1>4. CASE Publish
  BY <1>1, <1>4 DEF Publish
<1>5. CASE UNCHANGED research
  BY <1>1, <1>5 DEF research
<1> QED
  BY <1>1, <1>2, <1>3, <1>4, <1>5, BundleStudy, CounterfactualReadsOnly DEF ResearchNext

\* manifest.json, the last file that a study writes, vouches for a bundle that is
\* all there and of one run, for any number of studies that crash and are run
\* again, unless two wrote at once (run_historical_study looks at the directory
\* once, before it writes).
THEOREM ManifestsVouch ==
  ResearchSpec => []ManifestVouches
PROOF
<1>1. BundleInv => ManifestVouches
  BY DEF BundleInv, ManifestVouches, Vouched
<1> QED
  BY <1>1, BundleInit, BundleStep, PTL DEF ResearchSpec

-----------------------------------------------------------------------------
(* What the counterfactual rests on                                        *)

\* The published bundle is that of the output directory, which rests; what is
\* checked out is that one or the bundle of some tape.
Sealed ==
  Published =>
    /\ \A s \in Studies : study[s] = Idle
    /\ Whole(out["manifest"])
    /\ parent \in Versions

Recorded == {Content(version["manifest"]) : version \in Versions}

\* What the counterfactual has found out at its program counter.
Verified ==
  /\ cf.pc # "idle" => Published
  /\ cf.pc \in {"seal", "data", "replay", "equity", "accepted"} => cf.record \in Recorded
  /\ cf.pc \in {"replay", "equity", "accepted"} =>
       cf.summary.clean = CleanOf[cf.bars] /\ cf.record.data.clean = CleanOf[cf.bars]

SealedInv == BundleInv /\ Sealed /\ Verified

LEMMA SealedInit ==
  ResearchInit => SealedInv
PROOF
  BY BundleInit DEF ResearchInit, SealedInv, Sealed, Verified, Published, Idle

LEMMA SealedKept ==
  ASSUME Sealed, Verified, UNCHANGED <<study, out, frozen, parent, cf>>
  PROVE  Sealed' /\ Verified'
PROOF
  BY DEF Sealed, Verified, Published, Versions, Recorded

\* Before a publication there is nothing to verify.
LEMMA SealedBefore ==
  ASSUME Verified, ~Published, UNCHANGED <<frozen, cf>>
  PROVE  Sealed' /\ Verified'
PROOF
<1>1. cf.pc = "idle" /\ ~Published'
  BY DEF Verified, Published
<1> QED
  BY <1>1 DEF Sealed, Verified

LEMMA SealedStudy ==
  ASSUME Sealed, Verified, NEW s \in Studies, StudyNext(s)
  PROVE  Sealed' /\ Verified'
PROOF
<1>1. CASE Load(s)
  BY <1>1, SealedBefore DEF Load, StudyStep, publication
<1>2. CASE ~Load(s)
  <2>1. study[s] # Idle /\ UNCHANGED <<frozen, cf>>
    BY <1>2 DEF StudyNext, Hash, CheckOutput, Bind, WriteMetrics, WriteEquity, WriteFills, WriteSummary,
                List, WriteChecksums, WriteManifest, Write, CrashStudy, StudyStep, publication, Idle
  <2>2. ~Published
    BY <2>1 DEF Sealed
  <2> QED
    BY <2>1, <2>2, SealedBefore
<1> QED
  BY <1>1, <1>2

LEMMA SealedCounterfactual ==
  ASSUME Sealed, Verified, CounterfactualNext
  PROVE  Sealed' /\ Verified'
PROOF
<1>1. UNCHANGED <<study, out, frozen>>
  BY CounterfactualReadsOnly
<1>2. Published' = Published /\ Versions' = Versions /\ Recorded' = Recorded
  BY <1>1 DEF Published, Versions, Recorded
<1>3. CASE \E version \in Versions : Checkout(version)
  <2>1. parent' \in Versions /\ cf' = cf
    BY <1>3 DEF Checkout
  <2> QED
    BY <1>1, <1>2, <2>1 DEF Sealed, Verified
<1>4. ASSUME ~\E version \in Versions : Checkout(version) PROVE Sealed'
  <2>1. UNCHANGED parent
    BY <1>4 DEF CounterfactualNext, CfLoad, CfHash, CfSums, CfList, CfSummary, CfRecord,
                CfSeal, CfData, CfReplay, CfEquity, CfEnd, CfGo, CfStep, publication
  <2> QED
    BY <1>1, <1>2, <2>1 DEF Sealed
<1>5. ASSUME cf' = Idle PROVE Verified'
  BY <1>2, <1>5 DEF Verified, Idle
<1>6. ASSUME CfLoad \/ CfHash \/ CfSums \/ CfList \/ CfSummary PROVE Verified'
  BY <1>2, <1>5, <1>6 DEF CfLoad, CfHash, CfSums, CfList, CfSummary, CfGo, Verified
<1>7. ASSUME CfRecord /\ cf' # Idle PROVE Verified'
  <2>1. /\ cf.pc = "record" /\ cf'.pc = "seal"
        /\ cf'.record = Content(parent["manifest"])
    BY <1>7 DEF CfRecord, CfGo
  <2>2. Published /\ parent \in Versions
    BY <2>1 DEF Sealed, Verified
  <2>3. cf'.record \in Recorded
    BY <2>1, <2>2 DEF Recorded
  <2> QED
    BY <1>2, <2>1, <2>2, <2>3 DEF Verified
<1>8. ASSUME CfSeal PROVE Verified'
  BY <1>2, <1>5, <1>8 DEF CfSeal, CfGo, Verified
<1>9. ASSUME CfData /\ cf' # Idle PROVE Verified'
  <2>1. /\ cf.pc = "data" /\ cf'.pc = "replay"
        /\ cf'.bars = cf.bars /\ cf'.summary = cf.summary /\ cf'.record = cf.record
        /\ SameData([clean |-> CleanOf[cf.bars], input |-> cf.input,
                     provenance |-> Content(manifest)], cf.summary, cf.record)
    BY <1>9 DEF CfData, CfGo
  <2>2. cf.summary.clean = CleanOf[cf.bars] /\ cf.record.data.clean = CleanOf[cf.bars]
    BY <2>1 DEF SameData
  <2> QED
    BY <1>2, <2>1, <2>2 DEF Verified
<1>10. ASSUME CfReplay \/ CfEquity PROVE Verified'
  BY <1>2, <1>5, <1>10 DEF CfReplay, CfEquity, CfGo, Verified
<1>11. ASSUME CfEnd PROVE Verified'
  BY <1>5, <1>11 DEF CfEnd, CfGo
<1>12. CASE ~\E version \in Versions : Checkout(version)
  BY <1>4, <1>5, <1>6, <1>7, <1>8, <1>9, <1>10, <1>11, <1>12 DEF CounterfactualNext
<1> QED
  BY <1>3, <1>12

LEMMA SealedStep ==
  SealedInv /\ [ResearchNext]_research => SealedInv'
PROOF
<1> SUFFICES ASSUME SealedInv, [ResearchNext]_research PROVE (Sealed /\ Verified)'
  BY BundleStep DEF SealedInv
<1>1. Sealed /\ Verified
  BY DEF SealedInv
<1>2. CASE ImportNext
  BY <1>1, <1>2, SealedKept
  DEF ImportNext, Extract, Identify, Stream, ReplaceCsv, WriteProvenance, CrashImport, publication
<1>3. CASE Discard
  BY <1>1, <1>3, SealedBefore DEF Discard, publication
<1>4. CASE Publish
  <2>1. /\ \A s \in Studies : study'[s] = Idle
        /\ Whole(out'["manifest"]) /\ parent' = out'
    BY <1>4 DEF Publish
  <2>2. cf'.pc = "idle"
    BY <1>1, <1>4 DEF Publish, Verified
  <2> QED
    BY <2>1, <2>2 DEF Sealed, Verified, Versions
<1>5. CASE UNCHANGED research
  BY <1>1, <1>5, SealedKept DEF research, publication
<1> QED
  BY <1>1, <1>2, <1>3, <1>4, <1>5, SealedStudy, SealedCounterfactual DEF ResearchNext

\* Every version of the published bundle lists results of the bars it records: the
\* sealed one if its study wrote alone.
LEMMA RecordsList ==
  ASSUME BundleInv, Whole(out["manifest"]), ~overlapped, NEW record \in Recorded,
         NEW f \in Results
  PROVE  record.listed[f] = File(record.data.clean)
PROOF
<1>1. PICK version \in Versions : record = Content(version["manifest"])
  BY DEF Recorded
<1>2. CASE version = out
  BY <1>1, <1>2 DEF BundleInv, Vouched, Artifacts, Results
<1>3. CASE \E tape \in Tapes : version = BundleOf(tape)
  BY <1>1, <1>3, FileHolds DEF BundleOf, Bundle, Artifacts, Results
<1> QED
  BY <1>2, <1>3 DEF Versions

\* A counterfactual that goes on replays the bars that the sealed summary and
\* manifest record (_verify_parent_bundle and the comparisons after it), and the
\* published results are of those bars if the sealed study wrote alone: whatever
\* is checked out or imported while it verifies.
THEOREM CounterfactualsRestOnTheSealedStudy ==
  ResearchSpec => []CounterfactualIsOfTheSealedStudy
PROOF
<1>1. SealedInv => CounterfactualIsOfTheSealedStudy
  <2> SUFFICES ASSUME SealedInv, cf.pc = "accepted"
               PROVE  /\ cf.summary.clean = CleanOf[cf.bars]
                      /\ cf.record.data.clean = CleanOf[cf.bars]
                      /\ ~overlapped =>
                           \A f \in Results :
                             cf.record.listed[f] = File(CleanOf[cf.bars])
    BY DEF CounterfactualIsOfTheSealedStudy
  <2>1. /\ BundleInv /\ Whole(out["manifest"]) /\ cf.record \in Recorded
        /\ cf.summary.clean = CleanOf[cf.bars] /\ cf.record.data.clean = CleanOf[cf.bars]
    BY DEF SealedInv, Sealed, Verified
  <2> QED
    BY <2>1, RecordsList
<1> QED
  BY <1>1, SealedInit, SealedStep, PTL DEF ResearchSpec

-----------------------------------------------------------------------------
(* The risk state of the replay: an account that was disarmed waits its    *)
(* whole cooldown, and nothing is bought within a day of a loss.           *)

\* A turn of the loop without the record of observations.
Turn(i, price) ==
  /\ day' = day + i.gap + 1 /\ day' <= MaxDay
  /\ btc' \in LotsAfter(i)
  /\ cash' = cash - (btc' - btc) * ObservedPrice(i)
  /\ close' = price
  /\ highWater' = MaxOf(HighWater(i), cash' + btc' * price)
  /\ blockedUntil' = BlockedUntil(i)
  /\ lossAt' = IF RollingLoss(i) THEN ObservedAt(i) ELSE lossAt
  /\ epoch' = IF CanRearm(i) THEN epoch + 1 ELSE epoch
  /\ disarmed' = Disarmed(i)
  /\ \/ Disarms(i) /\ disarmedAt' = ObservedAt(i)
        /\ eligibleAt' = IF Mode = "cooldown_rearm" THEN ObservedAt(i) + CooldownDays * Day
                         ELSE NoTime
     \/ ~Disarms(i) /\ StillDisarmed(i) /\ UNCHANGED <<disarmedAt, eligibleAt>>
     \/ ~Disarms(i) /\ ~StillDisarmed(i) /\ UNCHANGED disarmedAt /\ eligibleAt' = NoTime

Times ==
  /\ lossAt \in Int /\ lossAt >= NoTime
  /\ disarmedAt \in Int /\ disarmedAt >= NoTime
  /\ eligibleAt \in Int
  /\ blockedUntil \in Int

\* The cooldown counts from the newest disarming, and once it has ended in a
\* re-arming, a decision time at or after its end has gone by.
Cooldown ==
  /\ eligibleAt # NoTime => eligibleAt = disarmedAt + CooldownDays * Day
  /\ ~disarmed /\ disarmedAt # NoTime =>
       /\ Mode = "cooldown_rearm"
       /\ DecisionTime(day) >= disarmedAt + CooldownDays * Day

\* When the gate has been dropped, the day after the newest loss is over.
LossGate ==
  lossAt # NoTime /\ blockedUntil = NoTime => DecisionTime(day) >= lossAt + Day

Inv == TypeOK /\ Times /\ Cooldown /\ LossGate

-----------------------------------------------------------------------------
(* Arithmetic                                                              *)

\* The lots that a share of the equity pays for cost less than the cash when the
\* lots already held are counted.
LEMMA WantedIsAffordable ==
  ASSUME NEW c \in Nat \ {0}, NEW b \in Nat, NEW p \in Nat \ {0}, NEW w \in 1..99
  PROVE  LET n == (w * (c + b * p)) \div (100 * p)
         IN  n \in Nat /\ (n - b) * p < c
<1> DEFINE e == c + b * p
           n == (w * e) \div (100 * p)
<1>1. e \in Nat \ {0}
  <2>1. b * p \in Nat
    BY SMT
  <2> QED
    BY <2>1
<1> HIDE DEF e
<1>2. w * e \in Nat /\ 100 * p \in Nat \ {0} /\ w * e < 100 * e
  BY <1>1, SMT
<1>3. n \in Nat /\ n * (100 * p) <= w * e
  <2>1. \A x \in Nat, y \in Nat \ {0} : x \div y \in Nat /\ (x \div y) * y <= x
    BY SMT
  <2> QED
    BY <1>2, <2>1
<1> HIDE DEF n
<1>4. n * p \in Int /\ n * (100 * p) = 100 * (n * p)
  BY <1>3, SMT
<1>5. n * p < e
  BY <1>1, <1>2, <1>3, <1>4, SMT
<1>6. (n - b) * p = n * p - b * p /\ b * p \in Int
  BY <1>3, SMT
<1>7. (n - b) * p < c
  BY <1>4, <1>5, <1>6, SMT DEF e
<1> QED
  BY <1>3, <1>7 DEF n, e

LEMMA ProductType == \A m, n \in Nat : m * n \in Nat
BY SMT

\* Fewer lots cost less.
LEMMA FewerLotsCostLess ==
  ASSUME NEW m \in Int, NEW n \in Int, m <= n, NEW p \in Nat
  PROVE  m * p \in Int /\ n * p \in Int /\ m * p <= n * p
BY SMT

-----------------------------------------------------------------------------
(* What a day does                                                         *)

\* A signal asks for whole lots, no more than the account can pay for.
LEMMA WantedType ==
  ASSUME TypeOK, NEW i \in Inputs
  PROVE  /\ ObservedPrice(i) \in Nat \ {0}
         /\ Observed(i) \in Nat
         /\ Wanted(i) \in Nat
         /\ Wanted(i) > btc => (Wanted(i) - btc) * ObservedPrice(i) < cash
<1> USE RiskAssumption
<1>1. ObservedPrice(i) \in Nat \ {0}
  BY DEF ObservedPrice, TypeOK, Inputs, NoReference
<1>2. cash \in Nat \ {0} /\ btc \in Nat /\ i.signal.weight \in 0..99
  <2>1. i.signal \in Signals
    BY DEF Inputs
  <2>2. i.signal.weight \in {0} \cup WeightPercents
    BY <2>1 DEF Signals
  <2> QED
    BY <2>2 DEF TypeOK
<1>3. Observed(i) \in Nat
  <2>1. btc * ObservedPrice(i) \in Nat
    BY <1>1, <1>2, SMT
  <2> QED
    BY <1>2, <2>1 DEF Observed, Equity
<1>4. CASE i.signal.weight = 0
  <2>1. Wanted(i) = 0
    <3>1. \A x \in Nat, y \in Nat \ {0} : (0 * x) \div (100 * y) = 0
      BY SMT
    <3> QED
      BY <1>1, <1>3, <1>4, <3>1 DEF Wanted
  <2> QED
    BY <1>1, <1>2, <1>3, <2>1
<1>5. CASE i.signal.weight \in 1..99
  BY <1>1, <1>2, <1>3, <1>5, WantedIsAffordable DEF Wanted, Observed, Equity
<1> QED
  BY <1>2, <1>4, <1>5

\* Lots grow only in an armed account that no loss gate holds, at a reference
\* price, and never beyond what the signal asks for.
LEMMA DayTrades ==
  ASSUME TypeOK, NEW i \in Inputs, NEW t \in LotsAfter(i)
  PROVE  /\ t \in Nat
         /\ t > btc => /\ ~Disarmed(i) /\ ~Blocked(i)
                      /\ i.reference # NoReference
                      /\ t <= Wanted(i)
<1> USE RiskAssumption
<1>1. btc \in Nat /\ i.fillable \in Nat /\ Wanted(i) \in Nat
  BY WantedType DEF TypeOK, Inputs
<1>2. Desired(i) \in Nat
  BY <1>1 DEF Desired
<1>3. CASE Holds(i)
  BY <1>1, <1>3 DEF LotsAfter
<1>4. CASE ~Holds(i)
  <2>1. /\ t \in Nat
        /\ t > btc => t <= Desired(i)
    BY <1>1, <1>2, <1>4 DEF LotsAfter, MaxOf
  <2>2. ASSUME t > btc
        PROVE  ~Disarmed(i) /\ Desired(i) = Wanted(i) /\ Wanted(i) > btc
    BY <1>1, <1>2, <2>1, <2>2 DEF Desired
  <2> QED
    BY <1>4, <2>1, <2>2 DEF Holds
<1> QED
  BY <1>3, <1>4

\* The account stays solvent.
LEMMA Solvent ==
  ASSUME TypeOK, NEW i \in Inputs, NEW t \in LotsAfter(i)
  PROVE  cash - (t - btc) * ObservedPrice(i) \in Nat \ {0}
<1> DEFINE p == ObservedPrice(i)
<1>1. p \in Nat /\ t \in Nat /\ btc \in Nat /\ cash \in Nat \ {0} /\ Wanted(i) \in Nat
  BY WantedType, DayTrades DEF TypeOK
<1>2. CASE t <= btc
  <2>1. (t - btc) * p \in Int /\ (t - btc) * p <= 0 * p
    BY <1>1, <1>2, FewerLotsCostLess
  <2> QED
    BY <1>1, <2>1
<1>3. CASE t > btc
  <2>1. t - btc <= Wanted(i) - btc /\ (Wanted(i) - btc) * p < cash
    BY <1>1, <1>3, DayTrades, WantedType
  <2>2. /\ (t - btc) * p \in Int /\ (Wanted(i) - btc) * p \in Int
        /\ (t - btc) * p <= (Wanted(i) - btc) * p
    BY <1>1, <2>1, FewerLotsCostLess
  <2> QED
    BY <1>1, <2>1, <2>2
<1> QED
  BY <1>1, <1>2, <1>3

-----------------------------------------------------------------------------
(* The invariant                                                           *)

LEMMA InitInv == Init => Inv
<1> SUFFICES ASSUME Init PROVE Inv
  OBVIOUS
<1> USE RiskAssumption DEF Init
<1>1. TypeOK
  <2>1. /\ day \in 0..MaxDay
        /\ cash \in Nat \ {0} /\ btc \in Nat
        /\ close \in Prices
        /\ epoch \in 1..(day + 1) /\ ~(epoch > 1)
    OBVIOUS
  <2>2. highWater \in Nat /\ highWater >= Equity(close)
    <3>1. btc * close = 0
      BY SMT
    <3> QED
      BY <2>1, <3>1 DEF Equity
  <2>3. /\ lossAt <= Day * day /\ disarmedAt <= Day * day
        /\ blockedUntil = NoTime /\ eligibleAt = NoTime
    BY DEF NoTime, Day
  <2>4. disarmed = FALSE
    OBVIOUS
  <2> HIDE DEF Init
  <2> QED
    BY <2>1, <2>2, <2>3, <2>4 DEF TypeOK
<1>2. Times /\ Cooldown /\ LossGate
  BY DEF Times, Cooldown, LossGate, NoTime
<1> QED
  BY <1>1, <1>2 DEF Inv

\* Every observation of a day lies between its decision and the next midnight.
LEMMA ObservationTimes ==
  ASSUME TypeOK, NEW i \in Inputs
  PROVE  /\ day \in Nat
         /\ ObservedAt(i) \in {Day * day + 1, Day * day + 2}
         /\ DecisionTime(day) = Day * day + 1
BY RiskAssumption DEF TypeOK, ObservedAt, DecisionTime, ReferenceTime, Day

LEMMA TurnTypes ==
  ASSUME Inv, NEW i \in Inputs, NEW price \in Prices, Turn(i, price)
  PROVE  TypeOK' /\ Times'
<1> USE RiskAssumption
<1>1. TypeOK /\ Times
  BY DEF Inv
<1>2. cash' \in Nat \ {0} /\ btc' \in Nat
  BY <1>1, DayTrades, Solvent DEF Turn
<1>3. close' \in Prices /\ close' \in Nat /\ close' = price
  BY DEF Turn
<1>4. cash' + btc' * close' \in Nat
  <2>1. btc' \in Nat /\ close' \in Nat
    BY <1>2, <1>3
  <2>2. btc' * close' \in Nat
    BY <2>1, ProductType, Zenon
  <2> QED
    BY <1>2, <2>2
<1>5. highWater' \in Nat /\ highWater' >= cash' + btc' * close'
  <2>1. HighWater(i) \in Nat
    BY <1>1, WantedType DEF HighWater, MaxOf, TypeOK
  <2> QED
    BY <1>3, <1>4, <2>1 DEF Turn, MaxOf
<1>6. day \in Nat /\ day' \in Nat /\ day' \in 0..MaxDay /\ day' >= day + 1
  BY <1>1 DEF Turn, TypeOK, Inputs
<1>7. epoch' \in 1..(day' + 1) /\ (epoch' > 1 => Mode = "cooldown_rearm")
  BY <1>1, <1>6 DEF Turn, TypeOK, CanRearm
<1>8. ObservedAt(i) \in {Day * day + 1, Day * day + 2}
  BY <1>1, ObservationTimes
<1>9. /\ lossAt' \in Int /\ lossAt' >= NoTime /\ lossAt' <= Day * day'
      /\ blockedUntil' \in Int
      /\ blockedUntil' # NoTime => blockedUntil' = lossAt' + Day
  BY <1>1, <1>6, <1>8 DEF Turn, TypeOK, Times, BlockedUntil, Day, NoTime
<1>10. disarmed' \in BOOLEAN
  BY DEF Turn, Disarmed, StillDisarmed, Disarms
<1>11. /\ disarmedAt' \in Int /\ disarmedAt' >= NoTime /\ disarmedAt' <= Day * day'
       /\ eligibleAt' \in Int
       /\ disarmed' => Mode # "disabled" /\ disarmedAt' # NoTime
       /\ eligibleAt' # NoTime <=> disarmed' /\ Mode = "cooldown_rearm"
  <2>1. CooldownDays * Day \in Nat
    BY DEF Day
  <2>2. Day * day \in Nat /\ Day * day' \in Nat /\ Day * day' >= Day * day + Day
    <3>1. \A m, n \in Nat :
            n >= m + 1 => Day * m \in Nat /\ Day * n \in Nat /\ Day * n >= Day * m + Day
      BY SMT DEF Day
    <3> QED
      BY <1>6, <3>1, Zenon
  <2>3. CASE Disarms(i)
    <3>1. disarmed' = TRUE /\ Mode # "disabled"
      BY <2>3 DEF Turn, Disarmed, Disarms
    <3>2. /\ disarmedAt' = ObservedAt(i)
          /\ eligibleAt' = IF Mode = "cooldown_rearm"
                           THEN ObservedAt(i) + CooldownDays * Day ELSE NoTime
      BY <2>3 DEF Turn
    <3> QED
      BY <1>8, <2>1, <2>2, <3>1, <3>2 DEF Day, NoTime
  <2>4. CASE ~Disarms(i) /\ StillDisarmed(i)
    <3>1. disarmed' = TRUE /\ disarmed
      BY <2>4 DEF Turn, Disarmed, StillDisarmed
    <3>2. disarmedAt' = disarmedAt /\ eligibleAt' = eligibleAt
      BY <2>4 DEF Turn
    <3> QED
      BY <1>1, <2>2, <3>1, <3>2 DEF TypeOK, Times, Day
  <2>5. CASE ~Disarms(i) /\ ~StillDisarmed(i)
    <3>1. disarmed' = FALSE
      BY <2>5 DEF Turn, Disarmed
    <3>2. disarmedAt' = disarmedAt /\ eligibleAt' = NoTime
      BY <2>5 DEF Turn
    <3> QED
      BY <1>1, <2>2, <3>1, <3>2 DEF TypeOK, Times, Day, NoTime
  <2> QED
    BY <2>3, <2>4, <2>5
<1>12. TypeOK'
  BY <1>2, <1>3, <1>5, <1>6, <1>7, <1>9, <1>10, <1>11 DEF TypeOK, Equity
<1>13. Times'
  BY <1>9, <1>11 DEF Times
<1> QED
  BY <1>12, <1>13

LEMMA TurnCooldown ==
  ASSUME Inv, NEW i \in Inputs, NEW price \in Prices, Turn(i, price)
  PROVE  Cooldown'
<1>1. TypeOK /\ Times /\ Cooldown
  BY DEF Inv
<1>2. /\ day \in Nat /\ DecisionTime(day)' \in Nat
      /\ DecisionTime(day)' >= DecisionTime(day) + Day
  BY RiskAssumption, <1>1, ObservationTimes DEF Turn, Inputs, DecisionTime, Day
<1>3. CooldownDays * Day \in Nat /\ DecisionTime(day) \in Nat
  BY RiskAssumption, <1>2 DEF Day, DecisionTime
<1>4. CASE Disarms(i)
  BY <1>4 DEF Turn, Disarmed, Cooldown
<1>5. CASE ~Disarms(i) /\ StillDisarmed(i)
  BY <1>1, <1>5 DEF Turn, Disarmed, Cooldown
<1>6. CASE ~Disarms(i) /\ ~StillDisarmed(i)
  <2>1. eligibleAt' = NoTime /\ disarmedAt' = disarmedAt
    BY <1>6 DEF Turn
  <2>2. CASE ~disarmed
    BY <1>1, <1>2, <1>3, <2>1, <2>2 DEF Cooldown, Times, Day
  <2>3. CASE disarmed
    <3>1. CanRearm(i)
      BY <1>6, <2>3 DEF StillDisarmed
    <3>2. /\ Mode = "cooldown_rearm"
          /\ eligibleAt = disarmedAt + CooldownDays * Day
          /\ DecisionTime(day) >= eligibleAt
      BY <1>1, <2>3, <3>1 DEF CanRearm, TypeOK, Cooldown
    <3> QED
      BY <1>1, <1>2, <1>3, <2>1, <3>2 DEF Cooldown, Times, Day
  <2> QED
    BY <2>2, <2>3
<1> QED
  BY <1>4, <1>5, <1>6

LEMMA TurnLossGate ==
  ASSUME Inv, NEW i \in Inputs, NEW price \in Prices, Turn(i, price)
  PROVE  LossGate'
<1>1. TypeOK /\ Times /\ LossGate
  BY DEF Inv
<1>2. /\ day \in Nat /\ DecisionTime(day)' \in Nat
      /\ ObservedAt(i) \in {Day * day + 1, Day * day + 2}
      /\ DecisionTime(day) = Day * day + 1
      /\ DecisionTime(day)' >= Day * day + Day + 1
  BY RiskAssumption, <1>1, ObservationTimes DEF Turn, Inputs, DecisionTime, Day
<1> SUFFICES ASSUME lossAt' # NoTime, blockedUntil' = NoTime
             PROVE  DecisionTime(day)' >= lossAt' + Day
  BY DEF LossGate
<1>3. ~RollingLoss(i) /\ lossAt' = lossAt
  BY <1>2 DEF Turn, BlockedUntil, Day, NoTime
<1>4. CASE blockedUntil = NoTime
  BY <1>1, <1>2, <1>3, <1>4 DEF LossGate, Times, Day
<1>5. CASE blockedUntil # NoTime
  <2>1. blockedUntil = lossAt + Day /\ ObservedAt(i) >= blockedUntil
    BY <1>1, <1>3, <1>5 DEF Turn, BlockedUntil, TypeOK
  <2> QED
    BY <1>1, <1>2, <1>3, <2>1 DEF Times, Day
<1> QED
  BY <1>4, <1>5

LEMMA NextInv == Inv /\ [Next]_vars => Inv'
<1> SUFFICES ASSUME Inv, [Next]_vars PROVE Inv'
  OBVIOUS
<1>1. CASE NextDay
  <2>1. PICK i \in Inputs, price \in Prices : Turn(i, price)
    BY <1>1 DEF NextDay, Turn
  <2> QED
    BY <2>1, TurnTypes, TurnCooldown, TurnLossGate DEF Inv
<1>2. CASE UNCHANGED vars
  BY <1>2 DEF Inv, TypeOK, Times, Cooldown, LossGate, Equity, DecisionTime, vars, risk
<1> QED
  BY <1>1, <1>2 DEF Next

THEOREM InvariantHolds == Spec => []Inv
<1> QED
  BY InitInv, NextInv, PTL DEF Spec

\* Holdings, the high-water mark and the dates of the gates keep their types
\* and their relations on every path of prices.
THEOREM TypeCorrect == Spec => []TypeOK
<1>1. Inv => TypeOK
  BY DEF Inv
<1> QED
  BY <1>1, InvariantHolds, PTL

-----------------------------------------------------------------------------
(* The properties                                                          *)

LEMMA PurchaseStep ==
  Inv /\ [Next]_vars =>
    [Buys =>
       /\ disarmedAt' # NoTime => /\ Mode = "cooldown_rearm"
                                  /\ DecisionTime(day) >= disarmedAt' + CooldownDays * Day
       /\ lossAt' # NoTime => ReferenceTime(day) >= lossAt' + Day]_vars
<1> SUFFICES ASSUME Inv, Next, Buys
             PROVE  /\ disarmedAt' # NoTime =>
                         /\ Mode = "cooldown_rearm"
                         /\ DecisionTime(day) >= disarmedAt' + CooldownDays * Day
                    /\ lossAt' # NoTime => ReferenceTime(day) >= lossAt' + Day
  OBVIOUS
<1>1. PICK i \in Inputs, price \in Prices : Turn(i, price)
  BY DEF Next, NextDay, Turn
<1>2. TypeOK /\ Times /\ Cooldown /\ LossGate
  BY DEF Inv
<1>3. ~Disarmed(i) /\ ~Blocked(i) /\ i.reference # NoReference
  BY <1>1, <1>2, DayTrades DEF Turn, Buys
<1>4. ASSUME disarmedAt' # NoTime
      PROVE  Mode = "cooldown_rearm" /\ DecisionTime(day) >= disarmedAt' + CooldownDays * Day
  <2>1. disarmedAt' = disarmedAt
    BY <1>1, <1>3 DEF Turn, Disarmed
  <2>2. CASE ~disarmed
    BY <1>2, <1>4, <2>1, <2>2 DEF Cooldown
  <2>3. CASE disarmed
    <3>1. CanRearm(i)
      BY <1>3, <2>3 DEF Disarmed, StillDisarmed
    <3> QED
      BY <1>2, <2>1, <2>3, <3>1 DEF CanRearm, TypeOK, Cooldown
  <2> QED
    BY <2>2, <2>3
<1>5. ASSUME lossAt' # NoTime
      PROVE  ReferenceTime(day) >= lossAt' + Day
  <2>1. /\ day \in Nat
        /\ ObservedAt(i) = ReferenceTime(day) /\ ReferenceTime(day) = Day * day + 2
        /\ DecisionTime(day) = Day * day + 1
    BY <1>2, <1>3, ObservationTimes DEF ObservedAt, ReferenceTime, Day
  <2>2. BlockedUntil(i) = NoTime
    BY <1>3 DEF Blocked
  <2>3. ~RollingLoss(i) /\ lossAt' = lossAt
    BY <1>1, <2>1, <2>2 DEF Turn, BlockedUntil, Day, NoTime
  <2>4. CASE blockedUntil = NoTime
    BY <1>2, <1>5, <2>1, <2>3, <2>4 DEF LossGate, Times, Day
  <2>5. CASE blockedUntil # NoTime
    BY <1>2, <2>1, <2>2, <2>3, <2>5 DEF BlockedUntil, TypeOK, Times, Day
  <2> QED
    BY <2>4, <2>5
<1> QED
  BY <1>4, <1>5

\* A disarmed account waits out its cooldown, or for good, before it buys.
THEOREM CooldownKept == Spec => NoPurchaseInCooldown
<1>1. Inv /\ [Next]_vars =>
        [Buys /\ disarmedAt' # NoTime =>
           /\ Mode = "cooldown_rearm"
           /\ DecisionTime(day) >= disarmedAt' + CooldownDays * Day]_vars
  BY PurchaseStep
<1> QED
  BY <1>1, InvariantHolds, PTL DEF Spec, NoPurchaseInCooldown

\* No purchase within a day of the newest rolling loss.
THEOREM LossGateKept == Spec => NoPurchaseAfterLoss
<1>1. Inv /\ [Next]_vars =>
        [Buys /\ lossAt' # NoTime => ReferenceTime(day) >= lossAt' + Day]_vars
  BY PurchaseStep
<1> QED
  BY <1>1, InvariantHolds, PTL DEF Spec, NoPurchaseAfterLoss

\* A new epoch begins in cash and is not ended by the losses of the one before.
THEOREM EpochsStartAfresh == Spec => RearmStartsAfresh
<1>1. Inv /\ [Next]_vars => [epoch' # epoch => btc = 0 /\ ~disarmed']_vars
  <2> SUFFICES ASSUME Inv, Next, epoch' # epoch PROVE btc = 0 /\ ~disarmed'
    OBVIOUS
  <2>1. PICK i \in Inputs, price \in Prices : Turn(i, price)
    BY DEF Next, NextDay, Turn
  <2>2. CanRearm(i) /\ btc = 0
    BY <2>1 DEF Turn, CanRearm
  <2>3. TypeOK /\ ObservedPrice(i) \in Nat
    BY WantedType DEF Inv
  <2>4. HighWater(i) = cash /\ Observed(i) = cash /\ cash \in Nat \ {0}
    BY <2>2, <2>3 DEF HighWater, Observed, Equity, TypeOK
  <2>5. 100 * cash > (100 - DrawdownPercent) * cash
    <3>1. DrawdownPercent \in 1..99
      BY RiskAssumption
    <3> QED
      BY <2>4, <3>1, SMT
  <2>6. ~Disarms(i)
    BY <2>4, <2>5, RiskAssumption DEF Disarms
  <2> QED
    BY <2>1, <2>2, <2>6 DEF Turn, Disarmed, StillDisarmed, Disarms
<1> QED
  BY <1>1, InvariantHolds, PTL DEF Spec, RearmStartsAfresh

=============================================================================
