------------------------------- MODULE Research -------------------------------
(***************************************************************************)
(* The offline research: an import of Kraken's archive                     *)
(* (kraken_archive_csv.py) into a normalized file and its manifest, the    *)
(* price study (historical_study.py), which reads them and writes a bundle *)
(* of artifacts, and the counterfactual (historical_counterfactual.py),    *)
(* which rests on the bundle that an operator published. They share files  *)
(* only. Every program may crash between two steps, several studies may    *)
(* write to one directory, and the operator replaces files at any time.    *)
(*                                                                         *)
(* A file is absent, or cut off by a crash, or holds one content, which    *)
(* also stands for its hash. Bars are named by the tape they were made of, *)
(* clean bars by a tape that has them. What a replay writes is determined  *)
(* by the clean bars and stands as them: "metrics" is a table whose hash   *)
(* the counterfactual's configuration freezes, "equity" the tables (equity *)
(* and risk events) that it freezes and the counterfactual reproduces,     *)
(* "fills" those that are only reproduced (decisions, fills, benchmark     *)
(* entries). The results that are only listed, Git, the code's hashes and  *)
(* the configuration, which only refuse to start, are left out.            *)
(***************************************************************************)
EXTENDS StudyInputs

CONSTANTS
  Tapes,    \* versions of the extracted archive member
  Trades,   \*   and what they hold
  Pinned,   \* the one whose hash is preregistered (raw_csv_sha256)
  Studies   \* processes that run the study

ASSUME ResearchAssumption ==
  /\ Trades \in [Tapes -> [1..LastDay -> Nat]]
  /\ \A t, u \in Tapes : Trades[t] = Trades[u] => t = u
  /\ Pinned \in Tapes /\ Complete(Trades[Pinned]) /\ LongEnough(Bars(Trades[Pinned]))

CleanOf ==
  [t \in Tapes |-> CHOOSE u \in Tapes : Clean(Bars(Trades[u])) = Clean(Bars(Trades[t]))]

Reached == {t \in Tapes : Complete(Trades[t])}

Enough == {t \in Tapes : LongEnough(Bars(Trades[t]))}

\* Row count, first and last date.
ShapeOf ==
  [t \in Tapes |->
    LET bars == Bars(Trades[t]) IN
    IF bars = {} THEN <<0>> ELSE <<Cardinality(bars), First(bars), Last(bars)>>]

VARIABLES
  archive,    \* the source CSV
  csv,        \* the normalized CSV
  manifest,   \*   and its provenance manifest
  importer,   \* the import
  study,      \* each study
  out,        \* the studies' output directory
  parent,     \* the published bundle
  frozen,     \* what the counterfactual's configuration says of it
  cf,         \* the counterfactual
  torn,       \* history: a file was replaced between a program's two reads of it
  overlapped  \* history: two studies were writing at once

files == <<archive, csv, manifest>>
publication == <<parent, frozen>>
research == <<files, importer, study, out, publication, cf, torn, overlapped>>

\* What a replay leaves, and the summary of it.
Results == {"metrics", "equity", "fills"}
Artifacts == Results \cup {"summary"}
Bundle == Artifacts \cup {"checksums", "manifest"}

Absent == <<>>
File(content) == <<content>>
Content(file) == file[1]

\* What a crash may leave of a file that was being written.
Truncated == <<"cut", "off">>
Whole(file) == file \notin {Absent, Truncated}

Empty == [f \in Bundle |-> Absent]

Idle == [pc |-> "idle"]

ResearchInit ==
  /\ archive \in Tapes
  /\ csv = Absent /\ manifest = Absent
  /\ importer = Idle
  /\ study = [s \in Studies |-> Idle]
  /\ out = Empty
  /\ parent = Empty /\ frozen = Absent
  /\ cf = Idle
  /\ torn = FALSE /\ overlapped = FALSE

\* Bound of the model: once a study is published no other one is run.
Published == frozen # Absent

-----------------------------------------------------------------------------
(* The import                                                              *)

\* external: the operator extracts a version of the archive.
Extract(tape) ==
  /\ archive' = tape
  /\ torn' = (torn \/ (importer.pc = "stream" /\ tape # archive))
  /\ UNCHANGED <<csv, manifest, importer, study, out, publication, cf, overlapped>>

\* _file_identity and _verify_file_identity: the declared hash is the file's.
Identify ==
  /\ importer = Idle
  /\ importer' = [pc |-> "stream", raw |-> archive]
  /\ UNCHANGED <<files, study, out, publication, cf, torn, overlapped>>

\* The bars are streamed from another opening of the file to a temporary one.
Stream ==
  /\ importer.pc = "stream"
  /\ importer' = IF archive \in Reached
                 THEN [pc |-> "replace", raw |-> importer.raw, bars |-> archive]
                 ELSE Idle
  /\ UNCHANGED <<files, study, out, publication, cf, torn, overlapped>>

\* Studies that have read the normalized file once, of two times.
Reading == {s \in Studies : study[s].pc = "hash"}

ReplaceCsv ==
  /\ importer.pc = "replace"
  /\ csv' = File(importer.bars)
  /\ importer' = [pc |-> "manifest", raw |-> importer.raw, bars |-> importer.bars]
  /\ torn' = (torn \/ \E s \in Reading : study[s].bars # importer.bars)
  /\ UNCHANGED <<archive, manifest, study, out, publication, cf, overlapped>>

WriteProvenance ==
  /\ importer.pc = "manifest"
  /\ manifest' = File([raw |-> importer.raw, bars |-> importer.bars])
  /\ importer' = Idle
  /\ UNCHANGED <<archive, csv, study, out, publication, cf, torn, overlapped>>

\* A temporary file may be left, which nothing reads.
CrashImport ==
  /\ importer # Idle /\ importer' = Idle
  /\ UNCHANGED <<files, study, out, publication, cf, torn, overlapped>>

-----------------------------------------------------------------------------
(* The study                                                               *)

\* _normalized_manifest_hash, of a program that loaded bars and then hashed the
\* file. A bar stands for one row of the raw archive.
Binds_ByShape(provenance, bars, input) ==
  provenance.raw = Pinned /\ ShapeOf[provenance.bars] = ShapeOf[bars]

Binds(provenance, bars, input) ==
  /\ provenance.raw = Pinned
  /\ ShapeOf[provenance.bars][1] = ShapeOf[Pinned][1]
  /\ provenance.bars = input
  /\ ShapeOf[provenance.bars] = ShapeOf[bars]

Goto(s, record) == study' = [study EXCEPT ![s] = record]

StudyStep(s) == UNCHANGED <<files, importer, publication, cf, torn>>

\* run_historical_study_from_csv: load_daily_bars,
Load(s) ==
  /\ ~Published
  /\ study[s] = Idle /\ csv # Absent
  /\ Goto(s, [pc |-> "hash", bars |-> Content(csv)])
  /\ StudyStep(s) /\ UNCHANGED <<out, overlapped>>

\* and _sha256_file, of the file as it is by then.
Hash(s) ==
  /\ study[s].pc = "hash"
  /\ Goto(s, [pc |-> "check", bars |-> study[s].bars, input |-> Content(csv)])
  /\ StudyStep(s) /\ UNCHANGED <<out, overlapped>>

\* Steps of a study between its look at the output directory and its end.
Writing ==
  {"bind", "metrics", "equity", "fills", "summary", "list", "checksums", "manifest"}

Writers == {s \in Studies : study[s].pc \in Writing}

\* output_dir must be absent or empty.
MayWrite_Always(o) == TRUE

MayWrite(o) == o = Empty

CheckOutput(s) ==
  /\ study[s].pc = "check"
  /\ Goto(s, IF MayWrite(out)
             THEN [pc |-> "bind", bars |-> study[s].bars, input |-> study[s].input]
             ELSE Idle)
  /\ overlapped' = (overlapped \/ (MayWrite(out) /\ Writers # {}))
  /\ StudyStep(s) /\ UNCHANGED out

\* The data of a bundle: the clean bars and the hashes of their origin.
Bind(s) ==
  /\ study[s].pc = "bind"
  /\ LET bars == study[s].bars
         input == study[s].input
     IN Goto(s, IF /\ manifest # Absent /\ Binds(Content(manifest), bars, input)
                   /\ bars \in Enough
                THEN [pc |-> "metrics",
                      data |-> [clean |-> CleanOf[bars], input |-> input,
                                provenance |-> Content(manifest)]]
                ELSE Idle)
  /\ StudyStep(s) /\ UNCHANGED <<out, overlapped>>

Write(s, f, content, next) ==
  /\ study[s].pc = f
  /\ out' = [out EXCEPT ![f] = File(content)]
  /\ Goto(s, next)
  /\ StudyStep(s) /\ UNCHANGED overlapped

Then(s, pc) == [pc |-> pc, data |-> study[s].data]

WriteMetrics(s) == Write(s, "metrics", study[s].data.clean, Then(s, "equity"))

WriteEquity(s) == Write(s, "equity", study[s].data.clean, Then(s, "fills"))

WriteFills(s) == Write(s, "fills", study[s].data.clean, Then(s, "summary"))

WriteSummary(s) == Write(s, "summary", study[s].data, Then(s, "list"))

\* artifact_hashes: the files are read back.
List(s) ==
  /\ study[s].pc = "list"
  /\ Goto(s, [pc |-> "checksums", data |-> study[s].data, listed |-> [f \in Artifacts |-> out[f]]])
  /\ StudyStep(s) /\ UNCHANGED <<out, overlapped>>

WriteChecksums(s) ==
  Write(s, "checksums", study[s].listed,
        [pc |-> "manifest", data |-> study[s].data, listed |-> study[s].listed])

WriteManifest(s) ==
  Write(s, "manifest",
        [data |-> study[s].data, listed |-> study[s].listed, checksums |-> out["checksums"]],
        Idle)

\* The files are not written to temporary ones: a crash may cut off the next one.
CrashStudy(s) ==
  /\ study[s] # Idle /\ Goto(s, Idle)
  /\ \/ UNCHANGED out
     \/ study[s].pc \in Bundle /\ out' = [out EXCEPT ![study[s].pc] = Truncated]
  /\ StudyStep(s) /\ UNCHANGED overlapped

\* external: the operator discards the output of studies that are over.
Discard ==
  /\ Writers = {} /\ ~Published
  /\ out # Empty /\ out' = Empty
  /\ overlapped' = FALSE
  /\ UNCHANGED <<files, importer, study, publication, cf, torn>>

-----------------------------------------------------------------------------
(* The publication (external) and the counterfactual                       *)

\* The operator publishes a bundle with its manifest and freezes its hashes.
Publish ==
  /\ ~Published
  /\ Whole(out["manifest"]) /\ \A s \in Studies : study[s] = Idle
  /\ parent' = out
  /\ frozen' = File([checksums |-> out["checksums"], manifest |-> out["manifest"],
                     metrics |-> out["metrics"], equity |-> out["equity"],
                     data |-> Content(out["manifest"]).data])
  /\ UNCHANGED <<files, importer, study, out, cf, torn, overlapped>>

\* The bundle that a study of a tape would leave.
BundleOf(tape) ==
  LET data == [clean |-> CleanOf[tape], input |-> tape,
               provenance |-> [raw |-> tape, bars |-> tape]]
      files_ == [f \in Artifacts |-> IF f = "summary" THEN File(data) ELSE File(data.clean)]
  IN [f \in Bundle |->
       IF f \in Artifacts THEN files_[f]
       ELSE IF f = "checksums" THEN File(files_)
       ELSE File([data |-> data, listed |-> files_, checksums |-> File(files_)])]

\* Another version of the published files is checked out, or the published one again.
Checkout(version) ==
  /\ Published
  /\ parent' = version
  /\ UNCHANGED <<files, importer, study, out, frozen, cf, torn, overlapped>>

Versions == {BundleOf(tape) : tape \in Tapes} \cup {out}

CfStep == UNCHANGED <<files, importer, study, out, publication, torn, overlapped>>

CfGo(condition, record) == cf' = (IF condition THEN record ELSE Idle) /\ CfStep

CfLoad ==
  /\ Published /\ cf = Idle /\ csv # Absent
  /\ CfGo(TRUE, [pc |-> "hash", bars |-> Content(csv)])

CfHash ==
  /\ cf.pc = "hash"
  /\ CfGo(TRUE, [pc |-> "sums", bars |-> cf.bars, input |-> Content(csv)])

Frozen == Content(frozen)

\* _verify_parent_bundle: the checksums file is hashed,
CfSums ==
  /\ cf.pc = "sums"
  /\ CfGo(parent["checksums"] # Absent /\ parent["checksums"] = Frozen.checksums,
          [pc |-> "list", bars |-> cf.bars, input |-> cf.input])

\* then read (_parse_checksums): every artifact that it lists is there as listed,
\* and two of the three tables are listed as frozen.
CfList ==
  /\ cf.pc = "list"
  /\ LET listing == parent["checksums"] IN
     CfGo(/\ Whole(listing)
          /\ \A f \in Artifacts : parent[f] # Absent /\ parent[f] = Content(listing)[f]
          /\ parent["metrics"] = Frozen.metrics /\ parent["equity"] = Frozen.equity,
          [pc |-> "summary", bars |-> cf.bars, input |-> cf.input, listed |-> Content(listing)])

CfSummary ==
  /\ cf.pc = "summary"
  /\ CfGo(Whole(parent["summary"]),
          [pc |-> "record", bars |-> cf.bars, input |-> cf.input, listed |-> cf.listed,
           summary |-> Content(parent["summary"])])

\* The manifest is read,
CfRecord ==
  /\ cf.pc = "record"
  /\ CfGo(Whole(parent["manifest"]),
          [pc |-> "seal", bars |-> cf.bars, input |-> cf.input, listed |-> cf.listed,
           summary |-> cf.summary, record |-> Content(parent["manifest"])])

\* then hashed.
CfSeal ==
  /\ cf.pc = "seal"
  /\ CfGo(/\ parent["manifest"] # Absent /\ parent["manifest"] = Frozen.manifest
          /\ cf.record.listed = cf.listed
          /\ cf.record.checksums = Frozen.checksums,
          [pc |-> "data", bars |-> cf.bars, input |-> cf.input,
           summary |-> cf.summary, record |-> cf.record])

\* The comparisons with the frozen identity, the summary and the manifest.
SameData_ByManifest(data, summary, record) == data = Frozen.data /\ data = record.data

SameData(data, summary, record) ==
  data = Frozen.data /\ data = summary /\ data = record.data

CfData ==
  /\ cf.pc = "data"
  /\ CfGo(/\ cf.bars \in Enough
          /\ manifest # Absent /\ Binds(Content(manifest), cf.bars, cf.input)
          /\ SameData([clean |-> CleanOf[cf.bars], input |-> cf.input,
                       provenance |-> Content(manifest)], cf.summary, cf.record),
          [pc |-> "replay", bars |-> cf.bars, summary |-> cf.summary, record |-> cf.record])

\* _verify_persistent_replay and _verify_buy_and_hold_reconstruction read the
\* tables again, one after another.
CfReplay ==
  /\ cf.pc = "replay"
  /\ CfGo(parent["fills"] = File(CleanOf[cf.bars]),
          [pc |-> "equity", bars |-> cf.bars, summary |-> cf.summary, record |-> cf.record])

CfEquity ==
  /\ cf.pc = "equity"
  /\ CfGo(parent["equity"] = File(CleanOf[cf.bars]),
          [pc |-> "accepted", bars |-> cf.bars, summary |-> cf.summary, record |-> cf.record])

\* It writes its own bundle, refuses for what is left out here, or crashes.
CfEnd == cf # Idle /\ CfGo(FALSE, cf)

-----------------------------------------------------------------------------

ImportNext ==
  \/ \E tape \in Tapes : Extract(tape)
  \/ Identify \/ Stream \/ ReplaceCsv \/ WriteProvenance \/ CrashImport

StudyNext(s) ==
  \/ Load(s) \/ Hash(s) \/ CheckOutput(s) \/ Bind(s)
  \/ WriteMetrics(s) \/ WriteEquity(s) \/ WriteFills(s) \/ WriteSummary(s)
  \/ List(s) \/ WriteChecksums(s) \/ WriteManifest(s)
  \/ CrashStudy(s)

CounterfactualNext ==
  \/ \E version \in Versions : Checkout(version)
  \/ CfLoad \/ CfHash
  \/ CfSums \/ CfList \/ CfSummary \/ CfRecord \/ CfSeal
  \/ CfData \/ CfReplay \/ CfEquity \/ CfEnd

ResearchNext ==
  \/ ImportNext
  \/ \E s \in Studies : StudyNext(s)
  \/ Discard \/ Publish
  \/ CounterfactualNext

ResearchSpec == ResearchInit /\ [][ResearchNext]_research

-----------------------------------------------------------------------------

\* If no file was replaced between two reads of it, a study that goes on to write
\* has the clean history of the preregistered archive, whatever imports of other
\* versions were made, or crashed between the file and its manifest.
StudyIsOfThePinnedTape ==
  ~torn =>
    \A s \in Studies : study[s].pc \in Writing \ {"bind"} =>
      study[s].data.clean = CleanOf[Pinned]

\* manifest.json vouches for the whole bundle of one run: if no two studies wrote
\* at once, its artifacts are all there as it lists them, and of its bars, also
\* when studies crashed and were run again.
ManifestVouches ==
  Whole(out["manifest"]) /\ ~overlapped =>
    LET record == Content(out["manifest"]) IN
    /\ \A f \in Artifacts : out[f] # Absent /\ out[f] = record.listed[f]
    /\ out["checksums"] = File(record.listed) /\ record.checksums = out["checksums"]
    /\ out["summary"] = File(record.data)
    /\ \A f \in Results : out[f] = File(record.data.clean)

\* Even if two studies wrote at once and files were replaced while they were read,
\* the counterfactual replays the bars that the sealed summary and manifest
\* record; and if the sealed study wrote alone, its results are of those bars.
CounterfactualIsOfTheSealedStudy ==
  cf.pc = "accepted" =>
    /\ cf.summary.clean = CleanOf[cf.bars] /\ cf.record.data.clean = CleanOf[cf.bars]
    /\ ~overlapped =>
         \A f \in Results : cf.record.listed[f] = File(CleanOf[cf.bars])

=============================================================================
