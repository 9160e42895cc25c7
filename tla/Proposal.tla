------------------------------ MODULE Proposal ------------------------------
(***************************************************************************)
(* One proposal in the shared Drive folder (mcp/sasha-slides/proposal.ts): *)
(* the connector's tools that stage its candidates, revise one of them and *)
(* clear those nobody inserted.  A tool is a series of Drive calls, any of *)
(* which can fail, with or without having taken effect, and end the tool   *)
(* there; the agent may then call it again, or another one.  The connector *)
(* runs one tool at a time.                                                *)
(*                                                                         *)
(* Bytes of a candidate are told apart by a number that every upload       *)
(* raises.  A log line's file is never changed, and no reader counts equal *)
(* lines, so the log is a set.  Labels, comments and merges are left out.  *)
(***************************************************************************)
EXTENDS Naturals

CONSTANTS
  Count,      \* how many candidates are staged
  MaxUploads, \* bound: uploads of one candidate
  MaxChanges, \* bound: revisions and clears
  MaxFaults   \* bound: Drive calls that fail

ASSUME CountAssumption == Count \in Nat \ {0}
ASSUME BoundsAssumption == MaxUploads \in Nat /\ MaxChanges \in Nat /\ MaxFaults \in Nat

VARIABLES
  files,    \* which of the proposal's own files exist
  html,     \* per candidate: the bytes of its NN.html, 0 when it has no file
  log,      \* the lines in events/
  manifest, \* manifest.json
  pick,     \* the answer in PICK, {} while it is open
  call,     \* the tool that runs: its step and what it knows
  faults    \* Drive calls that have failed

folderVars == <<files, html, log, manifest, pick>>
connectorVars == <<call, faults>>

-----------------------------------------------------------------------------
Slides == 1..Count

\* The answer that nothing is picked.
Dismissal == 0

FileNames == {"folder", "events", "slot", "READY"}

\* revision 0 is no manifest; of: the bytes that revision is about (history).
Manifest == [revision: Nat, slides: SUBSET Slides, of: [Slides -> Nat]]

NoManifest == [revision |-> 0, slides |-> {}, of |-> [s \in Slides |-> 0]]

Kinds == {"slides-staged", "slide-revised", "slides-cleared", "slide-inserted"}

Line == [kind: Kinds, revision: Nat, slides: SUBSET Slides]

LineOf(kind, revision, slides) == [kind |-> kind, revision |-> revision, slides |-> slides]

StagingSteps == {"folder", "slides", "events", "staged", "manifest", "slot", "ready"}

RevisionSteps == {"upload", "revised", "rewrite"}

ClearingSteps == {"readLog", "readPick", "delete", "verify", "cleared", "filter"}

\* known: candidates said to be inserted; recorded: those that were recorded as
\* inserted when the tool began, but for whom every read of a record failed (history).
Call == [step: {"none"} \cup StagingSteps \cup RevisionSteps \cup ClearingSteps,
         slide: Slides, read: Manifest, listed: SUBSET Slides,
         known: SUBSET Slides, recorded: SUBSET Slides]

NoCall == [step |-> "none", slide |-> 1, read |-> NoManifest, listed |-> {},
           known |-> {}, recorded |-> {}]

Candidates == {s \in Slides : html[s] # 0}

\* The candidates of the slide-inserted lines among some lines.
InsertedIn(lines) == UNION {line.slides : line \in {l \in lines : l.kind = "slide-inserted"}}

InsertedInLog == InsertedIn(log)

\* A PICK that names inserted objects.
InsertedInPick == pick \cap Slides

Revisions == {line.revision : line \in log}

-----------------------------------------------------------------------------
\* The effects of a tool's Drive calls that write, in the order of the code.

\* What follows a step that has nothing left to do.
AfterStaging ==
  [folder |-> "slides", slides |-> "events", events |-> "staged", staged |-> "manifest",
   manifest |-> "slot", slot |-> "ready", ready |-> "none"]

\* Mutant of AfterRevision: the manifest is written before the line that explains it.
ManifestBeforeLine == [upload |-> "rewrite", rewrite |-> "revised", revised |-> "none"]

AfterRevision == [upload |-> "revised", revised |-> "rewrite", rewrite |-> "none"]

AfterClearing ==
  [readLog |-> "readPick", readPick |-> "delete", delete |-> "verify", verify |-> "cleared",
   cleared |-> "filter", filter |-> "none"]

Following(step) ==
  IF step \in StagingSteps THEN AfterStaging[step]
  ELSE IF step \in RevisionSteps THEN AfterRevision[step]
  ELSE AfterClearing[step]

At(step) == call.step = step

First(s, some) == s \in some /\ \A t \in some : s <= t

MakeFile(name) ==
  files' = files \cup {name} /\ UNCHANGED <<html, log, manifest, pick>>

AppendLine(line) ==
  log' = log \cup {line} /\ UNCHANGED <<files, html, manifest, pick>>

WriteManifest(revision, slides, of) ==
  /\ manifest' = [revision |-> revision, slides |-> slides, of |-> of]
  /\ UNCHANGED <<files, html, log, pick>>

WriteSlide(s, bytes) ==
  html' = [html EXCEPT ![s] = bytes] /\ UNCHANGED <<files, log, manifest, pick>>

\* createProposal: one candidate after another, then the log, the manifest, the
\* slot for the answer and READY.
StagingWrites ==
  \/ At("folder") /\ MakeFile("folder")
  \/ At("slides") /\ \E s \in Slides : First(s, Slides \ Candidates) /\ WriteSlide(s, 1)
  \/ At("events") /\ MakeFile("events")
  \/ At("staged") /\ AppendLine(LineOf("slides-staged", 1, Slides))
  \/ At("manifest") /\ WriteManifest(1, Slides, [s \in Slides |-> 1])
  \/ At("slot") /\ MakeFile("slot")
  \/ At("ready") /\ MakeFile("READY")

\* reviseSlide: the candidate's file in place, the line, the manifest.
RevisionWrites ==
  \/ At("upload") /\ html[call.slide] < MaxUploads /\ WriteSlide(call.slide, html[call.slide] + 1)
  \/ At("revised") /\ AppendLine(LineOf("slide-revised", call.read.revision + 1, {call.slide}))
  \/ /\ At("rewrite")
     /\ WriteManifest(call.read.revision + 1, call.read.slides,
                      [call.read.of EXCEPT ![call.slide] = html[call.slide]])

\* Mutant of Doomed: the answer in PICK is not looked at.
DoomedByLog == call.listed \ (call.known \ InsertedInPick)

\* The candidates to delete, and those to keep.
Doomed == call.listed \ call.known
Kept == call.listed \cap call.known

\* Mutant of KeptOf: what this call did not delete is kept.
NotDoomed(slides) == slides \ Doomed

KeptOf(slides) == slides \cap Kept

\* clearSlides: the files one after another, the line, the manifest.
ClearingWrites ==
  \/ At("delete") /\ \E s \in Slides : First(s, Doomed \cap Candidates) /\ WriteSlide(s, 0)
  \/ At("cleared") /\ AppendLine(LineOf("slides-cleared", call.read.revision + 1, Doomed))
  \/ At("filter") /\ WriteManifest(call.read.revision + 1, KeptOf(call.read.slides), call.read.of)

Writes == StagingWrites \/ RevisionWrites \/ ClearingWrites

\* Mutant of Repeats: the upload's loop ends before the last candidate.
RepeatsButLast ==
  \/ At("slides") /\ Candidates' \cup {Count} # Slides
  \/ At("delete") /\ Doomed \cap Candidates' # {}

\* Whether the step, taken once more, has to be taken again.
Repeats ==
  \/ At("slides") /\ Candidates' # Slides
  \/ At("delete") /\ Doomed \cap Candidates' # {}

Advance(step) ==
  call' = IF step = "none" THEN NoCall ELSE [call EXCEPT !.step = step]

-----------------------------------------------------------------------------
\* The connector's actions.

FolderTypeOK ==
  /\ files \subseteq FileNames
  /\ html \in [Slides -> Nat]
  /\ log \subseteq Line
  /\ manifest \in Manifest
  /\ pick \subseteq {Dismissal} \cup Slides
  /\ call \in Call
  /\ faults \in Nat

FolderInit ==
  /\ files = {} /\ html = [s \in Slides |-> 0] /\ log = {}
  /\ manifest = NoManifest
  /\ pick = {}
  /\ call = [NoCall EXCEPT !.step = "folder"]
  /\ faults = 0

\* A write of the tool that runs.
Step ==
  /\ Writes
  /\ Advance(IF Repeats THEN call.step ELSE Following(call.step))
  /\ UNCHANGED faults

\* locateProposal and usableManifest, for a tool that changes the set.
Locate(step, s) ==
  /\ At("none") /\ manifest.revision > 0
  /\ manifest.revision <= MaxChanges
  /\ call' = [step |-> step, slide |-> s, read |-> manifest, listed |-> Candidates,
              known |-> {}, recorded |-> InsertedInLog \cup InsertedInPick]
  /\ UNCHANGED <<folderVars, faults>>

\* reviseSlide of a candidate that is listed.
Revise(s) ==
  s \in Candidates /\ html[s] < MaxUploads /\ Locate("upload", s)

\* clearSlides.
Clear == Locate("readLog", 1)

\* insertedSlideIndices, the log: a failure to list it is only warned about, and
\* a line whose body cannot be read is passed over as one of an unknown kind.
ReadLog ==
  /\ At("readLog")
  /\ \E lines \in SUBSET log :
       /\ call' = [call EXCEPT !.step = "readPick", !.known = InsertedIn(lines),
                               !.recorded = IF lines = log THEN @
                                            ELSE @ \cap (InsertedIn(lines) \cup InsertedInPick)]
       /\ IF lines = log THEN UNCHANGED faults ELSE faults < MaxFaults /\ faults' = faults + 1
  /\ UNCHANGED folderVars

\* Nothing may be left to delete.
Decide(known, recorded) ==
  call' = [call EXCEPT !.step = IF call.listed \subseteq known THEN "verify" ELSE "delete",
                       !.known = known, !.recorded = recorded]

\* insertedSlideIndices, the answer: one that cannot be read or parsed is only
\* warned about, and what the log said is all that is kept.
ReadPick ==
  /\ At("readPick")
  /\ \/ Decide(call.known \cup InsertedInPick, call.recorded) /\ UNCHANGED faults
     \/ /\ pick # {} /\ Decide(call.known, call.recorded \cap call.known)
        /\ faults < MaxFaults /\ faults' = faults + 1
  /\ UNCHANGED folderVars

\* The candidates are listed again, and are those that were to be kept.
Verify ==
  /\ At("verify") /\ Candidates = Kept
  /\ Advance(Following("verify"))
  /\ UNCHANGED <<folderVars, faults>>

\* A Drive call fails or its answer is lost: the tool ends where it is.
Fail ==
  /\ ~At("none") /\ ~At("readLog")
  /\ faults < MaxFaults /\ faults' = faults + 1
  /\ Writes \/ UNCHANGED folderVars
  /\ call' = NoCall

Connector ==
  \/ Step \/ Clear \/ ReadLog \/ ReadPick \/ Verify \/ Fail
  \/ \E s \in Slides : Revise(s)

-----------------------------------------------------------------------------
\* Properties of the folder.

\* PROTOCOL.md "What READY means now", proposal.ts:242-243: when READY appears
\* every candidate has its html, the manifest names them all, and the line and the
\* slot are there; only a clear takes a candidate away later.
ReadyIsComplete ==
  [][/\ "READY" \in files' \ files =>
          /\ \A s \in Slides : html[s] # 0
          /\ manifest.revision = 1 /\ manifest.slides = Slides
          /\ LineOf("slides-staged", 1, Slides) \in log
          /\ {"folder", "events", "slot"} \subseteq files
     /\ "READY" \in files /\ ~At("delete") => Candidates \subseteq Candidates']_<<folderVars, connectorVars>>

\* proposal.ts:484-489, "HTML, then the event, then the manifest": a reader who
\* sees a revision finds the line of every revision up to it, and no bytes older
\* than that revision is about.
RevisionIsBacked ==
  /\ \A r \in 1..manifest.revision : r \in Revisions
  /\ \A s \in manifest.slides : html[s] = 0 \/ html[s] >= manifest.of[s]
=============================================================================
