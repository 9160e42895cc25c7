------------------------- MODULE SlidesWindowProofs -------------------------
(***************************************************************************)
(* A proposal and the slides window on it, for any number of candidates,   *)
(* revisions, clears and failed calls: what a reader finds in the folder,  *)
(* what a clear may delete, and what is recorded as inserted.              *)
(***************************************************************************)
EXTENDS SlidesWindow, TLAPS

-----------------------------------------------------------------------------
\* The order of a tool's calls.
LEMMA Order ==
  /\ Following("folder") = "slides" /\ Following("slides") = "events"
  /\ Following("events") = "staged" /\ Following("staged") = "manifest"
  /\ Following("manifest") = "slot" /\ Following("slot") = "ready"
  /\ Following("ready") = "none"
  /\ Following("upload") = "revised" /\ Following("revised") = "rewrite"
  /\ Following("rewrite") = "none"
  /\ Following("delete") = "verify" /\ Following("verify") = "cleared"
  /\ Following("cleared") = "filter" /\ Following("filter") = "none"
BY DEF Following, StagingSteps, RevisionSteps, ClearingSteps, AfterStaging, AfterRevision, AfterClearing

\* The tool goes on to its next step, or ends there: with a failure, or because
\* nothing follows.
Goes(next) == call' = NoCall \/ call' = [call EXCEPT !.step = next]

\* What a step of a tool that writes does, and where it goes from there.
FolderStep == At("folder") /\ MakeFile("folder") /\ Goes("slides")

SlideStep ==
  /\ At("slides") /\ \E s \in Slides : WriteSlide(s, 1)
  /\ Goes("slides") \/ (Candidates' = Slides /\ Goes("events"))

EventsStep == At("events") /\ MakeFile("events") /\ Goes("staged")

StagedStep == At("staged") /\ AppendLine(LineOf("slides-staged", 1, Slides)) /\ Goes("manifest")

ManifestStep ==
  At("manifest") /\ WriteManifest(1, Slides, [s \in Slides |-> 1]) /\ Goes("slot")

SlotStep == At("slot") /\ MakeFile("slot") /\ Goes("ready")

ReadyStep == At("ready") /\ MakeFile("READY") /\ call' = NoCall

UploadStep ==
  At("upload") /\ WriteSlide(call.slide, html[call.slide] + 1) /\ Goes("revised")

RevisedStep ==
  /\ At("revised") /\ AppendLine(LineOf("slide-revised", call.read.revision + 1, {call.slide}))
  /\ Goes("rewrite")

RewriteStep ==
  /\ At("rewrite")
  /\ WriteManifest(call.read.revision + 1, call.read.slides,
                   [call.read.of EXCEPT ![call.slide] = html[call.slide]])
  /\ call' = NoCall

DeleteStep ==
  /\ At("delete") /\ \E s \in Slides : s \in Doomed /\ WriteSlide(s, 0)
  /\ Goes("delete") \/ Goes("verify")

ClearedStep ==
  /\ At("cleared") /\ AppendLine(LineOf("slides-cleared", call.read.revision + 1, Doomed))
  /\ Goes("filter")

FilterStep ==
  /\ At("filter") /\ WriteManifest(call.read.revision + 1, KeptOf(call.read.slides), call.read.of)
  /\ call' = NoCall

WritesOnce ==
  \/ FolderStep \/ SlideStep \/ EventsStep \/ StagedStep \/ ManifestStep \/ SlotStep \/ ReadyStep
  \/ UploadStep \/ RevisedStep \/ RewriteStep \/ DeleteStep \/ ClearedStep \/ FilterStep

LEMMA StepCases ==
  ASSUME call \in Call, Step \/ (Fail /\ Writes)
  PROVE  WritesOnce
<1>1. CASE Fail /\ Writes
  BY <1>1 DEF Fail, Writes, StagingWrites, RevisionWrites, ClearingWrites, First, WritesOnce,
     Goes, FolderStep, SlideStep, EventsStep, StagedStep, ManifestStep, SlotStep, ReadyStep,
     UploadStep, RevisedStep, RewriteStep, DeleteStep, ClearedStep, FilterStep
<1>2. CASE Step
  <2>1. Writes /\ Advance(IF Repeats THEN call.step ELSE Following(call.step))
    BY <1>2 DEF Step
  <2>2. CASE StagingWrites
    <3>1. CASE At("slides")
      <4>1. PICK s \in Slides : WriteSlide(s, 1)
        BY <2>2, <3>1 DEF StagingWrites, At
      <4>2. CASE Repeats
        BY <2>1, <3>1, <4>1, <4>2 DEF At, Advance, Goes, SlideStep, WritesOnce
      <4>3. CASE ~ Repeats
        BY <2>1, <3>1, <4>1, <4>3, Order DEF At, Advance, Repeats, Goes, SlideStep, WritesOnce
      <4>4. QED
        BY <4>2, <4>3
    <3>2. CASE ~ At("slides")
      <4>1. ~ Repeats
        BY <2>2, <3>2 DEF Repeats, StagingWrites, At
      <4>2. Advance(Following(call.step))
        BY <2>1, <4>1
      <4>3. QED
        BY <2>2, <3>2, <4>2, Order DEF StagingWrites, At, Advance, WritesOnce, Goes, FolderStep,
           EventsStep, StagedStep, ManifestStep, SlotStep, ReadyStep
    <3>3. QED
      BY <3>1, <3>2
  <2>3. CASE RevisionWrites
    <3>1. Advance(Following(call.step))
      BY <2>1, <2>3 DEF Repeats, RevisionWrites, At
    <3>2. QED
      BY <2>3, <3>1, Order DEF RevisionWrites, At, Advance, WritesOnce, Goes, UploadStep,
         RevisedStep, RewriteStep
  <2>4. CASE ClearingWrites
    <3>1. CASE At("delete")
      <4>1. PICK s \in Slides : s \in Doomed /\ WriteSlide(s, 0)
        BY <2>4, <3>1 DEF ClearingWrites, At, First, Candidates
      <4>2. Goes("delete") \/ Goes("verify")
        BY <2>1, <3>1, Order DEF At, Advance, Goes
      <4>3. QED
        BY <3>1, <4>1, <4>2 DEF DeleteStep, WritesOnce
    <3>2. CASE ~ At("delete")
      <4>1. Advance(Following(call.step))
        BY <2>1, <2>4, <3>2 DEF Repeats, ClearingWrites, At
      <4>2. QED
        BY <2>4, <3>2, <4>1, Order DEF ClearingWrites, At, Advance, WritesOnce, Goes,
           ClearedStep, FilterStep
    <3>3. QED
      BY <3>1, <3>2
  <2>5. QED
    BY <2>1, <2>2, <2>3, <2>4 DEF Writes
<1>3. QED
  BY <1>1, <1>2

-----------------------------------------------------------------------------
\* The inductive invariant.

\* What a step of the staging, and a manifest, has before it.
Ordered ==
  /\ call.step \in StagingSteps \ {"folder"} => "folder" \in files
  /\ call.step \in {"staged", "manifest", "slot", "ready"} => "events" \in files
  /\ call.step \in {"manifest", "slot", "ready"} => LineOf("slides-staged", 1, Slides) \in log
  /\ call.step = "ready" => "slot" \in files
  /\ manifest.revision > 0 => /\ {"folder", "events"} \subseteq files
                             /\ LineOf("slides-staged", 1, Slides) \in log

\* Until the staging has written its manifest there is none, and afterwards there is.
StagedOnce ==
  /\ call.step \in {"folder", "slides", "events", "staged", "manifest"} => manifest = NoManifest
  /\ call.step \in {"events", "staged", "manifest", "slot", "ready"} => Candidates = Slides
  /\ call.step \in {"slot", "ready"} => manifest.revision = 1 /\ manifest.slides = Slides
  /\ call.step \in {"slot", "ready"} \cup RevisionSteps \cup ClearingSteps => manifest.revision > 0

\* A tool knows the manifest as it is, and the manifest every candidate.
Informed ==
  /\ call.step \in RevisionSteps \cup ClearingSteps => call.read = manifest
  /\ call.step \in {"rewrite", "filter"} => call.read.revision + 1 \in Revisions
  /\ call.step = "upload" => call.slide \in Candidates
  /\ call.step \in {"cleared", "filter"} => Candidates = Kept
  /\ manifest.revision > 0 => Candidates \subseteq manifest.slides

\* A clear has learned of what was recorded as inserted when it began.
Remembered ==
  /\ call.step = "readLog" => call.recorded \subseteq InsertedInLog \cup InsertedInPick
  /\ call.step = "readPick" => call.recorded \subseteq call.known \cup InsertedInPick
  /\ call.step \in {"delete", "verify", "cleared", "filter"} => call.recorded \subseteq call.known

FolderInv ==
  /\ FolderTypeOK
  /\ Ordered /\ StagedOnce /\ Informed /\ Remembered
  /\ RevisionIsBacked

\* The same tool, at its next step.
SameCall(next) ==
  /\ call'.step = next /\ call'.slide = call.slide /\ call'.read = call.read
  /\ call'.listed = call.listed /\ call'.known = call.known /\ call'.recorded = call.recorded

LEMMA NoCallType == NoCall \in Call /\ NoCall.step = "none"
<1>1. 1 \in Slides
  BY CountAssumption DEF Slides
<1>2. NoManifest \in Manifest
  BY DEF NoManifest, Manifest
<1>3. QED
  BY <1>1, <1>2 DEF NoCall, Call

LEMMA GoesOn ==
  ASSUME call \in Call,
         NEW next \in {"none"} \cup StagingSteps \cup RevisionSteps \cup ClearingSteps, Goes(next)
  PROVE  call' \in Call /\ (call'.step = "none" \/ SameCall(next))
<1>1. CASE call' = NoCall
  BY <1>1, NoCallType
<1>2. CASE call' = [call EXCEPT !.step = next]
  BY <1>2 DEF Call, SameCall
<1>3. QED
  BY <1>1, <1>2 DEF Goes

\* A tool that has ended leaves nothing to know but of the folder.
LEMMA FileStep ==
  ASSUME FolderInv, FolderStep \/ EventsStep \/ SlotStep \/ ReadyStep, faults' \in Nat
  PROVE  FolderInv'
<1> USE DEF StagingSteps, RevisionSteps, ClearingSteps, At
<1>1. call \in Call
  BY DEF FolderInv, FolderTypeOK
<1>2. PICK name \in FileNames : MakeFile(name)
  BY DEF FolderStep, EventsStep, SlotStep, ReadyStep, FileNames
<1>3. UNCHANGED <<html, log, manifest, pick>> /\ files' = files \cup {name}
  BY <1>2 DEF MakeFile
<1>4. /\ call' \in Call
      /\ \/ call'.step = "none"
         \/ FolderStep /\ SameCall("slides")
         \/ EventsStep /\ SameCall("staged")
         \/ SlotStep /\ SameCall("ready")
  BY <1>1, GoesOn, NoCallType DEF FolderStep, EventsStep, SlotStep, ReadyStep
<1>5. FolderTypeOK'
  BY <1>3, <1>4 DEF FolderInv, FolderTypeOK
<1>6. Ordered'
  BY <1>3, <1>4 DEF FolderInv, Ordered, FolderStep, EventsStep, SlotStep, MakeFile, SameCall
<1>7. StagedOnce'
  BY <1>3, <1>4 DEF FolderInv, StagedOnce, FolderStep, EventsStep, SlotStep, SameCall, Candidates
<1>8. Informed' /\ Remembered'
  BY <1>3, <1>4 DEF FolderInv, Informed, Remembered, FolderStep, EventsStep, SlotStep, SameCall,
     Candidates
<1>9. RevisionIsBacked'
  BY <1>3 DEF FolderInv, RevisionIsBacked, Revisions
<1>10. QED
  BY <1>5, <1>6, <1>7, <1>8, <1>9 DEF FolderInv

\* A line that is appended takes none away.
LEMMA LineStep ==
  ASSUME FolderInv, StagedStep \/ RevisedStep \/ ClearedStep, faults' \in Nat
  PROVE  FolderInv'
<1> USE DEF StagingSteps, RevisionSteps, ClearingSteps, At
<1>1. call \in Call /\ manifest \in Manifest
  BY DEF FolderInv, FolderTypeOK
<1>2. PICK line \in Line : AppendLine(line)
  <2>1. CASE StagedStep
    BY <2>1 DEF StagedStep, LineOf, Line, Kinds
  <2>2. CASE RevisedStep
    BY <1>1, <2>2 DEF RevisedStep, LineOf, Line, Kinds, Call, Manifest
  <2>3. CASE ClearedStep
    <3>1. Doomed \subseteq Slides
      BY <1>1 DEF Doomed, Call
    <3>2. QED
      BY <1>1, <2>3, <3>1 DEF ClearedStep, LineOf, Line, Kinds, Call, Manifest
  <2>4. QED
    BY <2>1, <2>2, <2>3
<1>3. UNCHANGED <<html, files, manifest, pick>> /\ log' = log \cup {line}
  BY <1>2 DEF AppendLine
<1>4. /\ call' \in Call
      /\ \/ call'.step = "none"
         \/ StagedStep /\ SameCall("manifest")
         \/ RevisedStep /\ SameCall("rewrite")
         \/ ClearedStep /\ SameCall("filter")
  BY <1>1, GoesOn DEF StagedStep, RevisedStep, ClearedStep
<1>5. FolderTypeOK'
  BY <1>2, <1>3, <1>4 DEF FolderInv, FolderTypeOK
<1>6. Ordered'
  BY <1>3, <1>4 DEF FolderInv, Ordered, StagedStep, RevisedStep, ClearedStep, AppendLine, SameCall
<1>7. StagedOnce'
  BY <1>3, <1>4 DEF FolderInv, StagedOnce, StagedStep, RevisedStep, ClearedStep, SameCall, Candidates
<1>8. Revisions \subseteq Revisions' /\ Candidates' = Candidates
  BY <1>3 DEF Revisions, Candidates
<1>9. (RevisedStep \/ ClearedStep) => call.read.revision + 1 \in Revisions'
  BY DEF RevisedStep, ClearedStep, AppendLine, LineOf, Revisions
<1>10. Informed'
  BY <1>3, <1>4, <1>8, <1>9 DEF FolderInv, Informed, StagedStep, RevisedStep, ClearedStep, SameCall, Kept
<1>11. Remembered'
  BY <1>4 DEF FolderInv, Remembered, StagedStep, RevisedStep, ClearedStep, SameCall
<1>12. RevisionIsBacked'
  BY <1>3, <1>8 DEF FolderInv, RevisionIsBacked
<1>13. QED
  BY <1>5, <1>6, <1>7, <1>10, <1>11, <1>12 DEF FolderInv

LEMMA ManifestWritten ==
  ASSUME FolderInv, ManifestStep, faults' \in Nat
  PROVE  FolderInv'
<1> USE DEF StagingSteps, RevisionSteps, ClearingSteps, At
<1>1. call \in Call
  BY DEF FolderInv, FolderTypeOK
<1>2. /\ UNCHANGED <<html, files, log, pick>>
      /\ manifest' = [revision |-> 1, slides |-> Slides, of |-> [s \in Slides |-> 1]]
  BY DEF ManifestStep, WriteManifest
<1>3. /\ manifest' \in Manifest /\ manifest'.revision = 1 /\ manifest'.slides = Slides
      /\ \A s \in Slides : manifest'.of[s] = 1
  BY <1>2 DEF Manifest
<1>4. call' \in Call /\ (call'.step = "none" \/ SameCall("slot"))
  BY <1>1, GoesOn DEF ManifestStep
<1>5. FolderTypeOK'
  BY <1>2, <1>3, <1>4 DEF FolderInv, FolderTypeOK
<1>6. Ordered'
  BY <1>2, <1>3, <1>4 DEF FolderInv, Ordered, ManifestStep, SameCall
<1>7. StagedOnce'
  BY <1>2, <1>3, <1>4 DEF FolderInv, StagedOnce, ManifestStep, SameCall, Candidates
<1>8. Informed'
  BY <1>2, <1>3, <1>4 DEF FolderInv, Informed, SameCall, Candidates
<1>9. Remembered'
  BY <1>4 DEF Remembered, SameCall
<1>10. RevisionIsBacked'
  <2>1. 1 \in Revisions'
    <3>1. LineOf("slides-staged", 1, Slides) \in log
      BY DEF ManifestStep, FolderInv, Ordered
    <3>2. QED
      BY <1>2, <3>1 DEF Revisions, LineOf
  <2>2. \A s \in Slides : html[s] \in Nat /\ html[s] # 0
    BY DEF ManifestStep, FolderInv, FolderTypeOK, StagedOnce, Candidates
  <2>3. \A r \in 1 .. manifest'.revision : r \in Revisions'
    BY <1>3, <2>1
  <2>4. \A s \in manifest'.slides : html'[s] = 0 \/ html'[s] >= manifest'.of[s]
    BY <1>2, <1>3, <2>2
  <2>5. QED
    BY <2>3, <2>4 DEF RevisionIsBacked
<1>11. QED
  BY <1>5, <1>6, <1>7, <1>8, <1>9, <1>10 DEF FolderInv

LEMMA ManifestRewritten ==
  ASSUME FolderInv, RewriteStep \/ FilterStep, faults' \in Nat
  PROVE  FolderInv' /\ (FilterStep => manifest'.slides = Candidates)
<1> USE DEF StagingSteps, RevisionSteps, ClearingSteps, At
<1>1. /\ call \in Call /\ manifest \in Manifest /\ call.read = manifest /\ manifest.revision > 0
      /\ manifest.revision + 1 \in Revisions /\ Candidates \subseteq manifest.slides
      /\ html \in [Slides -> Nat]
  BY DEF FolderInv, FolderTypeOK, Informed, StagedOnce, RewriteStep, FilterStep
<1>2. PICK slides \in SUBSET Slides, of \in [Slides -> Nat] :
        /\ WriteManifest(manifest.revision + 1, slides, of)
        /\ slides = (IF RewriteStep THEN manifest.slides ELSE KeptOf(manifest.slides))
        /\ \A s \in Slides : of[s] = manifest.of[s] \/ of[s] = html[s]
  <2>1. CASE RewriteStep
    <3>1. [manifest.of EXCEPT ![call.slide] = html[call.slide]] \in [Slides -> Nat]
      BY <1>1 DEF Manifest, Call
    <3>2. \A s \in Slides : [manifest.of EXCEPT ![call.slide] = html[call.slide]][s] \in
                              {manifest.of[s], html[s]}
      BY <1>1 DEF Manifest, Call
    <3>3. QED
      BY <1>1, <2>1, <3>1, <3>2 DEF RewriteStep, Manifest
  <2>2. CASE FilterStep
    BY <1>1, <2>2 DEF FilterStep, RewriteStep, Manifest, KeptOf
  <2>3. QED
    BY <2>1, <2>2
<1>3. /\ UNCHANGED <<html, files, log, pick>>
      /\ manifest' = [revision |-> manifest.revision + 1, slides |-> slides, of |-> of]
  BY <1>2 DEF WriteManifest
<1>4. /\ manifest' \in Manifest /\ manifest'.revision = manifest.revision + 1
      /\ manifest'.slides = slides /\ manifest'.of = of
  BY <1>1, <1>3 DEF Manifest
<1>5. call' \in Call /\ call'.step = "none"
  BY NoCallType DEF RewriteStep, FilterStep
<1>6. FolderTypeOK'
  BY <1>3, <1>4, <1>5 DEF FolderInv, FolderTypeOK
<1>7. Candidates' = Candidates /\ Revisions' = Revisions
  BY <1>3 DEF Candidates, Revisions
<1>8. FilterStep => slides = Candidates
  BY <1>1, <1>2 DEF FilterStep, RewriteStep, FolderInv, Informed, KeptOf
<1>9. Candidates \subseteq slides
  BY <1>1, <1>2, <1>8
<1>10. Ordered' /\ StagedOnce' /\ Remembered'
  BY <1>1, <1>3, <1>5 DEF FolderInv, Ordered, StagedOnce, Remembered
<1>11. Informed'
  BY <1>4, <1>5, <1>7, <1>9 DEF Informed
<1>12. RevisionIsBacked'
  <2>1. \A r \in 1 .. manifest'.revision : r \in Revisions'
    <3>1. \A r \in 1 .. manifest.revision : r \in Revisions
      BY DEF FolderInv, RevisionIsBacked
    <3>2. manifest.revision \in Nat
      BY <1>1 DEF Manifest
    <3>3. QED
      BY <1>1, <1>4, <1>7, <3>1, <3>2
  <2>2. \A s \in manifest'.slides : html'[s] = 0 \/ html'[s] >= manifest'.of[s]
    <3>1. slides \subseteq manifest.slides /\ slides \subseteq Slides
      BY <1>2 DEF KeptOf
    <3>2. \A s \in slides : html[s] \in Nat /\ (html[s] = 0 \/ html[s] >= manifest.of[s])
      BY <1>1, <3>1 DEF FolderInv, RevisionIsBacked
    <3>3. \A s \in slides : html[s] = 0 \/ html[s] >= of[s]
      BY <1>2, <3>1, <3>2
    <3>4. QED
      BY <1>3, <1>4, <3>3
  <2>3. QED
    BY <2>1, <2>2 DEF RevisionIsBacked
<1>13. QED
  BY <1>4, <1>6, <1>8, <1>10, <1>11, <1>12 DEF FolderInv

\* A candidate's file is made, replaced or deleted.
LEMMA CandidateStep ==
  ASSUME FolderInv, SlideStep \/ UploadStep \/ DeleteStep, faults' \in Nat
  PROVE  FolderInv' /\ \A s \in Slides : html[s] # 0 /\ html'[s] = 0 => s \notin call.recorded
<1> USE DEF StagingSteps, RevisionSteps, ClearingSteps, At
<1>1. call \in Call /\ html \in [Slides -> Nat]
  BY DEF FolderInv, FolderTypeOK
<1>2. PICK s \in Slides, bytes \in Nat :
        /\ WriteSlide(s, bytes)
        /\ SlideStep => bytes = 1
        /\ UploadStep => s = call.slide /\ bytes = html[s] + 1
        /\ DeleteStep => s \in Doomed /\ bytes = 0
  <2>1. CASE SlideStep
    BY <2>1 DEF SlideStep, UploadStep, DeleteStep
  <2>2. CASE UploadStep
    BY <1>1, <2>2 DEF SlideStep, UploadStep, DeleteStep, Call
  <2>3. CASE DeleteStep
    BY <2>3 DEF SlideStep, UploadStep, DeleteStep
  <2>4. QED
    BY <2>1, <2>2, <2>3
<1>3. /\ UNCHANGED <<files, log, manifest, pick>> /\ html' = [html EXCEPT ![s] = bytes]
      /\ html' \in [Slides -> Nat]
      /\ \A t \in Slides : html'[t] = IF t = s THEN bytes ELSE html[t]
  BY <1>1, <1>2 DEF WriteSlide
<1>4. /\ call' \in Call
      /\ \/ call'.step = "none"
         \/ SlideStep /\ (SameCall("slides") \/ (Candidates' = Slides /\ SameCall("events")))
         \/ UploadStep /\ SameCall("revised")
         \/ DeleteStep /\ (SameCall("delete") \/ SameCall("verify"))
  BY <1>1, GoesOn DEF SlideStep, UploadStep, DeleteStep
<1>5. FolderTypeOK'
  BY <1>3, <1>4 DEF FolderInv, FolderTypeOK
<1>6. Ordered'
  BY <1>3, <1>4 DEF FolderInv, Ordered, SlideStep, UploadStep, DeleteStep, SameCall
<1>7. StagedOnce'
  BY <1>3, <1>4 DEF FolderInv, StagedOnce, SlideStep, UploadStep, DeleteStep, SameCall
<1>8. Revisions' = Revisions
  BY <1>3 DEF Revisions
<1>9. manifest.revision > 0 => Candidates' \subseteq manifest.slides
  <2>1. CASE SlideStep
    BY <2>1 DEF SlideStep, FolderInv, StagedOnce, NoManifest
  <2>2. CASE UploadStep
    <3>1. s \in Candidates
      BY <1>2, <2>2 DEF UploadStep, FolderInv, Informed
    <3>2. Candidates' \subseteq Candidates
      BY <1>3, <3>1 DEF Candidates
    <3>3. QED
      BY <3>2 DEF FolderInv, Informed
  <2>3. CASE DeleteStep
    <3>1. Candidates' \subseteq Candidates
      BY <1>2, <1>3, <2>3 DEF Candidates
    <3>2. QED
      BY <3>1 DEF FolderInv, Informed
  <2>4. QED
    BY <2>1, <2>2, <2>3
<1>10. Informed'
  BY <1>3, <1>4, <1>8, <1>9 DEF FolderInv, Informed, SlideStep, UploadStep, DeleteStep, SameCall
<1>11. Remembered'
  BY <1>3, <1>4 DEF FolderInv, Remembered, SlideStep, UploadStep, DeleteStep, SameCall
<1>12. RevisionIsBacked'
  <2>1. \A t \in manifest.slides : t \in Slides /\ html[t] \in Nat /\ manifest.of[t] \in Nat
                                  /\ (html[t] = 0 \/ html[t] >= manifest.of[t])
    BY <1>1 DEF FolderInv, FolderTypeOK, Manifest, RevisionIsBacked
  <2>2. SlideStep => manifest.slides = {}
    BY DEF SlideStep, FolderInv, StagedOnce, NoManifest
  <2>3. UploadStep => html[s] # 0
    BY <1>2 DEF UploadStep, FolderInv, Informed, Candidates
  <2>4. \A t \in manifest.slides : html'[t] = 0 \/ html'[t] >= manifest.of[t]
    BY <1>2, <1>3, <2>1, <2>2, <2>3
  <2>5. QED
    BY <1>3, <1>8, <2>4 DEF FolderInv, RevisionIsBacked
<1>13. FolderInv'
  BY <1>5, <1>6, <1>7, <1>10, <1>11, <1>12 DEF FolderInv
<1>14. ASSUME NEW t \in Slides, html[t] # 0, html'[t] = 0
       PROVE  t \notin call.recorded
  <2>1. t = s /\ bytes = 0
    BY <1>3, <1>14
  <2>2. DeleteStep
    BY <1>1, <1>2, <2>1
  <2>3. QED
    BY <1>2, <2>1, <2>2 DEF DeleteStep, Doomed, FolderInv, Remembered
<1>15. QED
  BY <1>13, <1>14

\* The steps of a tool that only read, the start of another, and a failure.
LEMMA CallOnly ==
  ASSUME FolderInv, UNCHANGED folderVars, call' \in Call, faults' \in Nat,
         call'.step = "none" \/ call'.step = "verify" \/ call'.step = "readPick"
         \/ call'.step \in {"upload", "readLog", "delete", "cleared"},
         call'.step # "none" => call'.read = manifest /\ manifest.revision > 0,
         call'.step = "upload" => call'.slide \in Candidates,
         call'.step = "cleared" => Candidates = Kept',
         Remembered'
  PROVE  FolderInv'
<1> USE DEF StagingSteps, RevisionSteps, ClearingSteps, folderVars
<1>1. FolderTypeOK'
  BY DEF FolderInv, FolderTypeOK
<1>2. Ordered' /\ StagedOnce'
  BY DEF FolderInv, Ordered, StagedOnce
<1>3. Informed'
  BY DEF FolderInv, Informed, Candidates
<1>4. RevisionIsBacked'
  BY DEF FolderInv, RevisionIsBacked, Revisions
<1>5. QED
  BY <1>1, <1>2, <1>3, <1>4 DEF FolderInv

LEMMA ReadingStep ==
  ASSUME FolderInv, Connector, ~ WritesOnce
  PROVE  FolderInv' /\ UNCHANGED folderVars
<1> USE DEF StagingSteps, RevisionSteps, ClearingSteps, At
<1>1. call \in Call /\ faults \in Nat /\ manifest \in Manifest
  BY DEF FolderInv, FolderTypeOK
<1>2. InsertedInLog \subseteq Slides /\ InsertedInPick \subseteq Slides /\ Candidates \subseteq Slides
  BY DEF InsertedInLog, InsertedIn, InsertedInPick, Candidates, FolderInv, FolderTypeOK, Line
<1>3. CASE Step \/ (Fail /\ Writes)
  BY <1>1, <1>3, StepCases
<1>4. CASE Fail /\ UNCHANGED folderVars
  <2>1. call' \in Call /\ call'.step = "none" /\ faults' \in Nat
    BY <1>1, <1>4, NoCallType DEF Fail
  <2>2. QED
    BY <1>4, <2>1, CallOnly DEF Remembered
<1>5. ASSUME NEW step \in {"upload", "readLog"}, NEW s \in Slides, Locate(step, s),
             step = "upload" => s \in Candidates
      PROVE  FolderInv' /\ UNCHANGED folderVars
  <2>1. call' = [step |-> step, slide |-> s, read |-> manifest, listed |-> Candidates,
                 known |-> {}, recorded |-> InsertedInLog \cup InsertedInPick]
        /\ UNCHANGED <<folderVars, faults>> /\ manifest.revision > 0
    BY <1>5 DEF Locate
  <2>2. call' \in Call
    BY <1>1, <1>2, <2>1 DEF Call
  <2>3. InsertedInLog' = InsertedInLog /\ InsertedInPick' = InsertedInPick
    BY <2>1 DEF InsertedInLog, InsertedIn, InsertedInPick, folderVars
  <2>4. Remembered'
    BY <2>1, <2>3 DEF Remembered
  <2>5. QED
    BY <1>1, <1>5, <2>1, <2>2, <2>4, CallOnly
<1>6. CASE ReadLog
  <2>1. PICK lines \in SUBSET log :
          call' = [call EXCEPT !.step = "readPick", !.known = InsertedIn(lines),
                              !.recorded = IF lines = log THEN @
                                           ELSE @ \cap (InsertedIn(lines) \cup InsertedInPick)]
    BY <1>6 DEF ReadLog
  <2>2. UNCHANGED folderVars /\ faults' \in Nat /\ call.step = "readLog"
    BY <1>1, <1>6 DEF ReadLog
  <2>3. InsertedIn(lines) \subseteq Slides
    BY DEF InsertedIn, FolderInv, FolderTypeOK, Line
  <2>4. /\ call' \in Call /\ call'.step = "readPick" /\ call'.read = call.read
        /\ call'.known = InsertedIn(lines)
        /\ call'.recorded = IF lines = log THEN call.recorded
                            ELSE call.recorded \cap (InsertedIn(lines) \cup InsertedInPick)
    BY <1>1, <2>1, <2>3 DEF Call
  <2>5. call.read = manifest /\ manifest.revision > 0
    BY <2>2 DEF FolderInv, Informed, StagedOnce
  <2>6. call.recorded \subseteq InsertedIn(log) \cup InsertedInPick /\ InsertedInPick' = InsertedInPick
    BY <2>2 DEF FolderInv, Remembered, InsertedInLog, InsertedInPick, folderVars
  <2>7. Remembered'
    BY <2>4, <2>6 DEF Remembered
  <2>8. QED
    BY <2>2, <2>4, <2>5, <2>7, CallOnly
<1>7. CASE ReadPick
  <2>1. PICK known \in {call.known \cup InsertedInPick, call.known} :
          /\ call' = [call EXCEPT !.step = IF call.listed \subseteq known THEN "verify" ELSE "delete",
                                  !.known = known,
                                  !.recorded = IF known = call.known \cup InsertedInPick THEN @
                                               ELSE @ \cap known]
    <3>1. CASE Decide(call.known \cup InsertedInPick, call.recorded)
      BY <3>1 DEF Decide
    <3>2. CASE Decide(call.known, call.recorded \cap call.known)
      <4>1. CASE call.known = call.known \cup InsertedInPick
        <5>1. call.recorded \cap call.known = call.recorded
          BY <1>7, <4>1 DEF ReadPick, FolderInv, Remembered
        <5>2. QED
          BY <3>2, <4>1, <5>1 DEF Decide
      <4>2. CASE call.known # call.known \cup InsertedInPick
        BY <3>2, <4>2 DEF Decide
      <4>3. QED
        BY <4>1, <4>2
    <3>3. QED
      BY <1>7, <3>1, <3>2 DEF ReadPick
  <2>2. UNCHANGED folderVars /\ faults' \in Nat /\ call.step = "readPick"
    BY <1>1, <1>7 DEF ReadPick
  <2>3. /\ call' \in Call /\ call'.step \in {"verify", "delete"} /\ call'.read = call.read
        /\ call'.known = known
        /\ call'.recorded = IF known = call.known \cup InsertedInPick THEN call.recorded
                            ELSE call.recorded \cap known
    BY <1>1, <1>2, <2>1 DEF Call
  <2>4. call.read = manifest /\ manifest.revision > 0
        /\ call.recorded \subseteq call.known \cup InsertedInPick
    BY <2>2 DEF FolderInv, Informed, StagedOnce, Remembered
  <2>5. Remembered'
    BY <2>3, <2>4 DEF Remembered
  <2>6. QED
    BY <2>2, <2>3, <2>4, <2>5, CallOnly
<1>8. CASE Verify
  <2>1. /\ UNCHANGED <<folderVars, faults>> /\ call.step = "verify" /\ Candidates = Kept
        /\ call' = [call EXCEPT !.step = "cleared"]
    BY <1>8, Order DEF Verify, Advance
  <2>2. call' \in Call /\ SameCall("cleared")
    BY <1>1, <2>1 DEF Call, SameCall
  <2>3. call.read = manifest /\ manifest.revision > 0 /\ call.recorded \subseteq call.known
    BY <2>1 DEF FolderInv, Informed, StagedOnce, Remembered
  <2>4. Remembered' /\ Kept' = Kept
    BY <2>2, <2>3 DEF Remembered, SameCall, Kept
  <2>5. QED
    BY <1>1, <2>1, <2>2, <2>3, <2>4, CallOnly DEF SameCall
<1>9. CASE Clear
  <2>1. 1 \in Slides
    BY CountAssumption DEF Slides
  <2>2. QED
    BY <1>5, <1>9, <2>1 DEF Clear
<1>10. ASSUME NEW s \in Slides, Revise(s)
       PROVE  FolderInv' /\ UNCHANGED folderVars
  BY <1>5, <1>10 DEF Revise
<1>11. QED
  BY <1>3, <1>4, <1>6, <1>7, <1>8, <1>9, <1>10 DEF Connector, Fail

\* A step of the connector: it keeps the invariant, and what it deletes or writes
\* into the manifest is what it should.
LEMMA ConnectorStep ==
  ASSUME FolderInv, Connector
  PROVE  /\ FolderInv'
         /\ \A s \in Slides : html[s] # 0 /\ html'[s] = 0 => s \notin call.recorded
         /\ manifest' # manifest /\ ~ At("rewrite") => manifest'.slides = Candidates
<1>1. CASE WritesOnce
  <2>1. faults' \in Nat
    <3>1. faults \in Nat
      BY DEF FolderInv, FolderTypeOK
    <3>2. CASE ReadLog
      <4>1. PICK lines \in SUBSET log :
              IF lines = log THEN UNCHANGED faults ELSE faults < MaxFaults /\ faults' = faults + 1
        BY <3>2 DEF ReadLog
      <4>2. QED
        BY <3>1, <4>1
    <3>3. CASE ~ReadLog
      BY <3>1, <3>3 DEF Connector, Step, Clear, Locate, ReadPick, Verify, Fail, Revise
    <3>4. QED
      BY <3>2, <3>3
  <2>2. CASE FolderStep \/ EventsStep \/ SlotStep \/ ReadyStep
    BY <2>1, <2>2, FileStep DEF FolderStep, EventsStep, SlotStep, ReadyStep, MakeFile
  <2>3. CASE StagedStep \/ RevisedStep \/ ClearedStep
    BY <2>1, <2>3, LineStep DEF StagedStep, RevisedStep, ClearedStep, AppendLine
  <2>4. CASE ManifestStep
    <3>1. FolderInv' /\ html' = html
      BY <2>1, <2>4, ManifestWritten DEF ManifestStep, WriteManifest
    <3>2. manifest'.slides = Slides /\ Candidates = Slides
      BY <2>4 DEF ManifestStep, WriteManifest, At, FolderInv, StagedOnce
    <3>3. QED
      BY <3>1, <3>2
  <2>5. CASE RewriteStep \/ FilterStep
    <3>1. html' = html
      BY <2>5 DEF RewriteStep, FilterStep, WriteManifest
    <3>2. QED
      BY <2>1, <2>5, <3>1, ManifestRewritten DEF RewriteStep
  <2>6. CASE SlideStep \/ UploadStep \/ DeleteStep
    <3>1. manifest' = manifest
      BY <2>6 DEF SlideStep, UploadStep, DeleteStep, WriteSlide
    <3>2. QED
      BY <2>1, <2>6, <3>1, CandidateStep
  <2>7. QED
    BY <1>1, <2>2, <2>3, <2>4, <2>5, <2>6 DEF WritesOnce
<1>2. CASE ~ WritesOnce
  BY <1>2, ReadingStep DEF folderVars
<1>3. QED
  BY <1>1, <1>2

-----------------------------------------------------------------------------
\* The window.

WindowTypeOK ==
  /\ shown \in Shown /\ (HasOffer \/ shown = NothingShown(shown.status))
  /\ observer \in [phase: Phases, seen: BOOLEAN]
  /\ tick \in {"rest", "manifest"}
  /\ answer \in {Dismissal} \cup Slides
  /\ writing \subseteq {"insert", "dismissal", "pick", "line"}
  /\ deck \subseteq Slides

\* The slide is in the deck before anything that says so is written.
SentInOrder ==
  /\ "insert" \in writing => writing = {"insert"} /\ answer \in Slides
  /\ "dismissal" \in writing => writing = {"dismissal"} /\ answer = Dismissal
  /\ "pick" \in writing => answer \in deck \cup {Dismissal}
  /\ "line" \in writing => answer \in deck

IInv == FolderInv /\ WindowTypeOK /\ SentInOrder /\ ToldIsDone

\* All the window does to the folder.
Answers ==
  /\ UNCHANGED <<files, html, manifest, call, faults>>
  /\ \/ UNCHANGED <<log, pick>>
     \/ UNCHANGED log /\ pick = {} /\ \E by \in {Dismissal} \cup Slides : pick' = {by}
     \/ UNCHANGED pick /\ \E s \in Slides : log' = log \cup {LineOf("slide-inserted", 0, {s})}

LEMMA DismissalIsNoSlide == Dismissal \notin Slides
BY CountAssumption DEF Dismissal, Slides

LEMMA PickTakenAnswers ==
  ASSUME NEW by \in {Dismissal} \cup Slides, PickTaken(by), UNCHANGED connectorVars
  PROVE  Answers
BY DEF PickTaken, connectorVars, Answers

LEMMA WindowAnswers ==
  ASSUME IInv, Window
  PROVE  Answers
<1>1. ASSUME UNCHANGED <<folderVars, connectorVars>>
      PROVE  Answers
  BY <1>1 DEF folderVars, connectorVars, Answers
<1>2. answer \in {Dismissal} \cup Slides /\ Dismissal \in {Dismissal} \cup Slides
  BY DEF IInv, WindowTypeOK
<1>3. CASE Open \/ Close \/ Listed \/ Loaded \/ Ticks \/ Inserted
           \/ (\E s \in {Dismissal} \cup Slides : Submit(s))
           \/ (\E file \in {"pick", "line"} : WriteLost(file))
  BY <1>1, <1>3 DEF Open, Close, Listed, Loaded, Ticks, TickReadsLog, TickReadsManifest,
     Inserted, Submit, WriteLost
<1>4. CASE SubmitFails
  BY <1>1, <1>2, <1>4, PickTakenAnswers DEF SubmitFails
<1>5. CASE Dismissed \/ PickWritten
  BY <1>2, <1>5, PickTakenAnswers DEF Dismissed, PickWritten
<1>6. CASE LineWritten
  <2>1. answer \in Slides
    BY <1>6 DEF LineWritten, IInv, SentInOrder, WindowTypeOK
  <2>2. QED
    BY <1>6, <2>1 DEF LineWritten, AppendLine, connectorVars, Answers
<1>7. QED
  BY <1>3, <1>4, <1>5, <1>6 DEF Window

\* What the window writes disturbs no tool, and no reader of the folder.
LEMMA AnswersKeep ==
  ASSUME FolderInv, Answers
  PROVE  FolderInv'
<1>1. UNCHANGED <<files, html, manifest, call, faults>> /\ log \subseteq log' /\ pick \subseteq pick'
  BY DEF Answers
<1>2. log' \subseteq Line
  BY DEF Answers, FolderInv, FolderTypeOK, LineOf, Line, Kinds
<1>3. pick' \subseteq {Dismissal} \cup Slides
  BY DEF Answers, FolderInv, FolderTypeOK
<1>4. FolderTypeOK'
  BY <1>1, <1>2, <1>3 DEF FolderInv, FolderTypeOK
<1>5. /\ Revisions \subseteq Revisions' /\ Candidates' = Candidates /\ Kept' = Kept
      /\ InsertedInLog \subseteq InsertedInLog' /\ InsertedInPick \subseteq InsertedInPick'
  BY <1>1 DEF Revisions, Candidates, Kept, InsertedInLog, InsertedIn, InsertedInPick
<1>6. Ordered' /\ StagedOnce' /\ Informed' /\ Remembered'
  BY <1>1, <1>5 DEF FolderInv, Ordered, StagedOnce, Informed, Remembered
<1>7. RevisionIsBacked'
  BY <1>1, <1>5 DEF FolderInv, RevisionIsBacked
<1>8. QED
  BY <1>4, <1>6, <1>7 DEF FolderInv

LEMMA WindowTypes ==
  ASSUME IInv, Window
  PROVE  WindowTypeOK'
<1>1. manifest \in Manifest /\ manifest' = manifest
  BY WindowAnswers DEF IInv, FolderInv, FolderTypeOK, Answers
<1>2. \A status \in Statuses : NothingShown(status) \in Shown /\ NothingShown(status).status = status
  BY DEF NothingShown, Shown
<1>3. \A status \in {"picking", "submitting"} : Offer(status) \in Shown /\ Offer(status).status = status
  BY <1>1 DEF Offer, Shown, Manifest, Statuses
<1>4. Offered \in Shown /\ (Offered = shown \/ Offered = NothingShown("cleared")
                          \/ Offered.status \in {"picking", "submitting"})
  BY <1>2, <1>3 DEF Offered, IInv, WindowTypeOK, Statuses
<1>5. shown' \in Shown /\ (HasOffer' \/ shown' = NothingShown(shown'.status))
  <2>1. CASE shown' = shown
    BY <2>1 DEF IInv, WindowTypeOK, HasOffer
  <2>2. CASE \E status \in Statuses : shown' = NothingShown(status)
    BY <1>2, <2>2
  <2>3. CASE shown' = Offered
    BY <1>2, <1>4, <2>1, <2>3 DEF HasOffer, Statuses
  <2>4. CASE shown' = Offer("picking")
    BY <1>3, <2>4 DEF HasOffer
  <2>5. CASE \E status \in {"picking", "submitting"} : shown' = [shown EXCEPT !.status = status]
    BY <2>5 DEF IInv, WindowTypeOK, HasOffer, Shown, Statuses
  <2>6. QED
    BY <2>1, <2>2, <2>3, <2>4, <2>5 DEF Window, Open, Close, Listed, Loaded, Ticks, TickReadsLog,
       TickReadsManifest, Submit, Inserted, SubmitFails, Dismissed, PickWritten, LineWritten,
       WriteLost, Settled, Statuses
<1>6. observer' \in [phase: Phases, seen: BOOLEAN]
  <2>1. \/ observer' = observer
        \/ \E phase \in Phases : observer' = [observer EXCEPT !.phase = phase]
        \/ observer' = [phase |-> "listing", seen |-> TRUE]
    BY DEF Phases, Resolved, Window, Open, Close, Listed, Loaded, Ticks, TickReadsLog,
       TickReadsManifest, Submit, Inserted, SubmitFails, Dismissed, PickWritten, LineWritten, WriteLost
  <2>2. observer \in [phase: Phases, seen: BOOLEAN]
    BY DEF IInv, WindowTypeOK
  <2>3. CASE observer' = observer
    BY <2>2, <2>3
  <2>4. ASSUME NEW phase \in Phases, observer' = [observer EXCEPT !.phase = phase]
        PROVE  observer' \in [phase: Phases, seen: BOOLEAN]
    BY <2>2, <2>4
  <2>5. CASE observer' = [phase |-> "listing", seen |-> TRUE]
    BY <2>5 DEF Phases
  <2>6. QED
    BY <2>1, <2>3, <2>4, <2>5
<1>7. tick' \in {"rest", "manifest"} /\ answer' \in {Dismissal} \cup Slides
      /\ writing' \subseteq {"insert", "dismissal", "pick", "line"}
  BY DEF IInv, WindowTypeOK, Window, Open, Close, Listed, Loaded, Ticks, TickReadsLog,
     TickReadsManifest, Submit, Sent, Left, Inserted, SubmitFails, Dismissed, PickWritten,
     LineWritten, WriteLost
<1>8. deck' \subseteq Slides
  BY DEF IInv, WindowTypeOK, SentInOrder, Window, Open, Close, Listed, Loaded, Ticks, TickReadsLog,
     TickReadsManifest, Submit, Inserted, SubmitFails, Dismissed, PickWritten, LineWritten, WriteLost
<1>9. QED
  BY <1>5, <1>6, <1>7, <1>8 DEF WindowTypeOK

LEMMA WindowSends ==
  ASSUME IInv, Window
  PROVE  SentInOrder'
<1>1. CASE Open \/ Listed \/ Loaded \/ Ticks
  BY <1>1 DEF IInv, SentInOrder, Open, Listed, Loaded, Ticks, TickReadsLog, TickReadsManifest
<1>2. ASSUME NEW s \in {Dismissal} \cup Slides, Submit(s)
      PROVE  SentInOrder'
  BY <1>2, DismissalIsNoSlide DEF Submit, Sent, SentInOrder
<1>3. CASE Inserted
  BY <1>3 DEF Inserted, SentInOrder
<1>4. CASE SubmitFails \/ Dismissed
  BY <1>4 DEF SubmitFails, Dismissed, Left, SentInOrder
<1>5. CASE PickWritten \/ LineWritten \/ (\E file \in {"pick", "line"} : WriteLost(file))
  BY <1>5 DEF PickWritten, LineWritten, WriteLost, Left, IInv, SentInOrder
<1>6. CASE Close
  BY <1>6 DEF Close, Left, IInv, SentInOrder
<1>7. QED
  BY <1>1, <1>2, <1>3, <1>4, <1>5, <1>6 DEF Window

LEMMA WindowTells ==
  ASSUME IInv, Window
  PROVE  ToldIsDone'
<1>1. deck \subseteq deck'
  BY DEF Window, Open, Close, Listed, Loaded, Ticks, TickReadsLog, TickReadsManifest, Submit,
     Inserted, SubmitFails, Dismissed, PickWritten, LineWritten, WriteLost
<1>2. CASE UNCHANGED <<log, pick>>
  BY <1>1, <1>2 DEF IInv, ToldIsDone, InsertedInLog, InsertedIn, InsertedInPick
<1>3. CASE ~ UNCHANGED <<log, pick>>
  <2>1. \/ LineWritten
        \/ UNCHANGED log /\ (PickTaken(Dismissal) \/ (PickWritten /\ PickTaken(answer)))
    BY <1>3 DEF Window, Open, Close, Listed, Loaded, Ticks, TickReadsLog, TickReadsManifest, Submit,
       Inserted, SubmitFails, Dismissed, PickWritten, WriteLost, PickTaken, folderVars
  <2>2. CASE LineWritten
    <3>1. log' = log \cup {LineOf("slide-inserted", 0, {answer})} /\ pick' = pick /\ answer \in deck
      BY <2>2 DEF LineWritten, AppendLine, IInv, SentInOrder
    <3>2. InsertedInLog' \subseteq InsertedInLog \cup {answer}
      BY <3>1 DEF InsertedInLog, InsertedIn, LineOf
    <3>3. QED
      BY <1>1, <3>1, <3>2 DEF IInv, ToldIsDone, InsertedInPick
  <2>3. CASE UNCHANGED log /\ PickTaken(Dismissal)
    BY <1>1, <2>3, DismissalIsNoSlide DEF PickTaken, IInv, ToldIsDone, InsertedInLog, InsertedIn, InsertedInPick
  <2>4. CASE UNCHANGED log /\ PickWritten /\ PickTaken(answer)
    BY <1>1, <2>4, DismissalIsNoSlide DEF PickWritten, PickTaken, IInv, SentInOrder, ToldIsDone,
       InsertedInLog, InsertedIn, InsertedInPick
  <2>5. QED
    BY <2>1, <2>2, <2>3, <2>4
<1>4. QED
  BY <1>2, <1>3

\* No tool says that anything was inserted.
LEMMA ConnectorTellsNothing ==
  ASSUME FolderInv, Connector
  PROVE  InsertedInLog' = InsertedInLog /\ pick' = pick
<1>1. CASE UNCHANGED <<log, pick>>
  BY <1>1 DEF InsertedInLog, InsertedIn
<1>2. CASE StagedStep \/ RevisedStep \/ ClearedStep
  <2>1. PICK line : AppendLine(line) /\ line.kind # "slide-inserted"
    BY <1>2 DEF StagedStep, RevisedStep, ClearedStep, LineOf
  <2>2. QED
    BY <2>1 DEF AppendLine, InsertedInLog, InsertedIn
<1>3. CASE WritesOnce
  BY <1>1, <1>2, <1>3 DEF WritesOnce, FolderStep, SlideStep, EventsStep, ManifestStep, SlotStep,
     ReadyStep, UploadStep, RewriteStep, DeleteStep, FilterStep, MakeFile, WriteSlide, WriteManifest
<1>4. CASE ~ WritesOnce
  BY <1>1, <1>4, ReadingStep DEF folderVars
<1>5. QED
  BY <1>3, <1>4

-----------------------------------------------------------------------------
LEMMA Start == Init => IInv
<1> SUFFICES ASSUME Init PROVE IInv
  OBVIOUS
<1> USE DEF StagingSteps, RevisionSteps, ClearingSteps
<1>1. call = [NoCall EXCEPT !.step = "folder"] /\ manifest = NoManifest
      /\ files = {} /\ log = {} /\ pick = {} /\ html = [s \in Slides |-> 0] /\ faults = 0
  BY DEF Init, FolderInit
<1>2. call \in Call /\ call.step = "folder"
  BY <1>1, NoCallType DEF Call
<1>3. manifest \in Manifest /\ manifest.revision = 0 /\ manifest.slides = {}
  BY <1>1 DEF NoManifest, Manifest
<1>4. FolderTypeOK
  BY <1>1, <1>2, <1>3 DEF FolderTypeOK
<1>5. Ordered /\ StagedOnce /\ Informed /\ Remembered
  BY <1>1, <1>2, <1>3 DEF Ordered, StagedOnce, Informed, Remembered
<1>6. RevisionIsBacked
  BY <1>1, <1>3 DEF RevisionIsBacked
<1>7. WindowTypeOK /\ SentInOrder
  BY DEF Init, WindowTypeOK, SentInOrder, NothingShown, Shown, Statuses, Phases
<1>8. ToldIsDone
  BY <1>1 DEF ToldIsDone, InsertedInLog, InsertedIn, InsertedInPick
<1>9. QED
  BY <1>4, <1>5, <1>6, <1>7, <1>8 DEF IInv, FolderInv

LEMMA NextKeeps == IInv /\ [Next]_vars => IInv'
<1> SUFFICES ASSUME IInv, [Next]_vars PROVE IInv'
  OBVIOUS
<1>1. CASE Window
  <2>1. FolderInv'
    BY <1>1, WindowAnswers, AnswersKeep DEF IInv
  <2>2. QED
    BY <1>1, <2>1, WindowTypes, WindowSends, WindowTells DEF IInv
<1>2. CASE Connector /\ UNCHANGED windowVars
  <2>1. FolderInv'
    BY <1>2, ConnectorStep DEF IInv
  <2>2. WindowTypeOK' /\ SentInOrder'
    BY <1>2 DEF windowVars, IInv, WindowTypeOK, SentInOrder, HasOffer
  <2>3. ToldIsDone'
    BY <1>2, ConnectorTellsNothing DEF IInv, ToldIsDone, InsertedInPick, windowVars
  <2>4. QED
    BY <2>1, <2>2, <2>3 DEF IInv
<1>3. CASE UNCHANGED vars
  <2>1. FolderInv'
    BY <1>3, AnswersKeep DEF IInv, vars, folderVars, connectorVars, Answers
  <2>2. WindowTypeOK' /\ SentInOrder' /\ ToldIsDone'
    BY <1>3 DEF vars, folderVars, windowVars, IInv, WindowTypeOK, SentInOrder, HasOffer, ToldIsDone,
       InsertedInLog, InsertedIn, InsertedInPick
  <2>3. QED
    BY <2>1, <2>2 DEF IInv
<1>4. QED
  BY <1>1, <1>2, <1>3 DEF Next

\* Whatever tool fails where, and whatever window is closed when.
THEOREM Inductive == Spec => []IInv
BY Start, NextKeeps, PTL DEF Spec

\* Every variable of the folder and the window keeps its type.
THEOREM TypeCorrect == Spec => []TypeOK
<1>1. IInv => TypeOK
  BY DEF IInv, FolderInv, WindowTypeOK, TypeOK
<1>2. QED
  BY <1>1, Inductive, PTL

\* When READY appears, every candidate has its html, the manifest names them all,
\* and the line and the slot are there; and only a clear takes a candidate away,
\* for any number of candidates and whichever call fails (createProposal).
THEOREM ReadyMeansStaged == Spec => ReadyIsComplete
<1> DEFINE Complete ==
      /\ "READY" \in files' \ files =>
           /\ \A s \in Slides : html[s] # 0
           /\ manifest.revision = 1 /\ manifest.slides = Slides
           /\ LineOf("slides-staged", 1, Slides) \in log
           /\ {"folder", "events", "slot"} \subseteq files
      /\ "READY" \in files /\ ~At("delete") => Candidates \subseteq Candidates'
<1>1. ASSUME IInv, Next
      PROVE  Complete
  <2> USE DEF StagingSteps, RevisionSteps, ClearingSteps, At
  <2>1. CASE UNCHANGED <<files, html>>
    BY <2>1 DEF Candidates
  <2>2. CASE ReadyStep
    <3>1. html' = html /\ call.step = "ready"
      BY <2>2 DEF ReadyStep, MakeFile
    <3>2. QED
      BY <1>1, <3>1 DEF IInv, FolderInv, Ordered, StagedOnce, Candidates
  <2>3. CASE FolderStep \/ EventsStep \/ SlotStep
    BY <2>3 DEF FolderStep, EventsStep, SlotStep, MakeFile, Candidates
  <2>4. CASE SlideStep \/ UploadStep \/ DeleteStep
    <3>1. html \in [Slides -> Nat] /\ files' = files
      BY <1>1, <2>4 DEF IInv, FolderInv, FolderTypeOK, SlideStep, UploadStep, DeleteStep, WriteSlide
    <3>2. ~At("delete") => \E s \in Slides, bytes \in Nat \ {0} : html' = [html EXCEPT ![s] = bytes]
      <4>1. CASE SlideStep
        <5>1. PICK s \in Slides : html' = [html EXCEPT ![s] = 1]
          BY <4>1 DEF SlideStep, WriteSlide
        <5>2. 1 \in Nat \ {0}
          OBVIOUS
        <5>3. QED
          BY <5>1, <5>2
      <4>2. CASE UploadStep
        <5>1. call.slide \in Slides
          BY <1>1 DEF IInv, FolderInv, FolderTypeOK, Call
        <5>2. html[call.slide] + 1 \in Nat \ {0}
          BY <3>1, <5>1
        <5>3. QED
          BY <4>2, <5>1, <5>2 DEF UploadStep, WriteSlide
      <4>3. CASE DeleteStep
        BY <4>3 DEF DeleteStep
      <4>4. QED
        BY <2>4, <4>1, <4>2, <4>3
    <3>3. QED
      BY <3>1, <3>2 DEF Candidates
  <2>5. CASE StagedStep \/ ManifestStep \/ RevisedStep \/ RewriteStep \/ ClearedStep \/ FilterStep
    BY <2>1, <2>5 DEF StagedStep, ManifestStep, RevisedStep, RewriteStep, ClearedStep, FilterStep, AppendLine,
       WriteManifest
  <2>6. CASE Window
    BY <1>1, <2>1, <2>6, WindowAnswers DEF Answers
  <2>7. CASE Connector /\ ~ WritesOnce
    BY <1>1, <2>1, <2>7, ReadingStep DEF IInv, folderVars
  <2>8. QED
    BY <1>1, <2>2, <2>3, <2>4, <2>5, <2>6, <2>7 DEF Next, WritesOnce
<1>2. IInv /\ [Next]_vars => [Complete]_<<folderVars, connectorVars>>
  BY <1>1 DEF vars
<1>3. QED
  BY <1>2, Inductive, PTL DEF Spec, ReadyIsComplete

\* Who sees a revision finds the lines up to it and no older bytes than it is
\* about, for any number of revisions and clears (reviseSlide, clearSlides).
THEOREM RevisionsBacked == Spec => []RevisionIsBacked
<1>1. IInv => RevisionIsBacked
  BY DEF IInv, FolderInv
<1>2. QED
  BY <1>1, Inductive, PTL

\* What PICK or the log says was inserted is in the deck (insertPicked,
\* recordInsert), however windows are opened and closed.
THEOREM WhatIsToldIsDone == Spec => []ToldIsDone
<1>1. IInv => ToldIsDone
  BY DEF IInv
<1>2. QED
  BY <1>1, Inductive, PTL

\* A clear deletes nothing that was recorded as inserted when it began, but for
\* candidates whose every record it failed to read (insertedSlideIndices, clearSlides).
THEOREM InsertedIsKept == Spec => KeepsInserted
<1>1. IInv /\ [Next]_vars => [\A s \in Slides : html[s] # 0 /\ html'[s] = 0 => s \notin call.recorded]_vars
  <2>1. SUFFICES ASSUME IInv, Next
                 PROVE  \A s \in Slides : html[s] # 0 /\ html'[s] = 0 => s \notin call.recorded
    OBVIOUS
  <2>2. CASE Window
    BY <2>1, <2>2, WindowAnswers DEF Answers
  <2>3. CASE Connector
    BY <2>1, <2>3, ConnectorStep DEF IInv
  <2>4. QED
    BY <2>1, <2>2, <2>3 DEF Next
<1>2. QED
  BY <1>1, Inductive, PTL DEF Spec, KeepsInserted

\* The manifest that a staging or a clear writes names the candidates that have
\* a file, whatever failed before (createProposal, clearSlides).
THEOREM ManifestIsTrue == Spec => ManifestNamesFiles
<1>1. IInv /\ [Next]_vars => [manifest' # manifest /\ ~ At("rewrite") => manifest'.slides = Candidates]_vars
  <2>1. SUFFICES ASSUME IInv, Next, manifest' # manifest, ~ At("rewrite")
                 PROVE  manifest'.slides = Candidates
    OBVIOUS
  <2>2. CASE Window
    BY <2>1, <2>2, WindowAnswers DEF Answers
  <2>3. CASE Connector
    BY <2>1, <2>3, ConnectorStep DEF IInv
  <2>4. QED
    BY <2>1, <2>2, <2>3 DEF Next
<1>2. QED
  BY <1>1, Inductive, PTL DEF Spec, ManifestNamesFiles
=============================================================================
