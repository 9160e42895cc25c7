----------------------------- MODULE DeckStorage -----------------------------
(***************************************************************************)
(* The two files that hold one deck's document between loads               *)
(* (decks/deck-storage.ts): document.snapshot and document.log.            *)
(*                                                                         *)
(* A document is a set of updates: merging is union, and applying an       *)
(* update twice is applying it once.  The log is kept as what loading can  *)
(* tell of it: the updates of its readable lines, how many lines it has    *)
(* (counted up to CompactAfter, the only number the code compares it       *)
(* with), and whether the last line lacks its newline because an append    *)
(* was cut.  A cut line is not a record; the next append lands on it, so   *)
(* that line is no record either.  Sequence numbers only reach warnings.   *)
(***************************************************************************)
EXTENDS Naturals

CONSTANTS
  Updates,       \* the updates clients and agents may make
  CompactAfter   \* DECK_LIFECYCLE.compactAfterRecords

ASSUME CompactAfterAssumption == CompactAfter \in Nat \ {0}

EmptyLog == [updates |-> {}, lines |-> 0, cut |-> FALSE]

NoSnapshot == [updates |-> {}, readable |-> TRUE]

NoFiles == [snapshot |-> NoSnapshot, log |-> EmptyLog]

LogType == [updates: SUBSET Updates, lines: 0 .. CompactAfter, cut: BOOLEAN]

SnapshotType == [updates: SUBSET Updates, readable: BOOLEAN]

FilesType == [snapshot: SnapshotType, log: LogType]

OneMore(lines) == IF lines < CompactAfter THEN lines + 1 ELSE lines

-----------------------------------------------------------------------------
\* appendDocument and appendDurably: what one append leaves in the log.

\* The whole line was written.  On a cut line it only ends that line.
LineWritten(log, batch) ==
  IF log.cut
  THEN [log EXCEPT !.cut = FALSE]
  ELSE [log EXCEPT !.updates = log.updates \cup batch, !.lines = OneMore(log.lines)]

\* Only a part of the line was written: it has no newline and does not open.
LineCut(log) ==
  IF log.cut
  THEN log
  ELSE [log EXCEPT !.cut = TRUE, !.lines = OneMore(log.lines)]

\* What an append that threw, or that a crash stopped, may have left behind.
AfterFailedAppend(log, batch, left) ==
  CASE left = "nothing" -> log
    [] left = "part"    -> LineCut(log)
    [] left = "line"    -> LineWritten(log, batch)

-----------------------------------------------------------------------------
\* compactDocument: what the snapshot's rename puts in place.

SnapshotOf(state) == [updates |-> state, readable |-> TRUE]

-----------------------------------------------------------------------------
\* loadDocument.

Held(files) == files.snapshot.updates \cup files.log.updates

\* Mutant of LoadDocument: a snapshot that does not open is left out.
LoadLogAlone(files) ==
  {IF files.snapshot.readable THEN Held(files) ELSE files.log.updates}

\* The document the stored updates make; none when the snapshot does not open.
LoadDocument(files) == IF files.snapshot.readable THEN {Held(files)} ELSE {}

=============================================================================
