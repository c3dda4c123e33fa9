------------------------------ MODULE Transfer ------------------------------
(* Moving recordings from the browser to the desktop app: the exporter      *)
(* (extension/src/lib/desktopMigration.ts over storage.ts and               *)
(* meet/browserStorage.ts, started by settings.ts and recorderSettings.ts)  *)
(* and the importer it writes for (helper/crates/app/src/                   *)
(* desktop_migration.rs).                                                   *)
(*                                                                          *)
(* An export takes many storage reads, and the extension goes on meanwhile: *)
(* calls are recorded, notes are finished (which deletes their audio) and   *)
(* meetings are deleted.  A meeting is a number, the larger the newer; what *)
(* an archive holds of it is its shape and its size.                        *)
EXTENDS Integers, Sequences, FiniteSets, SequencesExt, FiniteSetsExt

CONSTANTS
  NewestMeeting,  \* meetings are 1..NewestMeeting
  LastChunk,      \* bound: highest chunk sequence of a recording
  Batch,          \* DEFAULT_BATCH_SIZE
  MeetingLimit,   \* MAX_MEETINGS
  ByteLimit,      \* room for notes in MAX_DESKTOP_MIGRATION_BYTES
  TransferScenes  \* shapes and sizes of the notes, what is stored, what may happen

ASSUME TransferAssumption ==
  /\ {NewestMeeting, LastChunk, ByteLimit} \subseteq Nat
  /\ {Batch, MeetingLimit} \subseteq Nat \ {0}

VARIABLES
  plot,      \* the member of TransferScenes
  kept,      \* meetings with a record in chrome.storage
  tape,      \* meeting -> sequences of its chunks in IndexedDB
  live,      \* the active recording, 0 for none
  deleting,  \* meetings whose audio is cleared and whose record is not yet deleted
  export,    \* saveDesktopAudioArchive or the notes-only export
  archive,   \* the archive that was closed, or NoFile
  import,    \* import_audio_archive: the notes still to write
  library,   \* meeting -> "none", "text" or "audio" in the desktop library
  cleared,   \* (history) meetings whose audio was deleted during the export
  removed    \* (history) meetings whose record was deleted during the export

transferVars == <<plot, kept, tape, live, deleting, export, archive, import, library, cleared, removed>>

Mids == 1..NewestMeeting
NoFile == [notes |-> <<>>, audio |-> <<>>, frames |-> <<>>, leftOut |-> 0, closed |-> FALSE, seen |-> {}, tape |-> <<>>]
NoExport == [pc |-> "idle", kind |-> "notes", inventory |-> {}, last |-> <<>>, todo |-> <<>>, extra |-> {},
             total |-> 0, processed |-> 0, notes |-> <<>>, bytes |-> 0, leftOut |-> 0,
             queue |-> <<>>, at |-> -1, frames |-> <<>>, seen |-> {}, tape |-> <<>>]
Goes(op) == op \in plot.ops
NewestFirst(S) == SetToSortSeq(S, LAMBDA a, b : a > b)
AtWork == export.pc \notin {"idle", "done", "failed"}
\* Bound: the extension moves while an export is at work; what it did before is in the scene.
Meanwhile(op) == Goes(op) /\ AtWork

----------------------------------------------------------------------------
(* The extension meanwhile *)
startRecording(m) ==
  /\ Meanwhile("record") /\ live = 0 /\ tape[m] = {}
  /\ \A k \in kept \cup removed : k < m
  /\ live' = m /\ kept' = kept \cup {m}
  /\ UNCHANGED <<plot, tape, deleting, export, archive, import, library, cleared, removed>>

appendChunk ==
  /\ AtWork /\ live # 0 /\ LastChunk \notin tape[live]
  /\ tape' = [tape EXCEPT ![live] = @ \cup {Cardinality(@)}]
  /\ UNCHANGED <<plot, kept, live, deleting, export, archive, import, library, cleared, removed>>

stopRecording ==
  /\ AtWork /\ live # 0 /\ live' = 0
  /\ UNCHANGED <<plot, kept, tape, deleting, export, archive, import, library, cleared, removed>>

\* The notes of a meeting are complete: its audio is not needed any more.
clearBrowserMeetChunks(m) ==
  /\ Meanwhile("finish") /\ m \in kept /\ m # live /\ tape[m] # {}
  /\ tape' = [tape EXCEPT ![m] = {}] /\ cleared' = cleared \cup {m}
  /\ UNCHANGED <<plot, kept, live, deleting, export, archive, import, library, removed>>

\* deleteMeeting: the audio first, and a failure to clear it does not keep the record.
deleteAudio(m) ==
  /\ Meanwhile("delete") /\ m \in kept \ deleting /\ m # live
  /\ \/ tape' = [tape EXCEPT ![m] = {}] /\ cleared' = cleared \cup {m}
     \/ UNCHANGED <<tape, cleared>>
  /\ deleting' = deleting \cup {m}
  /\ UNCHANGED <<plot, kept, live, export, archive, import, library, removed>>

deleteRecord(m) ==
  /\ AtWork /\ m \in deleting /\ deleting' = deleting \ {m}
  /\ kept' = kept \ {m} /\ removed' = removed \cup {m}
  /\ UNCHANGED <<plot, tape, live, export, archive, import, library, cleared>>

----------------------------------------------------------------------------
(* Reading what is stored *)

\* Key-only counts, the chunks in the metadata index, and for a meeting with
\* older chunks, which that index lacks, the values.
browserMeetArchiveInventory ==
  LET counted == {m \in Mids : tape[m] # {}}
      indexed(m) == tape[m] \ plot.legacy[m]
      measured(m) == IF Cardinality(indexed(m)) # Cardinality(tape[m]) THEN tape[m] ELSE indexed(m)
  IN [m \in counted |-> Max(measured(m))]

\* Placeholders for audio whose record is gone.
recoverAudioOnlyMeetings(ids) == export.inventory \ ids

streamMeetingsByRecency(ids, extra) == NewestFirst(ids \cup extra)

repairMeeting(m) == plot.shape[m] # "broken"

----------------------------------------------------------------------------
(* The export *)
Restart(kind) == [NoExport EXCEPT !.pc = "check", !.kind = kind, !.seen = kept, !.tape = tape]

\* The picker, for an export with audio; the user may cancel it.
beginExport(kind) ==
  /\ kind \in plot.kinds /\ export.pc = "idle"
  /\ export' = Restart(kind)
  /\ UNCHANGED <<plot, kept, tape, live, deleting, archive, import, library, cleared, removed>>

Abort(e) == [NoExport EXCEPT !.pc = "failed"]

assertNoActiveRecording ==
  /\ export.pc = "check"
  /\ export' = IF live # 0 THEN Abort(export)
               ELSE [export EXCEPT !.pc = IF export.kind = "notes" THEN "metadata" ELSE "inventory"]
  /\ UNCHANGED <<plot, kept, tape, live, deleting, archive, import, library, cleared, removed>>

takeInventory ==
  /\ export.pc = "inventory"
  /\ export' = [export EXCEPT !.pc = "metadata", !.inventory = DOMAIN browserMeetArchiveInventory,
                              !.last = browserMeetArchiveInventory, !.tape = tape]
  /\ UNCHANGED <<plot, kept, tape, live, deleting, archive, import, library, cleared, removed>>

\* listMeetingExportMetadata (or listMeetings, whose records are read here).
listMeetingExportMetadata ==
  /\ export.pc = "metadata"
  /\ LET extra == IF export.kind = "notes" THEN {} ELSE recoverAudioOnlyMeetings(kept)
     IN export' = [export EXCEPT !.pc = "notes", !.extra = extra \cup (IF export.kind = "list" THEN kept ELSE {}),
                                 !.todo = IF export.kind = "list" THEN NewestFirst(kept) \o NewestFirst(extra)
                                           ELSE streamMeetingsByRecency(kept, extra),
                                 !.total = Cardinality(kept \cup extra)]
  /\ UNCHANGED <<plot, kept, tape, live, deleting, archive, import, library, cleared, removed>>

Fits(m) == export.kind = "list" \/ export.bytes + plot.size[m] <= ByteLimit

\* buildDesktopMigrationArchiveFromStream and buildDesktopMigrationArchive,
\* one record at a time: a record is read when its turn comes.
exportNote ==
  LET m == Head(export.todo)
      rest == [export EXCEPT !.todo = Tail(@)]
      done == [rest EXCEPT !.processed = @ + 1]
      ended(n) == [export EXCEPT !.pc = "manifest", !.leftOut = @ + (IF n > 0 THEN n ELSE 0)]
  IN /\ export.pc = "notes" /\ export.todo # <<>>
     /\ export' =
          IF m \notin kept \cup export.extra THEN rest
          ELSE IF Len(export.notes) >= MeetingLimit
            THEN IF export.kind = "list" THEN [done EXCEPT !.leftOut = @ + 1]
                 ELSE ended(export.total - export.processed)
          ELSE IF ~repairMeeting(m) THEN [done EXCEPT !.leftOut = @ + 1]
          ELSE IF ~Fits(m) /\ export.notes = <<>> THEN Abort(export)
          ELSE IF ~Fits(m) THEN ended(export.total - export.processed)
          ELSE [done EXCEPT !.notes = Append(@, m), !.bytes = @ + plot.size[m]]
     /\ UNCHANGED <<plot, kept, tape, live, deleting, archive, import, library, cleared, removed>>

\* Mutant: the audio of meetings left out is listed too.
AllAudio == NewestFirst(export.inventory)

listedAudio == NewestFirst({m \in export.inventory : m \in Range(export.notes)})

\* The manifest: the notes, and the recordings whose note is among them.
\* A file of notes only is complete with it.
writeManifest ==
  /\ (export.pc = "notes" /\ export.todo = <<>>) \/ export.pc = "manifest"
  /\ IF export.kind = "list" /\ MapThenSumSet(LAMBDA m : plot.size[m], Range(export.notes)) > ByteLimit
     THEN export' = Abort(export)
     ELSE export' = [export EXCEPT !.pc = "audio", !.at = -1,
                       !.queue = IF export.kind = "notes" THEN <<>> ELSE listedAudio]
  /\ UNCHANGED <<plot, kept, tape, live, deleting, archive, import, library, cleared, removed>>

\* streamBrowserMeetChunks: a transaction per batch, up to the sequence the inventory saw.
streamBrowserMeetChunks ==
  LET m == Head(export.queue)
      ahead == SetToSortSeq({s \in tape[m] : s > export.at /\ s <= export.last[m]}, LAMBDA a, b : a < b)
      batch == SubSeq(ahead, 1, IF Len(ahead) < Batch THEN Len(ahead) ELSE Batch)
      wrote == [export EXCEPT !.frames = @ \o [k \in 1..Len(batch) |-> <<m, batch[k]>>]]
  IN /\ export.pc = "audio" /\ export.queue # <<>>
     /\ export' = IF Len(batch) < Batch THEN [wrote EXCEPT !.queue = Tail(@), !.at = -1]
                  ELSE [wrote EXCEPT !.at = batch[Len(batch)]]
     /\ UNCHANGED <<plot, kept, tape, live, deleting, archive, import, library, cleared, removed>>

closeArchive ==
  /\ export.pc = "audio" /\ export.queue = <<>>
  /\ archive' = [notes |-> export.notes, frames |-> export.frames, leftOut |-> export.leftOut, closed |-> TRUE,
              audio |-> IF export.kind = "notes" THEN <<>> ELSE listedAudio,
              seen |-> export.seen, tape |-> export.tape]
  /\ export' = [NoExport EXCEPT !.pc = "done"]
  /\ UNCHANGED <<plot, kept, tape, live, deleting, import, library, cleared, removed>>

\* A write to the file fails: the writer is aborted and nothing is left.
exportFails ==
  /\ Goes("fail") /\ AtWork
  /\ export' = Abort(export)
  /\ UNCHANGED <<plot, kept, tape, live, deleting, archive, import, library, cleared, removed>>

----------------------------------------------------------------------------
(* The desktop app *)
FramesOf(f, m) == SelectSeq(f.frames, LAMBDA fr : fr[1] = m)

\* What import_audio_archive checks before it writes anything.
Importable(f) ==
  /\ Len(f.notes) <= MeetingLimit
  /\ \A m \in Range(f.notes) : repairMeeting(m)
  /\ Range(f.audio) \subseteq Range(f.notes) /\ IsInjective(f.audio)
  /\ \A m \in Range(f.audio) :
       LET track == FramesOf(f, m) IN
       /\ track # <<>>
       /\ \A k \in 1..Len(track) - 1 : track[k][2] < track[k + 1][2]

importArchive ==
  /\ archive.closed /\ import.pc \in {"idle", "stopped"} /\ Importable(archive)
  /\ import' = [pc |-> "writing", left |-> archive.notes]
  /\ UNCHANGED <<plot, kept, tape, live, deleting, export, archive, library, cleared, removed>>

\* A meeting that is present already is skipped, whatever it has.
importNote ==
  /\ import.pc = "writing"
  /\ IF import.left = <<>> THEN import' = [import EXCEPT !.pc = "imported"] /\ UNCHANGED library
     ELSE LET m == Head(import.left) IN
          /\ import' = [import EXCEPT !.left = Tail(@)]
          /\ library' = IF library[m] # "none" THEN library
                        ELSE [library EXCEPT ![m] = IF m \in Range(archive.audio) THEN "audio" ELSE "text"]
  /\ UNCHANGED <<plot, kept, tape, live, deleting, export, archive, cleared, removed>>

DesktopStops ==
  /\ Goes("crash") /\ import.pc = "writing"
  /\ import' = [import EXCEPT !.pc = "stopped"]
  /\ UNCHANGED <<plot, kept, tape, live, deleting, export, archive, library, cleared, removed>>

----------------------------------------------------------------------------
TransferInit ==
  /\ plot \in TransferScenes
  /\ kept = plot.kept /\ tape = plot.tape /\ live = 0 /\ deleting = {}
  /\ export = NoExport /\ archive = NoFile /\ import = [pc |-> "idle", left |-> <<>>]
  /\ library = [m \in Mids |-> "none"] /\ cleared = {} /\ removed = {}

TransferNext ==
  \/ \E m \in Mids : startRecording(m) \/ clearBrowserMeetChunks(m) \/ deleteAudio(m) \/ deleteRecord(m)
  \/ appendChunk \/ stopRecording
  \/ \E kind \in {"notes", "stream", "list"} : beginExport(kind)
  \/ assertNoActiveRecording \/ takeInventory \/ listMeetingExportMetadata \/ exportNote \/ writeManifest
  \/ streamBrowserMeetChunks \/ closeArchive \/ exportFails
  \/ importArchive \/ importNote \/ DesktopStops

TransferSpec == TransferInit /\ [][TransferNext]_transferVars

----------------------------------------------------------------------------
\* A transfer file that was closed is one the desktop app takes, and it has
\* what the browser had: every note that was there all the while is in it or
\* among the ones reported as left out, every recording listed has all its
\* audio in order, unless that audio was deleted during the export, and after
\* an import, however often it stopped and was repeated, all of it is in the
\* desktop library.
TransferComplete ==
  LET absent == (archive.seen \ removed) \ Range(archive.notes) IN
  /\ archive.closed /\ Range(archive.audio) \cap cleared = {} =>
       /\ Importable(archive)
       /\ \A m \in Range(archive.audio) : {fr[2] : fr \in Range(FramesOf(archive, m))} = archive.tape[m]
  /\ archive.closed => Cardinality(absent) <= archive.leftOut
  /\ import.pc = "imported" =>
       \A m \in Range(archive.notes) : library[m] = IF m \in Range(archive.audio) THEN "audio" ELSE "text"
=============================================================================
