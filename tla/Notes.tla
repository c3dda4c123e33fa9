-------------------------------- MODULE Notes --------------------------------
(****************************************************************************)
(* The text of a note and everyone who writes it (webapp/src/lib/           *)
(* meetings.ts, noteEditing.ts, notesRegenerate.ts, speakers.ts,            *)
(* sharing.ts; app/meetings/[id]; api/v1/desktop-sync/meetings; the pull of *)
(* helper/crates/app/src/desktop_sync.rs).                                  *)
(*                                                                          *)
(* updatedAt is the version of a note. A writer locks the row, compares     *)
(* what it was based on, stamps a new version and commits; until then all   *)
(* others still read the old row. Pages, a rewrite of the notes by the      *)
(* provider and a desktop that pulls and pushes work from what they read    *)
(* earlier.                                                                 *)
(****************************************************************************)
EXTENDS Integers, Sequences, FiniteSets, FiniteSetsExt, SequencesExt

CONSTANTS
    NoteCount,     \* notes 1 .. NoteCount, in the order of their ids
    Pages,         \* open note pages
    Writers,       \* regenerations that may run at once
    MaxRegens,     \* MAX_NOTES_REGENERATIONS
    MaxShares,     \* MAX_ACTIVE_SHARES_PER_MEETING
    PageSize,      \* PULL_PAGE_SIZE
    Overlap,       \* how far a pull reads back
    TxTime,        \* the longest a transaction takes
    Lead,          \* how far versions run ahead of the clock
    MaxTexts,      \* bound: texts ever written
    MaxTime,       \* bound: the clock
    Scenes,        \* bound: which of them are at work together
    MaxFaults      \* bound: lost answers, failed transactions, failed providers

ASSUME NotesAssumption ==
    /\ {NoteCount, MaxRegens, MaxShares, PageSize} \subseteq Nat \ {0}
    /\ {Overlap, TxTime, Lead, MaxTexts, MaxTime, MaxFaults} \subseteq Nat
    /\ TxTime + Lead <= Overlap

Notes == 1 .. NoteCount

VARIABLES
    row,      \* the notes: status, version, text, the text before, when edited by hand, regenerations
    tx,       \* the transaction that holds the lock of each note
    now,
    texts,    \* texts written so far: a new one gets the next number
    page,     \* each page: what it shows, the draft and the version a save will name
    job,      \* each regeneration
    desk,     \* the desktop's copy of each note: version, text then, text now
    pull,     \* the desktop's pull
    share,    \* links of note 1: asked for, active
    faults,
    on,       \* the scene
    rewrites, \* history: regenerations that were saved, per note
    slipped,  \* history: pages that took a newer version under a draft
    lost      \* history: a text was replaced by somebody who had not seen it

vars == <<row, tx, now, texts, page, job, desk, pull, share, faults, on, rewrites, slipped, lost>>

Unknown == [st |-> "none", ver |-> 0, body |-> 0, prev |-> 0, edited |-> 0, regens |-> 0]
NoTx == [by |-> "none"]
Closed == [at |-> 0, mode |-> "read", ver |-> 0, shown |-> 0, base |-> 0, draft |-> 0]
NoJob == [pc |-> "idle", at |-> 0, body |-> 0, edited |-> 0]
Resting == [pc |-> "idle", from |-> <<0, 0>>, cand |-> <<>>, owed |-> {}, saved |-> <<0, 0>>]

Live(n) == row[n].st = "live"

TypeOK ==
    /\ row \in [Notes -> [st : {"none", "live", "trash", "gone"}, ver : Nat, body : Nat, prev : Nat,
                          edited : Nat, regens : 0 .. MaxRegens]]
    /\ page \in [Pages -> [at : Notes \cup {0}, mode : {"read", "edit", "saving"}, ver : Nat, shown : Nat,
                           base : Nat, draft : Nat]]
    /\ job \in [Writers -> [pc : {"idle", "read", "claimed", "written"}, at : Notes \cup {0}, body : Nat,
                            edited : Nat]]
    /\ \A n \in Notes : tx[n] # NoTx /\ Live(n) => tx[n].row.ver > row[n].ver

-----------------------------------------------------------------------------
(* Versions and transactions *)

NextMeetingVersion(v) == Max({now, v + 1})

Free(n) == tx[n] = NoTx
NewText == texts < MaxTexts /\ texts' = texts + 1

\* A transaction that has stamped the row of note n for `who'
Begin(n, who, new) ==
    /\ NextMeetingVersion(new.ver) <= now + Lead
    /\ tx' = [tx EXCEPT ![n] = [by |-> who, row |-> [new EXCEPT !.ver = NextMeetingVersion(@)], at |-> now]]

\* A statement without a version of its own: the database's stamp, a later millisecond
Touched(r) == [r EXCEPT !.ver = now]
Later(n) == now > row[n].ver

\* Mutant: a failed regeneration stays counted
NotRefunded(r) == r

Counted(r) == [r EXCEPT !.regens = @ + 1]
Refunded(r) == [r EXCEPT !.regens = Max({0, @ - 1})]

\* A page that saved shows what it saved; the desktop keeps the version it was told
Commit(n) ==
    /\ tx[n] # NoTx
    /\ row' = [row EXCEPT ![n] = tx[n].row]
    /\ tx' = [tx EXCEPT ![n] = NoTx]
    /\ page' = [p \in Pages |-> IF tx[n].by = p /\ page[p].at = n
                                THEN [page[p] EXCEPT !.mode = IF @ = "saving" THEN "read" ELSE @,
                                                     !.ver = tx[n].row.ver, !.shown = tx[n].row.body]
                                ELSE page[p]]
    /\ slipped' = slipped \cup {p \in Pages : tx[n].by = p /\ page[p].mode = "edit"}
    /\ desk' = IF tx[n].by = "desktop" THEN [desk EXCEPT ![n].ver = tx[n].row.ver, ![n].base = tx[n].row.body] ELSE desk
    /\ UNCHANGED <<now, texts, job, pull, share, faults, rewrites, lost, on>>

\* The transaction fails, or commits and its answer is lost on the way
Fault == faults < MaxFaults /\ faults' = faults + 1

\* The draft of a save that failed is still there
Reopened(n) == [p \in Pages |-> IF tx[n].by = p /\ page[p].mode = "saving" THEN [page[p] EXCEPT !.mode = "edit"] ELSE page[p]]

\* A regeneration that could not be saved is given back
Rollback(n) ==
    /\ tx[n] # NoTx /\ Fault
    /\ tx' = [tx EXCEPT ![n] = NoTx]
    /\ page' = Reopened(n)
    /\ IF tx[n].by = "writer"
       THEN /\ Later(n) /\ row' = [row EXCEPT ![n] = Touched(Refunded(@))]
            /\ rewrites' = [rewrites EXCEPT ![n] = @ - 1]
       ELSE UNCHANGED <<row, rewrites>>
    /\ UNCHANGED <<now, texts, job, desk, pull, share, slipped, lost, on>>

AnswerLost(n) ==
    /\ tx[n] # NoTx /\ tx[n].by # "writer" /\ Fault
    /\ row' = [row EXCEPT ![n] = tx[n].row]
    /\ tx' = [tx EXCEPT ![n] = NoTx]
    /\ page' = Reopened(n)
    /\ UNCHANGED <<now, texts, job, desk, pull, share, rewrites, slipped, lost, on>>

Tick ==
    /\ now < MaxTime
    /\ \A n \in Notes : tx[n] # NoTx => now + 1 - tx[n].at <= TxTime
    /\ now' = now + 1
    /\ UNCHANGED <<row, tx, texts, page, job, desk, pull, share, faults, rewrites, slipped, lost, on>>

\* Replacing text `old' by somebody whose text began from `base'
Blind(n, base) == row[n].body # base

-----------------------------------------------------------------------------
(* The note page *)

GetMeeting(p, n) ==
    /\ Live(n) /\ page[p].at = 0
    /\ page' = [page EXCEPT ![p] = [@ EXCEPT !.at = n, !.ver = row[n].ver, !.shown = row[n].body]]
    /\ UNCHANGED <<row, tx, now, texts, job, desk, pull, share, faults, rewrites, slipped, lost, on>>

\* Another action of the page, or the automatic refresh, brings the current version; a
\* draft stays as it is
Refresh(p) ==
    LET n == page[p].at
    IN  /\ n # 0 /\ Live(n) /\ row[n].ver # page[p].ver
        /\ page' = [page EXCEPT ![p].ver = row[n].ver, ![p].shown = row[n].body]
        /\ slipped' = IF page[p].mode # "read" THEN slipped \cup {p} ELSE slipped
        /\ UNCHANGED <<row, tx, now, texts, job, desk, pull, share, faults, rewrites, lost, on>>

EditText(p) ==
    /\ page[p].at # 0 /\ page[p].mode = "read" /\ NewText
    /\ page' = [page EXCEPT ![p] = [@ EXCEPT !.mode = "edit", !.base = page[p].shown, !.draft = texts + 1]]
    /\ slipped' = slipped \ {p}
    /\ UNCHANGED <<row, tx, now, job, desk, pull, share, faults, rewrites, lost, on>>

Cancel(p) ==
    /\ page[p].mode = "edit"
    /\ page' = [page EXCEPT ![p].mode = "read"]
    /\ UNCHANGED <<row, tx, now, texts, job, desk, pull, share, faults, rewrites, slipped, lost, on>>

\* Mutant: the version is not compared
AnyVersion(n, v) == TRUE

VersionMatches(n, v) == row[n].ver = v

\* saveNoteBodyAction and updateNoteBody; a conflict leaves the draft on the screen
SaveNoteBody(p) ==
    LET n == page[p].at
    IN  /\ page[p].mode = "edit" /\ Free(n)
        /\ IF Live(n) /\ VersionMatches(n, page[p].ver) /\ row[n].body # page[p].draft
           THEN /\ Begin(n, p, [row[n] EXCEPT !.body = page[p].draft, !.prev = row[n].body,
                                              !.edited = now])
                /\ page' = [page EXCEPT ![p].mode = "saving"]
                /\ lost' = (lost \/ (Blind(n, page[p].base) /\ p \notin slipped))
           ELSE /\ page' = [page EXCEPT ![p].mode = IF Live(n) /\ VersionMatches(n, page[p].ver) THEN "read" ELSE @]
                /\ UNCHANGED <<tx, lost>>
        /\ UNCHANGED <<row, now, texts, job, desk, pull, share, faults, rewrites, slipped, on>>

RestorePreviousBody(p) ==
    LET n == page[p].at
    IN  /\ n # 0 /\ page[p].mode = "read" /\ Free(n) /\ Live(n) /\ row[n].prev # 0
        /\ Begin(n, p, [row[n] EXCEPT !.body = row[n].prev, !.prev = row[n].body,
                                      !.edited = now])
        /\ UNCHANGED <<row, now, texts, page, job, desk, pull, share, faults, rewrites, slipped, lost, on>>

\* A title, an action item: the version moves, the text does not
RenameMeeting(n) ==
    /\ Live(n) /\ Free(n) /\ texts < MaxTexts /\ texts' = texts + 1
    /\ Begin(n, "other", row[n])
    /\ UNCHANGED <<row, now, page, job, desk, pull, share, faults, rewrites, slipped, lost, on>>

UpdateActionItem(n, changed) ==
    /\ Live(n) /\ Free(n)
    /\ IF changed THEN NewText /\ Begin(n, "other", row[n]) ELSE UNCHANGED <<texts, tx>>
    /\ UNCHANGED <<row, now, page, job, desk, pull, share, faults, rewrites, slipped, lost, on>>

\* The label of a speaker is replaced in whatever the text is by then
RenameSpeaker(n) ==
    /\ Live(n) /\ Free(n) /\ NewText
    /\ Begin(n, "other", [row[n] EXCEPT !.body = texts + 1])
    /\ UNCHANGED <<row, now, page, job, desk, pull, share, faults, rewrites, slipped, lost, on>>

TrashNote(n) ==
    /\ Live(n) /\ Free(n) /\ Later(n)
    /\ row' = [row EXCEPT ![n] = Touched([@ EXCEPT !.st = "trash"])]
    /\ UNCHANGED <<tx, now, texts, page, job, desk, pull, share, faults, rewrites, slipped, lost, on>>

RestoreFromTrash(n) ==
    /\ row[n].st = "trash" /\ Free(n) /\ Later(n)
    /\ row' = [row EXCEPT ![n] = Touched([@ EXCEPT !.st = "live"])]
    /\ UNCHANGED <<tx, now, texts, page, job, desk, pull, share, faults, rewrites, slipped, lost, on>>

\* A note that is deleted and pushed again in the millisecond of its last version would
\* have that version again; a deletion comes later, as the statements above do
DeleteMeeting(n) ==
    /\ row[n].st \in {"live", "trash"} /\ Free(n) /\ Later(n)
    /\ row' = [row EXCEPT ![n].st = "gone"]
    /\ UNCHANGED <<tx, now, texts, page, job, desk, pull, share, faults, rewrites, slipped, lost, on>>

-----------------------------------------------------------------------------
(* Rewriting the notes from the transcript *)

RegenerateReads(w, n) ==
    /\ job[w].pc = "idle" /\ Live(n)
    /\ job' = [job EXCEPT ![w] = [pc |-> "read", at |-> n, body |-> row[n].body, edited |-> row[n].edited]]
    /\ UNCHANGED <<row, tx, now, texts, page, desk, pull, share, faults, rewrites, slipped, lost, on>>

\* One of the limited regenerations is taken before the provider is asked
Claim(w) ==
    LET n == job[w].at
    IN  /\ job[w].pc = "read" /\ Free(n) /\ (row[n].st # "gone" => Later(n))
        /\ IF row[n].st # "gone" /\ row[n].regens < MaxRegens
           THEN /\ row' = [row EXCEPT ![n] = Touched(Counted(@))]
                /\ job' = [job EXCEPT ![w].pc = "claimed"]
           ELSE job' = [job EXCEPT ![w] = NoJob] /\ UNCHANGED row
        /\ UNCHANGED <<tx, now, texts, page, desk, pull, share, faults, rewrites, slipped, lost, on>>

SummarizeFails(w) ==
    LET n == job[w].at
    IN  /\ job[w].pc = "claimed" /\ Free(n) /\ Later(n) /\ Fault
        /\ row' = [row EXCEPT ![n] = IF @.st = "gone" THEN @ ELSE Touched(Refunded(@))]
        /\ job' = [job EXCEPT ![w] = NoJob]
        /\ UNCHANGED <<tx, now, texts, page, desk, pull, share, rewrites, slipped, lost, on>>

Summarized(w) ==
    /\ job[w].pc = "claimed"
    /\ job' = [job EXCEPT ![w].pc = "written"]
    /\ UNCHANGED <<row, tx, now, texts, page, desk, pull, share, faults, rewrites, slipped, lost, on>>

Unedited(w, n) == row[n].body = job[w].body /\ row[n].edited = job[w].edited

\* Saved only over the text the provider was given; otherwise the claim is given back
RegenerateCommits(w) ==
    LET n == job[w].at
    IN  /\ job[w].pc = "written" /\ Free(n)
        /\ job' = [job EXCEPT ![w] = NoJob]
        /\ IF row[n].st # "gone" /\ Unedited(w, n)
           THEN /\ NewText
                /\ Begin(n, "writer", [row[n] EXCEPT !.body = texts + 1, !.prev = row[n].body, !.edited = 0])
                /\ lost' = (lost \/ Blind(n, job[w].body) \/ row[n].edited # job[w].edited)
                /\ rewrites' = [rewrites EXCEPT ![n] = @ + 1]
                /\ UNCHANGED row
           ELSE /\ row[n].st # "gone" => Later(n)
                /\ row' = [row EXCEPT ![n] = IF @.st = "gone" THEN @ ELSE Touched(Refunded(@))]
                /\ UNCHANGED <<tx, texts, rewrites, lost>>
        /\ UNCHANGED <<now, page, desk, pull, share, faults, slipped, on>>

-----------------------------------------------------------------------------
(* Share links of note 1 *)

CreateShare ==
    /\ share.asked < 2 /\ Live(1)
    /\ share' = [share EXCEPT !.asked = @ + 1]
    /\ UNCHANGED <<row, tx, now, texts, page, job, desk, pull, faults, rewrites, slipped, lost, on>>

\* Counted and inserted under the lock of the note
ShareInserted ==
    /\ share.asked > 0 /\ Free(1)
    /\ share' = [share EXCEPT !.asked = @ - 1, !.active = IF row[1].st # "gone" /\ @ < MaxShares THEN @ + 1 ELSE @]
    /\ UNCHANGED <<row, tx, now, texts, page, job, desk, pull, faults, rewrites, slipped, lost, on>>

RevokeShare ==
    /\ share.active > 0
    /\ share' = [share EXCEPT !.active = @ - 1]
    /\ UNCHANGED <<row, tx, now, texts, page, job, desk, pull, faults, rewrites, slipped, lost, on>>

-----------------------------------------------------------------------------
(* The desktop *)

Dirty(n) == desk[n].body # desk[n].base

EditOnDesktop(n) ==
    /\ ~Dirty(n) /\ NewText
    /\ desk' = [desk EXCEPT ![n].body = texts + 1]
    /\ UNCHANGED <<row, tx, now, page, job, pull, share, faults, rewrites, slipped, lost, on>>

\* POST: upsertMeeting with the version that the desktop last saw. 409 leaves all as it is
PushAccepted(n) ==
    \/ row[n].st \in {"none", "gone"} /\ desk[n].ver = 0
    \/ row[n].st = "live" /\ VersionMatches(n, desk[n].ver)

Push(n) ==
    /\ Dirty(n) /\ Free(n)
    /\ IF Live(n) /\ row[n].body = desk[n].body
       THEN desk' = [desk EXCEPT ![n].ver = row[n].ver, ![n].base = desk[n].body] /\ UNCHANGED <<tx, lost>>
       ELSE /\ PushAccepted(n)
            /\ Begin(n, "desktop", IF Live(n) THEN [row[n] EXCEPT !.body = desk[n].body]
                                   ELSE [Unknown EXCEPT !.st = "live", !.body = desk[n].body])
            /\ lost' = (lost \/ (Live(n) /\ Blind(n, desk[n].base)))
            /\ UNCHANGED desk
    /\ UNCHANGED <<row, now, texts, page, job, pull, share, faults, rewrites, slipped, on>>

Before(a, b) == a[1] < b[1] \/ (a[1] = b[1] /\ a[2] < b[2])
Key(n) == <<row[n].ver, n>>

\* Mutant: exactly from the cursor
PullStartsAtCursor ==
    /\ pull.pc = "idle" /\ now > 0
    /\ pull' = [pull EXCEPT !.pc = "list", !.from = pull.saved,
                            !.owed = {<<n, row[n].ver>> : n \in {m \in Notes : Live(m)}}]
    /\ UNCHANGED <<row, tx, now, texts, page, job, desk, share, faults, rewrites, slipped, lost, on>>

\* From the saved cursor, an overlap earlier and before every id
PullStarts ==
    /\ pull.pc = "idle" /\ now > 0
    /\ pull' = [pull EXCEPT !.pc = "list", !.from = <<pull.saved[1] - Overlap, 0>>,
                            !.owed = {<<n, row[n].ver>> : n \in {m \in Notes : Live(m)}}]
    /\ UNCHANGED <<row, tx, now, texts, page, job, desk, share, faults, rewrites, slipped, lost, on>>

Candidates(from) ==
    LET all == SetToSortSeq({Key(n) : n \in {m \in Notes : Live(m) /\ Before(from, Key(m))}}, Before)
    IN SubSeq(all, 1, Min({Len(all), PageSize + 1}))

PullLists ==
    /\ pull.pc = "list"
    /\ pull' = [pull EXCEPT !.pc = "read", !.cand = Candidates(pull.from)]
    /\ UNCHANGED <<row, tx, now, texts, page, job, desk, share, faults, rewrites, slipped, lost, on>>

\* The notes of the page are read a moment later; one that is gone is passed over. A copy
\* with changes of its own is left alone
PullReads ==
    LET full == {i \in DOMAIN pull.cand : Cardinality({j \in 1 .. i : Live(pull.cand[j][2])}) = PageSize}
        k == Min(full \cup {Len(pull.cand)})
        got == {n \in Notes : Live(n) /\ \E i \in 1 .. k : pull.cand[i][2] = n}
    IN  /\ pull.pc = "read"
        /\ desk' = [n \in Notes |-> IF n \in got /\ ~Dirty(n)
                                    THEN [ver |-> row[n].ver, base |-> row[n].body, body |-> row[n].body]
                                    ELSE desk[n]]
        /\ pull' = LET more == Len(pull.cand) > PageSize
                       next == IF k = 0 THEN pull.saved ELSE pull.cand[k]
                   IN [pull EXCEPT !.pc = IF more THEN "list" ELSE "idle", !.cand = <<>>,
                                   !.from = IF k = 0 THEN @ ELSE next, !.saved = next,
                                   !.owed = {o \in @ : o[1] \notin got}]
        /\ UNCHANGED <<row, tx, now, texts, page, job, share, faults, rewrites, slipped, lost, on>>

-----------------------------------------------------------------------------
\* One note that is known everywhere; the others exist on the desktop only
Init ==
    /\ row = [n \in Notes |-> IF n = 1 THEN [Unknown EXCEPT !.st = "live", !.body = 1] ELSE Unknown]
    /\ tx = [n \in Notes |-> NoTx] /\ now = 1 /\ texts = 1
    /\ page = [p \in Pages |-> Closed] /\ job = [w \in Writers |-> NoJob]
    /\ desk = [n \in Notes |-> [ver |-> 0, base |-> IF n = 1 THEN 1 ELSE 0, body |-> IF n = 1 THEN 1 ELSE 0]]
    /\ pull = Resting /\ share = [asked |-> 0, active |-> 0]
    /\ faults = 0 /\ on \in Scenes /\ rewrites = [n \in Notes |-> 0] /\ slipped = {} /\ lost = FALSE

Page(p) ==
    \/ Refresh(p) \/ EditText(p) \/ Cancel(p) \/ SaveNoteBody(p) \/ RestorePreviousBody(p)
    \/ \E n \in Notes : GetMeeting(p, n)

Writer(w) ==
    \/ Claim(w) \/ SummarizeFails(w) \/ Summarized(w) \/ RegenerateCommits(w)
    \/ \E n \in Notes : RegenerateReads(w, n)

Next ==
    \/ Tick
    \/ \E n \in Notes : Commit(n) \/ Rollback(n) \/ AnswerLost(n)
    \/ "page" \in on /\ \E p \in Pages : Page(p)
    \/ "writer" \in on /\ \E w \in Writers : Writer(w)
    \/ "share" \in on /\ (CreateShare \/ ShareInserted \/ RevokeShare)
    \/ "desktop" \in on /\ (PullStarts \/ PullLists \/ PullReads \/ \E n \in Notes : EditOnDesktop(n) \/ Push(n))
    \/ "details" \in on /\ \E n \in Notes : \/ RenameMeeting(n) \/ RenameSpeaker(n)
                                         \/ \E changed \in BOOLEAN : UpdateActionItem(n, changed)
    \/ "bin" \in on /\ \E n \in Notes : TrashNote(n) \/ RestoreFromTrash(n) \/ DeleteMeeting(n)

Spec == Init /\ [][Next]_vars

-----------------------------------------------------------------------------
(* Properties *)

\* A hand edit, a rewrite by the provider and a push from the desktop replace only a text
\* that their author had in front of them (updateNoteBody, regenerateNotes, upsertMeeting).
\* Left out: a page that took over a newer version while its draft was open.
NoBlindOverwrite == TypeOK /\ ~lost

\* A regeneration counts against the limit exactly when its notes are saved or it is still
\* under way: failures and conflicts give it back, and no two clicks share one. And there
\* are never more active links than the limit, however many are asked for at once.
LimitsKept ==
    /\ share.active <= MaxShares
    /\ \A n \in Notes : row[n].st \in {"live", "trash"} /\ Free(n) =>
        row[n].regens = rewrites[n] + Cardinality({w \in Writers : job[w].at = n /\ job[w].pc \in {"claimed", "written"}})

\* The desktop has every note that was in the workspace when its pull began and has been
\* there since, unless the copy has changes of its own (listDesktopSyncMeetingCandidates,
\* the cursor of GET, the overlap of the desktop).
PullMissesNothing ==
    pull.pc = "idle" => \A o \in pull.owed :
        \/ ~Live(o[1]) \/ row[o[1]].ver # o[2]
        \/ Dirty(o[1]) \/ desk[o[1]].ver >= o[2]

=============================================================================
