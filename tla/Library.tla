------------------------------- MODULE Library -------------------------------
(****************************************************************************)
(* The library of a workspace (webapp/src/lib/library.ts, libraryTree.ts;   *)
(* app/meetings/libraryActions.ts, LibraryProvider.tsx; app/trash).         *)
(*                                                                          *)
(* Folders and notes are rows of one table here: a note's `parent' is its   *)
(* folderId. A request is a list of operations. Each operation reads the    *)
(* library, decides, and writes later in a statement or transaction of its  *)
(* own: nothing is locked in between, so another request may write there.   *)
(****************************************************************************)
EXTENDS Integers, FiniteSets, SequencesExt

CONSTANTS
    Folders, Notes,   \* ids, used and not yet used
    Users, Owners,    \* the members of the workspace, and the owners among them
    Sweeper,          \* the process that clears expired trash
    Names,            \* folder names that people choose
    Spare,            \* names of the form "Plans (restored)"
    Top,              \* no parent
    None,
    MaxDepth,         \* MAX_FOLDER_DEPTH
    MaxFolders,       \* MAX_FOLDERS_PER_WORKSPACE
    PurgeBatch,       \* PURGE_BATCH
    MaxBulk,          \* MAX_BULK_ITEMS
    Start,            \* the libraries to begin with
    MaxRequests       \* bound: requests

ASSUME LibraryAssumption ==
    /\ Folders \cap Notes = {} /\ Owners \subseteq Users /\ Sweeper \notin Users
    /\ Top \notin Folders \cup Notes /\ None \notin Folders \cup Notes
    /\ MaxDepth \in Nat /\ MaxFolders \in Nat /\ PurgeBatch \in Nat /\ MaxBulk \in Nat
    /\ MaxRequests \in Nat

Items == Folders \cup Notes
Sessions == Users \cup {Sweeper}

VARIABLES
    lib,      \* the rows: status, parent, trashRootId, deletedAt, author, name
    job,      \* the request of each session: operations left, what the current one has read
    undo,     \* the operations behind the Undo button of each page
    clock,    \* how many deletions there have been, for deletedAt
    left,     \* bound: requests that may still be made
    fresh,    \* history: sessions whose last read is still what the library holds
    crossed,  \* history: a write took effect although its read was no longer fresh
    went,     \* history: what was inside each item when it was last put in the trash
    before    \* history: the library before each session's last move or delete, while
              \* nobody else has changed it

vars == <<lib, job, undo, clock, left, fresh, crossed, went, before>>

Op(do, items, to, name) == [do |-> do, items |-> items, to |-> to, name |-> name]
The(op) == CHOOSE i \in op.items : TRUE
Idle == [todo |-> <<>>, step |-> "read", seen |-> {}, parent |-> Top, name |-> None,
         as |-> "none", done |-> FALSE, back |-> <<>>]
Gone(r) == [r EXCEPT !.st = "gone", !.parent = Top, !.root = None, !.at = 0]

Rows == [st : {"new", "live", "trash", "gone"}, parent : Folders \cup {Top}, root : Items \cup {None},
         at : Nat, by : Users, name : Names \cup Spare \cup {None}]

TypeOK ==
    /\ lib \in [Items -> Rows]
    /\ \A s \in Sessions :
          /\ job[s].step \in {"read", "write"}
          /\ job[s].seen \subseteq Items
          /\ job[s].as \in {"none", "plain", "move", "trash", "undo"}
    /\ fresh \subseteq Sessions
    /\ \A i \in Items : lib[i].st = "trash" <=> lib[i].root # None

-----------------------------------------------------------------------------
(* The tree *)

LiveIn(t) == {f \in Folders : t[f].st = "live"}

\* folderPath: f and the live folders above it; a cycle ends the walk
Path(t, f) ==
    LET live == LiveIn(t)
        up[k \in 0 .. Cardinality(Folders)] ==
            IF k = 0 THEN {f} \cap live
            ELSE LET low == up[k - 1] IN low \cup ({t[g].parent : g \in low} \cap live)
    IN up[Cardinality(Folders)]

Depth(t, f) == Cardinality(Path(t, f))

Subtree(t, f) == {f} \cup {g \in LiveIn(t) : f \in Path(t, g)}

Height(t, f) == LET below == Subtree(t, f)
                IN Max({Cardinality(Path(t, g) \cap below) : g \in below})

FreeName(t, parent, name) ==
    LET taken == {t[f].name : f \in {g \in LiveIn(t) : t[g].parent = parent}}
    IN IF name \notin taken THEN name ELSE CHOOSE n \in Spare : n \notin taken

\* Unique index on live (workspace, parent, name), and the foreign keys to a parent row
Allowed(t) ==
    /\ \A f, g \in LiveIn(t) : f # g => <<t[f].parent, t[f].name>> # <<t[g].parent, t[g].name>>
    /\ \A i \in Items : t[i].st \in {"live", "trash"} /\ t[i].parent # Top
                            => t[t[i].parent].st \in {"live", "trash"}

CanTrashNote(u, n) == u \in Owners \/ lib[n].by = u

TrashRoots == {i \in Items : lib[i].st = "trash" /\ lib[i].root = i}

-----------------------------------------------------------------------------
(* What each operation refuses after its first read *)

CreateRefused(op) ==
    \/ Cardinality(LiveIn(lib)) >= MaxFolders
    \/ op.to # Top /\ op.to \notin LiveIn(lib)
    \/ Depth(lib, op.to) + 1 > MaxDepth

MoveFolderRefused(op) ==
    LET f == The(op)
    IN  \/ lib[f].st # "live"
        \/ op.to # Top /\ (op.to \notin LiveIn(lib) \/ op.to \in Subtree(lib, f))
        \/ Depth(lib, op.to) + Height(lib, f) > MaxDepth

MoveNotesRefused(op) == op.to # Top /\ op.to \notin LiveIn(lib)

TrashNoteRefused(u, op) == lib[The(op)].st # "live" \/ ~CanTrashNote(u, The(op))

Inside(t, f) == Subtree(t, f) \cup {n \in Notes : t[n].st = "live" /\ t[n].parent \in Subtree(t, f)}

TrashFolderRefused(u, op) ==
    \/ lib[The(op)].st # "live"
    \/ u \notin Owners /\ \E i \in Inside(lib, The(op)) : lib[i].by # u

RestoreRefused(op) == The(op) \notin TrashRoots

DeleteForeverUnchecked(u, op) ==
    u \notin Owners /\ \E i \in Items : lib[i].root = The(op) /\ lib[i].by # u

DeleteForeverRefused(u, op) ==
    \/ The(op) \notin TrashRoots
    \/ u \notin Owners /\ \E i \in Items : lib[i].root = The(op) /\ lib[i].by # u

Refused(s, op) ==
    CASE op.do = "create" -> CreateRefused(op)
      [] op.do = "moveFolder" -> MoveFolderRefused(op)
      [] op.do \in {"moveNotes", "createNote"} -> MoveNotesRefused(op)
      [] op.do = "trashNote" -> TrashNoteRefused(s, op)
      [] op.do = "trashFolder" -> TrashFolderRefused(s, op)
      [] op.do = "restore" -> RestoreRefused(op)
      [] op.do = "deleteForever" -> DeleteForeverRefused(s, op)
      [] OTHER -> FALSE

\* What it keeps of that read: the tree to trash, the notes to purge, the place to restore to
PurgeRoot(i) == IF i \in Notes THEN {i} ELSE {n \in Notes : lib[n].st = "trash" /\ lib[n].root = i}

Seen(op) == CASE op.do = "trashFolder" -> Subtree(lib, The(op))
              [] op.do \in {"deleteForever", "purge"} -> PurgeRoot(The(op))
              [] OTHER -> {}

RestoreParent(i) == IF lib[i].parent \in LiveIn(lib) THEN lib[i].parent ELSE Top

-----------------------------------------------------------------------------
(* What each operation writes, on the library as it is by then *)

MarkedAgain(ids, root) == [i \in Items |-> IF i \in ids /\ lib[i].st \in {"live", "trash"}
                                           THEN [lib[i] EXCEPT !.st = "trash", !.root = root, !.at = clock + 1]
                                           ELSE lib[i]]

Marked(ids, root) == [i \in Items |-> IF i \in ids /\ lib[i].st = "live"
                                      THEN [lib[i] EXCEPT !.st = "trash", !.root = root, !.at = clock + 1]
                                      ELSE lib[i]]

TrashNote(op) == Marked(op.items, The(op))

TrashFolder(op, tree) == Marked(tree \cup {n \in Notes : lib[n].parent \in tree}, The(op))

MoveNotes(op) == [i \in Items |-> IF i \in op.items /\ lib[i].st = "live"
                                  THEN [lib[i] EXCEPT !.parent = op.to] ELSE lib[i]]

MoveFolder(op) == MoveNotes(op)

RenameFolder(op) == [i \in Items |-> IF i \in op.items /\ lib[i].st = "live"
                                     THEN [lib[i] EXCEPT !.name = op.name] ELSE lib[i]]

Back(r) == [r EXCEPT !.st = "live", !.root = None, !.at = 0]

RestoreNote(op, parent) ==
    [lib EXCEPT ![The(op)] = IF @.st = "trash" THEN [Back(@) EXCEPT !.parent = parent] ELSE @]

RestoreFolder(op, parent, name) ==
    [i \in Items |->
        CASE i = The(op) /\ lib[i].st # "gone" -> [Back(lib[i]) EXCEPT !.parent = parent, !.name = name]
          [] lib[i].st = "trash" /\ lib[i].root = The(op) -> Back(lib[i])
          [] OTHER -> lib[i]]

Written(j, op) ==
    CASE op.do = "moveFolder" -> MoveFolder(op)
      [] op.do = "moveNotes" -> MoveNotes(op)
      [] op.do = "rename" -> RenameFolder(op)
      [] op.do = "trashNote" -> TrashNote(op)
      [] op.do = "trashFolder" -> TrashFolder(op, j.seen)
      [] op.do = "restore" /\ The(op) \in Notes -> RestoreNote(op, j.parent)
      [] op.do = "restore" /\ The(op) \in Folders -> RestoreFolder(op, j.parent, j.name)

\* The rows below a deleted folder go with it; the notes in them lose their folder
Cascade(f) ==
    LET under[k \in 0 .. Cardinality(Folders)] ==
            IF k = 0 THEN {f} ELSE under[k - 1] \cup {g \in Folders : lib[g].parent \in under[k - 1]}
        all == under[Cardinality(Folders)]
    IN [i \in Items |-> CASE i \in all -> Gone(lib[i])
                          [] i \in Notes /\ lib[i].parent \in all -> [lib[i] EXCEPT !.parent = Top]
                          [] OTHER -> lib[i]]

-----------------------------------------------------------------------------
(* Running a request *)

\* The page learns the outcome when the last operation is over
Finished(s, j) ==
    /\ job' = [job EXCEPT ![s] = IF j.todo = <<>> THEN [Idle EXCEPT !.as = j.as] ELSE j]
    /\ undo' = [undo EXCEPT ![s] =
                   CASE j.todo # <<>> \/ j.as \notin {"move", "trash"} -> @
                     [] j.done -> j.back
                     [] OTHER -> <<>>]

Next1(s, ok) == [job[s] EXCEPT !.todo = Tail(@), !.step = "read", !.seen = {}, !.parent = Top,
                               !.name = None, !.done = @ \/ ok]

Changes(s, new) ==
    /\ lib' = new
    /\ crossed' = (crossed \/ (new # lib /\ s \notin fresh))
    /\ fresh' = IF new = lib THEN fresh ELSE fresh \cap {s}
    /\ before' = IF new = lib THEN before ELSE [u \in Sessions |-> IF u = s THEN before[u] ELSE <<>>]
    /\ went' = [i \in Items |-> IF lib[i].st = "live" /\ new[i].st = "trash" /\ new[i].root = i
                                THEN (IF i \in Folders THEN Inside(lib, i) ELSE {i}) ELSE went[i]]
    /\ clock' = clock + (IF \E i \in Items : lib[i].st = "live" /\ new[i].st = "trash" THEN 1 ELSE 0)

Unchanged == UNCHANGED <<lib, clock, left, crossed, went, before>>

\* First read of an operation. A folder that is already there needs no write; a purge from
\* a list relies on the list, which is as old as the request
Read(s) ==
    /\ job[s].todo # <<>> /\ job[s].step = "read"
    /\ LET op == Head(job[s].todo)
       IN  CASE Refused(s, op) -> Finished(s, Next1(s, FALSE)) /\ UNCHANGED fresh
             [] op.do = "moveFolder" /\ ~Refused(s, op) /\ lib[The(op)].parent = op.to ->
                    Finished(s, Next1(s, TRUE)) /\ UNCHANGED fresh
             [] OTHER ->
                    /\ job' = [job EXCEPT ![s].step = "write", ![s].seen = Seen(op),
                                 ![s].parent = IF op.do = "restore" THEN RestoreParent(The(op)) ELSE Top,
                                 ![s].name = IF op.do = "restore" /\ The(op) \in Folders
                                             THEN FreeName(lib, RestoreParent(The(op)), lib[The(op)].name)
                                             ELSE None]
                    /\ fresh' = IF op.do = "purge" THEN fresh ELSE fresh \cup {s}
                    /\ UNCHANGED undo
    /\ Unchanged

Writing(s, dos) == job[s].todo # <<>> /\ job[s].step = "write" /\ Head(job[s].todo).do \in dos

\* A statement that the database refuses changes nothing, and the operation fails
Write(s) ==
    /\ Writing(s, {"moveFolder", "moveNotes", "rename", "trashNote", "trashFolder", "restore"})
    /\ LET op == Head(job[s].todo)
           new == Written(job[s], op)
           ok == Allowed(new)
       IN  /\ Changes(s, IF ok THEN new ELSE lib)
           /\ Finished(s, Next1(s, ok /\ (new # lib \/ op.do \in {"trashNote", "trashFolder", "restore"})))
    /\ UNCHANGED left

Insert(s) ==
    /\ Writing(s, {"create", "createNote"})
    /\ LET op == Head(job[s].todo)
       IN \E i \in IF op.do = "create" THEN Folders ELSE Notes :
            /\ lib[i].st = "new"
            /\ LET new == [lib EXCEPT ![i] = [@ EXCEPT !.st = "live", !.parent = op.to, !.by = s, !.name = op.name]]
               IN Changes(s, IF Allowed(new) THEN new ELSE lib)
    /\ Finished(s, Next1(s, TRUE))
    /\ UNCHANGED left

\* deleteMeeting: the row goes, whether or not it still is in the trash
PurgeNote(s) ==
    /\ Writing(s, {"deleteForever", "purge"})
    /\ \E n \in job[s].seen :
          /\ Changes(s, [lib EXCEPT ![n] = Gone(@)])
          /\ job' = [job EXCEPT ![s].seen = @ \ {n}]
    /\ UNCHANGED <<undo, left>>

PurgeFolder(s) ==
    /\ Writing(s, {"deleteForever", "purge"}) /\ job[s].seen = {}
    /\ LET i == The(Head(job[s].todo))
       IN Changes(s, IF i \in Folders /\ lib[i].st = "trash" THEN Cascade(i) ELSE lib)
    /\ Finished(s, Next1(s, TRUE))
    /\ UNCHANGED left

\* One root that cannot be deleted does not stop the sweep
SweepFails ==
    /\ Writing(Sweeper, {"purge"}) /\ job[Sweeper].seen # {}
    /\ Finished(Sweeper, Next1(Sweeper, FALSE))
    /\ Unchanged /\ UNCHANGED fresh

\* Any other request that fails, or whose plan does not allow it to write, ends there
Fails(s) ==
    /\ s \in Users /\ job[s].todo # <<>>
    /\ job' = [job EXCEPT ![s] = Idle]
    /\ undo' = [undo EXCEPT ![s] = IF job[s].as \in {"move", "trash"} THEN <<>> ELSE @]
    /\ Unchanged /\ UNCHANGED fresh

-----------------------------------------------------------------------------
(* Making a request *)

\* The rows of a page: one folder when browsing, notes from anywhere when searching
Rows1(folder) == {i \in Items : lib[i].st = "live" /\ lib[i].parent = folder}
Found == {n \in Notes : lib[n].st = "live"}

\* Toggled rows of one view
Selected == {sel \in SUBSET Found \cup UNION {SUBSET Rows1(f) : f \in LiveIn(lib) \cup {Top}} :
                sel # {} /\ Cardinality(sel) <= MaxBulk}

LegalDestination(sel, to) ==
    \A i \in sel : lib[i].parent # to /\ (i \in Folders => to \notin Subtree(lib, i))

MoveItems(sel, to) ==
    (IF sel \cap Notes = {} THEN <<>> ELSE <<Op("moveNotes", sel \cap Notes, to, None)>>)
        \o [k \in 1 .. Cardinality(sel \cap Folders) |->
              Op("moveFolder", {SetToSeq(sel \cap Folders)[k]}, to, None)]

\* Notes go first
TrashItems(sel) ==
    LET each(do, S) == [k \in 1 .. Cardinality(S) |-> Op(do, {SetToSeq(S)[k]}, Top, None)]
    IN each("trashNote", sel \cap Notes) \o each("trashFolder", sel \cap Folders)

RestoreItems(sel) == [k \in 1 .. Cardinality(sel) |-> Op("restore", {SetToSeq(sel)[k]}, Top, None)]

UndoMoveTogether(sel) == MoveItems(sel, lib[CHOOSE i \in sel : TRUE].parent)

\* Undo puts each item back where it came from
UndoMove(sel) == FlattenSeq([k \in 1 .. Cardinality({lib[i].parent : i \in sel}) |->
                    LET p == SetToSeq({lib[i].parent : i \in sel})[k]
                    IN MoveItems({i \in sel : lib[i].parent = p}, p)])

Ask(s, todo, as, back) ==
    /\ left > 0 /\ job[s].todo = <<>>
    /\ ~crossed   \* bound: what follows a crossed write is not explored
    /\ left' = left - 1
    /\ job' = [job EXCEPT ![s] = [Idle EXCEPT !.todo = todo, !.as = as, !.back = back]]
    /\ fresh' = fresh \cup {s}
    /\ UNCHANGED <<lib, clock, crossed, went>>

Plain(s, op) == Ask(s, <<op>>, "plain", <<>>) /\ before' = [before EXCEPT ![s] = <<>>] /\ UNCHANGED undo

MoveTo(s) ==
    \E sel \in Selected, to \in LiveIn(lib) \cup {Top} :
        /\ LegalDestination(sel, to)
        /\ Ask(s, MoveItems(sel, to), "move", UndoMove(sel))
        /\ before' = [before EXCEPT ![s] = lib] /\ UNCHANGED undo

Trash(s) ==
    \E sel \in Selected :
        /\ Ask(s, TrashItems(sel), "trash", RestoreItems(sel))
        /\ before' = [before EXCEPT ![s] = lib] /\ UNCHANGED undo

Undo(s) == undo[s] # <<>> /\ Ask(s, undo[s], "undo", <<>>) /\ undo' = [undo EXCEPT ![s] = <<>>]
           /\ UNCHANGED before

CreateFolder(s) == \E f \in LiveIn(lib) \cup {Top}, n \in Names : Plain(s, Op("create", {}, f, n))
CreateNote(s) == \E f \in LiveIn(lib) \cup {Top} : Plain(s, Op("createNote", {}, f, None))
Rename(s) == \E f \in LiveIn(lib), n \in Names : n # lib[f].name /\ Plain(s, Op("rename", {f}, Top, n))
Restore(s) == \E i \in TrashRoots : Plain(s, Op("restore", {i}, Top, None))
DeleteForever(s) == \E i \in TrashRoots : Plain(s, Op("deleteForever", {i}, Top, None))

Purges(roots, first(_, _)) ==
    LET order == SetToSortSeq(roots, first) IN [k \in DOMAIN order |-> Op("purge", {order[k]}, Top, None)]

\* Newest first
EmptyTrash(s) ==
    /\ s \in Owners /\ TrashRoots # {}
    /\ Ask(s, Purges(TrashRoots, LAMBDA i, j : lib[i].at > lib[j].at), "plain", <<>>)
    /\ before' = [before EXCEPT ![s] = <<>>] /\ UNCHANGED undo

\* Folders and then notes, oldest first, of what was deleted before the cutoff
PurgeExpired ==
    \E cutoff \in 1 .. clock :
        LET old(S) == {i \in TrashRoots \cap S : lib[i].at <= cutoff}
            batch(S) == LET q == Purges(old(S), LAMBDA i, j : lib[i].at < lib[j].at)
                        IN SubSeq(q, 1, Min({Len(q), PurgeBatch}))
        IN  /\ old(Items) # {}
            /\ Ask(Sweeper, batch(Folders) \o batch(Notes), "plain", <<>>)
            /\ UNCHANGED <<undo, before>>

\* Every live item is reached from the top through live folders
TreeSound ==
    \A i \in Items : lib[i].st = "live" =>
        \/ lib[i].parent = Top
        \/ \E f \in Path(lib, lib[i].parent) : lib[f].parent = Top

\* A library in use
Init ==
    /\ lib \in Start
    /\ Allowed(lib)
    /\ job = [s \in Sessions |-> Idle] /\ undo = [s \in Sessions |-> <<>>]
    /\ clock = 0 /\ left = MaxRequests
    /\ fresh = {} /\ crossed = FALSE
    /\ went = [i \in Items |-> {}] /\ before = [s \in Sessions |-> <<>>]

Next ==
    \/ \E s \in Users : \/ MoveTo(s) \/ Trash(s) \/ Undo(s) \/ CreateFolder(s) \/ CreateNote(s)
                        \/ Rename(s) \/ Restore(s) \/ DeleteForever(s) \/ EmptyTrash(s) \/ Fails(s)
    \/ \E s \in Sessions : Read(s) \/ Write(s) \/ Insert(s) \/ PurgeNote(s) \/ PurgeFolder(s)
    \/ PurgeExpired \/ SweepFails

Spec == Init /\ [][Next]_vars

-----------------------------------------------------------------------------
(* Properties *)

\* Every live folder and note is reached from the top through live folders: nothing is
\* hidden inside something deleted, no folder lies inside itself (moveFolder,
\* restoreFromTrash, trashFolder). Holds while no write follows a read that another
\* request has made out of date: nothing is locked between the two. And what carries a
\* deletion's trashRootId is what was inside the deleted item then, less
\* what has been destroyed since: a restore returns all of it, and nothing that was
\* deleted separately earlier (library.ts, lines 21-23).
SoundLibrary ==
    /\ TypeOK
    /\ ~crossed => TreeSound
    /\ ~crossed => \A r \in TrashRoots : {i \in Items : lib[i].root = r} = {i \in went[r] : lib[i].st # "gone"}

\* A note that is in the library is never destroyed: only one from the trash is
\* (purgeRoot, deleteMeeting), unless a purge works from a list that a restore has made
\* out of date.
LiveNotesSurvive == [][\A n \in Notes : lib[n].st = "live" /\ lib'[n].st = "gone" => crossed']_vars

\* After Undo of a move or of a delete, with nobody else at work since, every item is
\* back: same place, same name, out of the trash (LibraryProvider.tsx, moveTo and trash).
UndoIsExact ==
    \A s \in Users : job[s].as = "undo" /\ job[s].todo = <<>> /\ before[s] # <<>> =>
        \A i \in Items : /\ lib[i].st = before[s][i].st
                         /\ lib[i].parent = before[s][i].parent
                         /\ lib[i].name = before[s][i].name

=============================================================================
