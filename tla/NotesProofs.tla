----------------------------- MODULE NotesProofs -----------------------------
(****************************************************************************)
(* Proofs about Notes: nobody replaces a text that they did not have in     *)
(* front of them, for any number of notes, pages, rewrites and versions,    *)
(* and whoever is at work together.                                         *)
(****************************************************************************)
EXTENDS Notes, TLAPS

Rows == [st : {"none", "live", "trash", "gone"}, ver : Nat, body : Nat, prev : Nat, edited : Nat, regens : 0 .. MaxRegens]
PageStates == [at : Notes \cup {0}, mode : {"read", "edit", "saving"}, ver : Nat, shown : Nat, base : Nat, draft : Nat]
Rewrites == [pc : {"idle", "read", "claimed", "written"}, at : Notes \cup {0}, body : Nat, edited : Nat]

\* The rows: a transaction holds a later version than the row it will replace, and
\* so does whatever replaces a deleted note.
RowsSound ==
  /\ now \in Nat /\ texts \in Nat
  /\ row \in [Notes -> Rows]
  /\ tx = [n \in Notes |-> tx[n]]
  /\ \A n \in Notes : tx[n] # NoTx =>
       /\ tx[n].row \in Rows /\ tx[n].row.ver > row[n].ver /\ tx[n].row.st \in {"live", "trash"}
       /\ tx[n].by = "desktop" \/ row[n].st \in {"live", "trash"}
  /\ \A n \in Notes : row[n].st \in {"none", "gone"} => row[n].ver < now

\* Everybody who works on a note has one.
PagesSound ==
  /\ page \in [Pages -> PageStates]
  /\ \A p \in Pages : page[p].mode # "read" => page[p].at # 0
JobsSound ==
  /\ job \in [Writers -> Rewrites]
  /\ \A w \in Writers : job[w].pc # "idle" => job[w].at # 0 /\ row[job[w].at].st # "none"
DesksSound == desk \in [Notes -> [ver : Nat, base : Nat, body : Nat]]
ActorsSound == PagesSound /\ JobsSound /\ DesksSound

\* A version names one text: who has the version of the row has its text, and a
\* draft began from the text that its page shows, unless the page slipped.
Holds(ver, text, n) == ver <= row[n].ver /\ (ver = row[n].ver => text = row[n].body)
VersionsNameTexts ==
  /\ \A p \in Pages : page[p].at # 0 => Holds(page[p].ver, page[p].shown, page[p].at)
  /\ \A n \in Notes : Holds(desk[n].ver, desk[n].base, n)
  /\ \A p \in Pages : page[p].mode # "read" /\ p \notin slipped => page[p].base = page[p].shown

Inv == RowsSound /\ ActorsSound /\ VersionsNameTexts /\ ~lost

-----------------------------------------------------------------------------
\* The greater of two numbers.
LEMMA OfTwo ==
  ASSUME NEW a \in Int, NEW b \in Int
  PROVE  Max({a, b}) = IF a >= b THEN a ELSE b
<1>1. \E x \in {a, b} : \A y \in {a, b} : x >= y
  OBVIOUS
<1>2. Max({a, b}) \in {a, b} /\ \A y \in {a, b} : Max({a, b}) >= y
  BY <1>1 DEF Max
<1>. QED
  BY <1>2

\* A version that is given out is later than the one it follows, and not before now.
LEMMA NextVersion ==
  ASSUME now \in Nat, NEW v \in Nat
  PROVE  NextMeetingVersion(v) \in Nat /\ NextMeetingVersion(v) > v /\ NextMeetingVersion(v) >= now
<1>1. v + 1 \in Int /\ now \in Int
  OBVIOUS
<1>2. NextMeetingVersion(v) = IF now >= v + 1 THEN now ELSE v + 1
  BY <1>1, OfTwo DEF NextMeetingVersion
<1>. QED
  BY <1>2

\* A regeneration that is given back changes nothing but its count.
LEMMA RefundType ==
  ASSUME NEW r \in Rows
  PROVE  Refunded(r) \in Rows /\ Refunded(r).ver = r.ver /\ Refunded(r).body = r.body /\ Refunded(r).st = r.st
<1>1. MaxRegens \in Nat /\ r.regens \in 0 .. MaxRegens
  BY NotesAssumption DEF Rows
<1>2. r.regens - 1 \in Int /\ 0 \in Int
  BY <1>1
<1>3. Max({0, r.regens - 1}) = IF 0 >= r.regens - 1 THEN 0 ELSE r.regens - 1
  BY <1>2, OfTwo
<1>4. Max({0, r.regens - 1}) \in 0 .. MaxRegens
  BY <1>1, <1>3
<1>. QED
  BY <1>4 DEF Refunded, Rows

-----------------------------------------------------------------------------
(* The rows *)

\* A transaction begins on a row, or on a new one for a note that is not there.
LEMMA Begins ==
  ASSUME RowsSound, NEW n \in Notes, NEW who, NEW new \in Rows, Begin(n, who, new),
         new.st \in {"live", "trash"}, row[n].ver <= new.ver \/ row[n].ver < now,
         who = "desktop" \/ row[n].st \in {"live", "trash"},
         UNCHANGED <<row, now>>, texts' \in Nat
  PROVE  RowsSound'
<1>1. new.ver \in Nat /\ now \in Nat /\ row[n].ver \in Nat
  BY DEF RowsSound, Rows
<1>2. NextMeetingVersion(new.ver) \in Nat /\ NextMeetingVersion(new.ver) > row[n].ver
  BY <1>1, NextVersion
<1> DEFINE r == [new EXCEPT !.ver = NextMeetingVersion(@)]
<1>3. r \in Rows /\ r.ver > row[n].ver /\ r.st = new.st
  BY <1>2 DEF Rows
<1>4. tx' = [tx EXCEPT ![n] = [by |-> who, row |-> r, at |-> now]]
  BY DEF Begin
<1> HIDE DEF r
<1>5. tx' = [m \in Notes |-> tx'[m]] /\ tx'[n].row = r /\ tx'[n].by = who /\ \A m \in Notes \ {n} : tx'[m] = tx[m]
  BY <1>4 DEF RowsSound
<1>. QED
  BY <1>3, <1>5 DEF RowsSound

\* A statement on a row that nobody else has locked; a deletion is a later moment.
LEMMA Writes ==
  ASSUME RowsSound, NEW n \in Notes, NEW r \in Rows, row' = [row EXCEPT ![n] = r],
         (tx' = tx /\ tx[n] = NoTx) \/ tx' = [tx EXCEPT ![n] = NoTx], UNCHANGED <<now, texts>>,
         r.st \in {"live", "trash"} \/ r = row[n] \/ (r.st = "gone" /\ r.ver < now)
  PROVE  RowsSound'
<1>1. /\ row' \in [Notes -> Rows] /\ row'[n] = r /\ \A m \in Notes \ {n} : row'[m] = row[m]
  BY DEF RowsSound
<1>2. tx' = [m \in Notes |-> tx'[m]] /\ tx'[n] = NoTx /\ \A m \in Notes \ {n} : tx'[m] = tx[m]
  BY DEF RowsSound
<1>3. \A m \in Notes : tx'[m] # NoTx =>
        /\ tx'[m].row \in Rows /\ tx'[m].row.ver > row'[m].ver /\ tx'[m].row.st \in {"live", "trash"}
        /\ tx'[m].by = "desktop" \/ row'[m].st \in {"live", "trash"}
  BY <1>1, <1>2 DEF RowsSound
<1>4. \A m \in Notes : row'[m].st \in {"none", "gone"} => row'[m].ver < now
  BY <1>1 DEF RowsSound
<1>. QED
  BY <1>1, <1>2, <1>3, <1>4 DEF RowsSound

\* The stamped copies of a row.
LEMMA Stamped ==
  ASSUME now \in Nat, NEW r \in Rows
  PROVE  /\ Touched(r) \in Rows /\ Touched(r).ver = now /\ Touched(r).body = r.body /\ Touched(r).st = r.st
         /\ \A st \in {"none", "live", "trash", "gone"} :
              [r EXCEPT !.st = st] \in Rows /\ [r EXCEPT !.st = st].ver = r.ver
                /\ [r EXCEPT !.st = st].body = r.body /\ [r EXCEPT !.st = st].st = st
BY DEF Touched, Rows

\* What replaces a row is later than it, or has the same text and version.
Succeeds(r, old) == r.ver > old.ver \/ (r.ver = old.ver /\ r.body = old.body)

\* One statement or transaction on one row. What it leaves in the row succeeds what
\* was there, and no note that has been there becomes unknown.
RowStep(n) ==
  \/ UNCHANGED row
  \/ \E r \in Rows : /\ row' = [row EXCEPT ![n] = r]
                     /\ Succeeds(r, row[n]) /\ (row[n].st # "none" => r.st # "none")

\* A step on one row makes no note unknown and leaves no version with another text.
LEMMA RowStepKeeps ==
  ASSUME RowsSound, NEW n \in Notes, RowStep(n)
  PROVE  /\ \A m \in Notes : row[m].st # "none" => row'[m].st # "none"
         /\ \A m \in Notes, v \in Nat, t \in Nat : Holds(v, t, m) => Holds(v, t, m)'
<1>1. \A m \in Notes : row'[m] = row[m]
        \/ (Succeeds(row'[m], row[m]) /\ row'[m].ver \in Nat /\ (row[m].st # "none" => row'[m].st # "none"))
  BY DEF RowStep, RowsSound, Rows
<1>2. \A m \in Notes : row[m].ver \in Nat
  BY DEF RowsSound, Rows
<1>3. \A m \in Notes, v \in Nat, t \in Nat : Holds(v, t, m) => Holds(v, t, m)'
  BY <1>1, <1>2 DEF Holds, Succeeds
<1>. QED
  BY <1>1, <1>3

\* Every step keeps the rows sound, and is a step on at most one of them.
LEMMA RowsStep ==
  ASSUME RowsSound, ActorsSound, [Next]_vars
  PROVE  RowsSound' /\ \E n \in Notes : RowStep(n)
<1>0. 1 \in Notes
  BY NotesAssumption DEF Notes
<1>1. now \in Nat /\ texts \in Nat /\ \A n \in Notes : row[n] \in Rows /\ row[n].ver \in Nat
  BY DEF RowsSound, Rows
<1>2. NewText => texts' \in Nat
  BY <1>1 DEF NewText
\* Steps that leave the rows alone.
<1>3. ASSUME UNCHANGED <<row, tx>>, now' \in Nat, texts' \in Nat, now' >= now
      PROVE  RowsSound' /\ \E n \in Notes : RowStep(n)
  BY <1>0, <1>1, <1>3 DEF RowsSound, RowStep
\* Transactions that begin on the row as it is, and change its text.
<1>4. ASSUME NEW n \in Notes, NEW who, NEW new \in Rows, Begin(n, who, new), new.st = row[n].st, new.ver = row[n].ver,
             row[n].st \in {"live", "trash"}, UNCHANGED <<row, now>>, texts' \in Nat
      PROVE  RowsSound' /\ \E m \in Notes : RowStep(m)
  BY <1>1, <1>4, Begins DEF RowStep
<1>5. ASSUME NEW n \in Notes, NEW b \in Nat, NEW q \in Nat, NEW e \in Nat, NEW who,
             Begin(n, who, [row[n] EXCEPT !.body = b, !.prev = q, !.edited = e]),
             row[n].st \in {"live", "trash"}, UNCHANGED <<row, now>>, texts' \in Nat
      PROVE  RowsSound' /\ \E m \in Notes : RowStep(m)
  <2> DEFINE new == [row[n] EXCEPT !.body = b, !.prev = q, !.edited = e]
  <2>1. new \in Rows /\ new.st = row[n].st /\ new.ver = row[n].ver
    BY <1>1, <1>5 DEF Rows
  <2>2. Begin(n, who, new)
    BY <1>5
  <2> HIDE DEF new
  <2>. QED
    BY <1>4, <1>5, <2>1, <2>2
<1>6. ASSUME NEW n \in Notes, NEW b \in Nat, NEW who, Begin(n, who, [row[n] EXCEPT !.body = b]),
             row[n].st \in {"live", "trash"}, UNCHANGED <<row, now>>, texts' \in Nat
      PROVE  RowsSound' /\ \E m \in Notes : RowStep(m)
  <2> DEFINE new == [row[n] EXCEPT !.body = b]
  <2>1. new \in Rows /\ new.st = row[n].st /\ new.ver = row[n].ver
    BY <1>1, <1>6 DEF Rows
  <2>2. Begin(n, who, new)
    BY <1>6
  <2> HIDE DEF new
  <2>. QED
    BY <1>4, <1>6, <2>1, <2>2
\* Statements that stamp a free row.
<1>7. ASSUME NEW n \in Notes, NEW r \in Rows, row' = [row EXCEPT ![n] = Touched(r)], Later(n),
             r.st \in {"live", "trash"}, (tx' = tx /\ Free(n)) \/ tx' = [tx EXCEPT ![n] = NoTx], UNCHANGED <<now, texts>>
      PROVE  RowsSound' /\ \E m \in Notes : RowStep(m)
  <2>1. Touched(r) \in Rows /\ Touched(r).ver = now /\ Touched(r).st \in {"live", "trash"}
    BY <1>1, <1>7, Stamped
  <2>2. RowsSound'
    BY <1>7, <2>1, Writes DEF Free
  <2>3. Succeeds(Touched(r), row[n])
    BY <1>1, <1>7, <2>1 DEF Succeeds, Later
  <2>. QED
    BY <1>7, <2>1, <2>2, <2>3 DEF RowStep
<1>8. ASSUME NEW n \in Notes, Commit(n) \/ Rollback(n) \/ AnswerLost(n)
      PROVE  RowsSound' /\ \E m \in Notes : RowStep(m)
  <2>1. CASE row' = [row EXCEPT ![n] = tx[n].row] /\ tx[n] # NoTx /\ tx' = [tx EXCEPT ![n] = NoTx] /\ UNCHANGED <<now, texts>>
    <3>1. tx[n].row \in Rows /\ tx[n].row.ver > row[n].ver /\ tx[n].row.st \in {"live", "trash"}
      BY <2>1 DEF RowsSound
    <3>2. RowsSound'
      BY <2>1, <3>1, Writes
    <3>. QED
      BY <2>1, <3>1, <3>2 DEF RowStep, Succeeds
  <2>2. CASE Rollback(n)
    <3>1. CASE row' = row
      <4>1. row' = [row EXCEPT ![n] = row[n]] /\ row[n] \in Rows
        BY <1>1, <3>1 DEF RowsSound
      <4>2. RowsSound'
        BY <2>2, <4>1, Writes DEF Rollback
      <4>. QED
        BY <3>1, <4>2 DEF RowStep
    <3>2. CASE Later(n) /\ row' = [row EXCEPT ![n] = Touched(Refunded(row[n]))] /\ row[n].st \in {"live", "trash"}
      <4>1. Refunded(row[n]) \in Rows /\ Refunded(row[n]).st \in {"live", "trash"}
        BY <1>1, <3>2, RefundType
      <4>. QED
        BY <1>7, <2>2, <3>2, <4>1 DEF Rollback
    <3>3. tx[n].by = "writer" => row[n].st \in {"live", "trash"}
      BY <2>2 DEF Rollback, RowsSound
    <3>. QED
      BY <2>2, <3>1, <3>2, <3>3 DEF Rollback
  <2>. QED
    BY <1>8, <2>1, <2>2 DEF Commit, AnswerLost
<1>9. ASSUME NEW p \in Pages, Page(p)
      PROVE  RowsSound' /\ \E n \in Notes : RowStep(n)
  <2>1. page[p] \in PageStates /\ page[p].draft \in Nat
    BY DEF ActorsSound, PagesSound, PageStates
  <2>2. CASE Refresh(p) \/ EditText(p) \/ Cancel(p) \/ \E n \in Notes : GetMeeting(p, n)
    <3>1. texts' \in Nat /\ UNCHANGED <<row, tx, now>>
      BY <1>1, <1>2, <2>2 DEF Refresh, EditText, Cancel, GetMeeting
    <3>. QED
      BY <1>1, <1>3, <3>1
  <2>3. CASE SaveNoteBody(p)
    <3> DEFINE n == page[p].at
    <3>1. n \in Notes
      BY <2>1, <2>3 DEF SaveNoteBody, ActorsSound, PagesSound, PageStates
    <3>2. CASE UNCHANGED tx
      BY <1>1, <1>3, <2>3, <3>2 DEF SaveNoteBody
    <3>3. CASE Live(n) /\ Begin(n, p, [row[n] EXCEPT !.body = page[p].draft, !.prev = row[n].body, !.edited = now])
      <4>1. row[n].body \in Nat /\ UNCHANGED <<row, now, texts>>
        BY <1>1, <2>3, <3>1 DEF Rows, SaveNoteBody
      <4>2. row[n].st \in {"live", "trash"} /\ texts' \in Nat
        BY <1>1, <3>3, <4>1 DEF Live
      <4>. QED
        BY <1>1, <1>5, <2>1, <3>1, <3>3, <4>1, <4>2
    <3>. QED
      BY <2>3, <3>2, <3>3 DEF SaveNoteBody
  <2>4. CASE RestorePreviousBody(p)
    <3> DEFINE n == page[p].at
    <3>1. n \in Notes /\ Live(n) /\ UNCHANGED <<row, now, texts>>
      BY <2>1, <2>4 DEF RestorePreviousBody, PageStates
    <3>2. row[n].body \in Nat /\ row[n].prev \in Nat
      BY <1>1, <3>1 DEF Rows
    <3>3. row[n].st \in {"live", "trash"} /\ texts' \in Nat
      BY <1>1, <3>1 DEF Live
    <3>4. Begin(n, p, [row[n] EXCEPT !.body = row[n].prev, !.prev = row[n].body, !.edited = now])
      BY <2>4 DEF RestorePreviousBody
    <3>. QED
      BY <1>1, <1>5, <3>1, <3>2, <3>3, <3>4
  <2>. QED
    BY <1>9, <2>2, <2>3, <2>4 DEF Page
<1>10. ASSUME NEW w \in Writers, Writer(w)
       PROVE  RowsSound' /\ \E n \in Notes : RowStep(n)
  <2> DEFINE n == job[w].at
  <2>1. job[w] \in Rewrites /\ (job[w].pc # "idle" => n \in Notes /\ row[n].st # "none")
    BY DEF ActorsSound, JobsSound, Rewrites
  <2>2. CASE Summarized(w) \/ \E m \in Notes : RegenerateReads(w, m)
    BY <1>1, <1>3, <2>2 DEF Summarized, RegenerateReads
  <2>3. CASE Claim(w)
    <3>1. n \in Notes /\ row[n].st # "none" /\ UNCHANGED <<tx, now, texts>> /\ Free(n)
      BY <2>1, <2>3 DEF Claim
    <3>2. CASE UNCHANGED row
      BY <1>1, <1>3, <3>1, <3>2
    <3>3. CASE /\ row[n].st # "gone" /\ row[n].regens < MaxRegens
               /\ row' = [row EXCEPT ![n] = Touched(Counted(row[n]))]
      <4>0. row[n].regens + 1 \in 0 .. MaxRegens
        BY <1>1, <3>1, <3>3, NotesAssumption DEF Rows
      <4>1. Counted(row[n]) \in Rows /\ Counted(row[n]).st = row[n].st
        BY <1>1, <3>1, <4>0 DEF Rows, Counted
      <4>3. row[n].st \in {"live", "trash"} /\ Later(n)
        BY <1>1, <2>3, <3>1, <3>3 DEF Claim, Rows
      <4>. QED
        BY <1>7, <3>1, <3>3, <4>1, <4>3
    <3>. QED
      BY <2>3, <3>2, <3>3 DEF Claim
  \* The claim is given back, unless the note is gone.
  <2>4. ASSUME n \in Notes, row[n].st # "none", UNCHANGED <<tx, now, texts>>, Free(n), row[n].st # "gone" => Later(n),
               row' = [row EXCEPT ![n] = IF @.st = "gone" THEN @ ELSE Touched(Refunded(@))]
        PROVE  RowsSound' /\ \E m \in Notes : RowStep(m)
    <3>1. CASE row[n].st = "gone"
      <4>1. row' = row
        BY <2>4, <3>1 DEF RowsSound
      <4>. QED
        BY <1>1, <1>3, <2>4, <4>1
    <3>2. CASE row[n].st # "gone"
      <4>1. Refunded(row[n]) \in Rows /\ Refunded(row[n]).st \in {"live", "trash"}
        BY <1>1, <2>4, <3>2, RefundType DEF Rows
      <4>2. row' = [row EXCEPT ![n] = Touched(Refunded(row[n]))] /\ Later(n)
        BY <2>4, <3>2
      <4>. QED
        BY <1>7, <2>4, <4>1, <4>2
    <3>. QED
      BY <3>1, <3>2
  <2>5. CASE SummarizeFails(w)
    BY <2>1, <2>4, <2>5 DEF SummarizeFails
  <2>6. CASE RegenerateCommits(w)
    <3>1. n \in Notes /\ row[n].st # "none" /\ Free(n) /\ now' = now
      BY <2>1, <2>6 DEF RegenerateCommits
    <3>2. CASE /\ row[n].st # "gone" /\ NewText /\ UNCHANGED row
               /\ Begin(n, "writer", [row[n] EXCEPT !.body = texts + 1, !.prev = row[n].body, !.edited = 0])
      <4>1. row[n].body \in Nat /\ texts + 1 \in Nat /\ row[n].st \in {"live", "trash"}
        BY <1>1, <3>1, <3>2 DEF Rows
      <4>2. texts' \in Nat /\ UNCHANGED <<row, now>> /\ 0 \in Nat
        BY <1>2, <3>1, <3>2
      <4>. QED
        BY <1>5, <3>1, <3>2, <4>1, <4>2
    <3>3. CASE /\ row[n].st # "gone" => Later(n)
               /\ row' = [row EXCEPT ![n] = IF @.st = "gone" THEN @ ELSE Touched(Refunded(@))]
               /\ UNCHANGED <<tx, texts>>
      BY <2>4, <3>1, <3>3
    <3>. QED
      BY <2>6, <3>2, <3>3 DEF RegenerateCommits
  <2>. QED
    BY <1>10, <2>2, <2>3, <2>5, <2>6 DEF Writer
<1>11. CASE CreateShare \/ ShareInserted \/ RevokeShare \/ PullStarts \/ PullLists \/ PullReads
  BY <1>1, <1>3, <1>11 DEF CreateShare, ShareInserted, RevokeShare, PullStarts, PullLists, PullReads
<1>12. ASSUME NEW n \in Notes, EditOnDesktop(n) \/ Push(n)
       PROVE  RowsSound' /\ \E m \in Notes : RowStep(m)
  <2>1. CASE EditOnDesktop(n)
    BY <1>1, <1>2, <1>3, <2>1 DEF EditOnDesktop
  <2>2. CASE Push(n) /\ UNCHANGED tx
    BY <1>1, <1>3, <2>2 DEF Push
  <2>3. CASE Push(n) /\ ~UNCHANGED tx
    <3>1. /\ PushAccepted(n) /\ UNCHANGED <<row, now, texts>>
          /\ Begin(n, "desktop", IF Live(n) THEN [row[n] EXCEPT !.body = desk[n].body]
                                   ELSE [Unknown EXCEPT !.st = "live", !.body = desk[n].body])
      BY <2>3 DEF Push
    <3>2. desk[n].body \in Nat
      BY DEF ActorsSound, DesksSound
    <3>3. CASE Live(n)
      <4>1. Begin(n, "desktop", [row[n] EXCEPT !.body = desk[n].body]) /\ row[n].st \in {"live", "trash"} /\ texts' \in Nat
        BY <1>1, <3>1, <3>3 DEF Live
      <4>. QED
        BY <1>6, <3>1, <3>2, <4>1
    <3>4. CASE ~Live(n)
      <4> DEFINE new == [Unknown EXCEPT !.st = "live", !.body = desk[n].body]
      <4>0. 0 \in 0 .. MaxRegens
        BY NotesAssumption
      <4>1. new \in Rows /\ new.st = "live"
        BY <3>2, <4>0 DEF Rows, Unknown
      <4>2. row[n].ver < now
        BY <3>1, <3>4 DEF PushAccepted, RowsSound, Live
      <4>3. Begin(n, "desktop", new)
        BY <3>1, <3>4
      <4> HIDE DEF new
      <4>4. RowsSound'
        BY <1>1, <3>1, <4>1, <4>2, <4>3, Begins
      <4>. QED
        BY <3>1, <4>4 DEF RowStep
    <3>. QED
      BY <3>3, <3>4
  <2>. QED
    BY <1>12, <2>1, <2>2, <2>3
<1>13. ASSUME NEW n \in Notes, RenameMeeting(n) \/ RenameSpeaker(n) \/ \E changed \in BOOLEAN : UpdateActionItem(n, changed)
       PROVE  RowsSound' /\ \E m \in Notes : RowStep(m)
  <2>1. texts + 1 \in Nat
    BY <1>1
  <2>3. CASE UNCHANGED <<tx, texts>>
    BY <1>1, <1>3, <1>13, <2>3 DEF RenameMeeting, RenameSpeaker, UpdateActionItem
  <2>4. CASE ~UNCHANGED <<tx, texts>>
    <3>1. Live(n) /\ texts' \in Nat /\ UNCHANGED <<row, now>>
      BY <1>2, <1>13, <2>1, <2>4 DEF RenameMeeting, RenameSpeaker, UpdateActionItem
    <3>2. Begin(n, "other", row[n]) \/ Begin(n, "other", [row[n] EXCEPT !.body = texts + 1])
      BY <1>13, <2>4 DEF RenameMeeting, RenameSpeaker, UpdateActionItem
    <3>3. row[n].st \in {"live", "trash"}
      BY <3>1 DEF Live
    <3>4. CASE Begin(n, "other", row[n])
      BY <1>1, <1>4, <3>1, <3>3, <3>4
    <3>5. CASE Begin(n, "other", [row[n] EXCEPT !.body = texts + 1])
      BY <1>6, <2>1, <3>1, <3>3, <3>5
    <3>. QED
      BY <3>2, <3>4, <3>5
  <2>. QED
    BY <2>3, <2>4
<1>14. ASSUME NEW n \in Notes, TrashNote(n) \/ RestoreFromTrash(n)
       PROVE  RowsSound' /\ \E m \in Notes : RowStep(m)
  <2>1. PICK st \in {"live", "trash"} : row' = [row EXCEPT ![n] = Touched([row[n] EXCEPT !.st = st])]
    BY <1>14 DEF TrashNote, RestoreFromTrash
  <2>2. [row[n] EXCEPT !.st = st] \in Rows /\ [row[n] EXCEPT !.st = st].st = st
    BY <1>1 DEF Rows
  <2>. QED
    BY <1>7, <1>14, <2>1, <2>2 DEF TrashNote, RestoreFromTrash
<1>15. ASSUME NEW n \in Notes, DeleteMeeting(n)
       PROVE  RowsSound' /\ \E m \in Notes : RowStep(m)
  <2> DEFINE r == [row[n] EXCEPT !.st = "gone"]
  <2>1. r \in Rows /\ r.ver = row[n].ver /\ r.body = row[n].body /\ r.st = "gone"
    BY <1>1, Stamped
  <2>2. row' = [row EXCEPT ![n] = r] /\ tx' = tx /\ tx[n] = NoTx /\ UNCHANGED <<now, texts>> /\ row[n].ver < now
    BY <1>1, <1>15 DEF DeleteMeeting, Free, Later
  <2> HIDE DEF r
  <2>3. RowsSound'
    BY <2>1, <2>2, Writes
  <2>. QED
    BY <2>1, <2>2, <2>3 DEF RowStep, Succeeds
<1>16. CASE Tick \/ UNCHANGED vars
  BY <1>1, <1>3, <1>16 DEF Tick, vars
<1>. QED
  BY <1>8, <1>9, <1>10, <1>11, <1>12, <1>13, <1>14, <1>15, <1>16 DEF Next

-----------------------------------------------------------------------------
(* The pages, the rewrites and the desktop *)

\* Every step keeps the pages sound.
LEMMA PagesStep ==
  ASSUME RowsSound, RowsSound', ActorsSound, [Next]_vars
  PROVE  PagesSound'
<1>0. \A n \in Notes : n # 0
  BY NotesAssumption DEF Notes
<1>1. texts \in Nat /\ texts + 1 \in Nat /\ \A n \in Notes : row[n].ver \in Nat /\ row[n].body \in Nat
  BY DEF RowsSound, Rows
<1>2. page \in [Pages -> PageStates] /\ \A p \in Pages : page[p].mode # "read" => page[p].at # 0
  BY DEF ActorsSound, PagesSound
<1>3. ASSUME page' = page
      PROVE  PagesSound'
  BY <1>2, <1>3 DEF PagesSound
\* One page becomes another state of the same kind.
<1>4. ASSUME NEW p \in Pages, NEW s \in PageStates, page' = [page EXCEPT ![p] = s], s.mode # "read" => s.at # 0
      PROVE  PagesSound'
  BY <1>2, <1>4 DEF PagesSound
<1>5. ASSUME NEW p \in Pages, NEW v \in Nat, NEW t \in Nat
      PROVE  /\ [page[p] EXCEPT !.ver = v, !.shown = t] \in PageStates
             /\ [page[p] EXCEPT !.ver = v, !.shown = t].mode = page[p].mode
             /\ [page[p] EXCEPT !.ver = v, !.shown = t].at = page[p].at
  BY <1>2, <1>5 DEF PageStates
<1>6. ASSUME NEW p \in Pages, NEW k \in {"read", "edit", "saving"}
      PROVE  /\ [page[p] EXCEPT !.mode = k] \in PageStates
             /\ [page[p] EXCEPT !.mode = k].mode = k
             /\ [page[p] EXCEPT !.mode = k].at = page[p].at
  BY <1>2, <1>6 DEF PageStates
<1>7. ASSUME NEW n \in Notes, Commit(n)
      PROVE  PagesSound'
  <2>1. tx[n].row.ver \in Nat /\ tx[n].row.body \in Nat
    BY <1>7 DEF Commit, RowsSound, Rows
  <2>2. ASSUME NEW p \in Pages
        PROVE  page'[p] \in PageStates /\ (page'[p].mode # "read" => page'[p].at # 0)
    <3>1. CASE tx[n].by = p /\ page[p].at = n
      <4>1. page'[p] = [page[p] EXCEPT !.mode = IF page[p].mode = "saving" THEN "read" ELSE page[p].mode,
                                       !.ver = tx[n].row.ver, !.shown = tx[n].row.body]
        BY <1>7, <2>2, <3>1 DEF Commit
      <4>2. page[p] \in PageStates /\ n # 0
        BY <1>0, <1>2, <2>2
      <4>. QED
        BY <2>1, <3>1, <4>1, <4>2 DEF PageStates
    <3>2. CASE ~(tx[n].by = p /\ page[p].at = n)
      BY <1>2, <1>7, <2>2, <3>2 DEF Commit
    <3>. QED
      BY <3>1, <3>2
  <2>3. page' = [p \in Pages |-> page'[p]]
    BY <1>7 DEF Commit
  <2>. QED
    BY <2>2, <2>3 DEF PagesSound
<1>8. ASSUME NEW n \in Notes, page' = Reopened(n)
      PROVE  PagesSound'
  <2>1. ASSUME NEW p \in Pages
        PROVE  page'[p] \in PageStates /\ (page'[p].mode # "read" => page'[p].at # 0)
    BY <1>2, <1>6, <1>8, <2>1 DEF Reopened
  <2>2. page' = [p \in Pages |-> page'[p]]
    BY <1>8 DEF Reopened
  <2>. QED
    BY <2>1, <2>2 DEF PagesSound
<1>9. ASSUME NEW p \in Pages, Page(p)
      PROVE  PagesSound'
  <2>1. page[p] \in PageStates /\ page[p].shown \in Nat
    BY <1>2 DEF PageStates
  <2>2. CASE Refresh(p)
    <3> DEFINE n == page[p].at
    <3>1. n \in Notes
      BY <2>1, <2>2 DEF Refresh, PageStates
    <3> DEFINE s == [page[p] EXCEPT !.ver = row[n].ver, !.shown = row[n].body]
    <3>2. page' = [page EXCEPT ![p] = s]
      BY <1>2, <2>2 DEF Refresh
    <3>3. s \in PageStates /\ s.mode = page[p].mode /\ s.at = page[p].at
      BY <1>1, <1>5, <3>1
    <3> HIDE DEF s
    <3>. QED
      BY <1>2, <1>4, <3>2, <3>3
  <2>3. CASE EditText(p)
    <3> DEFINE s == [page[p] EXCEPT !.mode = "edit", !.base = page[p].shown, !.draft = texts + 1]
    <3>0. page[p].shown \in Nat /\ texts + 1 \in Nat /\ "edit" \in {"read", "edit", "saving"}
      BY <1>1, <2>1
    <3>1. s \in PageStates /\ s.at = page[p].at
      BY <2>1, <3>0 DEF PageStates
    <3>2. page' = [page EXCEPT ![p] = s] /\ page[p].at # 0
      BY <2>3 DEF EditText
    <3> HIDE DEF s
    <3>. QED
      BY <1>4, <3>1, <3>2
  <2>4. CASE Cancel(p)
    <3>1. page' = [page EXCEPT ![p] = [page[p] EXCEPT !.mode = "read"]]
      BY <2>4 DEF Cancel
    <3>. QED
      BY <1>4, <1>6, <3>1
  <2>5. CASE SaveNoteBody(p)
    <3>1. \E k \in {"read", "edit", "saving"} : page' = [page EXCEPT ![p].mode = k]
      BY <2>5 DEF SaveNoteBody
    <3>2. PICK k \in {"read", "edit", "saving"} : page' = [page EXCEPT ![p] = [page[p] EXCEPT !.mode = k]]
      BY <3>1
    <3>3. page[p].at # 0
      BY <1>2, <2>5 DEF SaveNoteBody
    <3>. QED
      BY <1>4, <1>6, <3>2, <3>3
  <2>6. CASE RestorePreviousBody(p)
    BY <1>3, <2>6 DEF RestorePreviousBody
  <2>7. ASSUME NEW n \in Notes, GetMeeting(p, n)
        PROVE  PagesSound'
    <3> DEFINE s == [page[p] EXCEPT !.at = n, !.ver = row[n].ver, !.shown = row[n].body]
    <3>0. n # 0 /\ n \in Notes \cup {0} /\ row[n].ver \in Nat /\ row[n].body \in Nat
      BY <1>0, <1>1, <2>7
    <3>1. s \in PageStates /\ s.at # 0
      BY <2>1, <3>0 DEF PageStates
    <3>2. page' = [page EXCEPT ![p] = s]
      BY <2>7 DEF GetMeeting
    <3> HIDE DEF s
    <3>. QED
      BY <1>4, <3>1, <3>2
  <2>. QED
    BY <1>9, <2>2, <2>3, <2>4, <2>5, <2>6, <2>7 DEF Page
<1>10. CASE \E n \in Notes : Commit(n) \/ Rollback(n) \/ AnswerLost(n)
  BY <1>7, <1>8, <1>10 DEF Rollback, AnswerLost
<1>11. CASE \E w \in Writers : Writer(w)
  BY <1>3, <1>11 DEF Writer, Claim, SummarizeFails, Summarized, RegenerateCommits, RegenerateReads
<1>12. CASE CreateShare \/ ShareInserted \/ RevokeShare \/ PullStarts \/ PullLists \/ PullReads
              \/ \E n \in Notes : EditOnDesktop(n) \/ Push(n)
  BY <1>3, <1>12 DEF CreateShare, ShareInserted, RevokeShare, PullStarts, PullLists, PullReads, EditOnDesktop, Push
<1>13. CASE \E n \in Notes : \/ RenameMeeting(n) \/ RenameSpeaker(n) \/ TrashNote(n) \/ RestoreFromTrash(n) \/ DeleteMeeting(n)
                            \/ \E changed \in BOOLEAN : UpdateActionItem(n, changed)
  BY <1>3, <1>13 DEF RenameMeeting, RenameSpeaker, TrashNote, RestoreFromTrash, DeleteMeeting, UpdateActionItem
<1>14. CASE Tick \/ UNCHANGED vars
  BY <1>3, <1>14 DEF Tick, vars
<1>. QED
  BY <1>9, <1>10, <1>11, <1>12, <1>13, <1>14 DEF Next

\* Every step keeps the rewrites sound: the note they are about has been there.
LEMMA JobsStep ==
  ASSUME RowsSound, ActorsSound, [Next]_vars, NEW m \in Notes, RowStep(m)
  PROVE  JobsSound'
<1>0. \A n \in Notes : n # 0 /\ (row[n].st # "none" => row'[n].st # "none")
  BY RowStepKeeps, NotesAssumption DEF Notes
<1>1. job \in [Writers -> Rewrites] /\ \A w \in Writers : job[w].pc # "idle" => job[w].at # 0 /\ row[job[w].at].st # "none"
  BY DEF ActorsSound, JobsSound
<1>2. \A w \in Writers : job[w].at \in Notes \cup {0}
  BY <1>1 DEF Rewrites
<1>3. ASSUME job' = job
      PROVE  JobsSound'
  BY <1>0, <1>1, <1>2, <1>3 DEF JobsSound
<1>4. ASSUME NEW w \in Writers, NEW s \in Rewrites, job' = [job EXCEPT ![w] = s],
             s.pc # "idle" => s.at \in Notes /\ row[s.at].st # "none"
      PROVE  JobsSound'
  <2>1. job' \in [Writers -> Rewrites] /\ job'[w] = s /\ \A v \in Writers \ {w} : job'[v] = job[v]
    BY <1>1, <1>4
  <2>2. \A v \in Writers : job'[v].pc # "idle" => job'[v].at # 0 /\ row'[job'[v].at].st # "none"
    BY <1>0, <1>1, <1>2, <1>4, <2>1
  <2>. QED
    BY <2>1, <2>2 DEF JobsSound
<1>5. ASSUME NEW w \in Writers, NEW k \in {"claimed", "written"}, job' = [job EXCEPT ![w].pc = k], job[w].pc # "idle"
      PROVE  JobsSound'
  <2> DEFINE s == [job[w] EXCEPT !.pc = k]
  <2>1. s \in Rewrites /\ s.at = job[w].at
    BY <1>1, <1>5 DEF Rewrites
  <2>2. job' = [job EXCEPT ![w] = s]
    BY <1>5
  <2> HIDE DEF s
  <2>. QED
    BY <1>1, <1>2, <1>4, <1>5, <2>1, <2>2
<1>6. ASSUME NEW w \in Writers, job' = [job EXCEPT ![w] = NoJob]
      PROVE  JobsSound'
  <2>1. NoJob \in Rewrites /\ NoJob.pc = "idle"
    BY DEF NoJob, Rewrites
  <2>. QED
    BY <1>4, <1>6, <2>1
<1>7. ASSUME NEW w \in Writers, NEW n \in Notes, RegenerateReads(w, n)
      PROVE  JobsSound'
  <2> DEFINE s == [pc |-> "read", at |-> n, body |-> row[n].body, edited |-> row[n].edited]
  <2>1. s \in Rewrites /\ s.at = n
    BY <1>7 DEF Rewrites, RowsSound, Rows
  <2>2. job' = [job EXCEPT ![w] = s] /\ row[n].st # "none"
    BY <1>7 DEF RegenerateReads, Live
  <2> HIDE DEF s
  <2>. QED
    BY <1>4, <1>7, <2>1, <2>2
<1>8. ASSUME NEW w \in Writers, Writer(w)
      PROVE  JobsSound'
  <2>1. CASE Claim(w)
    BY <1>5, <1>6, <2>1 DEF Claim
  <2>2. CASE SummarizeFails(w)
    BY <1>6, <2>2 DEF SummarizeFails
  <2>3. CASE Summarized(w)
    BY <1>5, <2>3 DEF Summarized
  <2>4. CASE RegenerateCommits(w)
    BY <1>6, <2>4 DEF RegenerateCommits
  <2>. QED
    BY <1>7, <1>8, <2>1, <2>2, <2>3, <2>4 DEF Writer
<1>9. CASE \E n \in Notes : Commit(n) \/ Rollback(n) \/ AnswerLost(n)
  BY <1>3, <1>9 DEF Commit, Rollback, AnswerLost
<1>10. CASE \E p \in Pages : Page(p)
  BY <1>3, <1>10 DEF Page, Refresh, EditText, Cancel, SaveNoteBody, RestorePreviousBody, GetMeeting
<1>11. CASE CreateShare \/ ShareInserted \/ RevokeShare \/ PullStarts \/ PullLists \/ PullReads
              \/ \E n \in Notes : EditOnDesktop(n) \/ Push(n)
  BY <1>3, <1>11 DEF CreateShare, ShareInserted, RevokeShare, PullStarts, PullLists, PullReads, EditOnDesktop, Push
<1>12. CASE \E n \in Notes : \/ RenameMeeting(n) \/ RenameSpeaker(n) \/ TrashNote(n) \/ RestoreFromTrash(n) \/ DeleteMeeting(n)
                            \/ \E changed \in BOOLEAN : UpdateActionItem(n, changed)
  BY <1>3, <1>12 DEF RenameMeeting, RenameSpeaker, TrashNote, RestoreFromTrash, DeleteMeeting, UpdateActionItem
<1>13. CASE Tick \/ UNCHANGED vars
  BY <1>3, <1>13 DEF Tick, vars
<1>. QED
  BY <1>8, <1>9, <1>10, <1>11, <1>12, <1>13 DEF Next

\* What the desktop may do to its copies: keep them, take over the row, or the version
\* of what it pushed; a new text of its own has the version that it began from.
LEMMA DesksStep ==
  ASSUME RowsSound, ActorsSound, VersionsNameTexts, [Next]_vars, NEW m \in Notes, RowStep(m)
  PROVE  DesksSound' /\ \A n \in Notes : Holds(desk[n].ver, desk[n].base, n)'
<1> DEFINE Copies == [ver : Nat, base : Nat, body : Nat]
<1>0. \A n \in Notes, v \in Nat, t \in Nat : Holds(v, t, n) => Holds(v, t, n)'
  BY RowStepKeeps
<1>1. desk \in [Notes -> Copies] /\ \A n \in Notes : Holds(desk[n].ver, desk[n].base, n)
  BY DEF ActorsSound, DesksSound, VersionsNameTexts
<1>2. \A n \in Notes : row[n].ver \in Nat /\ row[n].body \in Nat /\ Holds(row[n].ver, row[n].body, n)
  BY DEF RowsSound, Rows, Holds
<1>3. texts \in Nat /\ texts + 1 \in Nat
  BY DEF RowsSound
<1>4. ASSUME desk' = desk
      PROVE  DesksSound' /\ \A n \in Notes : Holds(desk[n].ver, desk[n].base, n)'
  <2>1. \A n \in Notes : desk[n].ver \in Nat /\ desk[n].base \in Nat
    BY <1>1
  <2>2. ASSUME NEW n \in Notes
        PROVE  Holds(desk[n].ver, desk[n].base, n)'
    <3>1. /\ desk[n].ver <= row'[n].ver
          /\ desk[n].ver = row'[n].ver => desk[n].base = row'[n].body
      BY <1>0, <1>1, <2>1, <2>2 DEF Holds
    <3>. QED
      BY <1>4, <3>1 DEF Holds
  <2>. QED
    BY <1>1, <1>4, <2>2 DEF DesksSound
<1>5. ASSUME NEW n \in Notes, NEW c \in Copies, desk' = [desk EXCEPT ![n] = c],
             c.ver <= row'[n].ver, c.ver = row'[n].ver => c.base = row'[n].body
      PROVE  DesksSound' /\ \A k \in Notes : Holds(desk[k].ver, desk[k].base, k)'
  <2>1. desk' \in [Notes -> Copies] /\ desk'[n] = c /\ \A k \in Notes \ {n} : desk'[k] = desk[k]
    BY <1>1, <1>5
  <2>2. ASSUME NEW k \in Notes
        PROVE  Holds(desk[k].ver, desk[k].base, k)'
    <3>1. CASE k = n
      BY <1>5, <2>1, <3>1 DEF Holds
    <3>2. CASE k # n
      <4>1. desk'[k] = desk[k] /\ desk[k].ver \in Nat /\ desk[k].base \in Nat
        BY <1>1, <2>1, <2>2, <3>2
      <4>2. /\ desk[k].ver <= row'[k].ver
            /\ desk[k].ver = row'[k].ver => desk[k].base = row'[k].body
        BY <1>0, <1>1, <2>2, <4>1 DEF Holds
      <4>. QED
        BY <4>1, <4>2 DEF Holds
    <3>. QED
      BY <3>1, <3>2
  <2>. QED
    BY <2>1, <2>2 DEF DesksSound
<1>6. ASSUME NEW n \in Notes, Commit(n)
      PROVE  DesksSound' /\ \A k \in Notes : Holds(desk[k].ver, desk[k].base, k)'
  <2>1. tx[n].row.ver \in Nat /\ tx[n].row.body \in Nat
    BY <1>6 DEF Commit, RowsSound, Rows
  <2>2. row'[n] = tx[n].row
    BY <1>6 DEF Commit, RowsSound
  <2>3. CASE tx[n].by = "desktop"
    <3> DEFINE c == [desk[n] EXCEPT !.ver = tx[n].row.ver, !.base = tx[n].row.body]
    <3>1. desk' = [desk EXCEPT ![n] = c]
      BY <1>1, <1>6, <2>3 DEF Commit
    <3>2. c \in Copies /\ c.ver = tx[n].row.ver /\ c.base = tx[n].row.body
      BY <1>1, <1>6, <2>1
    <3>3. c.ver <= row'[n].ver /\ (c.ver = row'[n].ver => c.base = row'[n].body)
      BY <2>1, <2>2, <3>2
    <3> HIDE DEF c, Copies
    <3>. QED
      BY <1>5, <1>6, <3>1, <3>2, <3>3
  <2>4. CASE tx[n].by # "desktop"
    BY <1>4, <1>6, <2>4 DEF Commit
  <2>. QED
    BY <2>3, <2>4
<1>7. ASSUME PullReads
      PROVE  DesksSound' /\ \A k \in Notes : Holds(desk[k].ver, desk[k].base, k)'
  <2>1. /\ desk' = [n \in Notes |-> desk'[n]] /\ row' = row
        /\ \A n \in Notes : \/ desk'[n] = desk[n]
                           \/ desk'[n] = [ver |-> row[n].ver, base |-> row[n].body, body |-> row[n].body]
    BY <1>7 DEF PullReads
  <2>2. ASSUME NEW n \in Notes
        PROVE  desk'[n] \in Copies /\ Holds(desk[n].ver, desk[n].base, n)'
    BY <1>1, <1>2, <2>1, <2>2 DEF Holds
  <2>. QED
    BY <2>1, <2>2 DEF DesksSound
<1>8. ASSUME NEW n \in Notes, EditOnDesktop(n)
      PROVE  DesksSound' /\ \A k \in Notes : Holds(desk[k].ver, desk[k].base, k)'
  <2>1. desk' = [desk EXCEPT ![n].body = texts + 1] /\ row' = row /\ desk[n] \in Copies
    BY <1>1, <1>8 DEF EditOnDesktop
  <2> DEFINE c == [desk[n] EXCEPT !.body = texts + 1]
  <2>2. desk' = [desk EXCEPT ![n] = c]
    BY <1>1, <2>1
  <2>3. c \in Copies /\ c.ver = desk[n].ver /\ c.base = desk[n].base
    BY <1>3, <2>1
  <2>4. c.ver <= row'[n].ver /\ (c.ver = row'[n].ver => c.base = row'[n].body)
    BY <1>1, <1>8, <2>1, <2>3 DEF Holds
  <2> HIDE DEF c, Copies
  <2>. QED
    BY <1>5, <1>8, <2>2, <2>3, <2>4
<1>9. ASSUME NEW n \in Notes, Push(n)
      PROVE  DesksSound' /\ \A k \in Notes : Holds(desk[k].ver, desk[k].base, k)'
  <2>1. CASE desk' = desk
    BY <1>4, <2>1
  <2>2. CASE desk' # desk
    <3>1. desk' = [desk EXCEPT ![n].ver = row[n].ver, ![n].base = desk[n].body] /\ row' = row /\ desk[n] \in Copies
          /\ row[n].body = desk[n].body
      BY <1>1, <1>9, <2>2 DEF Push
    <3> DEFINE c == [desk[n] EXCEPT !.ver = row[n].ver, !.base = desk[n].body]
    <3>2. desk' = [desk EXCEPT ![n] = c]
      BY <1>1, <3>1
    <3>3. c \in Copies /\ c.ver = row[n].ver /\ c.base = desk[n].body
      BY <1>2, <1>9, <3>1
    <3>4. c.ver <= row'[n].ver /\ (c.ver = row'[n].ver => c.base = row'[n].body)
      BY <1>2, <1>9, <3>1, <3>3
    <3> HIDE DEF c, Copies
    <3>. QED
      BY <1>5, <1>9, <3>2, <3>3, <3>4
  <2>. QED
    BY <2>1, <2>2
<1>10. CASE \E n \in Notes : Rollback(n) \/ AnswerLost(n)
  BY <1>4, <1>10 DEF Rollback, AnswerLost
<1>11. CASE \E p \in Pages : Page(p)
  BY <1>4, <1>11 DEF Page, Refresh, EditText, Cancel, SaveNoteBody, RestorePreviousBody, GetMeeting
<1>12. CASE \E w \in Writers : Writer(w)
  BY <1>4, <1>12 DEF Writer, Claim, SummarizeFails, Summarized, RegenerateCommits, RegenerateReads
<1>13. CASE CreateShare \/ ShareInserted \/ RevokeShare \/ PullStarts \/ PullLists
  BY <1>4, <1>13 DEF CreateShare, ShareInserted, RevokeShare, PullStarts, PullLists
<1>14. CASE \E n \in Notes : \/ RenameMeeting(n) \/ RenameSpeaker(n) \/ TrashNote(n) \/ RestoreFromTrash(n) \/ DeleteMeeting(n)
                            \/ \E changed \in BOOLEAN : UpdateActionItem(n, changed)
  BY <1>4, <1>14 DEF RenameMeeting, RenameSpeaker, TrashNote, RestoreFromTrash, DeleteMeeting, UpdateActionItem
<1>15. CASE Tick \/ UNCHANGED vars
  BY <1>4, <1>15 DEF Tick, vars
<1>. QED
  BY <1>6, <1>7, <1>8, <1>9, <1>10, <1>11, <1>12, <1>13, <1>14, <1>15 DEF Next

-----------------------------------------------------------------------------
(* Versions name texts *)

\* What a page shows has its version; a draft began from what the page shows.
Faithful(p) ==
  /\ page[p].at # 0 => Holds(page[p].ver, page[p].shown, page[p].at)
  /\ page[p].mode # "read" /\ p \notin slipped => page[p].base = page[p].shown

\* Every step keeps the pages faithful to the rows.
LEMMA PagesFaithful ==
  ASSUME RowsSound, ActorsSound, VersionsNameTexts, [Next]_vars, NEW m \in Notes, RowStep(m)
  PROVE  \A p \in Pages : Faithful(p)'
<1>0. \A n \in Notes : n # 0
  BY NotesAssumption DEF Notes
<1>1. \A n \in Notes, v \in Nat, t \in Nat : Holds(v, t, n) => Holds(v, t, n)'
  BY RowStepKeeps
<1>2. page \in [Pages -> PageStates] /\ \A p \in Pages : page[p].mode # "read" => page[p].at # 0
  BY DEF ActorsSound, PagesSound
<1>3. \A p \in Pages : Faithful(p)
  BY DEF VersionsNameTexts, Faithful
<1>4. \A p \in Pages : page[p].ver \in Nat /\ page[p].shown \in Nat /\ page[p].at \in Notes \cup {0}
  BY <1>2 DEF PageStates
<1>5. \A n \in Notes : row[n].ver \in Nat
  BY DEF RowsSound, Rows
\* A page that keeps its note, version, text and base.
<1>6. ASSUME NEW p \in Pages, page'[p].at = page[p].at, page'[p].ver = page[p].ver, page'[p].shown = page[p].shown,
             page'[p].base = page[p].base, page'[p].mode # "read" => page[p].mode # "read",
             p \in slipped => p \in slipped'
      PROVE  Faithful(p)'
  <2>1. ASSUME page'[p].at # 0
        PROVE  Holds(page[p].ver, page[p].shown, page[p].at)'
    <3>1. page[p].at \in Notes /\ Holds(page[p].ver, page[p].shown, page[p].at)
      BY <1>3, <1>4, <1>6, <2>1 DEF Faithful
    <3>2. /\ page[p].ver <= row'[page[p].at].ver
          /\ page[p].ver = row'[page[p].at].ver => page[p].shown = row'[page[p].at].body
      BY <1>1, <1>4, <1>6, <3>1 DEF Holds
    <3>. QED
      BY <1>6, <3>2 DEF Holds
  <2>. QED
    BY <1>3, <1>6, <2>1 DEF Faithful
<1>7. ASSUME page' = page, slipped' = slipped
      PROVE  \A p \in Pages : Faithful(p)'
  BY <1>6, <1>7
\* A page that takes over the row: a draft it has slips.
<1>8. ASSUME NEW p \in Pages, NEW n \in Notes, page'[p].at = n, page'[p].ver = row'[n].ver, page'[p].shown = row'[n].body,
             row'[n].ver \in Nat, page'[p].mode # "read" => p \in slipped'
      PROVE  Faithful(p)'
  BY <1>8 DEF Faithful, Holds
<1>9. ASSUME NEW n \in Notes, Commit(n)
      PROVE  \A p \in Pages : Faithful(p)'
  <2>1. row'[n] = tx[n].row /\ tx[n].row.ver \in Nat
    BY <1>9 DEF Commit, RowsSound, Rows
  <2>2. ASSUME NEW p \in Pages
        PROVE  Faithful(p)'
    <3>0. page[p] \in PageStates
      BY <1>2
    <3>1. CASE tx[n].by = p /\ page[p].at = n
      <4>1. page'[p] = [page[p] EXCEPT !.mode = IF page[p].mode = "saving" THEN "read" ELSE page[p].mode,
                                       !.ver = tx[n].row.ver, !.shown = tx[n].row.body]
        BY <1>9, <2>2, <3>1 DEF Commit
      <4>2. /\ page'[p].at = n /\ page'[p].ver = tx[n].row.ver /\ page'[p].shown = tx[n].row.body
            /\ page'[p].mode # "read" => page[p].mode = "edit"
        BY <3>0, <3>1, <4>1 DEF PageStates
      <4>3. page'[p].mode # "read" => p \in slipped'
        BY <1>9, <2>2, <3>1, <4>2 DEF Commit
      <4>. QED
        BY <1>8, <1>9, <2>1, <2>2, <4>2, <4>3
    <3>2. CASE ~(tx[n].by = p /\ page[p].at = n)
      <4>1. page'[p] = page[p] /\ (p \in slipped => p \in slipped')
        BY <1>9, <2>2, <3>2 DEF Commit
      <4>. QED
        BY <1>6, <2>2, <4>1
    <3>. QED
      BY <3>1, <3>2
  <2>. QED
    BY <2>2
<1>10. ASSUME NEW n \in Notes, Rollback(n) \/ AnswerLost(n)
       PROVE  \A p \in Pages : Faithful(p)'
  <2>1. page' = Reopened(n) /\ slipped' = slipped
    BY <1>10 DEF Rollback, AnswerLost
  <2>2. ASSUME NEW p \in Pages
        PROVE  Faithful(p)'
    <3>1. page[p] \in PageStates
      BY <1>2
    <3>2. CASE tx[n].by = p /\ page[p].mode = "saving"
      <4>1. page'[p] = [page[p] EXCEPT !.mode = "edit"]
        BY <2>1, <2>2, <3>2 DEF Reopened
      <4>2. /\ page'[p].at = page[p].at /\ page'[p].ver = page[p].ver /\ page'[p].shown = page[p].shown
            /\ page'[p].base = page[p].base
        BY <3>1, <4>1 DEF PageStates
      <4>. QED
        BY <1>6, <2>1, <2>2, <3>2, <4>2
    <3>3. CASE ~(tx[n].by = p /\ page[p].mode = "saving")
      <4>1. page'[p] = page[p]
        BY <2>1, <2>2, <3>3 DEF Reopened
      <4>. QED
        BY <1>6, <2>1, <2>2, <4>1
    <3>. QED
      BY <3>2, <3>3
  <2>. QED
    BY <2>2
\* One page moves; the others and their drafts stay.
<1>11. ASSUME NEW p \in Pages, NEW s, page' = [page EXCEPT ![p] = s], \A q \in Pages \ {p} : q \in slipped => q \in slipped',
              page'[p] = s => Faithful(p)'
       PROVE  \A q \in Pages : Faithful(q)'
  <2>1. page'[p] = s /\ \A q \in Pages \ {p} : page'[q] = page[q]
    BY <1>2, <1>11
  <2>2. ASSUME NEW q \in Pages \ {p}
        PROVE  Faithful(q)'
    BY <1>6, <1>11, <2>1, <2>2
  <2>. QED
    BY <1>11, <2>1, <2>2
<1>12. ASSUME NEW p \in Pages, Page(p)
       PROVE  \A q \in Pages : Faithful(q)'
  <2>0. page[p] \in PageStates
    BY <1>2
  <2>1. CASE Refresh(p)
    <3> DEFINE n == page[p].at
               s == [page[p] EXCEPT !.ver = row[n].ver, !.shown = row[n].body]
    <3>1. n \in Notes /\ row' = row
      BY <1>4, <2>1 DEF Refresh
    <3>2. page' = [page EXCEPT ![p] = s]
      BY <1>2, <2>1 DEF Refresh
    <3>3. s.at = n /\ s.ver = row[n].ver /\ s.shown = row[n].body /\ s.mode = page[p].mode
      BY <2>0 DEF PageStates
    <3>4. /\ \A q \in Pages \ {p} : q \in slipped => q \in slipped'
          /\ page[p].mode # "read" => p \in slipped'
      BY <2>1 DEF Refresh
    <3>5. page'[p] = s => Faithful(p)'
      BY <1>5, <1>8, <3>1, <3>3, <3>4
    <3> HIDE DEF s
    <3>. QED
      BY <1>11, <3>2, <3>4, <3>5
  <2>2. CASE EditText(p)
    <3> DEFINE s == [page[p] EXCEPT !.mode = "edit", !.base = page[p].shown, !.draft = texts + 1]
    <3>1. page' = [page EXCEPT ![p] = s] /\ slipped' = slipped \ {p} /\ row' = row
      BY <2>2 DEF EditText
    <3>2. s.at = page[p].at /\ s.ver = page[p].ver /\ s.shown = page[p].shown /\ s.base = page[p].shown
      BY <2>0 DEF PageStates
    <3>3. page'[p] = s => Faithful(p)'
      BY <1>3, <3>1, <3>2 DEF Faithful, Holds
    <3> HIDE DEF s
    <3>. QED
      BY <1>11, <3>1, <3>3
  <2>3. CASE Cancel(p) \/ SaveNoteBody(p)
    <3>1. PICK k \in {"read", "edit", "saving"} : page' = [page EXCEPT ![p] = [page[p] EXCEPT !.mode = k]]
      <4>1. \E k \in {"read", "edit", "saving"} : page' = [page EXCEPT ![p].mode = k]
        BY <2>3 DEF SaveNoteBody, Cancel
      <4>. QED
        BY <4>1
    <3>2. page[p].mode # "read" /\ slipped' = slipped
      BY <2>3 DEF SaveNoteBody, Cancel
    <3> DEFINE s == [page[p] EXCEPT !.mode = k]
    <3>3. s.at = page[p].at /\ s.ver = page[p].ver /\ s.shown = page[p].shown /\ s.base = page[p].base
      BY <2>0 DEF PageStates
    <3>4. page' = [page EXCEPT ![p] = s]
      BY <3>1
    <3>5. page'[p] = s => Faithful(p)'
      BY <1>6, <3>2, <3>3
    <3> HIDE DEF s
    <3>. QED
      BY <1>11, <3>2, <3>4, <3>5
  <2>4. CASE RestorePreviousBody(p)
    BY <1>7, <2>4 DEF RestorePreviousBody
  <2>5. ASSUME NEW n \in Notes, GetMeeting(p, n)
        PROVE  \A q \in Pages : Faithful(q)'
    <3> DEFINE s == [page[p] EXCEPT !.at = n, !.ver = row[n].ver, !.shown = row[n].body]
    <3>1. page' = [page EXCEPT ![p] = s] /\ slipped' = slipped /\ row' = row /\ page[p].mode = "read"
      BY <1>2, <2>5 DEF GetMeeting
    <3>2. s.at = n /\ s.ver = row[n].ver /\ s.shown = row[n].body /\ s.mode = page[p].mode
      BY <2>0 DEF PageStates
    <3>3. page'[p] = s => Faithful(p)'
      BY <1>5, <1>8, <3>1, <3>2
    <3> HIDE DEF s
    <3>. QED
      BY <1>11, <3>1, <3>3
  <2>. QED
    BY <1>12, <2>1, <2>2, <2>3, <2>4, <2>5 DEF Page
<1>13. CASE \E w \in Writers : Writer(w)
  BY <1>7, <1>13 DEF Writer, Claim, SummarizeFails, Summarized, RegenerateCommits, RegenerateReads
<1>14. CASE CreateShare \/ ShareInserted \/ RevokeShare \/ PullStarts \/ PullLists \/ PullReads
              \/ \E n \in Notes : EditOnDesktop(n) \/ Push(n)
  BY <1>7, <1>14 DEF CreateShare, ShareInserted, RevokeShare, PullStarts, PullLists, PullReads, EditOnDesktop, Push
<1>15. CASE \E n \in Notes : \/ RenameMeeting(n) \/ RenameSpeaker(n) \/ TrashNote(n) \/ RestoreFromTrash(n) \/ DeleteMeeting(n)
                            \/ \E changed \in BOOLEAN : UpdateActionItem(n, changed)
  BY <1>7, <1>15 DEF RenameMeeting, RenameSpeaker, TrashNote, RestoreFromTrash, DeleteMeeting, UpdateActionItem
<1>16. CASE Tick \/ UNCHANGED vars
  BY <1>7, <1>16 DEF Tick, vars
<1>. QED
  BY <1>9, <1>10, <1>12, <1>13, <1>14, <1>15, <1>16 DEF Next

-----------------------------------------------------------------------------
(* Nothing is lost *)

\* Who is let through by its version, or by the text it compares, had the text.
LEMMA NothingLost ==
  ASSUME RowsSound, ActorsSound, VersionsNameTexts, ~lost, [Next]_vars
  PROVE  ~lost'
<1>1. ASSUME lost' = lost
      PROVE  ~lost'
  BY <1>1
<1>2. ASSUME NEW p \in Pages, Page(p)
      PROVE  ~lost'
  <2>1. CASE SaveNoteBody(p)
    <3> DEFINE n == page[p].at
    <3>1. n # 0 /\ n \in Notes /\ page[p].mode # "read"
      BY <2>1 DEF SaveNoteBody, ActorsSound, PagesSound, PageStates
    <3>2. Holds(page[p].ver, page[p].shown, n) /\ (p \notin slipped => page[p].base = page[p].shown)
      BY <3>1 DEF VersionsNameTexts
    <3>3. CASE VersionMatches(n, page[p].ver)
      <4>1. Blind(n, page[p].base) => p \in slipped
        BY <3>2, <3>3 DEF VersionMatches, Holds, Blind
      <4>. QED
        BY <2>1, <4>1 DEF SaveNoteBody
    <3>4. CASE ~VersionMatches(n, page[p].ver)
      BY <2>1, <3>4 DEF SaveNoteBody
    <3>. QED
      BY <3>3, <3>4
  <2>. QED
    BY <1>1, <1>2, <2>1 DEF Page, Refresh, EditText, Cancel, RestorePreviousBody, GetMeeting
<1>3. ASSUME NEW w \in Writers, Writer(w)
      PROVE  ~lost'
  <2>1. CASE RegenerateCommits(w)
    BY <2>1 DEF RegenerateCommits, Unedited, Blind
  <2>. QED
    BY <1>1, <1>3, <2>1 DEF Writer, Claim, SummarizeFails, Summarized, RegenerateReads
<1>4. ASSUME NEW n \in Notes, EditOnDesktop(n) \/ Push(n)
      PROVE  ~lost'
  <2>1. CASE EditOnDesktop(n)
    BY <2>1 DEF EditOnDesktop
  <2>2. CASE Push(n)
    <3>1. Holds(desk[n].ver, desk[n].base, n)
      BY DEF VersionsNameTexts
    <3>2. PushAccepted(n) /\ Live(n) => ~Blind(n, desk[n].base)
      BY <3>1 DEF PushAccepted, Live, VersionMatches, Holds, Blind
    <3>. QED
      BY <2>2, <3>2 DEF Push
  <2>. QED
    BY <1>4, <2>1, <2>2
<1>5. CASE \E n \in Notes : Commit(n) \/ Rollback(n) \/ AnswerLost(n)
  BY <1>5 DEF Commit, Rollback, AnswerLost
<1>6. CASE CreateShare \/ ShareInserted \/ RevokeShare \/ PullStarts \/ PullLists \/ PullReads
  BY <1>6 DEF CreateShare, ShareInserted, RevokeShare, PullStarts, PullLists, PullReads
<1>7. CASE \E n \in Notes : \/ RenameMeeting(n) \/ RenameSpeaker(n) \/ TrashNote(n) \/ RestoreFromTrash(n) \/ DeleteMeeting(n)
                            \/ \E changed \in BOOLEAN : UpdateActionItem(n, changed)
  BY <1>7 DEF RenameMeeting, RenameSpeaker, TrashNote, RestoreFromTrash, DeleteMeeting, UpdateActionItem
<1>8. CASE Tick \/ UNCHANGED vars
  BY <1>8 DEF Tick, vars
<1>. QED
  BY <1>2, <1>3, <1>4, <1>5, <1>6, <1>7, <1>8 DEF Next

-----------------------------------------------------------------------------
\* The invariant holds initially.
LEMMA InvInit ==
  Init => Inv
<1>. SUFFICES ASSUME Init
              PROVE  Inv
  OBVIOUS
<1>0. 0 \in 0 .. MaxRegens /\ \A n \in Notes : n # 0
  BY NotesAssumption DEF Notes
<1>1. Unknown \in Rows /\ Unknown.ver = 0 /\ Unknown.body = 0
  BY <1>0 DEF Unknown, Rows
<1>2. [Unknown EXCEPT !.st = "live", !.body = 1] \in Rows /\ [Unknown EXCEPT !.st = "live", !.body = 1].ver = 0
        /\ [Unknown EXCEPT !.st = "live", !.body = 1].body = 1
  BY <1>0 DEF Unknown, Rows
<1>3. /\ row \in [Notes -> Rows]
      /\ \A n \in Notes : row[n].ver = 0 /\ row[n].body = IF n = 1 THEN 1 ELSE 0
  BY <1>1, <1>2 DEF Init
<1>4. RowsSound
  BY <1>3 DEF Init, RowsSound
<1>5. Closed \in PageStates /\ Closed.mode = "read" /\ Closed.at = 0 /\ NoJob \in Rewrites /\ NoJob.pc = "idle"
  BY DEF Closed, PageStates, NoJob, Rewrites
<1>6. ActorsSound
  BY <1>5 DEF Init, ActorsSound, PagesSound, JobsSound, DesksSound
<1>7. VersionsNameTexts
  BY <1>3, <1>5 DEF Init, VersionsNameTexts, Holds
<1>. QED
  BY <1>4, <1>6, <1>7 DEF Init, Inv

\* Every step of the specification keeps the invariant.
LEMMA InvStep ==
  Inv /\ [Next]_vars => Inv'
<1>. SUFFICES ASSUME RowsSound, ActorsSound, VersionsNameTexts, ~lost, [Next]_vars
              PROVE  Inv'
  BY DEF Inv
<1>1. RowsSound'
  BY RowsStep
<1>2. PICK m \in Notes : RowStep(m)
  BY RowsStep
<1>3. ActorsSound'
  BY <1>1, <1>2, PagesStep, JobsStep, DesksStep DEF ActorsSound
<1>4. (\A p \in Pages : Faithful(p)') /\ \A n \in Notes : Holds(desk[n].ver, desk[n].base, n)'
  BY <1>2, PagesFaithful, DesksStep
<1>5. VersionsNameTexts'
  BY <1>4 DEF VersionsNameTexts, Faithful
<1>6. ~lost'
  BY NothingLost
<1>. QED
  BY <1>1, <1>3, <1>5, <1>6 DEF Inv

\* For any number of notes, pages, rewrites and desktop copies, in any scene and with any
\* transactions that fail or answers that are lost: a hand edit, a rewrite by the
\* provider and a push replace only a text that their author had in front of them
\* (updateNoteBody, regenerateNotes, upsertMeeting).
THEOREM NothingOverwrittenBlindly ==
  Spec => []NoBlindOverwrite
<1>1. Inv => NoBlindOverwrite
  BY DEF Inv, RowsSound, ActorsSound, PagesSound, JobsSound, Rows, PageStates, Rewrites, NoBlindOverwrite, TypeOK
<1>. QED
  BY <1>1, InvInit, InvStep, PTL DEF Spec
====
