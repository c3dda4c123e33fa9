------------------------------ MODULE MCLibrary ------------------------------
(* Two people, one of them the owner, and the sweeper in a small library: a  *)
(* folder inside another with a note in each, or one folder with a note and  *)
(* room for another of both.                                                 *)
EXTENDS Library

CONSTANTS fa, ga, ha, na, ma, ka, owner, member, plans, team

Row(st, parent, by, name) ==
    [st |-> st, parent |-> parent, root |-> None, at |-> 0, by |-> by, name |-> name]

Nested ==
    [i \in Items |-> CASE i = fa -> Row("live", Top, member, plans)
                       [] i = ga -> Row("live", fa, member, team)
                       [] i = na -> Row("live", ga, member, None)
                       [] i = ma -> Row("live", fa, owner, None)
                       [] i \in {ha, ka} -> Row("gone", Top, owner, None)]

\* One folder and one note, and room for another of both.
Sparse == [Nested EXCEPT ![fa].name = team, ![ga].st = "gone", ![na].st = "gone", ![ha].st = "new", ![ka].st = "new"]

StartLibraries == {Nested, Sparse}

\* Nothing is claimed of what follows a write from an out-of-date read.
Uncrossed == ~crossed
=============================================================================
