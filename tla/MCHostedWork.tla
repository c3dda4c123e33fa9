---------------------------- MODULE MCHostedWork ----------------------------
(* Small instances of HostedWork: one scene per activity.                    *)
EXTENDS HostedWork, TLC

CONSTANTS j1, j2, r1, r2, q1, q2, q3, h1, h2, s1, c1, w, v

MCJobs == {j1, j2}
MCRuns == {r1, r2}
MCAsks == {q1, q2, q3}
MCHooks == {h1, h2}
MCSenders == {r1, r2, s1, c1}
MCCallers == (MCRuns \X {"mic", "speaker", "summary"}) \cup (MCAsks \X {"answer"})
MCDays == 1..2
MCLimit == [global |-> 5, workspace |-> 4, trial |-> 4]
MCHome == (j1 :> w) @@ (j2 :> w) @@ (q1 :> w) @@ (q2 :> w) @@ (q3 :> v)
MCReports == {1, 3}
MCTrial == {w}

Nothing == [name |-> "", jobs |-> {}, imports |-> {}, tracks |-> {}, windows |-> 1, slots |-> 1,
            asks |-> {}, hooks |-> {}, notes |-> {}, faults |-> 0, ops |-> {}]

MCScenes ==
  { [Nothing EXCEPT !.name = "recording", !.jobs = {j1}, !.tracks = {"mic", "speaker"},
                    !.slots = 2, !.faults = 1, !.ops = {"job"}],
    [Nothing EXCEPT !.name = "windows", !.jobs = {j1}, !.tracks = {"mic"}, !.windows = 2,
                    !.slots = 2, !.faults = 1, !.ops = {"job", "route"}],
    [Nothing EXCEPT !.name = "imports", !.jobs = {j1, j2}, !.imports = {j1, j2},
                    !.slots = 2, !.ops = {"job"}],
    [Nothing EXCEPT !.name = "questions", !.asks = {q1, q2, q3}, !.faults = 1, !.ops = {"ask"}],
    [Nothing EXCEPT !.name = "days", !.asks = {q1, q3}, !.faults = 1, !.ops = {"ask", "midnight"}],
    [Nothing EXCEPT !.name = "hooks", !.hooks = {h1, h2}, !.notes = {j1}, !.faults = 1, !.ops = {"hooks", "pages", "save"}],
    [Nothing EXCEPT !.name = "owner", !.hooks = {h1}, !.notes = {j1}, !.faults = 2, !.ops = {"hooks", "save", "owner"}],
    [Nothing EXCEPT !.name = "announce", !.jobs = {j1}, !.tracks = {"mic"}, !.hooks = {h1},
                    !.notes = {j1}, !.faults = 1, !.ops = {"job", "save"}] }

Symmetry == Permutations(MCRuns) \cup Permutations({q1, q2}) \cup Permutations(MCHooks)
=============================================================================
