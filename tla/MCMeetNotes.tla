----------------------------- MODULE MCMeetNotes -----------------------------
EXTENDS MeetNotes

CONSTANTS m1, m2

Scene(k1, k2, connected, k, f, e, d, t) ==
    [kind |-> [m \in Meetings |-> IF m = m1 THEN k1 ELSE k2], sync |-> connected, drive |-> connected /\ k1 = "desktop",
     kills |-> k, faults |-> f, edits |-> e, deletes |-> d, toggles |-> t]

MCScenes == {Scene("local", "absent", TRUE, 1, 2, 1, 1, 0),
             Scene("desktop", "absent", TRUE, 1, 2, 1, 1, 0),
             Scene("managed", "managed", FALSE, 1, 1, 0, 0, 0),
             Scene("managed", "managed", FALSE, 0, 1, 0, 1, 1),
             Scene("managed", "absent", FALSE, 2, 2, 0, 1, 2)}

MCScripts == {<<"warning", "stopped", "summary">>, <<"stopped", "processing", "complete">>, <<"stopped", "failed">>,
              <<"stopped", "error">>}
=============================================================================
