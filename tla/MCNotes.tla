------------------------------- MODULE MCNotes -------------------------------
(* Two notes. Each scene sets two or three of the writers against each other. *)
EXTENDS Notes

MCScenes == {{"page", "writer", "details"}, {"page", "desktop"}, {"writer", "bin"}, {"desktop", "details"},
             {"desktop", "bin"}, {"share", "bin"}}
=============================================================================
