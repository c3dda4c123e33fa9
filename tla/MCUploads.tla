------------------------------ MODULE MCUploads ------------------------------
(* Small instances of Uploads for TLC.                                      *)
EXTENDS Uploads, TLC
\* Clients and keys are interchangeable.
ClientsAndKeys == Permutations(Clients) \cup Permutations(Keys)

\* Bound: a failure is followed where both clients send the same recording and
\* one upload row holds it; a second row, for another recording or in place of
\* an expired one, without failures.
FailuresOfOneRecording ==
    faults > 0 => /\ \A c, d \in Clients : key[c] = key[d]
                  /\ Cardinality({u \in Uploads : up[u].status # "none"}) <= 1
=============================================================================
