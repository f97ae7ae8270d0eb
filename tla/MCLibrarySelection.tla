------------------------ MODULE MCLibrarySelection ------------------------
(* The instance of LibrarySelection that TLC checks. *)
EXTENDS LibrarySelection

\* Two loops for the night, and one for the day, which plays at other times only
\* when an operator selects it.
MCLoops == {[id |-> 1, period |-> "night", theme |-> "cafe"],
            [id |-> 2, period |-> "night", theme |-> "study"],
            [id |-> 3, period |-> "day", theme |-> "cafe"]}
\* An evening, for which there is no loop, and the night before and after midnight.
MCInstants == {20, 21, 25}
=============================================================================
