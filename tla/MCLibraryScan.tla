--------------------------- MODULE MCLibraryScan ---------------------------
\* One library name and two files for it, each an upload or an outsider's.
EXTENDS LibraryScan
CONSTANTS n1, f1, f2, tg, rc

MCNames == {n1}
MCFiles == {f1, f2}
MCUploaders == {tg}
MCScanners == {rc}
=============================================================================
