----------------------------- MODULE MCFileGuard -----------------------------
(***************************************************************************)
(* Instances of the file guard for TLC.                                    *)
(***************************************************************************)
EXTENDS FileGuardProps

CONSTANTS main, s1, s2, file, linked, other

\* One file under its canonical path and under a second one, through a
\* symbolic link to its directory; and another file.
MCFileOf == [p \in Paths |-> IF p = other THEN other ELSE file]
=============================================================================
