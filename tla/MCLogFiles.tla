----------------------------- MODULE MCLogFiles -----------------------------
(***************************************************************************)
(* An instance of LogFiles for TLC.  With a directory name of 250          *)
(* characters the paths of the files of segments 0 and 5 fit in the        *)
(* buffer, those of 10 lose a character, and those of 100 do not fit.      *)
(***************************************************************************)
EXTENDS LogFiles

MCBases == <<0, 5, 10, 100>>
=============================================================================
