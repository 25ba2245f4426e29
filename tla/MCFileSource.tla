----------------------------- MODULE MCFileSource -----------------------------
(***************************************************************************)
(* FileSource with two contents of three revisions.                          *)
(***************************************************************************)
EXTENDS FileSource

===============================================================================
