--------------------------- MODULE MCFileHistory ---------------------------
(***************************************************************************)
(* FileHistory with a log of one or two lines.                             *)
(***************************************************************************)
EXTENDS FileHistory
=============================================================================
