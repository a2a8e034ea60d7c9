-------------------------- MODULE MCFileClipboard --------------------------
(* Instances of FileClipboard for TLC: A copies a directory of two files,  *)
(* and B what is not a file.                                               *)
EXTENDS FileClipboard, TLC

CONSTANTS A, B, dir, x, y

MCHomes == A :> {dir} @@ B :> {}
MCInside == dir :> <<x, y>>
=============================================================================
