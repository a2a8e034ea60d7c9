--------------------------- MODULE MCFileTransfer ---------------------------
(* Instances of FileTransfer for TLC: files of up to five bytes in chunks  *)
(* of two, so that there is an empty file, one of a single chunk and two   *)
(* whose last chunk is short.                                              *)
EXTENDS FileTransfer

SmallFiles == {<<>>, <<1>>, <<1, 2>>, <<1, 2, 3>>, <<1, 2, 3, 4, 5>>}
GrowingFiles == {<<1>>, <<1, 2, 3>>, <<1, 2, 3, 4>>}
=============================================================================
