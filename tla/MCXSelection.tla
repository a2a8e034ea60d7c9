---------------------------- MODULE MCXSelection ----------------------------
(* Instances of XSelection for TLC: a watcher and a reader of a stream.    *)
EXTENDS XSelection, TLC

CONSTANTS watcher, reader, d1, d2, app, text, other, image

MCFormat == text :> "text" @@ other :> "text" @@ image :> "image"
=============================================================================
