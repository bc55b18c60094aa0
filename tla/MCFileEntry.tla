----------------------------- MODULE MCFileEntry -----------------------------
(* Values for the model checking of FileEntry. *)
EXTENDS FileEntry

\* a short address, and a longer one that begins otherwise
MCNames == {<<1>>, <<0, 1>>}
=============================================================================
