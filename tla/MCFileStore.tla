----------------------------- MODULE MCFileStore -----------------------------
(***************************************************************************)
(* The file store for TLC: contents of no block, of one, and of one and a  *)
(* part.                                                                   *)
(***************************************************************************)
EXTENDS FileStore

SomeContents == {<<>>, <<"a", "b">>, <<"b", "a", "a">>}
=============================================================================
