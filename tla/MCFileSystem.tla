---------------------------- MODULE MCFileSystem ----------------------------
(* Instances of FileSystem for TLC. *)
EXTENDS FileSystem, TLC

Careful == {}

Symmetry == Permutations(Names) \cup Permutations(Handles)
=============================================================================
