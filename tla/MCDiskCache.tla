---------------------------- MODULE MCDiskCache ----------------------------
(* Instances of DiskCache for TLC.                                         *)
EXTENDS DiskCache, TLC

CONSTANTS p1, p2, p3, ta, tb, i1, i2, i3, i4, i5, i6

(* Any tile may be stored with any image, or tb with a blank one only, to  *)
(* compete with ta for the shared blank tile.                              *)
MCImages == Tiles \X {"image", "blank"}
MCBlankBeside == {<<ta, "image">>, <<ta, "blank">>, <<tb, "blank">>}

Symmetry == Permutations(Procs) \union Permutations(Tiles)
=============================================================================
