----------------------------- MODULE MCTileGet -----------------------------
(* Instances of TileGet for TLC: one metatile of two tiles, one of one.    *)
EXTENDS TileGet, TLC

CONSTANTS p1, p2, p3, ta, tb, tc, mab, mc

MCMetaSeq == (mab :> <<ta, tb>>) @@ (mc :> <<tc>>)
MCOneMeta == mab :> <<ta, tb>>
MCSingles == (mab :> <<ta>>) @@ (mc :> <<tc>>)
Symmetry == Permutations(Procs)
=============================================================================
