---------------------------- MODULE MetatileFill ----------------------------
(***************************************************************************)
(* What the metatile locks are for, without saying how: a metatile is      *)
(* filled by one process at a time, and by one more for every time the     *)
(* locks were swept away; only its fillers write its tiles, and anybody    *)
(* may drop a tile that has expired.                                       *)
(***************************************************************************)
EXTENDS Integers, FiniteSets

CONSTANTS
  Fillers,     \* the processes that render
  Tiles,
  Metas,
  MetatileOf,  \* MetatileOf[t]: the metatile of tile t
  Stamps,      \* what a stored tile can be
  Absent       \* the stamp of a tile that is not stored

VARIABLES
  store,       \* store[t]: what is stored for tile t
  filling,     \* filling[m]: the processes filling m
  sweeps       \* how often the locks were swept away

vars == <<store, filling, sweeps>>

Init ==
  /\ store \in [Tiles -> Stamps]
  /\ filling = [m \in Metas |-> {}]
  /\ sweeps = 0

Begin(m, p) ==
  /\ Cardinality(filling[m]) <= sweeps
  /\ filling' = [filling EXCEPT ![m] = @ \union {p}]
  /\ UNCHANGED <<store, sweeps>>

(* A filler of m stores some of its tiles.                                 *)
Put(m, p) ==
  /\ p \in filling[m]
  /\ \E T \in SUBSET {t \in Tiles : MetatileOf[t] = m}, s \in Stamps \ {Absent} :
       store' = [t \in Tiles |-> IF t \in T THEN s ELSE store[t]]
  /\ UNCHANGED <<filling, sweeps>>

End(m, p) ==
  /\ p \in filling[m]
  /\ filling' = [filling EXCEPT ![m] = @ \ {p}]
  /\ UNCHANGED <<store, sweeps>>

Drop(t) ==
  /\ store' = [store EXCEPT ![t] = Absent]
  /\ UNCHANGED <<filling, sweeps>>

Sweep ==
  /\ sweeps' = sweeps + 1
  /\ UNCHANGED <<store, filling>>

Next ==
  \/ \E m \in Metas, p \in Fillers : Begin(m, p) \/ Put(m, p) \/ End(m, p)
  \/ \E t \in Tiles : Drop(t)
  \/ Sweep

Spec == Init /\ [][Next]_vars
=============================================================================
