--------------------------- MODULE TileGetProofs ---------------------------
(* What holds of TileGet for all processes, tiles, metatiles and bounds.   *)
EXTENDS TileGet, FiniteSetTheorems, TLAPS

(* Every tile has a metatile (mapcache_tileset_metatile_get), which is the *)
(* only one that lists it and is not empty.                                *)
LEMMA MetaOfTile ==
  ASSUME NEW t \in Tiles
  PROVE  /\ MetaOf(t) \in Metas
         /\ \E i \in DOMAIN MetaSeq[MetaOf(t)] : MetaSeq[MetaOf(t)][i] = t
         /\ Len(MetaSeq[MetaOf(t)]) \in Nat \ {0}
<1> DEFINE Lists(m) == \E i \in DOMAIN MetaSeq[m] : MetaSeq[m][i] = t
<1>1. \E m \in Metas : Lists(m)
  BY MetaSeqAssumption
<1>2. MetaOf(t) = CHOOSE m \in Metas : Lists(m)
  BY DEF MetaOf
<1> HIDE DEF Lists
<1>3. MetaOf(t) \in Metas /\ Lists(MetaOf(t))
  BY <1>1, <1>2
<1>4. MetaSeq[MetaOf(t)] \in Seq(Tiles) /\ Len(MetaSeq[MetaOf(t)]) > 0
  BY <1>3, MetaSeqAssumption
<1>5. Len(MetaSeq[MetaOf(t)]) \in Nat \ {0}
  BY <1>4
<1>6. QED
  BY <1>3, <1>5 DEF Lists

LEMMA MetaOfMember ==
  ASSUME NEW m \in Metas, NEW i \in DOMAIN MetaSeq[m]
  PROVE  /\ MetaSeq[m][i] \in Tiles
         /\ MetaOf(MetaSeq[m][i]) = m
<1>1. MetaSeq[m][i] \in Tiles
  BY MetaSeqAssumption
<1>2. QED
  BY <1>1, MetaOfTile, MetaSeqAssumption

(* The metatile a process works on is a metatile, and has a tile.          *)
LEMMA SizeOfMeta ==
  ASSUME tile \in [Procs -> Tiles], NEW p \in Procs
  PROVE  /\ Meta(p) \in Metas
         /\ Size(p) \in Nat \ {0}
         /\ Size(p) = Len(MetaSeq[Meta(p)])
BY MetaOfTile DEF Meta, Size

-----------------------------------------------------------------------------

LEMMA TypeInit == Init => TypeOK
<1> SUFFICES ASSUME Init PROVE TypeOK
  OBVIOUS
<1>1. NoReply \in Replies /\ Missing \in Times /\ 1 \in Times
  BY ConfigAssumption DEF NoReply, Replies, Times, Missing
<1>2. WalkOK
  BY DEF Init, WalkOK
<1>3. QED
  BY <1>1, <1>2, ConfigAssumption DEF Init, TypeOK, Labels, Times

(* Only the process that takes a step can leave its bound.                 *)
LEMMA OneWalks ==
  ASSUME WalkOK, NEW p \in Procs,
         \A q \in Procs \ {p} : pc'[q] = pc[q] /\ step'[q] = step[q] /\ tile'[q] = tile[q],
         step'[p] <= IF pc'[p] \in {"expire", "save", "dead"} THEN Size(p)' ELSE 1
  PROVE  WalkOK'
<1> SUFFICES ASSUME NEW q \in Procs
             PROVE  step'[q] <= IF pc'[q] \in {"expire", "save", "dead"} THEN Size(q)' ELSE 1
  BY DEF WalkOK
<1>1. CASE q = p
  BY <1>1
<1>2. CASE q # p
  <2>1. Size(q)' = Size(q)
    BY <1>2 DEF Size, Meta
  <2>2. QED
    BY <1>2, <2>1 DEF WalkOK
<1>3. QED
  BY <1>1, <1>2

LEMMA SameSize ==
  ASSUME tile' = tile
  PROVE  \A p \in Procs : Size(p)' = Size(p) /\ Meta(p)' = Meta(p)
BY DEF Size, Meta

(* What a miss and the end of the saving do to the process alone.          *)
LEMMA AfterMissLocal ==
  ASSUME TypeOK, NEW p \in Procs, AfterMiss(p)
  PROVE  /\ reply' \in [Procs -> Replies]
         /\ pc' \in [Procs -> Labels]
         /\ pc'[p] \in {"done", "lock"}
         /\ \A q \in Procs \ {p} : pc'[q] = pc[q]
<1> USE DEF Goto, Fail, TypeOK, Labels
<1>1. CASE reply' = [reply EXCEPT ![p].nodata = TRUE] /\ Goto(p, "done")
  BY <1>1 DEF Replies
<1>2. CASE Fail(p, "404", "done")
  BY <1>2 DEF Replies
<1>3. CASE Goto(p, "lock") /\ UNCHANGED reply
  BY <1>3
<1>4. QED
  BY <1>1, <1>2, <1>3 DEF AfterMiss

LEMMA SavedLocal ==
  ASSUME TypeOK, NEW p \in Procs, Saved(p)
  PROVE  /\ reply' \in [Procs -> Replies]
         /\ pc' = [pc EXCEPT ![p] = "unlock"]
         /\ step' = [step EXCEPT ![p] = 1]
<1>1. PICK e \in BOOLEAN : reply' = [reply EXCEPT ![p].encoded = e]
  BY DEF Saved
<1>2. reply' \in [Procs -> Replies]
  BY <1>1 DEF TypeOK, Replies
<1>3. QED
  BY <1>2 DEF Saved, Goto

(* The sequences that are walked hold tiles.                               *)
LEMMA WalkedTiles ==
  ASSUME TypeOK, NEW p \in Procs, step[p] <= Size(p)
  PROVE  /\ MetaSeq[Meta(p)][step[p]] \in Tiles
         /\ MetaOf(MetaSeq[Meta(p)][step[p]]) = Meta(p)
<1>1. Meta(p) \in Metas /\ step[p] \in 1 .. Len(MetaSeq[Meta(p)])
  BY SizeOfMeta DEF TypeOK, Size
<1>2. step[p] \in DOMAIN MetaSeq[Meta(p)]
  BY <1>1, MetaSeqAssumption
<1>3. QED
  BY <1>1, <1>2, MetaOfMember

(* One case per action; TypeOK' follows once the walk and the replies are   *)
(* in order.                                                               *)
LEMMA TypeStep == TypeOK /\ [Next]_vars => TypeOK'
<1> SUFFICES ASSUME TypeOK, [Next]_vars
             PROVE  TypeOK'
  OBVIOUS
<1> USE DEF Goto, Fail, world, locals
<1>1. Missing \in Times /\ clock \in Times /\ NoReply \in Replies
  BY ConfigAssumption DEF TypeOK, Times, Missing, NoReply, Replies
<1>2. \A p \in Procs : Size(p) \in Nat \ {0} /\ Meta(p) \in Metas
  BY SizeOfMeta DEF TypeOK
<1>3. ASSUME NEW p \in Procs, LookupFails(p)
      PROVE  TypeOK'
  <2>1. WalkOK'
    BY <1>3, OneWalks DEF LookupFails, TypeOK, WalkOK
  <2>2. reply' \in [Procs -> Replies]
    BY <1>1, <1>3 DEF LookupFails, TypeOK, Replies
  <2>3. QED
    BY <1>3, <2>1, <2>2 DEF LookupFails, TypeOK, Labels
<1>4. ASSUME NEW p \in Procs, LookupHit(p)
      PROVE  TypeOK'
  <2>1. WalkOK'
    BY <1>2, <1>4, OneWalks, SameSize DEF LookupHit, TypeOK, WalkOK
  <2>2. reply' \in [Procs -> Replies]
    BY <1>4 DEF LookupHit, TypeOK, Replies
  <2>3. QED
    BY <1>4, <2>1, <2>2 DEF LookupHit, TypeOK, Labels
<1>5. ASSUME NEW p \in Procs, LookupMiss(p)
      PROVE  TypeOK'
  <2>1. reply' \in [Procs -> Replies] /\ pc' \in [Procs -> Labels]
    BY <1>5, AfterMissLocal DEF LookupMiss
  <2>2. WalkOK'
    BY <1>5, AfterMissLocal, OneWalks DEF LookupMiss, TypeOK, WalkOK
  <2>3. QED
    BY <1>5, <2>1, <2>2 DEF LookupMiss, TypeOK
<1>6. ASSUME NEW p \in Procs, DeleteFails(p)
      PROVE  TypeOK'
  <2>1. WalkOK'
    BY <1>6, OneWalks DEF DeleteFails, TypeOK, WalkOK
  <2>2. reply' \in [Procs -> Replies]
    BY <1>1, <1>6 DEF DeleteFails, TypeOK, Replies
  <2>3. QED
    BY <1>6, <2>1, <2>2 DEF DeleteFails, TypeOK, Labels
<1>7. ASSUME NEW p \in Procs, DeleteStale(p)
      PROVE  TypeOK'
  <2>1. cache' \in [Tiles -> Times]
    BY <1>1, <1>7 DEF DeleteStale, TypeOK
  <2>2. CASE step[p] < Size(p) /\ step' = [step EXCEPT ![p] = @ + 1] /\ UNCHANGED <<pc, reply>>
    <3>1. step[p] + 1 \in Nat \ {0} /\ step[p] + 1 <= Size(p) /\ Size(p)' = Size(p)
      BY <1>2, <2>2, <1>7, SameSize DEF TypeOK, DeleteStale
    <3>2. WalkOK'
      BY <2>2, <3>1, <1>7, OneWalks DEF DeleteStale, TypeOK
    <3>3. QED
      BY <2>1, <2>2, <3>1, <3>2, <1>7 DEF DeleteStale, TypeOK
  <2>3. CASE step[p] = Size(p) /\ step' = [step EXCEPT ![p] = 1] /\ AfterMiss(p)
    <3>1. reply' \in [Procs -> Replies] /\ pc' \in [Procs -> Labels]
      BY <2>3, AfterMissLocal
    <3>2. WalkOK'
      BY <2>3, <1>7, AfterMissLocal, OneWalks DEF DeleteStale, TypeOK
    <3>3. step' \in [Procs -> Nat \ {0}]
      BY <2>3 DEF TypeOK
    <3>4. UNCHANGED <<lockfiles, tile, isLocked, clock, crashes, cleanups, listed>>
      BY <1>7 DEF DeleteStale
    <3>5. QED
      BY <2>1, <3>1, <3>2, <3>3, <3>4 DEF TypeOK
  <2>4. QED
    BY <2>2, <2>3, <1>7 DEF DeleteStale
<1>8. ASSUME NEW p \in Procs, LockAcquired(p)
      PROVE  TypeOK'
  <2>1. WalkOK'
    BY <1>8, OneWalks DEF LockAcquired, TypeOK, WalkOK
  <2>2. lockfiles' \subseteq Metas
    BY <1>2, <1>8 DEF LockAcquired, TypeOK
  <2>3. QED
    BY <1>8, <2>1, <2>2 DEF LockAcquired, TypeOK, Labels
<1>9. ASSUME NEW p \in Procs, LockNotCreated(p)
      PROVE  TypeOK'
  <2>1. WalkOK'
    BY <1>9, OneWalks DEF LockNotCreated, TypeOK, WalkOK
  <2>2. reply' \in [Procs -> Replies]
    BY <1>1, <1>9 DEF LockNotCreated, TypeOK, Replies
  <2>3. QED
    BY <1>9, <2>1, <2>2 DEF LockNotCreated, TypeOK, Labels
<1>10. ASSUME NEW p \in Procs, WaitOver(p)
      PROVE  TypeOK'
  <2>1. WalkOK'
    BY <1>10, OneWalks DEF WaitOver, TypeOK, WalkOK
  <2>2. reply' \in [Procs -> Replies]
    BY <1>1, <1>10 DEF WaitOver, TypeOK, Replies
  <2>3. QED
    BY <1>10, <2>1, <2>2 DEF WaitOver, TypeOK, Labels
<1>11. ASSUME NEW p \in Procs, FetchFails(p)
      PROVE  TypeOK'
  <2>1. WalkOK'
    BY <1>11, OneWalks DEF FetchFails, TypeOK, WalkOK
  <2>2. reply' \in [Procs -> Replies]
    BY <1>1, <1>11 DEF FetchFails, TypeOK, Replies
  <2>3. QED
    BY <1>11, <2>1, <2>2 DEF FetchFails, TypeOK, Labels
<1>12. ASSUME NEW p \in Procs, Fetch(p)
      PROVE  TypeOK'
  <2>1. WalkOK'
    BY <1>2, <1>12, OneWalks, SameSize DEF Fetch, TypeOK, WalkOK
  <2>2. reply' \in [Procs -> Replies]
    BY <1>12 DEF Fetch, TypeOK, Replies
  <2>3. QED
    BY <1>12, <2>1, <2>2 DEF Fetch, TypeOK, Labels
<1>13. ASSUME NEW p \in Procs, SaveFails(p)
      PROVE  TypeOK'
  <2>1. WalkOK'
    BY <1>13, OneWalks DEF SaveFails, TypeOK, WalkOK
  <2>2. reply' \in [Procs -> Replies]
    BY <1>1, <1>13 DEF SaveFails, TypeOK, Replies
  <2>3. QED
    BY <1>13, <2>1, <2>2 DEF SaveFails, TypeOK, Labels
<1>14. ASSUME NEW p \in Procs, SaveOne(p)
      PROVE  TypeOK'
  <2>1. cache' \in [Tiles -> Times]
    BY <1>1, <1>14 DEF SaveOne, TypeOK
  <2>2. CASE step[p] < Size(p) /\ step' = [step EXCEPT ![p] = @ + 1] /\ UNCHANGED <<pc, reply>>
    <3>1. step[p] + 1 \in Nat \ {0} /\ step[p] + 1 <= Size(p) /\ Size(p)' = Size(p)
      BY <1>2, <2>2, <1>14, SameSize DEF TypeOK, SaveOne
    <3>2. WalkOK'
      BY <2>2, <3>1, <1>14, OneWalks DEF SaveOne, TypeOK
    <3>3. QED
      BY <2>1, <2>2, <3>1, <3>2, <1>14 DEF SaveOne, TypeOK
  <2>3. CASE step[p] = Size(p) /\ Saved(p)
    <3>1. WalkOK'
      BY <2>3, <1>14, SavedLocal, OneWalks DEF SaveOne, TypeOK
    <3>2. QED
      BY <2>1, <2>3, <3>1, <1>14, SavedLocal DEF SaveOne, TypeOK, Labels
  <2>4. QED
    BY <2>2, <2>3, <1>14 DEF SaveOne
<1>15. ASSUME NEW p \in Procs, SaveAll(p)
      PROVE  TypeOK'
  <2>1. WalkOK'
    BY <1>15, SavedLocal, OneWalks DEF SaveAll, TypeOK
  <2>2. cache' \in [Tiles -> Times]
    BY <1>1, <1>15 DEF SaveAll, TypeOK
  <2>3. QED
    BY <1>15, <2>1, <2>2, SavedLocal DEF SaveAll, TypeOK, Labels
<1>16. ASSUME NEW p \in Procs, Unlock(p)
      PROVE  TypeOK'
  <2>1. WalkOK'
    BY <1>16, OneWalks DEF Unlock, TypeOK, WalkOK
  <2>2. reply' \in [Procs -> Replies]
    BY <1>1, <1>16 DEF Unlock, TypeOK, Replies
  <2>3. QED
    BY <1>16, <2>1, <2>2 DEF Unlock, TypeOK, Labels
<1>17. ASSUME NEW p \in Procs, Return(p)
      PROVE  TypeOK'
  <2>1. WalkOK'
    BY <1>17, OneWalks DEF Return, TypeOK, WalkOK
  <2>2. reply' \in [Procs -> Replies]
    BY <1>1, <1>17 DEF Return, TypeOK, Replies
  <2>3. QED
    BY <1>17, <2>1, <2>2 DEF Return, TypeOK, Labels
<1>18. ASSUME NEW p \in Procs, NEW t \in Tiles, Request(p, t)
      PROVE  TypeOK'
  <2>1. WalkOK'
    BY <1>18, OneWalks DEF Request, TypeOK, WalkOK
  <2>2. QED
    BY <1>18, <2>1 DEF Request, TypeOK, Labels
<1>19. ASSUME NEW p \in Procs, Crash(p)
      PROVE  TypeOK'
  <2>1. WalkOK'
    BY <1>2, <1>19, OneWalks, SameSize DEF Crash, TypeOK, WalkOK
  <2>2. crashes' \in 0 .. MaxCrashes
    BY <1>19, ConfigAssumption DEF Crash, TypeOK
  <2>3. QED
    BY <1>19, <2>1, <2>2 DEF Crash, TypeOK, Labels
<1>20. ASSUME CleanupStart
      PROVE  TypeOK'
  <2>1. WalkOK'
    BY <1>20, SameSize DEF CleanupStart, TypeOK, WalkOK
  <2>2. cleanups' \in 0 .. MaxCleanups
    BY <1>20, ConfigAssumption DEF CleanupStart, TypeOK
  <2>3. QED
    BY <1>20, <2>1, <2>2 DEF CleanupStart, TypeOK
<1>21. ASSUME NEW m \in Metas, CleanupRemove(m) \/ CleanupMissed(m)
      PROVE  TypeOK'
  <2>1. WalkOK'
    BY <1>21, SameSize DEF CleanupRemove, CleanupMissed, TypeOK, WalkOK
  <2>2. QED
    BY <1>21, <2>1 DEF CleanupRemove, CleanupMissed, TypeOK
<1>22. ASSUME Tick
      PROVE  TypeOK'
  <2>1. WalkOK'
    BY <1>22, SameSize DEF Tick, TypeOK, WalkOK
  <2>2. clock' \in Times \ {0}
    BY <1>22, ConfigAssumption DEF Tick, TypeOK, Times
  <2>3. QED
    BY <1>22, <2>1, <2>2 DEF Tick, TypeOK
<1>23. CASE UNCHANGED vars
  <2>1. WalkOK'
    BY <1>23, SameSize DEF vars, TypeOK, WalkOK
  <2>2. QED
    BY <1>23, <2>1 DEF vars, TypeOK
<1>24. QED
  BY <1>3, <1>4, <1>5, <1>6, <1>7, <1>8, <1>9, <1>10, <1>11, <1>12, <1>13, <1>14, <1>15, <1>16, <1>17, <1>18, <1>19, <1>20, <1>21, <1>22, <1>23
     DEF Next, Run, Lookup, Expire, Lock, Render

(* TypeOK holds in every reachable state, whatever the constants.          *)
THEOREM TypeCorrect == Spec => []TypeOK
<1>1. TypeOK /\ [Next]_vars => TypeOK'
  BY TypeStep
<1>2. QED
  BY TypeInit, <1>1, PTL DEF Spec

-----------------------------------------------------------------------------
(* The lock files. HolderInv: a process owns its lock file exactly while   *)
(* it renders, or died rendering.                                          *)

HolderInv ==
  \A p \in Procs : /\ isLocked[p] => pc[p] \in {"source", "save", "unlock", "dead"}
                   /\ pc[p] \in {"source", "save", "unlock"} => isLocked[p]

LEMMA HolderInvariant == Spec => []HolderInv
<1>1. Init => HolderInv
  BY DEF Init, HolderInv
<1>2. TypeOK /\ HolderInv /\ [Next]_vars => HolderInv'
  <2> SUFFICES ASSUME TypeOK, HolderInv, [Next]_vars
               PROVE  HolderInv'
    OBVIOUS
  <2> USE DEF HolderInv, Goto, Fail, world, locals
  <2>1. ASSUME NEW p \in Procs, Lookup(p)
        PROVE  HolderInv'
    BY <2>1 DEF Lookup, LookupFails, LookupHit, LookupMiss, AfterMiss, TypeOK
  <2>2. ASSUME NEW p \in Procs, Expire(p)
        PROVE  HolderInv'
    BY <2>2 DEF Expire, DeleteFails, DeleteStale, AfterMiss, TypeOK
  <2>3. ASSUME NEW p \in Procs, Lock(p) \/ WaitOver(p) \/ Unlock(p)
        PROVE  HolderInv'
    BY <2>3 DEF Lock, LockAcquired, LockNotCreated, WaitOver, Unlock, TypeOK
  <2>4. ASSUME NEW p \in Procs, Render(p)
        PROVE  HolderInv'
    BY <2>4 DEF Render, FetchFails, Fetch, SaveFails, SaveOne, SaveAll, Saved, TypeOK
  <2>5. ASSUME NEW p \in Procs, Return(p) \/ Crash(p) \/ \E t \in Tiles : Request(p, t)
        PROVE  HolderInv'
    BY <2>5 DEF Return, Crash, Request, TypeOK
  <2>6. CASE CleanupStart \/ Tick \/ \E m \in Metas : CleanupRemove(m) \/ CleanupMissed(m)
    BY <2>6 DEF CleanupStart, CleanupRemove, CleanupMissed, Tick
  <2>7. CASE UNCHANGED vars
    BY <2>7 DEF vars
  <2>8. QED
    BY <2>1, <2>2, <2>3, <2>4, <2>5, <2>6, <2>7 DEF Next, Run
<1>3. QED
  BY <1>1, <1>2, TypeCorrect, PTL DEF Spec

(* How a step changes the lock files and their owners: the only steps that *)
(* do are taking a lock, giving it back, and deleting old lock files.      *)
Takes(p) ==
  /\ Meta(p) \notin lockfiles
  /\ lockfiles' = lockfiles \union {Meta(p)}
  /\ \A m \in Metas : Holders(m)' = IF m = Meta(p) THEN Holders(m) \union {p} ELSE Holders(m)
  /\ UNCHANGED <<cleanups, listed>>

GivesBack(p) ==
  /\ p \in Holders(Meta(p))
  /\ lockfiles' = lockfiles \ {Meta(p)}
  /\ \A m \in Metas : Holders(m)' = IF m = Meta(p) THEN Holders(m) \ {p} ELSE Holders(m)
  /\ UNCHANGED <<cleanups, listed>>

Cleans ==
  /\ CleanupStart \/ \E m \in Metas : CleanupRemove(m) \/ CleanupMissed(m)
  /\ \A m \in Metas : Holders(m)' = Holders(m)

KeepsLocks ==
  /\ UNCHANGED <<lockfiles, cleanups, listed>>
  /\ \A m \in Metas : Holders(m)' = Holders(m)

LEMMA LockSteps ==
  ASSUME TypeOK, HolderInv, [Next]_vars
  PROVE  (\E p \in Procs : Takes(p) \/ GivesBack(p)) \/ Cleans \/ KeepsLocks
<1> USE DEF Goto, Fail, world, locals
<1>1. ASSUME UNCHANGED <<tile, isLocked>>
      PROVE  \A m \in Metas : Holders(m)' = Holders(m)
  BY <1>1 DEF Holders, Meta
<1>2. ASSUME NEW p \in Procs, Lookup(p) \/ Expire(p) \/ LockNotCreated(p) \/ WaitOver(p)
                                \/ Render(p) \/ Return(p) \/ Crash(p)
      PROVE  KeepsLocks
  BY <1>1, <1>2 DEF KeepsLocks, Lookup, LookupFails, LookupHit, LookupMiss, Expire, DeleteFails,
     DeleteStale, LockNotCreated, WaitOver, Render, FetchFails, Fetch, SaveFails, SaveOne,
     SaveAll, Return, Crash
<1>3. ASSUME NEW p \in Procs, NEW t \in Tiles, Request(p, t)
      PROVE  KeepsLocks
  <2>1. ~isLocked[p]
    BY <1>3 DEF Request, HolderInv
  <2>2. \A m \in Metas : Holders(m)' = Holders(m)
    BY <2>1, <1>3 DEF Request, Holders, Meta, TypeOK
  <2>3. QED
    BY <2>2, <1>3 DEF KeepsLocks, Request
<1>4. ASSUME NEW p \in Procs, LockAcquired(p)
      PROVE  Takes(p)
  BY <1>4 DEF Takes, LockAcquired, Holders, Meta, TypeOK
<1>5. ASSUME NEW p \in Procs, Unlock(p)
      PROVE  GivesBack(p)
  <2>1. isLocked[p]
    BY <1>5 DEF Unlock, HolderInv
  <2>2. QED
    BY <2>1, <1>5 DEF GivesBack, Unlock, Holders, Meta, TypeOK
<1>6. ASSUME CleanupStart \/ \E m \in Metas : CleanupRemove(m) \/ CleanupMissed(m)
      PROVE  Cleans
  BY <1>1, <1>6 DEF Cleans, CleanupStart, CleanupRemove, CleanupMissed
<1>7. CASE Tick
  BY <1>1, <1>7 DEF Tick, KeepsLocks
<1>8. CASE UNCHANGED vars
  BY <1>1, <1>8 DEF vars, KeepsLocks
<1>9. QED
  BY <1>2, <1>3, <1>4, <1>5, <1>6, <1>7, <1>8 DEF Next, Run, Lock

(* A lock file has an owner, alive or dead, in every reachable state.      *)
THEOREM LocksHaveOwners == Spec => []NoLockOutlivesItsOwners
<1>1. Init => NoLockOutlivesItsOwners
  BY DEF Init, NoLockOutlivesItsOwners
<1>2. TypeOK /\ HolderInv /\ NoLockOutlivesItsOwners /\ [Next]_vars => NoLockOutlivesItsOwners'
  <2> SUFFICES ASSUME TypeOK, HolderInv, NoLockOutlivesItsOwners, [Next]_vars
               PROVE  NoLockOutlivesItsOwners'
    OBVIOUS
  <2> USE DEF NoLockOutlivesItsOwners
  <2>0. lockfiles \subseteq Metas /\ lockfiles' \subseteq Metas
    BY TypeStep DEF TypeOK
  <2>1. ASSUME NEW p \in Procs, Takes(p)
        PROVE  NoLockOutlivesItsOwners'
    BY <2>0, <2>1 DEF Takes
  <2>2. ASSUME NEW p \in Procs, GivesBack(p)
        PROVE  NoLockOutlivesItsOwners'
    BY <2>0, <2>2 DEF GivesBack
  <2>3. CASE Cleans
    BY <2>0, <2>3 DEF Cleans, CleanupStart, CleanupRemove, CleanupMissed
  <2>4. CASE KeepsLocks
    BY <2>0, <2>4 DEF KeepsLocks
  <2>5. QED
    BY <2>1, <2>2, <2>3, <2>4, LockSteps
<1>3. QED
  BY <1>1, <1>2, TypeCorrect, HolderInvariant, PTL DEF Spec

(* Until a first start-up deletes lock files, no two processes render the  *)
(* same metatile, and each one renders behind a lock file.                 *)
THEOREM Exclusion == Spec => []ExclusiveWithoutCleanup
<1> DEFINE Exclusive == cleanups = 0 => /\ ExclusiveWithoutCleanup
                                        /\ listed = {}
<1>1. Init => Exclusive
  BY DEF Init, ExclusiveWithoutCleanup, OneRendererPerMetatile
<1>2. TypeOK /\ HolderInv /\ Exclusive /\ [Next]_vars => Exclusive'
  <2> SUFFICES ASSUME TypeOK, HolderInv, Exclusive, [Next]_vars, cleanups' = 0
               PROVE  ExclusiveWithoutCleanup' /\ listed' = {}
    BY DEF ExclusiveWithoutCleanup
  <2>1. \A p \in Procs : Meta(p) \in Metas /\ Meta(p)' \in Metas
    BY TypeStep, MetaOfTile DEF TypeOK, Meta
  <2>2. cleanups \in Nat
    BY ConfigAssumption DEF TypeOK
  <2> DEFINE Alone == \A m \in Metas : \A p, q \in Holders(m) : p = q /\ m \in lockfiles
  <2>3. cleanups = 0 => (Alone <=> ExclusiveWithoutCleanup)
    BY <2>1 DEF ExclusiveWithoutCleanup, OneRendererPerMetatile, Holders
  <2>4. Alone' <=> ExclusiveWithoutCleanup'
    BY <2>1 DEF ExclusiveWithoutCleanup, OneRendererPerMetatile, Holders
  <2>5. ASSUME NEW p \in Procs, Takes(p)
        PROVE  Alone' /\ listed' = {}
    BY <2>3, <2>5 DEF Takes
  <2>6. ASSUME NEW p \in Procs, GivesBack(p)
        PROVE  Alone' /\ listed' = {}
    BY <2>1, <2>3, <2>6 DEF GivesBack
  <2>7. CASE Cleans
    BY <2>2, <2>7 DEF Cleans, CleanupStart, CleanupRemove, CleanupMissed
  <2>8. ASSUME KeepsLocks
        PROVE  Alone' /\ listed' = {}
    BY <2>3, <2>8 DEF KeepsLocks
  <2> HIDE DEF Alone
  <2>9. QED
    BY <2>4, <2>5, <2>6, <2>7, <2>8, LockSteps
<1>3. Exclusive => ExclusiveWithoutCleanup
  BY DEF ExclusiveWithoutCleanup
<1>4. QED
  BY <1>1, <1>2, <1>3, TypeCorrect, HolderInvariant, PTL DEF Spec
(* Each clean-up adds one renderer of a metatile at most. RendererBudget   *)
(* counts, beside the owners of a metatile, the listed lock file that is   *)
(* about to be deleted, and lets the lock file itself stand for an owner.  *)

RendererBudget ==
  \A m \in Metas : Cardinality(Holders(m)) + (IF m \in listed THEN 1 ELSE 0)
                     <= cleanups + (IF m \in lockfiles THEN 1 ELSE 0)

LEMMA HoldersFinite ==
  \A m \in Metas : IsFiniteSet(Holders(m)) /\ Cardinality(Holders(m)) \in Nat
<1>1. \A m \in Metas : Holders(m) \in SUBSET Procs
  BY DEF Holders
<1>2. QED
  BY <1>1, FS_Subset, FS_CardinalityType, ConfigAssumption

LEMMA BudgetInvariant == Spec => []RendererBudget
<1>1. Init => RendererBudget
  <2> SUFFICES ASSUME Init, NEW m \in Metas
               PROVE  Cardinality(Holders(m)) = 0
    BY DEF Init, RendererBudget
  <2>1. Holders(m) = {}
    BY DEF Init, Holders
  <2>2. QED
    BY <2>1, FS_EmptySet
<1>2. TypeOK /\ HolderInv /\ RendererBudget /\ [Next]_vars => RendererBudget'
  <2> SUFFICES ASSUME TypeOK, HolderInv, RendererBudget, [Next]_vars, NEW m \in Metas
               PROVE  Cardinality(Holders(m)') + (IF m \in listed' THEN 1 ELSE 0)
                        <= cleanups' + (IF m \in lockfiles' THEN 1 ELSE 0)
    BY DEF RendererBudget
  <2>1. /\ Cardinality(Holders(m)) + (IF m \in listed THEN 1 ELSE 0)
             <= cleanups + (IF m \in lockfiles THEN 1 ELSE 0)
        /\ cleanups \in Nat
        /\ IsFiniteSet(Holders(m)) /\ Cardinality(Holders(m)) \in Nat
    BY HoldersFinite, ConfigAssumption DEF RendererBudget, TypeOK
  <2>2. ASSUME NEW p \in Procs, Takes(p), m = Meta(p)
        PROVE  Cardinality(Holders(m)') + (IF m \in listed' THEN 1 ELSE 0)
                 <= cleanups' + (IF m \in lockfiles' THEN 1 ELSE 0)
    <3>1. Holders(m)' = Holders(m) \union {p}
      BY <2>2 DEF Takes
    <3>2. Cardinality(Holders(m) \union {p})
            = IF p \in Holders(m) THEN Cardinality(Holders(m)) ELSE Cardinality(Holders(m)) + 1
      BY <2>1, FS_AddElement
    <3>3. QED
      BY <2>1, <2>2, <3>1, <3>2 DEF Takes
  <2>3. ASSUME NEW p \in Procs, GivesBack(p), m = Meta(p)
        PROVE  Cardinality(Holders(m)') + (IF m \in listed' THEN 1 ELSE 0)
                 <= cleanups' + (IF m \in lockfiles' THEN 1 ELSE 0)
    <3>1. Holders(m)' = Holders(m) \ {p} /\ p \in Holders(m)
      BY <2>3 DEF GivesBack
    <3>2. Cardinality(Holders(m)') = Cardinality(Holders(m)) - 1
      BY <2>1, <3>1, FS_RemoveElement
    <3>3. QED
      BY <2>1, <2>3, <3>2 DEF GivesBack
  <2>4. ASSUME NEW p \in Procs, Takes(p) \/ GivesBack(p), m # Meta(p)
        PROVE  Cardinality(Holders(m)') + (IF m \in listed' THEN 1 ELSE 0)
                 <= cleanups' + (IF m \in lockfiles' THEN 1 ELSE 0)
    BY <2>1, <2>4 DEF Takes, GivesBack
  <2>5. CASE Cleans
    <3>1. Holders(m)' = Holders(m)
      BY <2>5 DEF Cleans
    <3>2. CASE CleanupStart
      BY <2>1, <3>1, <3>2 DEF CleanupStart
    <3>3. CASE \E n \in Metas : CleanupRemove(n) \/ CleanupMissed(n)
      BY <2>1, <3>1, <3>3 DEF CleanupRemove, CleanupMissed
    <3>4. QED
      BY <2>5, <3>2, <3>3 DEF Cleans
  <2>6. CASE KeepsLocks
    BY <2>1, <2>6 DEF KeepsLocks
  <2>7. QED
    BY <2>2, <2>3, <2>4, <2>5, <2>6, LockSteps
<1>3. QED
  BY <1>1, <1>2, TypeCorrect, HolderInvariant, PTL DEF Spec

THEOREM CleanupsBoundRenderers == Spec => []OneMoreRendererPerCleanup
<1>1. TypeOK /\ RendererBudget => OneMoreRendererPerCleanup
  <2> SUFFICES ASSUME TypeOK, RendererBudget, NEW m \in Metas
               PROVE  Cardinality(Holders(m)) <= 1 + cleanups
    BY DEF OneMoreRendererPerCleanup
  <2>1. /\ Cardinality(Holders(m)) + (IF m \in listed THEN 1 ELSE 0)
             <= cleanups + (IF m \in lockfiles THEN 1 ELSE 0)
        /\ cleanups \in Nat
        /\ Cardinality(Holders(m)) \in Nat
    BY HoldersFinite, ConfigAssumption DEF RendererBudget, TypeOK
  <2>2. QED
    BY <2>1
<1>2. QED
  BY <1>1, TypeCorrect, BudgetInvariant, PTL

-----------------------------------------------------------------------------
(* The requests implement the filling of metatiles, where one more process *)
(* may fill a metatile for every start-up that swept the lock files.       *)

THEOREM RequestsFill == Spec => FillSpec
<1>1. Init => Fill!Init
  <2> SUFFICES ASSUME Init PROVE Fill!Init
    OBVIOUS
  <2>1. cache \in [Tiles -> Times]
    BY ConfigAssumption DEF Init, Times, Missing
  <2>2. \A m \in Metas : Holders(m) = {}
    BY DEF Init, Holders
  <2>3. cleanups = 0
    BY DEF Init
  <2>4. QED
    BY <2>1, <2>2, <2>3 DEF Fill!Init
<1>2. TypeOK /\ HolderInv /\ RendererBudget /\ [Next]_vars => [Fill!Next]_Fill!vars
  <2> SUFFICES ASSUME TypeOK, HolderInv, RendererBudget, [Next]_vars
               PROVE  Fill!Next \/ UNCHANGED Fill!vars
    OBVIOUS
  <2>1. ASSUME UNCHANGED <<cache, tile, isLocked, cleanups>>
        PROVE  UNCHANGED Fill!vars
    BY <2>1 DEF Fill!vars, Holders, Meta
  <2>2. ASSUME NEW p \in Procs, LockAcquired(p)
        PROVE  Fill!Begin(Meta(p), p)
    <3>1. Meta(p) \in Metas /\ Meta(p) \notin lockfiles
      BY <2>2, SizeOfMeta DEF LockAcquired, TypeOK
    <3>2. Cardinality(Holders(Meta(p))) <= cleanups
      BY <3>1, HoldersFinite, ConfigAssumption DEF RendererBudget, TypeOK
    <3>3. \A m \in Metas :
            Holders(m)' = IF m = Meta(p) THEN Holders(m) \union {p} ELSE Holders(m)
      BY <2>2, <3>1 DEF LockAcquired, locals, Holders, Meta, TypeOK
    <3>4. UNCHANGED <<cache, cleanups>>
      BY <2>2 DEF LockAcquired, world
    <3>5. QED
      (* The instance has a Cardinality of its own.                        *)
      BY <3>1, <3>2, <3>3, <3>4 DEF Fill!Begin, Fill!Cardinality, Cardinality
  <2>3. ASSUME NEW p \in Procs, pc[p] \in {"save", "unlock"}
        PROVE  Meta(p) \in Metas /\ p \in Holders(Meta(p))
    BY <2>3, SizeOfMeta DEF HolderInv, Holders, TypeOK
  <2>4. ASSUME NEW p \in Procs, Unlock(p)
        PROVE  Fill!End(Meta(p), p)
    <3>1. Meta(p) \in Metas /\ p \in Holders(Meta(p))
      BY <2>3, <2>4 DEF Unlock
    <3>2. \A m \in Metas : Holders(m)' = IF m = Meta(p) THEN Holders(m) \ {p} ELSE Holders(m)
      BY <2>4, <3>1 DEF Unlock, Holders, Meta, TypeOK
    <3>3. UNCHANGED <<cache, cleanups>>
      BY <2>4 DEF Unlock, world
    <3>4. QED
      BY <3>1, <3>2, <3>3 DEF Fill!End
  <2>5. ASSUME NEW p \in Procs, SaveOne(p)
        PROVE  Fill!Put(Meta(p), p)
    <3> DEFINE t == MetaSeq[Meta(p)][step[p]]
    <3>1. Meta(p) \in Metas /\ p \in Holders(Meta(p))
      BY <2>3, <2>5 DEF SaveOne
    <3>2. step[p] <= Size(p)
      BY <2>5, SizeOfMeta DEF SaveOne, TypeOK
    <3>3. t \in Tiles /\ MetaOf(t) = Meta(p)
      BY <3>2, WalkedTiles
    <3>4. cache' = [u \in Tiles |-> IF u \in {t} THEN clock ELSE cache[u]]
      BY <2>5 DEF SaveOne, TypeOK
    <3>5. UNCHANGED <<tile, isLocked, cleanups>>
      BY <2>5 DEF SaveOne, world
    <3>6. \A m \in Metas : Holders(m)' = Holders(m)
      BY <3>5 DEF Holders, Meta
    <3>7. {t} \in SUBSET {u \in Tiles : MetaOf(u) = Meta(p)} /\ clock \in Times \ {Missing}
      BY <3>3 DEF TypeOK, Missing
    <3> HIDE DEF t
    <3>8. QED
      BY <3>1, <3>4, <3>5, <3>6, <3>7 DEF Fill!Put
  <2>6. ASSUME NEW p \in Procs, SaveAll(p)
        PROVE  Fill!Put(Meta(p), p)
    <3> DEFINE T == {t \in Tiles : \E i \in DOMAIN MetaSeq[Meta(p)] : MetaSeq[Meta(p)][i] = t}
    <3>1. Meta(p) \in Metas /\ p \in Holders(Meta(p))
      BY <2>3, <2>6 DEF SaveAll
    <3>2. T \in SUBSET {u \in Tiles : MetaOf(u) = Meta(p)} /\ clock \in Times \ {Missing}
      BY <3>1, MetaOfMember DEF TypeOK, Missing
    <3>3. cache' = [u \in Tiles |-> IF u \in T THEN clock ELSE cache[u]]
      BY <2>6 DEF SaveAll
    <3>4. UNCHANGED <<tile, isLocked, cleanups>>
      BY <2>6 DEF SaveAll, world
    <3>5. \A m \in Metas : Holders(m)' = Holders(m)
      BY <3>4 DEF Holders, Meta
    <3> HIDE DEF T
    <3>6. QED
      BY <3>1, <3>2, <3>3, <3>4, <3>5 DEF Fill!Put
  <2>7. ASSUME NEW p \in Procs, DeleteStale(p)
        PROVE  Fill!Next \/ UNCHANGED Fill!vars
    <3> DEFINE t == DeleteOrder(p)[step[p]]
    <3>1. cache' = [cache EXCEPT ![t] = Missing] /\ UNCHANGED <<tile, isLocked, cleanups>>
      BY <2>7 DEF DeleteStale, world
    <3> HIDE DEF t
    <3>2. \A m \in Metas : Holders(m)' = Holders(m)
      BY <3>1 DEF Holders, Meta
    <3>3. CASE t \in Tiles
      BY <3>1, <3>2, <3>3 DEF Fill!Next, Fill!Drop
    <3>4. CASE t \notin Tiles
      BY <3>1, <3>2, <3>4 DEF Fill!vars, TypeOK
    <3>5. QED
      BY <3>3, <3>4
  <2>8. ASSUME NEW p \in Procs, NEW t \in Tiles, Request(p, t)
        PROVE  UNCHANGED Fill!vars
    <3>1. ~isLocked[p] /\ UNCHANGED <<cache, isLocked, cleanups>>
      BY <2>8 DEF Request, HolderInv, world
    <3>2. \A m \in Metas : Holders(m)' = Holders(m)
      BY <2>8, <3>1 DEF Request, Holders, Meta, TypeOK
    <3>3. QED
      BY <3>1, <3>2 DEF Fill!vars
  <2>9. ASSUME NEW p \in Procs, \/ Lookup(p) \/ DeleteFails(p) \/ LockNotCreated(p)
                                 \/ WaitOver(p) \/ FetchFails(p) \/ Fetch(p) \/ SaveFails(p)
                                 \/ Return(p) \/ Crash(p)
        PROVE  UNCHANGED <<cache, tile, isLocked, cleanups>>
    BY <2>9 DEF locals, world, Lookup, LookupFails, LookupHit, LookupMiss, DeleteFails, LockNotCreated,
       WaitOver, FetchFails, Fetch, SaveFails, Return, Crash
  <2>10. CASE Tick \/ \E m \in Metas : CleanupRemove(m) \/ CleanupMissed(m)
    BY <2>1, <2>10 DEF locals, Tick, CleanupRemove, CleanupMissed
  <2>11. CASE CleanupStart
    <3>1. UNCHANGED <<cache, tile, isLocked>> /\ cleanups' = cleanups + 1
      BY <2>11 DEF CleanupStart, locals
    <3>2. \A m \in Metas : Holders(m)' = Holders(m)
      BY <3>1 DEF Holders, Meta
    <3>3. QED
      BY <3>1, <3>2 DEF Fill!Sweep, Fill!Next
  <2>12. CASE UNCHANGED vars
    BY <2>1, <2>12 DEF vars
  <2>13. ASSUME NEW p \in Procs, Run(p)
         PROVE  Fill!Next \/ UNCHANGED Fill!vars
    <3>1. Meta(p) \in Metas
      BY SizeOfMeta DEF TypeOK
    <3>2. QED
      BY <2>13, <3>1, <2>1, <2>2, <2>4, <2>5, <2>6, <2>7, <2>9
         DEF Run, Expire, Lock, Render, Fill!Next
  <2>14. QED
    BY <2>1, <2>8, <2>9, <2>10, <2>12, <2>13, <2>11 DEF Next
<1>3. QED
  BY <1>1, <1>2, TypeCorrect, HolderInvariant, BudgetInvariant, PTL DEF Spec, FillSpec, Fill!Spec


-----------------------------------------------------------------------------
(* What a request leaves in the cache. While nothing disturbs it, nobody   *)
(* deletes tiles, a process that saves has stored the tiles it walked      *)
(* over, and who waits waits for a lock file or has its tile already.      *)

Cached(t) == cache[t] # Missing
StoredUpTo(p, n) == \A i \in DOMAIN MetaSeq[Meta(p)] : i <= n => Cached(MetaSeq[Meta(p)][i])
StoredInv ==
  Undisturbed =>
    /\ listed = {}
    /\ \A p \in Procs :
         /\ pc[p] # "expire"
         /\ pc[p] = "save" => StoredUpTo(p, step[p] - 1)
         /\ pc[p] = "unlock" => StoredUpTo(p, Size(p))
         /\ pc[p] = "wait" => Meta(p) \in lockfiles \/ Cached(tile[p])
         /\ pc[p] = "done" /\ reply[p].err = "none" /\ ~reply[p].nodata => Cached(tile[p])

(* Nothing that was disturbed settles again.                               *)
LEMMA DisturbedStays == TypeOK /\ [Next]_vars /\ Undisturbed' => Undisturbed
<1> SUFFICES ASSUME TypeOK, TypeOK', [Next]_vars, Undisturbed' PROVE Undisturbed
  BY TypeStep
<1>1. clock \in Int /\ crashes \in Nat /\ cleanups \in Nat /\ AutoExpire \in Nat
  BY ConfigAssumption DEF TypeOK, Times
<1>2. clock' >= clock /\ crashes' >= crashes /\ cleanups' >= cleanups
  <2>1. ASSUME NEW p \in Procs, Lookup(p) \/ Expire(p) \/ Lock(p) \/ WaitOver(p)
        PROVE  UNCHANGED world
    BY <2>1 DEF Lookup, Expire, Lock, LookupFails, LookupHit, LookupMiss, DeleteFails, DeleteStale,
       LockAcquired, LockNotCreated, WaitOver
  <2>2. ASSUME NEW p \in Procs, Render(p) \/ Unlock(p) \/ Return(p) \/ \E t \in Tiles : Request(p, t)
        PROVE  UNCHANGED world
    BY <2>2 DEF Render, FetchFails, Fetch, SaveFails, SaveOne, SaveAll, Unlock, Return, Request
  <2>3. CASE \E p \in Procs : Run(p) \/ \E t \in Tiles : Request(p, t)
    BY <1>1, <2>1, <2>2, <2>3 DEF Run, world
  <2>4. CASE \E p \in Procs : Crash(p)
    BY <1>1, <2>4 DEF Crash
  <2>5. CASE CleanupStart \/ \E m \in Metas : CleanupRemove(m) \/ CleanupMissed(m)
    BY <1>1, <2>5 DEF CleanupStart, CleanupRemove, CleanupMissed
  <2>6. CASE Tick \/ UNCHANGED vars
    BY <1>1, <2>6 DEF Tick, vars
  <2>7. QED
    BY <2>3, <2>4, <2>5, <2>6 DEF Next
<1>3. clock' \in Int /\ crashes' \in Nat /\ cleanups' \in Nat
  BY ConfigAssumption DEF TypeOK, Times
<1>4. QED
  BY <1>1, <1>2, <1>3 DEF Undisturbed

(* A step that deletes nothing and after which the process that took it    *)
(* is in order keeps the others in order.                                  *)
LEMMA OthersStored ==
  ASSUME StoredInv, Undisturbed, Undisturbed', NEW p \in Procs,
         \A q \in Procs \ {p} : /\ pc'[q] = pc[q] /\ step'[q] = step[q] /\ tile'[q] = tile[q]
                                /\ reply'[q] = reply[q],
         \A t \in Tiles : Cached(t) => Cached(t)', tile \in [Procs -> Tiles],
         \A q \in Procs \ {p} : Meta(q) \in lockfiles => Meta(q) \in lockfiles' \/ Cached(tile[q])',
         listed' = {}, pc'[p] # "expire",
         pc'[p] = "save" => StoredUpTo(p, step[p] - 1)',
         pc'[p] = "unlock" => StoredUpTo(p, Size(p))',
         pc'[p] = "wait" => Meta(p)' \in lockfiles' \/ Cached(tile[p])',
         pc'[p] = "done" /\ reply'[p].err = "none" /\ ~reply'[p].nodata => Cached(tile[p])'
  PROVE  StoredInv'
<1>1. ASSUME NEW q \in Procs
      PROVE  /\ pc'[q] # "expire"
             /\ pc'[q] = "save" => StoredUpTo(q, step[q] - 1)'
             /\ pc'[q] = "unlock" => StoredUpTo(q, Size(q))'
             /\ pc'[q] = "wait" => Meta(q)' \in lockfiles' \/ Cached(tile[q])'
             /\ pc'[q] = "done" /\ reply'[q].err = "none" /\ ~reply'[q].nodata => Cached(tile[q])'
  <2>1. CASE q = p
    BY <2>1
  <2>2. CASE q # p
    <3>1. Meta(q)' = Meta(q) /\ Size(q)' = Size(q) /\ Meta(q) \in Metas /\ tile[q] \in Tiles
      BY <2>2, SizeOfMeta DEF Meta, Size
    <3>2. ASSUME NEW n, StoredUpTo(q, n) PROVE StoredUpTo(q, n)'
      <4>1. \A i \in DOMAIN MetaSeq[Meta(q)] : MetaSeq[Meta(q)][i] \in Tiles
        BY <3>1, MetaOfMember
      <4>2. QED
        BY <3>1, <3>2, <4>1 DEF StoredUpTo
    <3>3. /\ pc[q] = "save" => StoredUpTo(q, step[q] - 1)'
          /\ pc[q] = "unlock" => StoredUpTo(q, Size(q))'
      <4>1. ASSUME pc[q] = "save" PROVE StoredUpTo(q, step[q] - 1)'
        <5>1. StoredUpTo(q, step[q] - 1)
          BY <4>1 DEF StoredInv
        <5>2. QED
          BY <2>2, <3>1, <3>2, <5>1 DEF StoredUpTo
      <4>2. ASSUME pc[q] = "unlock" PROVE StoredUpTo(q, Size(q))'
        <5>1. StoredUpTo(q, Size(q))
          BY <4>2 DEF StoredInv
        <5>2. QED
          BY <2>2, <3>1, <3>2, <5>1 DEF StoredUpTo
      <4>3. QED
        BY <4>1, <4>2
    <3>4. /\ pc[q] # "expire"
          /\ pc[q] = "wait" => Meta(q) \in lockfiles \/ Cached(tile[q])
          /\ pc[q] = "done" /\ reply[q].err = "none" /\ ~reply[q].nodata => Cached(tile[q])
      BY DEF StoredInv
    <3>5. tile'[q] = tile[q] /\ pc'[q] = pc[q] /\ reply'[q] = reply[q] /\ (Cached(tile[q]) => Cached(tile[q])')
      BY <2>2, <3>1 DEF Cached
    <3>6. Meta(q) \in lockfiles => Meta(q)' \in lockfiles' \/ Cached(tile[q])'
      BY <2>2, <3>1
    <3>7. QED
      BY <3>3, <3>4, <3>5, <3>6
  <2>3. QED
    BY <2>1, <2>2
<1>2. QED
  BY <1>1 DEF StoredInv

(* The last tile of a metatile is stored when they all are.                *)
LEMMA AllStored ==
  ASSUME tile \in [Procs -> Tiles], NEW p \in Procs, StoredUpTo(p, Size(p)),
         NEW t \in Tiles, MetaOf(t) = Meta(p)
  PROVE  Cached(t)
<1>1. PICK i \in DOMAIN MetaSeq[Meta(p)] : MetaSeq[Meta(p)][i] = t
  BY MetaOfTile
<1>2. i <= Size(p)
  <2>1. MetaSeq[Meta(p)] \in Seq(Tiles)
    BY SizeOfMeta, MetaSeqAssumption
  <2>2. QED
    BY <1>1, <2>1 DEF Size
<1>3. QED
  BY <1>1, <1>2 DEF StoredUpTo

LEMMA StoredInit == Init => StoredInv
<1> SUFFICES ASSUME Init PROVE StoredInv
  OBVIOUS
<1>1. \A p \in Procs : pc[p] = "idle"
  BY DEF Init
<1>2. QED
  BY <1>1 DEF Init, StoredInv

LEMMA StoredStep == TypeOK /\ TypeOK' /\ StoredInv /\ [Next]_vars => StoredInv'
<1> SUFFICES ASSUME TypeOK, TypeOK', StoredInv, [Next]_vars, Undisturbed'
             PROVE  StoredInv'
  BY DEF StoredInv
<1> USE DEF Goto, Fail, world, locals
<1>1. Undisturbed
  BY DisturbedStays
<1>2. /\ listed = {}
      /\ \A p \in Procs :
           /\ pc[p] # "expire"
           /\ pc[p] = "save" => StoredUpTo(p, step[p] - 1)
           /\ pc[p] = "unlock" => StoredUpTo(p, Size(p))
           /\ pc[p] = "wait" => Meta(p) \in lockfiles \/ Cached(tile[p])
           /\ pc[p] = "done" /\ reply[p].err = "none" /\ ~reply[p].nodata => Cached(tile[p])
  BY <1>1 DEF StoredInv
<1>3. /\ tile \in [Procs -> Tiles] /\ pc \in [Procs -> Labels] /\ reply \in [Procs -> Replies]
      /\ step \in [Procs -> Nat \ {0}] /\ cache \in [Tiles -> Times] /\ clock \in Times \ {0}
      /\ clock # Missing
  BY DEF TypeOK, Times, Missing
<1>4. \A p \in Procs : Meta(p) \in Metas /\ Size(p) \in Nat \ {0} /\ MetaOf(tile[p]) = Meta(p)
  BY <1>3, SizeOfMeta DEF Meta
<1>5. /\ "lock" \notin MayFail /\ "source" \notin MayFail /\ "set" \notin MayFail
      /\ crashes' = 0 /\ cleanups' = 0 /\ crashes = 0 /\ cleanups = 0
  BY <1>1 DEF Undisturbed
<1>6. ASSUME NEW p \in Procs, LookupFails(p) \/ LookupMiss(p) \/ Return(p) \/ Fetch(p)
                              \/ \E t \in Tiles : Request(p, t)
      PROVE  StoredInv'
  <2>1. /\ UNCHANGED <<cache, lockfiles, listed, step>>
        /\ \A q \in Procs \ {p} : pc'[q] = pc[q] /\ tile'[q] = tile[q] /\ reply'[q] = reply[q]
    BY <1>3, <1>6 DEF LookupFails, LookupMiss, AfterMiss, Return, Fetch, Request
  <2>2. CASE LookupFails(p)
    BY <1>1, <1>2, <1>3, <2>1, <2>2, OthersStored DEF LookupFails, Cached, Replies
  <2>3. CASE LookupMiss(p)
    <3>1. pc'[p] = "lock" \/ (pc'[p] = "done" /\ (reply'[p].err = "404" \/ reply'[p].nodata))
      BY <1>3, <2>3 DEF LookupMiss, AfterMiss, Replies
    <3>2. QED
      BY <1>1, <1>2, <1>3, <2>1, <3>1, OthersStored DEF Cached
  <2>4. CASE Return(p) \/ \E t \in Tiles : Request(p, t)
    <3>1. pc'[p] \in {"idle", "lookup"}
      BY <1>3, <2>4 DEF Return, Request
    <3>2. QED
      BY <1>1, <1>2, <1>3, <2>1, <3>1, OthersStored DEF Cached
  <2>5. CASE Fetch(p)
    <3>1. pc'[p] = "save" /\ step'[p] = step[p] /\ tile' = tile
      BY <1>3, <2>5 DEF Fetch
    <3>2. step[p] = 1
      BY <1>3, <2>5 DEF Fetch, TypeOK, WalkOK
    <3>3. StoredUpTo(p, step[p] - 1)'
      <4>1. MetaSeq[Meta(p)] \in Seq(Tiles) /\ Meta(p)' = Meta(p)
        BY <1>4, <3>1, MetaSeqAssumption DEF Meta
      <4>2. \A i \in DOMAIN MetaSeq[Meta(p)] : ~(i <= 0)
        BY <4>1
      <4>3. QED
        BY <3>1, <3>2, <4>1, <4>2 DEF StoredUpTo
    <3>4. QED
      BY <1>1, <1>2, <1>3, <2>1, <3>1, <3>3, OthersStored DEF Cached
  <2>6. QED
    BY <1>6, <2>2, <2>3, <2>4, <2>5
<1>7. ASSUME NEW p \in Procs, LookupHit(p) PROVE StoredInv'
  <2>1. /\ UNCHANGED <<cache, lockfiles, listed, step, tile>> /\ Cached(tile[p]) /\ tile[p] \in Tiles
        /\ \A q \in Procs \ {p} : pc'[q] = pc[q] /\ reply'[q] = reply[q]
    BY <1>3, <1>7 DEF LookupHit, Cached
  <2>2. ~Stale(tile[p])
    <3>1. cache[tile[p]] \in Nat \ {0} /\ AutoExpire \in Nat /\ clock \in Nat
      BY <1>3, <2>1, ConfigAssumption DEF Cached, Times, Missing
    <3>2. QED
      BY <1>1, <3>1 DEF Stale, Undisturbed
  <2>3. pc'[p] = "done" /\ Cached(tile[p])'
    BY <1>3, <1>7, <2>1, <2>2 DEF LookupHit, Cached
  <2>4. QED
    BY <1>1, <1>2, <1>3, <2>1, <2>3, OthersStored DEF Cached
<1>8. ASSUME NEW p \in Procs, Expire(p) \/ FetchFails(p) \/ SaveFails(p) PROVE FALSE
  BY <1>2, <1>5, <1>8 DEF Expire, DeleteFails, DeleteStale, FetchFails, SaveFails
<1>9. ASSUME NEW p \in Procs, Lock(p) PROVE StoredInv'
  <2>1. /\ UNCHANGED <<cache, listed, step, tile, reply>> /\ lockfiles \subseteq lockfiles'
        /\ \A q \in Procs \ {p} : pc'[q] = pc[q]
        /\ pc'[p] = "source" \/ (pc'[p] = "wait" /\ Meta(p) \in lockfiles')
    BY <1>3, <1>5, <1>9 DEF Lock, LockAcquired, LockNotCreated
  <2>2. Meta(p)' = Meta(p)
    BY <2>1 DEF Meta
  <2>3. QED
    BY <1>1, <1>2, <1>3, <2>1, <2>2, OthersStored DEF Cached
<1>10. ASSUME NEW p \in Procs, WaitOver(p) PROVE StoredInv'
  <2>1. /\ UNCHANGED <<cache, listed, step, tile, reply, lockfiles>> /\ pc'[p] = "done"
        /\ \A q \in Procs \ {p} : pc'[q] = pc[q]
        /\ Cached(tile[p])
    BY <1>2, <1>3, <1>10 DEF WaitOver
  <2>2. QED
    BY <1>1, <1>2, <1>3, <2>1, OthersStored DEF Cached
<1>11. ASSUME NEW p \in Procs, SaveOne(p) PROVE StoredInv'
  <2> DEFINE x == MetaSeq[Meta(p)][step[p]]
  <2>1. /\ pc[p] = "save" /\ cache' = [cache EXCEPT ![x] = clock] /\ UNCHANGED <<lockfiles, tile, listed>>
        /\ \/ step[p] < Size(p) /\ step' = [step EXCEPT ![p] = @ + 1] /\ UNCHANGED <<pc, reply>>
           \/ step[p] = Size(p) /\ Saved(p)
    BY <1>11 DEF SaveOne
  <2>2. step[p] <= Size(p) /\ x \in Tiles
    <3>1. step[p] <= Size(p)
      BY <2>1 DEF TypeOK, WalkOK
    <3>2. QED
      BY <3>1, WalkedTiles
  <2>3. \A t \in Tiles : (Cached(t) \/ t = x) => Cached(t)'
    BY <1>3, <2>1, <2>2 DEF Cached
  <2>4. Meta(p)' = Meta(p) /\ Size(p)' = Size(p) /\ tile'[p] = tile[p]
    BY <2>1 DEF Meta, Size
  <2>5. \A i \in DOMAIN MetaSeq[Meta(p)] : i <= step[p] => Cached(MetaSeq[Meta(p)][i])'
    <3>1. StoredUpTo(p, step[p] - 1)
      BY <1>2, <2>1
    <3>2. MetaSeq[Meta(p)] \in Seq(Tiles)
      BY <1>4, MetaSeqAssumption
    <3>3. \A i \in DOMAIN MetaSeq[Meta(p)] : i <= step[p] => i <= step[p] - 1 \/ i = step[p]
      BY <1>3, <3>2
    <3>4. \A i \in DOMAIN MetaSeq[Meta(p)] : MetaSeq[Meta(p)][i] \in Tiles
      BY <1>4, MetaOfMember
    <3>5. QED
      BY <2>3, <2>4, <3>1, <3>3, <3>4 DEF StoredUpTo
  <2>6. CASE step[p] < Size(p) /\ step' = [step EXCEPT ![p] = @ + 1] /\ UNCHANGED <<pc, reply>>
    <3>1. step'[p] - 1 = step[p]
      BY <1>3, <2>6
    <3>2. StoredUpTo(p, step[p] - 1)'
      BY <2>4, <2>5, <3>1 DEF StoredUpTo
    <3>3. /\ pc'[p] = "save" /\ UNCHANGED <<lockfiles, tile, listed>>
          /\ \A q \in Procs \ {p} : /\ pc'[q] = pc[q] /\ step'[q] = step[q] /\ tile'[q] = tile[q]
                                    /\ reply'[q] = reply[q]
      BY <1>3, <2>1, <2>6
    <3>4. QED
      BY <1>1, <1>2, <1>3, <2>3, <3>2, <3>3, OthersStored
  <2>7. CASE step[p] = Size(p) /\ Saved(p)
    <3>1. StoredUpTo(p, Size(p))'
      BY <2>4, <2>5, <2>7 DEF StoredUpTo
    <3>2. /\ pc'[p] = "unlock" /\ UNCHANGED <<lockfiles, tile, listed>>
          /\ \A q \in Procs \ {p} : /\ pc'[q] = pc[q] /\ step'[q] = step[q] /\ tile'[q] = tile[q]
                                    /\ reply'[q] = reply[q]
      BY <1>3, <2>1, <2>7 DEF Saved
    <3>3. QED
      BY <1>1, <1>2, <1>3, <2>3, <3>1, <3>2, OthersStored
  <2>8. QED
    BY <2>1, <2>6, <2>7
<1>12. ASSUME NEW p \in Procs, SaveAll(p) PROVE StoredInv'
  <2>1. /\ pc[p] = "save" /\ Saved(p) /\ UNCHANGED <<lockfiles, tile, listed>>
        /\ cache' = [t \in Tiles |-> IF \E i \in DOMAIN MetaSeq[Meta(p)] : MetaSeq[Meta(p)][i] = t
                                     THEN clock ELSE cache[t]]
    BY <1>12 DEF SaveAll
  <2>2. \A t \in Tiles : Cached(t) => Cached(t)'
    BY <1>3, <2>1 DEF Cached
  <2>3. Meta(p)' = Meta(p) /\ Size(p)' = Size(p)
    BY <2>1 DEF Meta, Size
  <2>4. \A i \in DOMAIN MetaSeq[Meta(p)] : Cached(MetaSeq[Meta(p)][i])'
    <3>1. \A i \in DOMAIN MetaSeq[Meta(p)] : MetaSeq[Meta(p)][i] \in Tiles
      BY <1>4, MetaOfMember
    <3>2. QED
      BY <1>3, <2>1, <2>3, <3>1 DEF Cached
  <2>5. StoredUpTo(p, Size(p))'
    BY <2>3, <2>4 DEF StoredUpTo
  <2>6. /\ pc'[p] = "unlock"
        /\ \A q \in Procs \ {p} : /\ pc'[q] = pc[q] /\ step'[q] = step[q] /\ tile'[q] = tile[q]
                                  /\ reply'[q] = reply[q]
    BY <1>3, <2>1 DEF Saved
  <2>7. QED
    BY <1>1, <1>2, <1>3, <2>1, <2>2, <2>5, <2>6, OthersStored
<1>13. ASSUME NEW p \in Procs, Unlock(p) PROVE StoredInv'
  <2>1. /\ UNCHANGED <<cache, tile, step, listed>> /\ pc'[p] = "done" /\ pc[p] = "unlock"
        /\ lockfiles' = lockfiles \ {Meta(p)}
        /\ \A q \in Procs \ {p} : pc'[q] = pc[q] /\ reply'[q] = reply[q]
    BY <1>3, <1>13 DEF Unlock
  <2>2. StoredUpTo(p, Size(p))
    BY <1>2, <2>1
  <2>3. \A t \in Tiles : MetaOf(t) = Meta(p) => Cached(t)
    BY <1>3, <2>2, AllStored
  <2>4. \A q \in Procs : Meta(q) = Meta(p) => Cached(tile[q])
    BY <1>3, <1>4, <2>3
  <2>5. \A q \in Procs : Cached(tile[q]) <=> Cached(tile[q])'
    BY <2>1 DEF Cached
  <2>6. \A q \in Procs \ {p} : Meta(q) \in lockfiles => Meta(q) \in lockfiles' \/ Cached(tile[q])'
    BY <2>1, <2>4, <2>5
  <2>7. Cached(tile[p])'
    BY <2>4, <2>5
  <2>8. QED
    BY <1>1, <1>2, <1>3, <2>1, <2>6, <2>7, OthersStored DEF Cached
<1>14. CASE \E p \in Procs : Crash(p)
  BY <1>5, <1>14 DEF Crash
<1>15. CASE CleanupStart \/ \E m \in Metas : CleanupRemove(m) \/ CleanupMissed(m)
  BY <1>2, <1>5, <1>15 DEF CleanupStart, CleanupRemove, CleanupMissed
<1>16. CASE Tick \/ UNCHANGED vars
  <2>1. UNCHANGED <<cache, lockfiles, pc, tile, step, reply, listed>>
    BY <1>16 DEF Tick, vars
  <2>2. UNCHANGED <<cache, lockfiles, pc, tile, step, reply, listed>> => StoredInv'
    BY <1>2 DEF StoredInv, StoredUpTo, Cached, Meta, Size
  <2>3. QED
    BY <2>1, <2>2
<1>17. QED
  BY <1>6, <1>7, <1>8, <1>9, <1>10, <1>11, <1>12, <1>13, <1>14, <1>15, <1>16
     DEF Next, Run, Lookup, Render

(* While nothing fails, nobody died, no tile expired and no lock file was  *)
(* swept away, a request answered without an error and with a source has   *)
(* its tile in the cache (AnsweredMeansCached), whichever process rendered *)
(* it and however many waited for it.                                      *)
THEOREM RequestsCache == Spec => []AnsweredMeansCached
<1>1. StoredInv => AnsweredMeansCached
  BY DEF StoredInv, AnsweredMeansCached, Cached
<1>2. TypeOK /\ [Next]_vars => TypeOK'
  BY TypeStep
<1>3. QED
  BY <1>1, <1>2, TypeCorrect, StoredInit, StoredStep, PTL DEF Spec
=============================================================================
