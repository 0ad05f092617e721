------------------------------ MODULE TileGet ------------------------------
(***************************************************************************)
(* mapcache_tileset_tile_get (lib/tileset.c) run by several request        *)
(* threads or processes, with the lock files of lib/lock.c,                *)
(* the metatile rendering they protect, the expiration of old tiles, and   *)
(* the deletion of old lock files when another server or seeder reads its  *)
(* configuration (lib/configuration.c).                                    *)
(*                                                                         *)
(* A step of a process ends where another process can see or disturb it:   *)
(* one cache call, one lock file operation, one request to the source.     *)
(***************************************************************************)
EXTENDS Integers, Sequences, FiniteSets

CONSTANTS
  Procs,        \* the threads or processes that ask for tiles
  Tiles,        \* the tiles of the tilesets
  Metas,        \* their metatiles, each one named by its resource key
  MetaSeq,      \* MetaSeq[m]: the tiles of m, in the order of mt->tiles
  Sourced,      \* the metatiles of the tilesets that have a <source>
  NonBlocking,  \* the processes with config->non_blocking: the nginx workers
  AutoExpire,   \* tileset->auto_expire, 0 when it is not configured
  MultiSet,     \* the cache has a tile_multi_set (one transaction)
  BlankTiles,   \* the cache stores blank tiles without encoding them
  MayFail,      \* the calls that may fail in this run
  MaxTime,      \* bound: the last instant of the clock
  MaxCrashes,   \* bound: processes that die inside a request
  MaxCleanups   \* bound: configurations loaded by a server or by the seeder

Calls == {"get", "delete", "lock", "source", "set"}
Missing == 0

ASSUME MetaSeqAssumption ==
  /\ MetaSeq \in [Metas -> Seq(Tiles)]
  /\ \A m \in Metas : Len(MetaSeq[m]) > 0
  /\ \A t \in Tiles : \E m \in Metas : \E i \in DOMAIN MetaSeq[m] : MetaSeq[m][i] = t
  /\ \A m, n \in Metas : \A i \in DOMAIN MetaSeq[m], j \in DOMAIN MetaSeq[n] :
       MetaSeq[m][i] = MetaSeq[n][j] => m = n

ASSUME ConfigAssumption ==
  /\ IsFiniteSet(Procs)
  /\ Sourced \subseteq Metas
  /\ NonBlocking \subseteq Procs
  /\ {MultiSet, BlankTiles} \subseteq BOOLEAN
  /\ MayFail \subseteq Calls
  /\ {AutoExpire, MaxCrashes, MaxCleanups} \subseteq Nat
  /\ MaxTime \in Nat \ {0}

VARIABLES
  clock,      \* apr_time_now, in seconds
  cache,      \* cache[t]: when the stored tile t was written, or Missing
  lockfiles,  \* the metatiles whose lock file is in the lock directory
  pc,         \* pc[p]: where process p is in mapcache_tileset_tile_get
  tile,       \* tile[p]: the tile p was last asked for
  isLocked,   \* isLocked[p]: p created the lock file of its metatile
  step,       \* step[p]: index of the next tile p deletes or saves
  reply,      \* reply[p]: the tile and the context p hands to its caller
  crashes,    \* how many processes have died
  cleanups,   \* how many configurations were loaded that delete lock files
  listed      \* the lock files the current one has listed and not handled yet

vars == <<clock, cache, lockfiles, pc, tile, isLocked, step, reply, crashes, cleanups,
          listed>>
locals == <<tile, isLocked, step>>
world == <<clock, crashes, cleanups, listed>>

(* The metatile of a tile: mapcache_tileset_metatile_get. *)
MetaOf(t) == CHOOSE m \in Metas : \E i \in DOMAIN MetaSeq[m] : MetaSeq[m][i] = t
Meta(p) == MetaOf(tile[p])
Size(p) == Len(MetaSeq[Meta(p)])

Times == 0 .. MaxTime
Replies == [err : {"none", "404", "500"}, nodata : BOOLEAN, data : Times, encoded : BOOLEAN]
NoReply == [err |-> "none", nodata |-> FALSE, data |-> Missing, encoded |-> FALSE]

Goto(p, label) == pc' = [pc EXCEPT ![p] = label]
Fail(p, code, label) == /\ reply' = [reply EXCEPT ![p].err = code]
                        /\ Goto(p, label)

Init ==
  /\ clock = 1
  /\ cache \in [Tiles -> {Missing, 1}]
  /\ lockfiles = {}
  /\ pc = [p \in Procs |-> "idle"]
  /\ tile \in [Procs -> Tiles]
  /\ isLocked = [p \in Procs |-> FALSE]
  /\ step = [p \in Procs |-> 1]
  /\ reply = [p \in Procs |-> NoReply]
  /\ crashes = 0
  /\ cleanups = 0
  /\ listed = {}

(* The caller creates a tile and asks for it. *)
Request(p, t) ==
  /\ pc[p] = "idle"
  /\ tile' = [tile EXCEPT ![p] = t]
  /\ Goto(p, "lookup")
  /\ UNCHANGED <<cache, lockfiles, isLocked, step, reply, world>>

-----------------------------------------------------------------------------
(* The first cache->tile_get. *)

Stale(t) == AutoExpire > 0 /\ MetaOf(t) \in Sourced /\ cache[t] + AutoExpire < clock

LookupFails(p) ==
  /\ pc[p] = "lookup"
  /\ "get" \in MayFail
  /\ Fail(p, "500", "done")
  /\ UNCHANGED <<cache, lockfiles, locals, world>>

LookupHit(p) ==
  /\ pc[p] = "lookup"
  /\ cache[tile[p]] # Missing
  /\ reply' = [reply EXCEPT ![p].data = cache[tile[p]]]
  /\ Goto(p, IF Stale(tile[p]) THEN "expire" ELSE "done")
  /\ UNCHANGED <<cache, lockfiles, locals, world>>

(* What a cache miss leads to: nothing to do without a source, an error in *)
(* non-blocking mode, else the lock of the metatile.                       *)
AfterMiss(p) ==
  \/ /\ Meta(p) \notin Sourced
     /\ reply' = [reply EXCEPT ![p].nodata = TRUE]
     /\ Goto(p, "done")
  \/ /\ Meta(p) \in Sourced /\ p \in NonBlocking
     /\ Fail(p, "404", "done")
  \/ /\ Meta(p) \in Sourced /\ p \notin NonBlocking
     /\ Goto(p, "lock")
     /\ UNCHANGED reply

LookupMiss(p) ==
  /\ pc[p] = "lookup"
  /\ cache[tile[p]] = Missing
  /\ AfterMiss(p)
  /\ UNCHANGED <<cache, lockfiles, locals, world>>

-----------------------------------------------------------------------------
(* mapcache_tileset_tile_delete(ctx, tile, MAPCACHE_TRUE): the stale tile   *)
(* first, then the others of its metatile. No lock is held.                *)

DeleteOrder(p) ==
  LET Other(t) == t # tile[p]
  IN  <<tile[p]>> \o SelectSeq(MetaSeq[Meta(p)], Other)

DeleteFails(p) ==
  /\ pc[p] = "expire"
  /\ "delete" \in MayFail
  /\ Fail(p, "500", "done")
  /\ step' = [step EXCEPT ![p] = 1]
  /\ UNCHANGED <<cache, lockfiles, tile, isLocked, world>>

DeleteStale(p) ==
  /\ pc[p] = "expire"
  /\ cache' = [cache EXCEPT ![DeleteOrder(p)[step[p]]] = Missing]
  /\ \/ /\ step[p] < Size(p)
        /\ step' = [step EXCEPT ![p] = @ + 1]
        /\ UNCHANGED <<pc, reply>>
     \/ /\ step[p] = Size(p)
        /\ step' = [step EXCEPT ![p] = 1]
        /\ AfterMiss(p)
  /\ UNCHANGED <<lockfiles, tile, isLocked, world>>

-----------------------------------------------------------------------------
(* mapcache_lock_or_wait_for_resource and mapcache_unlock_resource.         *)

(* Mutant: the lock file is opened without APR_EXCL.                       *)
LockShared(p) ==
  /\ pc[p] = "lock"
  /\ lockfiles' = lockfiles \union {Meta(p)}
  /\ isLocked' = [isLocked EXCEPT ![p] = TRUE]
  /\ Goto(p, "source")
  /\ UNCHANGED <<cache, tile, step, reply, world>>

LockAcquired(p) ==
  /\ pc[p] = "lock"
  /\ Meta(p) \notin lockfiles
  /\ lockfiles' = lockfiles \union {Meta(p)}
  /\ isLocked' = [isLocked EXCEPT ![p] = TRUE]
  /\ Goto(p, "source")
  /\ UNCHANGED <<cache, tile, step, reply, world>>

(* Mutant: when the lock file cannot be created, render anyway.            *)
LockFailureIgnored(p) ==
  /\ pc[p] = "lock"
  /\ Meta(p) \in lockfiles \/ "lock" \in MayFail
  /\ isLocked' = [isLocked EXCEPT ![p] = TRUE]
  /\ Goto(p, "source")
  /\ UNCHANGED <<cache, lockfiles, tile, step, reply, world>>

(* The exclusive creation failed: the file exists, or the lock directory   *)
(* does not accept it, which the code does not tell apart.                 *)
LockNotCreated(p) ==
  /\ pc[p] = "lock"
  /\ Meta(p) \in lockfiles \/ "lock" \in MayFail
  /\ Goto(p, "wait")
  /\ UNCHANGED <<cache, lockfiles, locals, reply, world>>

(* Mutant: the wait gives up after some polls.                             *)
WaitTimesOut(p) ==
  /\ pc[p] = "wait"
  /\ Goto(p, "done")
  /\ UNCHANGED <<cache, lockfiles, locals, reply, world>>

(* A poll finds the lock file gone. The tile is not asked for again.       *)
WaitOver(p) ==
  /\ pc[p] = "wait"
  /\ Meta(p) \notin lockfiles
  /\ Goto(p, "done")
  /\ UNCHANGED <<cache, lockfiles, locals, reply, world>>

(* Mutant: the lock file is not removed.                                   *)
UnlockKeepsFile(p) ==
  /\ pc[p] = "unlock"
  /\ isLocked' = [isLocked EXCEPT ![p] = FALSE]
  /\ Goto(p, "done")
  /\ UNCHANGED <<cache, lockfiles, tile, step, reply, world>>

(* Mutant: a request without encoded data returns before it unlocks.       *)
UnlockIfEncoded(p) ==
  /\ pc[p] = "unlock"
  /\ lockfiles' = IF reply[p].encoded THEN lockfiles \ {Meta(p)} ELSE lockfiles
  /\ isLocked' = [isLocked EXCEPT ![p] = FALSE]
  /\ Goto(p, "done")
  /\ UNCHANGED <<cache, tile, step, reply, world>>

(* Only a metatile of one tile hands its rendered data to the caller.      *)
Unlock(p) ==
  /\ pc[p] = "unlock"
  /\ lockfiles' = lockfiles \ {Meta(p)}
  /\ isLocked' = [isLocked EXCEPT ![p] = FALSE]
  /\ reply' = IF Size(p) = 1 /\ reply[p].encoded
              THEN [reply EXCEPT ![p].data = clock] ELSE reply
  /\ Goto(p, "done")
  /\ UNCHANGED <<cache, tile, step, world>>

-----------------------------------------------------------------------------
(* mapcache_tileset_render_metatile.                                        *)

FetchFails(p) ==
  /\ pc[p] = "source"
  /\ "source" \in MayFail
  /\ Fail(p, "500", "unlock")
  /\ UNCHANGED <<cache, lockfiles, locals, world>>

(* Mutant: the lock is released once rendered, before saving.              *)
FetchUnlocks(p) ==
  /\ pc[p] = "source"
  /\ lockfiles' = lockfiles \ {Meta(p)}
  /\ isLocked' = [isLocked EXCEPT ![p] = FALSE]
  /\ Goto(p, "save")
  /\ UNCHANGED <<cache, tile, step, reply, world>>

Fetch(p) ==
  /\ pc[p] = "source"
  /\ Goto(p, "save")
  /\ UNCHANGED <<cache, lockfiles, locals, reply, world>>

(* An error stops the saving at the tile it happened on.                   *)
SaveFails(p) ==
  /\ pc[p] = "save"
  /\ "set" \in MayFail
  /\ Fail(p, "500", "unlock")
  /\ step' = [step EXCEPT ![p] = 1]
  /\ UNCHANGED <<cache, lockfiles, tile, isLocked, world>>

(* After the last tile the caller's copy depends on whether storing it     *)
(* encoded it, which blank tiles may not need.                             *)
Saved(p) ==
  /\ \E e \in IF BlankTiles THEN BOOLEAN ELSE {TRUE} :
       reply' = [reply EXCEPT ![p].encoded = e]
  /\ step' = [step EXCEPT ![p] = 1]
  /\ Goto(p, "unlock")

(* Mutant: one tile too many.                                              *)
SaveOverruns(p) ==
  /\ pc[p] = "save"
  /\ ~MultiSet
  /\ cache' = [cache EXCEPT ![MetaSeq[Meta(p)][step[p]]] = clock]
  /\ \/ /\ step[p] <= Size(p)
        /\ step' = [step EXCEPT ![p] = @ + 1]
        /\ UNCHANGED <<pc, reply>>
     \/ /\ step[p] > Size(p)
        /\ Saved(p)
  /\ UNCHANGED <<lockfiles, tile, isLocked, world>>

SaveOne(p) ==
  /\ pc[p] = "save"
  /\ ~MultiSet
  /\ cache' = [cache EXCEPT ![MetaSeq[Meta(p)][step[p]]] = clock]
  /\ \/ /\ step[p] < Size(p)
        /\ step' = [step EXCEPT ![p] = @ + 1]
        /\ UNCHANGED <<pc, reply>>
     \/ /\ step[p] = Size(p)
        /\ Saved(p)
  /\ UNCHANGED <<lockfiles, tile, isLocked, world>>

SaveAll(p) ==
  /\ pc[p] = "save"
  /\ MultiSet
  /\ cache' = [t \in Tiles |-> IF \E i \in DOMAIN MetaSeq[Meta(p)] : MetaSeq[Meta(p)][i] = t
                               THEN clock ELSE cache[t]]
  /\ Saved(p)
  /\ UNCHANGED <<lockfiles, tile, isLocked, world>>

-----------------------------------------------------------------------------
(* The caller takes the reply, and may come back with another request.     *)
Return(p) ==
  /\ pc[p] = "done"
  /\ reply' = [reply EXCEPT ![p] = NoReply]
  /\ Goto(p, "idle")
  /\ UNCHANGED <<cache, lockfiles, locals, world>>

(* The process is killed inside a request: its lock file stays.            *)
Crash(p) ==
  /\ pc[p] \notin {"idle", "done", "dead"}
  /\ crashes < MaxCrashes
  /\ crashes' = crashes + 1
  /\ Goto(p, "dead")
  /\ UNCHANGED <<clock, cleanups, listed, cache, lockfiles, locals, reply>>

-----------------------------------------------------------------------------
(* mapcache_configuration_parse with cgi = 0, by any program sharing the   *)
(* lock directory: it deletes every lock file it finds there.              *)

CleanupStart ==
  /\ cleanups < MaxCleanups
  /\ listed = {}
  /\ cleanups' = cleanups + 1
  /\ listed' = lockfiles
  /\ UNCHANGED <<clock, crashes, cache, lockfiles, pc, locals, reply>>

CleanupRemove(m) ==
  /\ m \in listed
  /\ m \in lockfiles
  /\ lockfiles' = lockfiles \ {m}
  /\ listed' = listed \ {m}
  /\ UNCHANGED <<clock, crashes, cleanups, cache, pc, locals, reply>>

(* Its owner was faster. Either the directory no longer shows the file, or *)
(* the failing removal makes the whole configuration fail to load.         *)
CleanupMissed(m) ==
  /\ m \in listed
  /\ m \notin lockfiles
  /\ listed' \in {{}, listed \ {m}}
  /\ UNCHANGED <<clock, crashes, cleanups, cache, lockfiles, pc, locals, reply>>

Tick ==
  /\ clock < MaxTime
  /\ clock' = clock + 1
  /\ UNCHANGED <<crashes, cleanups, listed, cache, lockfiles, pc, locals, reply>>

Lookup(p) == LookupFails(p) \/ LookupHit(p) \/ LookupMiss(p)
Expire(p) == DeleteFails(p) \/ DeleteStale(p)
Lock(p) == LockAcquired(p) \/ LockNotCreated(p)
Render(p) == FetchFails(p) \/ Fetch(p) \/ SaveFails(p) \/ SaveOne(p) \/ SaveAll(p)

(* The steps a live process keeps taking once it was asked for a tile.     *)
Run(p) == Lookup(p) \/ Expire(p) \/ Lock(p) \/ WaitOver(p) \/ Render(p) \/ Unlock(p)
            \/ Return(p)

Next ==
  \/ \E p \in Procs : Run(p) \/ Crash(p) \/ \E t \in Tiles : Request(p, t)
  \/ CleanupStart
  \/ \E m \in Metas : CleanupRemove(m) \/ CleanupMissed(m)
  \/ Tick

Spec == Init /\ [][Next]_vars

(* The operating system keeps scheduling every live process. Requests,     *)
(* crashes, clean-ups and the passing of time need not happen.             *)
FairSpec == Spec /\ \A p \in Procs : WF_vars(Run(p))

-----------------------------------------------------------------------------
(* Properties.                                                              *)

Labels == {"idle", "lookup", "expire", "lock", "wait", "source", "save", "unlock",
           "done", "dead"}

(* A process walks over the tiles of its metatile to delete or save them.   *)
WalkOK ==
  \A p \in Procs : step[p] <= IF pc[p] \in {"expire", "save", "dead"} THEN Size(p) ELSE 1

(* Every variable keeps its type, and a process walks inside its metatile. *)
TypeOK ==
  /\ clock \in Times \ {0}
  /\ cache \in [Tiles -> Times]
  /\ lockfiles \subseteq Metas
  /\ pc \in [Procs -> Labels]
  /\ tile \in [Procs -> Tiles]
  /\ isLocked \in [Procs -> BOOLEAN]
  /\ step \in [Procs -> Nat \ {0}]
  /\ WalkOK
  /\ reply \in [Procs -> Replies]
  /\ crashes \in 0 .. MaxCrashes
  /\ cleanups \in 0 .. MaxCleanups
  /\ listed \subseteq Metas

(* The processes, dead ones included, that created the lock file of m and  *)
(* did not remove it.                                                      *)
Holders(m) == {p \in Procs : isLocked[p] /\ Meta(p) = m}

(* Two processes never render one metatile.                                *)
OneRendererPerMetatile ==
  \A p, q \in Procs : isLocked[p] /\ isLocked[q] /\ Meta(p) = Meta(q) => p = q

(* While nobody deletes lock files at start-up, rendering is exclusive and *)
(* no process renders without its lock file.                               *)
ExclusiveWithoutCleanup ==
  cleanups = 0 => /\ OneRendererPerMetatile
                  /\ \A p \in Procs : isLocked[p] => Meta(p) \in lockfiles

(* A lock file never outlives the processes, dead ones included, that took *)
(* it: even when owners remove each other's files, whoever waits waits for *)
(* a process that has still to call mapcache_unlock_resource.              *)
NoLockOutlivesItsOwners == \A m \in lockfiles : Holders(m) # {}

(* Deleting live lock files lets one more process in, and the owner that   *)
(* finishes then removes the lock of the other one, without end: still,    *)
(* every start-up adds one renderer of a metatile at most.                 *)
OneMoreRendererPerCleanup ==
  \A m \in Metas : Cardinality(Holders(m)) <= 1 + cleanups

(* While no call that stores tiles fails, nobody has died, no tile has     *)
(* expired and no lock file was swept away, a request that ends without an *)
(* error and has a source leaves its tile in the cache, whichever process  *)
(* rendered it.                                                            *)
Undisturbed ==
  /\ MayFail \cap {"lock", "source", "set"} = {}
  /\ crashes = 0 /\ cleanups = 0
  /\ AutoExpire > 0 => clock <= 1 + AutoExpire
AnsweredMeansCached ==
  \A p \in Procs :
    Undisturbed /\ pc[p] = "done" /\ reply[p].err = "none" /\ ~reply[p].nodata
      => cache[tile[p]] # Missing

(* "if another thread is rendering, wait for it to finish and return it's  *)
(* data" (lib/tileset.c:585): a reply without an error carries the tile,   *)
(* unless the tileset has no source to make it from.                       *)
ReplyCarriesTheTile ==
  \A p \in Procs :
    pc[p] = "done" /\ reply[p].err = "none" /\ ~reply[p].nodata => reply[p].data # Missing

(* "automatically re-request tiles and update the cache once they are      *)
(* older" (mapcache.xml.sample:682): a tile that a request found expired   *)
(* is in the cache again later on.                                         *)
ExpiredComesBack ==
  \A t \in Tiles : (\E p \in Procs : pc[p] = "expire" /\ tile[p] = t) ~> cache[t] # Missing

(* Every request of a live process ends, except that one waits forever for *)
(* a lock file whose owners are all dead.                                  *)
Orphaned(m) == /\ m \in lockfiles
               /\ Holders(m) # {}
               /\ \A p \in Holders(m) : pc[p] = "dead"
RequestsEnd ==
  \A p \in Procs :
    pc[p] = "lookup" ~> (\/ pc[p] \in {"idle", "dead"}
                         \/ pc[p] = "wait" /\ Orphaned(Meta(p)))

(* The requests implement the filling of metatiles: exclusive, but for one *)
(* more process per start-up that sweeps the lock files away.              *)
Fill == INSTANCE MetatileFill
          WITH Fillers <- Procs, MetatileOf <- [t \in Tiles |-> MetaOf(t)], Stamps <- Times,
               Absent <- Missing, store <- cache, filling <- [m \in Metas |-> Holders(m)],
               sweeps <- cleanups
FillSpec == Fill!Spec
=============================================================================
