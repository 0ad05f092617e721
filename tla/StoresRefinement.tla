-------------------------- MODULE StoresRefinement --------------------------
(* The database and remote caches keep what the callers of a cache rely    *)
(* on: Stores implements TileStore, for all threads, programs, operations  *)
(* and failures.                                                           *)
EXTENDS StoresProofs

(* Where a call has not looked yet.                                        *)
Asking == PoolPlaces \union {"refused", "use", "tcopen", "tc", "remote", "tiff"}

(* A thread is where its cache and its operation lead it, with the error   *)
(* and the find of that place.                                             *)
Local(t) ==
  /\ pc[t] \in PoolPlaces \union {"refused", "use", "release"} => Pooled
  /\ pc[t] \in {"encode", "row"} => Sql
  /\ pc[t] = "remote" => Careless
  /\ pc[t] = "replied" => Careless \/ Kind = "tiff"
  /\ pc[t] \in {"row", "tiffread"} => Reads(t)
  /\ pc[t] \in {"tifflock", "tiffopen", "tiffclose"} => Sets(t)
  /\ pc[t] = "refused" => err[t]
  /\ pc[t] \in {"row", "tc", "tiffread"} => ~err[t]
  /\ pc[t] \in Asking => got[t] = None
  /\ op[t] # None /\ ~Reads(t) => got[t] = None
  /\ got[t] = "lost" => Careless
  /\ pc[t] = "tiffread" => got[t] \in Images \union {None}
  /\ op[t] # None => todo[t] \subseteq op[t].writes
  /\ pc[t] = "replied" \/ (pc[t] = "release" /\ Kind = "bdb") => err[t] \/ todo[t] = {}
LocalInv == \A t \in Threads : Local(t)

(* The tables of MBTiles: a tile has its own image or that of its color,   *)
(* which is there.                                                         *)
DbSane(d) ==
  /\ \A x \in Tiles : d.map[x] \in {None, x} \union Blank
  /\ \A i \in Blank : d.images[i] \in {None, i}
  /\ \A x \in Tiles, i \in Blank : d.map[x] = i => d.images[i] = i

(* A transaction is being written, or was left open by a commit that had   *)
(* to wait.                                                                *)
Midway(t) == pc[t] = "use" /\ Sets(t) /\ ~err[t] /\ conn[t] = txn.owner /\ todo[t] # op[t].writes
DataInv ==
  /\ DbSane(db) /\ (txn # NoTxn => Sql /\ DbSane(txn.work))
  /\ txn # NoTxn => (\E t \in Threads : Midway(t)) \/ (txn.kept # None /\ txn.work = txn.kept)

(* What is written in it is what the store will be.                        *)
WorkInv ==
  \A t \in Threads : Sql /\ pc[t] = "use" /\ Sets(t) /\ txn.owner = conn[t] =>
    \A x \in Tiles : Content(txn.work, x) = Store!After(Store!Base, op[t].writes \ todo[t])[x]

(* The TIFF file has no tiles before it is whole, and who holds its lock   *)
(* writes one of its own.                                                  *)
FileInv ==
  /\ Kind = "tiff" /\ tiff.file # "whole" => \A x \in Tiles : Content(db, x) = None
  /\ \A t \in Threads : pc[t] = "tiffclose" /\ ~err[t] => tiff.work \in todo[t]
  /\ tiff.work # None => \E t \in Threads : pc[t] = "tiffclose" /\ tiff.work \in todo[t]

RefInv == StoreInv /\ LocalInv /\ DataInv /\ WorkInv /\ FileInv

-----------------------------------------------------------------------------
(* What the tables hold.                                                    *)

LEMMA ChangeSane ==
  ASSUME NEW d \in DbType, DbSane(d), NEW w \in AnyWrite
  PROVE  /\ DbSane(Change(d, w))
         /\ \A x \in Tiles : Content(Change(d, w), x) = IF x = w[1] THEN w[2] ELSE Content(d, x)
<1>1. w[1] \in Tiles /\ w[1] \in Ids /\ w[2] \in Images \union {None} /\ Tiles \subseteq Ids
  BY DEF AnyWrite, Ids
<1>2. /\ d.map \in [Tiles -> Ids \union {None}] /\ d.images \in [Ids -> Images \union {None}]
      /\ Blank \subseteq Ids /\ Blank \subseteq Images
  BY OpsAssumption DEF DbType, Ids
<1>3. None \notin Tiles /\ None \notin Images /\ Blank \intersect Tiles = {}
  BY OpsAssumption
<1>4. CASE w[2] = None
  <2>1. Change(d, w) = [map |-> [d.map EXCEPT ![w[1]] = None], images |-> [d.images EXCEPT ![w[1]] = None]]
    BY <1>4 DEF Change, Del
  <2>2. QED
    BY <2>1, <1>1, <1>2, <1>3, <1>4 DEF DbSane, Content
<1>5. CASE w[2] # None /\ Kind = "mbtiles" /\ w[2] \in Blank
  <2>1. Change(d, w) = [map |-> [d.map EXCEPT ![w[1]] = w[2]],
                        images |-> [d.images EXCEPT ![w[2]] = IF d.images[w[2]] = None THEN w[2] ELSE d.images[w[2]]]]
    BY <1>5 DEF Change, Put
  <2>2. QED
    BY <2>1, <1>1, <1>2, <1>3, <1>5 DEF DbSane, Content
<1>6. CASE w[2] # None /\ ~(Kind = "mbtiles" /\ w[2] \in Blank)
  <2>1. Change(d, w) = [map |-> [d.map EXCEPT ![w[1]] = w[1]], images |-> [d.images EXCEPT ![w[1]] = w[2]]]
    BY <1>6 DEF Change, Put
  <2>2. QED
    BY <2>1, <1>1, <1>2, <1>3, <1>6 DEF DbSane, Content
<1>7. QED
  BY <1>4, <1>5, <1>6

(* What several writes come to, one after the other.                       *)
LEMMA AfterOne ==
  ASSUME NEW w \in AnyWrite, NEW f
  PROVE  \A x \in Tiles : Store!After(f, {w})[x] = IF x = w[1] THEN w[2] ELSE f[x]
BY DEF Store!After, AnyWrite

LEMMA AfterNone ==
  ASSUME NEW f
  PROVE  \A x \in Tiles : Store!After(f, {})[x] = f[x]
BY DEF Store!After

LEMMA AfterMore ==
  ASSUME NEW W, \A v, w \in W : v[1] = w[1] => v = w, NEW V, V \subseteq W, NEW w \in W, NEW f
  PROVE  \A x \in Tiles :
           Store!After(f, V \union {w})[x] = IF x = w[1] THEN w[2] ELSE Store!After(f, V)[x]
<1> SUFFICES ASSUME NEW x \in Tiles
             PROVE  Store!After(f, V \union {w})[x] = IF x = w[1] THEN w[2] ELSE Store!After(f, V)[x]
  OBVIOUS
<1>1. \A S : Store!After(f, S)[x] = IF \E v \in S : v[1] = x THEN (CHOOSE v \in S : v[1] = x)[2] ELSE f[x]
  BY DEF Store!After
<1>2. ASSUME NEW S, S \subseteq W, NEW v \in S, v[1] = x PROVE Store!After(f, S)[x] = v[2]
  <2>1. (CHOOSE u \in S : u[1] = x) \in S /\ (CHOOSE u \in S : u[1] = x)[1] = x
    BY <1>2
  <2>2. (CHOOSE u \in S : u[1] = x) = v
    BY <1>2, <2>1
  <2>3. QED
    BY <1>1, <1>2, <2>2
<1>3. V \union {w} \subseteq W
  OBVIOUS
<1>4. CASE x = w[1]
  BY <1>2, <1>3, <1>4
<1>5. ASSUME x # w[1], NEW v \in V, v[1] = x
      PROVE  Store!After(f, V \union {w})[x] = Store!After(f, V)[x]
  <2>1. Store!After(f, V)[x] = v[2]
    BY <1>2, <1>5
  <2>2. v \in V \union {w}
    BY <1>5
  <2>3. QED
    BY <1>2, <1>3, <1>5, <2>1, <2>2
<1>6. CASE x # w[1] /\ \A v \in V : v[1] # x
  BY <1>1, <1>6
<1>7. QED
  BY <1>4, <1>5, <1>6

-----------------------------------------------------------------------------
(* How a step of one thread shows.                                          *)

OnlyMoves(t) ==
  /\ UNCHANGED program
  /\ \A u \in Threads \ {t} : /\ pc'[u] = pc[u] /\ op'[u] = op[u] /\ err'[u] = err[u]
                              /\ todo'[u] = todo[u] /\ got'[u] = got[u]

LEMMA OneCallMoves ==
  ASSUME NEW t \in Threads, OnlyMoves(t)
  PROVE  /\ Calls' = [Calls EXCEPT ![t] = CallOf(t)']
         /\ Sql' = Sql /\ Careless' = Careless /\ (Kind = "tiff")' = (Kind = "tiff")
<1>1. Kind' = Kind /\ Sql' = Sql /\ Careless' = Careless
  BY DEF OnlyMoves, Kind, Sql, Careless
<1>2. ASSUME NEW u \in Threads \ {t} PROVE CallOf(u)' = CallOf(u)
  <2>1. pc'[u] = pc[u] /\ op'[u] = op[u] /\ err'[u] = err[u] /\ todo'[u] = todo[u] /\ got'[u] = got[u]
    BY <1>2 DEF OnlyMoves
  <2>2. Reads(u)' = Reads(u) /\ Pending(u)' = Pending(u) /\ Seen(u)' = Seen(u)
    BY <1>1, <2>1 DEF Reads, Pending, Seen
  <2>3. QED
    BY <2>1, <2>2 DEF CallOf
<1>3. QED
  BY <1>1, <1>2 DEF Calls

LEMMA SameShown == ASSUME UNCHANGED db PROVE Shown' = Shown
BY DEF Shown, Content

LEMMA SameLate == ASSUME UNCHANGED txn PROVE Late' = Late
BY DEF Late, Content

(* The call of a thread in its code.                                       *)
LEMMA CallRecord ==
  ASSUME NEW t \in Threads, op[t] # None, StoreInv
  PROVE  /\ Calls[t] = CallOf(t) /\ CallOf(t) # None
         /\ CallOf(t) = [tile |-> IF Reads(t) THEN op[t].tile ELSE None, whole |-> op[t].writes,
                         rest |-> Pending(t), seen |-> IF Reads(t) THEN Seen(t) ELSE "ok"]
         /\ op[t] \in program.ops /\ program \in Programs
         /\ Reads(t) => op[t].tile \in Tiles /\ op[t].tile # None /\ op[t].writes = {}
<1>1. op[t] \in program.ops /\ program \in Programs /\ got[t] \in Gots /\ todo[t] \subseteq AnyWrite
  BY DEF StoreInv, CallTypes, AllInv, PoolInv, PoolTypes, PoolTypeOK
<1>2. op[t].writes \subseteq AnyWrite /\ (Reads(t) => op[t].tile \in Tiles /\ op[t].writes = {})
  BY <1>1, OpFacts DEF Reads
<1>3. Reads(t) => op[t].tile # None
  BY <1>2, OpsAssumption
<1>4. CallOf(t) = [tile |-> IF Reads(t) THEN op[t].tile ELSE None, whole |-> op[t].writes,
                   rest |-> Pending(t), seen |-> IF Reads(t) THEN Seen(t) ELSE "ok"]
  BY DEF CallOf
<1>5. Pending(t) \subseteq AnyWrite
  BY <1>1, <1>2 DEF Pending
<1>6. (IF Reads(t) THEN Seen(t) ELSE "ok") \in Images \union {"torn", "lost", "ok", "miss", None}
  BY <1>1 DEF Seen, Gots
<1>7. CallOf(t) \in [tile : Tiles \union {None}, whole : SUBSET AnyWrite, rest : SUBSET AnyWrite,
                     seen : Images \union {"torn", "lost", "ok", "miss", None}]
  BY <1>2, <1>4, <1>5, <1>6
<1>8. CallOf(t) # None
  BY <1>7, NoneIsNothing DEF AnyWrite
<1>9. QED
  BY <1>1, <1>2, <1>3, <1>4, <1>8 DEF Calls

LEMMA Stutters ==
  ASSUME NEW t \in Threads, OnlyMoves(t), CallOf(t)' = CallOf(t), UNCHANGED <<db, answer>>, Late' = Late
  PROVE  UNCHANGED Store!storeVars
<1>1. Calls' = [Calls EXCEPT ![t] = Calls[t]]
  BY OneCallMoves DEF Calls
<1>2. Calls' = Calls
  BY <1>1 DEF Calls
<1>3. QED
  BY <1>2, OneCallMoves, SameShown DEF Store!storeVars

LEMMA Looks ==
  ASSUME NEW t \in Threads, StoreInv, OnlyMoves(t), op[t] # None, Reads(t), UNCHANGED <<db, answer, txn>>,
         CallOf(t)' = [CallOf(t) EXCEPT !.seen = IF Content(db, op[t].tile) = None THEN "miss"
                                                 ELSE Content(db, op[t].tile)]
  PROVE  Store!Read(t)
<1>1. Calls[t] # None /\ Calls[t].tile = op[t].tile /\ op[t].tile # None
  BY CallRecord
<1>2. Shown[op[t].tile] = Content(db, op[t].tile)
  BY CallRecord DEF Shown
<1>3. Calls' = [Calls EXCEPT ![t].seen = IF Shown[Calls[t].tile] = None THEN "miss" ELSE Shown[Calls[t].tile]]
  BY <1>1, <1>2, OneCallMoves, CallRecord
<1>4. QED
  BY <1>1, <1>3, OneCallMoves, SameShown, SameLate DEF Store!Read

(* A write that is done at once, where there are no transactions.          *)
LEMMA Writes1 ==
  ASSUME NEW t \in Threads, RefInv, OnlyMoves(t), op[t] # None, ~Sql, NEW w \in todo[t],
         db' = Change(db, w), UNCHANGED <<txn, answer>>,
         CallOf(t)' = [CallOf(t) EXCEPT !.rest = todo[t] \ {w}]
  PROVE  Store!Write(t)
<1>1. txn = NoTxn /\ Late = None /\ Late' = None
  BY SameLate DEF RefInv, DataInv, NoTxn, Late
<1>2. Calls[t] = CallOf(t) /\ Calls[t] # None /\ Calls[t].rest = todo[t]
  BY CallRecord DEF RefInv, Pending
<1>3. w \in AnyWrite /\ db \in DbType /\ DbSane(db)
  BY DEF RefInv, StoreInv, CallTypes, DataInv
<1>4. Shown' = Store!After(Shown, {w})
  <2>1. ASSUME NEW x \in Tiles PROVE Shown'[x] = Store!After(Shown, {w})[x]
    <3>1. Shown'[x] = Content(Change(db, w), x) /\ Shown[x] = Content(db, x)
      BY DEF Shown, Content
    <3>2. Content(Change(db, w), x) = IF x = w[1] THEN w[2] ELSE Content(db, x)
      BY <1>3, ChangeSane
    <3>3. Store!After(Shown, {w})[x] = IF x = w[1] THEN w[2] ELSE Shown[x]
      BY <1>3, AfterOne
    <3>4. QED
      BY <3>1, <3>2, <3>3
  <2>2. Shown' = [x \in Tiles |-> Shown'[x]]
    BY DEF Shown
  <2>3. Store!After(Shown, {w}) = [x \in Tiles |-> Store!After(Shown, {w})[x]]
    BY DEF Store!After
  <2>4. QED
    BY <2>1, <2>2, <2>3
<1>5. Calls' = [Calls EXCEPT ![t].rest = Calls[t].rest \ {w}]
  BY <1>2, OneCallMoves
<1>6. Store!Base = Shown
  BY <1>1 DEF Store!Base
<1>7. {w} \in SUBSET Calls[t].rest /\ {w} # {}
  BY <1>2
<1>8. QED
  BY <1>1, <1>2, <1>4, <1>5, <1>6, <1>7, OneCallMoves DEF Store!Write

LEMMA Ignores ==
  ASSUME NEW t \in Threads, RefInv, OnlyMoves(t), op[t] # None, Careless, NEW w \in todo[t],
         UNCHANGED <<db, txn, answer>>, CallOf(t)' = [CallOf(t) EXCEPT !.rest = todo[t] \ {w}]
  PROVE  Store!Ignore(t)
<1>1. Calls[t] = CallOf(t) /\ Calls[t] # None /\ Calls[t].rest = todo[t]
  BY CallRecord DEF RefInv, Pending, Careless, Sql
<1>2. Calls' = [Calls EXCEPT ![t].rest = Calls[t].rest \ {w}]
  BY <1>1, OneCallMoves
<1>3. {w} \in SUBSET Calls[t].rest
  BY <1>1
<1>4. QED
  BY <1>1, <1>2, <1>3, OneCallMoves, SameShown, SameLate DEF Store!Ignore

(* A call that is over has failed, or is acknowledged.                     *)
LEMMA Returns ==
  ASSUME NEW t \in Threads, RefInv, OnlyMoves(t), op[t] # None, Finish(t), UNCHANGED <<db, got>>,
         err' \in [Threads -> BOOLEAN], Late' \in {Late, None},
         err'[t] /\ Sql => Pending(t) = op[t].writes,
         ~err'[t] => /\ ~err[t] /\ Late' = Late /\ Pending(t) = {}
                     /\ Reads(t) => pc[t] \in {"release", "tcclose", "replied"}
  PROVE  Store!Fail(t) \/ Store!Acknowledge(t)
<1>1. /\ op'[t] = None /\ CallOf(t)' = None
      /\ answer' = [answer EXCEPT ![t] = IF err'[t] THEN "error" ELSE IF ~Reads(t) THEN "ok"
                                         ELSE IF got[t] = None THEN "miss" ELSE got[t]]
  BY DEF Finish, CallOf, RefInv, StoreInv, CallTypes
<1>2. Calls' = [Calls EXCEPT ![t] = None]
  BY <1>1, OneCallMoves
<1>3. /\ Calls[t] # None /\ Calls[t].rest = Pending(t) /\ Calls[t].whole = op[t].writes
      /\ Reads(t) => Calls[t].seen = Seen(t) /\ Calls[t].tile # None
      /\ ~Reads(t) => Calls[t].seen = "ok"
  BY CallRecord DEF RefInv
<1>4. CASE err'[t]
  <2>1. answer' = [answer EXCEPT ![t] = "error"]
    BY <1>1, <1>4
  <2>2. Store!Fail(t)
    BY <1>2, <1>3, <1>4, <2>1, OneCallMoves, SameShown DEF Store!Fail
  <2>3. QED
    BY <2>2
<1>5. CASE ~err'[t]
  <2> DEFINE a == IF ~Reads(t) THEN "ok" ELSE IF got[t] = None THEN "miss" ELSE got[t]
  <2>1. answer' = [answer EXCEPT ![t] = a] /\ Calls[t].rest = {} /\ Late' = Late
    BY <1>1, <1>3, <1>5
  <2>2. got[t] \in Gots /\ (got[t] = "lost" => Careless)
    BY DEF RefInv, StoreInv, CallTypes, LocalInv, Local
  <2>3. a \in Store!Answers
    BY <2>2 DEF Store!Answers, Gots
  <2>4. a = Calls[t].seen \/ (Careless /\ Calls[t].tile # None /\ a \in {"miss", "lost"})
    <3>1. CASE ~Reads(t)
      BY <3>1, <1>3
    <3>2. CASE Reads(t) /\ got[t] = None
      BY <3>2, <1>3, <1>5 DEF Seen
    <3>3. CASE Reads(t) /\ got[t] # None /\ got[t] = "lost"
      BY <3>3, <1>3, <2>2
    <3>4. CASE Reads(t) /\ got[t] # None /\ got[t] # "lost"
      BY <3>4, <1>3, <1>5 DEF Seen
    <3>5. QED
      BY <3>1, <3>2, <3>3, <3>4
  <2> HIDE DEF a
  <2>5. Store!Acknowledge(t)
    BY <1>2, <1>3, <2>1, <2>3, <2>4, OneCallMoves, SameShown DEF Store!Acknowledge
  <2>6. QED
    BY <2>5
<1>6. QED
  BY <1>4, <1>5

-----------------------------------------------------------------------------
(* Every step leaves its thread where its cache leads it.                   *)

LEMMA InCode ==
  ASSUME RefInv, NEW t \in Threads, pc[t] \notin {"idle", "dead"}
  PROVE  /\ Local(t) /\ op[t] # None /\ todo[t] \subseteq op[t].writes /\ err[t] \in BOOLEAN
         /\ op[t].name \in {"has", "get", "set", "multiset", "delete"}
         /\ Reads(t) => op[t].tile \in Tiles /\ op[t].writes = {} /\ todo[t] = {}
                        /\ Content(db, op[t].tile) \in Images \union {None}
         /\ "lost" \notin Images /\ None # "lost" /\ None # "torn"
         /\ Kind \in {"sqlite", "mbtiles", "bdb", "tc", "memcache", "s3", "tiff"}
         /\ pc[t] \in TcPlaces => Kind = "tc"
         /\ pc[t] \in TiffPlaces => Kind = "tiff"
<1>1. StoreInv /\ Local(t) /\ Routes
  BY DEF RefInv, LocalInv, StoreInv
<1>2. op[t] # None /\ err[t] \in BOOLEAN /\ db \in DbType
  BY <1>1 DEF StoreInv, Working, AllInv, PoolInv, PoolTypes, PoolTypeOK
<1>3. op[t] \in program.ops /\ program \in Programs
  BY <1>1, <1>2, CallRecord
<1>4. Reads(t) => op[t].tile \in Tiles /\ op[t].writes = {}
  BY <1>3, OpFacts DEF Reads
<1>5. "lost" \notin Images /\ None # "lost" /\ None # "torn"
  BY OpsAssumption
<1>6. QED
  BY <1>1, <1>2, <1>3, <1>4, <1>5, OpFacts, ContentType DEF Local, Routes

LEMMA Typed ==
  ASSUME StoreInv
  PROVE  /\ pc \in [Threads -> Places] /\ op \in [Threads -> program.ops \union {None}]
         /\ todo \in [Threads -> SUBSET AnyWrite] /\ got \in [Threads -> Gots]
         /\ answer \in [Threads -> Outcomes] /\ err \in [Threads -> BOOLEAN] /\ db \in DbType
BY DEF StoreInv, CallTypes, AllInv, PoolInv, PoolTypes, PoolTypeOK

(* SQLite and MBTiles.                                                     *)
LEMMA SqlLocal ==
  ASSUME RefInv, NEW t \in Threads,
         SqlOldError(t) \/ SqlHas(t) \/ SqlGet(t) \/ SqlReset(t) \/ SqlWrite(t) \/
         SqlFails(t) \/ SqlCommit(t) \/ SqlDelete(t) \/ MbtilesDelete(t)
  PROVE  OnlyMoves(t) /\ Local(t)'
<1> USE DEF Goto, Raise, Finish, KeepsAll, callVars, dbVars
<1>1. StoreInv
  BY DEF RefInv
<1>2. CASE SqlOldError(t)
  <2>1. pc[t] \notin {"idle", "dead"} /\ Proceeds(t)
    BY <1>1, <1>2, SqlProceeds DEF SqlOldError, SqlStep
  <2>2. OnlyMoves(t)
    BY <1>1, <1>2, <2>1, Typed DEF SqlOldError, SqlStep, OnlyMoves, Proceeds
  <2>3. Local(t)'
    BY <1>1, <1>2, <2>1, <2>2, Typed, InCode DEF SqlOldError, SqlStep, OnlyMoves, Local, Asking, PoolPlaces, Pooled, Sql, Careless, Kind, Reads, Sets, Gots
  <2>4. QED
    BY <2>2, <2>3
<1>3. CASE SqlHas(t)
  <2>1. pc[t] \notin {"idle", "dead"} /\ Proceeds(t)
    BY <1>1, <1>3, SqlProceeds DEF SqlHas, SqlStep, SqlLook
  <2>2. OnlyMoves(t)
    BY <1>1, <1>3, <2>1, Typed DEF SqlHas, SqlStep, SqlLook, OnlyMoves, Proceeds
  <2>3. Local(t)'
    BY <1>1, <1>3, <2>1, <2>2, Typed, InCode DEF SqlHas, SqlStep, SqlLook, OnlyMoves, Local, Asking, PoolPlaces, Pooled, Sql, Careless, Kind, Reads, Sets, Gots
  <2>4. QED
    BY <2>2, <2>3
<1>4. CASE SqlGet(t)
  <2>1. pc[t] \notin {"idle", "dead"} /\ Proceeds(t)
    BY <1>1, <1>4, SqlProceeds DEF SqlGet, SqlStep, SqlLook
  <2>2. OnlyMoves(t)
    BY <1>1, <1>4, <2>1, Typed DEF SqlGet, SqlStep, SqlLook, OnlyMoves, Proceeds
  <2>3. Local(t)'
    BY <1>1, <1>4, <2>1, <2>2, Typed, InCode DEF SqlGet, SqlStep, SqlLook, OnlyMoves, Local, Asking, PoolPlaces, Pooled, Sql, Careless, Kind, Reads, Sets, Gots
  <2>4. QED
    BY <2>2, <2>3
<1>5. CASE SqlReset(t)
  <2>1. pc[t] \notin {"idle", "dead"} /\ Proceeds(t)
    BY <1>1, <1>5, SqlProceeds DEF SqlReset
  <2>2. OnlyMoves(t)
    BY <1>1, <1>5, <2>1, Typed DEF SqlReset, OnlyMoves, Proceeds
  <2>3. Local(t)'
    BY <1>1, <1>5, <2>1, <2>2, Typed, InCode DEF SqlReset, OnlyMoves, Local, Asking, PoolPlaces, Pooled, Sql, Careless, Kind, Reads, Sets, Gots
  <2>4. QED
    BY <2>2, <2>3
<1>6. CASE SqlWrite(t)
  <2>1. pc[t] \notin {"idle", "dead"} /\ Proceeds(t)
    BY <1>1, <1>6, SqlProceeds DEF SqlWrite, SqlStep
  <2>2. OnlyMoves(t)
    BY <1>1, <1>6, <2>1, Typed DEF SqlWrite, SqlStep, OnlyMoves, Proceeds
  <2>3. Local(t)'
    BY <1>1, <1>6, <2>1, <2>2, Typed, InCode DEF SqlWrite, SqlStep, OnlyMoves, Local, Asking, PoolPlaces, Pooled, Sql, Careless, Kind, Reads, Sets, Gots
  <2>4. QED
    BY <2>2, <2>3
<1>7. CASE SqlFails(t)
  <2>1. pc[t] \notin {"idle", "dead"} /\ Proceeds(t)
    BY <1>1, <1>7, SqlProceeds DEF SqlFails, SqlStep
  <2>2. OnlyMoves(t)
    BY <1>1, <1>7, <2>1, Typed DEF SqlFails, SqlStep, OnlyMoves, Proceeds
  <2>3. Local(t)'
    BY <1>1, <1>7, <2>1, <2>2, Typed, InCode DEF SqlFails, SqlStep, OnlyMoves, Local, Asking, PoolPlaces, Pooled, Sql, Careless, Kind, Reads, Sets, Gots
  <2>4. QED
    BY <2>2, <2>3
<1>8. CASE SqlCommit(t)
  <2>1. pc[t] \notin {"idle", "dead"} /\ Proceeds(t)
    BY <1>1, <1>8, SqlProceeds DEF SqlCommit, SqlStep
  <2>2. OnlyMoves(t)
    BY <1>1, <1>8, <2>1, Typed DEF SqlCommit, SqlStep, OnlyMoves, Proceeds
  <2>3. Local(t)'
    BY <1>1, <1>8, <2>1, <2>2, Typed, InCode DEF SqlCommit, SqlStep, OnlyMoves, Local, Asking, PoolPlaces, Pooled, Sql, Careless, Kind, Reads, Sets, Gots
  <2>4. QED
    BY <2>2, <2>3
<1>9. CASE SqlDelete(t)
  <2>1. pc[t] \notin {"idle", "dead"} /\ Proceeds(t)
    BY <1>1, <1>9, SqlProceeds DEF SqlDelete, SqlStep
  <2>2. OnlyMoves(t)
    BY <1>1, <1>9, <2>1, Typed DEF SqlDelete, SqlStep, OnlyMoves, Proceeds
  <2>3. Local(t)'
    BY <1>1, <1>9, <2>1, <2>2, Typed, InCode DEF SqlDelete, SqlStep, OnlyMoves, Local, Asking, PoolPlaces, Pooled, Sql, Careless, Kind, Reads, Sets, Gots
  <2>4. QED
    BY <2>2, <2>3
<1>10. CASE MbtilesDelete(t)
  <2>1. pc[t] \notin {"idle", "dead"} /\ Proceeds(t)
    BY <1>1, <1>10, SqlProceeds DEF MbtilesDelete, SqlStep
  <2>2. OnlyMoves(t)
    BY <1>1, <1>10, <2>1, Typed DEF MbtilesDelete, SqlStep, OnlyMoves, Proceeds
  <2>3. Local(t)'
    BY <1>1, <1>10, <2>1, <2>2, Typed, InCode DEF MbtilesDelete, SqlStep, OnlyMoves, Local, Asking, PoolPlaces, Pooled, Sql, Careless, Kind, Reads, Sets, Gots
  <2>4. QED
    BY <2>2, <2>3
<1>11. QED
  BY <1>2, <1>3, <1>4, <1>5, <1>6, <1>7, <1>8, <1>9, <1>10

(* Berkeley DB.                                                            *)
LEMMA BdbLocal ==
  ASSUME RefInv, NEW t \in Threads,
         BdbLeaks(t) \/ BdbHas(t) \/ BdbGet(t) \/ BdbWrite(t) \/ BdbFails(t) \/
         BdbSync(t)
  PROVE  OnlyMoves(t) /\ Local(t)'
<1> USE DEF Goto, Raise, Finish, KeepsAll, callVars, dbVars
<1>1. StoreInv
  BY DEF RefInv
<1>2. CASE BdbLeaks(t)
  <2>1. pc[t] \notin {"idle", "dead"} /\ Proceeds(t)
    BY <1>1, <1>2, BdbProceeds, PoolProceeds DEF BdbLeaks, BdbStep, Leak
  <2>2. OnlyMoves(t)
    BY <1>1, <1>2, <2>1, Typed DEF BdbLeaks, BdbStep, Leak, OnlyMoves, Proceeds
  <2>3. Local(t)'
    BY <1>1, <1>2, <2>1, <2>2, Typed, InCode DEF BdbLeaks, BdbStep, Leak, OnlyMoves, Local, Asking, PoolPlaces, Pooled, Sql, Careless, Kind, Reads, Sets, Gots
  <2>4. QED
    BY <2>2, <2>3
<1>3. CASE BdbHas(t)
  <2>1. pc[t] \notin {"idle", "dead"} /\ Proceeds(t)
    BY <1>1, <1>3, BdbProceeds, PoolProceeds DEF BdbHas, BdbStep, BdbLook
  <2>2. OnlyMoves(t)
    BY <1>1, <1>3, <2>1, Typed DEF BdbHas, BdbStep, BdbLook, OnlyMoves, Proceeds
  <2>3. Local(t)'
    BY <1>1, <1>3, <2>1, <2>2, Typed, InCode DEF BdbHas, BdbStep, BdbLook, OnlyMoves, Local, Asking, PoolPlaces, Pooled, Sql, Careless, Kind, Reads, Sets, Gots
  <2>4. QED
    BY <2>2, <2>3
<1>4. CASE BdbGet(t)
  <2>1. pc[t] \notin {"idle", "dead"} /\ Proceeds(t)
    BY <1>1, <1>4, BdbProceeds, PoolProceeds DEF BdbGet, BdbStep, BdbLook
  <2>2. OnlyMoves(t)
    BY <1>1, <1>4, <2>1, Typed DEF BdbGet, BdbStep, BdbLook, OnlyMoves, Proceeds
  <2>3. Local(t)'
    BY <1>1, <1>4, <2>1, <2>2, Typed, InCode DEF BdbGet, BdbStep, BdbLook, OnlyMoves, Local, Asking, PoolPlaces, Pooled, Sql, Careless, Kind, Reads, Sets, Gots
  <2>4. QED
    BY <2>2, <2>3
<1>5. CASE BdbWrite(t)
  <2>1. pc[t] \notin {"idle", "dead"} /\ Proceeds(t)
    BY <1>1, <1>5, BdbProceeds, PoolProceeds DEF BdbWrite, BdbStep
  <2>2. OnlyMoves(t)
    BY <1>1, <1>5, <2>1, Typed DEF BdbWrite, BdbStep, OnlyMoves, Proceeds
  <2>3. Local(t)'
    BY <1>1, <1>5, <2>1, <2>2, Typed, InCode DEF BdbWrite, BdbStep, OnlyMoves, Local, Asking, PoolPlaces, Pooled, Sql, Careless, Kind, Reads, Sets, Gots
  <2>4. QED
    BY <2>2, <2>3
<1>6. CASE BdbFails(t)
  <2>1. pc[t] \notin {"idle", "dead"} /\ Proceeds(t)
    BY <1>1, <1>6, BdbProceeds, PoolProceeds DEF BdbFails, BdbStep
  <2>2. OnlyMoves(t)
    BY <1>1, <1>6, <2>1, Typed DEF BdbFails, BdbStep, OnlyMoves, Proceeds
  <2>3. Local(t)'
    BY <1>1, <1>6, <2>1, <2>2, Typed, InCode DEF BdbFails, BdbStep, OnlyMoves, Local, Asking, PoolPlaces, Pooled, Sql, Careless, Kind, Reads, Sets, Gots
  <2>4. QED
    BY <2>2, <2>3
<1>7. CASE BdbSync(t)
  <2>1. pc[t] \notin {"idle", "dead"} /\ Proceeds(t)
    BY <1>1, <1>7, BdbProceeds, PoolProceeds DEF BdbSync, BdbStep
  <2>2. OnlyMoves(t)
    BY <1>1, <1>7, <2>1, Typed DEF BdbSync, BdbStep, OnlyMoves, Proceeds
  <2>3. Local(t)'
    BY <1>1, <1>7, <2>1, <2>2, Typed, InCode DEF BdbSync, BdbStep, OnlyMoves, Local, Asking, PoolPlaces, Pooled, Sql, Careless, Kind, Reads, Sets, Gots
  <2>4. QED
    BY <2>2, <2>3
<1>8. QED
  BY <1>2, <1>3, <1>4, <1>5, <1>6, <1>7

(* Tokyo Cabinet.                                                          *)
LEMMA TcLocal ==
  ASSUME RefInv, NEW t \in Threads,
         TcOpen(t) \/ TcHas(t) \/ TcGet(t) \/ TcSet(t) \/ TcDelete(t) \/ TcLeaks(t) \/
         TcClose(t)
  PROVE  OnlyMoves(t) /\ Local(t)'
<1> USE DEF Goto, Raise, Finish, KeepsAll, callVars, dbVars
<1>1. StoreInv
  BY DEF RefInv
<1>2. CASE TcOpen(t)
  <2>1. pc[t] \notin {"idle", "dead"} /\ Proceeds(t)
    BY <1>1, <1>2, TcProceeds DEF TcOpen
  <2>2. OnlyMoves(t)
    BY <1>1, <1>2, <2>1, Typed DEF TcOpen, OnlyMoves, Proceeds
  <2>3. Local(t)'
    BY <1>1, <1>2, <2>1, <2>2, Typed, InCode DEF TcOpen, OnlyMoves, Local, Asking, PoolPlaces, Pooled, Sql, Careless, Kind, Reads, Sets, Gots
  <2>4. QED
    BY <2>2, <2>3
<1>3. CASE TcHas(t)
  <2>1. pc[t] \notin {"idle", "dead"} /\ Proceeds(t)
    BY <1>1, <1>3, TcProceeds DEF TcHas, TcLook, TcStep
  <2>2. OnlyMoves(t)
    BY <1>1, <1>3, <2>1, Typed DEF TcHas, TcLook, TcStep, OnlyMoves, Proceeds
  <2>3. Local(t)'
    BY <1>1, <1>3, <2>1, <2>2, Typed, InCode DEF TcHas, TcLook, TcStep, OnlyMoves, Local, Asking, PoolPlaces, Pooled, Sql, Careless, Kind, Reads, Sets, Gots
  <2>4. QED
    BY <2>2, <2>3
<1>4. CASE TcGet(t)
  <2>1. pc[t] \notin {"idle", "dead"} /\ Proceeds(t)
    BY <1>1, <1>4, TcProceeds DEF TcGet, TcLook, TcStep
  <2>2. OnlyMoves(t)
    BY <1>1, <1>4, <2>1, Typed DEF TcGet, TcLook, TcStep, OnlyMoves, Proceeds
  <2>3. Local(t)'
    BY <1>1, <1>4, <2>1, <2>2, Typed, InCode DEF TcGet, TcLook, TcStep, OnlyMoves, Local, Asking, PoolPlaces, Pooled, Sql, Careless, Kind, Reads, Sets, Gots
  <2>4. QED
    BY <2>2, <2>3
<1>5. CASE TcSet(t)
  <2>1. pc[t] \notin {"idle", "dead"} /\ Proceeds(t)
    BY <1>1, <1>5, TcProceeds DEF TcSet, TcStep
  <2>2. OnlyMoves(t)
    BY <1>1, <1>5, <2>1, Typed DEF TcSet, TcStep, OnlyMoves, Proceeds
  <2>3. Local(t)'
    BY <1>1, <1>5, <2>1, <2>2, Typed, InCode DEF TcSet, TcStep, OnlyMoves, Local, Asking, PoolPlaces, Pooled, Sql, Careless, Kind, Reads, Sets, Gots
  <2>4. QED
    BY <2>2, <2>3
<1>6. CASE TcDelete(t)
  <2>1. pc[t] \notin {"idle", "dead"} /\ Proceeds(t)
    BY <1>1, <1>6, TcProceeds DEF TcDelete, TcStep
  <2>2. OnlyMoves(t)
    BY <1>1, <1>6, <2>1, Typed DEF TcDelete, TcStep, OnlyMoves, Proceeds
  <2>3. Local(t)'
    BY <1>1, <1>6, <2>1, <2>2, Typed, InCode DEF TcDelete, TcStep, OnlyMoves, Local, Asking, PoolPlaces, Pooled, Sql, Careless, Kind, Reads, Sets, Gots
  <2>4. QED
    BY <2>2, <2>3
<1>7. CASE TcLeaks(t)
  <2>1. pc[t] \notin {"idle", "dead"} /\ Proceeds(t)
    BY <1>1, <1>7, TcProceeds DEF TcLeaks
  <2>2. OnlyMoves(t)
    BY <1>1, <1>7, <2>1, Typed DEF TcLeaks, OnlyMoves, Proceeds
  <2>3. Local(t)'
    BY <1>1, <1>7, <2>1, <2>2, Typed, InCode DEF TcLeaks, OnlyMoves, Local, Asking, PoolPlaces, Pooled, Sql, Careless, Kind, Reads, Sets, Gots
  <2>4. QED
    BY <2>2, <2>3
<1>8. CASE TcClose(t)
  <2>1. pc[t] \notin {"idle", "dead"} /\ Proceeds(t)
    BY <1>1, <1>8, TcProceeds DEF TcClose
  <2>2. OnlyMoves(t)
    BY <1>1, <1>8, <2>1, Typed DEF TcClose, OnlyMoves, Proceeds
  <2>3. Local(t)'
    BY <1>1, <1>8, <2>1, <2>2, Typed, InCode DEF TcClose, OnlyMoves, Local, Asking, PoolPlaces, Pooled, Sql, Careless, Kind, Reads, Sets, Gots
  <2>4. QED
    BY <2>2, <2>3
<1>9. QED
  BY <1>2, <1>3, <1>4, <1>5, <1>6, <1>7, <1>8

(* memcached and S3.                                                       *)
LEMMA RemoteLocal ==
  ASSUME RefInv, NEW t \in Threads,
         RemoteOldError(t) \/ McHas(t) \/ McGet(t) \/ McSet(t) \/ McDelete(t) \/ S3Has(t)
         \/ S3Get(t) \/ S3Set(t) \/ S3Delete(t) \/ RemoteDone(t)
  PROVE  OnlyMoves(t) /\ Local(t)'
<1> USE DEF Goto, Raise, Finish, KeepsAll, callVars, dbVars
<1>1. StoreInv
  BY DEF RefInv
<1>2. CASE RemoteOldError(t)
  <2>1. pc[t] \notin {"idle", "dead"} /\ Proceeds(t)
    BY <1>1, <1>2, RemoteProceeds DEF RemoteOldError
  <2>2. OnlyMoves(t)
    BY <1>1, <1>2, <2>1, Typed DEF RemoteOldError, OnlyMoves, Proceeds
  <2>3. Local(t)'
    BY <1>1, <1>2, <2>1, <2>2, Typed, InCode DEF RemoteOldError, OnlyMoves, Local, Asking, PoolPlaces, Pooled, Sql, Careless, Kind, Reads, Sets, Gots
  <2>4. QED
    BY <2>2, <2>3
<1>3. CASE McHas(t)
  <2>1. pc[t] \notin {"idle", "dead"} /\ Proceeds(t)
    BY <1>1, <1>3, RemoteProceeds DEF McHas, Remote, Replies
  <2>2. OnlyMoves(t)
    BY <1>1, <1>3, <2>1, Typed DEF McHas, Remote, Replies, OnlyMoves, Proceeds
  <2>3. Local(t)'
    BY <1>1, <1>3, <2>1, <2>2, Typed, InCode DEF McHas, Remote, Replies, OnlyMoves, Local, Asking, PoolPlaces, Pooled, Sql, Careless, Kind, Reads, Sets, Gots
  <2>4. QED
    BY <2>2, <2>3
<1>4. CASE McGet(t)
  <2>1. pc[t] \notin {"idle", "dead"} /\ Proceeds(t)
    BY <1>1, <1>4, RemoteProceeds DEF McGet, Remote, Replies, RequestFails
  <2>2. OnlyMoves(t)
    BY <1>1, <1>4, <2>1, Typed DEF McGet, Remote, Replies, RequestFails, OnlyMoves, Proceeds
  <2>3. Local(t)'
    BY <1>1, <1>4, <2>1, <2>2, Typed, InCode DEF McGet, Remote, Replies, RequestFails, OnlyMoves, Local, Asking, PoolPlaces, Pooled, Sql, Careless, Kind, Reads, Sets, Gots
  <2>4. QED
    BY <2>2, <2>3
<1>5. CASE McSet(t)
  <2>1. pc[t] \notin {"idle", "dead"} /\ Proceeds(t)
    BY <1>1, <1>5, RemoteProceeds DEF McSet, Remote, Stored, RequestFails
  <2>2. OnlyMoves(t)
    BY <1>1, <1>5, <2>1, Typed DEF McSet, Remote, Stored, RequestFails, OnlyMoves, Proceeds
  <2>3. Local(t)'
    BY <1>1, <1>5, <2>1, <2>2, Typed, InCode DEF McSet, Remote, Stored, RequestFails, OnlyMoves, Local, Asking, PoolPlaces, Pooled, Sql, Careless, Kind, Reads, Sets, Gots
  <2>4. QED
    BY <2>2, <2>3
<1>6. CASE McDelete(t)
  <2>1. pc[t] \notin {"idle", "dead"} /\ Proceeds(t)
    BY <1>1, <1>6, RemoteProceeds DEF McDelete, Remote, Stored, RequestFails
  <2>2. OnlyMoves(t)
    BY <1>1, <1>6, <2>1, Typed DEF McDelete, Remote, Stored, RequestFails, OnlyMoves, Proceeds
  <2>3. Local(t)'
    BY <1>1, <1>6, <2>1, <2>2, Typed, InCode DEF McDelete, Remote, Stored, RequestFails, OnlyMoves, Local, Asking, PoolPlaces, Pooled, Sql, Careless, Kind, Reads, Sets, Gots
  <2>4. QED
    BY <2>2, <2>3
<1>7. CASE S3Has(t)
  <2>1. pc[t] \notin {"idle", "dead"} /\ Proceeds(t)
    BY <1>1, <1>7, RemoteProceeds DEF S3Has, Remote, Replies
  <2>2. OnlyMoves(t)
    BY <1>1, <1>7, <2>1, Typed DEF S3Has, Remote, Replies, OnlyMoves, Proceeds
  <2>3. Local(t)'
    BY <1>1, <1>7, <2>1, <2>2, Typed, InCode DEF S3Has, Remote, Replies, OnlyMoves, Local, Asking, PoolPlaces, Pooled, Sql, Careless, Kind, Reads, Sets, Gots
  <2>4. QED
    BY <2>2, <2>3
<1>8. CASE S3Get(t)
  <2>1. pc[t] \notin {"idle", "dead"} /\ Proceeds(t)
    BY <1>1, <1>8, RemoteProceeds DEF S3Get, Remote, Replies
  <2>2. OnlyMoves(t)
    BY <1>1, <1>8, <2>1, Typed DEF S3Get, Remote, Replies, OnlyMoves, Proceeds
  <2>3. Local(t)'
    BY <1>1, <1>8, <2>1, <2>2, Typed, InCode DEF S3Get, Remote, Replies, OnlyMoves, Local, Asking, PoolPlaces, Pooled, Sql, Careless, Kind, Reads, Sets, Gots
  <2>4. QED
    BY <2>2, <2>3
<1>9. CASE S3Set(t)
  <2>1. pc[t] \notin {"idle", "dead"} /\ Proceeds(t)
    BY <1>1, <1>9, RemoteProceeds DEF S3Set, Remote, Stored, NotStored, RequestFails
  <2>2. OnlyMoves(t)
    BY <1>1, <1>9, <2>1, Typed DEF S3Set, Remote, Stored, NotStored, RequestFails, OnlyMoves, Proceeds
  <2>3. Local(t)'
    BY <1>1, <1>9, <2>1, <2>2, Typed, InCode DEF S3Set, Remote, Stored, NotStored, RequestFails, OnlyMoves, Local, Asking, PoolPlaces, Pooled, Sql, Careless, Kind, Reads, Sets, Gots
  <2>4. QED
    BY <2>2, <2>3
<1>10. CASE S3Delete(t)
  <2>1. pc[t] \notin {"idle", "dead"} /\ Proceeds(t)
    BY <1>1, <1>10, RemoteProceeds DEF S3Delete, Remote, Stored, NotStored
  <2>2. OnlyMoves(t)
    BY <1>1, <1>10, <2>1, Typed DEF S3Delete, Remote, Stored, NotStored, OnlyMoves, Proceeds
  <2>3. Local(t)'
    BY <1>1, <1>10, <2>1, <2>2, Typed, InCode DEF S3Delete, Remote, Stored, NotStored, OnlyMoves, Local, Asking, PoolPlaces, Pooled, Sql, Careless, Kind, Reads, Sets, Gots
  <2>4. QED
    BY <2>2, <2>3
<1>11. CASE RemoteDone(t)
  <2>1. pc[t] \notin {"idle", "dead"} /\ Proceeds(t)
    BY <1>1, <1>11, RemoteProceeds DEF RemoteDone
  <2>2. OnlyMoves(t)
    BY <1>1, <1>11, <2>1, Typed DEF RemoteDone, OnlyMoves, Proceeds
  <2>3. Local(t)'
    BY <1>1, <1>11, <2>1, <2>2, Typed, InCode DEF RemoteDone, OnlyMoves, Local, Asking, PoolPlaces, Pooled, Sql, Careless, Kind, Reads, Sets, Gots
  <2>4. QED
    BY <2>2, <2>3
<1>12. QED
  BY <1>2, <1>3, <1>4, <1>5, <1>6, <1>7, <1>8, <1>9, <1>10, <1>11

(* TIFF.                                                                   *)
LEMMA TiffLocal ==
  ASSUME RefInv, NEW t \in Threads,
         TiffHas(t) \/ TiffGet(t) \/ TiffRead(t) \/ TiffRefuse(t) \/ TiffPrepare(t) \/
         TiffLock(t) \/ TiffOpen(t) \/ TiffClose(t)
  PROVE  OnlyMoves(t) /\ Local(t)'
<1> USE DEF Goto, Raise, Finish, KeepsAll, callVars, dbVars
<1>1. StoreInv
  BY DEF RefInv
<1>2. CASE TiffHas(t)
  <2>1. pc[t] \notin {"idle", "dead"} /\ Proceeds(t)
    BY <1>1, <1>2, TiffProceeds, TiffCloses DEF TiffHas, TiffLook, TiffStep
  <2>2. OnlyMoves(t)
    BY <1>1, <1>2, <2>1, Typed DEF TiffHas, TiffLook, TiffStep, OnlyMoves, Proceeds
  <2>3. Local(t)'
    BY <1>1, <1>2, <2>1, <2>2, Typed, InCode DEF TiffHas, TiffLook, TiffStep, OnlyMoves, Local, Asking, PoolPlaces, Pooled, Sql, Careless, Kind, Reads, Sets, Gots, TiffPlaces
  <2>4. QED
    BY <2>2, <2>3
<1>3. CASE TiffGet(t)
  <2>1. pc[t] \notin {"idle", "dead"} /\ Proceeds(t)
    BY <1>1, <1>3, TiffProceeds, TiffCloses DEF TiffGet, TiffLook, TiffStep
  <2>2. OnlyMoves(t)
    BY <1>1, <1>3, <2>1, Typed DEF TiffGet, TiffLook, TiffStep, OnlyMoves, Proceeds
  <2>3. Local(t)'
    BY <1>1, <1>3, <2>1, <2>2, Typed, InCode DEF TiffGet, TiffLook, TiffStep, OnlyMoves, Local, Asking, PoolPlaces, Pooled, Sql, Careless, Kind, Reads, Sets, Gots, TiffPlaces
  <2>4. QED
    BY <2>2, <2>3
<1>4. CASE TiffRead(t)
  <2>1. pc[t] \notin {"idle", "dead"} /\ Proceeds(t)
    BY <1>1, <1>4, TiffProceeds, TiffCloses DEF TiffRead, TiffStep
  <2>2. OnlyMoves(t)
    BY <1>1, <1>4, <2>1, Typed DEF TiffRead, TiffStep, OnlyMoves, Proceeds
  <2>3. Local(t)'
    BY <1>1, <1>4, <2>1, <2>2, Typed, InCode DEF TiffRead, TiffStep, OnlyMoves, Local, Asking, PoolPlaces, Pooled, Sql, Careless, Kind, Reads, Sets, Gots, TiffPlaces
  <2>4. QED
    BY <2>2, <2>3
<1>5. CASE TiffRefuse(t)
  <2>1. pc[t] \notin {"idle", "dead"} /\ Proceeds(t)
    BY <1>1, <1>5, TiffProceeds, TiffCloses DEF TiffRefuse
  <2>2. OnlyMoves(t)
    BY <1>1, <1>5, <2>1, Typed DEF TiffRefuse, OnlyMoves, Proceeds
  <2>3. Local(t)'
    BY <1>1, <1>5, <2>1, <2>2, Typed, InCode DEF TiffRefuse, OnlyMoves, Local, Asking, PoolPlaces, Pooled, Sql, Careless, Kind, Reads, Sets, Gots, TiffPlaces
  <2>4. QED
    BY <2>2, <2>3
<1>6. CASE TiffPrepare(t)
  <2>1. pc[t] \notin {"idle", "dead"} /\ Proceeds(t)
    BY <1>1, <1>6, TiffProceeds, TiffCloses DEF TiffPrepare, TiffStep
  <2>2. OnlyMoves(t)
    BY <1>1, <1>6, <2>1, Typed DEF TiffPrepare, TiffStep, OnlyMoves, Proceeds
  <2>3. Local(t)'
    BY <1>1, <1>6, <2>1, <2>2, Typed, InCode DEF TiffPrepare, TiffStep, OnlyMoves, Local, Asking, PoolPlaces, Pooled, Sql, Careless, Kind, Reads, Sets, Gots, TiffPlaces
  <2>4. QED
    BY <2>2, <2>3
<1>7. CASE TiffLock(t)
  <2>1. pc[t] \notin {"idle", "dead"} /\ Proceeds(t)
    BY <1>1, <1>7, TiffProceeds, TiffCloses DEF TiffLock, TiffStep
  <2>2. OnlyMoves(t)
    BY <1>1, <1>7, <2>1, Typed DEF TiffLock, TiffStep, OnlyMoves, Proceeds
  <2>3. Local(t)'
    BY <1>1, <1>7, <2>1, <2>2, Typed, InCode DEF TiffLock, TiffStep, OnlyMoves, Local, Asking, PoolPlaces, Pooled, Sql, Careless, Kind, Reads, Sets, Gots, TiffPlaces
  <2>4. QED
    BY <2>2, <2>3
<1>8. CASE TiffOpen(t)
  <2>1. pc[t] \notin {"idle", "dead"} /\ Proceeds(t)
    BY <1>1, <1>8, TiffProceeds, TiffCloses DEF TiffOpen, TiffStep
  <2>2. OnlyMoves(t)
    BY <1>1, <1>8, <2>1, Typed DEF TiffOpen, TiffStep, OnlyMoves, Proceeds
  <2>3. Local(t)'
    BY <1>1, <1>8, <2>1, <2>2, Typed, InCode DEF TiffOpen, TiffStep, OnlyMoves, Local, Asking, PoolPlaces, Pooled, Sql, Careless, Kind, Reads, Sets, Gots, TiffPlaces
  <2>4. QED
    BY <2>2, <2>3
<1>9. CASE TiffClose(t)
  <2>1. pc[t] \notin {"idle", "dead"} /\ Proceeds(t)
    BY <1>1, <1>9, TiffProceeds, TiffCloses DEF TiffClose, TiffStep
  <2>2. OnlyMoves(t)
    BY <1>1, <1>9, <2>1, Typed DEF TiffClose, TiffStep, OnlyMoves, Proceeds
  <2>3. Local(t)'
    BY <1>1, <1>9, <2>1, <2>2, Typed, InCode DEF TiffClose, TiffStep, OnlyMoves, Local, Asking, PoolPlaces, Pooled, Sql, Careless, Kind, Reads, Sets, Gots, TiffPlaces
  <2>4. QED
    BY <2>2, <2>3
<1>10. QED
  BY <1>2, <1>3, <1>4, <1>5, <1>6, <1>7, <1>8, <1>9

(* The ways in and out.                                                    *)
LEMMA WaysLocal ==
  ASSUME RefInv, NEW t \in Threads,
         EncodeFirst(t) \/ Refused(t) \/ Release(t) \/ SqlLeaks(t)
  PROVE  OnlyMoves(t) /\ Local(t)'
<1> USE DEF Goto, Raise, Finish, KeepsAll, callVars, dbVars
<1>1. StoreInv
  BY DEF RefInv
<1>2. CASE EncodeFirst(t)
  <2>1. pc[t] \notin {"idle", "dead"} /\ Proceeds(t)
    BY <1>1, <1>2, TurnedAway, PoolProceeds DEF EncodeFirst
  <2>2. OnlyMoves(t)
    BY <1>1, <1>2, <2>1, Typed DEF EncodeFirst, OnlyMoves, Proceeds
  <2>3. Local(t)'
    BY <1>1, <1>2, <2>1, <2>2, Typed, InCode DEF EncodeFirst, OnlyMoves, Local, Asking, PoolPlaces, Pooled, Sql, Careless, Kind, Reads, Sets, Gots
  <2>4. QED
    BY <2>2, <2>3
<1>3. CASE Refused(t)
  <2>1. pc[t] \notin {"idle", "dead"} /\ Proceeds(t)
    BY <1>1, <1>3, TurnedAway, PoolProceeds DEF Refused
  <2>2. OnlyMoves(t)
    BY <1>1, <1>3, <2>1, Typed DEF Refused, OnlyMoves, Proceeds
  <2>3. Local(t)'
    BY <1>1, <1>3, <2>1, <2>2, Typed, InCode DEF Refused, OnlyMoves, Local, Asking, PoolPlaces, Pooled, Sql, Careless, Kind, Reads, Sets, Gots
  <2>4. QED
    BY <2>2, <2>3
<1>4. CASE Release(t)
  <2>1. pc[t] \notin {"idle", "dead"} /\ Proceeds(t)
    BY <1>1, <1>4, TurnedAway, PoolProceeds DEF Release
  <2>2. OnlyMoves(t)
    BY <1>1, <1>4, <2>1, Typed DEF Release, OnlyMoves, Proceeds
  <2>3. Local(t)'
    BY <1>1, <1>4, <2>1, <2>2, Typed, InCode DEF Release, OnlyMoves, Local, Asking, PoolPlaces, Pooled, Sql, Careless, Kind, Reads, Sets, Gots
  <2>4. QED
    BY <2>2, <2>3
<1>5. CASE SqlLeaks(t)
  <2>1. pc[t] \notin {"idle", "dead"} /\ Proceeds(t)
    BY <1>1, <1>5, TurnedAway, PoolProceeds DEF SqlLeaks, Leak
  <2>2. OnlyMoves(t)
    BY <1>1, <1>5, <2>1, Typed DEF SqlLeaks, Leak, OnlyMoves, Proceeds
  <2>3. Local(t)'
    BY <1>1, <1>5, <2>1, <2>2, Typed, InCode DEF SqlLeaks, Leak, OnlyMoves, Local, Asking, PoolPlaces, Pooled, Sql, Careless, Kind, Reads, Sets, Gots
  <2>4. QED
    BY <2>2, <2>3
<1>6. QED
  BY <1>2, <1>3, <1>4, <1>5

(* The connection is asked for.                                            *)
LEMMA PoolLocal ==
  ASSUME RefInv, NEW t \in Threads, GetConn(t)
  PROVE  OnlyMoves(t) /\ Local(t)' /\ op'[t] = op[t] /\ todo'[t] = todo[t]
         /\ pc[t] \in PoolPlaces /\ pc'[t] \in PoolPlaces \union {"refused", "use"}
<1>1. StoreInv
  BY DEF RefInv
<1>2. pc[t] \in PoolPlaces
  BY DEF GetConn, PoolStep, LookUp, Lock, MakeReaders, MakeWriter, Found, TakeIdle, OpenConn, OpenFails, PoolPlaces
<1>3. UNCHANGED callVars /\ UNCHANGED program
  BY DEF GetConn, PoolStep, LookUp, Lock, MakeReaders, MakeWriter, Found, TakeIdle, OpenConn, OpenFails
<1>4. /\ pc' \in [Threads -> Places] /\ \A u \in Threads \ {t} : pc'[u] = pc[u]
      /\ pc'[t] \in {"lock", "recheck", "makerw", "found", "acquire", "refused", "use"}
  BY <1>1, Typed DEF GetConn, PoolStep, LookUp, Lock, MakeReaders, MakeWriter, Found, TakeIdle, OpenConn, OpenFails,
     Goto, Places
<1>5. /\ \A u \in Threads \ {t} : err'[u] = err[u]
      /\ pc'[t] = "refused" => err'[t]
  <2>1. CASE MakeReaders(t) \/ MakeWriter(t) \/ OpenFails(t)
    BY <2>1, <1>1, Typed DEF MakeReaders, MakeWriter, OpenFails, Goto
  <2>2. CASE LookUp(t) \/ Lock(t) \/ Found(t) \/ TakeIdle(t) \/ OpenConn(t)
    BY <2>2, <1>1, Typed DEF LookUp, Lock, Found, TakeIdle, OpenConn, Goto
  <2>3. QED
    BY <2>1, <2>2 DEF GetConn, PoolStep
<1>6. OnlyMoves(t) /\ op' = op /\ todo' = todo /\ got' = got
  BY <1>3, <1>4, <1>5 DEF OnlyMoves, callVars
<1>7. Local(t)'
  BY <1>2, <1>3, <1>4, <1>5, <1>6, InCode DEF Local, Asking, PoolPlaces, Pooled, Sql, Careless, Kind, Reads, Sets
<1>8. QED
  BY <1>2, <1>4, <1>6, <1>7 DEF PoolPlaces

LEMMA LocalStays ==
  ASSUME LocalInv, NEW t \in Threads, OnlyMoves(t), Local(t)'
  PROVE  LocalInv'
<1>1. ASSUME NEW u \in Threads \ {t} PROVE Local(u)'
  <2>1. /\ pc'[u] = pc[u] /\ op'[u] = op[u] /\ err'[u] = err[u] /\ todo'[u] = todo[u] /\ got'[u] = got[u]
        /\ Local(u) /\ UNCHANGED program
    BY <1>1 DEF OnlyMoves, LocalInv
  <2>2. QED
    BY <2>1 DEF Local, Pooled, Sql, Careless, Kind, Reads, Sets
<1>2. QED
  BY <1>1 DEF LocalInv

LEMMA StartLocal ==
  ASSUME RefInv, NEW t \in Threads, Start(t)
  PROVE  OnlyMoves(t) /\ Local(t)' /\ op'[t] # None /\ op'[t] \in program.ops /\ todo'[t] = op'[t].writes
         /\ pc'[t] \in {"encode", "pool", "tcopen", "remote", "tiff"} /\ UNCHANGED <<answer, dbVars, conn>>
<1>1. StoreInv /\ program \in Programs
  BY DEF RefInv, StoreInv, AllInv, PoolInv, PoolTypes, PoolTypeOK
<1>2. PICK o \in program.ops :
        /\ op' = [op EXCEPT ![t] = o] /\ todo' = [todo EXCEPT ![t] = o.writes]
        /\ Goto(t, CASE Kind = "mbtiles" /\ o.name = "multiset" -> "encode"
                     [] Pooled /\ ~(Kind = "mbtiles" /\ o.name = "multiset") -> "pool"
                     [] Kind = "tc" -> "tcopen"
                     [] Kind \in {"memcache", "s3"} -> "remote"
                     [] Kind = "tiff" -> "tiff")
  BY DEF Start
<1>3. /\ got' = [got EXCEPT ![t] = None] /\ UNCHANGED <<program, err, conn, answer, dbVars>>
  BY DEF Start
<1>4. /\ o # None /\ Kind \in {"sqlite", "mbtiles", "bdb", "tc", "memcache", "s3", "tiff"}
      /\ None # "lost"
  BY <1>1, OpFacts, OpsAssumption
<1>5. \/ pc'[t] = "encode" /\ Sql
      \/ pc'[t] = "pool" /\ Pooled
      \/ pc'[t] = "tcopen" /\ Kind = "tc"
      \/ pc'[t] = "remote" /\ Careless
      \/ pc'[t] = "tiff" /\ Kind = "tiff"
  BY <1>1, <1>2, <1>4, Typed DEF Goto, Pooled, Sql, Careless
<1>6. OnlyMoves(t) /\ op'[t] = o /\ todo'[t] = o.writes /\ got'[t] = None
  BY <1>1, <1>2, <1>3, Typed DEF OnlyMoves, Goto
<1>7. Local(t)'
  BY <1>3, <1>4, <1>5, <1>6 DEF Local, Asking, PoolPlaces, Pooled, Sql, Careless, Kind, Reads
<1>8. QED
  BY <1>3, <1>4, <1>5, <1>6, <1>7

LEMMA ForgiveLocal ==
  ASSUME RefInv, NEW t \in Threads, Forgive(t)
  PROVE  OnlyMoves(t) /\ Local(t)' /\ op[t] = None /\ UNCHANGED <<op, answer, dbVars, conn, pc, todo>>
<1>1. StoreInv /\ Local(t) /\ pc[t] = "idle" /\ op[t] = None
  BY DEF RefInv, LocalInv, Forgive, StoreInv, Working
<1>2. /\ err' = [err EXCEPT ![t] = FALSE]
      /\ UNCHANGED <<program, pc, op, todo, got, answer, dbVars, conn>>
  BY DEF Forgive, callVars
<1>3. OnlyMoves(t)
  BY <1>1, <1>2, Typed DEF OnlyMoves
<1>4. Local(t)'
  BY <1>1, <1>2 DEF Local, Asking, PoolPlaces, Pooled, Sql, Careless, Kind, Reads, Sets
<1>5. QED
  BY <1>1, <1>2, <1>3, <1>4

LEMMA DieLocal ==
  ASSUME RefInv, NEW t \in Threads, Die(t)
  PROVE  LocalInv'
<1>1. /\ pc' = [u \in Threads |-> IF Mine(u) = Mine(t) THEN "dead" ELSE pc[u]]
      /\ op' = [u \in Threads |-> IF Mine(u) = Mine(t) THEN None ELSE op[u]]
      /\ UNCHANGED <<program, err, todo, got>>
  BY DEF Die, AssertFails, Abort
<1>2. ASSUME NEW u \in Threads PROVE Local(u)'
  <2>1. Local(u)
    BY DEF RefInv, LocalInv
  <2>2. CASE Mine(u) = Mine(t)
    BY <1>1, <2>1, <2>2 DEF Local, Asking, PoolPlaces, Pooled, Sql, Careless, Kind
  <2>3. CASE Mine(u) # Mine(t)
    BY <1>1, <2>1, <2>3 DEF Local, Asking, PoolPlaces, Pooled, Sql, Careless, Kind, Reads, Sets
  <2>4. QED
    BY <2>2, <2>3
<1>3. QED
  BY <1>2 DEF LocalInv

LEMMA SameLocal ==
  ASSUME LocalInv, UNCHANGED <<program, pc, err, op, todo, got>>
  PROVE  LocalInv'
BY DEF LocalInv, Local, Asking, PoolPlaces, Pooled, Sql, Careless, Kind, Reads, Sets

-----------------------------------------------------------------------------
(* The transaction.                                                         *)

(* A thread has a connection in its hand where it uses one.                *)
LEMMA Using ==
  ASSUME StoreInv, NEW t \in Threads, pc[t] \in {"use", "row", "release"}
  PROVE  conn[t] # None /\ conn[t] \in open
BY DEF StoreInv, AllInv, PoolInv, HoldersHave, HeldOwn, Holding

LEMMA TxnShape ==
  ASSUME StoreInv, txn # NoTxn
  PROVE  /\ txn.owner # None /\ txn.owner \in open /\ txn.owner.pool.access = "rw"
         /\ txn.work \in DbType /\ txn.kept \in DbType \union {None}
         /\ txn = [owner |-> txn.owner, work |-> txn.work, kept |-> txn.kept]
<1>1. PICK c \in open : \E d \in DbType : \E k \in DbType \union {None} :
                          c.pool.access = "rw" /\ txn = TxnOf(c, d, k)
  BY DEF StoreInv, TxnSound
<1>2. c # None
  BY NoneAssumption DEF StoreInv, AllInv, PoolInv, PoolTypes, PoolTypeOK
<1>3. QED
  BY <1>1, <1>2 DEF TxnOf

(* Where there are no transactions.                                        *)
LEMMA PlainData ==
  ASSUME RefInv, UNCHANGED <<program, txn>>, ~Sql,
         db' = db \/ (\E w \in AnyWrite : db' = Change(db, w))
  PROVE  DataInv' /\ WorkInv'
<1>1. txn' = NoTxn /\ ~Sql' /\ DbSane(db) /\ db \in DbType
  BY DEF RefInv, DataInv, StoreInv, Sql, Kind
<1>2. DbSane(db)'
  BY <1>1, ChangeSane DEF DbSane
<1>3. QED
  BY <1>1, <1>2 DEF DataInv, WorkInv, NoTxn

(* Steps that leave the store and its transaction, or end it.              *)
LEMMA AsideData ==
  ASSUME RefInv, NEW t \in Threads, OnlyMoves(t), ~Midway(t) \/ txn' = NoTxn, UNCHANGED db,
         \A u \in Threads \ {t} : conn'[u] = conn[u], UNCHANGED txn \/ txn' = NoTxn
  PROVE  DataInv'
<1>1. CASE txn' = NoTxn
  BY <1>1 DEF RefInv, DataInv, DbSane
<1>2. CASE UNCHANGED txn /\ txn # NoTxn
  <2>1. Sql' /\ DbSane(txn.work)' /\ DbSane(db)'
    BY <1>2 DEF RefInv, DataInv, DbSane, OnlyMoves, Sql, Kind
  <2>2. CASE \E u \in Threads : Midway(u)
    <3>1. PICK u \in Threads \ {t} : Midway(u)
      <4>1. ~Midway(t)
        BY <1>2
      <4>2. QED
        BY <2>2, <4>1
    <3>2. Midway(u)'
      BY <3>1, <1>2 DEF Midway, OnlyMoves, Sets
    <3>3. QED
      BY <2>1, <3>2 DEF DataInv
  <2>3. CASE txn.kept # None /\ txn.work = txn.kept
    BY <1>2, <2>1, <2>3 DEF DataInv
  <2>4. QED
    BY <1>2, <2>2, <2>3 DEF RefInv, DataInv
<1>3. QED
  BY <1>1, <1>2

LEMMA OthersWork ==
  ASSUME RefInv, NEW t \in Threads, OnlyMoves(t), UNCHANGED <<db, txn>>,
         \A u \in Threads \ {t} : conn'[u] = conn[u]
  PROVE  \A u \in Threads \ {t} : Sql' /\ pc'[u] = "use" /\ Sets(u)' /\ txn'.owner = conn'[u] =>
           \A x \in Tiles :
             Content(txn'.work, x) = Store!After(Store!Base', op'[u].writes \ todo'[u])[x]
<1> SUFFICES ASSUME NEW u \in Threads \ {t}, Sql', pc'[u] = "use", Sets(u)', txn'.owner = conn'[u], NEW x \in Tiles
             PROVE  Content(txn'.work, x) = Store!After(Store!Base', op'[u].writes \ todo'[u])[x]
  OBVIOUS
<1>1. Store!Base' = Store!Base
  BY SameShown, SameLate DEF Store!Base
<1>2. /\ Sql /\ pc[u] = "use" /\ Sets(u) /\ txn.owner = conn[u] /\ op'[u] = op[u] /\ todo'[u] = todo[u]
      /\ txn'.work = txn.work
  BY DEF OnlyMoves, Sql, Kind, Sets
<1>3. QED
  BY <1>1, <1>2 DEF RefInv, WorkInv

LEMMA AsideWork ==
  ASSUME RefInv, NEW t \in Threads, OnlyMoves(t), UNCHANGED db, pc'[t] # "use",
         \A u \in Threads \ {t} : conn'[u] = conn[u], UNCHANGED txn \/ txn' = NoTxn
  PROVE  WorkInv'
<1>1. CASE UNCHANGED txn
  BY <1>1, OthersWork DEF WorkInv
<1>2. CASE txn' = NoTxn
  <2>1. \A u \in Threads \ {t} : pc'[u] = "use" => conn'[u] # None
    BY Using DEF RefInv, OnlyMoves
  <2>2. QED
    BY <1>2, <2>1 DEF WorkInv, NoTxn
<1>3. QED
  BY <1>1, <1>2

(* What a connection that was idle or is new has begun.                    *)
LEMMA PoolWork ==
  ASSUME RefInv, NEW t \in Threads, GetConn(t)
  PROVE  DataInv' /\ WorkInv'
<1>1. /\ OnlyMoves(t) /\ op'[t] = op[t] /\ todo'[t] = todo[t] /\ pc[t] \in PoolPlaces
      /\ pc'[t] \in PoolPlaces \union {"refused", "use"}
  BY PoolLocal
<1>2. UNCHANGED <<db, txn>> /\ pc[t] # "use"
  BY <1>1 DEF GetConn, dbVars, PoolPlaces
<1>3. conn \in [Threads -> Conns \union {None}] /\ StoreInv
  BY DEF RefInv, StoreInv, AllInv, PoolInv, PoolTypes, PoolTypeOK
<1>4. /\ \A u \in Threads \ {t} : conn'[u] = conn[u]
      /\ TakeIdle(t) \/ OpenConn(t) \/ pc'[t] # "use"
  <2>1. CASE TakeIdle(t) \/ OpenConn(t)
    BY <2>1, <1>3 DEF TakeIdle, OpenConn
  <2>2. CASE LookUp(t) \/ Lock(t) \/ Found(t) \/ MakeReaders(t) \/ MakeWriter(t) \/ OpenFails(t)
    BY <2>2, <1>3, Typed DEF LookUp, Lock, Found, MakeReaders, MakeWriter, OpenFails, Goto
  <2>3. QED
    BY <2>1, <2>2 DEF GetConn, PoolStep
<1>5. DataInv'
  BY <1>1, <1>2, <1>4, AsideData DEF Midway
<1>6. ASSUME Sql', pc'[t] = "use", Sets(t)', txn'.owner = conn'[t], NEW x \in Tiles
      PROVE  Content(txn'.work, x) = Store!After(Store!Base', op'[t].writes \ todo'[t])[x]
  <2>1. Sql /\ Sets(t) /\ txn.owner = conn'[t] /\ Store!Base' = Store!Base /\ txn'.work = txn.work
    BY <1>1, <1>2, <1>6, SameShown, SameLate DEF OnlyMoves, Sql, Kind, Sets, Store!Base
  <2>2. todo[t] = op[t].writes
    BY <1>1, <1>2, <2>1 DEF RefInv, StoreInv, TxnBegun
  <2>0. pc[t] = "acquire" => PoolOf(t) \in PoolIds
    <3>1. access[t] \in Access /\ (pc[t] = "acquire" => table[Mine(t)][access[t]] # None)
      BY <1>3 DEF StoreInv, AllInv, PoolInv, PoolTypes, PoolTypeOK, PoolsPublished
    <3>2. QED
      BY <3>1, <1>3, PoolFacts DEF PoolOf, StoreInv, AllInv, PoolInv
  <2>3. CASE OpenConn(t)
    <3>0. PICK n \in 1 .. MaxConns : /\ [pool |-> PoolOf(t), n |-> n] \notin open
                                    /\ conn' = [conn EXCEPT ![t] = [pool |-> PoolOf(t), n |-> n]]
      BY <2>3 DEF OpenConn
    <3>1. conn'[t] \notin open /\ conn'[t] \in Conns
      BY <2>0, <2>3, <3>0, <1>3 DEF OpenConn, Conns
    <3>2. conn'[t] # None
      BY <3>1, NoneAssumption
    <3>3. txn = NoTxn \/ txn.owner \in open
      BY <1>3, TxnShape
    <3>4. QED
      BY <2>1, <3>1, <3>2, <3>3 DEF NoTxn
  <2>4. CASE TakeIdle(t)
    <3>1. PoolOf(t) \in PoolIds
      BY <2>0, <2>4 DEF TakeIdle
    <3>2. PICK c \in idle[PoolOf(t)] : conn' = [conn EXCEPT ![t] = c]
      BY <2>4 DEF TakeIdle
    <3>3. conn'[t] = c
      BY <1>3, <3>2
    <3>4. \A u \in Threads : conn[u] # c
      BY <1>3, <3>1, <3>2 DEF StoreInv, AllInv, PoolInv, IdleOnce
    <3>5. c # None
      BY <1>3, <3>1, <3>2, NoneAssumption DEF StoreInv, AllInv, PoolInv, PoolTypes, PoolTypeOK
    <3>6. txn # NoTxn
      BY <2>1, <3>3, <3>5 DEF NoTxn
    <3>7. ~\E u \in Threads : Midway(u)
      BY <2>1, <3>3, <3>4 DEF Midway
    <3>8. txn.kept # None /\ txn.work = txn.kept
      BY <3>6, <3>7 DEF RefInv, DataInv
    <3>9. Late = [y \in Tiles |-> Content(txn.work, y)]
      BY <3>8 DEF Late
    <3>10. Late # None
      <4>1. Late \in [Tiles -> Images \union {None}]
        BY <1>3, <3>6, <3>9, TxnShape, ContentType
      <4>2. QED
        BY <4>1, NoneIsNothing
    <3>11. Store!Base[x] = Content(txn.work, x)
      BY <3>9, <3>10 DEF Store!Base
    <3>12. op'[t].writes \ todo'[t] = {}
      BY <1>1, <2>2
    <3>13. QED
      BY <2>1, <3>11, <3>12, AfterNone
  <2>5. QED
    BY <1>4, <1>6, <2>3, <2>4
<1>7. WorkInv'
  BY <1>1, <1>2, <1>4, <1>6, OthersWork DEF WorkInv
<1>8. QED
  BY <1>5, <1>7

(* The statements of SQLite and MBTiles.                                   *)
LEMMA WriteData ==
  ASSUME RefInv, NEW t \in Threads, SqlWrite(t)
  PROVE  DataInv' /\ WorkInv' /\ Late' = Late
<1>1. /\ OnlyMoves(t) /\ StoreInv /\ Sql /\ pc[t] = "use" /\ Sets(t) /\ ~err[t]
      /\ UNCHANGED <<conn, op, pc, err, db>> /\ txn.owner \in {None, conn[t]}
  BY SqlLocal DEF RefInv, SqlWrite, SqlStep, CanWrite
<1>2. PICK w \in todo[t] :
        /\ txn' = [owner |-> conn[t], work |-> Change(Base(t), w),
                   kept |-> IF txn.owner = conn[t] THEN txn.kept ELSE None]
        /\ todo' = [todo EXCEPT ![t] = @ \ {w}]
  BY DEF SqlWrite
<1>3. /\ conn[t] # None /\ todo'[t] = todo[t] \ {w} /\ todo[t] \subseteq op[t].writes /\ w \in AnyWrite
      /\ op[t] # None
  BY <1>1, <1>2, Using, Typed, InCode
<1>4. \A v, u \in op[t].writes : v[1] = u[1] => v = u
  <2>1. op[t] \in program.ops /\ program \in Programs
    BY <1>1, <1>3, CallRecord
  <2>2. QED
    BY <1>1, <2>1, OpsAssumption DEF Sets
<1>5. Sql' /\ Midway(t)'
  BY <1>1, <1>2, <1>3 DEF Midway, Sets, OnlyMoves, Sql, Kind
<1>6. \A u \in Threads \ {t} : conn'[u] # txn'.owner
  BY <1>1, <1>2, <1>3, TxnFacts
<1>7. DbSane(db)' /\ db \in DbType /\ DbSane(db)
  BY <1>1 DEF RefInv, DataInv, DbSane, StoreInv
<1>8. CASE txn.owner = conn[t]
  <2>1. txn # NoTxn /\ txn.work \in DbType /\ DbSane(txn.work) /\ Base(t) = txn.work
    BY <1>3, <1>8, TxnShape, <1>1 DEF NoTxn, RefInv, DataInv, Base
  <2>2. DbSane(txn.work)' /\ txn'.kept = txn.kept
    BY <1>2, <1>3, <1>8, <2>1, ChangeSane DEF DbSane
  <2>3. Late' = Late
    BY <2>2 DEF Late
  <2>4. Store!Base' = Store!Base
    BY <1>1, <2>3, SameShown DEF Store!Base
  <2>5. ASSUME NEW x \in Tiles
        PROVE  Content(txn'.work, x) = Store!After(Store!Base', op'[t].writes \ todo'[t])[x]
    <3>1. Content(txn'.work, x) = IF x = w[1] THEN w[2] ELSE Content(txn.work, x)
      BY <1>2, <1>3, <2>1, ChangeSane
    <3>2. Content(txn.work, x) = Store!After(Store!Base, op[t].writes \ todo[t])[x]
      BY <1>1, <1>8 DEF RefInv, WorkInv
    <3>3. op'[t].writes \ todo'[t] = (op[t].writes \ todo[t]) \union {w}
      BY <1>1, <1>3
    <3>4. /\ op[t].writes \ todo[t] \subseteq op[t].writes
          /\ w \in op[t].writes
      BY <1>3
    <3>5. Store!After(Store!Base, (op[t].writes \ todo[t]) \union {w})[x]
            = IF x = w[1] THEN w[2] ELSE Store!After(Store!Base, op[t].writes \ todo[t])[x]
      <4> DEFINE W == op[t].writes
                 V == op[t].writes \ todo[t]
                 f == Store!Base
      <4>1. (\A v, u \in W : v[1] = u[1] => v = u) /\ V \subseteq W /\ w \in W
        BY <1>4, <3>4
      <4> HIDE DEF W, V, f
      <4>2. Store!After(f, V \union {w})[x] = IF x = w[1] THEN w[2] ELSE Store!After(f, V)[x]
        BY <4>1, AfterMore
      <4>3. QED
        BY <4>2 DEF W, V, f
    <3>6. Store!After(Store!Base', op'[t].writes \ todo'[t])
            = Store!After(Store!Base, (op[t].writes \ todo[t]) \union {w})
      BY <2>4, <3>3, Zenon
    <3>7. QED
      BY <3>1, <3>2, <3>5, <3>6
  <2>6. QED
    BY <1>5, <1>6, <1>7, <2>2, <2>3, <2>5 DEF DataInv, WorkInv
<1>9. CASE txn.owner # conn[t]
  <2>1. txn = NoTxn /\ Base(t) = db /\ todo[t] = op[t].writes
    BY <1>1, <1>9, TxnShape DEF Base, RefInv, StoreInv, TxnBegun
  <2>2. DbSane(txn.work)' /\ txn'.kept = None
    BY <1>2, <1>3, <1>7, <1>9, <2>1, ChangeSane DEF DbSane
  <2>3. Late' = Late /\ Late = None
    BY <2>1, <2>2 DEF Late, NoTxn
  <2>4. Store!Base' = Shown
    BY <1>1, <2>3, SameShown DEF Store!Base
  <2>5. ASSUME NEW x \in Tiles
        PROVE  Content(txn'.work, x) = Store!After(Store!Base', op'[t].writes \ todo'[t])[x]
    <3>1. Content(txn'.work, x) = IF x = w[1] THEN w[2] ELSE Shown[x]
      BY <1>2, <1>3, <1>7, <2>1, ChangeSane DEF Shown
    <3>2. op'[t].writes \ todo'[t] = {w}
      BY <1>1, <1>3, <2>1
    <3>3. Store!After(Store!Base', op'[t].writes \ todo'[t]) = Store!After(Shown, {w})
      BY <2>4, <3>2, Zenon
    <3>4. QED
      BY <1>3, <3>1, <3>3, AfterOne
  <2>6. QED
    BY <1>5, <1>6, <1>7, <2>2, <2>3, <2>5 DEF DataInv, WorkInv
<1>10. QED
  BY <1>8, <1>9

(* A commit is of all that its call had to write.                          *)
LEMMA CommitFacts ==
  ASSUME RefInv, NEW t \in Threads, SqlCommit(t)
  PROVE  /\ txn # NoTxn /\ txn.owner = conn[t] /\ Pending(t) = op[t].writes /\ op[t].writes # {}
         /\ DbSane(txn.work) /\ txn.work \in DbType
         /\ [x \in Tiles |-> Content(txn.work, x)] = Store!After(Store!Base, op[t].writes)
<1>1. /\ StoreInv /\ Sql /\ pc[t] = "use" /\ Sets(t) /\ todo[t] = {}
  BY DEF RefInv, SqlCommit, SqlStep
<1>2. op[t] # None /\ op[t].writes # {} /\ conn[t] # None
  BY <1>1, InCall, Using
<1>3. txn.owner = conn[t]
  BY <1>1, <1>2 DEF StoreInv, TxnBegun
<1>4. txn # NoTxn
  BY <1>2, <1>3 DEF NoTxn
<1>5. txn.work \in DbType /\ DbSane(txn.work)
  BY <1>1, <1>4, TxnShape DEF RefInv, DataInv
<1>6. op[t].writes \ todo[t] = op[t].writes
  BY <1>1
<1>7. \A x \in Tiles : Content(txn.work, x) = Store!After(Store!Base, op[t].writes)[x]
  BY <1>1, <1>3, <1>6 DEF RefInv, WorkInv
<1>8. [x \in Tiles |-> Content(txn.work, x)] = Store!After(Store!Base, op[t].writes)
  BY <1>7 DEF Store!After
<1>9. QED
  BY <1>1, <1>2, <1>3, <1>4, <1>5, <1>8 DEF Pending

LEMMA CommitData ==
  ASSUME RefInv, NEW t \in Threads, SqlCommit(t)
  PROVE  DataInv' /\ WorkInv'
<1>1. OnlyMoves(t) /\ StoreInv /\ Sql /\ UNCHANGED <<conn, op>> /\ pc[t] = "use" /\ pc'[t] = "release"
  BY SqlLocal, Typed DEF RefInv, SqlCommit, SqlStep, Goto
<1>2. Sql' /\ \A u \in Threads \ {t} : conn'[u] # conn[t] /\ (pc'[u] = "use" => conn'[u] # None)
  BY <1>1, Using, TxnFacts DEF OnlyMoves, Sql, Kind
<1>3. CASE db' = txn.work /\ txn' = NoTxn
  BY <1>1, <1>2, <1>3, CommitFacts DEF DataInv, WorkInv, NoTxn, DbSane
<1>4. CASE txn' = [txn EXCEPT !.kept = txn.work] /\ UNCHANGED db
  <2>1. /\ txn'.owner = conn[t] /\ txn'.work = txn.work /\ txn'.kept = txn.work
    BY <1>1, <1>4, CommitFacts, TxnShape
  <2>2. txn.work # None
    BY CommitFacts, NoneIsNothing
  <2>3. DbSane(db)' /\ DbSane(txn.work)'
    <3>1. DbSane(db) /\ DbSane(txn.work)
      BY CommitFacts DEF RefInv, DataInv
    <3>2. QED
      BY <1>4, <2>1, <3>1 DEF DbSane
  <2>4. DataInv'
    BY <1>2, <2>1, <2>2, <2>3 DEF DataInv
  <2>5. WorkInv'
    BY <1>1, <1>2, <2>1 DEF WorkInv
  <2>6. QED
    BY <2>4, <2>5
<1>5. QED
  BY <1>3, <1>4 DEF SqlCommit

(* What a delete that can be done makes of the store, or of what is late.  *)
LEMMA DeleteData ==
  ASSUME RefInv, NEW t \in Threads, SqlDelete(t)
  PROVE  /\ DataInv' /\ WorkInv'
         /\ Pending(t) = op[t].writes /\ op[t].writes # {}
         /\ \/ /\ Shown' = Store!After(Store!Base, op[t].writes) /\ Late' = None /\ ~err'[t]
            \/ /\ UNCHANGED db /\ Late' = Store!After(Store!Base, op[t].writes) /\ ~err'[t]
            \/ UNCHANGED <<db, txn>> /\ err'[t]
<1>1. /\ OnlyMoves(t) /\ StoreInv /\ Sql /\ UNCHANGED <<conn, op>> /\ pc[t] = "use" /\ pc'[t] = "release"
      /\ ~err[t] /\ op[t].name = "delete" /\ Pending(t) = op[t].writes /\ op[t] # None
  BY SqlLocal, Typed, InCode DEF RefInv, SqlDelete, SqlStep, Goto, Pending
<1>2. /\ conn[t] # None /\ ~Midway(t)
      /\ \A u \in Threads \ {t} : conn'[u] # conn[t] /\ (pc'[u] = "use" => conn'[u] # None)
  BY <1>1, Using, TxnFacts DEF OnlyMoves, Midway, Sets
<1>3. PICK w \in op[t].writes :
        \/ /\ txn.owner = None /\ Readers = {}
           /\ db' = Change(db, w) /\ todo' = [todo EXCEPT ![t] = {}]
           /\ UNCHANGED <<txn, err>>
        \/ /\ txn.owner = conn[t]
           /\ txn' = [txn EXCEPT !.work = Change(@, w), !.kept = Change(txn.work, w)]
           /\ todo' = [todo EXCEPT ![t] = {}]
           /\ UNCHANGED <<db, err>>
        \/ /\ txn.owner # conn[t] /\ (txn.owner # None \/ Readers # {}) /\ "commit" \in MayFail
           /\ Raise(t) /\ UNCHANGED <<db, txn, todo>>
  BY DEF SqlDelete
<1>4. op[t].writes = {w} /\ w \in AnyWrite
  <2>1. op[t] \in program.ops /\ program \in Programs
    BY <1>1, CallRecord
  <2>2. \E x \in Tiles : op[t].writes = {<<x, None>>}
    BY <1>1, <2>1, OpsAssumption
  <2>3. QED
    BY <1>3, <2>2 DEF AnyWrite
<1>5. Sql' /\ db \in DbType /\ DbSane(db)
  BY <1>1 DEF OnlyMoves, Sql, Kind, RefInv, DataInv, StoreInv
<1>6. CASE txn.owner = None /\ db' = Change(db, w) /\ UNCHANGED <<txn, err>>
  <2>1. txn = NoTxn /\ txn' = NoTxn /\ Late = None /\ Late' = None
    BY <1>1, <1>6, TxnShape DEF NoTxn, Late
  <2>2. DataInv' /\ WorkInv'
    BY <1>1, <1>2, <1>4, <1>5, <1>6, <2>1, ChangeSane DEF DataInv, WorkInv, NoTxn, DbSane
  <2>3. ASSUME NEW x \in Tiles PROVE Shown'[x] = Store!After(Store!Base, op[t].writes)[x]
    <3>1. Shown'[x] = Content(Change(db, w), x) /\ Shown[x] = Content(db, x)
      BY <1>6 DEF Shown, Content
    <3>2. Store!Base[x] = Content(db, x)
      BY <2>1, <3>1 DEF Store!Base
    <3>3. Store!After(Store!Base, op[t].writes) = Store!After(Store!Base, {w})
      BY <1>4, Zenon
    <3>4. Store!After(Store!Base, {w})[x] = IF x = w[1] THEN w[2] ELSE Store!Base[x]
      BY <1>4, AfterOne
    <3>5. Content(Change(db, w), x) = IF x = w[1] THEN w[2] ELSE Content(db, x)
      BY <1>4, <1>5, ChangeSane
    <3>6. QED
      BY <3>1, <3>2, <3>3, <3>4, <3>5
  <2>4. Shown' = [x \in Tiles |-> Shown'[x]]
    BY DEF Shown
  <2>5. Shown' = Store!After(Store!Base, op[t].writes)
    BY <2>3, <2>4 DEF Store!After
  <2>6. QED
    BY <1>1, <1>4, <1>6, <2>1, <2>2, <2>5
<1>7. CASE txn.owner = conn[t] /\ txn' = [txn EXCEPT !.work = Change(@, w), !.kept = Change(txn.work, w)]
           /\ UNCHANGED <<db, err>>
  <2>1. txn # NoTxn
    BY <1>2, <1>7 DEF NoTxn
  <2>2. txn.work \in DbType /\ DbSane(txn.work) /\ Change(txn.work, w) \in DbType
    BY <1>1, <1>4, <2>1, TxnShape, ChangeType DEF RefInv, DataInv
  <2>3. /\ txn'.owner = conn[t] /\ txn'.work = Change(txn.work, w) /\ txn'.kept = Change(txn.work, w)
    BY <1>1, <1>7, <2>1, TxnShape
  <2>4. Change(txn.work, w) # None
    BY <2>2, NoneIsNothing
  <2>5. DbSane(db)' /\ DbSane(txn.work)'
    BY <1>4, <1>5, <1>7, <2>2, <2>3, ChangeSane DEF DbSane
  <2>6. DataInv' /\ WorkInv'
    BY <1>1, <1>2, <1>5, <2>3, <2>4, <2>5 DEF DataInv, WorkInv
  <2>7. ~\E u \in Threads : Midway(u)
    BY <1>1, <1>2, <1>7 DEF Midway
  <2>8. txn.kept # None /\ txn.work = txn.kept
    BY <2>1, <2>7 DEF RefInv, DataInv
  <2>9. Late = [y \in Tiles |-> Content(txn.work, y)] /\ Late # None
    <3>1. Late = [y \in Tiles |-> Content(txn.work, y)]
      BY <2>8 DEF Late
    <3>2. Late \in [Tiles -> Images \union {None}]
      BY <2>2, <3>1, ContentType
    <3>3. QED
      BY <3>1, <3>2, NoneIsNothing
  <2>10. Late' = [y \in Tiles |-> Content(Change(txn.work, w), y)]
    BY <2>3, <2>4 DEF Late, Content
  <2>11. ASSUME NEW x \in Tiles PROVE Late'[x] = Store!After(Store!Base, op[t].writes)[x]
    <3>1. Store!Base = Late
      BY <2>9 DEF Store!Base
    <3>2. Store!After(Store!Base, op[t].writes) = Store!After(Late, {w})
      BY <1>4, <3>1, Zenon
    <3>3. Store!After(Late, {w})[x] = IF x = w[1] THEN w[2] ELSE Late[x]
      BY <1>4, AfterOne
    <3>4. Content(Change(txn.work, w), x) = IF x = w[1] THEN w[2] ELSE Content(txn.work, x)
      BY <1>4, <2>2, ChangeSane
    <3>5. QED
      BY <2>9, <2>10, <3>2, <3>3, <3>4
  <2>12. Late' = Store!After(Store!Base, op[t].writes)
    BY <2>10, <2>11 DEF Store!After
  <2>13. QED
    BY <1>1, <1>4, <1>7, <2>6, <2>12
<1>8. CASE Raise(t) /\ UNCHANGED <<db, txn>>
  <2>1. DataInv' /\ WorkInv'
    BY <1>1, <1>2, <1>8, AsideData, AsideWork
  <2>2. err'[t]
    BY <1>1, <1>8, Typed DEF Raise
  <2>3. QED
    BY <1>1, <1>4, <1>8, <2>1, <2>2
<1>9. QED
  BY <1>3, <1>6, <1>7, <1>8

(* What a connection that is closed, or a statement that fails, leaves.    *)
LEMMA ReleaseData ==
  ASSUME RefInv, NEW t \in Threads, Release(t)
  PROVE  DataInv' /\ WorkInv' /\ Late' \in {Late, None} /\ (~err[t] => Late' = Late)
<1>1. OnlyMoves(t) /\ StoreInv /\ UNCHANGED <<db, err>> /\ pc[t] = "release" /\ pc'[t] = "idle"
  BY WaysLocal, Typed DEF RefInv, Release, Finish, Goto
<1>2. ~Midway(t) /\ txn' \in {txn, NoTxn}
  BY <1>1 DEF Midway, Release, CloseTxn
<1>3. \A u \in Threads \ {t} : conn'[u] = conn[u]
  BY <1>1 DEF Release, GiveBack, StoreInv, AllInv, PoolInv, PoolTypes, PoolTypeOK
<1>4. DataInv' /\ WorkInv'
  BY <1>1, <1>2, <1>3, AsideData, AsideWork
<1>5. Late' \in {Late, None}
  BY <1>2, SameLate DEF Late, NoTxn
<1>6. ASSUME ~err[t] PROVE Late' = Late
  <2>1. UNCHANGED open
    BY <1>6 DEF Release, GiveBack
  <2>2. txn = NoTxn \/ txn.owner \in open
    BY <1>1, TxnShape
  <2>3. UNCHANGED txn
    BY <2>1, <2>2 DEF Release, CloseTxn, NoTxn
  <2>4. QED
    BY <2>3, SameLate
<1>7. QED
  BY <1>4, <1>5, <1>6

LEMMA FailData ==
  ASSUME RefInv, NEW t \in Threads, SqlFails(t)
  PROVE  DataInv' /\ WorkInv' /\ Late' \in {Late, None}
<1>1. OnlyMoves(t) /\ StoreInv /\ UNCHANGED <<db, conn>> /\ pc[t] = "use" /\ pc'[t] = "release"
  BY SqlLocal, Typed DEF RefInv, SqlFails, SqlStep, Goto
<1>2. (~Midway(t) /\ UNCHANGED txn) \/ txn' = NoTxn
  BY DEF Midway, SqlFails
<1>3. DataInv' /\ WorkInv'
  BY <1>1, <1>2, AsideData, AsideWork
<1>4. Late' \in {Late, None}
  BY <1>2, SameLate DEF Late, NoTxn
<1>5. QED
  BY <1>3, <1>4

(* Who writes for a process that ends has lost the connection.             *)
LEMMA DieData ==
  ASSUME RefInv, NEW t \in Threads, Die(t)
  PROVE  DataInv' /\ WorkInv' /\ Late' \in {Late, None} /\ UNCHANGED <<program, db, answer>>
<1>1. /\ pc' = [u \in Threads |-> IF Mine(u) = Mine(t) THEN "dead" ELSE pc[u]]
      /\ conn' = [u \in Threads |-> IF Mine(u) = Mine(t) THEN None ELSE conn[u]]
      /\ open' = {c \in open : Mine(c.pool.maker) # Mine(t)}
      /\ op' = [u \in Threads |-> IF Mine(u) = Mine(t) THEN None ELSE op[u]]
      /\ UNCHANGED <<program, err, todo, got, answer, db>> /\ CloseTxn
  BY DEF Die, AssertFails, Abort
<1>2. StoreInv /\ DbSane(db)' /\ txn' \in {txn, NoTxn} /\ (txn' # NoTxn => txn.owner \in open')
  BY <1>1 DEF RefInv, DataInv, DbSane, CloseTxn
<1>3. Late' \in {Late, None}
  BY <1>2, SameLate DEF Late, NoTxn
<1>4. ASSUME NEW u \in Threads, pc'[u] = "use"
      PROVE  Mine(u) # Mine(t) /\ pc[u] = "use" /\ conn'[u] = conn[u] /\ conn[u] # None /\ op'[u] = op[u]
  BY <1>1, <1>2, <1>4, Using
<1>5. CASE txn' = NoTxn
  <2>1. DataInv'
    BY <1>2, <1>5 DEF DataInv
  <2>2. \A u \in Threads : pc'[u] = "use" => txn'.owner # conn'[u]
    BY <1>4, <1>5 DEF NoTxn
  <2>3. QED
    BY <1>1, <1>3, <2>1, <2>2 DEF WorkInv
<1>6. CASE txn' # NoTxn
  <2>1. /\ txn' = txn /\ Sql' = Sql /\ Sql /\ DbSane(txn.work)' /\ txn # NoTxn
        /\ txn.owner \in open /\ Mine(txn.owner.pool.maker) # Mine(t)
    BY <1>1, <1>2, <1>6 DEF RefInv, DataInv, DbSane, Sql, Kind
  <2>2. ASSUME NEW u \in Threads, Midway(u) PROVE Midway(u)'
    <3>1. pc[u] = "use" /\ conn[u] = txn.owner
      BY <2>2 DEF Midway
    <3>2. Mine(conn[u].pool.maker) = Mine(u)
      BY <1>2, <3>1, Using DEF StoreInv, AllInv, PoolInv, HeldOwn
    <3>3. Mine(u) # Mine(t)
      BY <2>1, <3>1, <3>2
    <3>4. pc'[u] = "use" /\ op'[u] = op[u] /\ conn'[u] = conn[u] /\ err'[u] = err[u] /\ todo'[u] = todo[u]
      BY <1>1, <3>1, <3>3
    <3>5. QED
      BY <2>1, <2>2, <3>4 DEF Midway, Sets
  <2>3. DataInv'
    BY <1>2, <2>1, <2>2 DEF RefInv, DataInv
  <2>4. Store!Base' = Store!Base
    BY <1>1, <2>1, SameShown, SameLate DEF Store!Base
  <2>5. ASSUME NEW u \in Threads, pc'[u] = "use", Sets(u)', txn'.owner = conn'[u], NEW x \in Tiles
        PROVE  Content(txn'.work, x) = Store!After(Store!Base', op'[u].writes \ todo'[u])[x]
    <3>1. pc[u] = "use" /\ op'[u] = op[u] /\ conn'[u] = conn[u] /\ todo'[u] = todo[u] /\ Sets(u)
      BY <1>1, <1>4, <2>5 DEF Sets
    <3>2. Content(txn.work, x) = Store!After(Store!Base, op[u].writes \ todo[u])[x]
      BY <2>1, <2>5, <3>1 DEF RefInv, WorkInv
    <3>3. QED
      BY <2>1, <2>4, <3>1, <3>2
  <2>6. WorkInv'
    BY <2>5 DEF WorkInv
  <2>7. QED
    BY <1>1, <1>3, <2>3, <2>6
<1>7. QED
  BY <1>1, <1>3, <1>5, <1>6

-----------------------------------------------------------------------------
(* The TIFF file.                                                           *)

LEMMA FileAside ==
  ASSUME RefInv, NEW t \in Threads, OnlyMoves(t), pc[t] # "tiffclose", pc'[t] # "tiffclose",
         tiff'.work = tiff.work, tiff'.file = tiff.file, Kind = "tiff" => UNCHANGED db
  PROVE  FileInv'
<1>1. Kind' = Kind /\ \A u \in Threads \ {t} : pc'[u] = pc[u] /\ err'[u] = err[u] /\ todo'[u] = todo[u]
  BY DEF OnlyMoves, Kind
<1>2. Kind' = "tiff" /\ tiff'.file # "whole" => \A x \in Tiles : Content(db', x) = None
  BY <1>1 DEF RefInv, FileInv
<1>3. \A u \in Threads : pc'[u] = "tiffclose" /\ ~err'[u] => tiff'.work \in todo'[u]
  BY <1>1 DEF RefInv, FileInv
<1>4. tiff'.work # None => \E u \in Threads : pc'[u] = "tiffclose" /\ tiff'.work \in todo'[u]
  BY <1>1 DEF RefInv, FileInv
<1>5. QED
  BY <1>2, <1>3, <1>4 DEF FileInv

LEMMA OpenFile ==
  ASSUME RefInv, NEW t \in Threads, OnlyMoves(t), TiffOpen(t)
  PROVE  FileInv'
<1>1. /\ StoreInv /\ pc[t] = "tiffopen" /\ pc'[t] = "tiffclose" /\ Kind' = Kind /\ UNCHANGED <<db, todo>>
      /\ \A u \in Threads \ {t} : pc'[u] = pc[u]
  BY Typed DEF RefInv, TiffOpen, TiffStep, OnlyMoves, Kind, Goto
<1>2. tiff.lock = t /\ \A u \in Threads \ {t} : pc'[u] # "tiffclose"
  BY <1>1 DEF StoreInv, TiffSound
<1>3. tiff.work = None
  BY <1>1, <1>2 DEF RefInv, FileInv
<1>4. CASE Raise(t) /\ UNCHANGED tiff
  BY <1>1, <1>2, <1>3, <1>4, Typed DEF FileInv, RefInv, Raise, Content
<1>5. CASE \E w \in todo[t] : tiff' = [tiff EXCEPT !.work = w, !.file = IF @ = "none" THEN "broken" ELSE @]
  <2>1. PICK w \in todo[t] : tiff' = [tiff EXCEPT !.work = w, !.file = IF @ = "none" THEN "broken" ELSE @]
    BY <1>5
  <2>2. tiff'.work = w /\ (tiff'.file # "whole" => tiff.file # "whole")
    BY <1>1, <2>1 DEF StoreInv, TiffSound
  <2>3. QED
    BY <1>1, <1>2, <2>2 DEF FileInv, RefInv, Content
<1>6. QED
  BY <1>4, <1>5 DEF TiffOpen

LEMMA CloseFile ==
  ASSUME RefInv, NEW t \in Threads, OnlyMoves(t), TiffClose(t)
  PROVE  FileInv'
<1>1. /\ StoreInv /\ pc[t] = "tiffclose" /\ pc'[t] # "tiffclose" /\ Kind' = Kind
      /\ \A u \in Threads \ {t} : pc'[u] = pc[u]
  BY Typed DEF RefInv, TiffClose, TiffStep, OnlyMoves, Kind, Goto
<1>2. \A u \in Threads : pc'[u] # "tiffclose"
  BY <1>1 DEF StoreInv, TiffSound
<1>3. /\ tiff'.work = None
      /\ tiff'.file = "whole" \/ (tiff'.file = tiff.file /\ UNCHANGED db)
  BY <1>1 DEF TiffClose, StoreInv, TiffSound
<1>4. QED
  BY <1>1, <1>2, <1>3 DEF RefInv, FileInv, Content

LEMMA DieFile ==
  ASSUME RefInv, NEW t \in Threads, Die(t)
  PROVE  FileInv'
<1>1. /\ pc' = [u \in Threads |-> IF Mine(u) = Mine(t) THEN "dead" ELSE pc[u]]
      /\ UNCHANGED <<program, tiff>> /\ pc[t] \in {"found", "refused"}
  BY DEF Die, AssertFails, Abort
<1>2. Kind # "tiff" /\ Kind' = Kind
  BY <1>1 DEF RefInv, LocalInv, Local, PoolPlaces, Pooled, Sql, Kind
<1>3. \A u \in Threads : pc[u] # "tiffclose" /\ pc'[u] # "tiffclose"
  BY <1>1, <1>2 DEF RefInv, StoreInv, Routes, TiffPlaces
<1>4. QED
  BY <1>1, <1>2, <1>3 DEF RefInv, FileInv

-----------------------------------------------------------------------------
(* What the callers of the cache are shown.                                 *)

Shows == Store!Next \/ UNCHANGED Store!storeVars

LEMMA Acts ==
  ASSUME NEW t \in Threads,
         Store!Begin(t) \/ Store!Read(t) \/ Store!Tear(t) \/ Store!Write(t) \/ Store!Postpone(t)
           \/ Store!Ignore(t) \/ Store!Acknowledge(t) \/ Store!Fail(t)
  PROVE  Shows
BY DEF Shows, Store!Next

LEMMA CallNext ==
  ASSUME NEW t \in Threads, RefInv, OnlyMoves(t), op[t] # None, op'[t] = op[t]
  PROVE  /\ CallOf(t)' = [tile |-> IF Reads(t) THEN op[t].tile ELSE None, whole |-> op[t].writes,
                          rest |-> Pending(t)', seen |-> IF Reads(t) THEN Seen(t)' ELSE "ok"]
         /\ Sql' = Sql /\ Careless' = Careless /\ Reads(t)' = Reads(t)
BY DEF CallOf, Reads, OnlyMoves, Sql, Careless, Kind

(* Nothing, or what was found, or what is left to write, has changed.      *)
LEMMA Quiet ==
  ASSUME NEW t \in Threads, RefInv, OnlyMoves(t), op[t] # None, op'[t] = op[t], UNCHANGED <<db, answer>>,
         Late' = Late, Pending(t)' = Pending(t), Reads(t) => Seen(t)' = Seen(t)
  PROVE  Shows
<1>1. CallOf(t)' = CallOf(t)
  BY CallNext, CallRecord DEF RefInv
<1>2. QED
  BY <1>1, Stutters DEF Shows

LEMMA Finds ==
  ASSUME NEW t \in Threads, RefInv, OnlyMoves(t), op[t] # None, op'[t] = op[t], Reads(t),
         UNCHANGED <<db, answer, txn>>, Pending(t)' = Pending(t),
         Seen(t)' = IF Content(db, op[t].tile) = None THEN "miss" ELSE Content(db, op[t].tile)
  PROVE  Shows
<1>1. CallOf(t)' = [CallOf(t) EXCEPT !.seen = IF Content(db, op[t].tile) = None THEN "miss"
                                              ELSE Content(db, op[t].tile)]
  BY CallNext, CallRecord DEF RefInv
<1>2. Store!Read(t)
  BY <1>1, Looks DEF RefInv
<1>3. QED
  BY <1>2, Acts

LEMMA WritesOne ==
  ASSUME NEW t \in Threads, RefInv, OnlyMoves(t), op[t] # None, op'[t] = op[t], ~Reads(t), ~Sql,
         NEW w \in todo[t], Pending(t)' = todo[t] \ {w}, UNCHANGED <<txn, answer>>,
         db' = Change(db, w) \/ (Careless /\ UNCHANGED db)
  PROVE  Shows
<1>1. CallOf(t)' = [CallOf(t) EXCEPT !.rest = todo[t] \ {w}]
  BY CallNext, CallRecord DEF RefInv
<1>2. CASE db' = Change(db, w)
  BY <1>1, <1>2, Writes1, Acts
<1>3. CASE Careless /\ UNCHANGED db
  BY <1>1, <1>3, Ignores, Acts
<1>4. QED
  BY <1>2, <1>3

LEMMA WritesAll ==
  ASSUME NEW t \in Threads, RefInv, OnlyMoves(t), op[t] # None, op'[t] = op[t], ~Reads(t), Sql,
         Pending(t) = op[t].writes, op[t].writes # {}, Pending(t)' = {}, UNCHANGED answer,
         \/ Shown' = Store!After(Store!Base, op[t].writes) /\ Late' = None
         \/ UNCHANGED db /\ Late' = Store!After(Store!Base, op[t].writes)
  PROVE  Shows
<1>1. /\ CallOf(t)' = [CallOf(t) EXCEPT !.rest = {}] /\ Calls[t] = CallOf(t) /\ Calls[t] # None
      /\ Calls[t].rest = op[t].writes /\ Calls[t].whole = op[t].writes
  <2> DEFINE r == Pending(t)'
             s == Pending(t)
             W == op[t].writes
  <2>1. r = {} /\ s = W
    OBVIOUS
  <2> HIDE DEF r, s, W
  <2>2. /\ CallOf(t)' = [tile |-> IF Reads(t) THEN op[t].tile ELSE None, whole |-> W, rest |-> r,
                         seen |-> IF Reads(t) THEN Seen(t)' ELSE "ok"]
        /\ CallOf(t) = [tile |-> IF Reads(t) THEN op[t].tile ELSE None, whole |-> W, rest |-> s,
                        seen |-> IF Reads(t) THEN Seen(t) ELSE "ok"]
        /\ Calls[t] = CallOf(t) /\ Calls[t] # None
    BY CallNext, CallRecord DEF RefInv, r, s, W
  <2>3. /\ CallOf(t)' = [CallOf(t) EXCEPT !.rest = r] /\ Calls[t] = CallOf(t) /\ Calls[t] # None
        /\ Calls[t].rest = s /\ Calls[t].whole = W
    BY <2>2
  <2>4. /\ CallOf(t)' = [CallOf(t) EXCEPT !.rest = {}] /\ Calls[t] = CallOf(t) /\ Calls[t] # None
        /\ Calls[t].rest = W /\ Calls[t].whole = W
    BY <2>1, <2>3, Zenon
  <2>5. QED
    BY <2>4 DEF W
<1>2. Calls' = [Calls EXCEPT ![t].rest = {}]
  BY <1>1, OneCallMoves
<1>3. CASE Shown' = Store!After(Store!Base, op[t].writes) /\ Late' = None
  <2> DEFINE W == op[t].writes
  <2>1. W \in SUBSET Calls[t].rest /\ W # {} /\ W = Calls[t].whole /\ Calls[t].rest \ W = {}
    BY <1>1
  <2>2. Shown' = Store!After(Store!Base, W)
    BY <1>3
  <2> HIDE DEF W
  <2>3. Calls' = [Calls EXCEPT ![t].rest = Calls[t].rest \ W]
    BY <1>2, <2>1
  <2>4. Store!Write(t)
    BY <1>1, <1>3, <2>1, <2>2, <2>3, OneCallMoves DEF Store!Write
  <2>5. QED
    BY <2>4, Acts
<1>4. CASE UNCHANGED db /\ Late' = Store!After(Store!Base, op[t].writes)
  <2>1. Store!Postpone(t)
    BY <1>1, <1>2, <1>4, OneCallMoves, SameShown DEF Store!Postpone
  <2>2. QED
    BY <2>1, Acts
<1>5. QED
  BY <1>3, <1>4

LEMMA LosesLate ==
  ASSUME NEW t \in Threads, RefInv, OnlyMoves(t), op[t] # None, op'[t] = op[t], UNCHANGED <<db, answer>>,
         Late' \in {Late, None}, Pending(t)' = Pending(t), Reads(t) => Seen(t)' = Seen(t)
  PROVE  Shows
<1>1. CallOf(t)' = CallOf(t)
  BY CallNext, CallRecord DEF RefInv
<1>2. Calls' = Calls
  BY <1>1, OneCallMoves DEF Calls
<1>3. Calls' = [c \in Threads |-> IF c \in {} THEN None ELSE Calls[c]]
  <2>1. Calls = [c \in Threads |-> Calls[c]]
    BY DEF Calls
  <2>2. [c \in Threads |-> IF c \in {} THEN None ELSE Calls[c]] = [c \in Threads |-> Calls[c]]
    OBVIOUS
  <2>3. QED
    BY <1>2, <2>1, <2>2
<1>4. Store!Crash({})
  BY <1>3, OneCallMoves, SameShown DEF Store!Crash
<1>5. QED
  BY <1>4 DEF Shows, Store!Next

LEMMA ReturnsShow ==
  ASSUME NEW t \in Threads, RefInv, OnlyMoves(t), op[t] # None, Finish(t), UNCHANGED <<db, got>>,
         err' \in [Threads -> BOOLEAN], Late' \in {Late, None},
         err'[t] /\ Sql => Pending(t) = op[t].writes,
         ~err'[t] => /\ ~err[t] /\ Late' = Late /\ Pending(t) = {}
                     /\ Reads(t) => pc[t] \in {"release", "tcclose", "replied"}
  PROVE  Shows
BY Returns, Acts

-----------------------------------------------------------------------------
(* Every step keeps the invariant and does what the store may do.           *)

Implements == DataInv' /\ WorkInv' /\ FileInv' /\ Shows

LEMMA SqlAside ==
  ASSUME RefInv, NEW t \in Threads,
         SqlOldError(t) \/ SqlHas(t) \/ SqlGet(t) \/ SqlReset(t) \/ MbtilesDelete(t)
  PROVE  /\ OnlyMoves(t) /\ Local(t) /\ Sql /\ op[t] # None /\ op'[t] = op[t] /\ DataInv' /\ WorkInv' /\ FileInv'
         /\ UNCHANGED <<db, txn, answer, todo>> /\ pc[t] \in {"use", "row"} /\ pc'[t] \in {"row", "release"}
         /\ got[t] \in Gots /\ got'[t] \in Gots
<1>1. OnlyMoves(t) /\ StoreInv
  BY SqlLocal DEF RefInv
<1>2. /\ pc[t] \in {"use", "row"} /\ pc'[t] \in {"row", "release"}
      /\ UNCHANGED <<db, txn, op, answer, conn, tiff, todo>>
  BY <1>1, Typed DEF SqlOldError, SqlHas, SqlGet, SqlLook, SqlReset, MbtilesDelete, SqlStep, Goto, callVars, dbVars
<1>3. ~Midway(t)
  BY DEF SqlOldError, SqlHas, SqlGet, SqlLook, SqlReset, MbtilesDelete, Midway, Sets
<1>4. Local(t) /\ op[t] # None
  BY <1>2, InCode
<1>5. Sql /\ Kind # "tiff"
  BY <1>2, <1>4 DEF SqlOldError, SqlHas, SqlGet, SqlLook, SqlReset, MbtilesDelete, SqlStep, Local, Sql
<1>6. got[t] \in Gots /\ got'[t] \in Gots
  <2>1. CallTypes'
    BY <1>1, SqlProceeds DEF Proceeds
  <2>2. QED
    BY <1>1, <2>1, Typed DEF CallTypes
<1>7. DataInv' /\ WorkInv' /\ FileInv'
  BY <1>1, <1>2, <1>3, <1>5, AsideData, AsideWork, FileAside
<1>8. QED
  BY <1>1, <1>2, <1>4, <1>5, <1>6, <1>7

LEMMA SqlShows ==
  ASSUME RefInv, NEW t \in Threads,
         SqlOldError(t) \/ SqlHas(t) \/ SqlGet(t) \/ SqlReset(t) \/ SqlWrite(t) \/
         SqlFails(t) \/ SqlCommit(t) \/ SqlDelete(t) \/ MbtilesDelete(t)
  PROVE  Implements
<1>1. StoreInv /\ OnlyMoves(t)
  BY SqlLocal DEF RefInv
<1>2. CASE SqlOldError(t)
  <2>1. /\ pc[t] = "use" /\ pc'[t] = "release" /\ err[t] /\ err'[t] /\ UNCHANGED got
    BY <1>1, <1>2, Typed DEF SqlOldError, SqlStep, Goto
  <2>2. got[t] = None /\ Sql' /\ Sql /\ op'[t] = op[t] /\ ~Careless' /\ None # "lost"
    BY <1>1, <1>2, <2>1, SqlAside, OpsAssumption DEF Local, Asking, OnlyMoves, Sql, Kind, Careless
  <2>3. Pending(t)' = Pending(t) /\ Seen(t)' = Seen(t)
    BY <2>1, <2>2 DEF Pending, Seen
  <2>4. QED
    BY <1>1, <1>2, <2>3, SqlAside, SameLate, Quiet DEF Implements
<1>3. CASE SqlHas(t) \/ SqlGet(t)
  <2>1. /\ pc[t] = "use" /\ pc'[t] = "row" /\ ~err[t] /\ ~err'[t] /\ Reads(t)
        /\ got'[t] = Content(db, op[t].tile)
    BY <1>1, <1>3, Typed DEF SqlHas, SqlGet, SqlLook, SqlStep, Goto, Reads
  <2>2. /\ Sql' /\ Sql /\ op'[t] = op[t] /\ ~Careless' /\ "lost" \notin Images /\ None # "lost"
        /\ Content(db, op[t].tile) \in Images \union {None}
    BY <1>1, <1>3, <2>1, SqlAside, InCode DEF OnlyMoves, Sql, Kind, Careless
  <2>3. /\ Pending(t)' = Pending(t)
        /\ Seen(t)' = IF Content(db, op[t].tile) = None THEN "miss" ELSE Content(db, op[t].tile)
    BY <2>1, <2>2 DEF Pending, Seen
  <2>4. QED
    BY <1>1, <1>3, <2>1, <2>3, SqlAside, Finds DEF Implements
<1>4. CASE SqlReset(t)
  <2>1. /\ pc[t] = "row" /\ pc'[t] = "release" /\ UNCHANGED <<err, got, op>>
    BY <1>1, <1>4, Typed DEF SqlReset, Goto, callVars
  <2>2. ~err[t] /\ Reads(t) /\ op[t].writes = {}
    BY <1>1, <1>4, <2>1, SqlAside, InCode DEF Local
  <2>3. Sql' = Sql /\ Careless' = Careless /\ Sql
    BY <1>1, <1>4, SqlAside DEF OnlyMoves, Sql, Kind, Careless
  <2>4. Pending(t)' = Pending(t) /\ Seen(t)' = Seen(t)
    BY <2>1, <2>2, <2>3 DEF Pending, Seen
  <2>5. QED
    BY <1>1, <1>4, <2>4, SqlAside, SameLate, Quiet DEF Implements
<1>5. CASE MbtilesDelete(t)
  <2>1. /\ pc[t] = "use" /\ pc'[t] = "release" /\ err'[t] /\ ~Reads(t)
    BY <1>1, <1>5, Typed DEF MbtilesDelete, SqlStep, Goto, Raise, Reads
  <2>2. Sql' /\ Sql /\ op'[t] = op[t]
    BY <1>1, <1>5, SqlAside DEF OnlyMoves, Sql, Kind
  <2>3. Pending(t)' = Pending(t)
    BY <2>1, <2>2 DEF Pending
  <2>4. QED
    BY <1>1, <1>5, <2>1, <2>3, SqlAside, SameLate, Quiet DEF Implements
<1>6. ASSUME SqlWrite(t) \/ SqlFails(t) \/ SqlCommit(t) \/ SqlDelete(t)
      PROVE  /\ pc[t] = "use" /\ Sql /\ Sql' /\ ~err[t] /\ op[t] # None /\ op'[t] = op[t]
             /\ UNCHANGED answer /\ FileInv'
  <2>1. /\ pc[t] = "use" /\ Sql /\ ~err[t] /\ UNCHANGED <<op, answer, tiff>> /\ pc'[t] \in {"use", "release"}
    BY <1>1, <1>6, Typed DEF SqlWrite, SqlFails, SqlCommit, SqlDelete, SqlStep, Goto
  <2>2. op[t] # None /\ Sql' /\ Kind # "tiff"
    BY <1>1, <2>1, InCode DEF OnlyMoves, Sql, Kind
  <2>3. FileInv'
    BY <1>1, <2>1, <2>2, FileAside
  <2>4. QED
    BY <2>1, <2>2, <2>3
<1>7. CASE SqlWrite(t)
  <2>1. ~Reads(t) /\ UNCHANGED <<db, pc, err>>
    BY <1>7 DEF SqlWrite, Sets, Reads
  <2>2. Pending(t)' = Pending(t)
    BY <1>6, <1>7, <2>1 DEF Pending
  <2>3. QED
    BY <1>1, <1>6, <1>7, <2>1, <2>2, WriteData, Quiet DEF Implements
<1>8. CASE SqlFails(t)
  <2>1. pc'[t] = "release" /\ err'[t] /\ UNCHANGED <<db, got>> /\ got[t] = None
    BY <1>1, <1>6, <1>8, Typed, InCode DEF SqlFails, Raise, Goto, Local, Asking
  <2>2. Pending(t)' = Pending(t) /\ Seen(t)' = Seen(t)
    BY <1>6, <1>8, <2>1, OpsAssumption DEF Pending, Seen
  <2>3. QED
    BY <1>1, <1>6, <1>8, <2>1, <2>2, FailData, LosesLate DEF Implements
<1>9. CASE SqlCommit(t)
  <2>1. /\ ~Reads(t) /\ pc'[t] = "release" /\ ~err'[t]
        /\ \/ db' = txn.work /\ txn' = NoTxn
           \/ txn' = [txn EXCEPT !.kept = txn.work] /\ UNCHANGED db
    BY <1>1, <1>9, Typed DEF SqlCommit, Sets, Reads, Goto
  <2>2. Pending(t)' = {}
    BY <1>6, <1>9, <2>1 DEF Pending
  <2>3. CASE db' = txn.work /\ txn' = NoTxn
    <3>1. Shown' = [x \in Tiles |-> Content(txn.work, x)] /\ Late' = None
      BY <2>3 DEF Shown, Late, NoTxn, Content
    <3>2. Shown' = Store!After(Store!Base, op[t].writes)
      BY <1>9, <3>1, CommitFacts
    <3>3. QED
      BY <1>1, <1>6, <1>9, <2>1, <2>2, <3>1, <3>2, CommitFacts, CommitData, WritesAll DEF Implements
  <2>4. CASE txn' = [txn EXCEPT !.kept = txn.work] /\ UNCHANGED db
    <3>1. txn'.kept = txn.work /\ txn.work # None
      BY <1>1, <1>9, <2>4, CommitFacts, TxnShape, NoneIsNothing
    <3>2. Late' = [x \in Tiles |-> Content(txn.work, x)]
      BY <3>1 DEF Late, Content
    <3>3. Late' = Store!After(Store!Base, op[t].writes)
      BY <1>9, <3>2, CommitFacts
    <3>4. QED
      BY <1>1, <1>6, <1>9, <2>1, <2>2, <2>4, <3>3, CommitFacts, CommitData, WritesAll DEF Implements
  <2>5. QED
    BY <2>1, <2>3, <2>4
<1>10. CASE SqlDelete(t)
  <2>1. ~Reads(t) /\ pc'[t] = "release"
    BY <1>1, <1>10, Typed DEF SqlDelete, Reads, Goto
  <2>2. CASE err'[t] /\ UNCHANGED <<db, txn>>
    <3>1. Pending(t)' = Pending(t)
      BY <1>6, <1>10, <2>1, <2>2 DEF Pending
    <3>2. QED
      BY <1>1, <1>6, <1>10, <2>1, <2>2, <3>1, SameLate, DeleteData, Quiet DEF Implements
  <2>3. CASE ~err'[t]
    <3>1. Pending(t)' = {}
      BY <1>6, <1>10, <2>1, <2>3 DEF Pending
    <3>2. QED
      BY <1>1, <1>6, <1>10, <2>1, <2>3, <3>1, DeleteData, WritesAll DEF Implements
  <2>4. QED
    BY <1>10, <2>2, <2>3, DeleteData
<1>11. QED
  BY <1>2, <1>3, <1>4, <1>5, <1>7, <1>8, <1>9, <1>10

LEMMA PlainAside ==
  ASSUME RefInv, NEW t \in Threads, OnlyMoves(t), ~Sql, UNCHANGED txn,
         db' = db \/ (\E w \in AnyWrite : db' = Change(db, w)),
         pc[t] # "tiffclose", pc'[t] # "tiffclose", tiff'.work = tiff.work, tiff'.file = tiff.file,
         Kind = "tiff" => UNCHANGED db
  PROVE  DataInv' /\ WorkInv' /\ FileInv'
BY PlainData, FileAside DEF OnlyMoves

(* Berkeley DB.                                                            *)
LEMMA BdbShows ==
  ASSUME RefInv, NEW t \in Threads,
         BdbLeaks(t) \/ BdbHas(t) \/ BdbGet(t) \/ BdbWrite(t) \/ BdbFails(t) \/ BdbSync(t)
  PROVE  Implements
<1>1. /\ StoreInv /\ OnlyMoves(t) /\ Kind = "bdb" /\ pc[t] = "use" /\ op[t] # None
      /\ ~Sql /\ ~Careless /\ ~Sql' /\ ~Careless' /\ got[t] = None
      /\ Reads(t) => todo[t] = {} /\ Content(db, op[t].tile) \in Images \union {None}
      /\ todo[t] \subseteq AnyWrite /\ None # "lost" /\ "lost" \notin Images
  <2>1. Kind = "bdb" /\ pc[t] = "use" /\ OnlyMoves(t)
    BY BdbLocal DEF BdbLeaks, BdbHas, BdbGet, BdbLook, BdbWrite, BdbFails, BdbSync, BdbStep
  <2>2. Local(t) /\ op[t] # None /\ (Reads(t) => todo[t] = {} /\ Content(db, op[t].tile) \in Images \union {None})
        /\ None # "lost" /\ "lost" \notin Images
    BY <2>1, InCode
  <2>3. ~Sql /\ ~Careless /\ ~Sql' /\ ~Careless' /\ got[t] = None
    BY <2>1, <2>2 DEF OnlyMoves, Sql, Careless, Kind, Local, Asking
  <2>4. StoreInv /\ todo[t] \subseteq AnyWrite
    BY Typed DEF RefInv
  <2>5. QED
    BY <2>1, <2>2, <2>3, <2>4
<1>2. DataInv' /\ WorkInv' /\ FileInv'
  <2>1. UNCHANGED <<txn, tiff>>
    BY DEF BdbLeaks, BdbHas, BdbGet, BdbLook, BdbWrite, BdbFails, BdbSync, dbVars
  <2>2. pc'[t] \in {"idle", "use", "release"}
    BY <1>1, Typed DEF BdbLeaks, BdbHas, BdbGet, BdbLook, BdbWrite, BdbFails, BdbSync, Finish, Goto
  <2>3. db' = db \/ (\E w \in AnyWrite : db' = Change(db, w))
    BY <1>1 DEF BdbLeaks, BdbHas, BdbGet, BdbLook, BdbWrite, BdbFails, BdbSync, dbVars
  <2>4. QED
    BY <1>1, <2>1, <2>2, <2>3, PlainAside
<1>3. CASE BdbLeaks(t)
  <2>1. /\ Finish(t) /\ UNCHANGED <<db, got, txn>> /\ err' \in [Threads -> BOOLEAN] /\ err'[t]
    BY <1>1, <1>3, Typed DEF BdbLeaks, Raise, dbVars
  <2>2. QED
    BY <1>1, <1>2, <2>1, SameLate, ReturnsShow DEF Implements
<1>4. CASE BdbHas(t) \/ BdbGet(t)
  <2>1. /\ pc'[t] = "release" /\ ~err[t] /\ ~err'[t] /\ Reads(t) /\ UNCHANGED <<op, todo, db, txn, answer>>
        /\ got'[t] = Content(db, op[t].tile)
    BY <1>1, <1>4, Typed DEF BdbHas, BdbGet, BdbLook, Goto, Reads, dbVars
  <2>2. /\ Pending(t)' = Pending(t)
        /\ Seen(t)' = IF Content(db, op[t].tile) = None THEN "miss" ELSE Content(db, op[t].tile)
    BY <1>1, <2>1 DEF Pending, Seen
  <2>3. QED
    BY <1>1, <1>2, <2>1, <2>2, Finds DEF Implements
<1>5. CASE BdbWrite(t)
  <2>1. PICK w \in todo[t] : db' = Change(db, w) /\ todo' = [todo EXCEPT ![t] = @ \ {w}]
    BY <1>5 DEF BdbWrite
  <2>2. UNCHANGED <<txn, answer, op>> /\ ~Reads(t)
    BY <1>1, <1>5, <2>1 DEF BdbWrite
  <2>3. Pending(t)' = todo[t] \ {w}
    BY <1>1, <2>1, Typed DEF Pending
  <2>4. QED
    BY <1>1, <1>2, <2>1, <2>2, <2>3, WritesOne DEF Implements
<1>6. CASE BdbFails(t) \/ BdbSync(t)
  <2>1. /\ pc'[t] = "release" /\ UNCHANGED <<op, todo, got, db, txn, answer>> /\ (err'[t] \/ ~Reads(t))
    BY <1>1, <1>6, Typed DEF BdbFails, BdbSync, Goto, Raise, callVars, dbVars
  <2>2. Pending(t)' = Pending(t) /\ (Reads(t) => Seen(t)' = Seen(t))
    BY <1>1, <2>1 DEF Pending, Seen
  <2>3. QED
    BY <1>1, <1>2, <2>1, <2>2, SameLate, Quiet DEF Implements
<1>7. QED
  BY <1>3, <1>4, <1>5, <1>6

(* Tokyo Cabinet.                                                          *)
LEMMA TcShows ==
  ASSUME RefInv, NEW t \in Threads,
         TcOpen(t) \/ TcHas(t) \/ TcGet(t) \/ TcSet(t) \/ TcDelete(t) \/ TcLeaks(t) \/ TcClose(t)
  PROVE  Implements
<1>1. /\ StoreInv /\ OnlyMoves(t) /\ Kind = "tc" /\ pc[t] \in TcPlaces /\ op[t] # None
      /\ ~Sql /\ ~Careless /\ ~Sql' /\ ~Careless' /\ (pc[t] = "tc" => ~err[t])
      /\ Reads(t) => todo[t] = {} /\ Content(db, op[t].tile) \in Images \union {None}
      /\ todo[t] \subseteq AnyWrite /\ None # "lost" /\ "lost" \notin Images
  <2>1. pc[t] \in TcPlaces /\ OnlyMoves(t)
    BY TcLocal DEF TcOpen, TcHas, TcGet, TcLook, TcSet, TcDelete, TcStep, TcLeaks, TcClose, TcPlaces
  <2>2. /\ Local(t) /\ op[t] # None /\ (Reads(t) => todo[t] = {} /\ Content(db, op[t].tile) \in Images \union {None})
        /\ None # "lost" /\ "lost" \notin Images /\ Kind = "tc"
    BY <2>1, InCode DEF TcPlaces
  <2>3. ~Sql /\ ~Careless /\ ~Sql' /\ ~Careless' /\ (pc[t] = "tc" => ~err[t])
    BY <2>1, <2>2 DEF OnlyMoves, Sql, Careless, Kind, Local
  <2>4. StoreInv /\ todo[t] \subseteq AnyWrite
    BY Typed DEF RefInv
  <2>5. QED
    BY <2>1, <2>2, <2>3, <2>4
<1>2. DataInv' /\ WorkInv' /\ FileInv'
  <2>1. UNCHANGED <<txn, tiff>>
    BY DEF TcOpen, TcHas, TcGet, TcLook, TcSet, TcDelete, TcStep, TcLeaks, TcClose, dbVars
  <2>2. pc'[t] \in {"idle", "tcopen", "tc", "tcclose"} /\ pc[t] # "tiffclose"
    BY <1>1, Typed DEF TcOpen, TcHas, TcGet, TcLook, TcSet, TcDelete, TcStep, TcLeaks, TcClose, Finish, Goto, TcPlaces
  <2>3. db' = db \/ (\E w \in AnyWrite : db' = Change(db, w))
    BY <1>1 DEF TcOpen, TcHas, TcGet, TcLook, TcSet, TcDelete, TcStep, TcLeaks, TcClose, dbVars
  <2>4. QED
    BY <1>1, <2>1, <2>2, <2>3, PlainAside
<1>3. CASE (TcOpen(t) \/ TcLeaks(t) \/ TcClose(t)) /\ pc'[t] = "idle"
  <2>1. /\ Finish(t) /\ UNCHANGED <<db, got, txn>> /\ err' \in [Threads -> BOOLEAN]
        /\ ~err'[t] => ~err[t] /\ todo[t] = {} /\ pc[t] = "tcclose"
    <3>1. CASE TcOpen(t)
      BY <1>1, <1>3, <3>1, Typed DEF TcOpen, Raise, Goto
    <3>2. CASE TcLeaks(t)
      BY <1>1, <3>2, Typed DEF TcLeaks, Raise, dbVars
    <3>3. CASE TcClose(t)
      BY <1>1, <1>3, <3>3, Typed DEF TcClose, Goto
    <3>4. QED
      BY <1>3, <3>1, <3>2, <3>3
  <2>2. ~err'[t] => Pending(t) = {}
    BY <1>1, <2>1 DEF Pending
  <2>3. QED
    BY <1>1, <1>2, <2>1, <2>2, SameLate, ReturnsShow DEF Implements
<1>4. CASE (TcOpen(t) \/ TcLeaks(t) \/ TcClose(t)) /\ pc'[t] # "idle"
  <2>1. /\ UNCHANGED <<op, todo, got, db, txn, answer>>
        /\ (pc[t] = "tcopen" /\ pc'[t] = "tc") \/ ~Reads(t)
    BY <1>1, <1>4, Typed DEF TcOpen, TcLeaks, TcClose, Finish, Goto
  <2>2. Pending(t)' = Pending(t) /\ (Reads(t) => Seen(t)' = Seen(t))
    BY <1>1, <2>1 DEF Pending, Seen
  <2>3. QED
    BY <1>1, <1>2, <2>1, <2>2, SameLate, Quiet DEF Implements
<1>5. CASE TcHas(t) \/ TcGet(t)
  <2>1. /\ pc[t] = "tc" /\ pc'[t] = "tcclose" /\ ~err[t] /\ ~err'[t] /\ Reads(t)
        /\ UNCHANGED <<op, todo, db, txn, answer>> /\ got'[t] = Content(db, op[t].tile)
    BY <1>1, <1>5, Typed DEF TcHas, TcGet, TcLook, TcStep, Goto, Reads, dbVars
  <2>2. /\ Pending(t)' = Pending(t)
        /\ Seen(t)' = IF Content(db, op[t].tile) = None THEN "miss" ELSE Content(db, op[t].tile)
    BY <1>1, <2>1 DEF Pending, Seen
  <2>3. QED
    BY <1>1, <1>2, <2>1, <2>2, Finds DEF Implements
<1>6. CASE TcSet(t) \/ TcDelete(t)
  <2>1. ~Reads(t) /\ UNCHANGED <<op, txn, answer>>
    BY <1>6 DEF TcSet, TcDelete, TcStep, Reads
  <2>2. CASE \E w \in todo[t] : db' = Change(db, w) /\ todo' = [todo EXCEPT ![t] = @ \ {w}]
    <3>1. PICK w \in todo[t] : db' = Change(db, w) /\ todo' = [todo EXCEPT ![t] = @ \ {w}]
      BY <2>2
    <3>2. Pending(t)' = todo[t] \ {w}
      BY <1>1, <3>1, Typed DEF Pending
    <3>3. QED
      BY <1>1, <1>2, <2>1, <3>1, <3>2, WritesOne DEF Implements
  <2>3. CASE UNCHANGED <<todo, db>>
    <3>1. Pending(t)' = Pending(t)
      BY <1>1, <2>1, <2>3 DEF Pending
    <3>2. QED
      BY <1>1, <1>2, <2>1, <2>3, <3>1, SameLate, Quiet DEF Implements
  <2>4. QED
    BY <1>6, <2>2, <2>3 DEF TcSet, TcDelete
<1>7. QED
  BY <1>3, <1>4, <1>5, <1>6

(* memcached and S3.                                                       *)
LEMMA RemoteShows ==
  ASSUME RefInv, NEW t \in Threads,
         RemoteOldError(t) \/ McHas(t) \/ McGet(t) \/ McSet(t) \/ McDelete(t) \/ S3Has(t)
         \/ S3Get(t) \/ S3Set(t) \/ S3Delete(t) \/ RemoteDone(t)
  PROVE  Implements
<1> USE DEF Remote
<1>1. pc[t] \in {"remote", "replied"} /\ OnlyMoves(t)
  BY RemoteLocal DEF RemoteOldError, McHas, McGet, McSet, McDelete, S3Has, S3Get, S3Set, S3Delete, RemoteDone
<1>2. /\ StoreInv /\ op[t] # None /\ ~Sql /\ ~Sql' /\ Careless' = Careless /\ (pc[t] = "remote" => Careless)
      /\ Reads(t) => todo[t] = {} /\ Content(db, op[t].tile) \in Images \union {None}
      /\ pc[t] = "remote" => got[t] = None
      /\ pc[t] = "replied" => err[t] \/ todo[t] = {}
      /\ todo[t] \subseteq AnyWrite /\ None # "lost" /\ "lost" \notin Images
  <2>1. /\ Local(t) /\ op[t] # None /\ (Reads(t) => todo[t] = {} /\ Content(db, op[t].tile) \in Images \union {None})
        /\ None # "lost" /\ "lost" \notin Images
    BY <1>1, InCode
  <2>2. ~Sql /\ ~Sql' /\ Careless' = Careless /\ (pc[t] = "remote" => Careless)
    BY <1>1, <2>1 DEF OnlyMoves, Sql, Careless, Kind, Local
  <2>3. StoreInv /\ todo[t] \subseteq AnyWrite
    BY Typed DEF RefInv
  <2>4. QED
    BY <2>1, <2>2, <2>3 DEF Local, Asking
<1>3. DataInv' /\ WorkInv' /\ FileInv'
  <2>1. UNCHANGED <<txn, tiff>>
    BY DEF RemoteOldError, McHas, McGet, McSet, McDelete, S3Has, S3Get, S3Set, S3Delete, RemoteDone, dbVars
  <2>2. pc'[t] \in {"idle", "remote", "replied"}
    BY <1>1, <1>2, Typed DEF RemoteOldError, McHas, McGet, McSet, McDelete, S3Has, S3Get, S3Set, S3Delete, RemoteDone,
       Finish, Goto, Replies, Stored, NotStored, RequestFails
  <2>3. db' = db \/ (\E w \in AnyWrite : db' = Change(db, w))
    BY <1>2 DEF RemoteOldError, McHas, McGet, McSet, McDelete, S3Has, S3Get, S3Set, S3Delete, RemoteDone, dbVars,
       Replies, Stored, NotStored, RequestFails
  <2>4. Kind = "tiff" => UNCHANGED db
    BY DEF RemoteOldError, McHas, McGet, McSet, McDelete, S3Has, S3Get, S3Set, S3Delete, RemoteDone, dbVars
  <2>5. QED
    BY <1>1, <1>2, <2>1, <2>2, <2>3, <2>4, PlainAside
<1>4. CASE RemoteOldError(t) \/ RemoteDone(t)
  <2>1. /\ Finish(t) /\ UNCHANGED <<db, got, txn, err>> /\ err' \in [Threads -> BOOLEAN]
        /\ ~err[t] => todo[t] = {} /\ (Reads(t) => pc[t] = "replied")
    BY <1>2, <1>4, Typed DEF RemoteOldError, RemoteDone, dbVars
  <2>2. ~err'[t] => ~err[t] /\ Pending(t) = {}
    BY <1>2, <2>1 DEF Pending
  <2>3. QED
    BY <1>1, <1>2, <1>3, <2>1, <2>2, SameLate, ReturnsShow DEF Implements
<1>5. ASSUME NEW i \in {Content(db, op[t].tile), None, "lost"}, Replies(t, i), pc[t] = "remote", ~err[t], Reads(t),
             UNCHANGED <<op, answer, txn>>
      PROVE  Implements
  <2>1. pc'[t] = "replied" /\ got'[t] = i /\ UNCHANGED <<err, todo, db>>
    BY <1>2, <1>5, Typed DEF Replies, Goto
  <2>2. Pending(t)' = Pending(t)
    BY <1>2, <1>5, <2>1 DEF Pending
  <2>3. CASE i \in {None, "lost"}
    <3>1. Seen(t)' = Seen(t)
      BY <1>2, <1>5, <2>1, <2>3 DEF Seen
    <3>2. QED
      BY <1>1, <1>2, <1>3, <1>5, <2>1, <2>2, <3>1, SameLate, Quiet DEF Implements
  <2>4. CASE i \notin {None, "lost"}
    <3>1. Seen(t)' = Content(db, op[t].tile) /\ Content(db, op[t].tile) # None
      BY <1>2, <1>5, <2>1, <2>4 DEF Seen
    <3>2. QED
      BY <1>1, <1>2, <1>3, <1>5, <2>1, <2>2, <3>1, Finds DEF Implements
  <2>5. QED
    BY <2>3, <2>4
<1>6. ASSUME Stored(t) \/ NotStored(t, AnyWrite), Careless, UNCHANGED <<op, answer, txn>>
      PROVE  Implements
  <2>1. PICK w \in todo[t] : /\ db' = Change(db, w) \/ UNCHANGED db
                             /\ todo' = [todo EXCEPT ![t] = @ \ {w}]
    BY <1>6 DEF Stored, NotStored
  <2>2. ~Reads(t) /\ Pending(t)' = todo[t] \ {w}
    BY <1>2, <2>1, Typed DEF Pending
  <2>3. QED
    BY <1>1, <1>2, <1>3, <1>6, <2>1, <2>2, WritesOne DEF Implements
<1>7. ASSUME RequestFails(t), Reads(t) \/ todo[t] # {}, pc[t] = "remote", Careless, UNCHANGED <<op, answer, txn>>
      PROVE  Implements
  <2>1. err'[t] /\ pc'[t] = "replied" /\ UNCHANGED <<db, todo, got>>
    BY <1>2, <1>7, Typed DEF RequestFails, Raise, Goto
  <2>2. CASE Reads(t)
    <3>1. Pending(t)' = Pending(t)
      BY <1>2, <1>7, <2>1, <2>2 DEF Pending
    <3>2. Seen(t)' = Seen(t)
      BY <1>2, <1>7, <2>1, <2>2 DEF Seen
    <3>3. QED
      BY <1>1, <1>2, <1>3, <1>7, <2>1, <2>2, <3>1, <3>2, SameLate, Quiet DEF Implements
  <2>3. CASE ~Reads(t)
    <3>1. Pending(t)' = Pending(t)
      BY <1>2, <2>1, <2>3 DEF Pending
    <3>2. QED
      BY <1>1, <1>2, <1>3, <1>7, <2>1, <2>3, <3>1, SameLate, Quiet DEF Implements
  <2>4. QED
    BY <2>2, <2>3
<1>8. CASE McHas(t) \/ McGet(t) \/ S3Has(t) \/ S3Get(t)
  <2>1. /\ pc[t] = "remote" /\ ~err[t] /\ Reads(t) /\ UNCHANGED <<op, answer, txn>>
        /\ \/ Replies(t, Content(db, op[t].tile)) \/ Replies(t, None) \/ Replies(t, "lost")
           \/ RequestFails(t)
    BY <1>8 DEF McHas, McGet, S3Has, S3Get, Reads
  <2>2. Careless
    BY <1>2, <2>1
  <2>3. QED
    BY <1>5, <1>7, <2>1, <2>2
<1>9. CASE McSet(t) \/ McDelete(t) \/ S3Set(t) \/ S3Delete(t)
  <2>1. pc[t] = "remote" /\ Careless /\ UNCHANGED <<op, answer, txn>>
    BY <1>2, <1>9 DEF McSet, McDelete, S3Set, S3Delete
  <2>2. Stored(t) \/ NotStored(t, AnyWrite) \/ (RequestFails(t) /\ todo[t] # {})
    BY <1>2, <1>9 DEF McSet, McDelete, S3Set, S3Delete, NotStored
  <2>3. QED
    BY <1>6, <1>7, <2>1, <2>2
<1>10. QED
  BY <1>4, <1>8, <1>9

(* TIFF.                                                                   *)
LEMMA TiffShows ==
  ASSUME RefInv, NEW t \in Threads,
         TiffHas(t) \/ TiffGet(t) \/ TiffRead(t) \/ TiffRefuse(t) \/ TiffPrepare(t) \/
         TiffLock(t) \/ TiffOpen(t) \/ TiffClose(t)
  PROVE  Implements
<1> USE DEF TiffStep
<1>1. pc[t] \in TiffPlaces /\ OnlyMoves(t)
  BY TiffLocal DEF TiffHas, TiffGet, TiffLook, TiffRead, TiffRefuse, TiffPrepare, TiffLock, TiffOpen, TiffClose, TiffPlaces
<1>2. /\ StoreInv /\ op[t] # None /\ Kind = "tiff" /\ ~Sql /\ ~Sql' /\ ~Careless /\ ~Careless' /\ Local(t)
      /\ Reads(t) => todo[t] = {} /\ op[t].tile \in Tiles /\ Content(db, op[t].tile) \in Images \union {None}
      /\ todo[t] \subseteq AnyWrite /\ None # "lost" /\ "lost" \notin Images /\ "torn" # None /\ "torn" # "lost"
  <2>1. /\ Local(t) /\ op[t] # None /\ Kind = "tiff"
        /\ (Reads(t) => todo[t] = {} /\ op[t].tile \in Tiles /\ Content(db, op[t].tile) \in Images \union {None})
        /\ None # "lost" /\ "lost" \notin Images /\ None # "torn"
    BY <1>1, InCode DEF TiffPlaces
  <2>2. ~Sql /\ ~Sql' /\ ~Careless /\ ~Careless'
    BY <1>1, <2>1 DEF OnlyMoves, Sql, Careless, Kind
  <2>3. StoreInv /\ todo[t] \subseteq AnyWrite
    BY Typed DEF RefInv
  <2>4. QED
    BY <2>1, <2>2, <2>3
<1>3. UNCHANGED txn
  BY DEF TiffHas, TiffGet, TiffLook, TiffRead, TiffRefuse, TiffPrepare, TiffLock, TiffOpen, TiffClose, dbVars
<1>4. CASE TiffHas(t) \/ TiffGet(t)
  <2>1. /\ pc[t] = "tiff" /\ pc'[t] = "tiffread" /\ ~err[t] /\ ~err'[t] /\ Reads(t)
        /\ UNCHANGED <<op, todo, db, answer, tiff>>
        /\ got'[t] = IF tiff.file = "whole" THEN Content(db, op[t].tile) ELSE None
    BY <1>2, <1>4, Typed DEF TiffHas, TiffGet, TiffLook, Goto, Reads
  <2>2. got'[t] = Content(db, op[t].tile)
    BY <1>2, <2>1 DEF RefInv, FileInv
  <2>3. /\ Pending(t)' = Pending(t)
        /\ Seen(t)' = IF Content(db, op[t].tile) = None THEN "miss" ELSE Content(db, op[t].tile)
    BY <1>2, <2>1, <2>2 DEF Pending, Seen
  <2>4. DataInv' /\ WorkInv' /\ FileInv'
    BY <1>1, <1>2, <1>3, <2>1, PlainAside
  <2>5. QED
    BY <1>1, <1>2, <1>3, <2>1, <2>3, <2>4, Finds DEF Implements
<1>5. CASE TiffRead(t)
  <2>1. /\ pc[t] = "tiffread" /\ pc'[t] = "replied" /\ ~err[t] /\ Reads(t)
        /\ UNCHANGED <<op, todo, db, answer, tiff>> /\ got[t] \in Images \union {None}
    BY <1>1, <1>2, <1>5, Typed DEF TiffRead, Goto, Local
  <2>2. DataInv' /\ WorkInv' /\ FileInv'
    BY <1>1, <1>2, <1>3, <2>1, PlainAside
  <2>3. Pending(t)' = Pending(t)
    BY <1>2, <2>1 DEF Pending
  <2>4. CASE UNCHANGED got /\ (UNCHANGED err \/ got[t] # None)
    <3>1. Seen(t)' = Seen(t)
      BY <1>2, <2>1, <2>4 DEF Seen
    <3>2. QED
      BY <1>1, <1>2, <1>3, <2>1, <2>2, <2>3, <3>1, SameLate, Quiet DEF Implements
  <2>5. CASE got' = [got EXCEPT ![t] = "torn"] /\ UNCHANGED err /\ got[t] # None /\ Rewritten(t)
    <3>1. /\ Seen(t) = got[t] /\ got[t] \in Images /\ Seen(t)' = "torn"
      BY <1>2, <2>1, <2>5, Typed DEF Seen
    <3>2. CallOf(t)' = [CallOf(t) EXCEPT !.seen = "torn"]
      BY <1>1, <1>2, <2>1, <2>3, <3>1, CallNext, CallRecord
    <3>3. /\ Calls[t] = CallOf(t) /\ Calls[t] # None /\ Calls[t].seen = got[t] /\ Calls[t].tile = op[t].tile
      BY <1>2, <2>1, <3>1, CallRecord
    <3>4. \/ Shown[op[t].tile] # got[t]
          \/ \E d \in Threads : Calls[d] # None /\ \E w \in Calls[d].rest : w[1] = op[t].tile
      <4>1. CASE Content(db, op[t].tile) # got[t]
        BY <4>1, <1>2, <2>1 DEF Shown
      <4>2. CASE tiff.work # None /\ tiff.work[1] = op[t].tile
        <5>1. PICK d \in Threads : pc[d] = "tiffclose" /\ tiff.work \in todo[d]
          BY <4>2 DEF RefInv, FileInv
        <5>2. op[d] # None
          BY <5>1, InCode
        <5>3. Calls[d] # None /\ Calls[d].rest = Pending(d)
          BY <1>2, <5>2, CallRecord
        <5>4. Pending(d) = todo[d]
          BY <1>2 DEF Pending
        <5>5. QED
          BY <4>2, <5>1, <5>3, <5>4
      <4>3. QED
        BY <4>1, <4>2, <2>5 DEF Rewritten
    <3>5. Calls' = [Calls EXCEPT ![t].seen = "torn"]
      BY <1>1, <3>2, <3>3, OneCallMoves
    <3>6. Store!Tear(t)
      BY <1>1, <1>2, <1>3, <2>1, <3>1, <3>3, <3>4, <3>5, OneCallMoves, SameShown, SameLate DEF Store!Tear
    <3>7. QED
      BY <2>2, <3>6, Acts DEF Implements
  <2>6. QED
    BY <1>5, <2>4, <2>5 DEF TiffRead
<1>6. CASE TiffRefuse(t)
  <2>1. /\ pc[t] = "tiff" /\ pc'[t] = "idle" /\ Finish(t) /\ UNCHANGED <<db, got, tiff>>
        /\ err' \in [Threads -> BOOLEAN] /\ err'[t]
    BY <1>2, <1>6, Typed DEF TiffRefuse, Raise, Finish, Goto, dbVars
  <2>2. DataInv' /\ WorkInv' /\ FileInv'
    BY <1>1, <1>2, <1>3, <2>1, PlainAside
  <2>3. QED
    BY <1>1, <1>2, <1>3, <2>1, <2>2, SameLate, ReturnsShow DEF Implements
<1>7. CASE TiffPrepare(t) \/ TiffLock(t)
  <2>1. /\ pc[t] \in {"tiff", "tifflock"} /\ pc'[t] \in {"tifflock", "tiffopen", "replied"} /\ ~Reads(t)
        /\ UNCHANGED <<op, todo, db, answer, got>> /\ tiff'.work = tiff.work /\ tiff'.file = tiff.file
    BY <1>2, <1>7, Typed DEF TiffPrepare, TiffLock, Goto, Sets, Reads, Local, StoreInv, TiffSound
  <2>2. DataInv' /\ WorkInv' /\ FileInv'
    BY <1>1, <1>2, <1>3, <2>1, PlainAside
  <2>3. Pending(t)' = Pending(t)
    BY <1>2, <2>1 DEF Pending
  <2>4. QED
    BY <1>1, <1>2, <1>3, <2>1, <2>2, <2>3, SameLate, Quiet DEF Implements
<1>8. CASE TiffOpen(t)
  <2>1. ~Reads(t) /\ UNCHANGED <<program, op, todo, db, answer>>
    BY <1>2, <1>8 DEF TiffOpen, Local, Sets, Reads
  <2>2. DataInv' /\ WorkInv' /\ FileInv'
    BY <1>1, <1>2, <1>3, <1>8, <2>1, PlainData, OpenFile
  <2>3. Pending(t)' = Pending(t)
    BY <1>2, <2>1 DEF Pending
  <2>4. QED
    BY <1>1, <1>2, <1>3, <2>1, <2>2, <2>3, SameLate, Quiet DEF Implements
<1>9. CASE TiffClose(t)
  <2>1. ~Reads(t) /\ UNCHANGED <<program, op, answer>> /\ pc[t] = "tiffclose"
    BY <1>2, <1>9 DEF TiffClose, Local, Sets, Reads
  <2>2. FileInv'
    BY <1>1, <1>9, CloseFile
  <2>3. CASE ~err[t] /\ db' = Change(db, tiff.work) /\ todo' = [todo EXCEPT ![t] = @ \ {tiff.work}]
    <3>1. tiff.work \in todo[t] /\ tiff.work \in AnyWrite
      BY <1>2, <2>1, <2>3 DEF RefInv, FileInv
    <3>2. Pending(t)' = todo[t] \ {tiff.work}
      BY <1>2, <2>3, Typed DEF Pending
    <3>3. DataInv' /\ WorkInv'
      BY <1>2, <1>3, <2>1, <2>3, <3>1, PlainData
    <3>4. QED
      BY <1>1, <1>2, <1>3, <2>1, <2>2, <2>3, <3>1, <3>2, <3>3, WritesOne DEF Implements
  <2>4. CASE UNCHANGED <<todo, db>>
    <3>1. Pending(t)' = Pending(t)
      BY <1>2, <2>4 DEF Pending
    <3>2. DataInv' /\ WorkInv'
      BY <1>2, <1>3, <2>1, <2>4, PlainData
    <3>3. QED
      BY <1>1, <1>2, <1>3, <2>1, <2>2, <2>4, <3>1, <3>2, SameLate, Quiet DEF Implements
  <2>5. QED
    BY <1>9, <2>3, <2>4 DEF TiffClose
<1>10. QED
  BY <1>4, <1>5, <1>6, <1>7, <1>8, <1>9

(* The ways in and out.                                                    *)
LEMMA WaysShow ==
  ASSUME RefInv, NEW t \in Threads, EncodeFirst(t) \/ Refused(t) \/ Release(t)
  PROVE  Implements
<1>1. pc[t] \in {"encode", "refused", "release"} /\ OnlyMoves(t)
  BY WaysLocal DEF EncodeFirst, Refused, Release
<1>2. /\ StoreInv /\ op[t] # None /\ Local(t) /\ Sql' = Sql /\ Careless' = Careless
      /\ Reads(t) => todo[t] = {} /\ op[t].writes = {}
  <2>1. Local(t) /\ op[t] # None /\ (Reads(t) => todo[t] = {} /\ op[t].writes = {})
    BY <1>1, InCode
  <2>2. StoreInv /\ Sql' = Sql /\ Careless' = Careless
    BY <1>1 DEF RefInv, OnlyMoves, Sql, Careless, Kind
  <2>3. QED
    BY <2>1, <2>2
<1>3. /\ pc'[t] \in {"idle", "pool"} /\ UNCHANGED <<db, got, tiff>> /\ ~Midway(t) /\ err' \in [Threads -> BOOLEAN]
      /\ EncodeFirst(t) \/ Refused(t) => UNCHANGED <<conn, txn>>
  BY <1>1, <1>2, Typed DEF EncodeFirst, Refused, Release, Finish, Goto, Raise, Midway, callVars, dbVars
<1>4. DataInv' /\ WorkInv' /\ FileInv'
  <2>1. FileInv'
    BY <1>1, <1>3, FileAside
  <2>2. CASE EncodeFirst(t) \/ Refused(t)
    BY <1>1, <1>3, <2>1, <2>2, AsideData, AsideWork
  <2>3. CASE Release(t)
    BY <2>1, <2>3, ReleaseData
  <2>4. QED
    BY <2>2, <2>3
<1>5. CASE EncodeFirst(t) /\ ~Finish(t)
  <2>1. pc[t] = "encode" /\ pc'[t] = "pool" /\ UNCHANGED <<op, todo, got, answer, err, db, txn>>
    BY <1>2, <1>3, <1>5, Typed DEF EncodeFirst, Goto, callVars
  <2>2. Pending(t)' = Pending(t) /\ Seen(t)' = Seen(t)
    BY <1>2, <2>1 DEF Pending, Seen
  <2>3. QED
    BY <1>1, <1>2, <1>4, <2>1, <2>2, SameLate, Quiet DEF Implements
<1>6. CASE (EncodeFirst(t) \/ Refused(t)) /\ Finish(t)
  <2>1. err'[t] /\ UNCHANGED txn
    BY <1>1, <1>2, <1>3, <1>6, Typed DEF EncodeFirst, Refused, Finish, Goto, Raise, Local
  <2>2. Sql => Pending(t) = op[t].writes
    BY <1>1, <1>6 DEF Pending, EncodeFirst, Refused
  <2>3. QED
    BY <1>1, <1>2, <1>3, <1>4, <1>6, <2>1, <2>2, SameLate, ReturnsShow DEF Implements
<1>7. CASE Release(t)
  <2>1. pc[t] = "release" /\ Finish(t) /\ UNCHANGED err /\ (Sql \/ Kind = "bdb")
    BY <1>2, <1>7 DEF Release, Local, Pooled
  <2>2. Late' \in {Late, None} /\ (~err[t] => Late' = Late)
    BY <1>7, ReleaseData
  <2>3. err[t] /\ Sql => Pending(t) = op[t].writes
    BY <2>1 DEF Pending
  <2>4. ~err[t] => Pending(t) = {}
    BY <1>2, <2>1 DEF Pending, Local
  <2>5. QED
    BY <1>1, <1>2, <1>3, <1>4, <2>1, <2>2, <2>3, <2>4, ReturnsShow DEF Implements
<1>8. QED
  BY <1>5, <1>6, <1>7 DEF Refused

(* Who stores with an old error has written nothing.                       *)
LEMMA LeakShows ==
  ASSUME RefInv, NEW t \in Threads, SqlLeaks(t)
  PROVE  Implements
<1>1. OnlyMoves(t) /\ StoreInv
  BY WaysLocal DEF RefInv
<1>2. /\ Sql /\ pc[t] = "use" /\ pc'[t] = "idle" /\ err[t] /\ err'[t] /\ Finish(t)
      /\ UNCHANGED <<db, got, txn, tiff>> /\ ~Midway(t) /\ err' \in [Threads -> BOOLEAN]
      /\ \A u \in Threads \ {t} : conn'[u] = conn[u]
  BY <1>1, Typed DEF SqlLeaks, Leak, Finish, Goto, Midway, dbVars, StoreInv, AllInv, PoolInv, PoolTypes, PoolTypeOK
<1>3. op[t] # None /\ Pending(t) = op[t].writes
  BY <1>1, <1>2, InCode DEF Pending
<1>4. DataInv' /\ WorkInv'
  BY <1>1, <1>2, AsideData, AsideWork
<1>5. FileInv'
  BY <1>1, <1>2, FileAside
<1>6. Shows
  BY <1>1, <1>2, <1>3, SameLate, ReturnsShow
<1>7. QED
  BY <1>4, <1>5, <1>6 DEF Implements

LEMMA PoolShows ==
  ASSUME RefInv, NEW t \in Threads, GetConn(t)
  PROVE  Implements
<1>1. /\ OnlyMoves(t) /\ op'[t] = op[t] /\ todo'[t] = todo[t] /\ pc[t] \in PoolPlaces
      /\ pc'[t] \in PoolPlaces \union {"refused", "use"} /\ UNCHANGED <<db, txn, tiff, answer>>
  BY PoolLocal DEF GetConn, callVars, dbVars
<1>2. op[t] # None /\ Kind # "tiff" /\ Sql' = Sql
  <2>1. op[t] # None /\ Local(t)
    BY <1>1, InCode DEF PoolPlaces
  <2>2. QED
    BY <1>1, <2>1 DEF Local, Pooled, Sql, OnlyMoves, Kind
<1>3. FileInv'
  BY <1>1, <1>2, FileAside DEF PoolPlaces
<1>4. Pending(t)' = Pending(t) /\ Seen(t)' = Seen(t)
  BY <1>1, <1>2 DEF Pending, Seen, PoolPlaces
<1>5. QED
  BY <1>1, <1>2, <1>3, <1>4, PoolWork, SameLate, Quiet DEF Implements

LEMMA StartShows ==
  ASSUME RefInv, NEW t \in Threads, Start(t)
  PROVE  Implements
<1>1. /\ OnlyMoves(t) /\ op'[t] # None /\ op'[t] \in program.ops /\ todo'[t] = op'[t].writes
      /\ pc'[t] \in {"encode", "pool", "tcopen", "remote", "tiff"}
      /\ UNCHANGED <<answer, db, txn, tiff, conn>> /\ pc[t] = "idle" /\ StoreInv
  BY StartLocal DEF Start, dbVars, RefInv
<1>2. DataInv' /\ WorkInv' /\ FileInv'
  BY <1>1, AsideData, AsideWork, FileAside DEF Midway
<1>3. op[t] = None /\ program \in Programs
  BY <1>1 DEF StoreInv, Working, AllInv, PoolInv, PoolTypes, PoolTypeOK
<1>4. /\ op'[t].writes \subseteq AnyWrite
      /\ op'[t].name \in {"has", "get"} => op'[t].tile \in Tiles /\ op'[t].writes = {}
  BY <1>1, <1>3, OpFacts
<1>5. Pending(t)' = op'[t].writes /\ Seen(t)' = None
  BY <1>1 DEF Pending, Seen
<1>6. /\ Calls[t] = None /\ Calls' = [Calls EXCEPT ![t] = CallOf(t)']
      /\ CallOf(t)' = [tile |-> IF Reads(t)' THEN op'[t].tile ELSE None, whole |-> op'[t].writes,
                       rest |-> Pending(t)', seen |-> IF Reads(t)' THEN Seen(t)' ELSE "ok"]
  BY <1>1, <1>3, OneCallMoves DEF Calls, CallOf
<1>7. CASE Reads(t)'
  <2>1. op'[t].tile \in Tiles /\ op'[t].writes = {}
    BY <1>4, <1>7 DEF Reads
  <2>2. CallOf(t)' = Store!Reading(op'[t].tile)
    BY <1>5, <1>6, <1>7, <2>1 DEF Store!Reading
  <2>3. Store!Begin(t)
    BY <1>1, <1>6, <2>1, <2>2, OneCallMoves, SameShown, SameLate DEF Store!Begin
  <2>4. QED
    BY <1>2, <2>3, Acts DEF Implements
<1>8. CASE ~Reads(t)'
  <2>1. op'[t].writes \in Store!Writes
    BY <1>4 DEF Store!Writes, AnyWrite
  <2>2. CallOf(t)' = Store!Writing(op'[t].writes)
    BY <1>5, <1>6, <1>8 DEF Store!Writing
  <2>3. Store!Begin(t)
    BY <1>1, <1>6, <2>1, <2>2, OneCallMoves, SameShown, SameLate DEF Store!Begin
  <2>4. QED
    BY <1>2, <2>3, Acts DEF Implements
<1>9. QED
  BY <1>7, <1>8

LEMMA ForgiveShows ==
  ASSUME RefInv, NEW t \in Threads, Forgive(t)
  PROVE  Implements
<1>1. /\ OnlyMoves(t) /\ op[t] = None /\ op'[t] = None /\ UNCHANGED <<answer, db, txn, tiff, conn, pc>>
      /\ pc[t] = "idle"
  BY ForgiveLocal DEF Forgive, dbVars
<1>2. DataInv' /\ WorkInv' /\ FileInv'
  BY <1>1, AsideData, AsideWork, FileAside DEF Midway
<1>3. CallOf(t)' = CallOf(t)
  BY <1>1 DEF CallOf
<1>4. QED
  BY <1>1, <1>2, <1>3, SameLate, Stutters DEF Implements, Shows

LEMMA DieShows ==
  ASSUME RefInv, NEW t \in Threads, Die(t)
  PROVE  Implements
<1>1. /\ pc' = [u \in Threads |-> IF Mine(u) = Mine(t) THEN "dead" ELSE pc[u]]
      /\ op' = [u \in Threads |-> IF Mine(u) = Mine(t) THEN None ELSE op[u]]
      /\ UNCHANGED <<program, err, todo, got, answer, db>>
  BY DEF Die, AssertFails, Abort
<1>2. Sql' = Sql /\ Careless' = Careless /\ (Kind = "tiff")' = (Kind = "tiff") /\ Shown' = Shown
  BY <1>1, SameShown DEF Sql, Careless, Kind
<1>3. ASSUME NEW u \in Threads PROVE CallOf(u)' = IF Mine(u) = Mine(t) THEN None ELSE CallOf(u)
  <2>1. CASE Mine(u) = Mine(t)
    BY <1>1, <2>1 DEF CallOf
  <2>2. CASE Mine(u) # Mine(t)
    <3>1. op'[u] = op[u] /\ pc'[u] = pc[u] /\ todo'[u] = todo[u] /\ err'[u] = err[u] /\ got'[u] = got[u]
      BY <1>1, <2>2
    <3>2. Reads(u)' = Reads(u) /\ Pending(u)' = Pending(u) /\ Seen(u)' = Seen(u)
      BY <1>2, <3>1 DEF Reads, Pending, Seen
    <3>3. QED
      BY <2>2, <3>1, <3>2 DEF CallOf
  <2>3. QED
    BY <2>1, <2>2
<1> DEFINE C == {u \in Threads : Mine(u) = Mine(t)}
<1>4. Calls' = [u \in Threads |-> IF u \in C THEN None ELSE Calls[u]]
  <2>1. \A u \in Threads : u \in C <=> Mine(u) = Mine(t)
    OBVIOUS
  <2> HIDE DEF C
  <2>2. ASSUME NEW u \in Threads PROVE CallOf(u)' = IF u \in C THEN None ELSE Calls[u]
    BY <1>3, <2>1 DEF Calls
  <2>3. Calls' = [u \in Threads |-> CallOf(u)']
    BY DEF Calls
  <2>4. QED
    BY <2>2, <2>3
<1>5. C \in SUBSET Threads
  OBVIOUS
<1> HIDE DEF C
<1>6. Store!Crash(C)
  BY <1>1, <1>2, <1>4, DieData DEF Store!Crash
<1>7. Shows
  BY <1>5, <1>6 DEF Shows, Store!Next
<1>8. QED
  BY <1>7, DieData, DieFile DEF Implements

LEMMA EvictShows ==
  ASSUME RefInv, NEW x \in Tiles, Evict(x)
  PROVE  Implements
<1>1. Kind = "memcache" /\ db' = Del(db, x) /\ UNCHANGED <<poolVars, callVars, txn, handle, tiff>>
  BY DEF Evict
<1>2. <<x, None>> \in AnyWrite /\ db' = Change(db, <<x, None>>) /\ db \in DbType /\ DbSane(db)
  BY <1>1 DEF AnyWrite, Change, RefInv, StoreInv, DataInv
<1>3. /\ ~Sql /\ Careless /\ Sql' = Sql /\ Careless' = Careless /\ Kind' = Kind
      /\ UNCHANGED <<program, pc, err, op, todo, got, answer>>
  BY <1>1 DEF Sql, Careless, Kind, poolVars, callVars
<1>4. DataInv' /\ WorkInv'
  BY <1>1, <1>2, <1>3, PlainData
<1>5. FileInv'
  BY <1>1, <1>3 DEF RefInv, FileInv
<1>6. Calls' = Calls /\ Late' = Late
  <2>1. \A u \in Threads : CallOf(u)' = CallOf(u)
    BY <1>3 DEF CallOf, Reads, Pending, Seen
  <2>2. Late' = Late
    BY <1>1, SameLate
  <2>3. QED
    BY <2>1, <2>2 DEF Calls
<1>7. Shown' = [Shown EXCEPT ![x] = None]
  <2>1. ASSUME NEW y \in Tiles PROVE Content(db', y) = IF y = x THEN None ELSE Content(db, y)
    BY <1>2, ChangeSane
  <2>2. Shown' = [y \in Tiles |-> Content(db', y)]
    BY DEF Shown, Content
  <2>3. [Shown EXCEPT ![x] = None] = [y \in Tiles |-> IF y = x THEN None ELSE Content(db, y)]
    BY DEF Shown
  <2> DEFINE f == [y \in Tiles |-> Content(db', y)]
             g == [y \in Tiles |-> IF y = x THEN None ELSE Content(db, y)]
  <2>4. f = g
    BY <2>1
  <2> HIDE DEF f, g
  <2>5. Shown' = f /\ [Shown EXCEPT ![x] = None] = g
    BY <2>2, <2>3 DEF f, g
  <2>6. QED
    BY <2>4, <2>5, Zenon
<1>8. Store!Forget(x)
  BY <1>1, <1>3, <1>6, <1>7 DEF Store!Forget
<1>9. QED
  BY <1>4, <1>5, <1>8 DEF Implements, Shows, Store!Next

-----------------------------------------------------------------------------

LEMMA StepLocal ==
  ASSUME RefInv, [Next]_vars PROVE LocalInv'
<1>1. ASSUME NEW t \in Threads, OnlyMoves(t) /\ Local(t)' PROVE LocalInv'
  BY <1>1, LocalStays DEF RefInv
<1>2. ASSUME NEW t \in Threads, Start(t) \/ Forgive(t) \/ GetConn(t) PROVE LocalInv'
  BY <1>1, <1>2, StartLocal, ForgiveLocal, PoolLocal
<1>3. ASSUME NEW t \in Threads, Die(t) PROVE LocalInv'
  BY <1>3, DieLocal
<1>4. ASSUME NEW t \in Threads, EncodeFirst(t) \/ Refused(t) \/ Release(t) \/ SqlLeaks(t) PROVE LocalInv'
  BY <1>1, <1>4, WaysLocal
<1>5. ASSUME NEW t \in Threads, SqlSteps(t) \/ SqlFails(t) PROVE LocalInv'
  BY <1>1, <1>4, <1>5, SqlLocal DEF SqlSteps
<1>6. ASSUME NEW t \in Threads, BdbSteps(t) PROVE LocalInv'
  BY <1>1, <1>6, BdbLocal DEF BdbSteps
<1>7. ASSUME NEW t \in Threads, TcSteps(t) PROVE LocalInv'
  BY <1>1, <1>7, TcLocal DEF TcSteps
<1>8. ASSUME NEW t \in Threads, RemoteSteps(t) PROVE LocalInv'
  BY <1>1, <1>8, RemoteLocal DEF RemoteSteps
<1>9. ASSUME NEW t \in Threads, TiffSteps(t) PROVE LocalInv'
  BY <1>1, <1>9, TiffLocal DEF TiffSteps
<1>10. ASSUME NEW x \in Tiles, Evict(x) PROVE LocalInv'
  BY <1>10, SameLocal DEF Evict, poolVars, callVars, RefInv
<1>11. CASE UNCHANGED vars
  BY <1>11, SameLocal DEF vars, poolVars, callVars, RefInv
<1>12. QED
  BY <1>2, <1>3, <1>4, <1>5, <1>6, <1>7, <1>8, <1>9, <1>10, <1>11 DEF Next, CallStep

LEMMA StepShows ==
  ASSUME RefInv, [Next]_vars PROVE Implements
<1>1. ASSUME NEW t \in Threads, Start(t) \/ Forgive(t) \/ GetConn(t) \/ Die(t) PROVE Implements
  BY <1>1, StartShows, ForgiveShows, PoolShows, DieShows
<1>2. ASSUME NEW t \in Threads, EncodeFirst(t) \/ Refused(t) \/ Release(t) PROVE Implements
  BY <1>2, WaysShow
<1>3. ASSUME NEW t \in Threads, SqlSteps(t) \/ SqlFails(t) PROVE Implements
  BY <1>3, SqlShows, LeakShows DEF SqlSteps
<1>4. ASSUME NEW t \in Threads, BdbSteps(t) PROVE Implements
  BY <1>4, BdbShows DEF BdbSteps
<1>5. ASSUME NEW t \in Threads, TcSteps(t) PROVE Implements
  BY <1>5, TcShows DEF TcSteps
<1>6. ASSUME NEW t \in Threads, RemoteSteps(t) PROVE Implements
  BY <1>6, RemoteShows DEF RemoteSteps
<1>7. ASSUME NEW t \in Threads, TiffSteps(t) PROVE Implements
  BY <1>7, TiffShows DEF TiffSteps
<1>8. ASSUME NEW x \in Tiles, Evict(x) PROVE Implements
  BY <1>8, EvictShows
<1>9. CASE UNCHANGED vars
  <2>1. UNCHANGED <<program, pc, err, conn, op, todo, got, answer, db, txn, tiff>>
    BY <1>9 DEF vars, poolVars, callVars, dbVars
  <2>2. /\ Sql' = Sql /\ Careless' = Careless /\ (Kind = "tiff")' = (Kind = "tiff")
        /\ Shown' = Shown /\ Late' = Late /\ Store!Base' = Store!Base
    BY <2>1, SameShown, SameLate DEF Sql, Careless, Kind, Store!Base
  <2>3. \A u \in Threads : CallOf(u)' = CallOf(u)
    BY <2>1, <2>2 DEF CallOf, Reads, Pending, Seen
  <2>4. Shows
    BY <2>1, <2>2, <2>3 DEF Shows, Store!storeVars, Calls
  <2>5. DataInv'
    BY <2>1, <2>2 DEF RefInv, DataInv, DbSane, Midway, Sets
  <2>6. WorkInv'
    BY <2>1, <2>2 DEF RefInv, WorkInv, Sets, Content
  <2>7. FileInv'
    BY <2>1 DEF RefInv, FileInv, Kind, Content
  <2>8. QED
    BY <2>4, <2>5, <2>6, <2>7 DEF Implements
<1>10. QED
  BY <1>1, <1>2, <1>3, <1>4, <1>5, <1>6, <1>7, <1>8, <1>9 DEF Next, CallStep

LEMMA BeginsEmpty == Init => RefInv /\ Store!Init
<1> SUFFICES ASSUME Init PROVE RefInv /\ Store!Init
  OBVIOUS
<1>1. StoreInv
  BY StoresInitial
<1>2. /\ \A t \in Threads : pc[t] = "idle" /\ op[t] = None /\ got[t] = None /\ err[t] = FALSE
      /\ answer = [t \in Threads |-> "ok"]
      /\ db = Empty /\ txn = NoTxn /\ tiff.work = None
  BY DEF Init, PoolInit
<1>3. \A x \in Tiles : Content(db, x) = None
  BY <1>2 DEF Content, Empty
<1>4. LocalInv
  BY <1>2, OpsAssumption DEF LocalInv, Local, Asking, PoolPlaces
<1>5. DataInv /\ WorkInv
  BY <1>2, OpsAssumption DEF DataInv, WorkInv, DbSane, Empty, Ids
<1>6. FileInv
  BY <1>2, <1>3 DEF FileInv
<1>7. Shown = [x \in Tiles |-> None] /\ Late = None /\ Calls = [t \in Threads |-> None]
  BY <1>2, <1>3 DEF Shown, Late, NoTxn, Calls, CallOf
<1>8. Store!Init
  BY <1>2, <1>7 DEF Store!Init, Sql, Careless
<1>9. QED
  BY <1>1, <1>4, <1>5, <1>6, <1>8 DEF RefInv

LEMMA RefInvariant == Spec => []RefInv
<1>1. RefInv /\ [Next]_vars => RefInv'
  BY StoresKept, StepLocal, StepShows DEF RefInv, Implements
<1>2. QED
  BY <1>1, BeginsEmpty, PTL DEF Spec

(* Whatever fails, ends or is evicted, in any order, the caches do no more *)
(* than what their callers rely on: a tile that is read was stored, several *)
(* tiles of SQLite and MBTiles are stored at once or not at all, and what  *)
(* is acknowledged has been stored, or is when the next transaction of the *)
(* connection ends (the cache functions of lib/cache_*.c).                 *)
THEOREM CachesKeepTheContract == Spec => StoreSpec
<1>1. RefInv /\ [Next]_vars => [Store!Next]_(Store!storeVars)
  BY StepShows DEF Implements, Shows
<1>2. QED
  BY <1>1, BeginsEmpty, RefInvariant, PTL DEF Spec, StoreSpec, Store!Spec
=============================================================================
