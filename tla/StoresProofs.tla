---------------------------- MODULE StoresProofs ----------------------------
(* What holds of the database and remote caches for all threads, programs, *)
(* operations and failures.                                                *)
EXTENDS Stores, PoolProofs

PoolPlaces == {"encode", "pool", "lock", "recheck", "makerw", "found", "acquire"}
TcPlaces == {"tcopen", "tc", "tcclose"}
TiffPlaces == {"tiff", "tiffread", "tifflock", "tiffopen", "tiffclose"}

AnyWrite == Tiles \X (Images \union {None})
Gots == Images \union {"torn", "lost", None}
Outcomes == Images \union {"torn", "lost", "ok", "miss", "error"}

CallTypes ==
  /\ pc \in [Threads -> Places]
  /\ op \in [Threads -> program.ops \union {None}]
  /\ todo \in [Threads -> SUBSET AnyWrite]
  /\ got \in [Threads -> Gots]
  /\ answer \in [Threads -> Outcomes]
  /\ calls \in 0 .. MaxCalls
  /\ handle \in [Processes -> Access \union {None}]

(* A thread in a call has an operation, and asks for the pool it needs.    *)
Working ==
  \A t \in Threads :
    /\ op[t] = None <=> pc[t] \in {"idle", "dead"}
    /\ op[t] # None => access[t] = IF Reads(t) THEN "ro" ELSE "rw"

(* A thread keeps to the code of the kind of cache.                        *)
Routes ==
  \A t \in Threads : /\ pc[t] \in TcPlaces => Kind = "tc"
                     /\ pc[t] \in TiffPlaces => Kind = "tiff"

(* Who stores with an error in its context has kept an old one.            *)
OldErrors ==
  \A t \in Threads : Sql /\ pc[t] \in PoolPlaces \union {"use"} /\ Sets(t) /\ err[t] => program.sticky

(* A transaction is one of an open connection that writes.                 *)
TxnOf(c, d, k) == [owner |-> c, work |-> d, kept |-> k]
TxnSound ==
  txn = NoTxn \/ \E c \in open : \E d \in DbType : \E k \in DbType \union {None} :
                   c.pool.access = "rw" /\ txn = TxnOf(c, d, k)

(* Who has written some of its tiles has begun the transaction.            *)
TxnBegun ==
  \A t \in Threads : Sql /\ pc[t] \in PoolPlaces \union {"use"} /\ Sets(t) =>
    todo[t] = op[t].writes \/ (pc[t] = "use" /\ txn.owner = conn[t])

(* A TIFF file is written by who has its lock.                             *)
TiffSound ==
  /\ tiff = [file |-> tiff.file, lock |-> tiff.lock, work |-> tiff.work]
  /\ tiff.lock = None => tiff.work = None
  /\ \A t \in Threads :
       /\ pc[t] \in {"tiffopen", "tiffclose"} => tiff.lock = t
       /\ pc[t] = "tiffclose" /\ ~err[t] => tiff.work \in AnyWrite

StoreInv ==
  /\ AllInv /\ CallTypes /\ Working /\ Routes /\ OldErrors
  /\ db \in DbType /\ TxnSound /\ TxnBegun /\ TiffSound
  /\ NothingLeaks

(* What a step of a thread in its call leaves alone, and what it may do.   *)
Proceeds(t) ==
  /\ UNCHANGED <<program, access>> /\ CallTypes'
  /\ \A u \in Threads \ {t} : /\ pc'[u] = pc[u] /\ op'[u] = op[u] /\ err'[u] = err[u]
                              /\ todo'[u] = todo[u]
  /\ pc[t] \notin {"idle", "dead"} /\ pc'[t] # "dead"
  /\ op'[t] = (IF pc'[t] = "idle" THEN None ELSE op[t])
  /\ pc'[t] \in TcPlaces => Kind = "tc"
  /\ pc'[t] \in TiffPlaces => Kind = "tiff"
  /\ err[t] => err'[t]
  /\ Sql /\ pc'[t] \in PoolPlaces \union {"use"} /\ err'[t] =>
       err[t] /\ pc[t] \in PoolPlaces \union {"use"}
  /\ Sql /\ pc'[t] \in PoolPlaces \union {"use"} =>
       \/ pc[t] \in PoolPlaces /\ todo'[t] = todo[t]
       \/ pc'[t] = "use" /\ txn'.owner = conn'[t]
  /\ pc'[t] \in {"tiffopen", "tiffclose"} => tiff'.lock = t
  /\ pc'[t] = "tiffclose" /\ ~err'[t] => tiff'.work \in AnyWrite

LEMMA OpFacts ==
  ASSUME program \in Programs, NEW o \in program.ops
  PROVE  /\ o # None /\ o.name \in {"has", "get", "set", "multiset", "delete"}
         /\ o.writes \subseteq AnyWrite
         /\ o.name \in {"has", "get"} => o.tile \in Tiles /\ o.writes = {}
         /\ o.name \in {"set", "multiset"} => o.writes # {}
         /\ Kind \in {"sqlite", "mbtiles", "bdb", "tc", "memcache", "s3", "tiff"}
<1>1. /\ program.kind \in {"sqlite", "mbtiles", "bdb", "tc", "memcache", "s3", "tiff"}
      /\ None \notin program.ops
      /\ \/ o.name \in {"has", "get"} /\ o.tile \in Tiles /\ o.writes = {}
         \/ o.name \in {"set", "multiset"} /\ o.writes \in (SUBSET (Tiles \X Images)) \ {{}}
         \/ o.name = "delete" /\ \E t \in Tiles : o.writes = {<<t, None>>}
  BY OpsAssumption
<1>2. \A t \in Tiles : {<<t, None>>} \subseteq AnyWrite
  BY DEF AnyWrite
<1>3. \A W \in SUBSET (Tiles \X Images) : W \subseteq AnyWrite
  BY DEF AnyWrite
<1>4. CASE o.name \in {"has", "get"} /\ o.tile \in Tiles /\ o.writes = {}
  BY <1>1, <1>4 DEF Kind
<1>5. CASE o.name \in {"set", "multiset"} /\ o.writes \in (SUBSET (Tiles \X Images)) \ {{}}
  BY <1>1, <1>3, <1>5 DEF Kind
<1>6. CASE o.name = "delete" /\ \E t \in Tiles : o.writes = {<<t, None>>}
  BY <1>1, <1>2, <1>6 DEF Kind
<1>7. QED
  BY <1>1, <1>4, <1>5, <1>6

LEMMA ContentType ==
  ASSUME NEW d \in DbType, NEW x \in Tiles
  PROVE  Content(d, x) \in Images \union {None} /\ Content(d, x) \in Gots
BY DEF DbType, Content, Ids, Gots

LEMMA ChangeType ==
  ASSUME NEW d \in DbType, NEW w \in AnyWrite
  PROVE  Change(d, w) \in DbType
<1>1. w[1] \in Tiles /\ w[1] \in Ids /\ w[2] \in Images \union {None}
  BY DEF AnyWrite, Ids
<1>2. /\ d.map \in [Tiles -> Ids \union {None}] /\ d.images \in [Ids -> Images \union {None}]
      /\ Blank \subseteq Ids /\ Blank \subseteq Images
  BY OpsAssumption DEF DbType, Ids
<1>3. Del(d, w[1]) \in DbType
  BY <1>1, <1>2 DEF Del, DbType
<1>4. ASSUME w[2] # None PROVE Put(d, w[1], w[2]) \in DbType
  <2>1. CASE Kind = "mbtiles" /\ w[2] \in Blank
    BY <2>1, <1>1, <1>2, <1>4 DEF Put, DbType
  <2>2. CASE ~(Kind = "mbtiles" /\ w[2] \in Blank)
    BY <2>2, <1>1, <1>2, <1>4 DEF Put, DbType
  <2>3. QED
    BY <2>1, <2>2
<1>5. QED
  BY <1>3, <1>4 DEF Change

(* What a thread in a call has, besides its place.                         *)
LEMMA InCall ==
  ASSUME StoreInv, NEW t \in Threads, pc[t] \notin {"idle", "dead"}
  PROVE  /\ op[t] \in program.ops /\ op[t] # None /\ todo[t] \subseteq AnyWrite
         /\ op[t].name \in {"has", "get", "set", "multiset", "delete"}
         /\ op[t].writes \subseteq AnyWrite
         /\ Reads(t) => op[t].tile \in Tiles /\ Content(db, op[t].tile) \in Gots
         /\ Sets(t) => access[t] = "rw" /\ op[t].writes # {}
         /\ \A w \in todo[t] : Change(db, w) \in DbType
         /\ \A w \in op[t].writes : Change(db, w) \in DbType
<1>1. op[t] \in program.ops /\ op[t] # None /\ todo[t] \subseteq AnyWrite
  BY DEF StoreInv, CallTypes, Working
<1>2. program \in Programs
  BY DEF StoreInv, AllInv, PoolInv, PoolTypes, PoolTypeOK
<1>3. /\ op[t].name \in {"has", "get", "set", "multiset", "delete"}
      /\ op[t].writes \subseteq AnyWrite
      /\ Reads(t) => op[t].tile \in Tiles
      /\ Sets(t) => op[t].writes # {}
  BY <1>1, <1>2, OpFacts DEF Reads, Sets
<1>4. Sets(t) => access[t] = "rw"
  BY <1>1, <1>3 DEF StoreInv, Working, Reads, Sets
<1>5. QED
  BY <1>1, <1>3, <1>4, ContentType, ChangeType DEF StoreInv

(* SQLite and MBTiles.                                                     *)
LEMMA SqlProceeds ==
  ASSUME StoreInv, NEW t \in Threads,
         \/ SqlOldError(t) \/ SqlHas(t) \/ SqlGet(t) \/ SqlReset(t)
         \/ SqlWrite(t) \/ SqlFails(t) \/ SqlCommit(t) \/ SqlDelete(t)
         \/ MbtilesDelete(t)
  PROVE  Proceeds(t) /\ Outside(t) /\ UNCHANGED <<handle, tiff>>
<1> USE DEF Goto, Raise, Finish, KeepsAll, callVars, dbVars
<1>1. /\ pc \in [Threads -> Places] /\ pc = [u \in Threads |-> pc[u]]
      /\ op \in [Threads -> program.ops \union {None}] /\ todo \in [Threads -> SUBSET AnyWrite]
      /\ got \in [Threads -> Gots] /\ answer \in [Threads -> Outcomes] /\ calls \in 0 .. MaxCalls
      /\ handle \in [Processes -> Access \union {None}] /\ access \in [Threads -> Access]
      /\ err \in [Threads -> BOOLEAN] /\ Mine(t) \in Processes /\ db \in DbType
  BY MineIn DEF StoreInv, CallTypes, AllInv, PoolInv, PoolTypes, PoolTypeOK
<1>2. CASE SqlOldError(t)
  <2>1. pc[t] \notin {"idle", "dead"}
    BY <1>2 DEF SqlOldError, SqlStep
  <2>2. /\ op[t] \in program.ops /\ op[t] # None /\ todo[t] \subseteq AnyWrite
        /\ Reads(t) => Content(db, op[t].tile) \in Gots
        /\ \A w \in todo[t] : Change(db, w) \in DbType
    BY <2>1, InCall
  <2>3. CallTypes'
    BY <1>1, <1>2, <2>2 DEF SqlOldError, SqlStep, CallTypes, Places, Gots, Outcomes, Reads, Sets
  <2>4. Proceeds(t)
    BY <1>1, <1>2, <2>2, <2>3 DEF SqlOldError, SqlStep, Proceeds, Places, TcPlaces, TiffPlaces, PoolPlaces, Sql, Kind
  <2>5. Outside(t)
    BY <1>1, <1>2 DEF SqlOldError, SqlStep, Outside, Holding
  <2>6. UNCHANGED <<handle, tiff>>
    BY <1>2 DEF SqlOldError, SqlStep
  <2>7. QED
    BY <2>4, <2>5, <2>6
<1>3. CASE SqlHas(t)
  <2>1. pc[t] \notin {"idle", "dead"}
    BY <1>3 DEF SqlHas, SqlStep, SqlLook
  <2>2. /\ op[t] \in program.ops /\ op[t] # None /\ todo[t] \subseteq AnyWrite
        /\ Reads(t) => Content(db, op[t].tile) \in Gots
        /\ \A w \in todo[t] : Change(db, w) \in DbType
    BY <2>1, InCall
  <2>3. CallTypes'
    BY <1>1, <1>3, <2>2 DEF SqlHas, SqlStep, SqlLook, CallTypes, Places, Gots, Outcomes, Reads, Sets
  <2>4. Proceeds(t)
    BY <1>1, <1>3, <2>2, <2>3 DEF SqlHas, SqlStep, SqlLook, Proceeds, Places, TcPlaces, TiffPlaces, PoolPlaces, Sql, Kind
  <2>5. Outside(t)
    BY <1>1, <1>3 DEF SqlHas, SqlStep, SqlLook, Outside, Holding
  <2>6. UNCHANGED <<handle, tiff>>
    BY <1>3 DEF SqlHas, SqlStep, SqlLook
  <2>7. QED
    BY <2>4, <2>5, <2>6
<1>4. CASE SqlGet(t)
  <2>1. pc[t] \notin {"idle", "dead"}
    BY <1>4 DEF SqlGet, SqlStep, SqlLook
  <2>2. /\ op[t] \in program.ops /\ op[t] # None /\ todo[t] \subseteq AnyWrite
        /\ Reads(t) => Content(db, op[t].tile) \in Gots
        /\ \A w \in todo[t] : Change(db, w) \in DbType
    BY <2>1, InCall
  <2>3. CallTypes'
    BY <1>1, <1>4, <2>2 DEF SqlGet, SqlStep, SqlLook, CallTypes, Places, Gots, Outcomes, Reads, Sets
  <2>4. Proceeds(t)
    BY <1>1, <1>4, <2>2, <2>3 DEF SqlGet, SqlStep, SqlLook, Proceeds, Places, TcPlaces, TiffPlaces, PoolPlaces, Sql, Kind
  <2>5. Outside(t)
    BY <1>1, <1>4 DEF SqlGet, SqlStep, SqlLook, Outside, Holding
  <2>6. UNCHANGED <<handle, tiff>>
    BY <1>4 DEF SqlGet, SqlStep, SqlLook
  <2>7. QED
    BY <2>4, <2>5, <2>6
<1>5. CASE SqlReset(t)
  <2>1. pc[t] \notin {"idle", "dead"}
    BY <1>5 DEF SqlReset
  <2>2. /\ op[t] \in program.ops /\ op[t] # None /\ todo[t] \subseteq AnyWrite
        /\ Reads(t) => Content(db, op[t].tile) \in Gots
        /\ \A w \in todo[t] : Change(db, w) \in DbType
    BY <2>1, InCall
  <2>3. CallTypes'
    BY <1>1, <1>5, <2>2 DEF SqlReset, CallTypes, Places, Gots, Outcomes, Reads, Sets
  <2>4. Proceeds(t)
    BY <1>1, <1>5, <2>2, <2>3 DEF SqlReset, Proceeds, Places, TcPlaces, TiffPlaces, PoolPlaces, Sql, Kind
  <2>5. Outside(t)
    BY <1>1, <1>5 DEF SqlReset, Outside, Holding
  <2>6. UNCHANGED <<handle, tiff>>
    BY <1>5 DEF SqlReset
  <2>7. QED
    BY <2>4, <2>5, <2>6
<1>6. CASE SqlWrite(t)
  <2>1. pc[t] \notin {"idle", "dead"}
    BY <1>6 DEF SqlWrite, SqlStep
  <2>2. /\ op[t] \in program.ops /\ op[t] # None /\ todo[t] \subseteq AnyWrite
        /\ Reads(t) => Content(db, op[t].tile) \in Gots
        /\ \A w \in todo[t] : Change(db, w) \in DbType
    BY <2>1, InCall
  <2>3. CallTypes'
    BY <1>1, <1>6, <2>2 DEF SqlWrite, SqlStep, CallTypes, Places, Gots, Outcomes, Reads, Sets
  <2>4. Proceeds(t)
    BY <1>1, <1>6, <2>2, <2>3 DEF SqlWrite, SqlStep, Proceeds, Places, TcPlaces, TiffPlaces, PoolPlaces, Sql, Kind
  <2>5. Outside(t)
    BY <1>1, <1>6 DEF SqlWrite, SqlStep, Outside, Holding
  <2>6. UNCHANGED <<handle, tiff>>
    BY <1>6 DEF SqlWrite, SqlStep
  <2>7. QED
    BY <2>4, <2>5, <2>6
<1>7. CASE SqlFails(t)
  <2>1. pc[t] \notin {"idle", "dead"}
    BY <1>7 DEF SqlFails, SqlStep, Sql
  <2>2. /\ op[t] \in program.ops /\ op[t] # None /\ todo[t] \subseteq AnyWrite
        /\ Reads(t) => Content(db, op[t].tile) \in Gots
        /\ \A w \in todo[t] : Change(db, w) \in DbType
    BY <2>1, InCall
  <2>3. CallTypes'
    BY <1>1, <1>7, <2>2 DEF SqlFails, SqlStep, Sql, CallTypes, Places, Gots, Outcomes, Reads, Sets
  <2>4. Proceeds(t)
    BY <1>1, <1>7, <2>2, <2>3 DEF SqlFails, SqlStep, Sql, Proceeds, Places, TcPlaces, TiffPlaces, PoolPlaces, Sql, Kind
  <2>5. Outside(t)
    BY <1>1, <1>7 DEF SqlFails, SqlStep, Sql, Outside, Holding
  <2>6. UNCHANGED <<handle, tiff>>
    BY <1>7 DEF SqlFails, SqlStep, Sql
  <2>7. QED
    BY <2>4, <2>5, <2>6
<1>8. CASE SqlCommit(t)
  <2>1. pc[t] \notin {"idle", "dead"}
    BY <1>8 DEF SqlCommit, SqlStep
  <2>2. /\ op[t] \in program.ops /\ op[t] # None /\ todo[t] \subseteq AnyWrite
        /\ Reads(t) => Content(db, op[t].tile) \in Gots
        /\ \A w \in todo[t] : Change(db, w) \in DbType
    BY <2>1, InCall
  <2>3. CallTypes'
    BY <1>1, <1>8, <2>2 DEF SqlCommit, SqlStep, CallTypes, Places, Gots, Outcomes, Reads, Sets
  <2>4. Proceeds(t)
    BY <1>1, <1>8, <2>2, <2>3 DEF SqlCommit, SqlStep, Proceeds, Places, TcPlaces, TiffPlaces, PoolPlaces, Sql, Kind
  <2>5. Outside(t)
    BY <1>1, <1>8 DEF SqlCommit, SqlStep, Outside, Holding
  <2>6. UNCHANGED <<handle, tiff>>
    BY <1>8 DEF SqlCommit, SqlStep
  <2>7. QED
    BY <2>4, <2>5, <2>6
<1>9. CASE SqlDelete(t)
  <2>1. pc[t] \notin {"idle", "dead"}
    BY <1>9 DEF SqlDelete, SqlStep
  <2>2. /\ op[t] \in program.ops /\ op[t] # None /\ todo[t] \subseteq AnyWrite
        /\ Reads(t) => Content(db, op[t].tile) \in Gots
        /\ \A w \in todo[t] : Change(db, w) \in DbType
    BY <2>1, InCall
  <2>3. CallTypes'
    BY <1>1, <1>9, <2>2 DEF SqlDelete, SqlStep, CallTypes, Places, Gots, Outcomes, Reads, Sets
  <2>4. Proceeds(t)
    BY <1>1, <1>9, <2>2, <2>3 DEF SqlDelete, SqlStep, Proceeds, Places, TcPlaces, TiffPlaces, PoolPlaces, Sql, Kind
  <2>5. Outside(t)
    BY <1>1, <1>9 DEF SqlDelete, SqlStep, Outside, Holding
  <2>6. UNCHANGED <<handle, tiff>>
    BY <1>9 DEF SqlDelete, SqlStep
  <2>7. QED
    BY <2>4, <2>5, <2>6
<1>10. CASE MbtilesDelete(t)
  <2>1. pc[t] \notin {"idle", "dead"}
    BY <1>10 DEF MbtilesDelete, SqlStep
  <2>2. /\ op[t] \in program.ops /\ op[t] # None /\ todo[t] \subseteq AnyWrite
        /\ Reads(t) => Content(db, op[t].tile) \in Gots
        /\ \A w \in todo[t] : Change(db, w) \in DbType
    BY <2>1, InCall
  <2>3. CallTypes'
    BY <1>1, <1>10, <2>2 DEF MbtilesDelete, SqlStep, CallTypes, Places, Gots, Outcomes, Reads, Sets
  <2>4. Proceeds(t)
    BY <1>1, <1>10, <2>2, <2>3 DEF MbtilesDelete, SqlStep, Proceeds, Places, TcPlaces, TiffPlaces, PoolPlaces, Sql, Kind
  <2>5. Outside(t)
    BY <1>1, <1>10 DEF MbtilesDelete, SqlStep, Outside, Holding
  <2>6. UNCHANGED <<handle, tiff>>
    BY <1>10 DEF MbtilesDelete, SqlStep
  <2>7. QED
    BY <2>4, <2>5, <2>6
<1>11. QED
  BY <1>2, <1>3, <1>4, <1>5, <1>6, <1>7, <1>8, <1>9, <1>10

(* Berkeley DB, but for the calls that walk away.                          *)
LEMMA BdbProceeds ==
  ASSUME StoreInv, NEW t \in Threads,
         BdbHas(t) \/ BdbGet(t) \/ BdbWrite(t) \/ BdbFails(t) \/ BdbSync(t)
  PROVE  Proceeds(t) /\ Outside(t) /\ UNCHANGED <<txn, tiff>> /\ db' \in DbType
<1> USE DEF Goto, Raise, Finish, KeepsAll, callVars, dbVars
<1>1. /\ pc \in [Threads -> Places] /\ pc = [u \in Threads |-> pc[u]]
      /\ op \in [Threads -> program.ops \union {None}] /\ todo \in [Threads -> SUBSET AnyWrite]
      /\ got \in [Threads -> Gots] /\ answer \in [Threads -> Outcomes] /\ calls \in 0 .. MaxCalls
      /\ handle \in [Processes -> Access \union {None}] /\ access \in [Threads -> Access]
      /\ err \in [Threads -> BOOLEAN] /\ Mine(t) \in Processes /\ db \in DbType
  BY MineIn DEF StoreInv, CallTypes, AllInv, PoolInv, PoolTypes, PoolTypeOK
<1>2. CASE BdbHas(t)
  <2>1. pc[t] \notin {"idle", "dead"}
    BY <1>2 DEF BdbHas, BdbStep, BdbLook
  <2>2. /\ op[t] \in program.ops /\ op[t] # None /\ todo[t] \subseteq AnyWrite
        /\ Reads(t) => Content(db, op[t].tile) \in Gots
        /\ \A w \in todo[t] : Change(db, w) \in DbType
    BY <2>1, InCall
  <2>3. CallTypes'
    BY <1>1, <1>2, <2>2 DEF BdbHas, BdbStep, BdbLook, CallTypes, Places, Gots, Outcomes, Reads, Sets
  <2>4. Proceeds(t)
    BY <1>1, <1>2, <2>2, <2>3 DEF BdbHas, BdbStep, BdbLook, Proceeds, Places, TcPlaces, TiffPlaces, PoolPlaces, Sql, Kind
  <2>5. Outside(t)
    BY <1>1, <1>2 DEF BdbHas, BdbStep, BdbLook, Outside, Holding
  <2>6. UNCHANGED <<txn, tiff>> /\ db' \in DbType
    BY <1>1, <1>2, <2>2 DEF BdbHas, BdbStep, BdbLook
  <2>7. QED
    BY <2>4, <2>5, <2>6
<1>3. CASE BdbGet(t)
  <2>1. pc[t] \notin {"idle", "dead"}
    BY <1>3 DEF BdbGet, BdbStep, BdbLook
  <2>2. /\ op[t] \in program.ops /\ op[t] # None /\ todo[t] \subseteq AnyWrite
        /\ Reads(t) => Content(db, op[t].tile) \in Gots
        /\ \A w \in todo[t] : Change(db, w) \in DbType
    BY <2>1, InCall
  <2>3. CallTypes'
    BY <1>1, <1>3, <2>2 DEF BdbGet, BdbStep, BdbLook, CallTypes, Places, Gots, Outcomes, Reads, Sets
  <2>4. Proceeds(t)
    BY <1>1, <1>3, <2>2, <2>3 DEF BdbGet, BdbStep, BdbLook, Proceeds, Places, TcPlaces, TiffPlaces, PoolPlaces, Sql, Kind
  <2>5. Outside(t)
    BY <1>1, <1>3 DEF BdbGet, BdbStep, BdbLook, Outside, Holding
  <2>6. UNCHANGED <<txn, tiff>> /\ db' \in DbType
    BY <1>1, <1>3, <2>2 DEF BdbGet, BdbStep, BdbLook
  <2>7. QED
    BY <2>4, <2>5, <2>6
<1>4. CASE BdbWrite(t)
  <2>1. pc[t] \notin {"idle", "dead"}
    BY <1>4 DEF BdbWrite, BdbStep
  <2>2. /\ op[t] \in program.ops /\ op[t] # None /\ todo[t] \subseteq AnyWrite
        /\ Reads(t) => Content(db, op[t].tile) \in Gots
        /\ \A w \in todo[t] : Change(db, w) \in DbType
    BY <2>1, InCall
  <2>3. CallTypes'
    BY <1>1, <1>4, <2>2 DEF BdbWrite, BdbStep, CallTypes, Places, Gots, Outcomes, Reads, Sets
  <2>4. Proceeds(t)
    BY <1>1, <1>4, <2>2, <2>3 DEF BdbWrite, BdbStep, Proceeds, Places, TcPlaces, TiffPlaces, PoolPlaces, Sql, Kind
  <2>5. Outside(t)
    BY <1>1, <1>4 DEF BdbWrite, BdbStep, Outside, Holding
  <2>6. UNCHANGED <<txn, tiff>> /\ db' \in DbType
    BY <1>1, <1>4, <2>2 DEF BdbWrite, BdbStep
  <2>7. QED
    BY <2>4, <2>5, <2>6
<1>5. CASE BdbFails(t)
  <2>1. pc[t] \notin {"idle", "dead"}
    BY <1>5 DEF BdbFails, BdbStep
  <2>2. /\ op[t] \in program.ops /\ op[t] # None /\ todo[t] \subseteq AnyWrite
        /\ Reads(t) => Content(db, op[t].tile) \in Gots
        /\ \A w \in todo[t] : Change(db, w) \in DbType
    BY <2>1, InCall
  <2>3. CallTypes'
    BY <1>1, <1>5, <2>2 DEF BdbFails, BdbStep, CallTypes, Places, Gots, Outcomes, Reads, Sets
  <2>4. Proceeds(t)
    BY <1>1, <1>5, <2>2, <2>3 DEF BdbFails, BdbStep, Proceeds, Places, TcPlaces, TiffPlaces, PoolPlaces, Sql, Kind
  <2>5. Outside(t)
    BY <1>1, <1>5 DEF BdbFails, BdbStep, Outside, Holding
  <2>6. UNCHANGED <<txn, tiff>> /\ db' \in DbType
    BY <1>1, <1>5, <2>2 DEF BdbFails, BdbStep
  <2>7. QED
    BY <2>4, <2>5, <2>6
<1>6. CASE BdbSync(t)
  <2>1. pc[t] \notin {"idle", "dead"}
    BY <1>6 DEF BdbSync, BdbStep
  <2>2. /\ op[t] \in program.ops /\ op[t] # None /\ todo[t] \subseteq AnyWrite
        /\ Reads(t) => Content(db, op[t].tile) \in Gots
        /\ \A w \in todo[t] : Change(db, w) \in DbType
    BY <2>1, InCall
  <2>3. CallTypes'
    BY <1>1, <1>6, <2>2 DEF BdbSync, BdbStep, CallTypes, Places, Gots, Outcomes, Reads, Sets
  <2>4. Proceeds(t)
    BY <1>1, <1>6, <2>2, <2>3 DEF BdbSync, BdbStep, Proceeds, Places, TcPlaces, TiffPlaces, PoolPlaces, Sql, Kind
  <2>5. Outside(t)
    BY <1>1, <1>6 DEF BdbSync, BdbStep, Outside, Holding
  <2>6. UNCHANGED <<txn, tiff>> /\ db' \in DbType
    BY <1>1, <1>6, <2>2 DEF BdbSync, BdbStep
  <2>7. QED
    BY <2>4, <2>5, <2>6
<1>7. QED
  BY <1>2, <1>3, <1>4, <1>5, <1>6

(* Tokyo Cabinet.                                                          *)
LEMMA TcProceeds ==
  ASSUME StoreInv, NEW t \in Threads,
         \/ TcOpen(t) \/ TcHas(t) \/ TcGet(t) \/ TcSet(t) \/ TcDelete(t)
         \/ TcLeaks(t) \/ TcClose(t)
  PROVE  Proceeds(t) /\ Outside(t) /\ UNCHANGED <<txn, tiff>> /\ db' \in DbType
<1> USE DEF Goto, Raise, Finish, KeepsAll, callVars, dbVars
<1>1. /\ pc \in [Threads -> Places] /\ pc = [u \in Threads |-> pc[u]]
      /\ op \in [Threads -> program.ops \union {None}] /\ todo \in [Threads -> SUBSET AnyWrite]
      /\ got \in [Threads -> Gots] /\ answer \in [Threads -> Outcomes] /\ calls \in 0 .. MaxCalls
      /\ handle \in [Processes -> Access \union {None}] /\ access \in [Threads -> Access]
      /\ err \in [Threads -> BOOLEAN] /\ Mine(t) \in Processes /\ db \in DbType
  BY MineIn DEF StoreInv, CallTypes, AllInv, PoolInv, PoolTypes, PoolTypeOK
<1>2. CASE TcOpen(t)
  <2>1. pc[t] \notin {"idle", "dead"}
    BY <1>2 DEF TcOpen
  <2>2. /\ op[t] \in program.ops /\ op[t] # None /\ todo[t] \subseteq AnyWrite
        /\ Reads(t) => Content(db, op[t].tile) \in Gots
        /\ \A w \in todo[t] : Change(db, w) \in DbType
    BY <2>1, InCall
  <2>3. CallTypes'
    BY <1>1, <1>2, <2>2 DEF TcOpen, CallTypes, Places, Gots, Outcomes, Reads, Sets, StoreInv, Routes
  <2>4. Proceeds(t)
    BY <1>1, <1>2, <2>2, <2>3 DEF TcOpen, Proceeds, Places, TcPlaces, TiffPlaces, PoolPlaces, Sql, Kind, StoreInv, Routes
  <2>5. Outside(t)
    BY <1>1, <1>2 DEF TcOpen, Outside, Holding
  <2>6. UNCHANGED <<txn, tiff>> /\ db' \in DbType
    BY <1>1, <1>2, <2>2 DEF TcOpen
  <2>7. QED
    BY <2>4, <2>5, <2>6
<1>3. CASE TcHas(t)
  <2>1. pc[t] \notin {"idle", "dead"}
    BY <1>3 DEF TcHas, TcStep, TcLook
  <2>2. /\ op[t] \in program.ops /\ op[t] # None /\ todo[t] \subseteq AnyWrite
        /\ Reads(t) => Content(db, op[t].tile) \in Gots
        /\ \A w \in todo[t] : Change(db, w) \in DbType
    BY <2>1, InCall
  <2>3. CallTypes'
    BY <1>1, <1>3, <2>2 DEF TcHas, TcStep, TcLook, CallTypes, Places, Gots, Outcomes, Reads, Sets, StoreInv, Routes
  <2>4. Proceeds(t)
    BY <1>1, <1>3, <2>2, <2>3 DEF TcHas, TcStep, TcLook, Proceeds, Places, TcPlaces, TiffPlaces, PoolPlaces, Sql, Kind, StoreInv, Routes
  <2>5. Outside(t)
    BY <1>1, <1>3 DEF TcHas, TcStep, TcLook, Outside, Holding
  <2>6. UNCHANGED <<txn, tiff>> /\ db' \in DbType
    BY <1>1, <1>3, <2>2 DEF TcHas, TcStep, TcLook
  <2>7. QED
    BY <2>4, <2>5, <2>6
<1>4. CASE TcGet(t)
  <2>1. pc[t] \notin {"idle", "dead"}
    BY <1>4 DEF TcGet, TcStep, TcLook
  <2>2. /\ op[t] \in program.ops /\ op[t] # None /\ todo[t] \subseteq AnyWrite
        /\ Reads(t) => Content(db, op[t].tile) \in Gots
        /\ \A w \in todo[t] : Change(db, w) \in DbType
    BY <2>1, InCall
  <2>3. CallTypes'
    BY <1>1, <1>4, <2>2 DEF TcGet, TcStep, TcLook, CallTypes, Places, Gots, Outcomes, Reads, Sets, StoreInv, Routes
  <2>4. Proceeds(t)
    BY <1>1, <1>4, <2>2, <2>3 DEF TcGet, TcStep, TcLook, Proceeds, Places, TcPlaces, TiffPlaces, PoolPlaces, Sql, Kind, StoreInv, Routes
  <2>5. Outside(t)
    BY <1>1, <1>4 DEF TcGet, TcStep, TcLook, Outside, Holding
  <2>6. UNCHANGED <<txn, tiff>> /\ db' \in DbType
    BY <1>1, <1>4, <2>2 DEF TcGet, TcStep, TcLook
  <2>7. QED
    BY <2>4, <2>5, <2>6
<1>5. CASE TcSet(t)
  <2>1. pc[t] \notin {"idle", "dead"}
    BY <1>5 DEF TcSet, TcStep
  <2>2. /\ op[t] \in program.ops /\ op[t] # None /\ todo[t] \subseteq AnyWrite
        /\ Reads(t) => Content(db, op[t].tile) \in Gots
        /\ \A w \in todo[t] : Change(db, w) \in DbType
    BY <2>1, InCall
  <2>3. CallTypes'
    BY <1>1, <1>5, <2>2 DEF TcSet, TcStep, CallTypes, Places, Gots, Outcomes, Reads, Sets, StoreInv, Routes
  <2>4. Proceeds(t)
    BY <1>1, <1>5, <2>2, <2>3 DEF TcSet, TcStep, Proceeds, Places, TcPlaces, TiffPlaces, PoolPlaces, Sql, Kind, StoreInv, Routes
  <2>5. Outside(t)
    BY <1>1, <1>5 DEF TcSet, TcStep, Outside, Holding
  <2>6. UNCHANGED <<txn, tiff>> /\ db' \in DbType
    BY <1>1, <1>5, <2>2 DEF TcSet, TcStep
  <2>7. QED
    BY <2>4, <2>5, <2>6
<1>6. CASE TcDelete(t)
  <2>1. pc[t] \notin {"idle", "dead"}
    BY <1>6 DEF TcDelete, TcStep
  <2>2. /\ op[t] \in program.ops /\ op[t] # None /\ todo[t] \subseteq AnyWrite
        /\ Reads(t) => Content(db, op[t].tile) \in Gots
        /\ \A w \in todo[t] : Change(db, w) \in DbType
    BY <2>1, InCall
  <2>3. CallTypes'
    BY <1>1, <1>6, <2>2 DEF TcDelete, TcStep, CallTypes, Places, Gots, Outcomes, Reads, Sets, StoreInv, Routes
  <2>4. Proceeds(t)
    BY <1>1, <1>6, <2>2, <2>3 DEF TcDelete, TcStep, Proceeds, Places, TcPlaces, TiffPlaces, PoolPlaces, Sql, Kind, StoreInv, Routes
  <2>5. Outside(t)
    BY <1>1, <1>6 DEF TcDelete, TcStep, Outside, Holding
  <2>6. UNCHANGED <<txn, tiff>> /\ db' \in DbType
    BY <1>1, <1>6, <2>2 DEF TcDelete, TcStep
  <2>7. QED
    BY <2>4, <2>5, <2>6
<1>7. CASE TcLeaks(t)
  <2>1. pc[t] \notin {"idle", "dead"}
    BY <1>7 DEF TcLeaks
  <2>2. /\ op[t] \in program.ops /\ op[t] # None /\ todo[t] \subseteq AnyWrite
        /\ Reads(t) => Content(db, op[t].tile) \in Gots
        /\ \A w \in todo[t] : Change(db, w) \in DbType
    BY <2>1, InCall
  <2>3. CallTypes'
    BY <1>1, <1>7, <2>2 DEF TcLeaks, CallTypes, Places, Gots, Outcomes, Reads, Sets, StoreInv, Routes
  <2>4. Proceeds(t)
    BY <1>1, <1>7, <2>2, <2>3 DEF TcLeaks, Proceeds, Places, TcPlaces, TiffPlaces, PoolPlaces, Sql, Kind, StoreInv, Routes
  <2>5. Outside(t)
    BY <1>1, <1>7 DEF TcLeaks, Outside, Holding
  <2>6. UNCHANGED <<txn, tiff>> /\ db' \in DbType
    BY <1>1, <1>7, <2>2 DEF TcLeaks
  <2>7. QED
    BY <2>4, <2>5, <2>6
<1>8. CASE TcClose(t)
  <2>1. pc[t] \notin {"idle", "dead"}
    BY <1>8 DEF TcClose
  <2>2. /\ op[t] \in program.ops /\ op[t] # None /\ todo[t] \subseteq AnyWrite
        /\ Reads(t) => Content(db, op[t].tile) \in Gots
        /\ \A w \in todo[t] : Change(db, w) \in DbType
    BY <2>1, InCall
  <2>3. CallTypes'
    BY <1>1, <1>8, <2>2 DEF TcClose, CallTypes, Places, Gots, Outcomes, Reads, Sets, StoreInv, Routes
  <2>4. Proceeds(t)
    BY <1>1, <1>8, <2>2, <2>3 DEF TcClose, Proceeds, Places, TcPlaces, TiffPlaces, PoolPlaces, Sql, Kind, StoreInv, Routes
  <2>5. Outside(t)
    BY <1>1, <1>8 DEF TcClose, Outside, Holding
  <2>6. UNCHANGED <<txn, tiff>> /\ db' \in DbType
    BY <1>1, <1>8, <2>2 DEF TcClose
  <2>7. QED
    BY <2>4, <2>5, <2>6
<1>9. QED
  BY <1>2, <1>3, <1>4, <1>5, <1>6, <1>7, <1>8

(* memcached and S3.                                                      *)
LEMMA RemoteProceeds ==
  ASSUME StoreInv, NEW t \in Threads,
         \/ RemoteOldError(t) \/ McHas(t) \/ McGet(t) \/ McSet(t)
         \/ McDelete(t) \/ S3Has(t) \/ S3Get(t) \/ S3Set(t) \/ S3Delete(t)
         \/ RemoteDone(t)
  PROVE  Proceeds(t) /\ Outside(t) /\ UNCHANGED <<txn, tiff>> /\ db' \in DbType
<1> USE DEF Goto, Raise, Finish, KeepsAll, callVars, dbVars
<1>1. /\ pc \in [Threads -> Places] /\ pc = [u \in Threads |-> pc[u]]
      /\ op \in [Threads -> program.ops \union {None}] /\ todo \in [Threads -> SUBSET AnyWrite]
      /\ got \in [Threads -> Gots] /\ answer \in [Threads -> Outcomes] /\ calls \in 0 .. MaxCalls
      /\ handle \in [Processes -> Access \union {None}] /\ access \in [Threads -> Access]
      /\ err \in [Threads -> BOOLEAN] /\ Mine(t) \in Processes /\ db \in DbType
  BY MineIn DEF StoreInv, CallTypes, AllInv, PoolInv, PoolTypes, PoolTypeOK
<1>2. CASE RemoteOldError(t)
  <2>1. pc[t] \notin {"idle", "dead"}
    BY <1>2 DEF RemoteOldError
  <2>2. /\ op[t] \in program.ops /\ op[t] # None /\ todo[t] \subseteq AnyWrite
        /\ Reads(t) => Content(db, op[t].tile) \in Gots
        /\ \A w \in todo[t] : Change(db, w) \in DbType
    BY <2>1, InCall
  <2>3. CallTypes'
    BY <1>1, <1>2, <2>2 DEF RemoteOldError, CallTypes, Places, Gots, Outcomes, Reads, Sets
  <2>4. Proceeds(t)
    BY <1>1, <1>2, <2>2, <2>3 DEF RemoteOldError, Proceeds, Places, TcPlaces, TiffPlaces, PoolPlaces, Sql, Kind
  <2>5. Outside(t)
    BY <1>1, <1>2 DEF RemoteOldError, Outside, Holding
  <2>6. UNCHANGED <<txn, tiff>> /\ db' \in DbType
    BY <1>1, <1>2, <2>2 DEF RemoteOldError
  <2>7. QED
    BY <2>4, <2>5, <2>6
<1>3. CASE McHas(t)
  <2>1. pc[t] \notin {"idle", "dead"}
    BY <1>3 DEF McHas, Remote, Replies
  <2>2. /\ op[t] \in program.ops /\ op[t] # None /\ todo[t] \subseteq AnyWrite
        /\ Reads(t) => Content(db, op[t].tile) \in Gots
        /\ \A w \in todo[t] : Change(db, w) \in DbType
    BY <2>1, InCall
  <2>3. CallTypes'
    BY <1>1, <1>3, <2>2 DEF McHas, Remote, Replies, CallTypes, Places, Gots, Outcomes, Reads, Sets
  <2>4. Proceeds(t)
    BY <1>1, <1>3, <2>2, <2>3 DEF McHas, Remote, Replies, Proceeds, Places, TcPlaces, TiffPlaces, PoolPlaces, Sql, Kind
  <2>5. Outside(t)
    BY <1>1, <1>3 DEF McHas, Remote, Replies, Outside, Holding
  <2>6. UNCHANGED <<txn, tiff>> /\ db' \in DbType
    BY <1>1, <1>3, <2>2 DEF McHas, Remote, Replies
  <2>7. QED
    BY <2>4, <2>5, <2>6
<1>4. CASE McGet(t)
  <2>1. pc[t] \notin {"idle", "dead"}
    BY <1>4 DEF McGet, Remote, Replies, RequestFails
  <2>2. /\ op[t] \in program.ops /\ op[t] # None /\ todo[t] \subseteq AnyWrite
        /\ Reads(t) => Content(db, op[t].tile) \in Gots
        /\ \A w \in todo[t] : Change(db, w) \in DbType
    BY <2>1, InCall
  <2>3. CallTypes'
    BY <1>1, <1>4, <2>2 DEF McGet, Remote, Replies, RequestFails, CallTypes, Places, Gots, Outcomes, Reads, Sets
  <2>4. Proceeds(t)
    BY <1>1, <1>4, <2>2, <2>3 DEF McGet, Remote, Replies, RequestFails, Proceeds, Places, TcPlaces, TiffPlaces, PoolPlaces, Sql, Kind
  <2>5. Outside(t)
    BY <1>1, <1>4 DEF McGet, Remote, Replies, RequestFails, Outside, Holding
  <2>6. UNCHANGED <<txn, tiff>> /\ db' \in DbType
    BY <1>1, <1>4, <2>2 DEF McGet, Remote, Replies, RequestFails
  <2>7. QED
    BY <2>4, <2>5, <2>6
<1>5. CASE McSet(t)
  <2>1. pc[t] \notin {"idle", "dead"}
    BY <1>5 DEF McSet, Remote, Stored, RequestFails
  <2>2. /\ op[t] \in program.ops /\ op[t] # None /\ todo[t] \subseteq AnyWrite
        /\ Reads(t) => Content(db, op[t].tile) \in Gots
        /\ \A w \in todo[t] : Change(db, w) \in DbType
    BY <2>1, InCall
  <2>3. CallTypes'
    BY <1>1, <1>5, <2>2 DEF McSet, Remote, Stored, RequestFails, CallTypes, Places, Gots, Outcomes, Reads, Sets
  <2>4. Proceeds(t)
    BY <1>1, <1>5, <2>2, <2>3 DEF McSet, Remote, Stored, RequestFails, Proceeds, Places, TcPlaces, TiffPlaces, PoolPlaces, Sql, Kind
  <2>5. Outside(t)
    BY <1>1, <1>5 DEF McSet, Remote, Stored, RequestFails, Outside, Holding
  <2>6. UNCHANGED <<txn, tiff>> /\ db' \in DbType
    BY <1>1, <1>5, <2>2 DEF McSet, Remote, Stored, RequestFails
  <2>7. QED
    BY <2>4, <2>5, <2>6
<1>6. CASE McDelete(t)
  <2>1. pc[t] \notin {"idle", "dead"}
    BY <1>6 DEF McDelete, Remote, Stored, RequestFails
  <2>2. /\ op[t] \in program.ops /\ op[t] # None /\ todo[t] \subseteq AnyWrite
        /\ Reads(t) => Content(db, op[t].tile) \in Gots
        /\ \A w \in todo[t] : Change(db, w) \in DbType
    BY <2>1, InCall
  <2>3. CallTypes'
    BY <1>1, <1>6, <2>2 DEF McDelete, Remote, Stored, RequestFails, CallTypes, Places, Gots, Outcomes, Reads, Sets
  <2>4. Proceeds(t)
    BY <1>1, <1>6, <2>2, <2>3 DEF McDelete, Remote, Stored, RequestFails, Proceeds, Places, TcPlaces, TiffPlaces, PoolPlaces, Sql, Kind
  <2>5. Outside(t)
    BY <1>1, <1>6 DEF McDelete, Remote, Stored, RequestFails, Outside, Holding
  <2>6. UNCHANGED <<txn, tiff>> /\ db' \in DbType
    BY <1>1, <1>6, <2>2 DEF McDelete, Remote, Stored, RequestFails
  <2>7. QED
    BY <2>4, <2>5, <2>6
<1>7. CASE S3Has(t)
  <2>1. pc[t] \notin {"idle", "dead"}
    BY <1>7 DEF S3Has, Remote, Replies
  <2>2. /\ op[t] \in program.ops /\ op[t] # None /\ todo[t] \subseteq AnyWrite
        /\ Reads(t) => Content(db, op[t].tile) \in Gots
        /\ \A w \in todo[t] : Change(db, w) \in DbType
    BY <2>1, InCall
  <2>3. CallTypes'
    BY <1>1, <1>7, <2>2 DEF S3Has, Remote, Replies, CallTypes, Places, Gots, Outcomes, Reads, Sets
  <2>4. Proceeds(t)
    BY <1>1, <1>7, <2>2, <2>3 DEF S3Has, Remote, Replies, Proceeds, Places, TcPlaces, TiffPlaces, PoolPlaces, Sql, Kind
  <2>5. Outside(t)
    BY <1>1, <1>7 DEF S3Has, Remote, Replies, Outside, Holding
  <2>6. UNCHANGED <<txn, tiff>> /\ db' \in DbType
    BY <1>1, <1>7, <2>2 DEF S3Has, Remote, Replies
  <2>7. QED
    BY <2>4, <2>5, <2>6
<1>8. CASE S3Get(t)
  <2>1. pc[t] \notin {"idle", "dead"}
    BY <1>8 DEF S3Get, Remote, Replies
  <2>2. /\ op[t] \in program.ops /\ op[t] # None /\ todo[t] \subseteq AnyWrite
        /\ Reads(t) => Content(db, op[t].tile) \in Gots
        /\ \A w \in todo[t] : Change(db, w) \in DbType
    BY <2>1, InCall
  <2>3. CallTypes'
    BY <1>1, <1>8, <2>2 DEF S3Get, Remote, Replies, CallTypes, Places, Gots, Outcomes, Reads, Sets
  <2>4. Proceeds(t)
    BY <1>1, <1>8, <2>2, <2>3 DEF S3Get, Remote, Replies, Proceeds, Places, TcPlaces, TiffPlaces, PoolPlaces, Sql, Kind
  <2>5. Outside(t)
    BY <1>1, <1>8 DEF S3Get, Remote, Replies, Outside, Holding
  <2>6. UNCHANGED <<txn, tiff>> /\ db' \in DbType
    BY <1>1, <1>8, <2>2 DEF S3Get, Remote, Replies
  <2>7. QED
    BY <2>4, <2>5, <2>6
<1>9. CASE S3Set(t)
  <2>1. pc[t] \notin {"idle", "dead"}
    BY <1>9 DEF S3Set, Remote, Stored, NotStored, RequestFails
  <2>2. /\ op[t] \in program.ops /\ op[t] # None /\ todo[t] \subseteq AnyWrite
        /\ Reads(t) => Content(db, op[t].tile) \in Gots
        /\ \A w \in todo[t] : Change(db, w) \in DbType
    BY <2>1, InCall
  <2>3. CallTypes'
    BY <1>1, <1>9, <2>2 DEF S3Set, Remote, Stored, NotStored, RequestFails, CallTypes, Places, Gots, Outcomes, Reads, Sets
  <2>4. Proceeds(t)
    BY <1>1, <1>9, <2>2, <2>3 DEF S3Set, Remote, Stored, NotStored, RequestFails, Proceeds, Places, TcPlaces, TiffPlaces, PoolPlaces, Sql, Kind
  <2>5. Outside(t)
    BY <1>1, <1>9 DEF S3Set, Remote, Stored, NotStored, RequestFails, Outside, Holding
  <2>6. UNCHANGED <<txn, tiff>> /\ db' \in DbType
    BY <1>1, <1>9, <2>2 DEF S3Set, Remote, Stored, NotStored, RequestFails
  <2>7. QED
    BY <2>4, <2>5, <2>6
<1>10. CASE S3Delete(t)
  <2>1. pc[t] \notin {"idle", "dead"}
    BY <1>10 DEF S3Delete, Remote, Stored, NotStored
  <2>2. /\ op[t] \in program.ops /\ op[t] # None /\ todo[t] \subseteq AnyWrite
        /\ Reads(t) => Content(db, op[t].tile) \in Gots
        /\ \A w \in todo[t] : Change(db, w) \in DbType
    BY <2>1, InCall
  <2>3. CallTypes'
    BY <1>1, <1>10, <2>2 DEF S3Delete, Remote, Stored, NotStored, CallTypes, Places, Gots, Outcomes, Reads, Sets
  <2>4. Proceeds(t)
    BY <1>1, <1>10, <2>2, <2>3 DEF S3Delete, Remote, Stored, NotStored, Proceeds, Places, TcPlaces, TiffPlaces, PoolPlaces, Sql, Kind
  <2>5. Outside(t)
    BY <1>1, <1>10 DEF S3Delete, Remote, Stored, NotStored, Outside, Holding
  <2>6. UNCHANGED <<txn, tiff>> /\ db' \in DbType
    BY <1>1, <1>10, <2>2 DEF S3Delete, Remote, Stored, NotStored
  <2>7. QED
    BY <2>4, <2>5, <2>6
<1>11. CASE RemoteDone(t)
  <2>1. pc[t] \notin {"idle", "dead"}
    BY <1>11 DEF RemoteDone
  <2>2. /\ op[t] \in program.ops /\ op[t] # None /\ todo[t] \subseteq AnyWrite
        /\ Reads(t) => Content(db, op[t].tile) \in Gots
        /\ \A w \in todo[t] : Change(db, w) \in DbType
    BY <2>1, InCall
  <2>3. CallTypes'
    BY <1>1, <1>11, <2>2 DEF RemoteDone, CallTypes, Places, Gots, Outcomes, Reads, Sets
  <2>4. Proceeds(t)
    BY <1>1, <1>11, <2>2, <2>3 DEF RemoteDone, Proceeds, Places, TcPlaces, TiffPlaces, PoolPlaces, Sql, Kind
  <2>5. Outside(t)
    BY <1>1, <1>11 DEF RemoteDone, Outside, Holding
  <2>6. UNCHANGED <<txn, tiff>> /\ db' \in DbType
    BY <1>1, <1>11, <2>2 DEF RemoteDone
  <2>7. QED
    BY <2>4, <2>5, <2>6
<1>12. QED
  BY <1>2, <1>3, <1>4, <1>5, <1>6, <1>7, <1>8, <1>9, <1>10, <1>11

(* The TIFF cache.                                                         *)
LEMMA TiffProceeds ==
  ASSUME StoreInv, NEW t \in Threads,
         \/ TiffHas(t) \/ TiffGet(t) \/ TiffRead(t) \/ TiffRefuse(t)
         \/ TiffPrepare(t) \/ TiffLock(t) \/ TiffOpen(t)
  PROVE  Proceeds(t) /\ Outside(t) /\ UNCHANGED <<txn, db, handle>>
<1> USE DEF Goto, Raise, Finish, KeepsAll, callVars, dbVars
<1>1. /\ pc \in [Threads -> Places] /\ pc = [u \in Threads |-> pc[u]]
      /\ op \in [Threads -> program.ops \union {None}] /\ todo \in [Threads -> SUBSET AnyWrite]
      /\ got \in [Threads -> Gots] /\ answer \in [Threads -> Outcomes] /\ calls \in 0 .. MaxCalls
      /\ handle \in [Processes -> Access \union {None}] /\ access \in [Threads -> Access]
      /\ err \in [Threads -> BOOLEAN] /\ Mine(t) \in Processes /\ db \in DbType
  BY MineIn DEF StoreInv, CallTypes, AllInv, PoolInv, PoolTypes, PoolTypeOK
<1>2. CASE TiffHas(t)
  <2>1. pc[t] \notin {"idle", "dead"}
    BY <1>2 DEF TiffHas, TiffStep, TiffLook
  <2>2. /\ op[t] \in program.ops /\ op[t] # None /\ todo[t] \subseteq AnyWrite
        /\ Reads(t) => Content(db, op[t].tile) \in Gots
        /\ \A w \in todo[t] : Change(db, w) \in DbType
    BY <2>1, InCall
  <2>3. CallTypes'
    BY <1>1, <1>2, <2>2 DEF TiffHas, TiffStep, TiffLook, CallTypes, Places, Gots, Outcomes, Reads, Sets, StoreInv, Routes, TiffSound
  <2>4. Proceeds(t)
    BY <1>1, <1>2, <2>2, <2>3 DEF TiffHas, TiffStep, TiffLook, Proceeds, Places, TcPlaces, TiffPlaces, PoolPlaces, Sql, Kind, StoreInv, Routes, TiffSound
  <2>5. Outside(t)
    BY <1>1, <1>2 DEF TiffHas, TiffStep, TiffLook, Outside, Holding
  <2>6. UNCHANGED <<txn, db, handle>> /\ db' \in DbType
    BY <1>1, <1>2, <2>2 DEF TiffHas, TiffStep, TiffLook
  <2>7. QED
    BY <2>4, <2>5, <2>6
<1>3. CASE TiffGet(t)
  <2>1. pc[t] \notin {"idle", "dead"}
    BY <1>3 DEF TiffGet, TiffStep, TiffLook
  <2>2. /\ op[t] \in program.ops /\ op[t] # None /\ todo[t] \subseteq AnyWrite
        /\ Reads(t) => Content(db, op[t].tile) \in Gots
        /\ \A w \in todo[t] : Change(db, w) \in DbType
    BY <2>1, InCall
  <2>3. CallTypes'
    BY <1>1, <1>3, <2>2 DEF TiffGet, TiffStep, TiffLook, CallTypes, Places, Gots, Outcomes, Reads, Sets, StoreInv, Routes, TiffSound
  <2>4. Proceeds(t)
    BY <1>1, <1>3, <2>2, <2>3 DEF TiffGet, TiffStep, TiffLook, Proceeds, Places, TcPlaces, TiffPlaces, PoolPlaces, Sql, Kind, StoreInv, Routes, TiffSound
  <2>5. Outside(t)
    BY <1>1, <1>3 DEF TiffGet, TiffStep, TiffLook, Outside, Holding
  <2>6. UNCHANGED <<txn, db, handle>> /\ db' \in DbType
    BY <1>1, <1>3, <2>2 DEF TiffGet, TiffStep, TiffLook
  <2>7. QED
    BY <2>4, <2>5, <2>6
<1>4. CASE TiffRead(t)
  <2>1. pc[t] \notin {"idle", "dead"}
    BY <1>4 DEF TiffRead, TiffStep
  <2>2. /\ op[t] \in program.ops /\ op[t] # None /\ todo[t] \subseteq AnyWrite
        /\ Reads(t) => Content(db, op[t].tile) \in Gots
        /\ \A w \in todo[t] : Change(db, w) \in DbType
    BY <2>1, InCall
  <2>3. CallTypes'
    BY <1>1, <1>4, <2>2 DEF TiffRead, TiffStep, CallTypes, Places, Gots, Outcomes, Reads, Sets, StoreInv, Routes, TiffSound
  <2>4. Proceeds(t)
    BY <1>1, <1>4, <2>2, <2>3 DEF TiffRead, TiffStep, Proceeds, Places, TcPlaces, TiffPlaces, PoolPlaces, Sql, Kind, StoreInv, Routes, TiffSound
  <2>5. Outside(t)
    BY <1>1, <1>4 DEF TiffRead, TiffStep, Outside, Holding
  <2>6. UNCHANGED <<txn, db, handle>> /\ db' \in DbType
    BY <1>1, <1>4, <2>2 DEF TiffRead, TiffStep
  <2>7. QED
    BY <2>4, <2>5, <2>6
<1>5. CASE TiffRefuse(t)
  <2>1. pc[t] \notin {"idle", "dead"}
    BY <1>5 DEF TiffRefuse
  <2>2. /\ op[t] \in program.ops /\ op[t] # None /\ todo[t] \subseteq AnyWrite
        /\ Reads(t) => Content(db, op[t].tile) \in Gots
        /\ \A w \in todo[t] : Change(db, w) \in DbType
    BY <2>1, InCall
  <2>3. CallTypes'
    BY <1>1, <1>5, <2>2 DEF TiffRefuse, CallTypes, Places, Gots, Outcomes, Reads, Sets, StoreInv, Routes, TiffSound
  <2>4. Proceeds(t)
    BY <1>1, <1>5, <2>2, <2>3 DEF TiffRefuse, Proceeds, Places, TcPlaces, TiffPlaces, PoolPlaces, Sql, Kind, StoreInv, Routes, TiffSound
  <2>5. Outside(t)
    BY <1>1, <1>5 DEF TiffRefuse, Outside, Holding
  <2>6. UNCHANGED <<txn, db, handle>> /\ db' \in DbType
    BY <1>1, <1>5, <2>2 DEF TiffRefuse
  <2>7. QED
    BY <2>4, <2>5, <2>6
<1>6. CASE TiffPrepare(t)
  <2>1. pc[t] \notin {"idle", "dead"}
    BY <1>6 DEF TiffPrepare, TiffStep
  <2>2. /\ op[t] \in program.ops /\ op[t] # None /\ todo[t] \subseteq AnyWrite
        /\ Reads(t) => Content(db, op[t].tile) \in Gots
        /\ \A w \in todo[t] : Change(db, w) \in DbType
    BY <2>1, InCall
  <2>3. CallTypes'
    BY <1>1, <1>6, <2>2 DEF TiffPrepare, TiffStep, CallTypes, Places, Gots, Outcomes, Reads, Sets, StoreInv, Routes, TiffSound
  <2>4. Proceeds(t)
    BY <1>1, <1>6, <2>2, <2>3 DEF TiffPrepare, TiffStep, Proceeds, Places, TcPlaces, TiffPlaces, PoolPlaces, Sql, Kind, StoreInv, Routes, TiffSound
  <2>5. Outside(t)
    BY <1>1, <1>6 DEF TiffPrepare, TiffStep, Outside, Holding
  <2>6. UNCHANGED <<txn, db, handle>> /\ db' \in DbType
    BY <1>1, <1>6, <2>2 DEF TiffPrepare, TiffStep
  <2>7. QED
    BY <2>4, <2>5, <2>6
<1>7. CASE TiffLock(t)
  <2>1. pc[t] \notin {"idle", "dead"}
    BY <1>7 DEF TiffLock, TiffStep
  <2>2. /\ op[t] \in program.ops /\ op[t] # None /\ todo[t] \subseteq AnyWrite
        /\ Reads(t) => Content(db, op[t].tile) \in Gots
        /\ \A w \in todo[t] : Change(db, w) \in DbType
    BY <2>1, InCall
  <2>3. CallTypes'
    BY <1>1, <1>7, <2>2 DEF TiffLock, TiffStep, CallTypes, Places, Gots, Outcomes, Reads, Sets, StoreInv, Routes, TiffSound
  <2>4. Proceeds(t)
    BY <1>1, <1>7, <2>2, <2>3 DEF TiffLock, TiffStep, Proceeds, Places, TcPlaces, TiffPlaces, PoolPlaces, Sql, Kind, StoreInv, Routes, TiffSound
  <2>5. Outside(t)
    BY <1>1, <1>7 DEF TiffLock, TiffStep, Outside, Holding
  <2>6. UNCHANGED <<txn, db, handle>> /\ db' \in DbType
    BY <1>1, <1>7, <2>2 DEF TiffLock, TiffStep
  <2>7. QED
    BY <2>4, <2>5, <2>6
<1>8. CASE TiffOpen(t)
  <2>1. pc[t] \notin {"idle", "dead"}
    BY <1>8 DEF TiffOpen, TiffStep
  <2>2. /\ op[t] \in program.ops /\ op[t] # None /\ todo[t] \subseteq AnyWrite
        /\ Reads(t) => Content(db, op[t].tile) \in Gots
        /\ \A w \in todo[t] : Change(db, w) \in DbType
    BY <2>1, InCall
  <2>3. CallTypes'
    BY <1>1, <1>8, <2>2 DEF TiffOpen, TiffStep, CallTypes, Places, Gots, Outcomes, Reads, Sets, StoreInv, Routes, TiffSound
  <2>4. Proceeds(t)
    BY <1>1, <1>8, <2>2, <2>3 DEF TiffOpen, TiffStep, Proceeds, Places, TcPlaces, TiffPlaces, PoolPlaces, Sql, Kind, StoreInv, Routes, TiffSound
  <2>5. Outside(t)
    BY <1>1, <1>8 DEF TiffOpen, TiffStep, Outside, Holding
  <2>6. UNCHANGED <<txn, db, handle>> /\ db' \in DbType
    BY <1>1, <1>8, <2>2 DEF TiffOpen, TiffStep
  <2>7. QED
    BY <2>4, <2>5, <2>6
<1>9. QED
  BY <1>2, <1>3, <1>4, <1>5, <1>6, <1>7, <1>8

(* Calls that do not come as far as a connection.                          *)
LEMMA TurnedAway ==
  ASSUME StoreInv, NEW t \in Threads,
         EncodeFirst(t) \/ Refused(t)
  PROVE  Proceeds(t) /\ Outside(t) /\ UNCHANGED <<txn, tiff, db, handle>>
<1> USE DEF Goto, Raise, Finish, KeepsAll, callVars, dbVars
<1>1. /\ pc \in [Threads -> Places] /\ pc = [u \in Threads |-> pc[u]]
      /\ op \in [Threads -> program.ops \union {None}] /\ todo \in [Threads -> SUBSET AnyWrite]
      /\ got \in [Threads -> Gots] /\ answer \in [Threads -> Outcomes] /\ calls \in 0 .. MaxCalls
      /\ handle \in [Processes -> Access \union {None}] /\ access \in [Threads -> Access]
      /\ err \in [Threads -> BOOLEAN] /\ Mine(t) \in Processes /\ db \in DbType
  BY MineIn DEF StoreInv, CallTypes, AllInv, PoolInv, PoolTypes, PoolTypeOK
<1>2. CASE EncodeFirst(t)
  <2>1. pc[t] \notin {"idle", "dead"}
    BY <1>2 DEF EncodeFirst
  <2>2. /\ op[t] \in program.ops /\ op[t] # None /\ todo[t] \subseteq AnyWrite
        /\ Reads(t) => Content(db, op[t].tile) \in Gots
        /\ \A w \in todo[t] : Change(db, w) \in DbType
    BY <2>1, InCall
  <2>3. CallTypes'
    BY <1>1, <1>2, <2>2 DEF EncodeFirst, CallTypes, Places, Gots, Outcomes, Reads, Sets
  <2>4. Proceeds(t)
    BY <1>1, <1>2, <2>2, <2>3 DEF EncodeFirst, Proceeds, Places, TcPlaces, TiffPlaces, PoolPlaces, Sql, Kind
  <2>5. Outside(t)
    BY <1>1, <1>2 DEF EncodeFirst, Outside, Holding
  <2>6. UNCHANGED <<txn, tiff, db, handle>> /\ db' \in DbType
    BY <1>1, <1>2, <2>2 DEF EncodeFirst
  <2>7. QED
    BY <2>4, <2>5, <2>6
<1>3. CASE Refused(t)
  <2>1. pc[t] \notin {"idle", "dead"}
    BY <1>3 DEF Refused
  <2>2. /\ op[t] \in program.ops /\ op[t] # None /\ todo[t] \subseteq AnyWrite
        /\ Reads(t) => Content(db, op[t].tile) \in Gots
        /\ \A w \in todo[t] : Change(db, w) \in DbType
    BY <2>1, InCall
  <2>3. CallTypes'
    BY <1>1, <1>3, <2>2 DEF Refused, CallTypes, Places, Gots, Outcomes, Reads, Sets
  <2>4. Proceeds(t)
    BY <1>1, <1>3, <2>2, <2>3 DEF Refused, Proceeds, Places, TcPlaces, TiffPlaces, PoolPlaces, Sql, Kind
  <2>5. Outside(t)
    BY <1>1, <1>3 DEF Refused, Outside, Holding
  <2>6. UNCHANGED <<txn, tiff, db, handle>> /\ db' \in DbType
    BY <1>1, <1>3, <2>2 DEF Refused
  <2>7. QED
    BY <2>4, <2>5, <2>6
<1>4. QED
  BY <1>2, <1>3

(* On the way to a connection, and with one that is given back or lost.    *)
LEMMA PoolProceeds ==
  ASSUME StoreInv, NEW t \in Threads,
         GetConn(t) \/ Release(t) \/ BdbLeaks(t) \/ SqlLeaks(t)
  PROVE  Proceeds(t) /\ UNCHANGED <<tiff, db, handle>>
<1> USE DEF Goto, Raise, Finish, KeepsAll, callVars, dbVars
<1>1. /\ pc \in [Threads -> Places] /\ pc = [u \in Threads |-> pc[u]]
      /\ op \in [Threads -> program.ops \union {None}] /\ todo \in [Threads -> SUBSET AnyWrite]
      /\ got \in [Threads -> Gots] /\ answer \in [Threads -> Outcomes] /\ calls \in 0 .. MaxCalls
      /\ handle \in [Processes -> Access \union {None}] /\ access \in [Threads -> Access]
      /\ err \in [Threads -> BOOLEAN] /\ Mine(t) \in Processes /\ db \in DbType
  BY MineIn DEF StoreInv, CallTypes, AllInv, PoolInv, PoolTypes, PoolTypeOK
<1>2. CASE GetConn(t)
  <2>1. pc[t] \notin {"idle", "dead"}
    BY <1>2 DEF GetConn, PoolStep, LookUp, Lock, MakeReaders, MakeWriter, Found, TakeIdle, OpenConn, OpenFails, Leave
  <2>2. /\ op[t] \in program.ops /\ op[t] # None /\ todo[t] \subseteq AnyWrite
        /\ Reads(t) => Content(db, op[t].tile) \in Gots
        /\ \A w \in todo[t] : Change(db, w) \in DbType
    BY <2>1, InCall
  <2>3. CallTypes'
    BY <1>1, <1>2, <2>2 DEF GetConn, PoolStep, LookUp, Lock, MakeReaders, MakeWriter, Found, TakeIdle, OpenConn, OpenFails, Leave, CallTypes, Places, Gots, Outcomes, Reads, Sets
  <2>4. Proceeds(t)
    BY <1>1, <1>2, <2>2, <2>3 DEF GetConn, PoolStep, LookUp, Lock, MakeReaders, MakeWriter, Found, TakeIdle, OpenConn, OpenFails, Leave, Proceeds, Places, TcPlaces, TiffPlaces, PoolPlaces, Sql, Kind
  <2>5. UNCHANGED <<tiff, db, handle>> /\ db' \in DbType
    BY <1>1, <1>2, <2>2 DEF GetConn, PoolStep, LookUp, Lock, MakeReaders, MakeWriter, Found, TakeIdle, OpenConn, OpenFails, Leave
  <2>6. QED
    BY <2>4, <2>5
<1>3. CASE Release(t)
  <2>1. pc[t] \notin {"idle", "dead"}
    BY <1>3 DEF Release, GiveBack
  <2>2. /\ op[t] \in program.ops /\ op[t] # None /\ todo[t] \subseteq AnyWrite
        /\ Reads(t) => Content(db, op[t].tile) \in Gots
        /\ \A w \in todo[t] : Change(db, w) \in DbType
    BY <2>1, InCall
  <2>3. CallTypes'
    BY <1>1, <1>3, <2>2 DEF Release, GiveBack, CallTypes, Places, Gots, Outcomes, Reads, Sets
  <2>4. Proceeds(t)
    BY <1>1, <1>3, <2>2, <2>3 DEF Release, GiveBack, Proceeds, Places, TcPlaces, TiffPlaces, PoolPlaces, Sql, Kind
  <2>5. UNCHANGED <<tiff, db, handle>> /\ db' \in DbType
    BY <1>1, <1>3, <2>2 DEF Release, GiveBack
  <2>6. QED
    BY <2>4, <2>5
<1>4. CASE BdbLeaks(t)
  <2>1. pc[t] \notin {"idle", "dead"}
    BY <1>4 DEF BdbLeaks, BdbStep, Leak
  <2>2. /\ op[t] \in program.ops /\ op[t] # None /\ todo[t] \subseteq AnyWrite
        /\ Reads(t) => Content(db, op[t].tile) \in Gots
        /\ \A w \in todo[t] : Change(db, w) \in DbType
    BY <2>1, InCall
  <2>3. CallTypes'
    BY <1>1, <1>4, <2>2 DEF BdbLeaks, BdbStep, Leak, CallTypes, Places, Gots, Outcomes, Reads, Sets
  <2>4. Proceeds(t)
    BY <1>1, <1>4, <2>2, <2>3 DEF BdbLeaks, BdbStep, Leak, Proceeds, Places, TcPlaces, TiffPlaces, PoolPlaces, Sql, Kind
  <2>5. UNCHANGED <<tiff, db, handle>> /\ db' \in DbType
    BY <1>1, <1>4, <2>2 DEF BdbLeaks, BdbStep, Leak
  <2>6. QED
    BY <2>4, <2>5
<1>5. CASE SqlLeaks(t)
  <2>1. pc[t] \notin {"idle", "dead"}
    BY <1>5 DEF SqlLeaks, Leak
  <2>2. /\ op[t] \in program.ops /\ op[t] # None /\ todo[t] \subseteq AnyWrite
        /\ Reads(t) => Content(db, op[t].tile) \in Gots
        /\ \A w \in todo[t] : Change(db, w) \in DbType
    BY <2>1, InCall
  <2>3. CallTypes'
    BY <1>1, <1>5, <2>2 DEF SqlLeaks, Leak, CallTypes, Places, Gots, Outcomes, Reads, Sets
  <2>4. Proceeds(t)
    BY <1>1, <1>5, <2>2, <2>3 DEF SqlLeaks, Leak, Proceeds, Places, TcPlaces, TiffPlaces, PoolPlaces, Sql, Kind
  <2>5. UNCHANGED <<tiff, db, handle>> /\ db' \in DbType
    BY <1>1, <1>5, <2>2 DEF SqlLeaks, Leak
  <2>6. QED
    BY <2>4, <2>5
<1>6. QED
  BY <1>2, <1>3, <1>4, <1>5

LEMMA TiffCloses ==
  ASSUME StoreInv, NEW t \in Threads, TiffClose(t)
  PROVE  Proceeds(t) /\ Outside(t) /\ UNCHANGED <<txn, handle>> /\ db' \in DbType /\ TiffSound'
<1> USE DEF TiffClose, TiffStep, KeepsAll, Goto, Raise
<1>1. /\ pc \in [Threads -> Places] /\ pc = [u \in Threads |-> pc[u]]
      /\ op \in [Threads -> program.ops \union {None}] /\ todo \in [Threads -> SUBSET AnyWrite]
      /\ got \in [Threads -> Gots] /\ answer \in [Threads -> Outcomes] /\ calls \in 0 .. MaxCalls
      /\ handle \in [Processes -> Access \union {None}] /\ access \in [Threads -> Access]
      /\ err \in [Threads -> BOOLEAN] /\ db \in DbType
  BY DEF StoreInv, CallTypes, AllInv, PoolInv, PoolTypes, PoolTypeOK
<1>2. op[t] # None /\ pc[t] = "tiffclose" /\ Kind = "tiff" /\ tiff.lock = t
  BY DEF StoreInv, Working, Routes, TiffPlaces, TiffSound
<1>3. ~err[t] => tiff.work \in AnyWrite /\ Change(db, tiff.work) \in DbType
  BY <1>1, ChangeType DEF StoreInv, TiffSound
<1>4. CallTypes'
  BY <1>1 DEF CallTypes, Places
<1>5. Proceeds(t)
  BY <1>1, <1>2, <1>4 DEF Proceeds, Places, TcPlaces, TiffPlaces, PoolPlaces, Kind
<1>6. Outside(t)
  BY <1>1 DEF Outside, Holding
<1>7. UNCHANGED <<txn, handle>> /\ db' \in DbType
  BY <1>1, <1>3
<1>8. TiffSound'
  <2>1. /\ tiff' = [file |-> tiff'.file, lock |-> tiff'.lock, work |-> tiff'.work]
        /\ tiff'.lock = None /\ tiff'.work = None
    BY DEF StoreInv, TiffSound
  <2>2. \A u \in Threads : pc'[u] \notin {"tiffopen", "tiffclose"}
    BY <1>1, <1>2 DEF StoreInv, TiffSound
  <2>3. QED
    BY <2>1, <2>2 DEF TiffSound
<1>9. QED
  BY <1>5, <1>6, <1>7, <1>8

(* The other steps keep what is said of the TIFF file.                     *)
LEMMA TiffStays ==
  ASSUME StoreInv, NEW t \in Threads, Proceeds(t), UNCHANGED tiff \/ TiffLock(t) \/ TiffOpen(t)
  PROVE  TiffSound'
<1>1. /\ tiff = [file |-> tiff.file, lock |-> tiff.lock, work |-> tiff.work]
      /\ tiff.lock = None => tiff.work = None
      /\ \A u \in Threads : /\ pc[u] \in {"tiffopen", "tiffclose"} => tiff.lock = u
                            /\ pc[u] = "tiffclose" /\ ~err[u] => tiff.work \in AnyWrite
      /\ t # None
  BY NoneAssumption DEF StoreInv, TiffSound
<1>2. /\ pc'[t] \in {"tiffopen", "tiffclose"} => tiff'.lock = t
      /\ pc'[t] = "tiffclose" /\ ~err'[t] => tiff'.work \in AnyWrite
      /\ \A u \in Threads \ {t} : pc'[u] = pc[u] /\ err'[u] = err[u]
  BY DEF Proceeds
<1>3. CASE UNCHANGED tiff
  BY <1>1, <1>2, <1>3 DEF TiffSound
<1>4. CASE TiffLock(t)
  <2>1. tiff.lock = None /\ tiff' = [tiff EXCEPT !.lock = t]
    BY <1>4 DEF TiffLock
  <2>2. \A u \in Threads : pc[u] \notin {"tiffopen", "tiffclose"}
    BY <2>1, <1>1, NoneAssumption
  <2>3. QED
    BY <2>1, <2>2, <1>1, <1>2 DEF TiffSound
<1>5. CASE TiffOpen(t)
  <2>1. tiff.lock = t /\ tiff'.lock = t
        /\ tiff' = [file |-> tiff'.file, lock |-> tiff'.lock, work |-> tiff'.work]
    BY <1>1, <1>5 DEF TiffOpen, TiffStep
  <2>2. \A u \in Threads \ {t} : pc[u] \notin {"tiffopen", "tiffclose"}
    BY <2>1, <1>1
  <2>3. QED
    BY <2>1, <2>2, <1>1, <1>2 DEF TiffSound
<1>6. QED
  BY <1>3, <1>4, <1>5

LEMMA ProceedsKeeps ==
  ASSUME StoreInv, NEW t \in Threads, Proceeds(t)
  PROVE  Working' /\ Routes' /\ OldErrors'
<1> USE DEF Proceeds
<1>1. Working'
  <2>1. \A u \in Threads \ {t} : /\ op'[u] = None <=> pc'[u] \in {"idle", "dead"}
                                 /\ op'[u] # None => access'[u] = IF op'[u].name \in {"has", "get"} THEN "ro" ELSE "rw"
    BY DEF StoreInv, Working, Reads
  <2>2. /\ op'[t] = None <=> pc'[t] \in {"idle", "dead"}
        /\ op'[t] # None => access'[t] = IF op'[t].name \in {"has", "get"} THEN "ro" ELSE "rw"
    BY DEF StoreInv, Working, Reads
  <2>3. QED
    BY <2>1, <2>2 DEF Working, Reads
<1>2. Routes'
  BY DEF StoreInv, Routes, Kind
<1>3. OldErrors'
  <2>1. \A u \in Threads : Sql /\ pc'[u] \in PoolPlaces \union {"use"} /\ err'[u] =>
          err[u] /\ pc[u] \in PoolPlaces \union {"use"} /\ op'[u] = op[u]
    BY DEF PoolPlaces
  <2>2. QED
    BY <2>1 DEF StoreInv, OldErrors, Sql, Sets, Kind
<1>4. QED
  BY <1>1, <1>2, <1>3

(* The transaction of a connection that somebody holds.                    *)
LEMMA TxnFacts ==
  ASSUME StoreInv, NEW t \in Threads, conn[t] # None
  PROVE  /\ conn[t] \in open /\ conn[t].pool.access = access[t]
         /\ txn.owner = conn[t] => /\ txn.work \in DbType /\ txn.kept \in DbType \union {None}
                                   /\ txn = TxnOf(txn.owner, txn.work, txn.kept)
         /\ \A u \in Threads \ {t} : conn[u] # conn[t]
<1>1. conn[t] \in open /\ conn[t].pool.access = access[t]
  BY DEF StoreInv, AllInv, PoolInv, HeldOwn
<1>2. \A u \in Threads \ {t} : conn[u] # conn[t]
  BY DEF StoreInv, AllInv, PoolInv, HeldOnce
<1>3. ASSUME txn.owner = conn[t]
      PROVE  /\ txn.work \in DbType /\ txn.kept \in DbType \union {None}
             /\ txn = TxnOf(txn.owner, txn.work, txn.kept)
  <2>1. txn # NoTxn
    BY <1>3 DEF NoTxn
  <2>2. PICK c \in open : \E d \in DbType : \E k \in DbType \union {None} : txn = TxnOf(c, d, k)
    BY <2>1 DEF StoreInv, TxnSound
  <2>3. QED
    BY <2>2 DEF TxnOf
<1>4. QED
  BY <1>1, <1>2, <1>3

LEMMA TxnStays ==
  ASSUME StoreInv, NEW t \in Threads, Proceeds(t), AllInv',
         \A u \in Threads \ {t} : conn'[u] = conn[u],
         (UNCHANGED txn /\ open \subseteq open') \/ CloseTxn
  PROVE  TxnSound' /\ TxnBegun'
<1>1. TxnSound'
  <2>1. CASE txn = NoTxn
    BY <2>1 DEF TxnSound, CloseTxn
  <2>2. CASE txn # NoTxn
    <3>1. PICK c \in open : \E d \in DbType : \E k \in DbType \union {None} :
                              c.pool.access = "rw" /\ txn = TxnOf(c, d, k)
      BY <2>2 DEF StoreInv, TxnSound
    <3>2. txn.owner = c
      BY <3>1 DEF TxnOf
    <3>3. txn' = NoTxn \/ (txn' = txn /\ c \in open')
      BY <3>2 DEF CloseTxn
    <3>4. QED
      BY <3>1, <3>3 DEF TxnSound
  <2>3. QED
    BY <2>1, <2>2
<1>2. \A u \in Threads : pc'[u] = "use" /\ txn.owner = conn'[u] => txn'.owner = conn'[u]
  <2>1. \A u \in Threads : pc'[u] = "use" => conn'[u] \in open'
    BY DEF AllInv, PoolInv, HoldersHave, Holding, HeldOwn
  <2>2. QED
    BY <2>1 DEF CloseTxn
<1>3. ASSUME NEW u \in Threads, Sql, pc'[u] \in PoolPlaces \union {"use"}, op'[u].name \in {"set", "multiset"}
      PROVE  todo'[u] = op'[u].writes \/ (pc'[u] = "use" /\ txn'.owner = conn'[u])
  <2>1. CASE u # t
    BY <2>1, <1>2, <1>3 DEF StoreInv, TxnBegun, Proceeds, Sets
  <2>2. CASE u = t
    <3>1. op'[t] = op[t]
      BY <2>2, <1>3 DEF Proceeds, PoolPlaces
    <3>2. CASE pc[t] \in PoolPlaces /\ todo'[t] = todo[t]
      <4>1. pc[t] # "use"
        BY <3>2 DEF PoolPlaces
      <4>2. QED
        BY <2>2, <3>1, <3>2, <4>1, <1>3 DEF StoreInv, TxnBegun, Sets
    <3>3. CASE pc'[t] = "use" /\ txn'.owner = conn'[t]
      BY <2>2, <3>3
    <3>4. QED
      BY <3>2, <3>3, <2>2, <1>3 DEF Proceeds
  <2>3. QED
    BY <2>1, <2>2
<1>4. UNCHANGED program
  BY DEF Proceeds
<1>5. QED
  BY <1>1, <1>3, <1>4 DEF TxnBegun, Sql, Kind, Sets

(* The steps of SQLite and MBTiles that touch the transaction.             *)
LEMMA SqlTxn ==
  ASSUME StoreInv, NEW t \in Threads, Proceeds(t), Outside(t),
         SqlWrite(t) \/ SqlFails(t) \/ SqlCommit(t) \/ SqlDelete(t)
  PROVE  db' \in DbType /\ TxnSound' /\ TxnBegun'
<1>1. /\ Sql /\ pc[t] = "use" /\ ~err[t] /\ conn' = conn /\ open' = open /\ program' = program
      /\ op' = op
  BY DEF SqlWrite, SqlFails, SqlCommit, SqlDelete, SqlStep
<1>2. conn[t] # None
  BY <1>1 DEF StoreInv, AllInv, PoolInv, HoldersHave, Holding
<1>3. /\ conn[t] \in open /\ conn[t].pool.access = access[t]
      /\ txn.owner = conn[t] => /\ txn.work \in DbType /\ txn.kept \in DbType \union {None}
                                /\ txn = TxnOf(txn.owner, txn.work, txn.kept)
      /\ \A u \in Threads \ {t} : conn[u] # conn[t]
  BY <1>2, TxnFacts
<1>4. Sets(t) => access[t] = "rw" /\ op[t].writes # {}
  BY <1>1, InCall
<1>5. \A u \in Threads \ {t} : /\ pc'[u] = pc[u] /\ todo'[u] = todo[u]
  BY DEF Proceeds
<1>6. \A u \in Threads \ {t} : pc[u] = "use" => conn[u] # None
  BY DEF StoreInv, AllInv, PoolInv, HoldersHave, Holding
<1>7. \A u \in Threads \ {t} : Sets(u) /\ pc[u] \in PoolPlaces \union {"use"} =>
        todo[u] = op[u].writes \/ (pc[u] = "use" /\ txn.owner = conn[u])
  BY <1>1 DEF StoreInv, TxnBegun
<1>8. ASSUME txn'.owner = txn.owner \/ txn.owner \in {None, conn[t]},
             pc'[t] \notin PoolPlaces \union {"use"} \/ (pc'[t] = "use" /\ txn'.owner = conn[t])
      PROVE  TxnBegun'
  <2>1. ASSUME NEW u \in Threads, Sets(u), pc'[u] \in PoolPlaces \union {"use"}
        PROVE  todo'[u] = op[u].writes \/ (pc'[u] = "use" /\ txn'.owner = conn[u])
    <3>1. CASE u = t
      BY <3>1, <2>1, <1>8
    <3>2. CASE u # t
      <4>1. pc[u] = "use" /\ txn.owner = conn[u] => txn'.owner = conn[u]
        BY <3>2, <1>3, <1>6, <1>8
      <4>2. QED
        BY <3>2, <4>1, <2>1, <1>5, <1>7
    <3>3. QED
      BY <3>1, <3>2
  <2>2. QED
    BY <2>1, <1>1 DEF TxnBegun, Sql, Kind, Sets
<1>9. CASE SqlWrite(t)
  <2>1. PICK w \in todo[t] : txn' = [owner |-> conn[t], work |-> Change(Base(t), w),
                                     kept |-> IF txn.owner = conn[t] THEN txn.kept ELSE None]
    BY <1>9 DEF SqlWrite
  <2>2. w \in AnyWrite
    BY <1>1, InCall
  <2>3. Base(t) \in DbType
    BY <1>3 DEF Base, StoreInv
  <2>4. Change(Base(t), w) \in DbType
    BY <2>2, <2>3, ChangeType
  <2>5. TxnSound'
    <3>1. txn' = TxnOf(conn[t], Change(Base(t), w), IF txn.owner = conn[t] THEN txn.kept ELSE None)
      BY <2>1 DEF TxnOf
    <3>2. (IF txn.owner = conn[t] THEN txn.kept ELSE None) \in DbType \union {None}
      BY <1>3
    <3>3. conn[t].pool.access = "rw"
      BY <1>9, <1>3, <1>4 DEF SqlWrite
    <3>4. QED
      BY <3>1, <3>2, <3>3, <2>4, <1>1, <1>3 DEF TxnSound
  <2>6. txn'.owner = conn[t] /\ pc'[t] = "use" /\ txn.owner \in {None, conn[t]}
    BY <2>1, <1>1, <1>9 DEF SqlWrite, CanWrite
  <2>7. TxnBegun'
    BY <2>6, <1>8
  <2>8. QED
    BY <2>5, <2>7, <1>9 DEF SqlWrite, StoreInv
<1>10. CASE SqlFails(t)
  <2>1. txn' = IF txn.owner = conn[t] /\ Sets(t) THEN NoTxn ELSE txn
    BY <1>10 DEF SqlFails
  <2>2. TxnSound'
    BY <2>1, <1>1 DEF TxnSound, StoreInv
  <2>3. pc'[t] = "release"
    BY <1>10 DEF SqlFails, Goto, StoreInv, CallTypes
  <2>4. TxnBegun'
    BY <2>1, <2>3, <1>8 DEF PoolPlaces
  <2>5. QED
    BY <2>2, <2>4, <1>10 DEF SqlFails, StoreInv
<1>11. CASE SqlCommit(t)
  <2>1. txn.owner = conn[t]
    <3>1. Sets(t) /\ todo[t] = {} /\ op[t].writes # {}
      BY <1>4, <1>11 DEF SqlCommit
    <3>2. QED
      BY <3>1, <1>1 DEF StoreInv, TxnBegun
  <2>2. pc'[t] = "release"
    BY <1>11 DEF SqlCommit, Goto, StoreInv, CallTypes
  <2>3. TxnBegun'
    BY <2>1, <2>2, <1>8 DEF PoolPlaces
  <2>4. CASE db' = txn.work /\ txn' = NoTxn
    BY <2>1, <2>3, <2>4, <1>3 DEF TxnSound
  <2>5. CASE txn' = [txn EXCEPT !.kept = txn.work] /\ UNCHANGED db
    <3>1. txn' = TxnOf(conn[t], txn.work, txn.work)
      BY <2>1, <2>5, <1>3 DEF TxnOf
    <3>2. conn[t].pool.access = "rw"
      BY <1>11, <1>3, <1>4 DEF SqlCommit
    <3>3. TxnSound'
      BY <3>1, <3>2, <2>1, <1>1, <1>3 DEF TxnSound
    <3>4. QED
      BY <3>3, <2>3, <2>5 DEF StoreInv
  <2>6. QED
    BY <2>4, <2>5, <1>11 DEF SqlCommit
<1>12. CASE SqlDelete(t)
  <2>1. pc'[t] = "release"
    BY <1>12 DEF SqlDelete, Goto, StoreInv, CallTypes
  <2>2. PICK w \in op[t].writes :
          \/ db' = Change(db, w) /\ UNCHANGED txn
          \/ /\ txn.owner = conn[t] /\ UNCHANGED db
             /\ txn' = [txn EXCEPT !.work = Change(@, w), !.kept = Change(txn.work, w)]
          \/ UNCHANGED <<db, txn>>
    BY <1>12 DEF SqlDelete
  <2>3. w \in AnyWrite /\ Change(db, w) \in DbType
    BY <1>1, InCall
  <2>4. CASE UNCHANGED txn /\ (UNCHANGED db \/ db' = Change(db, w))
    <3>1. TxnSound' /\ TxnBegun'
      BY <2>1, <2>4, <1>1, <1>8 DEF TxnSound, StoreInv, PoolPlaces
    <3>2. QED
      BY <3>1, <2>3, <2>4 DEF StoreInv
  <2>5. CASE /\ txn.owner = conn[t] /\ UNCHANGED db
             /\ txn' = [txn EXCEPT !.work = Change(@, w), !.kept = Change(txn.work, w)]
    <3>1. Change(txn.work, w) \in DbType
      BY <2>3, <2>5, <1>3, ChangeType
    <3>2. txn' = TxnOf(conn[t], Change(txn.work, w), Change(txn.work, w))
      BY <2>5, <1>3 DEF TxnOf
    <3>3. conn[t].pool.access = "rw"
      <4>1. txn # NoTxn
        BY <2>5, <1>2 DEF NoTxn
      <4>2. PICK c \in open : \E d \in DbType : \E k \in DbType \union {None} :
                                c.pool.access = "rw" /\ txn = TxnOf(c, d, k)
        BY <4>1 DEF StoreInv, TxnSound
      <4>3. QED
        BY <4>2, <2>5 DEF TxnOf
    <3>4. TxnSound'
      BY <3>1, <3>2, <3>3, <1>1, <1>3 DEF TxnSound
    <3>5. TxnBegun'
      BY <2>1, <2>5, <1>8 DEF PoolPlaces
    <3>6. QED
      BY <3>4, <3>5, <2>5 DEF StoreInv
  <2>6. QED
    BY <2>2, <2>4, <2>5
<1>13. QED
  BY <1>9, <1>10, <1>11, <1>12

LEMMA StoresInitial == Init => StoreInv
<1> SUFFICES ASSUME Init PROVE StoreInv
  OBVIOUS
<1>1. AllInv /\ open = {}
  BY PoolsInitial DEF Init
<1>2. \A t \in Threads : pc[t] = "idle" /\ op[t] = None /\ ~err[t]
  BY DEF Init, PoolInit
<1>3. CallTypes
  BY OpsAssumption DEF Init, PoolInit, CallTypes, Places, AnyWrite, Gots, Outcomes
<1>4. Working /\ Routes /\ OldErrors /\ TxnBegun
  BY <1>2 DEF Working, Routes, OldErrors, TxnBegun, TcPlaces, TiffPlaces, PoolPlaces
<1>5. db \in DbType
  BY DEF Init, Empty, DbType
<1>6. TxnSound
  BY DEF Init, TxnSound
<1>7. TiffSound
  BY <1>2 DEF Init, TiffSound
<1>8. NothingLeaks
  BY <1>1 DEF NothingLeaks, Lost
<1>9. QED
  BY <1>1, <1>3, <1>4, <1>5, <1>6, <1>7, <1>8 DEF StoreInv

(* Where no connection is lost and no error forgotten.                     *)
LEMMA LostStays ==
  ASSUME StoreInv, LosesNothing, UNCHANGED program,
         program.sticky => \A u \in Threads : err[u] => err'[u]
  PROVE  NothingLeaks'
<1>1. ASSUME NEW c \in Lost' PROVE c \in Lost
  BY <1>1 DEF Lost, LosesNothing
<1>2. \A c \in Lost :
        /\ program.sticky =>
             \E u \in Threads : program.process[u] = program.process[c.pool.maker] /\ err[u]
        /\ Kind = "bdb" \/ (Sql /\ program.sticky /\ c.pool.access = "rw")
  BY DEF StoreInv, NothingLeaks, HasError, Mine
<1>3. \A c \in Lost' :
        /\ program.sticky =>
             \E u \in Threads : program.process[u] = program.process[c.pool.maker] /\ err'[u]
        /\ Kind = "bdb" \/ (Sql /\ program.sticky /\ c.pool.access = "rw")
  BY <1>1, <1>2
<1>4. QED
  BY <1>3 DEF NothingLeaks, HasError, Mine, Kind, Sql

(* Where a call walks away with its connection.                            *)
LEMMA LostWith ==
  ASSUME StoreInv, NEW t \in Threads, Proceeds(t), Leak(t), pc[t] = "use", err'[t],
         Kind = "bdb" \/ (Sql /\ Sets(t) /\ err[t])
  PROVE  NothingLeaks'
<1>1. /\ UNCHANGED <<program, open, idle>> /\ conn \in [Threads -> Conns \union {None}]
      /\ conn' = [conn EXCEPT ![t] = None]
      /\ \A u \in Threads : err[u] => err'[u]
  BY DEF Proceeds, Leak, StoreInv, AllInv, PoolInv, PoolTypes, PoolTypeOK
<1>2. conn[t] # None =>
        program.process[conn[t].pool.maker] = program.process[t] /\ conn[t].pool.access = access[t]
  BY DEF StoreInv, AllInv, PoolInv, HeldOwn, Mine
<1>3. Kind = "bdb" \/ (Sql /\ program.sticky /\ access[t] = "rw")
  BY InCall DEF StoreInv, OldErrors
<1>4. ASSUME NEW c \in Lost' PROVE c \in Lost \/ (c = conn[t] /\ conn[t] # None)
  BY <1>1, <1>4 DEF Lost, Held, Idle
<1>5. \A c \in Lost :
        /\ program.sticky =>
             \E u \in Threads : program.process[u] = program.process[c.pool.maker] /\ err[u]
        /\ Kind = "bdb" \/ (Sql /\ program.sticky /\ c.pool.access = "rw")
  BY DEF StoreInv, NothingLeaks, HasError, Mine
<1>6. ASSUME NEW c \in Lost'
      PROVE  /\ program.sticky =>
                  \E u \in Threads : program.process[u] = program.process[c.pool.maker] /\ err'[u]
             /\ Kind = "bdb" \/ (Sql /\ program.sticky /\ c.pool.access = "rw")
  <2>1. CASE c \in Lost
    BY <1>1, <1>5, <2>1
  <2>2. CASE c = conn[t] /\ conn[t] # None
    BY <1>2, <1>3, <2>2
  <2>3. QED
    BY <1>4, <1>6, <2>1, <2>2
<1>7. QED
  BY <1>1, <1>6 DEF NothingLeaks, HasError, Mine, Kind, Sql

(* A call begins.                                                          *)
LEMMA StartKeeps ==
  ASSUME StoreInv, NEW t \in Threads, Start(t)
  PROVE  StoreInv'
<1>1. PICK o \in program.ops :
        /\ op' = [op EXCEPT ![t] = o] /\ todo' = [todo EXCEPT ![t] = o.writes]
        /\ access' = [access EXCEPT ![t] = IF o.name \in {"has", "get"} THEN "ro" ELSE "rw"]
        /\ err[t] => o.name # "multiset" /\ (o.name = "set" => program.sticky)
        /\ Goto(t, CASE Kind = "mbtiles" /\ o.name = "multiset" -> "encode"
                     [] Pooled /\ ~(Kind = "mbtiles" /\ o.name = "multiset") -> "pool"
                     [] Kind = "tc" -> "tcopen"
                     [] Kind \in {"memcache", "s3"} -> "remote"
                     [] Kind = "tiff" -> "tiff")
  BY DEF Start
<1>2. /\ pc[t] = "idle" /\ calls < MaxCalls /\ calls' = calls + 1 /\ got' = [got EXCEPT ![t] = None]
      /\ UNCHANGED <<program, err, conn, table, mutex, idle, total, open, answer>>
      /\ UNCHANGED <<db, txn, handle, tiff>>
  BY DEF Start, dbVars
<1>3. program \in Programs
  BY DEF StoreInv, AllInv, PoolInv, PoolTypes, PoolTypeOK
<1>4. /\ o # None /\ o.name \in {"has", "get", "set", "multiset", "delete"}
      /\ o.writes \subseteq AnyWrite
      /\ Kind \in {"sqlite", "mbtiles", "bdb", "tc", "memcache", "s3", "tiff"}
  BY <1>3, OpFacts
<1>5. /\ pc' = [pc EXCEPT ![t] = pc'[t]]
      /\ \/ pc'[t] \in {"encode", "pool", "remote"}
         \/ pc'[t] = "tcopen" /\ Kind = "tc"
         \/ pc'[t] = "tiff" /\ Kind = "tiff"
  BY <1>1, <1>4 DEF Goto, Pooled, Sql, StoreInv, CallTypes
<1>6. /\ pc \in [Threads -> Places]
      /\ op \in [Threads -> program.ops \union {None}] /\ todo \in [Threads -> SUBSET AnyWrite]
      /\ got \in [Threads -> Gots] /\ answer \in [Threads -> Outcomes] /\ calls \in 0 .. MaxCalls
      /\ handle \in [Processes -> Access \union {None}] /\ access \in [Threads -> Access]
      /\ err \in [Threads -> BOOLEAN]
  BY DEF StoreInv, CallTypes, AllInv, PoolInv, PoolTypes, PoolTypeOK
<1>7. Outside(t)
  BY <1>1, <1>2, <1>5, <1>6 DEF Outside, Holding, Access
<1>8. AllInv' /\ LosesNothing
  BY <1>7, OutsideKeeps DEF StoreInv
<1>9. CallTypes'
  <2>1. calls' \in 0 .. MaxCalls
    BY <1>2, <1>6, OpsAssumption
  <2>2. pc' \in [Threads -> Places]
    BY <1>5, <1>6 DEF Places
  <2>3. QED
    BY <2>1, <2>2, <1>1, <1>2, <1>4, <1>6 DEF CallTypes, Gots
<1>10. /\ \A u \in Threads \ {t} : /\ pc'[u] = pc[u] /\ op'[u] = op[u] /\ access'[u] = access[u]
                                   /\ todo'[u] = todo[u]
       /\ op'[t] = o /\ todo'[t] = o.writes /\ pc'[t] \notin {"idle", "dead", "use", "tiffopen", "tiffclose"}
       /\ access'[t] = IF o.name \in {"has", "get"} THEN "ro" ELSE "rw"
  BY <1>1, <1>5, <1>6
<1>11. Working'
  BY <1>4, <1>10 DEF StoreInv, Working, Reads
<1>12. Routes' /\ OldErrors'
  BY <1>1, <1>2, <1>5, <1>10 DEF StoreInv, Routes, OldErrors, TcPlaces, TiffPlaces, Kind, Sql, Sets
<1>13. TxnSound' /\ TxnBegun'
  BY <1>2, <1>10 DEF StoreInv, TxnSound, TxnBegun, Sql, Kind, Sets
<1>14. TiffSound'
  BY <1>2, <1>10 DEF StoreInv, TiffSound
<1>15. NothingLeaks'
  BY <1>2, <1>8, LostStays
<1>16. QED
  BY <1>8, <1>9, <1>11, <1>12, <1>13, <1>14, <1>15, <1>2 DEF StoreInv

LEMMA ForgiveKeeps ==
  ASSUME StoreInv, NEW t \in Threads, Forgive(t)
  PROVE  StoreInv'
<1>1. /\ UNCHANGED <<program, pc, access, conn, table, mutex, idle, total, open>>
      /\ UNCHANGED <<op, todo, got, answer, calls, db, txn, handle, tiff>>
      /\ pc[t] = "idle" /\ err' = [err EXCEPT ![t] = FALSE]
  BY DEF Forgive, callVars, dbVars
<1>2. err \in [Threads -> BOOLEAN] /\ access \in [Threads -> Access] /\ pc \in [Threads -> Places]
  BY DEF StoreInv, CallTypes, AllInv, PoolInv, PoolTypes, PoolTypeOK
<1>3. err' \in [Threads -> BOOLEAN] /\ \A u \in Threads : u # t => err'[u] = err[u]
  BY <1>1, <1>2
<1>4. Outside(t)
  BY <1>1, <1>2, <1>3 DEF Outside
<1>5. AllInv' /\ LosesNothing
  BY <1>4, OutsideKeeps DEF StoreInv
<1>6. CallTypes' /\ Working' /\ Routes'
  BY <1>1 DEF StoreInv, CallTypes, Working, Routes, Reads, Kind
<1>7. OldErrors'
  BY <1>1, <1>2, <1>3 DEF StoreInv, OldErrors, Sql, Sets, Kind
<1>8. TxnSound' /\ TxnBegun'
  BY <1>1 DEF StoreInv, TxnSound, TxnBegun, Sql, Kind, Sets
<1>9. TiffSound'
  BY <1>1, <1>3 DEF StoreInv, TiffSound
<1>10. NothingLeaks'
  BY <1>1, <1>5, LostStays DEF Forgive
<1>11. QED
  BY <1>1, <1>5, <1>6, <1>7, <1>8, <1>9, <1>10 DEF StoreInv

(* A process ends, with its threads, their calls and what they have begun. *)
LEMMA DieKeeps ==
  ASSUME StoreInv, NEW t \in Threads, Die(t)
  PROVE  StoreInv'
<1>1. /\ Abort(Mine(t)) /\ CloseTxn
      /\ op' = [u \in Threads |-> IF Mine(u) = Mine(t) THEN None ELSE op[u]]
      /\ UNCHANGED <<todo, got, answer, calls, db, handle, tiff>>
  BY DEF Die, AssertFails
<1>2. Mine(t) \in Processes
  BY MineIn DEF StoreInv, AllInv, PoolInv
<1>3. AllInv' /\ LosesNothing
  BY <1>1, <1>2, AbortKeeps DEF StoreInv
<1>4. /\ UNCHANGED <<program, access, err, table, mutex, total>>
      /\ pc' = [u \in Threads |-> IF Mine(u) = Mine(t) THEN "dead" ELSE pc[u]]
      /\ conn' = [u \in Threads |-> IF Mine(u) = Mine(t) THEN None ELSE conn[u]]
      /\ open' \subseteq open
  BY <1>1 DEF Abort
<1>5. CallTypes'
  BY <1>1, <1>4 DEF StoreInv, CallTypes, Places
<1>6. \A u \in Threads : \/ pc'[u] = "dead" /\ op'[u] = None
                         \/ pc'[u] = pc[u] /\ op'[u] = op[u] /\ conn'[u] = conn[u]
  BY <1>1, <1>4
<1>7. Working' /\ Routes' /\ OldErrors'
  BY <1>4, <1>6 DEF StoreInv, Working, Routes, OldErrors, Reads, Sets, Sql, Kind, TcPlaces, TiffPlaces, PoolPlaces
<1>8. TxnSound'
  <2>1. CASE txn = NoTxn
    BY <2>1, <1>1 DEF TxnSound, CloseTxn
  <2>2. CASE txn # NoTxn
    <3>1. PICK c \in open : \E d \in DbType : \E k \in DbType \union {None} :
                              c.pool.access = "rw" /\ txn = TxnOf(c, d, k)
      BY <2>2 DEF StoreInv, TxnSound
    <3>2. txn.owner = c
      BY <3>1 DEF TxnOf
    <3>3. txn' = NoTxn \/ (txn' = txn /\ c \in open')
      BY <3>2, <1>1 DEF CloseTxn
    <3>4. QED
      BY <3>1, <3>3 DEF TxnSound
  <2>3. QED
    BY <2>1, <2>2
<1>9. TxnBegun'
  <2>1. \A u \in Threads : pc'[u] = "use" => conn'[u] \in open'
    BY <1>3 DEF AllInv, PoolInv, HoldersHave, Holding, HeldOwn
  <2>2. \A u \in Threads : pc'[u] = "use" /\ txn.owner = conn'[u] => txn'.owner = conn'[u]
    BY <2>1, <1>1 DEF CloseTxn
  <2>3. \A u \in Threads : pc'[u] \in PoolPlaces \union {"use"} =>
          pc'[u] = pc[u] /\ op'[u] = op[u] /\ conn'[u] = conn[u]
    BY <1>6 DEF PoolPlaces
  <2>4. \A u \in Threads : Sql /\ pc'[u] \in PoolPlaces \union {"use"} /\ op'[u].name \in {"set", "multiset"} =>
          todo'[u] = op'[u].writes \/ (pc'[u] = "use" /\ txn'.owner = conn'[u])
    BY <2>2, <2>3, <1>1 DEF StoreInv, TxnBegun, Sets
  <2>5. QED
    BY <2>4, <1>4 DEF TxnBegun, Sql, Kind, Sets
<1>10. TiffSound'
  BY <1>1, <1>4, <1>6 DEF StoreInv, TiffSound
<1>11. NothingLeaks'
  BY <1>3, <1>4, LostStays
<1>12. QED
  BY <1>1, <1>3, <1>4, <1>5, <1>7, <1>8, <1>9, <1>10, <1>11 DEF StoreInv

LEMMA EvictKeeps ==
  ASSUME StoreInv, NEW t \in Tiles, Evict(t)
  PROVE  StoreInv'
<1>1. /\ UNCHANGED <<program, pc, access, err, conn, table, mutex, idle, total, open>>
      /\ UNCHANGED <<op, todo, got, answer, calls, txn, handle, tiff>> /\ db' = Del(db, t)
  BY DEF Evict, poolVars, callVars
<1>2. db' \in DbType
  BY <1>1 DEF StoreInv, Del, DbType
<1>3. AllInv' /\ LosesNothing
  BY <1>1, StutterKeeps DEF StoreInv, poolVars
<1>4. CallTypes' /\ Working' /\ Routes' /\ OldErrors'
  BY <1>1 DEF StoreInv, CallTypes, Working, Routes, OldErrors, Reads, Sets, Sql, Kind
<1>5. TxnSound' /\ TxnBegun' /\ TiffSound'
  BY <1>1 DEF StoreInv, TxnSound, TxnBegun, TiffSound, Sql, Kind, Sets
<1>6. NothingLeaks'
  BY <1>1, <1>3, LostStays
<1>7. QED
  BY <1>1, <1>2, <1>3, <1>4, <1>5, <1>6 DEF StoreInv

(* A step of a thread in its call.                                         *)
LEMMA CallKeeps ==
  ASSUME StoreInv, NEW t \in Threads, Proceeds(t), AllInv', db' \in DbType,
         TxnSound', TxnBegun', TiffSound',
         LosesNothing \/ NothingLeaks'
  PROVE  StoreInv'
<1>1. Working' /\ Routes' /\ OldErrors'
  BY ProceedsKeeps
<1>2. CallTypes' /\ UNCHANGED program
  BY DEF Proceeds
<1>3. NothingLeaks'
  BY LostStays DEF Proceeds
<1>4. QED
  BY <1>1, <1>2, <1>3 DEF StoreInv

(* One that leaves the connections and transactions alone.                 *)
LEMMA AsideKeeps ==
  ASSUME StoreInv, NEW t \in Threads, Proceeds(t), Outside(t), UNCHANGED txn, db' \in DbType, TiffSound'
  PROVE  StoreInv'
<1>1. AllInv' /\ LosesNothing
  BY OutsideKeeps DEF StoreInv
<1>2. (\A u \in Threads \ {t} : conn'[u] = conn[u]) /\ open \subseteq open'
  BY DEF Outside
<1>3. TxnSound' /\ TxnBegun'
  BY <1>1, <1>2, TxnStays
<1>4. QED
  BY <1>1, <1>3, CallKeeps

LEMMA StoresKept == StoreInv /\ [Next]_vars => StoreInv'
<1> SUFFICES ASSUME StoreInv, [Next]_vars PROVE StoreInv'
  OBVIOUS
<1>1. ASSUME NEW t \in Threads, Start(t) \/ Forgive(t) \/ Die(t) PROVE StoreInv'
  BY <1>1, StartKeeps, ForgiveKeeps, DieKeeps
<1>2. ASSUME NEW t \in Threads, EncodeFirst(t) \/ Refused(t) PROVE StoreInv'
  <2>1. Proceeds(t) /\ Outside(t) /\ UNCHANGED <<txn, tiff, db, handle>>
    BY <1>2, TurnedAway
  <2>2. QED
    BY <2>1, TiffStays, AsideKeeps DEF StoreInv
<1>3. ASSUME NEW t \in Threads, GetConn(t) PROVE StoreInv'
  <2>1. Proceeds(t) /\ UNCHANGED <<tiff, db, handle, txn>> /\ PoolStep(t)
    BY <1>3, PoolProceeds DEF GetConn, dbVars
  <2>2. AllInv' /\ LosesNothing
    BY <2>1, PoolStepKeeps DEF StoreInv
  <2>3. (\A u \in Threads \ {t} : conn'[u] = conn[u]) /\ open \subseteq open'
    <3>1. conn \in [Threads -> Conns \union {None}]
      BY DEF StoreInv, AllInv, PoolInv, PoolTypes, PoolTypeOK
    <3>2. CASE TakeIdle(t)
      BY <3>1, <3>2 DEF TakeIdle
    <3>3. CASE OpenConn(t)
      BY <3>1, <3>3 DEF OpenConn
    <3>4. CASE ~TakeIdle(t) /\ ~OpenConn(t)
      BY <2>1, <3>4 DEF PoolStep, LookUp, Lock, MakeReaders, MakeWriter, Found, OpenFails
    <3>5. QED
      BY <3>2, <3>3, <3>4
  <2>4. TxnSound' /\ TxnBegun' /\ TiffSound'
    BY <2>1, <2>2, <2>3, TxnStays, TiffStays
  <2>5. QED
    BY <2>1, <2>2, <2>4, CallKeeps DEF StoreInv
<1>4. ASSUME NEW t \in Threads, Release(t) PROVE StoreInv'
  <2>1. Proceeds(t) /\ UNCHANGED <<tiff, db, handle, err>> /\ CloseTxn /\ GiveBack(t)
    BY <1>4, PoolProceeds DEF Release
  <2>2. Ends(t)
    BY <1>4 DEF Release, Finish, Goto, Ends, Holding
  <2>3. AllInv' /\ LosesNothing
    BY <2>1, <2>2, GiveBackKeeps DEF StoreInv
  <2>4. \A u \in Threads \ {t} : conn'[u] = conn[u]
    BY <2>1 DEF GiveBack, StoreInv, AllInv, PoolInv, PoolTypes, PoolTypeOK
  <2>5. TxnSound' /\ TxnBegun' /\ TiffSound'
    BY <2>1, <2>3, <2>4, TxnStays, TiffStays
  <2>6. QED
    BY <2>1, <2>3, <2>5, CallKeeps DEF StoreInv
<1>5. ASSUME NEW t \in Threads, BdbLeaks(t) \/ SqlLeaks(t) PROVE StoreInv'
  <2>1. Proceeds(t) /\ UNCHANGED <<tiff, db, handle, txn>> /\ Leak(t) /\ err' \in [Threads -> BOOLEAN]
    BY <1>5, PoolProceeds DEF BdbLeaks, SqlLeaks, dbVars, Raise, StoreInv, AllInv, PoolInv, PoolTypes, PoolTypeOK
  <2>2. Ends(t)
    BY <1>5 DEF BdbLeaks, BdbStep, SqlLeaks, Finish, Goto, Ends, Holding
  <2>3. AllInv'
    BY <2>1, <2>2, LeakKeeps DEF StoreInv
  <2>4. (\A u \in Threads \ {t} : conn'[u] = conn[u]) /\ open \subseteq open'
    BY <2>1 DEF Leak, StoreInv, AllInv, PoolInv, PoolTypes, PoolTypeOK
  <2>5. TxnSound' /\ TxnBegun' /\ TiffSound'
    BY <2>1, <2>3, <2>4, TxnStays, TiffStays
  <2>6. NothingLeaks'
    <3>1. /\ pc[t] = "use" /\ err'[t]
          /\ Kind = "bdb" \/ (Sql /\ Sets(t) /\ err[t])
      BY <1>5 DEF BdbLeaks, BdbStep, SqlLeaks, Raise, StoreInv, AllInv, PoolInv, PoolTypes, PoolTypeOK
    <3>2. QED
      BY <2>1, <3>1, LostWith
  <2>7. QED
    BY <2>1, <2>3, <2>5, <2>6, CallKeeps DEF StoreInv
<1>6. ASSUME NEW t \in Threads, SqlSteps(t) \/ SqlFails(t), ~SqlLeaks(t) PROVE StoreInv'
  <2>1. Proceeds(t) /\ Outside(t) /\ UNCHANGED <<handle, tiff>>
    BY <1>6, SqlProceeds DEF SqlSteps
  <2>2. TiffSound'
    BY <2>1, TiffStays
  <2>3. CASE SqlWrite(t) \/ SqlFails(t) \/ SqlCommit(t) \/ SqlDelete(t)
    <3>1. db' \in DbType /\ TxnSound' /\ TxnBegun'
      BY <2>1, <2>3, SqlTxn
    <3>2. AllInv' /\ LosesNothing
      BY <2>1, OutsideKeeps DEF StoreInv
    <3>3. QED
      BY <2>1, <2>2, <3>1, <3>2, CallKeeps
  <2>4. CASE SqlOldError(t) \/ SqlHas(t) \/ SqlGet(t) \/ SqlReset(t) \/ MbtilesDelete(t)
    <3>1. UNCHANGED <<db, txn>>
      BY <2>4 DEF SqlOldError, SqlHas, SqlGet, SqlLook, SqlReset, MbtilesDelete, dbVars
    <3>2. QED
      BY <2>1, <2>2, <3>1, AsideKeeps DEF StoreInv
  <2>5. QED
    BY <1>6, <2>3, <2>4 DEF SqlSteps
<1>7. ASSUME NEW t \in Threads, BdbSteps(t) PROVE StoreInv'
  <2>1. CASE BdbLeaks(t)
    BY <2>1, <1>5
  <2>2. CASE ~BdbLeaks(t)
    <3>1. Proceeds(t) /\ Outside(t) /\ UNCHANGED <<txn, tiff>> /\ db' \in DbType
      BY <1>7, <2>2, BdbProceeds DEF BdbSteps
    <3>2. QED
      BY <3>1, TiffStays, AsideKeeps
  <2>3. QED
    BY <2>1, <2>2
<1>8. ASSUME NEW t \in Threads, TcSteps(t) \/ RemoteSteps(t) PROVE StoreInv'
  <2>1. Proceeds(t) /\ Outside(t) /\ UNCHANGED <<txn, tiff>> /\ db' \in DbType
    BY <1>8, TcProceeds, RemoteProceeds DEF TcSteps, RemoteSteps
  <2>2. QED
    BY <2>1, TiffStays, AsideKeeps
<1>9. ASSUME NEW t \in Threads, TiffSteps(t) PROVE StoreInv'
  <2>1. CASE TiffClose(t)
    BY <2>1, TiffCloses, AsideKeeps
  <2>2. CASE ~TiffClose(t)
    <3>1. Proceeds(t) /\ Outside(t) /\ UNCHANGED <<txn, db, handle>>
      BY <1>9, <2>2, TiffProceeds DEF TiffSteps
    <3>2. UNCHANGED tiff \/ TiffLock(t) \/ TiffOpen(t)
      BY <1>9, <2>2 DEF TiffSteps, TiffHas, TiffGet, TiffLook, TiffRead, TiffRefuse, TiffPrepare, dbVars
    <3>3. QED
      BY <3>1, <3>2, TiffStays, AsideKeeps DEF StoreInv
  <2>3. QED
    BY <2>1, <2>2
<1>10. ASSUME NEW t \in Tiles, Evict(t) PROVE StoreInv'
  BY <1>10, EvictKeeps
<1>11. CASE UNCHANGED vars
  <2>1. UNCHANGED poolVars /\ UNCHANGED <<op, todo, got, answer, calls, db, txn, handle, tiff>>
    BY <1>11 DEF vars, callVars, dbVars
  <2>2. AllInv' /\ LosesNothing
    BY <2>1, StutterKeeps DEF StoreInv
  <2>3. CallTypes' /\ Working' /\ Routes' /\ OldErrors'
    BY <2>1 DEF StoreInv, CallTypes, Working, Routes, OldErrors, Reads, Sets, Sql, Kind, poolVars
  <2>4. TxnSound' /\ TxnBegun' /\ TiffSound'
    BY <2>1 DEF StoreInv, TxnSound, TxnBegun, TiffSound, Sql, Kind, Sets, poolVars
  <2>5. NothingLeaks'
    BY <2>1, <2>2, LostStays DEF poolVars
  <2>6. QED
    BY <2>1, <2>2, <2>3, <2>4, <2>5 DEF StoreInv
<1>12. QED
  BY <1>1, <1>2, <1>3, <1>4, <1>5, <1>6, <1>7, <1>8, <1>9, <1>10, <1>11 DEF Next, CallStep

LEMMA StoresInvariant == Spec => []StoreInv
BY StoresInitial, StoresKept, PTL DEF Spec

-----------------------------------------------------------------------------
(* Every variable keeps its type, a transaction belongs to an open         *)
(* connection that writes, and no TIFF file is half written without its    *)
(* lock (_single_sqlitetile_set, _mapcache_cache_tiff_set).                *)
THEOREM TypeCorrect == Spec => []TypeOK
<1>1. StoreInv => TypeOK
  <2> SUFFICES ASSUME StoreInv PROVE TypeOK
    OBVIOUS
  <2>1. PoolTypeOK /\ CallTypes /\ db \in DbType
    BY DEF StoreInv, AllInv, PoolInv, PoolTypes
  <2>2. txn # NoTxn => txn.owner \in open /\ txn.owner.pool.access = "rw" /\ txn.work \in DbType
    BY DEF StoreInv, TxnSound, TxnOf
  <2>3. tiff.lock = None => tiff.work = None
    BY DEF StoreInv, TiffSound
  <2>4. QED
    BY <2>1, <2>2, <2>3 DEF TypeOK, CallTypes, AnyWrite, Gots, Outcomes
<1>2. QED
  BY <1>1, StoresInvariant, PTL

(* A connection has one user, and a process whose threads share the mutex  *)
(* has one writer, whatever fails (_sqlite_get_conn, _bdb_get_conn).       *)
THEOREM OneUserEach == Spec => []ConnectionsExclusive
<1>1. StoreInv => ConnectionsExclusive
  BY PoolsExclusive DEF StoreInv
<1>2. QED
  BY <1>1, StoresInvariant, PTL

(* A connection that is open but neither idle nor in use is a writer of    *)
(* SQLite or MBTiles that tile_set lost because its process keeps its      *)
(* errors and had one, or one of Berkeley DB (_mapcache_cache_sqlite_set,  *)
(* _mapcache_cache_mbtiles_set, _mapcache_cache_bdb_set).                  *)
THEOREM NoConnectionLost == Spec => []NothingLeaks
<1>1. StoreInv => NothingLeaks
  BY DEF StoreInv
<1>2. QED
  BY <1>1, StoresInvariant, PTL
=============================================================================
