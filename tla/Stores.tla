------------------------------- MODULE Stores -------------------------------
(***************************************************************************)
(* The caches that are databases or remote: SQLite, MBTiles, Berkeley DB,  *)
(* Tokyo Cabinet, memcached and S3, and the TIFF cache, which keeps the    *)
(* tiles of a block in one file (lib/cache_*.c), called by threads of      *)
(* several processes. The databases and servers are external: a statement  *)
(* is atomic, a transaction is seen when it is committed and waits for     *)
(* readers, a database of Tokyo Cabinet is locked by whoever opened it. So *)
(* is libtiff: a tile is in the file when the file is closed, and its data *)
(* may be written over the old.                                            *)
(***************************************************************************)
EXTENDS ConnPools

CONSTANTS
  Tiles,    \* the tiles of one metatile
  Images,   \* what a tile may show
  Blank,    \* those of one color
  High,     \* the tiles above the maxzoom of an S3 cache
  MaxCalls  \* bound: calls of all threads

(* tile_exists and tile_get of a tile; tile_set and tile_multi_set, of the *)
(* pairs of a tile and its image, one for a tile; tile_delete, a pair of a *)
(* tile and None. No key of a tile is that of a color. A program's lockdir *)
(* tells whether it can make lock files.                                   *)
ASSUME OpsAssumption ==
  /\ Blank \subseteq Images /\ Blank \intersect Tiles = {} /\ High \subseteq Tiles
  /\ Images \intersect {"torn", "lost", "ok", "miss", "error"} = {}
  /\ None \notin Tiles \union Images /\ None \notin {"torn", "lost", "ok", "miss", "error"}
  /\ MaxCalls \in Nat
  /\ \A g \in Programs :
       /\ g.kind \in {"sqlite", "mbtiles", "bdb", "tc", "memcache", "s3", "tiff"}
       /\ None \notin g.ops /\ g.lockdir \in BOOLEAN
       /\ \A o \in g.ops :
            \/ o.name \in {"has", "get"} /\ o.tile \in Tiles /\ o.writes = {}
            \/ /\ o.name \in {"set", "multiset"} /\ o.writes \in (SUBSET (Tiles \X Images)) \ {{}}
               /\ \A v, w \in o.writes : v[1] = w[1] => v = w
            \/ o.name = "delete" /\ \E t \in Tiles : o.writes = {<<t, None>>}

VARIABLES
  op,      \* op[t]: the call of thread t
  todo,    \* todo[t]: what it still has to write
  got,     \* got[t]: what it found
  answer,  \* answer[t]: how its last call ended
  calls,   \* how many were made
  db,      \* what is committed: the tables, or the tiles and their data
  txn,     \* the connection that has begun to write, and what it wrote
  handle,  \* handle[p]: how process p has opened Tokyo Cabinet's file
  tiff     \* the TIFF file of the tiles: its state, its lock, what is written

dbVars == <<db, txn, handle, tiff>>
callVars == <<op, todo, got, answer, calls>>
vars == <<poolVars, callVars, dbVars>>

Kind == program.kind
Sql == Kind \in {"sqlite", "mbtiles"}
Pooled == Sql \/ Kind = "bdb"
Reads(t) == op[t].name \in {"has", "get"}
Sets(t) == op[t].name \in {"set", "multiset"}

Ids == Tiles \union Blank
Empty == [map |-> [t \in Tiles |-> None], images |-> [i \in Ids |-> None]]
NoTxn == [owner |-> None, work |-> None, kept |-> None]

(* The view tiles of MBTiles joins map and images.                         *)
Content(d, t) == IF d.map[t] = None THEN None ELSE d.images[d.map[t]]

Del(d, t) == [map |-> [d.map EXCEPT ![t] = None], images |-> [d.images EXCEPT ![t] = None]]

(* Mutant: the data of a blank image is not stored.                        *)
PutSharing(d, t, i) ==
  IF Kind = "mbtiles" /\ i \in Blank
  THEN [map |-> [d.map EXCEPT ![t] = i], images |-> d.images]
  ELSE [map |-> [d.map EXCEPT ![t] = t], images |-> [d.images EXCEPT ![t] = i]]

(* MBTiles keeps one image for all tiles of one color, under that color.   *)
Put(d, t, i) ==
  IF Kind = "mbtiles" /\ i \in Blank
  THEN [map |-> [d.map EXCEPT ![t] = i],
        images |-> [d.images EXCEPT ![i] = IF @ = None THEN i ELSE @]]
  ELSE [map |-> [d.map EXCEPT ![t] = t], images |-> [d.images EXCEPT ![t] = i]]

Change(d, w) == IF w[2] = None THEN Del(d, w[1]) ELSE Put(d, w[1], w[2])

Init ==
  /\ PoolInit
  /\ op = [t \in Threads |-> None] /\ todo = [t \in Threads |-> {}]
  /\ got = [t \in Threads |-> None] /\ answer = [t \in Threads |-> "ok"]
  /\ calls = 0
  /\ db = Empty /\ txn = NoTxn
  /\ handle = [p \in Processes |-> None]
  /\ tiff = [file |-> "none", lock |-> None, work |-> None]

-----------------------------------------------------------------------------
(* Calls begin and end.                                                     *)

(* With an error in its context a request reads and deletes; the seeder,   *)
(* which keeps it, also calls tile_set, to transfer what it did not get,   *)
(* but stores no metatile.                                                 *)
Start(t) ==
  /\ pc[t] = "idle" /\ calls < MaxCalls
  /\ \E o \in program.ops :
       /\ err[t] => o.name # "multiset" /\ (o.name = "set" => program.sticky)
       /\ op' = [op EXCEPT ![t] = o]
       /\ todo' = [todo EXCEPT ![t] = o.writes]
       /\ access' = [access EXCEPT ![t] = IF o.name \in {"has", "get"} THEN "ro" ELSE "rw"]
       /\ Goto(t, CASE Kind = "mbtiles" /\ o.name = "multiset" -> "encode"
                    [] Pooled /\ ~(Kind = "mbtiles" /\ o.name = "multiset") -> "pool"
                    [] Kind = "tc" -> "tcopen"
                    [] Kind \in {"memcache", "s3"} -> "remote"
                    [] Kind = "tiff" -> "tiff")
  /\ got' = [got EXCEPT ![t] = None]
  /\ calls' = calls + 1
  /\ UNCHANGED <<program, err, conn, table, mutex, idle, total, open, answer, dbVars>>

(* The caller sees an error of its context, or what the call found.        *)
Finish(t) ==
  /\ Goto(t, "idle")
  /\ op' = [op EXCEPT ![t] = None]
  /\ todo' = [todo EXCEPT ![t] = {}]
  /\ answer' = [answer EXCEPT ![t] = IF err'[t] THEN "error"
                                     ELSE IF ~Reads(t) THEN "ok"
                                     ELSE IF got'[t] = None THEN "miss" ELSE got'[t]]
  /\ UNCHANGED <<program, access, table, mutex, calls>>

Raise(t) == err' = [err EXCEPT ![t] = TRUE]

(* A request that is over takes its context with it.                       *)
Forgive(t) ==
  /\ pc[t] = "idle" /\ err[t] /\ ~program.sticky
  /\ err' = [err EXCEPT ![t] = FALSE]
  /\ UNCHANGED <<program, pc, access, conn, table, mutex, idle, total, open, callVars, dbVars>>

(* _mapcache_cache_mbtiles_multi_set encodes before it asks for the        *)
(* connection.                                                             *)
EncodeFirst(t) ==
  /\ pc[t] = "encode"
  /\ \/ /\ Goto(t, "pool")
        /\ UNCHANGED <<program, access, err, table, mutex, callVars>>
     \/ /\ "encode" \in MayFail
        /\ Raise(t) /\ UNCHANGED got /\ Finish(t)
  /\ UNCHANGED <<conn, idle, total, open, dbVars>>

GetConn(t) == PoolStep(t) /\ UNCHANGED <<callVars, dbVars>>

(* Mutant: a closed connection keeps its transaction.                      *)
CloseNothing == UNCHANGED txn

(* Connections that are closed drop what they have not committed.          *)
CloseTxn == txn' = IF txn.owner \in open' THEN txn ELSE NoTxn

(* Some callers use the connection they did not get.                       *)
UsesNull(t) ==
  \/ Sql /\ op[t].name \in {"has", "delete"}
  \/ Kind = "mbtiles" /\ op[t].name = "multiset"

Refused(t) ==
  /\ pc[t] = "refused" /\ ~UsesNull(t)
  /\ UNCHANGED <<err, conn, idle, total, open, got, dbVars>>
  /\ Finish(t)

(* The process ends with its threads and their calls.                      *)
Die(t) ==
  /\ \/ AssertFails(t)
     \/ pc[t] = "refused" /\ UsesNull(t) /\ Abort(Mine(t))
  /\ op' = [u \in Threads |-> IF Mine(u) = Mine(t) THEN None ELSE op[u]]
  /\ CloseTxn
  /\ UNCHANGED <<todo, got, answer, calls, db, handle, tiff>>

(* Mutant: a reader that found nothing keeps its connection.               *)
ReleaseFound(t) ==
  /\ pc[t] = "release"
  /\ IF Reads(t) /\ got[t] = None /\ ~err[t] THEN Leak(t) ELSE GiveBack(t)
  /\ CloseTxn /\ UNCHANGED <<err, got, db, handle, tiff>> /\ Finish(t)

Release(t) ==
  /\ pc[t] = "release"
  /\ GiveBack(t) /\ CloseTxn
  /\ UNCHANGED <<err, got, db, handle, tiff>> /\ Finish(t)

-----------------------------------------------------------------------------
(* SQLite and MBTiles. Sets are transactions: BEGIN, the statements, END   *)
(* or ROLLBACK. The first statement takes the write lock, or waits for it. *)

SqlStep(t) == Sql /\ pc[t] = "use" /\ UNCHANGED <<access, program, conn, table, mutex,
                                                  idle, total, open, op, answer, calls, handle, tiff>>
Readers == {t \in Threads : pc[t] = "row"}
CanWrite(t) == txn.owner \in {None, conn[t]}
Base(t) == IF txn.owner = conn[t] THEN txn.work ELSE db

(* An error the context brought along. The calls that store return at once *)
(* and do not give the connection back.                                    *)
SqlOldError(t) ==
  /\ SqlStep(t) /\ err[t] /\ ~Sets(t)
  /\ Goto(t, "release") /\ UNCHANGED <<err, todo, got, db, txn>>

SqlLeaks(t) ==
  /\ Sql /\ pc[t] = "use" /\ err[t] /\ Sets(t)
  /\ Leak(t)
  /\ UNCHANGED <<err, got, dbVars>> /\ Finish(t)

(* A read locks the database until the statement is reset. A commit that   *)
(* could not be done bars new readers.                                     *)
SqlLook(t, name) ==
  /\ SqlStep(t) /\ ~err[t] /\ op[t].name = name /\ txn.kept = None
  /\ got' = [got EXCEPT ![t] = Content(db, op[t].tile)]
  /\ Goto(t, "row") /\ UNCHANGED <<err, todo, db, txn>>

SqlHas(t) == SqlLook(t, "has")
SqlGet(t) == SqlLook(t, "get")

SqlReset(t) ==
  /\ pc[t] = "row"
  /\ Goto(t, "release")
  /\ UNCHANGED <<program, access, err, conn, table, mutex, idle, total, open, callVars, dbVars>>

SqlWrite(t) ==
  /\ SqlStep(t) /\ ~err[t] /\ Sets(t) /\ CanWrite(t)
  /\ \E w \in todo[t] :
       /\ txn' = [owner |-> conn[t], work |-> Change(Base(t), w),
                  kept |-> IF txn.owner = conn[t] THEN txn.kept ELSE None]
       /\ todo' = [todo EXCEPT ![t] = @ \ {w}]
  /\ UNCHANGED <<pc, err, got, db>>

(* A statement or an encoder fails: ROLLBACK TRANSACTION. tile_exists does *)
(* not try again when it is barred.                                        *)
SqlFails(t) ==
  /\ SqlStep(t) /\ ~err[t] /\ ~(Kind = "mbtiles" /\ op[t].name = "delete")
  /\ \/ "write" \in MayFail \/ (op[t].name = "has" /\ txn.kept # None)
     \/ "encode" \in MayFail /\ Sets(t)
  /\ Raise(t) /\ Goto(t, "release")
  /\ txn' = IF txn.owner = conn[t] /\ Sets(t) THEN NoTxn ELSE txn
  /\ UNCHANGED <<todo, got, db>>

(* END TRANSACTION waits for the readers. Its result is ignored: when it   *)
(* has waited too long the transaction stays open, and the next one on the *)
(* connection continues it.                                                *)
SqlCommit(t) ==
  /\ SqlStep(t) /\ ~err[t] /\ Sets(t) /\ todo[t] = {}
  /\ \/ Readers = {} /\ db' = txn.work /\ txn' = NoTxn
     \/ /\ Readers # {} /\ "commit" \in MayFail
        /\ txn' = [txn EXCEPT !.kept = txn.work] /\ UNCHANGED db
  /\ Goto(t, "release")
  /\ UNCHANGED <<err, todo, got>>

(* A delete is a transaction of its own, or part of one that stayed open.  *)
SqlDelete(t) ==
  /\ SqlStep(t) /\ ~err[t] /\ op[t].name = "delete" /\ Kind = "sqlite"
  /\ \E w \in op[t].writes :
       \/ /\ txn.owner = None /\ Readers = {}
          /\ db' = Change(db, w) /\ todo' = [todo EXCEPT ![t] = {}]
          /\ UNCHANGED <<txn, err>>
       \/ /\ txn.owner = conn[t]
          /\ txn' = [txn EXCEPT !.work = Change(@, w), !.kept = Change(txn.work, w)]
          /\ todo' = [todo EXCEPT ![t] = {}]
          /\ UNCHANGED <<db, err>>
       \/ /\ txn.owner # conn[t] /\ (txn.owner # None \/ Readers # {}) /\ "commit" \in MayFail
          /\ Raise(t) /\ UNCHANGED <<db, txn, todo>>
  /\ Goto(t, "release")
  /\ UNCHANGED got

(* MBTiles' statement names a column, tile_col, that its table has not.    *)
MbtilesDelete(t) ==
  /\ SqlStep(t) /\ ~err[t] /\ op[t].name = "delete" /\ Kind = "mbtiles"
  /\ Raise(t) /\ Goto(t, "release")
  /\ UNCHANGED <<todo, got, db, txn>>

-----------------------------------------------------------------------------
(* Berkeley DB.                                                             *)

BdbStep(t) == Kind = "bdb" /\ pc[t] = "use"
KeepsAll(t) == UNCHANGED <<conn, idle, total, open>>

(* The functions return with their connection when the context has an      *)
(* error, an old one or that of an encoder.                                *)
BdbLeaks(t) ==
  /\ BdbStep(t) /\ (err[t] \/ (Sets(t) /\ todo[t] # {} /\ "encode" \in MayFail))
  /\ Raise(t) /\ Leak(t)
  /\ UNCHANGED <<got, dbVars>> /\ Finish(t)

BdbLook(t, name) ==
  /\ BdbStep(t) /\ ~err[t] /\ op[t].name = name
  /\ got' = [got EXCEPT ![t] = Content(db, op[t].tile)]
  /\ Goto(t, "release") /\ KeepsAll(t)
  /\ UNCHANGED <<program, access, err, table, mutex, op, todo, answer, calls, dbVars>>

BdbHas(t) == BdbLook(t, "has")
BdbGet(t) == BdbLook(t, "get")

(* Every tile is put, or deleted, on its own.                              *)
BdbWrite(t) ==
  /\ BdbStep(t) /\ ~err[t]
  /\ \E w \in todo[t] :
       /\ db' = Change(db, w)
       /\ todo' = [todo EXCEPT ![t] = @ \ {w}]
  /\ KeepsAll(t)
  /\ UNCHANGED <<program, pc, access, err, table, mutex, op, got, answer, calls, txn, handle, tiff>>

(* A put, a del or the final sync fails.                                   *)
BdbFails(t) ==
  /\ BdbStep(t) /\ ~err[t] /\ "write" \in MayFail
  /\ Raise(t) /\ Goto(t, "release") /\ KeepsAll(t)
  /\ UNCHANGED <<program, access, table, mutex, callVars, dbVars>>

BdbSync(t) ==
  /\ BdbStep(t) /\ ~err[t] /\ ~Reads(t) /\ todo[t] = {}
  /\ Goto(t, "release") /\ KeepsAll(t)
  /\ UNCHANGED <<program, access, err, table, mutex, callVars, dbVars>>

-----------------------------------------------------------------------------
(* Tokyo Cabinet. The file is opened for each call. A process that has it  *)
(* open cannot open it again; other processes wait.                        *)

TcOpen(t) ==
  /\ pc[t] = "tcopen"
  /\ \/ /\ handle[Mine(t)] # None
        /\ Raise(t)
        /\ UNCHANGED <<handle, got>> /\ Finish(t)
     \/ /\ handle[Mine(t)] = None
        /\ \A p \in Processes : handle[p] = "rw" \/ access[t] = "rw" => handle[p] = None
        /\ handle' = [handle EXCEPT ![Mine(t)] = access[t]]
        /\ UNCHANGED <<err, got>>
        /\ IF err[t] THEN Finish(t)
                     ELSE Goto(t, "tc") /\ UNCHANGED <<program, access, table, mutex, op,
                                                       todo, answer, calls>>
  /\ KeepsAll(t) /\ UNCHANGED <<db, txn, tiff>>

TcStep(t, names) ==
  /\ pc[t] = "tc" /\ op[t].name \in names
  /\ Goto(t, "tcclose") /\ KeepsAll(t)
  /\ UNCHANGED <<program, access, table, mutex, op, answer, calls, txn, handle, tiff>>

TcLook(t, name) ==
  /\ TcStep(t, {name})
  /\ got' = [got EXCEPT ![t] = Content(db, op[t].tile)]
  /\ UNCHANGED <<err, todo, db>>

TcHas(t) == TcLook(t, "has")
TcGet(t) == TcLook(t, "get")

TcSet(t) ==
  /\ TcStep(t, {"set", "multiset"}) /\ UNCHANGED got
  /\ \/ /\ \E w \in todo[t] : db' = Change(db, w) /\ todo' = [todo EXCEPT ![t] = @ \ {w}]
        /\ UNCHANGED err
     \/ "write" \in MayFail /\ Raise(t) /\ UNCHANGED <<todo, db>>

(* The result of the deletion is ignored.                                  *)
TcDelete(t) ==
  /\ TcStep(t, {"delete"}) /\ UNCHANGED <<err, got>>
  /\ \E w \in todo[t] : db' = Change(db, w) /\ todo' = [todo EXCEPT ![t] = @ \ {w}]

(* The encoder failed: the database stays open.                            *)
TcLeaks(t) ==
  /\ pc[t] = "tc" /\ Sets(t) /\ "encode" \in MayFail
  /\ Raise(t)
  /\ UNCHANGED <<got, dbVars>> /\ KeepsAll(t) /\ Finish(t)

(* Several tiles are several calls.                                        *)
TcClose(t) ==
  /\ pc[t] = "tcclose"
  /\ handle' = [handle EXCEPT ![Mine(t)] = None]
  /\ KeepsAll(t) /\ UNCHANGED <<err, got, db, txn, tiff>>
  /\ IF todo[t] # {} /\ ~err[t]
     THEN Goto(t, "tcopen") /\ UNCHANGED <<program, access, table, mutex, op, todo, answer, calls>>
     ELSE Finish(t)

-----------------------------------------------------------------------------
(* memcached and S3: one request per tile.                                  *)

Remote(t, kind, name) ==
  /\ pc[t] = "remote" /\ ~err[t] /\ Kind = kind
  /\ op[t].name \in IF name = "set" THEN {"set", "multiset"} ELSE {name}
  /\ KeepsAll(t)
  /\ UNCHANGED <<program, access, table, mutex, op, answer, calls, txn, handle, tiff>>

(* Without a key, after an old error, there is no request.                 *)
RemoteOldError(t) ==
  /\ pc[t] = "remote" /\ err[t]
  /\ KeepsAll(t) /\ UNCHANGED <<err, got, dbVars>> /\ Finish(t)

Replies(t, i) ==
  /\ got' = [got EXCEPT ![t] = i]
  /\ Goto(t, "replied") /\ UNCHANGED <<err, todo, db>>

Stored(t) ==
  \E w \in todo[t] :
    /\ db' = Change(db, w) /\ todo' = [todo EXCEPT ![t] = @ \ {w}]
    /\ UNCHANGED <<pc, err, got>>

NotStored(t, W) ==
  \E w \in todo[t] \intersect W :
    /\ todo' = [todo EXCEPT ![t] = @ \ {w}]
    /\ UNCHANGED <<pc, err, got, db>>

RequestFails(t) == Raise(t) /\ Goto(t, "replied") /\ UNCHANGED <<got, todo, db>>

(* No failure of a read is told from a tile that is not there, but for an  *)
(* answer with nothing in it.                                              *)
McHas(t) ==
  /\ Remote(t, "memcache", "has")
  /\ \/ Replies(t, Content(db, op[t].tile))
     \/ "write" \in MayFail /\ Replies(t, None)

McGet(t) ==
  /\ Remote(t, "memcache", "get")
  /\ \/ Replies(t, Content(db, op[t].tile))
     \/ "write" \in MayFail /\ (Replies(t, None) \/ RequestFails(t))

McSet(t) ==
  /\ Remote(t, "memcache", "set")
  /\ Stored(t) \/ (todo[t] # {} /\ MayFail \intersect {"encode", "write"} # {} /\ RequestFails(t))

McDelete(t) ==
  /\ Remote(t, "memcache", "delete")
  /\ Stored(t) \/ (todo[t] # {} /\ "write" \in MayFail /\ RequestFails(t))

(* S3 does not look at the outcome of a request. The tiles above maxzoom   *)
(* are neither stored nor found.                                           *)
S3Has(t) ==
  /\ Remote(t, "s3", "has")
  /\ \/ op[t].tile \notin High /\ Replies(t, Content(db, op[t].tile))
     \/ (op[t].tile \in High \/ "write" \in MayFail) /\ Replies(t, None)

(* It answers a failure, with no error, and the caller takes the tile to   *)
(* be there.                                                               *)
S3Get(t) ==
  /\ Remote(t, "s3", "get")
  /\ \/ op[t].tile \notin High /\ Replies(t, Content(db, op[t].tile))
     \/ op[t].tile \in High /\ Replies(t, None)
     \/ op[t].tile \notin High /\ "write" \in MayFail /\ Replies(t, "lost")

S3Set(t) ==
  /\ Remote(t, "s3", "set")
  /\ \/ Stored(t) /\ \A w \in todo[t] \ todo'[t] : w[1] \notin High
     \/ NotStored(t, High \X Images)
     \/ "write" \in MayFail /\ NotStored(t, Tiles \X Images)
     \/ todo[t] # {} /\ "encode" \in MayFail /\ RequestFails(t)

S3Delete(t) ==
  /\ Remote(t, "s3", "delete")
  /\ Stored(t) \/ ("write" \in MayFail /\ NotStored(t, Tiles \X {None}))

RemoteDone(t) ==
  /\ \/ pc[t] = "replied"
     \/ pc[t] = "remote" /\ ~err[t] /\ ~Reads(t) /\ todo[t] = {}
  /\ UNCHANGED <<err, got, dbVars>> /\ KeepsAll(t) /\ Finish(t)

(* memcached drops what is old, or what it has no room for.                *)
Evict(t) ==
  /\ Kind = "memcache"
  /\ db' = Del(db, t)
  /\ UNCHANGED <<poolVars, callVars, txn, handle, tiff>>

-----------------------------------------------------------------------------
(* TIFF. A lock file of its own serialises the writers; readers take none. *)

TiffStep(t, l) ==
  /\ pc[t] = l /\ KeepsAll(t)
  /\ UNCHANGED <<program, access, table, mutex, op, answer, calls, txn, handle>>

(* A file that cannot be opened is a tile that is not there. The directory *)
(* is read first, and then the data, from another handle.                  *)
TiffLook(t, name) ==
  /\ TiffStep(t, "tiff") /\ op[t].name = name /\ ~err[t]
  /\ got' = [got EXCEPT ![t] = IF tiff.file = "whole" THEN Content(db, op[t].tile) ELSE None]
  /\ Goto(t, "tiffread") /\ UNCHANGED <<err, todo, db, tiff>>

TiffHas(t) == TiffLook(t, "has")
TiffGet(t) == TiffLook(t, "get")

(* Who reads the data of a tile that is written again may get a mixture.   *)
Rewritten(t) ==
  \/ Content(db, op[t].tile) # got[t]
  \/ tiff.work # None /\ tiff.work[1] = op[t].tile

TiffRead(t) ==
  /\ TiffStep(t, "tiffread")
  /\ \/ UNCHANGED <<err, got>>
     \/ /\ op[t].name = "get" /\ got[t] # None /\ Rewritten(t)
        /\ got' = [got EXCEPT ![t] = "torn"] /\ UNCHANGED err
     \/ /\ op[t].name = "get" /\ got[t] # None /\ "write" \in MayFail
        /\ Raise(t) /\ UNCHANGED got
  /\ Goto(t, "replied") /\ UNCHANGED <<todo, db, tiff>>

(* "TIFF cache tile deleting not implemented"                              *)
TiffRefuse(t) ==
  /\ pc[t] = "tiff" /\ (err[t] \/ op[t].name = "delete") /\ KeepsAll(t)
  /\ Raise(t) /\ UNCHANGED <<got, dbVars>> /\ Finish(t)

(* The directory is made and the tile decoded without the lock.            *)
TiffPrepare(t) ==
  /\ TiffStep(t, "tiff") /\ Sets(t) /\ ~err[t]
  /\ \/ Goto(t, "tifflock") /\ UNCHANGED err
     \/ "encode" \in MayFail /\ Raise(t) /\ Goto(t, "replied")
  /\ UNCHANGED <<got, todo, db, tiff>>

(* While the lock file is not made, whatever the reason, it is tried again *)
(* for ever.                                                               *)
TiffLock(t) ==
  /\ TiffStep(t, "tifflock")
  /\ tiff.lock = None /\ program.lockdir
  /\ tiff' = [tiff EXCEPT !.lock = t]
  /\ Goto(t, "tiffopen") /\ UNCHANGED <<err, got, todo, db>>

(* What exists is opened, even what no earlier writer could finish.        *)
TiffOpen(t) ==
  /\ TiffStep(t, "tiffopen")
  /\ \/ /\ tiff.file # "broken"
        /\ \E w \in todo[t] :
             tiff' = [tiff EXCEPT !.work = w, !.file = IF @ = "none" THEN "broken" ELSE @]
        /\ UNCHANGED err
     \/ /\ tiff.file = "broken" \/ "write" \in MayFail
        /\ Raise(t) /\ UNCHANGED tiff
  /\ Goto(t, "tiffclose") /\ UNCHANGED <<got, todo, db>>

(* TIFFWriteEncodedTile, TIFFWriteDirectory, TIFFClose and the unlocking.  *)
TiffClose(t) ==
  /\ TiffStep(t, "tiffclose")
  /\ \/ /\ ~err[t]
        /\ db' = Change(db, tiff.work) /\ todo' = [todo EXCEPT ![t] = @ \ {tiff.work}]
        /\ UNCHANGED err
        /\ tiff' = [tiff EXCEPT !.file = "whole", !.work = None, !.lock = None]
     \/ /\ err[t] \/ "write" \in MayFail
        /\ Raise(t) /\ UNCHANGED <<todo, db>>
        /\ tiff' = [tiff EXCEPT !.work = None, !.lock = None]
  /\ Goto(t, IF todo'[t] # {} /\ ~err'[t] THEN "tiff" ELSE "replied")
  /\ UNCHANGED got

-----------------------------------------------------------------------------
SqlSteps(t) ==
  \/ SqlOldError(t) \/ SqlLeaks(t) \/ SqlHas(t) \/ SqlGet(t) \/ SqlReset(t) \/ SqlWrite(t) \/ SqlCommit(t)
  \/ SqlDelete(t) \/ MbtilesDelete(t)
BdbSteps(t) == BdbLeaks(t) \/ BdbHas(t) \/ BdbGet(t) \/ BdbWrite(t) \/ BdbFails(t) \/ BdbSync(t)
TcSteps(t) == TcOpen(t) \/ TcHas(t) \/ TcGet(t) \/ TcSet(t) \/ TcDelete(t)
              \/ TcLeaks(t) \/ TcClose(t)
RemoteSteps(t) ==
  \/ RemoteOldError(t) \/ McHas(t) \/ McGet(t) \/ McSet(t) \/ McDelete(t)
  \/ S3Has(t) \/ S3Get(t) \/ S3Set(t) \/ S3Delete(t) \/ RemoteDone(t)
TiffSteps(t) ==
  \/ TiffHas(t) \/ TiffGet(t) \/ TiffRead(t) \/ TiffRefuse(t) \/ TiffPrepare(t) \/ TiffLock(t)
  \/ TiffOpen(t) \/ TiffClose(t)

CallStep(t) ==
  \/ EncodeFirst(t) \/ GetConn(t) \/ Refused(t) \/ Die(t) \/ Release(t)
  \/ SqlSteps(t) \/ BdbSteps(t) \/ TcSteps(t) \/ RemoteSteps(t) \/ TiffSteps(t)

Next ==
  \/ \E t \in Threads : Start(t) \/ Forgive(t) \/ CallStep(t) \/ SqlFails(t)
  \/ \E t \in Tiles : Evict(t)

Spec == Init /\ [][Next]_vars

(* Threads are scheduled; nobody has to call, no statement has to fail, and *)
(* nothing has to be lost.                                                 *)
FairSpec == Spec /\ \A t \in Threads : WF_vars(CallStep(t))

-----------------------------------------------------------------------------
(* Properties.                                                              *)

DbType == [map : [Tiles -> Ids \union {None}], images : [Ids -> Images \union {None}]]
ASSUME NoneIsNothing ==
  /\ None \notin DbType /\ None \notin [Tiles -> Images \union {None}]
  /\ None \notin [tile : Tiles \union {None}, whole : SUBSET (Tiles \X (Images \union {None})),
                 rest : SUBSET (Tiles \X (Images \union {None})),
                 seen : Images \union {"torn", "lost", "ok", "miss", None}]
Places == {"idle", "encode", "pool", "lock", "recheck", "makerw", "found", "acquire",
           "refused", "use", "row", "release", "tcopen", "tc", "tcclose", "remote", "replied", "tiff",
           "tiffread", "tifflock", "tiffopen", "tiffclose", "dead"}

(* Every variable keeps its type; only a writing connection has begun a    *)
(* transaction, and it is open.                                            *)
TypeOK ==
  /\ PoolTypeOK /\ pc \in [Threads -> Places]
  /\ op \in [Threads -> program.ops \union {None}]
  /\ todo \in [Threads -> SUBSET (Tiles \X (Images \union {None}))]
  /\ got \in [Threads -> Images \union {"torn", "lost", None}]
  /\ answer \in [Threads -> Images \union {"torn", "lost", "ok", "miss", "error"}]
  /\ calls \in 0 .. MaxCalls
  /\ db \in DbType
  /\ txn # NoTxn =>
       txn.owner \in open /\ txn.owner.pool.access = "rw" /\ txn.work \in DbType
  /\ handle \in [Processes -> Access \union {None}]
  /\ tiff.lock = None => tiff.work = None

(* A connection that is open but neither idle nor in use is lost. SQLite   *)
(* and MBTiles lose none in a request, on no path of a call; a process     *)
(* that keeps its errors loses its writer, when tile_set is called with    *)
(* one. Berkeley DB loses readers and writers, to errors as well.          *)
Lost == open \ (Held \union Idle)
HasError(p) == \E t \in Threads : Mine(t) = p /\ err[t]
NothingLeaks ==
  \A c \in Lost :
    /\ program.sticky => HasError(Mine(c.pool.maker))
    /\ Kind = "bdb" \/ (Sql /\ program.sticky /\ c.pool.access = "rw")

(* The calls keep what the callers of a cache rely on.                     *)
Pending(t) ==
  IF Sql THEN IF pc[t] = "release" /\ ~err[t] THEN {} ELSE op[t].writes
  ELSE todo[t]
Careless == Kind \in {"memcache", "s3"}
Seen(t) ==
  IF pc[t] \notin {"row", "release", "tcclose", "tiffread", "replied"} THEN None
  ELSE IF got[t] = None /\ ~Careless /\ ~err[t] THEN "miss"
  ELSE IF got[t] = "lost" THEN None ELSE got[t]
Shown == [t \in Tiles |-> Content(db, t)]
Late == IF txn.kept = None THEN None ELSE [t \in Tiles |-> Content(txn.kept, t)]
CallOf(t) ==
  IF op[t] = None THEN None
  ELSE [tile |-> IF Reads(t) THEN op[t].tile ELSE None, whole |-> op[t].writes, rest |-> Pending(t),
        seen |-> IF Reads(t) THEN Seen(t) ELSE "ok"]
Calls == [t \in Threads |-> CallOf(t)]
Store == INSTANCE TileStore WITH
  Clients <- Threads, atomic <- Sql, careless <- Careless, fragile <- Kind = "tiff",
  store <- Shown, late <- Late, call <- Calls
StoreSpec == Store!Spec

(* A call ended without its connection or its handle, or without the end   *)
(* of its transaction.                                                     *)
Abandoned ==
  \/ open # Held \union Idle \/ txn.kept # None
  \/ \E p \in Processes :
       handle[p] # None /\ \A t \in Threads : Mine(t) = p => pc[t] \notin {"tc", "tcclose"}

(* A writer of a TIFF file that cannot make its lock file.                 *)
Spins(t) == pc[t] = "tifflock" /\ ~program.lockdir

(* Every call ends, or its process does, unless an earlier one abandoned   *)
(* what it waits for, or it spins.                                         *)
CallsEnd ==
  \A t \in Threads :
    pc[t] # "idle" ~> pc[t] \in {"idle", "dead"} \/ Abandoned \/ Spins(t)
=============================================================================
