----------------------------- MODULE ConnPools ------------------------------
(***************************************************************************)
(* The connection pools of the SQLite, MBTiles and Berkeley DB caches,     *)
(* lib/cache_sqlite.c and lib/cache_bdb.c: two pools per cache and         *)
(* process, one of connections that read and one of at most one connection *)
(* that writes, made by the first thread that finds none. An apr_reslist   *)
(* hands out an idle connection, opens one while it has made fewer than    *)
(* its hard maximum, and otherwise waits.                                  *)
(***************************************************************************)
EXTENDS Integers, FiniteSets

CONSTANTS
  Threads,    \* those that use the cache
  Processes,  \* and the processes they belong to
  RoMax,      \* connections a pool of readers may make, 200 in the code
  MaxConns,   \* bound: the connections that are open at once, per pool
  Programs,   \* the kind of cache, and what the program gives its threads
  MayFail,    \* what may fail in this run
  None

(* A program has its threads in one process or in several, with a mutex or *)
(* without (the CGI and nginx); its contexts keep an error for ever (the   *)
(* seeder) or for one request.                                             *)
ASSUME PoolAssumption ==
  /\ RoMax \in Nat \ {0} /\ MaxConns \in Nat \ {0}
  /\ \A g \in Programs : /\ {g.mutex, g.sticky} \subseteq BOOLEAN
                         /\ g.process \in [Threads -> Processes]
  /\ MayFail \subseteq {"pool", "open", "encode", "write", "commit"}

Access == {"ro", "rw"}
HardMax(a) == IF a = "ro" THEN RoMax ELSE 1
PoolIds == [maker : Threads, access : Access]
Conns == [pool : PoolIds, n : 1 .. MaxConns]

ASSUME NoneAssumption == None \notin Threads \union PoolIds \union Conns

VARIABLES
  program,  \* one of Programs
  pc,       \* pc[t]: where thread t is
  access,   \* access[t]: the pool it wants
  err,      \* err[t]: its context has an error
  conn,     \* conn[t]: the connection it holds
  table,    \* table[p][a]: the pool published in process p
  mutex,    \* mutex[p]: the thread in the critical section of process p
  idle,     \* idle[q]: the connections of pool q nobody holds
  total,    \* total[q]: how many connections pool q counts
  open      \* the connections that are open

poolVars == <<program, pc, access, err, conn, table, mutex, idle, total, open>>

Mine(t) == program.process[t]
Goto(t, l) == pc' = [pc EXCEPT ![t] = l]
Leave(t) == mutex' = [mutex EXCEPT ![Mine(t)] = None]

PoolInit ==
  /\ program \in Programs
  /\ pc = [t \in Threads |-> "idle"]
  /\ access = [t \in Threads |-> "ro"]
  /\ err = [t \in Threads |-> FALSE]
  /\ conn = [t \in Threads |-> None]
  /\ table = [p \in Processes |-> [a \in Access |-> None]]
  /\ mutex = [p \in Processes |-> None]
  /\ idle = [q \in PoolIds |-> {}]
  /\ total = [q \in PoolIds |-> 0]
  /\ open = {}

-----------------------------------------------------------------------------
(* _sqlite_get_conn and _bdb_get_conn: find the pool, or make both.         *)

(* The first look is taken without the mutex.                              *)
LookUp(t) ==
  /\ pc[t] = "pool"
  /\ \/ table[Mine(t)][access[t]] # None /\ Goto(t, "acquire")
     \/ table[Mine(t)][access[t]] = None /\ Goto(t, "lock")
  /\ UNCHANGED <<program, access, err, conn, table, mutex, idle, total, open>>

Lock(t) ==
  /\ pc[t] = "lock"
  /\ IF program.mutex
     THEN mutex[Mine(t)] = None /\ mutex' = [mutex EXCEPT ![Mine(t)] = t]
     ELSE UNCHANGED mutex
  /\ Goto(t, "recheck")
  /\ UNCHANGED <<program, access, err, conn, table, idle, total, open>>

Publish(t, a) ==
  LET q == [maker |-> t, access |-> a]
  IN  /\ table' = [table EXCEPT ![Mine(t)][a] = q]
      /\ idle' = [idle EXCEPT ![q] = {}]
      /\ total' = [total EXCEPT ![q] = 0]

(* Mutant: the pools are made without looking again.                       *)
MakeReadersBlindly(t) ==
  /\ pc[t] = "recheck"
  /\ Publish(t, "ro") /\ Goto(t, "makerw") /\ UNCHANGED mutex
  /\ UNCHANGED <<program, access, err, conn, open>>

(* Another thread may have made them while this one waited for the mutex.  *)
MakeReaders(t) ==
  /\ pc[t] = "recheck"
  /\ \/ /\ table[Mine(t)]["ro"] # None
        /\ Leave(t) /\ Goto(t, "found")
        /\ UNCHANGED <<err, table, idle, total>>
     \/ /\ table[Mine(t)]["ro"] = None
        /\ Publish(t, "ro") /\ Goto(t, "makerw")
        /\ UNCHANGED <<err, mutex>>
     \/ /\ table[Mine(t)]["ro"] = None /\ "pool" \in MayFail
        /\ err' = [err EXCEPT ![t] = TRUE]
        /\ Leave(t) /\ Goto(t, "refused")
        /\ UNCHANGED <<table, idle, total>>
  /\ UNCHANGED <<program, access, conn, open>>

(* Mutant: the mutex is kept when there is no pool.                        *)
MakeWriterLocked(t) ==
  /\ pc[t] = "makerw"
  /\ \/ /\ Publish(t, "rw") /\ Leave(t) /\ Goto(t, "found")
        /\ UNCHANGED err
     \/ /\ "pool" \in MayFail
        /\ err' = [err EXCEPT ![t] = TRUE]
        /\ Goto(t, "refused")
        /\ UNCHANGED <<table, idle, total, mutex>>
  /\ UNCHANGED <<program, access, conn, open>>

MakeWriter(t) ==
  /\ pc[t] = "makerw"
  /\ \/ /\ Publish(t, "rw") /\ Leave(t) /\ Goto(t, "found")
        /\ UNCHANGED err
     \/ /\ "pool" \in MayFail
        /\ err' = [err EXCEPT ![t] = TRUE]
        /\ Leave(t) /\ Goto(t, "refused")
        /\ UNCHANGED <<table, idle, total>>
  /\ UNCHANGED <<program, access, conn, open>>

(* A process that ends takes its threads and connections with it.          *)
Abort(p) ==
  /\ pc' = [t \in Threads |-> IF Mine(t) = p THEN "dead" ELSE pc[t]]
  /\ conn' = [t \in Threads |-> IF Mine(t) = p THEN None ELSE conn[t]]
  /\ open' = {c \in open : Mine(c.pool.maker) # p}
  /\ idle' = [q \in PoolIds |-> IF Mine(q.maker) = p THEN {} ELSE idle[q]]
  /\ UNCHANGED <<program, access, err, table, mutex, total>>

(* assert(pool): without it, readers were published and writers were not.  *)
Found(t) ==
  /\ pc[t] = "found"
  /\ table[Mine(t)][access[t]] # None
  /\ Goto(t, "acquire")
  /\ UNCHANGED <<program, access, err, conn, table, mutex, idle, total, open>>

AssertFails(t) ==
  /\ pc[t] = "found"
  /\ table[Mine(t)][access[t]] = None
  /\ Abort(Mine(t))

-----------------------------------------------------------------------------
(* apr_reslist_acquire, apr_reslist_release and apr_reslist_invalidate.     *)

PoolOf(t) == table[Mine(t)][access[t]]

TakeIdle(t) ==
  /\ pc[t] = "acquire"
  /\ \E c \in idle[PoolOf(t)] :
       /\ conn' = [conn EXCEPT ![t] = c]
       /\ idle' = [idle EXCEPT ![PoolOf(t)] = @ \ {c}]
  /\ Goto(t, "use")
  /\ UNCHANGED <<program, access, err, table, mutex, total, open>>

OpenConn(t) ==
  /\ pc[t] = "acquire"
  /\ idle[PoolOf(t)] = {} /\ total[PoolOf(t)] < HardMax(access[t])
  /\ \E n \in 1 .. MaxConns :
       LET c == [pool |-> PoolOf(t), n |-> n]
       IN  /\ c \notin open
           /\ \A i \in 1 .. n - 1 : [c EXCEPT !.n = i] \in open
           /\ open' = open \union {c}
           /\ conn' = [conn EXCEPT ![t] = c]
  /\ total' = [total EXCEPT ![PoolOf(t)] = @ + 1]
  /\ Goto(t, "use")
  /\ UNCHANGED <<program, access, err, table, mutex, idle>>

(* The database cannot be opened.                                          *)
OpenFails(t) ==
  /\ pc[t] = "acquire" /\ "open" \in MayFail
  /\ idle[PoolOf(t)] = {} /\ total[PoolOf(t)] < HardMax(access[t])
  /\ err' = [err EXCEPT ![t] = TRUE]
  /\ Goto(t, "refused")
  /\ UNCHANGED <<program, access, conn, table, mutex, idle, total, open>>

(* The connection goes to the pool that is published by now. It is closed  *)
(* when the context has an error, whatever failed.                         *)
GiveBack(t) ==
  LET q == table[Mine(t)][conn[t].pool.access]
  IN  /\ IF err[t]
         THEN /\ open' = open \ {conn[t]}
              /\ total' = [total EXCEPT ![q] = @ - 1]
              /\ UNCHANGED idle
         ELSE /\ idle' = [idle EXCEPT ![q] = @ \union {conn[t]}]
              /\ UNCHANGED <<open, total>>
      /\ conn' = [conn EXCEPT ![t] = None]

(* A caller that returns with the connection in its hand.                  *)
Leak(t) == conn' = [conn EXCEPT ![t] = None] /\ UNCHANGED <<open, total, idle>>

PoolStep(t) ==
  \/ LookUp(t) \/ Lock(t) \/ MakeReaders(t) \/ MakeWriter(t) \/ Found(t)
  \/ TakeIdle(t) \/ OpenConn(t) \/ OpenFails(t)

-----------------------------------------------------------------------------
(* Properties of the pools.                                                 *)

Held == {conn[t] : t \in Threads} \ {None}
Idle == UNION {idle[q] : q \in PoolIds}
Writers(p) == {t \in Threads : Mine(t) = p /\ conn[t] # None /\ conn[t].pool.access = "rw"}

PoolTypeOK ==
  /\ program \in Programs
  /\ access \in [Threads -> Access] /\ err \in [Threads -> BOOLEAN]
  /\ conn \in [Threads -> Conns \union {None}]
  /\ table \in [Processes -> [Access -> PoolIds \union {None}]]
  /\ mutex \in [Processes -> Threads \union {None}]
  /\ idle \in [PoolIds -> SUBSET Conns] /\ total \in [PoolIds -> Int]
  /\ open \subseteq Conns

(* A connection has one user, and what is held or idle is open; a process  *)
(* whose threads share a mutex has one writer ("probably doesn't exist,    *)
(* unless the previous mutex locked us, so we check", cache_sqlite.c:224). *)
ConnectionsExclusive ==
  /\ \A s, t \in Threads : s # t /\ conn[s] # None => conn[s] # conn[t]
  /\ Held \intersect Idle = {} /\ Held \union Idle \subseteq open
  /\ \A q, r \in PoolIds : q # r => idle[q] \intersect idle[r] = {}
  /\ program.mutex => \A p \in Processes : Cardinality(Writers(p)) <= 1
=============================================================================
