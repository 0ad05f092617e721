----------------------------- MODULE PoolProofs -----------------------------
(* What holds of the connection pools for all threads, processes, programs *)
(* and pool sizes: the invariants of one pool operation, for the caches    *)
(* that use the pools.                                                     *)
EXTENDS ConnPools, FiniteSetTheorems, TLAPS

(* Where a thread has a connection, between apr_reslist_acquire and        *)
(* apr_reslist_release.                                                    *)
Holding == {"use", "row", "release"}

PoolTypes == PoolTypeOK /\ pc = [t \in Threads |-> pc[t]]

HoldersHave == \A t \in Threads : pc[t] \in Holding <=> conn[t] # None

(* What is published for a process was made in it, the readers first.      *)
TablesOwn ==
  \A p \in Processes :
    /\ \A a \in Access : table[p][a] # None =>
         table[p][a].access = a /\ Mine(table[p][a].maker) = p
    /\ table[p]["rw"] # None => table[p]["ro"] # None

PoolsPublished ==
  \A t \in Threads : /\ pc[t] = "acquire" => table[Mine(t)][access[t]] # None
                     /\ pc[t] = "makerw" => table[Mine(t)]["ro"] # None

(* A connection that is held, or idle, is open and of the process that     *)
(* holds it, or whose pool it is in.                                       *)
HeldOwn ==
  \A t \in Threads : conn[t] # None =>
    /\ conn[t] \in open /\ Mine(conn[t].pool.maker) = Mine(t)
    /\ conn[t].pool.access = access[t] /\ table[Mine(t)][access[t]] # None
IdleOwn ==
  \A q \in PoolIds : \A c \in idle[q] :
    /\ c \in open /\ Mine(c.pool.maker) = Mine(q.maker)
    /\ c.pool.access = q.access /\ table[Mine(q.maker)][q.access] # None

HeldOnce == \A s, t \in Threads : s # t /\ conn[s] # None => conn[s] # conn[t]
IdleOnce == \A q \in PoolIds : /\ \A t \in Threads : conn[t] \notin idle[q]
                               /\ \A r \in PoolIds : q # r => idle[q] \intersect idle[r] = {}

PoolInv == /\ PoolTypes /\ HoldersHave /\ TablesOwn /\ PoolsPublished
           /\ HeldOwn /\ IdleOwn /\ HeldOnce /\ IdleOnce

(* With a mutex, the pool of writers of a process is made once, and what   *)
(* it counts is the one connection that is idle or in use.                 *)
MakersLock ==
  \A t \in Threads : /\ pc[t] \in {"recheck", "makerw"} => mutex[Mine(t)] = t
                     /\ pc[t] = "makerw" => table[Mine(t)]["rw"] = None
Writes(t) == conn[t] # None /\ conn[t].pool.access = "rw"
OneWriter ==
  /\ \A s, t \in Threads : s # t /\ Mine(s) = Mine(t) => ~(Writes(s) /\ Writes(t))
  /\ \A p \in Processes : LET q == table[p]["rw"] IN q # None =>
       /\ total[q] \in {0, 1}
       /\ \A c, d \in idle[q] : c = d
       /\ idle[q] # {} => total[q] = 1 /\ \A t \in Threads : Mine(t) = p => ~Writes(t)
       /\ total[q] = 0 => \A t \in Threads : Mine(t) = p => ~Writes(t)

MutexInv == program.mutex => MakersLock /\ OneWriter

(* A pool that is about to be made has no connections that making it could *)
(* lose.                                                                   *)
MadeOnce ==
  \A t \in Threads : pc[t] = "makerw" =>
    /\ idle[[maker |-> t, access |-> "rw"]] = {}
    /\ table[Mine(t)]["rw"] # [maker |-> t, access |-> "rw"]

AllInv == PoolInv /\ MutexInv /\ MadeOnce

(* A connection that is open after a step, and was not lost before it, is  *)
(* held or idle after it.                                                  *)
LosesNothing ==
  \A d \in open' : (d \in open => d \in Held \union Idle) => d \in Held' \union Idle'

(* A step of a thread that leaves the pools alone.                         *)
Outside(t) ==
  /\ UNCHANGED <<program, conn, table, mutex, idle, total, open>>
  /\ err' \in [Threads -> BOOLEAN] /\ access' \in [Threads -> Access]
  /\ pc' = [pc EXCEPT ![t] = pc'[t]] /\ \A u \in Threads \ {t} : access'[u] = access[u]
  /\ pc'[t] \notin {"recheck", "makerw", "acquire"}
  /\ pc[t] \in Holding <=> pc'[t] \in Holding
  /\ pc[t] \in Holding => access'[t] = access[t]

(* A step of a thread that has had its connection.                         *)
Ends(t) ==
  /\ UNCHANGED <<program, access, table, mutex>>
  /\ pc[t] \in Holding /\ pc' = [pc EXCEPT ![t] = "idle"]

LEMMA MineIn == PoolTypes => \A t \in Threads : Mine(t) \in Processes
BY PoolAssumption DEF PoolTypes, PoolTypeOK, Mine

LEMMA PoolsInitial == PoolInit => AllInv /\ open = {}
<1> SUFFICES ASSUME PoolInit PROVE AllInv /\ open = {}
  OBVIOUS
<1> USE DEF PoolInit
<1>1. PoolTypes
  BY DEF PoolTypes, PoolTypeOK, Access, PoolIds
<1>2. \A p \in Processes : \A a \in Access : table[p][a] = None
  BY DEF Access
<1>3. HoldersHave /\ TablesOwn /\ PoolsPublished /\ HeldOwn
  BY <1>2, NoneAssumption DEF HoldersHave, TablesOwn, PoolsPublished, HeldOwn, Holding, Access
<1>4. IdleOwn /\ HeldOnce /\ IdleOnce
  BY DEF IdleOwn, HeldOnce, IdleOnce
<1>5. MakersLock /\ MadeOnce
  <2>1. \A t \in Threads : pc[t] = "idle"
    OBVIOUS
  <2>2. QED
    BY <2>1 DEF MakersLock, MadeOnce
<1>6. OneWriter
  <2>1. \A p \in Processes : table[p]["rw"] = None
    BY <1>2 DEF Access
  <2>2. \A t \in Threads : ~Writes(t)
    BY DEF Writes
  <2>3. QED
    BY <2>1, <2>2 DEF OneWriter
<1>7. open = {}
  OBVIOUS
<1>8. QED
  BY <1>1, <1>3, <1>4, <1>5, <1>6, <1>7 DEF AllInv, PoolInv, MutexInv

LEMMA OutsideKeeps ==
  ASSUME AllInv, NEW t \in Threads, Outside(t)
  PROVE  AllInv' /\ LosesNothing
<1> USE DEF Outside, AllInv, PoolInv
<1>0. \A u \in Threads \ {t} : pc'[u] = pc[u]
  BY DEF PoolTypes
<1>1. PoolTypes'
  BY DEF PoolTypes, PoolTypeOK
<1>2. HoldersHave' /\ TablesOwn' /\ HeldOnce'
  BY <1>0 DEF HoldersHave, TablesOwn, HeldOnce, Mine
<1>3. PoolsPublished' /\ MadeOnce'
  BY <1>0 DEF PoolsPublished, MadeOnce, Mine
<1>4. HeldOwn'
  BY <1>0 DEF HeldOwn, HoldersHave, Mine
<1>5. IdleOwn' /\ IdleOnce'
  BY DEF IdleOwn, IdleOnce, Mine
<1>6. MutexInv'
  BY <1>0 DEF MutexInv, MakersLock, OneWriter, Mine, Writes
<1>7. LosesNothing
  BY DEF LosesNothing, Held, Idle
<1>8. QED
  BY <1>1, <1>2, <1>3, <1>4, <1>5, <1>6, <1>7

(* Looking for the pool: LookUp, Lock and Found.                           *)
LEMMA LookKeeps ==
  ASSUME AllInv, NEW t \in Threads, LookUp(t) \/ Lock(t) \/ Found(t)
  PROVE  AllInv' /\ LosesNothing
<1> USE DEF AllInv, PoolInv
<1>1. /\ UNCHANGED <<program, access, err, conn, table, idle, total, open>>
      /\ pc' = [pc EXCEPT ![t] = pc'[t]] /\ pc'[t] \in {"acquire", "lock", "recheck"}
      /\ pc[t] \in {"pool", "lock", "found"}
      /\ pc'[t] = "acquire" => table[Mine(t)][access[t]] # None
      /\ pc'[t] = "recheck" /\ program.mutex =>
           mutex[Mine(t)] = None /\ mutex' = [mutex EXCEPT ![Mine(t)] = t]
      /\ ~(pc'[t] = "recheck" /\ program.mutex) => UNCHANGED mutex
  BY DEF LookUp, Lock, Found, Goto, PoolTypes
<1>2. Mine(t) \in Processes /\ \A u \in Threads : Mine(u) \in Processes
  BY MineIn
<1>3. PoolTypes'
  BY <1>1, <1>2 DEF PoolTypes, PoolTypeOK
<1>4. HoldersHave' /\ TablesOwn' /\ HeldOnce'
  BY <1>1 DEF HoldersHave, TablesOwn, HeldOnce, Mine, Holding, PoolTypes
<1>5. PoolsPublished' /\ MadeOnce' /\ HeldOwn'
  <2>1. \A u \in Threads : pc'[u] = "makerw" => pc[u] = "makerw"
    BY <1>1 DEF PoolTypes
  <2>2. MadeOnce'
    BY <1>1, <2>1 DEF MadeOnce, Mine
  <2>3. PoolsPublished' /\ HeldOwn'
    BY <1>1 DEF PoolsPublished, HeldOwn, Mine, PoolTypes
  <2>4. QED
    BY <2>2, <2>3
<1>6. IdleOwn' /\ IdleOnce'
  BY <1>1 DEF IdleOwn, IdleOnce, Mine
<1>7. program.mutex => MakersLock'
  <2> SUFFICES ASSUME program.mutex, NEW u \in Threads, pc'[u] \in {"recheck", "makerw"}
               PROVE  mutex'[Mine(u)] = u /\ (pc'[u] = "makerw" => table[Mine(u)]["rw"] = None)
    BY <1>1 DEF MakersLock, Mine
  <2>1. CASE u = t
    BY <1>1, <1>2, <2>1 DEF PoolTypes, PoolTypeOK
  <2>2. CASE u # t
    <3>1. pc[u] \in {"recheck", "makerw"} /\ pc[u] = pc'[u]
      BY <1>1, <2>2 DEF PoolTypes
    <3>2. mutex[Mine(u)] = u /\ (pc[u] = "makerw" => table[Mine(u)]["rw"] = None)
      BY <3>1 DEF MutexInv, MakersLock
    <3>3. mutex'[Mine(u)] = mutex[Mine(u)]
      BY <1>1, <1>2, <3>2, NoneAssumption DEF PoolTypes, PoolTypeOK
    <3>4. QED
      BY <3>1, <3>2, <3>3
  <2>3. QED
    BY <2>1, <2>2
<1>8. program.mutex => OneWriter'
  BY <1>1 DEF MutexInv, OneWriter, Mine, Writes
<1>9. LosesNothing
  BY <1>1 DEF LosesNothing, Held, Idle
<1>10. QED
  BY <1>1, <1>3, <1>4, <1>5, <1>6, <1>7, <1>8, <1>9 DEF MutexInv

(* A thread that finds the readers made, or cannot make a pool, lets the   *)
(* next one in.                                                            *)
LEMMA LeaveKeeps ==
  ASSUME AllInv, NEW t \in Threads, pc[t] \in {"recheck", "makerw"}, Leave(t),
         pc' = [pc EXCEPT ![t] = pc'[t]], pc'[t] \in {"found", "refused"},
         err' \in [Threads -> BOOLEAN], UNCHANGED <<program, access, conn, table, idle, total, open>>
  PROVE  AllInv' /\ LosesNothing
<1> USE DEF AllInv, PoolInv
<1>1. Mine(t) \in Processes /\ \A u \in Threads : Mine(u) \in Processes
  BY MineIn
<1>2. mutex' = [mutex EXCEPT ![Mine(t)] = None]
  BY DEF Leave
<1>3. PoolTypes'
  BY <1>2 DEF PoolTypes, PoolTypeOK
<1>4. HoldersHave' /\ TablesOwn' /\ HeldOnce'
  BY DEF HoldersHave, TablesOwn, HeldOnce, Mine, Holding, PoolTypes
<1>5. PoolsPublished' /\ MadeOnce' /\ HeldOwn'
  <2>1. \A u \in Threads : pc'[u] = "makerw" => pc[u] = "makerw"
    BY DEF PoolTypes
  <2>2. MadeOnce'
    BY <2>1 DEF MadeOnce, Mine
  <2>3. PoolsPublished' /\ HeldOwn'
    BY DEF PoolsPublished, HeldOwn, Mine, PoolTypes
  <2>4. QED
    BY <2>2, <2>3
<1>6. IdleOwn' /\ IdleOnce'
  BY DEF IdleOwn, IdleOnce, Mine
<1>7. program.mutex => MakersLock'
  <2> SUFFICES ASSUME program.mutex, NEW u \in Threads, pc'[u] \in {"recheck", "makerw"}
               PROVE  mutex'[Mine(u)] = u /\ (pc'[u] = "makerw" => table[Mine(u)]["rw"] = None)
    BY DEF MakersLock, Mine
  <2>1. u # t /\ pc'[u] = pc[u]
    BY DEF PoolTypes
  <2>2. mutex[Mine(u)] = u /\ mutex[Mine(t)] = t /\ (pc[u] = "makerw" => table[Mine(u)]["rw"] = None)
    BY <2>1 DEF MutexInv, MakersLock
  <2>3. mutex'[Mine(u)] = u
    BY <1>1, <1>2, <2>1, <2>2 DEF PoolTypes, PoolTypeOK
  <2>4. QED
    BY <2>1, <2>2, <2>3
<1>8. program.mutex => OneWriter'
  BY DEF MutexInv, OneWriter, Mine, Writes
<1>9. LosesNothing
  BY DEF LosesNothing, Held, Idle
<1>10. QED
  BY <1>3, <1>4, <1>5, <1>6, <1>7, <1>8, <1>9 DEF MutexInv

(* What publishing a pool does that has no connections.                    *)
LEMMA PublishFacts ==
  ASSUME PoolTypes, NEW t \in Threads, NEW a \in Access, Publish(t, a),
         idle[[maker |-> t, access |-> a]] = {}
  PROVE  LET q == [maker |-> t, access |-> a]
         IN  /\ q \in PoolIds /\ q # None /\ q.maker = t /\ q.access = a
             /\ idle' = idle /\ table' \in [Processes -> [Access -> PoolIds \union {None}]]
             /\ table'[Mine(t)][a] = q
             /\ \A p \in Processes : \A b \in Access :
                  (p # Mine(t) \/ b # a) => table'[p][b] = table[p][b]
             /\ total' \in [PoolIds -> Int] /\ total'[q] = 0
             /\ \A r \in PoolIds \ {q} : total'[r] = total[r]
<1> DEFINE q == [maker |-> t, access |-> a]
<1>1. q \in PoolIds /\ q # None /\ q.maker = t /\ q.access = a
  BY NoneAssumption DEF PoolIds
<1>2. Mine(t) \in Processes
  BY MineIn
<1>3. /\ table' = [table EXCEPT ![Mine(t)][a] = q]
      /\ idle' = [idle EXCEPT ![q] = {}] /\ total' = [total EXCEPT ![q] = 0]
  BY DEF Publish
<1> HIDE DEF q
<1>4. idle' = idle
  BY <1>1, <1>3 DEF PoolTypes, PoolTypeOK, q
<1>5. /\ table' \in [Processes -> [Access -> PoolIds \union {None}]]
      /\ table'[Mine(t)][a] = q
      /\ \A p \in Processes : \A b \in Access : (p # Mine(t) \/ b # a) => table'[p][b] = table[p][b]
  BY <1>1, <1>2, <1>3 DEF PoolTypes, PoolTypeOK
<1>6. /\ total' \in [PoolIds -> Int] /\ total'[q] = 0
      /\ \A r \in PoolIds \ {q} : total'[r] = total[r]
  BY <1>1, <1>3 DEF PoolTypes, PoolTypeOK
<1>7. QED
  BY <1>1, <1>4, <1>5, <1>6 DEF q

LEMMA MakeReadersKeeps ==
  ASSUME AllInv, NEW t \in Threads, pc[t] = "recheck", table[Mine(t)]["ro"] = None,
         Publish(t, "ro"), pc' = [pc EXCEPT ![t] = "makerw"],
         UNCHANGED <<program, access, err, conn, mutex, open>>
  PROVE  AllInv' /\ LosesNothing
<1> USE DEF AllInv, PoolInv
<1> DEFINE q == [maker |-> t, access |-> "ro"]
           w == [maker |-> t, access |-> "rw"]
<1>1. Mine(t) \in Processes /\ \A u \in Threads : Mine(u) \in Processes
  BY MineIn
<1>2. /\ q \in PoolIds /\ q.maker = t /\ q.access = "ro" /\ w \in PoolIds /\ w.maker = t
      /\ w.access = "rw" /\ {"ro", "rw"} \subseteq Access
  BY DEF PoolIds, Access
<1>3. idle[q] = {}
  <2>1. \A c \in idle[q] : table[Mine(q.maker)][q.access] # None
    BY <1>2 DEF IdleOwn
  <2>2. QED
    BY <2>1, <1>2
<1>4. table[Mine(t)]["rw"] = None /\ idle[w] = {}
  <2>1. table[Mine(t)]["rw"] = None
    BY <1>1 DEF TablesOwn
  <2>2. \A c \in idle[w] : table[Mine(w.maker)][w.access] # None
    BY <1>2 DEF IdleOwn
  <2>3. QED
    BY <2>1, <2>2, <1>2
<1>5. /\ q # None /\ idle' = idle /\ table' \in [Processes -> [Access -> PoolIds \union {None}]]
      /\ table'[Mine(t)]["ro"] = q
      /\ \A p \in Processes : \A b \in Access : (p # Mine(t) \/ b # "ro") => table'[p][b] = table[p][b]
      /\ total' \in [PoolIds -> Int] /\ total'[q] = 0 /\ \A r \in PoolIds \ {q} : total'[r] = total[r]
  BY <1>2, <1>3, PublishFacts
<1> HIDE DEF q, w
<1>6. \A p \in Processes : /\ table'[p]["rw"] = table[p]["rw"]
                           /\ \A b \in Access : table[p][b] # None => table'[p][b] # None
  BY <1>2, <1>5
<1>7. \A u \in Threads \ {t} : pc'[u] = pc[u]
  BY DEF PoolTypes
<1>8. PoolTypes'
  BY <1>5 DEF PoolTypes, PoolTypeOK
<1>9. HoldersHave' /\ HeldOnce' /\ IdleOnce'
  BY <1>5 DEF HoldersHave, HeldOnce, IdleOnce, Holding, PoolTypes
<1>10. TablesOwn'
  <2>1. ASSUME NEW p \in Processes, NEW a \in Access, table'[p][a] # None
        PROVE  table'[p][a].access = a /\ Mine(table'[p][a].maker) = p
    BY <2>1, <1>2, <1>5 DEF TablesOwn
  <2>2. \A p \in Processes : table'[p]["rw"] # None => table'[p]["ro"] # None
    BY <1>2, <1>5, <1>6 DEF TablesOwn
  <2>3. QED
    BY <2>1, <2>2 DEF TablesOwn, Mine
<1>11. PoolsPublished'
  <2>1. \A u \in Threads : access[u] \in Access
    BY DEF PoolTypes, PoolTypeOK
  <2>2. \A u \in Threads : pc'[u] = "acquire" => u # t /\ pc[u] = "acquire"
    BY <1>7 DEF PoolTypes
  <2>3. \A u \in Threads \ {t} : pc'[u] = "makerw" => table'[Mine(u)]["ro"] # None
    BY <1>1, <1>2, <1>6, <1>7 DEF PoolsPublished
  <2>4. table'[Mine(t)]["ro"] # None
    BY <1>5
  <2>5. QED
    BY <2>1, <2>2, <2>3, <2>4, <1>1, <1>6 DEF PoolsPublished, Mine
<1>12. HeldOwn'
  BY <1>1, <1>6 DEF HeldOwn, Mine, PoolTypes, PoolTypeOK
<1>13. IdleOwn'
  <2>1. \A r \in PoolIds : r.maker \in Threads /\ r.access \in Access
    BY DEF PoolIds
  <2>2. QED
    BY <2>1, <1>1, <1>5, <1>6 DEF IdleOwn, Mine
<1>14. program.mutex => MakersLock'
  <2>1. ASSUME program.mutex PROVE \A u \in Threads : pc'[u] \in {"recheck", "makerw"} => mutex[Mine(u)] = u
    BY <2>1, <1>7 DEF MutexInv, MakersLock
  <2>2. ASSUME program.mutex PROVE \A u \in Threads : pc'[u] = "makerw" => table[Mine(u)]["rw"] = None
    BY <2>2, <1>4, <1>7 DEF MutexInv, MakersLock
  <2>3. QED
    BY <2>1, <2>2, <1>1, <1>6 DEF MakersLock, Mine
<1>15. program.mutex => OneWriter'
  <2>1. \A p \in Processes : table[p]["rw"] # None =>
          table[p]["rw"] \in PoolIds /\ total'[table[p]["rw"]] = total[table[p]["rw"]]
    <3>1. \A p \in Processes : table[p]["rw"] # None => table[p]["rw"] \in PoolIds /\ table[p]["rw"] # q
      BY <1>2 DEF TablesOwn, PoolTypes, PoolTypeOK
    <3>2. QED
      BY <3>1, <1>5
  <2>2. ASSUME program.mutex, NEW p \in Processes, table'[p]["rw"] # None
        PROVE  /\ total'[table'[p]["rw"]] \in {0, 1}
               /\ \A c, d \in idle[table'[p]["rw"]] : c = d
               /\ idle[table'[p]["rw"]] # {} =>
                    total'[table'[p]["rw"]] = 1 /\ \A u \in Threads : Mine(u) = p => ~Writes(u)
               /\ total'[table'[p]["rw"]] = 0 => \A u \in Threads : Mine(u) = p => ~Writes(u)
    <3>1. table'[p]["rw"] = table[p]["rw"] /\ total'[table[p]["rw"]] = total[table[p]["rw"]]
      BY <2>1, <2>2, <1>6
    <3>2. QED
      BY <3>1, <2>2 DEF MutexInv, OneWriter
  <2>3. program.mutex => \A u, v \in Threads : u # v /\ Mine(u) = Mine(v) => ~(Writes(u) /\ Writes(v))
    BY DEF MutexInv, OneWriter
  <2>4. QED
    BY <2>2, <2>3, <1>5 DEF OneWriter, Writes, Mine
<1>16. MadeOnce'
  <2>1. \A u \in Threads \ {t} : pc'[u] = "makerw" =>
            /\ idle[[maker |-> u, access |-> "rw"]] = {}
            /\ table[Mine(u)]["rw"] # [maker |-> u, access |-> "rw"]
    BY <1>7 DEF MadeOnce
  <2>2. idle[w] = {} /\ table[Mine(t)]["rw"] # w
    BY <1>4, <1>2, NoneAssumption
  <2>3. QED
    BY <2>1, <2>2, <1>1, <1>5, <1>6 DEF MadeOnce, Mine, w
<1>17. LosesNothing
  BY <1>5 DEF LosesNothing, Held, Idle
<1>18. QED
  BY <1>8, <1>9, <1>10, <1>11, <1>12, <1>13, <1>14, <1>15, <1>16, <1>17 DEF MutexInv

LEMMA MakeWriterKeeps ==
  ASSUME AllInv, NEW t \in Threads, pc[t] = "makerw", Publish(t, "rw"), Leave(t),
         pc' = [pc EXCEPT ![t] = "found"], UNCHANGED <<program, access, err, conn, open>>
  PROVE  AllInv' /\ LosesNothing
<1> USE DEF AllInv, PoolInv
<1> DEFINE q == [maker |-> t, access |-> "rw"]
<1>1. Mine(t) \in Processes /\ \A u \in Threads : Mine(u) \in Processes
  BY MineIn
<1>2. q \in PoolIds /\ q.maker = t /\ q.access = "rw" /\ {"ro", "rw"} \subseteq Access
  BY DEF PoolIds, Access
<1>3. idle[q] = {}
  BY DEF MadeOnce
<1>4. table[Mine(t)]["ro"] # None
  BY DEF PoolsPublished
<1>5. /\ q # None /\ idle' = idle /\ table' \in [Processes -> [Access -> PoolIds \union {None}]]
      /\ table'[Mine(t)]["rw"] = q
      /\ \A p \in Processes : \A b \in Access : (p # Mine(t) \/ b # "rw") => table'[p][b] = table[p][b]
      /\ total' \in [PoolIds -> Int] /\ total'[q] = 0 /\ \A r \in PoolIds \ {q} : total'[r] = total[r]
  BY <1>2, <1>3, PublishFacts
<1>6. \A p \in Processes : \A b \in Access : table[p][b] # None => table'[p][b] # None
  BY <1>5
<1>7. /\ \A u \in Threads \ {t} : pc'[u] = pc[u]
      /\ \A u \in Threads : pc'[u] \in {"recheck", "makerw", "acquire"} => u # t /\ pc'[u] = pc[u]
      /\ mutex' = [mutex EXCEPT ![Mine(t)] = None]
  BY DEF PoolTypes, Leave
<1>8. PoolTypes'
  BY <1>1, <1>5, <1>7 DEF PoolTypes, PoolTypeOK
<1>9. HoldersHave' /\ HeldOnce' /\ IdleOnce'
  BY <1>5 DEF HoldersHave, HeldOnce, IdleOnce, Holding, PoolTypes
<1>10. TablesOwn'
  <2>1. ASSUME NEW p \in Processes, NEW a \in Access, table'[p][a] # None
        PROVE  table'[p][a].access = a /\ Mine(table'[p][a].maker) = p
    BY <2>1, <1>2, <1>5 DEF TablesOwn
  <2>2. \A p \in Processes : table'[p]["rw"] # None => table'[p]["ro"] # None
    BY <1>2, <1>4, <1>5 DEF TablesOwn
  <2>3. QED
    BY <2>1, <2>2 DEF TablesOwn, Mine
<1>11. PoolsPublished'
  <2>1. \A u \in Threads : access[u] \in Access
    BY DEF PoolTypes, PoolTypeOK
  <2>2. QED
    BY <2>1, <1>1, <1>2, <1>6, <1>7 DEF PoolsPublished, Mine
<1>12. HeldOwn'
  BY <1>1, <1>6 DEF HeldOwn, Mine, PoolTypes, PoolTypeOK
<1>13. IdleOwn'
  <2>1. \A r \in PoolIds : r.maker \in Threads /\ r.access \in Access
    BY DEF PoolIds
  <2>2. QED
    BY <2>1, <1>1, <1>5, <1>6 DEF IdleOwn, Mine
<1>14. program.mutex => MakersLock'
  <2> SUFFICES ASSUME program.mutex, NEW u \in Threads, pc'[u] \in {"recheck", "makerw"}
               PROVE  mutex'[Mine(u)] = u /\ (pc'[u] = "makerw" => table'[Mine(u)]["rw"] = None)
    BY DEF MakersLock, Mine
  <2>1. u # t /\ mutex[Mine(u)] = u /\ mutex[Mine(t)] = t /\ (pc'[u] = "makerw" => table[Mine(u)]["rw"] = None)
    BY <1>7 DEF MutexInv, MakersLock
  <2>2. Mine(u) # Mine(t)
    BY <2>1
  <2>3. QED
    BY <2>1, <2>2, <1>1, <1>2, <1>5, <1>7 DEF PoolTypes, PoolTypeOK
<1>15. program.mutex => OneWriter'
  <2> SUFFICES ASSUME program.mutex PROVE OneWriter'
    OBVIOUS
  <2>1. \A u \in Threads : Mine(u) = Mine(t) => ~Writes(u)
    <3>1. table[Mine(t)]["rw"] = None
      BY DEF MutexInv, MakersLock
    <3>2. QED
      BY <3>1 DEF HeldOwn, Writes
  <2>2. ASSUME NEW p \in Processes, p # Mine(t), table[p]["rw"] # None
        PROVE  /\ table'[p]["rw"] = table[p]["rw"] /\ table[p]["rw"] \in PoolIds
               /\ total'[table[p]["rw"]] = total[table[p]["rw"]]
    <3>1. table[p]["rw"] \in PoolIds /\ table[p]["rw"] # q /\ table'[p]["rw"] = table[p]["rw"]
      BY <2>2, <1>2, <1>5 DEF TablesOwn, PoolTypes, PoolTypeOK
    <3>2. QED
      BY <3>1, <1>5
  <2>3. ASSUME NEW p \in Processes, table'[p]["rw"] # None
        PROVE  /\ total'[table'[p]["rw"]] \in {0, 1}
               /\ \A c, d \in idle[table'[p]["rw"]] : c = d
               /\ idle[table'[p]["rw"]] # {} =>
                    total'[table'[p]["rw"]] = 1 /\ \A u \in Threads : Mine(u) = p => ~Writes(u)
               /\ total'[table'[p]["rw"]] = 0 => \A u \in Threads : Mine(u) = p => ~Writes(u)
    <3>1. CASE p = Mine(t)
      BY <3>1, <2>1, <1>3, <1>5
    <3>2. CASE p # Mine(t)
      <4>1. table'[p]["rw"] = table[p]["rw"] /\ table[p]["rw"] # None
        BY <3>2, <2>3, <1>2, <1>5
      <4>2. total'[table[p]["rw"]] = total[table[p]["rw"]]
        BY <3>2, <4>1, <2>2
      <4>3. QED
        BY <4>1, <4>2 DEF MutexInv, OneWriter
    <3>3. QED
      BY <3>1, <3>2
  <2>4. \A u, v \in Threads : u # v /\ Mine(u) = Mine(v) => ~(Writes(u) /\ Writes(v))
    BY DEF MutexInv, OneWriter
  <2>5. QED
    BY <2>3, <2>4, <1>5 DEF OneWriter, Writes, Mine
<1>16. MadeOnce'
  <2>1. ASSUME NEW u \in Threads, pc'[u] = "makerw"
        PROVE  /\ idle[[maker |-> u, access |-> "rw"]] = {}
               /\ table'[Mine(u)]["rw"] # [maker |-> u, access |-> "rw"]
    <3>1. /\ u # t /\ idle[[maker |-> u, access |-> "rw"]] = {}
          /\ table[Mine(u)]["rw"] # [maker |-> u, access |-> "rw"]
      BY <2>1, <1>7 DEF MadeOnce
    <3>2. q # [maker |-> u, access |-> "rw"]
      BY <3>1
    <3>3. QED
      BY <3>1, <3>2, <1>1, <1>2, <1>5
  <2>2. QED
    BY <2>1, <1>5 DEF MadeOnce, Mine
<1>17. LosesNothing
  BY <1>5 DEF LosesNothing, Held, Idle
<1>18. QED
  BY <1>8, <1>9, <1>10, <1>11, <1>12, <1>13, <1>14, <1>15, <1>16, <1>17 DEF MutexInv

(* A thread takes a connection nobody has: what does not depend on where   *)
(* it comes from.                                                          *)
LEMMA TakeFacts ==
  ASSUME AllInv, NEW t \in Threads, NEW c \in Conns, pc[t] = "acquire",
         c.pool.access = access[t], Mine(c.pool.maker) = Mine(t), \A s \in Threads : conn[s] # c,
         conn' = [conn EXCEPT ![t] = c], pc' = [pc EXCEPT ![t] = "use"],
         UNCHANGED <<program, access, err, table, mutex>>, open \subseteq open', c \in open'
  PROVE  /\ pc' = [u \in Threads |-> pc'[u]] /\ conn' \in [Threads -> Conns \union {None}]
         /\ HoldersHave' /\ TablesOwn' /\ PoolsPublished' /\ HeldOwn' /\ HeldOnce'
         /\ program.mutex => MakersLock'
         /\ \A u \in Threads : pc'[u] = "makerw" => pc[u] = "makerw"
<1> USE DEF AllInv, PoolInv
<1>1. /\ \A u \in Threads \ {t} : pc'[u] = pc[u] /\ conn'[u] = conn[u]
      /\ pc'[t] = "use" /\ conn'[t] = c /\ c # None
  BY NoneAssumption DEF PoolTypes, PoolTypeOK
<1>2. pc' = [u \in Threads |-> pc'[u]] /\ conn' \in [Threads -> Conns \union {None}]
  BY DEF PoolTypes, PoolTypeOK
<1>3. HoldersHave' /\ TablesOwn'
  BY <1>1 DEF HoldersHave, TablesOwn, Mine, Holding
<1>4. PoolsPublished'
  BY <1>1 DEF PoolsPublished, Mine
<1>5. table[Mine(t)][access[t]] # None
  BY DEF PoolsPublished
<1>6. HeldOwn' /\ HeldOnce'
  BY <1>1, <1>5 DEF HeldOwn, HeldOnce, Mine
<1>7. program.mutex => MakersLock'
  BY <1>1 DEF MutexInv, MakersLock, Mine
<1>8. QED
  BY <1>1, <1>2, <1>3, <1>4, <1>6, <1>7

(* The pool a thread asks is one of its process, and of no other access.   *)
LEMMA PoolFacts ==
  ASSUME PoolTypes, TablesOwn, NEW t \in Threads, NEW a \in Access, table[Mine(t)][a] # None
  PROVE  LET q == table[Mine(t)][a]
         IN  /\ q \in PoolIds /\ q.access = a /\ Mine(q.maker) = Mine(t)
             /\ \A p \in Processes : table[p]["rw"] = q => p = Mine(t) /\ a = "rw"
<1>1. Mine(t) \in Processes
  BY MineIn
<1>2. table[Mine(t)][a] \in PoolIds
  BY <1>1 DEF PoolTypes, PoolTypeOK
<1>3. "rw" \in Access
  BY DEF Access
<1>4. QED
  BY <1>1, <1>2, <1>3 DEF TablesOwn

LEMMA TakeIdleKeeps ==
  ASSUME AllInv, NEW t \in Threads, TakeIdle(t)
  PROVE  AllInv' /\ LosesNothing
<1> USE DEF AllInv, PoolInv
<1> DEFINE q == PoolOf(t)
<1>1. access[t] \in Access /\ table[Mine(t)][access[t]] # None /\ pc[t] = "acquire"
  BY DEF TakeIdle, PoolsPublished, PoolTypes, PoolTypeOK
<1>2. /\ q \in PoolIds /\ q.access = access[t] /\ Mine(q.maker) = Mine(t)
      /\ \A p \in Processes : table[p]["rw"] = q => p = Mine(t) /\ access[t] = "rw"
  BY <1>1, PoolFacts DEF PoolOf
<1>3. PICK c \in idle[q] : /\ conn' = [conn EXCEPT ![t] = c]
                           /\ idle' = [idle EXCEPT ![q] = @ \ {c}]
  BY DEF TakeIdle
<1>4. /\ UNCHANGED <<program, access, err, table, mutex, total, open>>
      /\ pc' = [pc EXCEPT ![t] = "use"]
  BY DEF TakeIdle, Goto
<1> HIDE DEF q
<1>5. /\ c \in Conns /\ c \in open /\ c.pool.access = access[t] /\ Mine(c.pool.maker) = Mine(t)
      /\ \A s \in Threads : conn[s] # c
      /\ \A r \in PoolIds : r # q => c \notin idle[r]
  BY <1>2, <1>3 DEF IdleOwn, IdleOnce, PoolTypes, PoolTypeOK
<1>6. /\ pc' = [u \in Threads |-> pc'[u]] /\ conn' \in [Threads -> Conns \union {None}]
      /\ HoldersHave' /\ TablesOwn' /\ PoolsPublished' /\ HeldOwn' /\ HeldOnce'
      /\ program.mutex => MakersLock'
      /\ \A u \in Threads : pc'[u] = "makerw" => pc[u] = "makerw"
  BY <1>1, <1>3, <1>4, <1>5, TakeFacts
<1>7. /\ idle' \in [PoolIds -> SUBSET Conns] /\ idle'[q] = idle[q] \ {c}
      /\ \A r \in PoolIds : (r # q => idle'[r] = idle[r]) /\ idle'[r] \subseteq idle[r] /\ c \notin idle'[r]
  BY <1>2, <1>3, <1>5 DEF PoolTypes, PoolTypeOK
<1>8. /\ \A u \in Threads \ {t} : conn'[u] = conn[u]
      /\ conn'[t] = c /\ conn[t] = None
  BY <1>1, <1>3 DEF PoolTypes, PoolTypeOK, HoldersHave, Holding
<1>9. PoolTypes'
  BY <1>4, <1>6, <1>7 DEF PoolTypes, PoolTypeOK
<1>10. IdleOwn'
  BY <1>4, <1>7 DEF IdleOwn, Mine
<1>11. IdleOnce'
  BY <1>7, <1>8 DEF IdleOnce
<1>12. MadeOnce'
  <2>1. \A u \in Threads : [maker |-> u, access |-> "rw"] \in PoolIds
    BY DEF PoolIds, Access
  <2>2. QED
    BY <2>1, <1>4, <1>6, <1>7 DEF MadeOnce, Mine
<1>13. program.mutex => OneWriter'
  <2> SUFFICES ASSUME program.mutex PROVE OneWriter'
    OBVIOUS
  <2>1. access[t] = "rw" => /\ \A d \in idle[q] : d = c
                            /\ total[q] = 1 /\ \A u \in Threads : Mine(u) = Mine(t) => ~Writes(u)
    <3>1. access[t] = "rw" => q = table[Mine(t)]["rw"] /\ q # None /\ Mine(t) \in Processes
      BY <1>1, MineIn DEF q, PoolOf
    <3>2. QED
      BY <3>1, <1>3 DEF MutexInv, OneWriter
  <2> DEFINE W(u) == conn'[u] # None /\ conn'[u].pool.access = "rw"
  <2>2. /\ \A u \in Threads \ {t} : W(u) <=> Writes(u)
        /\ W(t) <=> access[t] = "rw"
    BY <1>5, <1>8, NoneAssumption DEF Writes
  <2> HIDE DEF W
  <2>3. \A u, v \in Threads : u # v /\ Mine(u) = Mine(v) => ~(W(u) /\ W(v))
    BY <2>1, <2>2 DEF MutexInv, OneWriter
  <2>4. ASSUME NEW p \in Processes, table[p]["rw"] # None
        PROVE  LET r == table[p]["rw"] IN
               /\ total[r] \in {0, 1}
               /\ \A d, e \in idle'[r] : d = e
               /\ idle'[r] # {} => total[r] = 1 /\ \A u \in Threads : Mine(u) = p => ~W(u)
               /\ total[r] = 0 => \A u \in Threads : Mine(u) = p => ~W(u)
    <3> DEFINE r == table[p]["rw"]
    <3>1. /\ r \in PoolIds /\ total[r] \in {0, 1} /\ \A d, e \in idle[r] : d = e
          /\ idle[r] # {} => total[r] = 1 /\ \A u \in Threads : Mine(u) = p => ~Writes(u)
          /\ total[r] = 0 => \A u \in Threads : Mine(u) = p => ~Writes(u)
      BY <2>4 DEF MutexInv, OneWriter, PoolTypes, PoolTypeOK, Access
    <3> HIDE DEF r
    <3>2. CASE r = q
      <4>1. p = Mine(t) /\ access[t] = "rw"
        BY <3>2, <1>2 DEF r
      <4>2. idle'[r] = {} /\ total[r] = 1
        BY <4>1, <3>2, <2>1, <1>7
      <4>3. QED
        BY <4>2 DEF r
    <3>3. CASE r # q
      <4>1. idle'[r] = idle[r]
        BY <3>1, <3>3, <1>7
      <4>2. ~(Mine(t) = p /\ access[t] = "rw")
        BY <3>3 DEF r, q, PoolOf
      <4>3. ASSUME \A u \in Threads : Mine(u) = p => ~Writes(u)
            PROVE  \A u \in Threads : Mine(u) = p => ~W(u)
        BY <4>2, <4>3, <2>2
      <4>4. QED
        BY <4>1, <4>3, <3>1 DEF r
    <3>4. QED
      BY <3>2, <3>3
  <2>5. QED
    BY <2>3, <2>4, <1>4 DEF OneWriter, Writes, Mine, W
<1>14. LosesNothing
  <2>1. ASSUME NEW d \in open, d \in Held \union Idle PROVE d \in Held' \union Idle'
    <3>1. CASE d = c
      BY <3>1, <1>5, <1>8, NoneAssumption DEF Held
    <3>2. CASE d # c /\ d \in Held
      <4>1. PICK s \in Threads : d = conn[s] /\ d # None
        BY <3>2 DEF Held
      <4>2. s # t
        BY <4>1, <1>8
      <4>3. QED
        BY <4>1, <4>2, <1>8 DEF Held
    <3>3. CASE d # c /\ d \in Idle
      <4>1. PICK r \in PoolIds : d \in idle[r]
        BY <3>3 DEF Idle
      <4>2. d \in idle'[r]
        BY <3>3, <4>1, <1>2, <1>3 DEF PoolTypes, PoolTypeOK
      <4>3. QED
        BY <4>2 DEF Idle
    <3>4. QED
      BY <2>1, <3>1, <3>2, <3>3 DEF LosesNothing
  <2>2. QED
    BY <2>1, <1>4 DEF LosesNothing
<1>15. QED
  BY <1>4, <1>6, <1>9, <1>10, <1>11, <1>12, <1>13, <1>14 DEF MutexInv

LEMMA OpenConnKeeps ==
  ASSUME AllInv, NEW t \in Threads, OpenConn(t)
  PROVE  AllInv' /\ LosesNothing
<1> USE DEF AllInv, PoolInv
<1> DEFINE q == PoolOf(t)
<1>1. access[t] \in Access /\ table[Mine(t)][access[t]] # None /\ pc[t] = "acquire"
  BY DEF OpenConn, PoolsPublished, PoolTypes, PoolTypeOK
<1>2. /\ q \in PoolIds /\ q.access = access[t] /\ Mine(q.maker) = Mine(t)
      /\ \A p \in Processes : table[p]["rw"] = q => p = Mine(t) /\ access[t] = "rw"
  BY <1>1, PoolFacts DEF PoolOf
<1>3. /\ UNCHANGED <<program, access, err, table, mutex, idle>>
      /\ pc' = [pc EXCEPT ![t] = "use"] /\ total' = [total EXCEPT ![q] = @ + 1]
      /\ idle[q] = {} /\ total[q] < HardMax(access[t])
  BY DEF OpenConn, Goto
<1> HIDE DEF q
<1>4. PICK c \in Conns : /\ c.pool = q /\ c \notin open
                         /\ open' = open \union {c} /\ conn' = [conn EXCEPT ![t] = c]
  <2>1. PICK n \in 1 .. MaxConns :
          /\ [pool |-> q, n |-> n] \notin open /\ open' = open \union {[pool |-> q, n |-> n]}
          /\ conn' = [conn EXCEPT ![t] = [pool |-> q, n |-> n]]
    BY DEF OpenConn, q
  <2>2. [pool |-> q, n |-> n] \in Conns
    BY <1>2 DEF Conns
  <2>3. QED
    BY <2>1, <2>2
<1>5. /\ c.pool.access = access[t] /\ Mine(c.pool.maker) = Mine(t) /\ c # None
      /\ \A s \in Threads : conn[s] # c
      /\ \A r \in PoolIds : c \notin idle[r]
  BY <1>2, <1>4, NoneAssumption DEF IdleOwn, HeldOwn
<1>6. /\ pc' = [u \in Threads |-> pc'[u]] /\ conn' \in [Threads -> Conns \union {None}]
      /\ HoldersHave' /\ TablesOwn' /\ PoolsPublished' /\ HeldOwn' /\ HeldOnce'
      /\ program.mutex => MakersLock'
      /\ \A u \in Threads : pc'[u] = "makerw" => pc[u] = "makerw"
  <2>1. open \subseteq open' /\ c \in open'
    BY <1>4
  <2>2. QED
    BY <2>1, <1>1, <1>3, <1>4, <1>5, TakeFacts
<1>7. /\ total' \in [PoolIds -> Int] /\ total'[q] = total[q] + 1
      /\ \A r \in PoolIds : r # q => total'[r] = total[r]
  BY <1>2, <1>3 DEF PoolTypes, PoolTypeOK
<1>8. /\ \A u \in Threads \ {t} : conn'[u] = conn[u]
      /\ conn'[t] = c /\ conn[t] = None
  BY <1>1, <1>4 DEF PoolTypes, PoolTypeOK, HoldersHave, Holding
<1>9. PoolTypes'
  BY <1>3, <1>4, <1>6, <1>7 DEF PoolTypes, PoolTypeOK
<1>10. IdleOwn'
  BY <1>3, <1>4 DEF IdleOwn, Mine
<1>11. IdleOnce'
  BY <1>3, <1>5, <1>8 DEF IdleOnce
<1>12. MadeOnce'
  BY <1>3, <1>6 DEF MadeOnce, Mine
<1>13. program.mutex => OneWriter'
  <2> SUFFICES ASSUME program.mutex PROVE OneWriter'
    OBVIOUS
  <2>1. access[t] = "rw" =>
          total[q] = 0 /\ \A u \in Threads : Mine(u) = Mine(t) => ~Writes(u)
    <3>1. access[t] = "rw" => q = table[Mine(t)]["rw"] /\ q # None /\ Mine(t) \in Processes
      BY <1>1, MineIn DEF q, PoolOf
    <3>2. access[t] = "rw" => total[q] \in {0, 1} /\ total[q] < 1
      BY <3>1, <1>3 DEF MutexInv, OneWriter, HardMax
    <3>3. access[t] = "rw" => total[q] = 0
      BY <3>2
    <3>4. QED
      BY <3>1, <3>3 DEF MutexInv, OneWriter
  <2> DEFINE W(u) == conn'[u] # None /\ conn'[u].pool.access = "rw"
  <2>2. /\ \A u \in Threads \ {t} : W(u) <=> Writes(u)
        /\ W(t) <=> access[t] = "rw"
    BY <1>5, <1>8 DEF Writes
  <2> HIDE DEF W
  <2>3. \A u, v \in Threads : u # v /\ Mine(u) = Mine(v) => ~(W(u) /\ W(v))
    BY <2>1, <2>2 DEF MutexInv, OneWriter
  <2>4. ASSUME NEW p \in Processes, table[p]["rw"] # None
        PROVE  LET r == table[p]["rw"] IN
               /\ total'[r] \in {0, 1}
               /\ \A d, e \in idle[r] : d = e
               /\ idle[r] # {} => total'[r] = 1 /\ \A u \in Threads : Mine(u) = p => ~W(u)
               /\ total'[r] = 0 => \A u \in Threads : Mine(u) = p => ~W(u)
    <3> DEFINE r == table[p]["rw"]
    <3>1. /\ r \in PoolIds /\ total[r] \in {0, 1} /\ \A d, e \in idle[r] : d = e
          /\ idle[r] # {} => total[r] = 1 /\ \A u \in Threads : Mine(u) = p => ~Writes(u)
          /\ total[r] = 0 => \A u \in Threads : Mine(u) = p => ~Writes(u)
      BY <2>4 DEF MutexInv, OneWriter, PoolTypes, PoolTypeOK, Access
    <3> HIDE DEF r
    <3>2. CASE r = q
      <4>1. p = Mine(t) /\ access[t] = "rw"
        BY <3>2, <1>2 DEF r
      <4>2. idle[r] = {} /\ total'[r] = 1
        BY <4>1, <3>2, <2>1, <1>3, <1>7
      <4>3. QED
        BY <4>2 DEF r
    <3>3. CASE r # q
      <4>1. total'[r] = total[r]
        BY <3>1, <3>3, <1>7
      <4>2. ~(Mine(t) = p /\ access[t] = "rw")
        BY <3>3 DEF r, q, PoolOf
      <4>3. ASSUME \A u \in Threads : Mine(u) = p => ~Writes(u)
            PROVE  \A u \in Threads : Mine(u) = p => ~W(u)
        BY <4>2, <4>3, <2>2
      <4>4. QED
        BY <4>1, <4>3, <3>1 DEF r
    <3>4. QED
      BY <3>2, <3>3
  <2>5. QED
    BY <2>3, <2>4, <1>3 DEF OneWriter, Writes, Mine, W
<1>14. LosesNothing
  <2>1. ASSUME NEW d \in open', d \in open => d \in Held \union Idle PROVE d \in Held' \union Idle'
    <3>1. CASE d = c
      BY <3>1, <1>5, <1>8 DEF Held
    <3>2. CASE d # c /\ d \in Held
      <4>1. PICK s \in Threads : d = conn[s] /\ d # None
        BY <3>2 DEF Held
      <4>2. s # t
        BY <4>1, <1>8
      <4>3. QED
        BY <4>1, <4>2, <1>8 DEF Held
    <3>3. CASE d # c /\ d \in Idle
      BY <3>3, <1>3 DEF Idle
    <3>4. QED
      BY <2>1, <3>1, <3>2, <3>3, <1>4 DEF LosesNothing
  <2>2. QED
    BY <2>1 DEF LosesNothing
<1>15. QED
  BY <1>3, <1>6, <1>9, <1>10, <1>11, <1>12, <1>13, <1>14 DEF MutexInv

LEMMA OpenFailsKeeps ==
  ASSUME AllInv, NEW t \in Threads, OpenFails(t)
  PROVE  AllInv' /\ LosesNothing
<1>1. Outside(t)
  BY DEF OpenFails, Outside, Goto, AllInv, PoolInv, PoolTypes, PoolTypeOK, Holding
<1>2. QED
  BY <1>1, OutsideKeeps

(* A thread that has no connection any more: what does not depend on what  *)
(* became of it.                                                           *)
LEMMA EndFacts ==
  ASSUME AllInv, NEW t \in Threads, Ends(t), conn' = [conn EXCEPT ![t] = None],
         \A s \in Threads \ {t} : conn[s] # None => conn[s] \in open'
  PROVE  /\ pc' = [u \in Threads |-> pc'[u]] /\ conn' \in [Threads -> Conns \union {None}]
         /\ HoldersHave' /\ TablesOwn' /\ PoolsPublished' /\ HeldOwn' /\ HeldOnce'
         /\ program.mutex => MakersLock'
         /\ \A u \in Threads : pc'[u] = "makerw" => pc[u] = "makerw"
<1> USE DEF AllInv, PoolInv, Ends
<1>1. /\ \A u \in Threads \ {t} : pc'[u] = pc[u] /\ conn'[u] = conn[u]
      /\ pc'[t] = "idle" /\ conn'[t] = None
  BY DEF PoolTypes, PoolTypeOK
<1>2. pc' = [u \in Threads |-> pc'[u]] /\ conn' \in [Threads -> Conns \union {None}]
  BY DEF PoolTypes, PoolTypeOK
<1>3. HoldersHave' /\ TablesOwn'
  BY <1>1 DEF HoldersHave, TablesOwn, Mine, Holding
<1>4. PoolsPublished'
  BY <1>1 DEF PoolsPublished, Mine
<1>5. HeldOwn' /\ HeldOnce'
  BY <1>1 DEF HeldOwn, HeldOnce, Mine
<1>6. program.mutex => MakersLock'
  BY <1>1 DEF MutexInv, MakersLock, Mine
<1>7. QED
  BY <1>1, <1>2, <1>3, <1>4, <1>5, <1>6

LEMMA LeakKeeps ==
  ASSUME AllInv, NEW t \in Threads, Leak(t), Ends(t), err' \in [Threads -> BOOLEAN]
  PROVE  AllInv'
<1> USE DEF AllInv, PoolInv, Leak
<1>1. /\ pc' = [u \in Threads |-> pc'[u]] /\ conn' \in [Threads -> Conns \union {None}]
      /\ HoldersHave' /\ TablesOwn' /\ PoolsPublished' /\ HeldOwn' /\ HeldOnce'
      /\ program.mutex => MakersLock'
      /\ \A u \in Threads : pc'[u] = "makerw" => pc[u] = "makerw"
  <2>1. \A s \in Threads \ {t} : conn[s] # None => conn[s] \in open'
    BY DEF HeldOwn
  <2>2. QED
    BY <2>1, EndFacts
<1>2. /\ \A u \in Threads \ {t} : conn'[u] = conn[u]
      /\ conn'[t] = None
  BY DEF PoolTypes, PoolTypeOK
<1>3. PoolTypes'
  BY <1>1 DEF PoolTypes, PoolTypeOK, Ends
<1>4. IdleOwn' /\ IdleOnce'
  <2>1. \A r \in PoolIds : None \notin idle[r]
    BY NoneAssumption DEF PoolTypes, PoolTypeOK
  <2>2. QED
    BY <2>1, <1>2 DEF IdleOwn, IdleOnce, Mine, Ends
<1>5. MadeOnce'
  BY <1>1 DEF MadeOnce, Mine, Ends
<1>6. program.mutex => OneWriter'
  <2> DEFINE W(u) == conn'[u] # None /\ conn'[u].pool.access = "rw"
  <2>1. \A u \in Threads : W(u) => Writes(u)
    BY <1>2 DEF Writes
  <2> HIDE DEF W
  <2>2. program.mutex =>
           /\ \A u, v \in Threads : u # v /\ Mine(u) = Mine(v) => ~(W(u) /\ W(v))
           /\ \A p \in Processes : LET q == table[p]["rw"] IN q # None =>
                /\ total[q] \in {0, 1}
                /\ \A c, d \in idle[q] : c = d
                /\ idle[q] # {} => total[q] = 1 /\ \A u \in Threads : Mine(u) = p => ~W(u)
                /\ total[q] = 0 => \A u \in Threads : Mine(u) = p => ~W(u)
    BY <2>1 DEF MutexInv, OneWriter
  <2>3. QED
    BY <2>2 DEF OneWriter, Writes, Mine, W, Ends
<1>7. QED
  BY <1>1, <1>3, <1>4, <1>5, <1>6 DEF MutexInv, Ends

LEMMA GiveBackKeeps ==
  ASSUME AllInv, NEW t \in Threads, GiveBack(t), Ends(t), UNCHANGED err
  PROVE  AllInv' /\ LosesNothing
<1> USE DEF AllInv, PoolInv
<1> DEFINE c == conn[t]
           q == table[Mine(t)][access[t]]
<1>1. /\ c \in Conns /\ c # None /\ c \in open /\ access[t] \in Access
      /\ c.pool.access = access[t] /\ Mine(c.pool.maker) = Mine(t) /\ q # None
  BY DEF Ends, HoldersHave, HeldOwn, PoolTypes, PoolTypeOK
<1>2. /\ q \in PoolIds /\ q.access = access[t] /\ Mine(q.maker) = Mine(t)
      /\ \A p \in Processes : table[p]["rw"] = q => p = Mine(t) /\ access[t] = "rw"
  BY <1>1, PoolFacts
<1>3. /\ \A s \in Threads \ {t} : conn[s] # c
      /\ \A r \in PoolIds : c \notin idle[r]
  BY <1>1 DEF HeldOnce, IdleOnce
<1>4. /\ UNCHANGED <<program, access, err, table, mutex>> /\ conn' = [conn EXCEPT ![t] = None]
      /\ \/ err[t] /\ open' = open \ {c} /\ total' = [total EXCEPT ![q] = @ - 1] /\ idle' = idle
         \/ ~err[t] /\ open' = open /\ total' = total /\ idle' = [idle EXCEPT ![q] = @ \union {c}]
  BY <1>1 DEF GiveBack, Ends
<1> HIDE DEF q
<1>5. /\ pc' = [u \in Threads |-> pc'[u]] /\ conn' \in [Threads -> Conns \union {None}]
      /\ HoldersHave' /\ TablesOwn' /\ PoolsPublished' /\ HeldOwn' /\ HeldOnce'
      /\ program.mutex => MakersLock'
      /\ \A u \in Threads : pc'[u] = "makerw" => pc[u] = "makerw"
  <2>1. \A s \in Threads \ {t} : conn[s] # None => conn[s] \in open'
    BY <1>3, <1>4 DEF HeldOwn
  <2>2. QED
    BY <2>1, <1>4, EndFacts
<1>6. /\ \A u \in Threads \ {t} : conn'[u] = conn[u]
      /\ conn'[t] = None
  BY <1>4 DEF PoolTypes, PoolTypeOK
<1>7. /\ idle' \in [PoolIds -> SUBSET Conns]
      /\ \A r \in PoolIds : r # q => idle'[r] = idle[r]
      /\ idle'[q] = IF err[t] THEN idle[q] ELSE idle[q] \union {c}
      /\ total' \in [PoolIds -> Int]
      /\ \A r \in PoolIds : r # q => total'[r] = total[r]
      /\ total'[q] = IF err[t] THEN total[q] - 1 ELSE total[q]
      /\ open' \subseteq open
  <2>1. idle \in [PoolIds -> SUBSET Conns] /\ total \in [PoolIds -> Int] /\ err[t] \in BOOLEAN
    BY DEF PoolTypes, PoolTypeOK
  <2>2. CASE err[t]
    BY <2>1, <2>2, <1>2, <1>4
  <2>3. CASE ~err[t]
    BY <2>1, <2>3, <1>1, <1>2, <1>4
  <2>4. QED
    BY <2>2, <2>3
<1>8. PoolTypes'
  <2>1. /\ program' \in Programs /\ access' \in [Threads -> Access] /\ err' \in [Threads -> BOOLEAN]
        /\ table' \in [Processes -> [Access -> PoolIds \union {None}]]
        /\ mutex' \in [Processes -> Threads \union {None}] /\ open' \subseteq Conns
    BY <1>4, <1>7 DEF PoolTypes, PoolTypeOK
  <2>2. QED
    BY <2>1, <1>5, <1>7 DEF PoolTypes, PoolTypeOK
<1>9. IdleOwn'
  <2> SUFFICES ASSUME NEW r \in PoolIds, NEW d \in idle'[r]
               PROVE  /\ d \in open' /\ Mine(d.pool.maker) = Mine(r.maker)
                      /\ d.pool.access = r.access /\ table[Mine(r.maker)][r.access] # None
    BY <1>4 DEF IdleOwn, Mine
  <2>1. CASE d \in idle[r]
    BY <2>1, <1>3, <1>4 DEF IdleOwn
  <2>2. CASE d \notin idle[r]
    <3>1. r = q /\ d = c /\ ~err[t]
      BY <2>2, <1>7
    <3>2. table[Mine(t)][access[t]] # None
      BY <1>1 DEF q
    <3>3. QED
      BY <3>1, <3>2, <1>1, <1>2, <1>4
  <2>3. QED
    BY <2>1, <2>2
<1>10. IdleOnce'
  <2>1. \A r \in PoolIds : \A u \in Threads : conn'[u] \notin idle'[r]
    <3>1. \A r \in PoolIds : None \notin idle'[r]
      BY <1>7, NoneAssumption
    <3>2. \A r \in PoolIds : \A u \in Threads \ {t} : conn[u] \notin idle'[r]
      BY <1>3, <1>7 DEF IdleOnce
    <3>3. QED
      BY <3>1, <3>2, <1>6
  <2>2. \A r, s \in PoolIds : r # s => idle'[r] \intersect idle'[s] = {}
    <3>1. \A r, s \in PoolIds : r # s => idle[r] \intersect idle[s] = {}
      BY DEF IdleOnce
    <3>2. \A r \in PoolIds : r # q => idle'[r] = idle[r] /\ c \notin idle[r]
      BY <1>3, <1>7
    <3>3. idle'[q] \subseteq idle[q] \union {c}
      BY <1>7
    <3>4. QED
      BY <3>1, <3>2, <3>3
  <2>3. QED
    BY <2>1, <2>2 DEF IdleOnce
<1>11. MadeOnce'
  <2> SUFFICES ASSUME NEW u \in Threads, pc'[u] = "makerw"
               PROVE  /\ idle'[[maker |-> u, access |-> "rw"]] = {}
                      /\ table[Mine(u)]["rw"] # [maker |-> u, access |-> "rw"]
    BY <1>4 DEF MadeOnce, Mine
  <2> DEFINE w == [maker |-> u, access |-> "rw"]
  <2>1. w \in PoolIds /\ w.maker = u /\ w.access = "rw"
    BY DEF PoolIds, Access
  <2>2. idle[w] = {} /\ table[Mine(u)]["rw"] # w
    BY <1>5 DEF MadeOnce
  <2>3. q # w
    <3>1. q = w => access[t] = "rw" /\ Mine(t) = Mine(u)
      BY <2>1, <1>2
    <3>2. QED
      BY <3>1, <2>2 DEF q
  <2>4. QED
    BY <2>1, <2>2, <2>3, <1>7
<1>12. program.mutex => OneWriter'
  <2> SUFFICES ASSUME program.mutex PROVE OneWriter'
    OBVIOUS
  <2>1. access[t] = "rw" =>
          /\ total[q] = 1 /\ idle[q] = {}
          /\ \A u \in Threads : u # t /\ Mine(u) = Mine(t) => ~Writes(u)
    <3>1. access[t] = "rw" => /\ q = table[Mine(t)]["rw"] /\ q # None /\ Mine(t) \in Processes
                              /\ Writes(t)
      BY <1>1, MineIn DEF q, Writes
    <3>2. QED
      BY <3>1 DEF MutexInv, OneWriter
  <2> DEFINE W(u) == conn'[u] # None /\ conn'[u].pool.access = "rw"
  <2>2. /\ \A u \in Threads \ {t} : W(u) <=> Writes(u)
        /\ ~W(t)
    BY <1>6 DEF Writes
  <2> HIDE DEF W
  <2>3. \A u, v \in Threads : u # v /\ Mine(u) = Mine(v) => ~(W(u) /\ W(v))
    BY <2>2 DEF MutexInv, OneWriter
  <2>4. ASSUME NEW p \in Processes, table[p]["rw"] # None
        PROVE  LET r == table[p]["rw"] IN
               /\ total'[r] \in {0, 1}
               /\ \A d, e \in idle'[r] : d = e
               /\ idle'[r] # {} => total'[r] = 1 /\ \A u \in Threads : Mine(u) = p => ~W(u)
               /\ total'[r] = 0 => \A u \in Threads : Mine(u) = p => ~W(u)
    <3> DEFINE r == table[p]["rw"]
    <3>1. /\ r \in PoolIds /\ total[r] \in {0, 1} /\ \A d, e \in idle[r] : d = e
          /\ idle[r] # {} => total[r] = 1 /\ \A u \in Threads : Mine(u) = p => ~Writes(u)
          /\ total[r] = 0 => \A u \in Threads : Mine(u) = p => ~Writes(u)
      BY <2>4 DEF MutexInv, OneWriter, PoolTypes, PoolTypeOK, Access
    <3> HIDE DEF r
    <3>2. CASE r = q
      <4>1. p = Mine(t) /\ access[t] = "rw"
        BY <3>2, <1>2 DEF r
      <4>2. \A u \in Threads : Mine(u) = p => ~W(u)
        BY <4>1, <2>1, <2>2
      <4>3. \/ total'[r] = 0 /\ idle'[r] = {}
            \/ total'[r] = 1 /\ idle'[r] = {c}
        BY <4>1, <3>2, <2>1, <1>7
      <4>4. QED
        BY <4>2, <4>3 DEF r
    <3>3. CASE r # q
      <4>1. total'[r] = total[r] /\ idle'[r] = idle[r]
        BY <3>1, <3>3, <1>7
      <4>2. ASSUME \A u \in Threads : Mine(u) = p => ~Writes(u)
            PROVE  \A u \in Threads : Mine(u) = p => ~W(u)
        BY <4>2, <2>2
      <4>3. QED
        BY <4>1, <4>2, <3>1 DEF r
    <3>4. QED
      BY <3>2, <3>3
  <2>5. QED
    BY <2>3, <2>4, <1>4 DEF OneWriter, Writes, Mine, W
<1>13. LosesNothing
  <2>1. ASSUME NEW d \in open', d \in open => d \in Held \union Idle PROVE d \in Held' \union Idle'
    <3>1. CASE d = c
      <4>1. c \in idle'[q]
        BY <3>1, <2>1, <1>4, <1>7
      <4>2. QED
        BY <3>1, <4>1, <1>2 DEF Idle
    <3>2. CASE d # c /\ d \in Held
      <4>1. PICK s \in Threads : d = conn[s] /\ d # None
        BY <3>2 DEF Held
      <4>2. s # t
        BY <3>2, <4>1
      <4>3. QED
        BY <4>1, <4>2, <1>6 DEF Held
    <3>3. CASE d # c /\ d \in Idle
      <4>1. PICK r \in PoolIds : d \in idle[r]
        BY <3>3 DEF Idle
      <4>2. d \in idle'[r]
        BY <4>1, <1>7
      <4>3. QED
        BY <4>2 DEF Idle
    <3>4. d \in open
      BY <2>1, <1>7
    <3>5. QED
      BY <2>1, <3>1, <3>2, <3>3, <3>4 DEF LosesNothing
  <2>2. QED
    BY <2>1 DEF LosesNothing
<1>14. QED
  BY <1>4, <1>5, <1>8, <1>9, <1>10, <1>11, <1>12, <1>13 DEF MutexInv

LEMMA AbortKeeps ==
  ASSUME AllInv, NEW p \in Processes, Abort(p)
  PROVE  AllInv' /\ LosesNothing
<1> USE DEF AllInv, PoolInv
<1>1. /\ UNCHANGED <<program, access, err, table, mutex, total>>
      /\ pc' = [u \in Threads |-> pc'[u]] /\ conn' \in [Threads -> Conns \union {None}]
      /\ \A u \in Threads : Mine(u) # p => pc'[u] = pc[u] /\ conn'[u] = conn[u]
      /\ \A u \in Threads : Mine(u) = p => pc'[u] = "dead" /\ conn'[u] = None
      /\ open' \subseteq open /\ \A c \in open : c \in open' <=> Mine(c.pool.maker) # p
      /\ idle' \in [PoolIds -> SUBSET Conns]
      /\ \A q \in PoolIds : Mine(q.maker) # p => idle'[q] = idle[q]
      /\ \A q \in PoolIds : Mine(q.maker) = p => idle'[q] = {}
  BY DEF Abort, PoolTypes, PoolTypeOK
<1>2. \A q \in PoolIds : idle'[q] \subseteq idle[q]
  BY <1>1
<1>3. PoolTypes'
  BY <1>1 DEF PoolTypes, PoolTypeOK
<1>4. HoldersHave'
  BY <1>1 DEF HoldersHave, Holding
<1>5. TablesOwn' /\ PoolsPublished'
  BY <1>1 DEF TablesOwn, PoolsPublished, Mine
<1>6. HeldOwn' /\ HeldOnce'
  BY <1>1 DEF HeldOwn, HeldOnce, Mine
<1>7. IdleOwn'
  BY <1>1, <1>2 DEF IdleOwn, Mine
<1>8. IdleOnce'
  <2>1. \A r \in PoolIds : None \notin idle'[r]
    BY <1>1, NoneAssumption
  <2>2. \A u \in Threads : conn'[u] = None \/ conn'[u] = conn[u]
    BY <1>1
  <2>3. QED
    BY <2>1, <2>2, <1>2 DEF IdleOnce
<1>9. MadeOnce'
  <2>1. \A u \in Threads : [maker |-> u, access |-> "rw"] \in PoolIds
    BY DEF PoolIds, Access
  <2>2. \A u \in Threads : pc'[u] = "makerw" => pc[u] = "makerw"
    BY <1>1
  <2>3. QED
    BY <2>1, <2>2, <1>1, <1>2 DEF MadeOnce, Mine
<1>10. program.mutex => MakersLock'
  BY <1>1 DEF MutexInv, MakersLock, Mine
<1>11. program.mutex => OneWriter'
  <2> DEFINE W(u) == conn'[u] # None /\ conn'[u].pool.access = "rw"
  <2>1. \A u \in Threads : W(u) => Writes(u)
    BY <1>1 DEF Writes
  <2>2. \A x \in Processes : table[x]["rw"] # None => table[x]["rw"] \in PoolIds
    BY DEF PoolTypes, PoolTypeOK, Access
  <2> HIDE DEF W
  <2>3. program.mutex =>
           /\ \A u, v \in Threads : u # v /\ Mine(u) = Mine(v) => ~(W(u) /\ W(v))
           /\ \A x \in Processes : LET q == table[x]["rw"] IN q # None =>
                /\ total[q] \in {0, 1}
                /\ \A c, d \in idle'[q] : c = d
                /\ idle'[q] # {} => total[q] = 1 /\ \A u \in Threads : Mine(u) = x => ~W(u)
                /\ total[q] = 0 => \A u \in Threads : Mine(u) = x => ~W(u)
    BY <2>1, <2>2, <1>2 DEF MutexInv, OneWriter
  <2>4. QED
    BY <2>3, <1>1 DEF OneWriter, Writes, Mine, W
<1>12. LosesNothing
  <2>1. ASSUME NEW d \in open', d \in open => d \in Held \union Idle PROVE d \in Held' \union Idle'
    <3>1. d \in open /\ Mine(d.pool.maker) # p
      BY <2>1, <1>1
    <3>2. CASE d \in Held
      <4>1. PICK s \in Threads : d = conn[s] /\ d # None
        BY <3>2 DEF Held
      <4>2. Mine(s) # p
        BY <3>1, <4>1 DEF HeldOwn
      <4>3. QED
        BY <4>1, <4>2, <1>1 DEF Held
    <3>3. CASE d \in Idle
      <4>1. PICK r \in PoolIds : d \in idle[r]
        BY <3>3 DEF Idle
      <4>2. Mine(r.maker) # p
        BY <3>1, <4>1 DEF IdleOwn
      <4>3. QED
        BY <4>1, <4>2, <1>1 DEF Idle
    <3>4. QED
      BY <2>1, <3>1, <3>2, <3>3 DEF LosesNothing
  <2>2. QED
    BY <2>1 DEF LosesNothing
<1>13. QED
  BY <1>1, <1>3, <1>4, <1>5, <1>6, <1>7, <1>8, <1>9, <1>10, <1>11, <1>12 DEF MutexInv

(* A step of a thread in the pool.                                         *)
LEMMA PoolStepKeeps ==
  ASSUME AllInv, NEW t \in Threads, PoolStep(t)
  PROVE  AllInv' /\ LosesNothing
<1>1. CASE LookUp(t) \/ Lock(t) \/ Found(t)
  BY <1>1, LookKeeps
<1>2. CASE MakeReaders(t)
  <2>1. CASE pc' = [pc EXCEPT ![t] = "makerw"]
    <3>1. /\ pc[t] = "recheck" /\ table[Mine(t)]["ro"] = None /\ Publish(t, "ro")
          /\ UNCHANGED <<program, access, err, conn, mutex, open>>
      BY <1>2, <2>1 DEF MakeReaders, Goto, AllInv, PoolInv, PoolTypes
    <3>2. QED
      BY <2>1, <3>1, MakeReadersKeeps
  <2>2. CASE pc' # [pc EXCEPT ![t] = "makerw"]
    <3>1. /\ pc[t] \in {"recheck", "makerw"} /\ Leave(t)
          /\ pc' = [pc EXCEPT ![t] = pc'[t]] /\ pc'[t] \in {"found", "refused"}
          /\ err' \in [Threads -> BOOLEAN]
          /\ UNCHANGED <<program, access, conn, table, idle, total, open>>
      BY <1>2, <2>2 DEF MakeReaders, Goto, AllInv, PoolInv, PoolTypes, PoolTypeOK
    <3>2. QED
      BY <3>1, LeaveKeeps
  <2>3. QED
    BY <2>1, <2>2
<1>3. CASE MakeWriter(t)
  <2>1. CASE pc' = [pc EXCEPT ![t] = "found"]
    <3>1. /\ pc[t] = "makerw" /\ Publish(t, "rw") /\ Leave(t)
          /\ UNCHANGED <<program, access, err, conn, open>>
      BY <1>3, <2>1 DEF MakeWriter, Goto, AllInv, PoolInv, PoolTypes
    <3>2. QED
      BY <2>1, <3>1, MakeWriterKeeps
  <2>2. CASE pc' # [pc EXCEPT ![t] = "found"]
    <3>1. /\ pc[t] \in {"recheck", "makerw"} /\ Leave(t)
          /\ pc' = [pc EXCEPT ![t] = pc'[t]] /\ pc'[t] \in {"found", "refused"}
          /\ err' \in [Threads -> BOOLEAN]
          /\ UNCHANGED <<program, access, conn, table, idle, total, open>>
      BY <1>3, <2>2 DEF MakeWriter, Goto, AllInv, PoolInv, PoolTypes, PoolTypeOK
    <3>2. QED
      BY <3>1, LeaveKeeps
  <2>3. QED
    BY <2>1, <2>2
<1>4. QED
  BY <1>1, <1>2, <1>3, TakeIdleKeeps, OpenConnKeeps, OpenFailsKeeps DEF PoolStep

LEMMA StutterKeeps ==
  ASSUME AllInv, UNCHANGED poolVars
  PROVE  AllInv' /\ LosesNothing
<1> USE DEF poolVars, AllInv, PoolInv
<1>1. PoolTypes' /\ HoldersHave' /\ TablesOwn' /\ PoolsPublished'
  BY DEF PoolTypes, PoolTypeOK, HoldersHave, TablesOwn, PoolsPublished, Mine
<1>2. HeldOwn' /\ IdleOwn' /\ HeldOnce' /\ IdleOnce' /\ MadeOnce'
  BY DEF HeldOwn, IdleOwn, HeldOnce, IdleOnce, MadeOnce, Mine
<1>3. MutexInv'
  BY DEF MutexInv, MakersLock, OneWriter, Writes, Mine
<1>4. LosesNothing
  BY DEF LosesNothing, Held, Idle
<1>5. QED
  BY <1>1, <1>2, <1>3, <1>4

(* The invariant says what ConnectionsExclusive does.                      *)
LEMMA PoolsExclusive ==
  ASSUME AllInv
  PROVE  ConnectionsExclusive
<1> USE DEF AllInv, PoolInv
<1>1. \A s, t \in Threads : s # t /\ conn[s] # None => conn[s] # conn[t]
  BY DEF HeldOnce
<1>2. Held \intersect Idle = {} /\ Held \union Idle \subseteq open
  BY DEF Held, Idle, IdleOnce, HeldOwn, IdleOwn
<1>3. \A q, r \in PoolIds : q # r => idle[q] \intersect idle[r] = {}
  BY DEF IdleOnce
<1>4. ASSUME program.mutex, NEW p \in Processes PROVE Cardinality(Writers(p)) <= 1
  <2>1. \A s, t \in Writers(p) : s = t
    BY <1>4 DEF MutexInv, OneWriter, Writers, Writes
  <2>2. CASE Writers(p) = {}
    BY <2>2, FS_EmptySet
  <2>3. CASE Writers(p) # {}
    <3>1. PICK t \in Writers(p) : Writers(p) = {t}
      BY <2>1, <2>3
    <3>2. Cardinality({t}) = 1
      BY FS_Singleton
    <3>3. QED
      BY <3>1, <3>2
  <2>4. QED
    BY <2>2, <2>3
<1>5. QED
  BY <1>1, <1>2, <1>3, <1>4 DEF ConnectionsExclusive
=============================================================================
