--------------------------- MODULE DiskCacheProofs ---------------------------
(* What holds of DiskCache for all processes, tiles, retries and calls that *)
(* fail.                                                                   *)
EXTENDS DiskCache, FunctionTheorems, FiniteSetTheorems, TLAPS

-----------------------------------------------------------------------------
(* Types.                                                                   *)

(* A function takes no more values than it has arguments.                  *)
LEMMA ValuesBounded ==
  ASSUME NEW S, IsFiniteSet(S), NEW f
  PROVE  /\ IsFiniteSet({f[x] : x \in S})
         /\ Cardinality({f[x] : x \in S}) <= Cardinality(S)
<1> DEFINE T == {f[x] : x \in S}
           g == [x \in S |-> f[x]]
<1>1. g \in Surjection(S, T)
  BY DEF Surjection
<1>2. QED
  BY <1>1, FS_Surjection

(* Who creates a file finds an inode that is free.                         *)
LEMMA FreeInodeIsFree ==
  ASSUME TypeOK, NEW p \in Procs, fd[p] = None, NEW m \in Names, name[m] = None
  PROVE  /\ FreeInode \in Inodes
         /\ \A n \in Names : name[n] # FreeInode
         /\ \A q \in Procs : fd[q] # FreeInode
<1> DEFINE N == {name[n] : n \in Names \ {m}}
           F == {fd[q] : q \in Procs \ {p}}
<1>1. IsFiniteSet(Names \ {m}) /\ Cardinality(Names \ {m}) = Cardinality(Names) - 1
  BY InodeAssumption, FS_RemoveElement
<1>2. IsFiniteSet(Procs \ {p}) /\ Cardinality(Procs \ {p}) = Cardinality(Procs) - 1
  BY InodeAssumption, FS_RemoveElement
<1>3. IsFiniteSet(N) /\ Cardinality(N) <= Cardinality(Names) - 1
  BY <1>1, ValuesBounded
<1>4. IsFiniteSet(F) /\ Cardinality(F) <= Cardinality(Procs) - 1
  BY <1>2, ValuesBounded
<1> HIDE DEF N, F
<1>5. /\ Cardinality(N) \in Nat /\ Cardinality(F) \in Nat /\ Cardinality(N \cap F) \in Nat
      /\ Cardinality(Names) \in Nat /\ Cardinality(Procs) \in Nat /\ Cardinality(Inodes) \in Nat
  BY <1>3, <1>4, InodeAssumption, FS_Intersection, FS_CardinalityType
<1>6. IsFiniteSet(N \cup F) /\ Cardinality(N \cup F) = Cardinality(N) + Cardinality(F) - Cardinality(N \cap F)
  BY <1>3, <1>4, FS_Union
<1>7. Cardinality(N \cup F) < Cardinality(Inodes)
  BY <1>3, <1>4, <1>5, <1>6, InodeAssumption
<1>8. ~(Inodes \subseteq N \cup F)
  <2> SUFFICES ASSUME Inodes \subseteq N \cup F PROVE FALSE
    OBVIOUS
  <2>1. Cardinality(Inodes) <= Cardinality(N \cup F)
    BY <1>6, FS_Subset
  <2>2. QED
    BY <2>1, <1>5, <1>6, <1>7
<1>9. PICK i \in Inodes : i \notin N /\ i \notin F
  BY <1>8
<1>10. \A n \in Names : name[n] # i
  BY <1>9, CacheAssumption DEF N
<1>11. \A q \in Procs : fd[q] # i
  BY <1>9, CacheAssumption DEF F
<1>12. QED
  BY <1>10, <1>11 DEF FreeInode

(* What opening a name for writing does: the file it leads to is kept, or  *)
(* a free inode becomes it.                                                *)
Target(n) == IF name[n] = Link THEN Blank ELSE n

LEMMA OpenCases ==
  ASSUME TypeOK, NEW p \in Procs, fd[p] = None, NEW n \in Names, OpenToWrite(p, n)
  PROVE  /\ Target(n) \in Names
         /\ \/ /\ name[Target(n)] \in Inodes
               /\ fd' = [fd EXCEPT ![p] = name[Target(n)]]
               /\ UNCHANGED <<name, file>>
            \/ \E i \in Inodes :
                 /\ \A m \in Names : name[m] # i
                 /\ \A q \in Procs : fd[q] # i
                 /\ name[Target(n)] = None
                 /\ fd' = [fd EXCEPT ![p] = i]
                 /\ name' = [name EXCEPT ![Target(n)] = i]
                 /\ file' = [file EXCEPT ![i] = [size |-> 0, kind |-> kind[p]]]
<1>1. Target(n) \in Names /\ Resolve(n) = name[Target(n)]
  BY DEF Target, Resolve, Names
<1>2. name[Target(n)] \in Inodes \union {None}
  BY <1>1 DEF TypeOK, Target
<1>3. CASE name[Target(n)] # None
  BY <1>1, <1>2, <1>3 DEF OpenToWrite
<1>4. CASE name[Target(n)] = None
  <2>1. /\ FreeInode \in Inodes
        /\ \A m \in Names : name[m] # FreeInode
        /\ \A q \in Procs : fd[q] # FreeInode
    BY <1>1, <1>4, FreeInodeIsFree
  <2>2. /\ name' = [name EXCEPT ![Target(n)] = FreeInode]
        /\ file' = [file EXCEPT ![FreeInode] = [size |-> 0, kind |-> kind[p]]]
        /\ fd' = [fd EXCEPT ![p] = FreeInode]
    BY <1>1, <1>4 DEF OpenToWrite, Target
  <2>3. QED
    BY <1>1, <1>4, <2>1, <2>2
<1>5. QED
  BY <1>3, <1>4, <1>1

LEMMA OpenTypes ==
  ASSUME TypeOK, NEW p \in Procs, fd[p] = None, NEW n \in Names, OpenToWrite(p, n)
  PROVE  /\ name' \in [Names -> Inodes \union {None, Link}] /\ name'[Blank] # Link
         /\ file' \in [Inodes -> Files]
         /\ fd' \in [Procs -> Inodes \union {None}]
         /\ fd'[p] # None /\ \A q \in Procs \ {p} : fd'[q] = fd[q]
<1>1. kind[p] \in Kinds
  BY DEF TypeOK, Kinds
<1>2. [size |-> 0, kind |-> kind[p]] \in Files
  BY <1>1 DEF Files
<1>3. Target(n) \in Names
  BY OpenCases
<1>4. CASE /\ name[Target(n)] \in Inodes
           /\ fd' = [fd EXCEPT ![p] = name[Target(n)]]
           /\ UNCHANGED <<name, file>>
  BY <1>3, <1>4, CacheAssumption DEF TypeOK
<1>5. ASSUME NEW i \in Inodes,
             fd' = [fd EXCEPT ![p] = i],
             name' = [name EXCEPT ![Target(n)] = i],
             file' = [file EXCEPT ![i] = [size |-> 0, kind |-> kind[p]]]
      PROVE  /\ name' \in [Names -> Inodes \union {None, Link}] /\ name'[Blank] # Link
             /\ file' \in [Inodes -> Files]
             /\ fd' \in [Procs -> Inodes \union {None}]
             /\ fd'[p] # None /\ \A q \in Procs \ {p} : fd'[q] = fd[q]
  <2>1. i # None /\ i # Link
    BY CacheAssumption
  <2>2. Blank \in Names
    BY DEF Names
  <2>3. QED
    BY <1>2, <1>3, <1>5, <2>1, <2>2 DEF TypeOK
<1>6. QED
  BY <1>4, <1>5, OpenCases

LEMMA WriteTypes ==
  ASSUME TypeOK, NEW p \in Procs, fd[p] \in Inodes, WritePart(p) \/ WriteRest(p)
  PROVE  file' \in [Inodes -> Files]
<1>1. kind[p] \in Kinds /\ file[fd[p]] \in Files /\ file[fd[p]].kind \in Kinds
      /\ file[fd[p]].size \in 0 .. 2 /\ "mixed" \in Kinds
  BY DEF TypeOK, Kinds, Files
<1>2. CASE WritePart(p)
  <2>1. PICK s \in {file[fd[p]].size, 1} :
          file' = [file EXCEPT ![fd[p]] = [size |-> s, kind |-> IF @.size = 0 THEN kind[p]
                                            ELSE IF @.kind = kind[p] THEN @.kind ELSE "mixed"]]
    BY <1>2 DEF WritePart
  <2>2. QED
    BY <1>1, <2>1 DEF TypeOK, Files
<1>3. CASE WriteRest(p)
  <2>1. PICK k \in {kind[p], "mixed"} : file' = [file EXCEPT ![fd[p]] = Whole(k)]
    BY <1>3 DEF WriteRest
  <2>2. QED
    BY <1>1, <2>1 DEF TypeOK, Files, Whole
<1>4. QED
  BY <1>2, <1>3

LEMMA UnlinkTypes ==
  ASSUME TypeOK, NEW n \in Names, Unlink(n)
  PROVE  /\ name' \in [Names -> Inodes \union {None, Link}] /\ name'[Blank] # Link
         /\ file' \in [Inodes -> Files]
<1>1. Empty \in Files
  BY DEF Empty, Files, Kinds
<1>2. QED
  BY <1>1, CacheAssumption DEF TypeOK, Unlink

(* The ways out of a call keep the types.                                  *)
LEMMA ReturnTypes ==
  ASSUME TypeOK, NEW p \in Procs, Return(p) \/ ReturnError(p)
  PROVE  /\ pc' = [pc EXCEPT ![p] = "idle"] /\ fd' = [fd EXCEPT ![p] = None]
         /\ tries' \in [Procs -> 0 .. Retries]
         /\ err' \in [Procs -> BOOLEAN]
<1>1. 0 \in 0 .. Retries
  BY CacheAssumption
<1>2. /\ pc' = [pc EXCEPT ![p] = "idle"] /\ fd' = [fd EXCEPT ![p] = None]
      /\ tries' = [tries EXCEPT ![p] = 0]
  BY DEF Return, ReturnError, Goto
<1>3. err' = err \/ err' = [err EXCEPT ![p] = TRUE]
  BY DEF Return, ReturnError
<1>4. err' \in [Procs -> BOOLEAN]
  BY <1>3 DEF TypeOK
<1>5. QED
  BY <1>1, <1>2, <1>4 DEF TypeOK

LEMMA RetryTypes ==
  ASSUME TypeOK, NEW p \in Procs, Retry(p)
  PROVE  /\ \/ pc' = pc /\ fd' = fd
            \/ pc' = [pc EXCEPT ![p] = "idle"] /\ fd' = [fd EXCEPT ![p] = None]
         /\ tries' \in [Procs -> 0 .. Retries]
         /\ err' \in [Procs -> BOOLEAN]
<1>1. CASE tries[p] < Retries /\ tries' = [tries EXCEPT ![p] = @ + 1] /\ UNCHANGED <<pc, fd, err>>
  BY <1>1, CacheAssumption DEF TypeOK
<1>2. CASE ReturnError(p)
  BY <1>2, ReturnTypes
<1>3. QED
  BY <1>1, <1>2 DEF Retry

LEMMA TypeInit == Init => TypeOK
<1>1. Empty \in Files
  BY DEF Empty, Files, Kinds
<1>2. QED
  BY <1>1, CacheAssumption DEF Init, TypeOK, Names

LEMMA TypeNext == TypeOK /\ [Next]_vars => TypeOK'
<1> SUFFICES ASSUME TypeOK, [Next]_vars PROVE TypeOK'
  OBVIOUS
<1>1. ASSUME NEW p \in Procs, NEW t \in Tiles, NEW k \in {"image", "blank"}, Set(p, t, k) PROVE TypeOK'
  BY <1>1 DEF TypeOK, Set, Goto, disk, StoreLabels
<1>2. ASSUME NEW p \in Procs, MakeDirectory(p) PROVE TypeOK'
  BY <1>2, ReturnTypes DEF TypeOK, MakeDirectory, Goto, disk, request, StoreLabels
<1>3. ASSUME NEW p \in Procs, RemoveOld(p) PROVE TypeOK'
  <2>1. /\ name' \in [Names -> Inodes \union {None, Link}] /\ name'[Blank] # Link
        /\ file' \in [Inodes -> Files]
    BY <1>3, UnlinkTypes DEF RemoveOld, TypeOK, Names
  <2>2. QED
    BY <1>3, <2>1 DEF TypeOK, RemoveOld, Goto, request, StoreLabels
<1>4. ASSUME NEW p \in Procs, ChooseFile(p) PROVE TypeOK'
  BY <1>4, ReturnTypes DEF TypeOK, ChooseFile, Goto, disk, request, StoreLabels
<1>5. ASSUME NEW p \in Procs, FindBlank(p) PROVE TypeOK'
  BY <1>5, ReturnTypes DEF TypeOK, FindBlank, Goto, disk, request, StoreLabels
<1>6. ASSUME NEW p \in Procs, MakeBlankDirectory(p) PROVE TypeOK'
  BY <1>6, ReturnTypes DEF TypeOK, MakeBlankDirectory, Goto, disk, request, StoreLabels
<1>7. ASSUME NEW p \in Procs, LockBlank(p) PROVE TypeOK'
  BY <1>7 DEF TypeOK, LockBlank, Goto, request, StoreLabels
<1>8. ASSUME NEW p \in Procs, BlankUnlocked(p) PROVE TypeOK'
  BY <1>8 DEF TypeOK, BlankUnlocked, Goto, disk, request, StoreLabels
<1>9. ASSUME NEW p \in Procs, CreateBlank(p) PROVE TypeOK'
  <2>1. fd[p] = None /\ Blank \in Names
    BY <1>9 DEF TypeOK, CreateBlank, Names
  <2>2. CASE OpenToWrite(p, Blank) /\ Goto(p, "writeblank") /\ UNCHANGED <<lock, tries, err>>
    BY <1>9, <2>1, <2>2, OpenTypes DEF TypeOK, CreateBlank, Goto, request, StoreLabels
  <2>3. CASE ReturnError(p) /\ lock' = None /\ UNCHANGED <<name, file>>
    BY <1>9, <2>3, ReturnTypes DEF TypeOK, CreateBlank, request
  <2>4. QED
    BY <1>9, <2>2, <2>3 DEF CreateBlank
<1>10. ASSUME NEW p \in Procs, WriteBlank(p) PROVE TypeOK'
  <2>1. file' \in [Inodes -> Files]
    BY <1>10, WriteTypes DEF TypeOK, WriteBlank
  <2>2. QED
    BY <1>10, <2>1, ReturnTypes DEF TypeOK, WriteBlank, Goto, request, StoreLabels
<1>11. ASSUME NEW p \in Procs, CloseBlank(p) PROVE TypeOK'
  <2>1. file' \in [Inodes -> Files]
    BY <1>11, WriteTypes DEF TypeOK, CloseBlank
  <2>2. QED
    BY <1>11, <2>1 DEF TypeOK, CloseBlank, Goto, request, StoreLabels
<1>12. ASSUME NEW p \in Procs, UnlockBlank(p) PROVE TypeOK'
  BY <1>12 DEF TypeOK, UnlockBlank, Goto, request, StoreLabels
<1>13. ASSUME NEW p \in Procs, LinkTile(p) PROVE TypeOK'
  <2>1. name' \in [Names -> Inodes \union {None, Link}] /\ name'[Blank] # Link
    BY <1>13, CacheAssumption DEF TypeOK, LinkTile, Names
  <2>2. QED
    BY <1>13, <2>1, ReturnTypes, RetryTypes DEF TypeOK, LinkTile, request, StoreLabels
<1>14. ASSUME NEW p \in Procs, CreateTile(p) PROVE TypeOK'
  <2>1. fd[p] = None /\ tile[p] \in Names
    BY <1>14 DEF TypeOK, CreateTile, Names
  <2>2. CASE OpenToWrite(p, tile[p]) /\ Goto(p, "write") /\ UNCHANGED <<tries, err>>
    BY <1>14, <2>1, <2>2, OpenTypes DEF TypeOK, CreateTile, Goto, request, StoreLabels
  <2>3. CASE Retry(p) /\ UNCHANGED <<name, file>>
    BY <1>14, <2>3, RetryTypes DEF TypeOK, CreateTile, request, StoreLabels
  <2>4. QED
    BY <1>14, <2>2, <2>3 DEF CreateTile
<1>15. ASSUME NEW p \in Procs, WriteTile(p) PROVE TypeOK'
  <2>1. file' \in [Inodes -> Files]
    BY <1>15, WriteTypes DEF TypeOK, WriteTile
  <2>2. QED
    BY <1>15, <2>1, ReturnTypes DEF TypeOK, WriteTile, Goto, request, StoreLabels
<1>16. ASSUME NEW p \in Procs, CloseTile(p) PROVE TypeOK'
  <2>1. file' \in [Inodes -> Files]
    BY <1>16, WriteTypes DEF TypeOK, CloseTile
  <2>2. QED
    BY <1>16, <2>1, ReturnTypes DEF TypeOK, CloseTile, request
<1>17. ASSUME NEW p \in Procs, NEW t \in Tiles, Get(p, t) PROVE TypeOK'
  <2>1. Resolve(t) \in Inodes \union {None}
    BY CacheAssumption DEF TypeOK, Resolve, Names
  <2>2. QED
    BY <1>17, <2>1, CacheAssumption DEF TypeOK, Get, Goto, disk, StoreLabels
<1>18. ASSUME NEW p \in Procs, Read(p) PROVE TypeOK'
  BY <1>18, ReturnTypes DEF TypeOK, Read, disk, request
<1>19. ASSUME NEW p \in Procs, NEW t \in Tiles, Delete(p, t) PROVE TypeOK'
  BY <1>19, UnlinkTypes DEF TypeOK, Delete, request, Names
<1>20. ASSUME NEW p \in Procs, Crash(p) PROVE TypeOK'
  BY <1>20, CacheAssumption DEF TypeOK, Crash, Goto, disk, request
<1>21. CASE UNCHANGED vars
  BY <1>21 DEF TypeOK, vars
<1>22. ASSUME NEW p \in Procs, Store(p) PROVE TypeOK'
  BY <1>22, <1>2, <1>3, <1>4, <1>5, <1>6, <1>7, <1>8, <1>9, <1>10, <1>11, <1>12, <1>13, <1>14,
     <1>15, <1>16 DEF Store
<1>23. ASSUME NEW p \in Procs, NEW image \in Images, Set(p, image[1], image[2]) PROVE TypeOK'
  BY <1>23, <1>1, CacheAssumption
<1>24. QED
  BY <1>17, <1>18, <1>19, <1>20, <1>21, <1>22, <1>23 DEF Next

(* Whatever fails and however many processes die, every variable keeps its *)
(* type, a process has a file open exactly while it reads or writes, and a *)
(* file that is created finds a free inode.                                *)
THEOREM TypeCorrect == Spec => []TypeOK
BY TypeInit, TypeNext, PTL DEF Spec

-----------------------------------------------------------------------------
(* One writer at a time for a tile. Its old file is gone before the new    *)
(* one is created, so the file it fills is its own: no other name leads to *)
(* it and no other writer has it open. The context of a request keeps an   *)
(* error when the old file could not be removed, and then nothing of this  *)
(* holds.                                                                  *)

(* From the removal of the old file to the creation of the new one.        *)
Emptied == {"choose", "findblank", "mkblanks", "lockblank", "waitblank", "createblank",
            "writeblank", "closeblank", "unlockblank", "link", "create"}
Fills(p) == pc[p] \in {"write", "close"}

NamesApart ==
  \A m, n \in Names : m # n /\ name[m] \in Inodes => name[m] # name[n]
WritersApart ==
  \A p, q \in Procs : p # q /\ Storing(p) /\ Storing(q) => tile[p] # tile[q]
OldGone ==
  \A p \in Procs : pc[p] \in Emptied /\ ~err[p] => name[tile[p]] = None
OwnFile ==
  \A p \in Procs : Fills(p) /\ ~err[p] =>
    /\ name[tile[p]] \in {None, fd[p]}
    /\ \A n \in Names \ {tile[p]} : name[n] # fd[p]
    /\ \A q \in Procs \ {p} : Storing(q) => fd[q] # fd[p]
    /\ file[fd[p]].kind = kind[p]

FreshInv == NamesApart /\ WritersApart /\ OldGone /\ OwnFile

(* What writing and unlinking leave alone.                                 *)
LEMMA WriteKeeps ==
  ASSUME TypeOK, NEW p \in Procs, fd[p] \in Inodes, WritePart(p) \/ WriteRest(p)
  PROVE  /\ \A i \in Inodes \ {fd[p]} : file'[i] = file[i]
         /\ file'[fd[p]].size >= file[fd[p]].size
         /\ file[fd[p]].kind = kind[p] => file'[fd[p]].kind = kind[p]
<1>1. file[fd[p]] \in Files /\ file[fd[p]].size \in 0 .. 2
  BY DEF TypeOK, Files
<1>2. CASE WritePart(p)
  <2>1. PICK s \in {file[fd[p]].size, 1} :
          /\ s >= file[fd[p]].size
          /\ file' = [file EXCEPT ![fd[p]] = [size |-> s, kind |-> IF @.size = 0 THEN kind[p]
                                            ELSE IF @.kind = kind[p] THEN @.kind ELSE "mixed"]]
    BY <1>2 DEF WritePart
  <2>2. QED
    BY <1>1, <2>1 DEF TypeOK
<1>3. CASE WriteRest(p)
  <2>1. PICK k \in IF file[fd[p]].kind = kind[p] THEN {kind[p]} ELSE {kind[p], "mixed"} :
          file' = [file EXCEPT ![fd[p]] = Whole(k)]
    BY <1>3 DEF WriteRest
  <2>2. QED
    BY <1>1, <2>1 DEF TypeOK, Whole
<1>4. QED
  BY <1>2, <1>3

LEMMA RestIsWhole ==
  ASSUME TypeOK, NEW p \in Procs, fd[p] \in Inodes, WriteRest(p), file[fd[p]].kind = kind[p]
  PROVE  file'[fd[p]] = Whole(kind[p])
BY DEF TypeOK, WriteRest

LEMMA UnlinkKeeps ==
  ASSUME TypeOK, NEW n \in Names, Unlink(n)
  PROVE  /\ name'[n] = None /\ \A m \in Names \ {n} : name'[m] = name[m]
         /\ \A i \in Inodes : i # name[n] => file'[i] = file[i]
         /\ \A p \in Procs : fd[p] \in Inodes => file'[fd[p]] = file[fd[p]]
BY DEF TypeOK, Unlink

(* A step of p that leaves the disk alone and opens nothing.               *)
LEMMA FreshFrame ==
  ASSUME TypeOK, FreshInv, NEW p \in Procs, UNCHANGED <<name, file, kind>>,
         fd'[p] = None, pc'[p] \notin {"write", "close"},
         pc'[p] \in StoreLabels => tile'[p] = tile[p] /\ pc[p] \in StoreLabels,
         pc'[p] \in Emptied => err'[p] \/ (pc[p] \in Emptied /\ ~err[p]),
         \A q \in Procs \ {p} :
           pc'[q] = pc[q] /\ tile'[q] = tile[q] /\ fd'[q] = fd[q] /\ err'[q] = err[q]
  PROVE  FreshInv'
<1>1. NamesApart' /\ WritersApart' /\ OldGone'
  BY DEF FreshInv, NamesApart, WritersApart, OldGone, Storing, StoreLabels, Emptied
<1>2. OwnFile'
  <2>1. \A q \in Procs : Fills(q) => fd[q] # None
    BY DEF TypeOK, Fills
  <2>2. QED
    BY <2>1 DEF FreshInv, OwnFile, Storing, Fills
<1>3. QED
  BY <1>1, <1>2 DEF FreshInv

LEMMA FreshInit == Init => FreshInv
BY CacheAssumption DEF Init, FreshInv, NamesApart, WritersApart, OldGone, OwnFile, Storing, StoreLabels, Emptied, Fills

(* A step of p that opens file n for writing: Blank, or the name of its    *)
(* tile when that file is gone or the request has an error.                *)
LEMMA FreshOpen ==
  ASSUME TypeOK, FreshInv, NEW p \in Procs, NEW n \in Names, OpenToWrite(p, n), fd[p] = None,
         \/ pc[p] = "createblank" /\ n = Blank /\ pc' = [pc EXCEPT ![p] = "writeblank"]
         \/ pc[p] = "create" /\ n = tile[p] /\ pc' = [pc EXCEPT ![p] = "write"],
         UNCHANGED <<tile, kind, err>>
  PROVE  FreshInv'
<1> DEFINE m == Target(n)
<1>1. m \in {Blank, tile[p]} /\ m \in Names /\ tile[p] \in Names /\ tile[p] # Blank
  BY CacheAssumption DEF Target, Names, TypeOK
<1>2. \A q \in Procs \ {p} : Storing(q) => tile[q] # m
  BY <1>1, CacheAssumption DEF TypeOK, FreshInv, WritersApart, Storing, StoreLabels
<1>3. WritersApart'
  BY DEF TypeOK, FreshInv, WritersApart, Storing, StoreLabels
<1>4. CASE /\ name[m] \in Inodes
           /\ fd' = [fd EXCEPT ![p] = name[m]]
           /\ UNCHANGED <<name, file>>
  <2>1. NamesApart' /\ OldGone'
    BY <1>4 DEF TypeOK, FreshInv, NamesApart, OldGone, Emptied
  <2>2. n = tile[p] => err[p]
    <3>1. ~err[p] => name[tile[p]] = None
      BY DEF FreshInv, OldGone, Emptied
    <3>2. QED
      BY <3>1, <1>1, <1>4, CacheAssumption DEF Target
  <2>3. OwnFile'
    <3>1. ASSUME NEW q \in Procs, Fills(q)', ~err[q]
          PROVE  /\ q # p /\ Fills(q)
                 /\ name[m] # fd[q]
      BY <3>1, <1>1, <1>2, <2>2 DEF TypeOK, FreshInv, OwnFile, Fills, Storing, StoreLabels
    <3>2. QED
      BY <3>1, <1>4 DEF TypeOK, FreshInv, OwnFile, Fills, Storing, StoreLabels
  <2>4. QED
    BY <1>3, <2>1, <2>3 DEF FreshInv
<1>5. ASSUME NEW i \in Inodes,
             \A l \in Names : name[l] # i, \A q \in Procs : fd[q] # i,
             name[m] = None,
             fd' = [fd EXCEPT ![p] = i],
             name' = [name EXCEPT ![m] = i],
             file' = [file EXCEPT ![i] = [size |-> 0, kind |-> kind[p]]]
      PROVE  NamesApart' /\ OldGone' /\ OwnFile'
  <2>1. NamesApart'
    BY <1>1, <1>5 DEF TypeOK, FreshInv, NamesApart
  <2>2. OldGone'
    <3>1. ASSUME NEW q \in Procs, pc'[q] \in Emptied, ~err[q]
          PROVE  name'[tile[q]] = None
      <4>1. q # p => tile[q] # m
        BY <3>1, <1>2 DEF TypeOK, Storing, StoreLabels, Emptied
      <4>2. q = p => tile[q] # m
        BY <3>1, <1>1 DEF TypeOK, Emptied, Target
      <4>3. tile[q] \in Names /\ pc[q] \in Emptied
        BY <3>1 DEF TypeOK, Names, Emptied
      <4>4. QED
        BY <3>1, <4>1, <4>2, <4>3, <1>5, <1>1 DEF TypeOK, FreshInv, OldGone
    <3>2. QED
      BY <3>1 DEF OldGone
  <2>3. OwnFile'
    <3>1. ASSUME NEW q \in Procs, Fills(q)', ~err[q], q # p
          PROVE  /\ name'[tile[q]] \in {None, fd'[q]}
                 /\ \A l \in Names \ {tile[q]} : name'[l] # fd'[q]
                 /\ \A r \in Procs \ {q} : Storing(r)' => fd'[r] # fd'[q]
                 /\ file'[fd'[q]].kind = kind[q]
      <4>1. Fills(q) /\ Storing(q) /\ tile[q] # m /\ tile[q] \in Names /\ fd[q] \in Inodes \ {i} /\ fd'[q] = fd[q]
        BY <3>1, <1>2, <1>5 DEF TypeOK, Fills, Storing, StoreLabels, Names
      <4>2. /\ name[tile[q]] \in {None, fd[q]}
            /\ \A l \in Names \ {tile[q]} : name[l] # fd[q]
            /\ \A r \in Procs \ {q} : Storing(r) => fd[r] # fd[q]
            /\ file[fd[q]].kind = kind[q]
        BY <4>1, <3>1 DEF FreshInv, OwnFile
      <4>3. \A r \in Procs \ {q} : Storing(r)' => fd'[r] # fd'[q]
        BY <4>1, <4>2, <1>5 DEF TypeOK, Storing, StoreLabels
      <4>4. QED
        BY <4>1, <4>2, <4>3, <1>1, <1>5 DEF TypeOK
    <3>2. ASSUME Fills(p)', ~err[p]
          PROVE  /\ name'[tile[p]] \in {None, fd'[p]}
                 /\ \A l \in Names \ {tile[p]} : name'[l] # fd'[p]
                 /\ \A r \in Procs \ {p} : Storing(r)' => fd'[r] # fd'[p]
                 /\ file'[fd'[p]].kind = kind[p]
      <4>1. n = tile[p] /\ pc[p] = "create"
        BY <3>2 DEF TypeOK, Fills
      <4>2. name[tile[p]] = None /\ m = tile[p]
        BY <4>1, <3>2, CacheAssumption DEF FreshInv, OldGone, Emptied, Target
      <4>3. QED
        BY <4>2, <1>1, <1>5 DEF TypeOK, Storing, StoreLabels
    <3>3. QED
      BY <3>1, <3>2 DEF OwnFile
  <2>4. QED
    BY <2>1, <2>2, <2>3
<1>6. QED
  BY <1>3, <1>4, <1>5, OpenCases DEF FreshInv

(* A step of p that writes to the file it has open.                        *)
LEMMA FreshWrite ==
  ASSUME TypeOK, FreshInv, NEW p \in Procs, WritePart(p) \/ WriteRest(p),
         pc[p] \in {"writeblank", "closeblank", "write", "close"},
         \/ pc[p] = "writeblank" /\ pc' = [pc EXCEPT ![p] = "closeblank"] /\ fd' = fd
         \/ pc[p] = "closeblank" /\ pc' = [pc EXCEPT ![p] = "unlockblank"] /\ fd' = [fd EXCEPT ![p] = None]
         \/ pc[p] = "write" /\ pc' = [pc EXCEPT ![p] = "close"] /\ fd' = fd
         \/ pc' = [pc EXCEPT ![p] = "idle"] /\ fd' = [fd EXCEPT ![p] = None],
         err' \in {err, [err EXCEPT ![p] = TRUE]}, pc'[p] = "idle" \/ err' = err,
         UNCHANGED <<name, tile, kind>>
  PROVE  FreshInv'
<1>1. fd[p] \in Inodes
  BY DEF TypeOK
<1>2. /\ \A i \in Inodes \ {fd[p]} : file'[i] = file[i]
      /\ file[fd[p]].kind = kind[p] => file'[fd[p]].kind = kind[p]
  BY <1>1, WriteKeeps
<1>3. \A q \in Procs : ~err'[q] => ~err[q]
  BY DEF TypeOK
<1>4. NamesApart' /\ WritersApart' /\ OldGone'
  BY <1>3 DEF TypeOK, FreshInv, NamesApart, WritersApart, OldGone, Storing, StoreLabels, Emptied
<1>5. ASSUME NEW q \in Procs, Fills(q)', ~err'[q]
      PROVE  /\ Fills(q) /\ ~err[q] /\ fd'[q] = fd[q] /\ fd[q] \in Inodes
             /\ \A r \in Procs : Storing(r)' => Storing(r)
             /\ \A r \in Procs : fd'[r] \in {None, fd[r]}
             /\ Storing(p)
  BY <1>3, <1>5, CacheAssumption DEF TypeOK, Fills, Storing, StoreLabels
<1>6. OwnFile'
  <2>1. ASSUME NEW q \in Procs, Fills(q)', ~err'[q]
        PROVE  /\ name[tile[q]] \in {None, fd[q]}
               /\ \A l \in Names \ {tile[q]} : name[l] # fd[q]
               /\ \A r \in Procs \ {q} : Storing(r) => fd[r] # fd[q]
               /\ file[fd[q]].kind = kind[q]
    BY <2>1, <1>5 DEF FreshInv, OwnFile
  <2>2. ASSUME NEW q \in Procs, Fills(q)', ~err'[q] PROVE file'[fd'[q]].kind = kind[q]
    BY <2>2, <2>1, <1>2, <1>5
  <2>3. \A q, r \in Procs : Fills(q)' /\ ~err'[q] /\ r # q /\ Storing(r)' => fd'[r] # fd'[q]
    BY <2>1, <1>5, CacheAssumption
  <2>4. QED
    BY <2>1, <2>2, <2>3, <1>5 DEF OwnFile
<1>7. QED
  BY <1>4, <1>6 DEF FreshInv

(* A name that goes.                                                       *)
LEMMA FreshUnlink ==
  ASSUME TypeOK, FreshInv, NEW p \in Procs, NEW n \in Names, Unlink(n),
         \/ pc[p] = "remove" /\ n = tile[p] /\ pc' = [pc EXCEPT ![p] = "choose"]
         \/ UNCHANGED pc,
         UNCHANGED <<tile, kind, fd, err>>
  PROVE  FreshInv'
<1>1. /\ name'[n] = None /\ \A m \in Names \ {n} : name'[m] = name[m]
      /\ \A q \in Procs : fd[q] \in Inodes => file'[fd[q]] = file[fd[q]]
  BY UnlinkKeeps
<1>2. NamesApart' /\ WritersApart'
  BY <1>1, CacheAssumption DEF TypeOK, FreshInv, NamesApart, WritersApart, Storing, StoreLabels
<1>3. OldGone'
  BY <1>1 DEF TypeOK, FreshInv, OldGone, Emptied, Names
<1>4. OwnFile'
  <2>1. \A q \in Procs : Fills(q)' => Fills(q) /\ fd[q] \in Inodes /\ tile[q] \in Names
    BY DEF TypeOK, Fills, Names
  <2>2. \A q \in Procs : Storing(q)' => Storing(q)
    BY DEF TypeOK, Storing, StoreLabels
  <2>3. QED
    BY <1>1, <2>1, <2>2, CacheAssumption DEF FreshInv, OwnFile
<1>5. QED
  BY <1>2, <1>3, <1>4 DEF FreshInv

(* A link that is created for a tile.                                      *)
LEMMA FreshLink ==
  ASSUME TypeOK, FreshInv, NEW p \in Procs, pc[p] = "link", name[tile[p]] = None,
         name' = [name EXCEPT ![tile[p]] = Link], Return(p), UNCHANGED <<file, tile, kind>>
  PROVE  FreshInv'
<1>1. /\ pc' = [pc EXCEPT ![p] = "idle"] /\ fd' = fd /\ UNCHANGED err
  BY DEF Return, Goto, TypeOK
<1>2. \A q \in Procs \ {p} : Storing(q) => tile[q] # tile[p]
  BY DEF FreshInv, WritersApart, Storing, StoreLabels
<1>3. \A q \in Procs : Storing(q)' => q # p /\ Storing(q)
  BY <1>1 DEF TypeOK, Storing, StoreLabels
<1>4. NamesApart' /\ WritersApart'
  BY <1>3, CacheAssumption DEF TypeOK, FreshInv, NamesApart, WritersApart
<1>5. OldGone'
  BY <1>1, <1>2 DEF TypeOK, FreshInv, OldGone, Emptied, Storing, StoreLabels, Names
<1>6. OwnFile'
  <2>1. \A q \in Procs : Fills(q)' => q # p /\ Fills(q) /\ tile[q] # tile[p] /\ fd[q] \in Inodes
                                    /\ tile[q] \in Names
    BY <1>1, <1>2 DEF TypeOK, Fills, Storing, StoreLabels, Names
  <2>2. \A n \in Names : name'[n] \in {name[n], Link} /\ (n # tile[p] => name'[n] = name[n])
    BY DEF TypeOK
  <2>3. QED
    BY <2>1, <2>2, <1>1, <1>3, CacheAssumption DEF FreshInv, OwnFile
<1>7. QED
  BY <1>4, <1>5, <1>6 DEF FreshInv

LEMMA FreshNext == Exclusive /\ TypeOK /\ FreshInv /\ [Next]_vars => FreshInv'
<1> SUFFICES ASSUME Exclusive, TypeOK, FreshInv, [Next]_vars PROVE FreshInv'
  OBVIOUS
<1>1. ASSUME NEW p \in Procs, NEW t \in Tiles, NEW k \in {"image", "blank"}, Set(p, t, k) PROVE FreshInv'
  <2>1. /\ pc[p] = "idle" /\ fd[p] = None /\ pc'[p] = "mkdir"
        /\ \A q \in Procs \ {p} : pc'[q] = pc[q] /\ tile'[q] = tile[q] /\ err'[q] = err[q] /\ kind'[q] = kind[q]
        /\ tile'[p] = t
    BY <1>1 DEF TypeOK, Set, Goto
  <2>2. WritersApart'
    BY <1>1, <2>1 DEF Set, FreshInv, WritersApart, Storing
  <2>3. NamesApart' /\ OldGone'
    BY <1>1, <2>1 DEF Set, disk, FreshInv, NamesApart, OldGone, Emptied
  <2>4. \A q \in Procs : Fills(q)' => q # p /\ Fills(q) /\ fd[q] # None
    BY <1>1, <2>1 DEF TypeOK, Fills
  <2>5. OwnFile'
    BY <1>1, <2>1, <2>4 DEF Set, disk, FreshInv, OwnFile, Storing
  <2>6. QED
    BY <2>2, <2>3, <2>5 DEF FreshInv
<1>2. ASSUME NEW p \in Procs, MakeDirectory(p) PROVE FreshInv'
  BY <1>2, FreshFrame DEF TypeOK, MakeDirectory, Goto, disk, request, StoreLabels, Emptied, ReturnError
<1>3. ASSUME NEW p \in Procs, RemoveOld(p) PROVE FreshInv'
  <2>1. CASE Unlink(tile[p]) /\ UNCHANGED err
    BY <1>3, <2>1, FreshUnlink DEF TypeOK, RemoveOld, Goto, request, Names
  <2>2. CASE err' = [err EXCEPT ![p] = TRUE] /\ UNCHANGED <<name, file>>
    BY <1>3, <2>2, FreshFrame DEF TypeOK, RemoveOld, Goto, request, StoreLabels
  <2>3. QED
    BY <1>3, <2>1, <2>2 DEF RemoveOld
<1>4. ASSUME NEW p \in Procs, ChooseFile(p) PROVE FreshInv'
  BY <1>4, FreshFrame DEF TypeOK, ChooseFile, Goto, disk, request, StoreLabels, Emptied, Return
<1>5. ASSUME NEW p \in Procs, FindBlank(p) PROVE FreshInv'
  BY <1>5, FreshFrame DEF TypeOK, FindBlank, Goto, disk, request, StoreLabels, Emptied, Return
<1>6. ASSUME NEW p \in Procs, MakeBlankDirectory(p) PROVE FreshInv'
  BY <1>6, FreshFrame DEF TypeOK, MakeBlankDirectory, Goto, disk, request, StoreLabels, Emptied, ReturnError
<1>7. ASSUME NEW p \in Procs, LockBlank(p) PROVE FreshInv'
  BY <1>7, FreshFrame DEF TypeOK, LockBlank, Goto, request, StoreLabels, Emptied
<1>8. ASSUME NEW p \in Procs, BlankUnlocked(p) PROVE FreshInv'
  BY <1>8, FreshFrame DEF TypeOK, BlankUnlocked, Goto, disk, request, StoreLabels, Emptied
<1>9. ASSUME NEW p \in Procs, CreateBlank(p) PROVE FreshInv'
  <2>1. CASE OpenToWrite(p, Blank) /\ Goto(p, "writeblank") /\ UNCHANGED err
    <3>1. /\ fd[p] = None /\ Blank \in Names /\ pc[p] = "createblank"
          /\ pc' = [pc EXCEPT ![p] = "writeblank"] /\ UNCHANGED <<tile, kind, err>>
      BY <1>9, <2>1 DEF TypeOK, CreateBlank, Goto, request, Names
    <3>2. QED
      BY <2>1, <3>1, FreshOpen
  <2>2. CASE ReturnError(p) /\ UNCHANGED <<name, file>>
    BY <1>9, <2>2, FreshFrame DEF TypeOK, CreateBlank, ReturnError, Goto, request, StoreLabels, Emptied
  <2>3. QED
    BY <1>9, <2>1, <2>2 DEF CreateBlank
<1>10. ASSUME NEW p \in Procs, WriteBlank(p) PROVE FreshInv'
  <2>1. /\ WritePart(p) /\ pc[p] = "writeblank" /\ UNCHANGED <<name, tile, kind>>
        /\ \/ pc' = [pc EXCEPT ![p] = "closeblank"] /\ fd' = fd /\ err' = err
           \/ /\ pc' = [pc EXCEPT ![p] = "idle"] /\ fd' = [fd EXCEPT ![p] = None]
              /\ pc'[p] = "idle" /\ err' = [err EXCEPT ![p] = TRUE]
    BY <1>10 DEF TypeOK, WriteBlank, Goto, request, ReturnError
  <2>2. QED
    BY <2>1, FreshWrite
<1>11. ASSUME NEW p \in Procs, CloseBlank(p) PROVE FreshInv'
  <2>1. CASE WriteRest(p)
    <3>1. /\ pc[p] = "closeblank" /\ UNCHANGED <<name, tile, kind>>
          /\ pc' = [pc EXCEPT ![p] = "unlockblank"] /\ fd' = [fd EXCEPT ![p] = None] /\ err' = err
      BY <1>11 DEF CloseBlank, Goto, request
    <3>2. QED
      BY <2>1, <3>1, FreshWrite
  <2>2. CASE UNCHANGED file
    BY <1>11, <2>2, FreshFrame DEF TypeOK, CloseBlank, Goto, request, StoreLabels, Emptied
  <2>3. QED
    BY <1>11, <2>1, <2>2 DEF CloseBlank
<1>12. ASSUME NEW p \in Procs, UnlockBlank(p) PROVE FreshInv'
  BY <1>12, FreshFrame DEF TypeOK, UnlockBlank, Goto, request, StoreLabels, Emptied
<1>13. ASSUME NEW p \in Procs, LinkTile(p) PROVE FreshInv'
  <2>1. CASE ~err[p] /\ name[tile[p]] = None /\ name' = [name EXCEPT ![tile[p]] = Link] /\ Return(p)
    BY <1>13, <2>1, FreshLink DEF LinkTile, request
  <2>2. CASE Return(p) /\ UNCHANGED name
    BY <1>13, <2>2, FreshFrame DEF TypeOK, LinkTile, Return, Goto, request, StoreLabels, Emptied
  <2>3. CASE Retry(p) /\ UNCHANGED name
    BY <1>13, <2>3, FreshFrame DEF TypeOK, LinkTile, Retry, ReturnError, Goto, request, StoreLabels, Emptied
  <2>4. QED
    BY <1>13, <2>1, <2>2, <2>3 DEF LinkTile
<1>14. ASSUME NEW p \in Procs, CreateTile(p) PROVE FreshInv'
  <2>1. CASE OpenToWrite(p, tile[p]) /\ Goto(p, "write") /\ UNCHANGED err
    BY <1>14, <2>1, FreshOpen DEF TypeOK, CreateTile, Goto, request, Names
  <2>2. CASE Retry(p) /\ UNCHANGED <<name, file>>
    BY <1>14, <2>2, FreshFrame DEF TypeOK, CreateTile, Retry, ReturnError, Goto, request, StoreLabels, Emptied
  <2>3. QED
    BY <1>14, <2>1, <2>2 DEF CreateTile
<1>15. ASSUME NEW p \in Procs, WriteTile(p) PROVE FreshInv'
  <2>1. /\ WritePart(p) /\ pc[p] = "write" /\ UNCHANGED <<name, tile, kind>>
        /\ \/ pc' = [pc EXCEPT ![p] = "close"] /\ fd' = fd /\ err' = err
           \/ /\ pc' = [pc EXCEPT ![p] = "idle"] /\ fd' = [fd EXCEPT ![p] = None]
              /\ pc'[p] = "idle" /\ err' = [err EXCEPT ![p] = TRUE]
    BY <1>15 DEF TypeOK, WriteTile, Goto, request, ReturnError
  <2>2. QED
    BY <2>1, FreshWrite
<1>16. ASSUME NEW p \in Procs, CloseTile(p) PROVE FreshInv'
  <2>1. CASE WriteRest(p) /\ Return(p)
    BY <1>16, <2>1, FreshWrite DEF TypeOK, CloseTile, Goto, request, Return
  <2>2. CASE UNCHANGED file /\ ReturnError(p)
    BY <1>16, <2>2, FreshFrame DEF TypeOK, CloseTile, Goto, request, StoreLabels, Emptied, ReturnError
  <2>3. QED
    BY <1>16, <2>1, <2>2 DEF CloseTile
<1>17. ASSUME NEW p \in Procs, NEW t \in Tiles, Get(p, t) PROVE FreshInv'
  <2>1. /\ pc[p] = "idle" /\ pc'[p] \in {"idle", "read"} /\ fd[p] = None
        /\ \A q \in Procs \ {p} : pc'[q] = pc[q] /\ tile'[q] = tile[q] /\ err'[q] = err[q] /\ fd'[q] = fd[q]
        /\ UNCHANGED <<name, file, kind>>
    BY <1>17 DEF TypeOK, Get, Goto, disk
  <2>2. \A q \in Procs : Storing(q)' => q # p /\ Storing(q)
    BY <2>1 DEF Storing, StoreLabels
  <2>3. NamesApart' /\ WritersApart' /\ OldGone'
    BY <2>1, <2>2 DEF FreshInv, NamesApart, WritersApart, OldGone, Emptied
  <2>4. OwnFile'
    BY <2>1, <2>2 DEF FreshInv, OwnFile, Fills
  <2>5. QED
    BY <2>3, <2>4 DEF FreshInv
<1>18. ASSUME NEW p \in Procs, Read(p) PROVE FreshInv'
  <2>1. CASE ReturnError(p)
    BY <1>18, <2>1, FreshFrame DEF TypeOK, Read, Goto, disk, request, StoreLabels, Emptied, ReturnError
  <2>2. CASE Return(p)
    BY <1>18, <2>2, FreshFrame DEF TypeOK, Read, Goto, disk, request, StoreLabels, Emptied, Return
  <2>3. QED
    BY <1>18, <2>1, <2>2 DEF Read
<1>19. ASSUME NEW p \in Procs, NEW t \in Tiles, Delete(p, t) PROVE FreshInv'
  BY <1>19, FreshUnlink DEF Delete, request, Names
<1>20. ASSUME NEW p \in Procs, Crash(p) PROVE FreshInv'
  BY <1>20, FreshFrame DEF TypeOK, Crash, Goto, disk, request, StoreLabels, Emptied
<1>21. CASE UNCHANGED vars
  BY <1>21 DEF vars, FreshInv, NamesApart, WritersApart, OldGone, OwnFile, Storing, Fills
<1>22. ASSUME NEW p \in Procs, Store(p) PROVE FreshInv'
  BY <1>22, <1>2, <1>3, <1>4, <1>5, <1>6, <1>7, <1>8, <1>9, <1>10, <1>11, <1>12, <1>13, <1>14,
     <1>15, <1>16 DEF Store
<1>23. ASSUME NEW p \in Procs, NEW image \in Images, Set(p, image[1], image[2]) PROVE FreshInv'
  BY <1>23, <1>1, CacheAssumption
<1>24. QED
  BY <1>17, <1>18, <1>19, <1>20, <1>21, <1>22, <1>23 DEF Next

(* A step that ends a tile_set in which p has filled its file is the one   *)
(* of p that closes it.                                                    *)
LEMMA OnlyCloseEnds ==
  ASSUME TypeOK, NEW p \in Procs, pc[p] = "close", pc'[p] = "idle", Next
  PROVE  CloseTile(p)
<1>1. PICK q \in Procs :
        \/ Store(q) \/ Read(q) \/ Crash(q)
        \/ \E t \in Tiles : Get(q, t) \/ Delete(q, t)
        \/ \E image \in Images : Set(q, image[1], image[2])
  BY DEF Next
<1>2. q = p
  <2>1. q # p => pc'[p] = pc[p]
    BY <1>1 DEF TypeOK, Store, Goto, MakeDirectory, RemoveOld, ChooseFile, FindBlank, MakeBlankDirectory,
       LockBlank, BlankUnlocked, CreateBlank, WriteBlank, CloseBlank, UnlockBlank, LinkTile,
       CreateTile, WriteTile, CloseTile, Read, Crash, Get, Delete, Set, Return, ReturnError, Retry
  <2>2. QED
    BY <2>1
<1>3. ~Read(p) /\ \A t \in Tiles : ~Get(p, t) /\ ~Delete(p, t)
  BY DEF Read, Get, Delete
<1>4. ~Crash(p) /\ \A image \in Images : ~Set(p, image[1], image[2])
  BY DEF TypeOK, Crash, Set, Goto
<1>5. QED
  BY <1>1, <1>2, <1>3, <1>4 DEF Store, MakeDirectory, RemoveOld, ChooseFile, FindBlank,
     MakeBlankDirectory, LockBlank, BlankUnlocked, CreateBlank, WriteBlank, CloseBlank,
     UnlockBlank, LinkTile, CreateTile, WriteTile

(* When the writers of a tile exclude each other, whatever calls fail and  *)
(* however many processes die, a tile_set that copies its image into a     *)
(* file of the tile's own, and ends without an error, leaves the whole     *)
(* image under the name of the tile. Links to the blank tile are not       *)
(* spoken of.                                                              *)
THEOREM CopiesAreWhole ==
  ASSUME Exclusive PROVE Spec => CopiedTilesAreWhole
<1> DEFINE Stored(p) == pc[p] = "close" /\ pc'[p] = "idle" /\ ~err'[p] /\ Resolve(tile[p]) # None
                          => file'[Resolve(tile[p])] = Whole(kind[p])
<1>1. TypeOK /\ FreshInv /\ [Next]_vars => [\A p \in Procs : Stored(p)]_vars
  <2> SUFFICES ASSUME TypeOK, FreshInv, Next, NEW p \in Procs, pc[p] = "close", pc'[p] = "idle",
                      ~err'[p], Resolve(tile[p]) # None
               PROVE  file'[Resolve(tile[p])] = Whole(kind[p])
    OBVIOUS
  <2>1. CloseTile(p)
    BY OnlyCloseEnds
  <2>2. WriteRest(p) /\ ~err[p]
    BY <2>1 DEF TypeOK, CloseTile, Return, ReturnError
  <2>3. fd[p] \in Inodes
    BY DEF TypeOK
  <2>4. name[tile[p]] \in {None, fd[p]} /\ file[fd[p]].kind = kind[p]
    BY <2>2 DEF FreshInv, OwnFile, Fills
  <2>5. Resolve(tile[p]) = fd[p]
    BY <2>3, <2>4, CacheAssumption DEF Resolve
  <2>6. QED
    BY <2>2, <2>3, <2>4, <2>5, RestIsWhole
<1>2. TypeOK /\ FreshInv /\ [Next]_vars => FreshInv'
  BY FreshNext
<1>3. QED
  BY <1>1, <1>2, FreshInit, TypeCorrect, PTL DEF Spec, CopiedTilesAreWhole

-----------------------------------------------------------------------------
(* When no process dies and the only calls that fail are those that leave  *)
(* no file behind, what nobody is writing is whole. The lock keeps two     *)
(* processes from writing the blank tile, and nothing unlinks it, so who   *)
(* has it open has the file that its name leads to.                        *)
Careful ==
  Exclusive /\ MaxCrashes = 0 /\ MayFail \subseteq {"mkdir", "lock", "open", "symlink"}

(* From the choice of the blank file to the link to it.                    *)
ForBlank == {"findblank", "mkblanks", "lockblank", "waitblank", "createblank", "writeblank",
             "closeblank", "unlockblank", "link"}
HoldsLock == {"createblank", "writeblank", "closeblank", "unlockblank"}
WritesBlank == {"writeblank", "closeblank"}

NoErrors == \A p \in Procs : Storing(p) => ~err[p]
LockHeld == \A p \in Procs : pc[p] \in HoldsLock => lock = p
BlankImages == \A p \in Procs : pc[p] \in ForBlank => kind[p] = "blank"
BlankOpen == \A p \in Procs : pc[p] \in WritesBlank => fd[p] = name[Blank]
ReadersWait ==
  \A p \in Procs : pc[p] = "read" => BeingWritten(fd[p]) \/ file[fd[p]].size = 2

SettledInv == /\ NoErrors /\ LockHeld /\ BlankImages /\ BlankOpen /\ ReadersWait
              /\ SettledFilesAreWhole

LEMMA SettledInit == Init => SettledInv
BY CacheAssumption DEF Init, SettledInv, NoErrors, LockHeld, BlankImages, BlankOpen, ReadersWait,
   SettledFilesAreWhole, Storing, StoreLabels, HoldsLock, ForBlank, WritesBlank, Names

(* A step of p that leaves the files alone and neither opens nor closes    *)
(* one for writing.                                                        *)
Frame(p) ==
  /\ UNCHANGED <<name, file, kind>>
  /\ fd[p] = None \/ pc[p] = "read"
  /\ fd'[p] = None /\ pc'[p] \notin {"writeblank", "closeblank", "read"}
  /\ pc'[p] \in StoreLabels => ~err'[p]
  /\ pc'[p] \in HoldsLock => lock' = p
  /\ lock' = lock \/ lock \in {None, p}
  /\ pc'[p] \in ForBlank => kind[p] = "blank"
  /\ \A q \in Procs \ {p} : pc'[q] = pc[q] /\ fd'[q] = fd[q] /\ err'[q] = err[q]

LEMMA SettledFrame ==
  ASSUME TypeOK, SettledInv, NEW p \in Procs, Frame(p)
  PROVE  SettledInv'
<1> USE DEF Frame
<1>1. NoErrors'
  BY DEF SettledInv, NoErrors, Storing
<1>2. LockHeld'
  BY CacheAssumption DEF SettledInv, LockHeld
<1>3. BlankImages' /\ BlankOpen'
  BY DEF SettledInv, BlankImages, BlankOpen, WritesBlank
<1>4. \A i \in Inodes : BeingWritten(i)' <=> BeingWritten(i)
  BY CacheAssumption DEF BeingWritten, Storing, StoreLabels
<1>5. SettledFilesAreWhole'
  BY <1>4 DEF SettledInv, SettledFilesAreWhole
<1>6. ReadersWait'
  <2>1. \A q \in Procs : pc'[q] = "read" => q # p /\ pc[q] = "read" /\ fd[q] \in Inodes
    BY DEF TypeOK
  <2>2. QED
    BY <2>1, <1>4 DEF SettledInv, ReadersWait
<1>7. QED
  BY <1>1, <1>2, <1>3, <1>5, <1>6 DEF SettledInv

(* A name that goes, other than that of the blank tile.                    *)
LEMMA SettledUnlink ==
  ASSUME TypeOK, FreshInv, SettledInv, NEW p \in Procs, NEW n \in Tiles, Unlink(n),
         \/ pc[p] = "remove" /\ pc' = [pc EXCEPT ![p] = "choose"]
         \/ UNCHANGED pc,
         UNCHANGED <<lock, tile, kind, fd, err>>
  PROVE  SettledInv'
<1>1. n \in Names /\ Blank \in Names /\ n # Blank
  BY CacheAssumption DEF Names
<1>2. /\ name'[n] = None /\ \A m \in Names \ {n} : name'[m] = name[m]
      /\ \A i \in Inodes : i # name[n] => file'[i] = file[i]
      /\ \A q \in Procs : fd[q] \in Inodes => file'[fd[q]] = file[fd[q]]
  BY <1>1, UnlinkKeeps
<1>3. \A q \in Procs : /\ Storing(q)' <=> Storing(q)
                       /\ pc'[q] \in HoldsLock \union ForBlank \union WritesBlank \union {"read"} => pc'[q] = pc[q]
  BY DEF TypeOK, Storing, StoreLabels, HoldsLock, ForBlank, WritesBlank
<1>4. NoErrors' /\ LockHeld' /\ BlankImages' /\ BlankOpen'
  BY <1>1, <1>2, <1>3 DEF SettledInv, NoErrors, LockHeld, BlankImages, BlankOpen
<1>5. \A i \in Inodes : BeingWritten(i)' <=> BeingWritten(i)
  BY <1>3 DEF BeingWritten
<1>6. ReadersWait'
  <2>1. \A q \in Procs : pc'[q] = "read" => pc[q] = "read" /\ fd[q] \in Inodes /\ file'[fd[q]] = file[fd[q]]
    BY <1>2, <1>3 DEF TypeOK
  <2>2. QED
    BY <2>1, <1>5 DEF SettledInv, ReadersWait
<1>7. SettledFilesAreWhole'
  <2>1. \A m \in Names : name'[m] \in Inodes => m # n /\ name'[m] = name[m] /\ name[m] # name[n]
                                               /\ file'[name[m]] = file[name[m]]
    BY <1>1, <1>2, CacheAssumption DEF FreshInv, NamesApart
  <2>2. QED
    BY <2>1, <1>5 DEF SettledInv, SettledFilesAreWhole
<1>8. QED
  BY <1>4, <1>6, <1>7 DEF SettledInv

(* A step of p that opens a file for writing.                              *)
LEMMA SettledOpen ==
  ASSUME TypeOK, FreshInv, SettledInv, NEW p \in Procs, NEW n \in Names, OpenToWrite(p, n), fd[p] = None,
         \/ pc[p] = "createblank" /\ n = Blank /\ pc' = [pc EXCEPT ![p] = "writeblank"]
         \/ pc[p] = "create" /\ n = tile[p] /\ pc' = [pc EXCEPT ![p] = "write"],
         UNCHANGED <<lock, tile, kind, err>>
  PROVE  SettledInv'
<1> DEFINE m == Target(n)
<1>1. m = n /\ tile[p] # Blank
  <2>1. ~err[p]
    BY DEF SettledInv, NoErrors, Storing, StoreLabels
  <2>2. pc[p] = "create" => name[tile[p]] = None
    BY <2>1 DEF FreshInv, OldGone, Emptied
  <2>3. QED
    BY <2>2, CacheAssumption DEF TypeOK, Target
<1>2. /\ \A q \in Procs : Storing(q)' <=> Storing(q)
      /\ \A q \in Procs \ {p} : pc'[q] = pc[q]
  BY DEF TypeOK, Storing, StoreLabels
<1>3. Storing(p) /\ (n = Blank => kind[p] = "blank")
  BY <1>1 DEF SettledInv, BlankImages, ForBlank, Storing, StoreLabels
<1>4. NoErrors' /\ LockHeld' /\ BlankImages'
  BY <1>2 DEF TypeOK, SettledInv, NoErrors, LockHeld, BlankImages, HoldsLock, ForBlank
<1>5. \A q \in Procs \ {p} : pc[q] \in WritesBlank => n # Blank
  BY <1>1 DEF SettledInv, LockHeld, HoldsLock, WritesBlank
<1>6. CASE /\ name[m] \in Inodes
           /\ fd' = [fd EXCEPT ![p] = name[m]]
           /\ UNCHANGED <<name, file>>
  <2>1. \A i \in Inodes : BeingWritten(i) => BeingWritten(i)'
    BY <1>2, <1>6, CacheAssumption DEF TypeOK, BeingWritten
  <2>2. SettledFilesAreWhole'
    BY <1>6, <2>1 DEF SettledInv, SettledFilesAreWhole
  <2>3. BlankOpen'
    BY <1>1, <1>2, <1>6 DEF TypeOK, SettledInv, BlankOpen, WritesBlank
  <2>4. \A q \in Procs : pc'[q] = "read" => q # p /\ pc[q] = "read" /\ fd'[q] = fd[q] /\ fd[q] \in Inodes
    BY <1>2, <1>6 DEF TypeOK
  <2>5. ReadersWait'
    BY <1>6, <2>1, <2>4 DEF SettledInv, ReadersWait
  <2>6. QED
    BY <1>4, <2>2, <2>3, <2>5 DEF SettledInv
<1>7. ASSUME NEW i \in Inodes,
             \A l \in Names : name[l] # i, \A q \in Procs : fd[q] # i,
             name[m] = None,
             fd' = [fd EXCEPT ![p] = i],
             name' = [name EXCEPT ![m] = i],
             file' = [file EXCEPT ![i] = [size |-> 0, kind |-> kind[p]]]
      PROVE  BlankOpen' /\ ReadersWait' /\ SettledFilesAreWhole'
  <2>1. fd'[p] = i /\ BeingWritten(i)' /\ \A q \in Procs \ {p} : fd'[q] = fd[q]
    BY <1>2, <1>3, <1>7 DEF TypeOK, BeingWritten
  <2>2. \A j \in Inodes : BeingWritten(j) => BeingWritten(j)'
    BY <1>2, <1>3, <1>7, <2>1, CacheAssumption DEF TypeOK, BeingWritten
  <2>3. /\ file'[i].kind = kind[p]
        /\ \A j \in Inodes \ {i} : file'[j] = file[j]
    BY <1>7 DEF TypeOK
  <2>4. name'[n] = i /\ \A l \in Names \ {n} : name'[l] = name[l]
    BY <1>1, <1>7 DEF TypeOK
  <2>5. BlankOpen'
    <3>1. ASSUME NEW q \in Procs, pc'[q] \in WritesBlank PROVE fd'[q] = name'[Blank]
      <4>1. CASE q = p
        BY <3>1, <4>1, <2>1, <2>4 DEF TypeOK, WritesBlank
      <4>2. CASE q # p
        BY <3>1, <4>2, <1>2, <1>5, <2>1, <2>4 DEF SettledInv, BlankOpen, Names
      <4>3. QED
        BY <4>1, <4>2
    <3>2. QED
      BY <3>1 DEF BlankOpen
  <2>6. \A q \in Procs : pc'[q] = "read" => q # p /\ pc[q] = "read" /\ fd'[q] = fd[q] /\ fd[q] \in Inodes \ {i}
    BY <1>2, <1>7, <2>1 DEF TypeOK
  <2>7. ReadersWait'
    BY <2>2, <2>3, <2>6 DEF SettledInv, ReadersWait
  <2>8. SettledFilesAreWhole'
    <3>1. ASSUME NEW l \in Names, NEW j \in Inodes, name'[l] = j
          PROVE  /\ ~BeingWritten(j)' => file'[j] \in {Whole("image"), Whole("blank")}
                 /\ l = Blank => file'[j].kind = "blank"
      <4>1. CASE l = n
        BY <3>1, <4>1, <1>3, <2>1, <2>3, <2>4
      <4>2. CASE l # n
        <5>1. name[l] = j /\ j # i
          BY <4>2, <3>1, <1>7, <2>4
        <5>2. /\ ~BeingWritten(j) => file[j] \in {Whole("image"), Whole("blank")}
              /\ l = Blank => file[j].kind = "blank"
          BY <5>1 DEF SettledInv, SettledFilesAreWhole
        <5>3. QED
          BY <5>1, <5>2, <2>2, <2>3
      <4>3. QED
        BY <4>1, <4>2
    <3>2. QED
      BY <3>1 DEF SettledFilesAreWhole, BeingWritten
  <2>9. QED
    BY <2>5, <2>7, <2>8
<1>8. QED
  BY <1>4, <1>6, <1>7, OpenCases DEF SettledInv

(* A step of p that writes, and perhaps closes, the file it has open.      *)
LEMMA SettledWrite ==
  ASSUME TypeOK, FreshInv, SettledInv, NEW p \in Procs,
         \/ pc[p] = "writeblank" /\ WritePart(p) /\ pc' = [pc EXCEPT ![p] = "closeblank"] /\ fd' = fd
         \/ pc[p] = "closeblank" /\ WriteRest(p) /\ pc' = [pc EXCEPT ![p] = "unlockblank"]
              /\ fd' = [fd EXCEPT ![p] = None]
         \/ pc[p] = "write" /\ WritePart(p) /\ pc' = [pc EXCEPT ![p] = "close"] /\ fd' = fd
         \/ pc[p] = "close" /\ WriteRest(p) /\ pc' = [pc EXCEPT ![p] = "idle"]
              /\ fd' = [fd EXCEPT ![p] = None],
         UNCHANGED <<name, lock, tile, kind, err>>
  PROVE  SettledInv'
<1> DEFINE Written(i) == \E r \in Procs : Storing(r)' /\ fd'[r] = i
<1>1. fd[p] \in Inodes /\ Storing(p) /\ file[fd[p]] \in Files
  BY DEF TypeOK, Storing, StoreLabels
<1>2. pc[p] \in WritesBlank => fd[p] = name[Blank] /\ kind[p] = "blank" /\ lock = p
  BY DEF SettledInv, BlankOpen, BlankImages, LockHeld, WritesBlank, ForBlank, HoldsLock
<1>3. ~err[p]
  BY <1>1 DEF SettledInv, NoErrors
<1>4. file[fd[p]].kind = kind[p]
  <2>1. CASE pc[p] \in WritesBlank
    BY <2>1, <1>1, <1>2 DEF SettledInv, SettledFilesAreWhole, Names
  <2>2. CASE pc[p] \notin WritesBlank
    BY <2>2, <1>3 DEF FreshInv, OwnFile, Fills, WritesBlank
  <2>3. QED
    BY <2>1, <2>2
<1>5. /\ \A i \in Inodes \ {fd[p]} : file'[i] = file[i]
      /\ file'[fd[p]].kind = kind[p]
      /\ WriteRest(p) => file'[fd[p]] = Whole(kind[p])
  BY <1>1, <1>4, WriteKeeps, RestIsWhole
<1>6. /\ \A q \in Procs : Storing(q)' => Storing(q)
      /\ \A q \in Procs \ {p} : pc'[q] = pc[q] /\ fd'[q] = fd[q] /\ (Storing(q) => Storing(q)')
      /\ pc'[p] \notin {"read", "writeblank"}
  BY DEF TypeOK, Storing, StoreLabels
<1>7. NoErrors' /\ LockHeld' /\ BlankImages' /\ BlankOpen'
  BY <1>6 DEF TypeOK, SettledInv, NoErrors, LockHeld, BlankImages, BlankOpen, HoldsLock, ForBlank, WritesBlank
<1>8. \A i \in Inodes \ {fd[p]} : Written(i) <=> BeingWritten(i)
  BY <1>1, <1>6, CacheAssumption DEF TypeOK, BeingWritten
<1>9. Written(fd[p]) \/ file'[fd[p]] = Whole(kind[p])
  <2>1. CASE WriteRest(p)
    BY <2>1, <1>5
  <2>2. CASE ~WriteRest(p)
    BY <2>2 DEF TypeOK, Storing, StoreLabels
  <2>3. QED
    BY <2>1, <2>2
<1>10. kind[p] \in {"image", "blank"}
  BY DEF TypeOK
<1> HIDE DEF Written
<1>11. SettledFilesAreWhole'
  <2>1. ASSUME NEW l \in Names, NEW j \in Inodes, name'[l] = j
        PROVE  /\ ~Written(j) => file'[j] \in {Whole("image"), Whole("blank")}
               /\ l = Blank => file'[j].kind = "blank"
    <3>1. name[l] = j
      BY <2>1
    <3>2. /\ ~BeingWritten(j) => file[j] \in {Whole("image"), Whole("blank")}
          /\ l = Blank => file[j].kind = "blank"
      BY <3>1 DEF SettledInv, SettledFilesAreWhole
    <3>3. CASE j # fd[p]
      BY <3>2, <3>3, <1>5, <1>8
    <3>4. CASE j = fd[p]
      BY <3>2, <3>4, <1>4, <1>5, <1>9, <1>10
    <3>5. QED
      BY <3>3, <3>4
  <2>2. QED
    BY <2>1 DEF SettledFilesAreWhole, BeingWritten, Written
<1>12. ReadersWait'
  <2>1. ASSUME NEW q \in Procs, pc'[q] = "read"
        PROVE  Written(fd'[q]) \/ file'[fd'[q]].size = 2
    <3>1. q # p /\ pc[q] = "read" /\ fd'[q] = fd[q] /\ fd[q] \in Inodes
      BY <2>1, <1>6 DEF TypeOK
    <3>2. BeingWritten(fd[q]) \/ file[fd[q]].size = 2
      BY <3>1 DEF SettledInv, ReadersWait
    <3>3. CASE fd[q] = fd[p]
      BY <3>1, <3>3, <1>9 DEF Whole
    <3>4. CASE fd[q] # fd[p]
      BY <3>1, <3>2, <3>4, <1>5, <1>8
    <3>5. QED
      BY <3>3, <3>4
  <2>2. QED
    BY <2>1 DEF ReadersWait, BeingWritten, Written
<1>13. QED
  BY <1>7, <1>11, <1>12 DEF SettledInv

(* A link that is created for a tile.                                      *)
LEMMA SettledLink ==
  ASSUME TypeOK, SettledInv, NEW p \in Procs, pc[p] = "link", name[tile[p]] = None,
         name' = [name EXCEPT ![tile[p]] = Link], Return(p), UNCHANGED <<file, lock, tile, kind>>
  PROVE  SettledInv'
<1>1. /\ pc' = [pc EXCEPT ![p] = "idle"] /\ fd' = fd /\ UNCHANGED err /\ fd[p] = None
  BY DEF Return, Goto, TypeOK
<1>2. /\ tile[p] \in Names /\ tile[p] # Blank /\ Blank \in Names
      /\ \A n \in Names : name'[n] \in Inodes => name[n] = name'[n]
      /\ name'[Blank] = name[Blank]
  BY CacheAssumption DEF TypeOK, Names
<1>3. /\ \A q \in Procs : Storing(q)' => Storing(q)
      /\ \A q \in Procs \ {p} : pc'[q] = pc[q]
      /\ pc'[p] = "idle"
  BY <1>1 DEF TypeOK, Storing, StoreLabels
<1>4. NoErrors' /\ LockHeld' /\ BlankImages' /\ BlankOpen'
  BY <1>1, <1>2, <1>3 DEF SettledInv, NoErrors, LockHeld, BlankImages, BlankOpen, HoldsLock, ForBlank, WritesBlank
<1>5. \A i \in Inodes : BeingWritten(i)' <=> BeingWritten(i)
  BY <1>1, <1>3, CacheAssumption DEF BeingWritten, Storing
<1>6. \A q \in Procs : pc'[q] = "read" => pc[q] = "read" /\ fd[q] \in Inodes
  BY <1>3 DEF TypeOK
<1>7. ReadersWait'
  BY <1>1, <1>5, <1>6 DEF SettledInv, ReadersWait
<1>8. SettledFilesAreWhole'
  BY <1>2, <1>5 DEF SettledInv, SettledFilesAreWhole
<1>9. QED
  BY <1>4, <1>7, <1>8 DEF SettledInv

(* A reader that opens what the name of its tile leads to.                 *)
LEMMA SettledGet ==
  ASSUME TypeOK, SettledInv, NEW p \in Procs, NEW t \in Tiles, Get(p, t)
  PROVE  SettledInv'
<1>1. /\ pc[p] = "idle" /\ fd[p] = None /\ UNCHANGED <<name, file, lock, kind>>
      /\ \A q \in Procs \ {p} : pc'[q] = pc[q] /\ err'[q] = err[q] /\ fd'[q] = fd[q]
      /\ \/ pc'[p] = "idle" /\ fd'[p] = None
         \/ pc'[p] = "read" /\ fd'[p] = Resolve(t) /\ Resolve(t) # None
  BY DEF TypeOK, Get, Goto, disk
<1>2. \A q \in Procs : (Storing(q)' <=> Storing(q)) /\ (Storing(q) => q # p)
  BY <1>1 DEF Storing, StoreLabels
<1>3. NoErrors' /\ LockHeld' /\ BlankImages' /\ BlankOpen'
  BY <1>1, <1>2 DEF SettledInv, NoErrors, LockHeld, BlankImages, BlankOpen, HoldsLock, ForBlank, WritesBlank
<1>4. \A i \in Inodes : BeingWritten(i)' <=> BeingWritten(i)
  BY <1>1, <1>2 DEF BeingWritten
<1>5. SettledFilesAreWhole'
  BY <1>1, <1>4 DEF SettledInv, SettledFilesAreWhole
<1>6. pc'[p] = "read" => /\ fd'[p] \in Inodes
                         /\ BeingWritten(fd'[p]) \/ file[fd'[p]].size = 2
  <2>1. \A n \in Names : name[n] \in Inodes => BeingWritten(name[n]) \/ file[name[n]].size = 2
    BY DEF SettledInv, SettledFilesAreWhole, Whole
  <2>2. Resolve(t) # None => \E n \in Names : Resolve(t) = name[n] /\ name[n] \in Inodes
    BY DEF TypeOK, Resolve, Names
  <2>3. QED
    BY <1>1, <2>1, <2>2
<1>7. \A q \in Procs : pc'[q] = "read" => /\ fd'[q] \in Inodes
                                          /\ BeingWritten(fd'[q]) \/ file[fd'[q]].size = 2
  BY <1>1, <1>6 DEF TypeOK, SettledInv, ReadersWait
<1>8. ReadersWait'
  BY <1>1, <1>2, <1>7 DEF ReadersWait, BeingWritten
<1>9. QED
  BY <1>3, <1>5, <1>8 DEF SettledInv

LEMMA SettledSet ==
  ASSUME TypeOK, SettledInv, NEW p \in Procs, NEW t \in Tiles, NEW k \in {"image", "blank"}, Set(p, t, k)
  PROVE  SettledInv'
<1>1. /\ pc[p] = "idle" /\ fd[p] = None /\ pc'[p] = "mkdir" /\ ~err'[p] /\ UNCHANGED <<name, file, lock, fd>>
      /\ \A q \in Procs \ {p} : pc'[q] = pc[q] /\ err'[q] = err[q] /\ kind'[q] = kind[q]
  BY DEF TypeOK, Set, Goto, disk
<1>2. \A q \in Procs : Storing(q)' => q = p \/ Storing(q)
  BY <1>1 DEF Storing
<1>3. NoErrors' /\ LockHeld' /\ BlankImages' /\ BlankOpen'
  BY <1>1, <1>2 DEF SettledInv, NoErrors, LockHeld, BlankImages, BlankOpen, HoldsLock, ForBlank, WritesBlank
<1>4. \A i \in Inodes : BeingWritten(i)' <=> BeingWritten(i)
  BY <1>1, <1>2, CacheAssumption DEF BeingWritten, Storing, StoreLabels
<1>5. SettledFilesAreWhole'
  BY <1>1, <1>4 DEF SettledInv, SettledFilesAreWhole
<1>6. \A q \in Procs : pc'[q] = "read" => pc[q] = "read" /\ fd[q] \in Inodes
  BY <1>1 DEF TypeOK
<1>7. ReadersWait'
  BY <1>1, <1>4, <1>6 DEF SettledInv, ReadersWait
<1>8. QED
  BY <1>3, <1>5, <1>7 DEF SettledInv

LEMMA SettledNext == Careful /\ TypeOK /\ FreshInv /\ SettledInv /\ [Next]_vars => SettledInv'
<1> SUFFICES ASSUME Careful, TypeOK, FreshInv, SettledInv, [Next]_vars PROVE SettledInv'
  OBVIOUS
<1>0. \A p \in Procs : /\ Storing(p) => ~err[p]
                       /\ pc[p] \in HoldsLock => lock = p
                       /\ pc[p] \in ForBlank => kind[p] = "blank"
  BY DEF SettledInv, NoErrors, LockHeld, BlankImages
<1> USE DEF Careful
<1>2. ASSUME NEW p \in Procs, MakeDirectory(p) PROVE SettledInv'
  <2>1. Frame(p)
    BY <1>2, <1>0 DEF Frame, TypeOK, MakeDirectory, Goto, disk, request, ReturnError,
     Storing, StoreLabels, HoldsLock, ForBlank
  <2>2. QED
    BY <2>1, SettledFrame
<1>3. ASSUME NEW p \in Procs, RemoveOld(p) PROVE SettledInv'
  BY <1>3, SettledUnlink DEF TypeOK, RemoveOld, Goto, request
<1>4. ASSUME NEW p \in Procs, ChooseFile(p) PROVE SettledInv'
  <2>1. Frame(p)
    BY <1>4, <1>0 DEF Frame, TypeOK, ChooseFile, Goto, disk, request, Return,
     Storing, StoreLabels, HoldsLock, ForBlank
  <2>2. QED
    BY <2>1, SettledFrame
<1>5. ASSUME NEW p \in Procs, FindBlank(p) PROVE SettledInv'
  <2>1. Frame(p)
    BY <1>5, <1>0 DEF Frame, TypeOK, FindBlank, Goto, disk, request, Return,
     Storing, StoreLabels, HoldsLock, ForBlank
  <2>2. QED
    BY <2>1, SettledFrame
<1>6. ASSUME NEW p \in Procs, MakeBlankDirectory(p) PROVE SettledInv'
  <2>1. Frame(p)
    BY <1>6, <1>0 DEF Frame, TypeOK, MakeBlankDirectory, Goto, disk, request, ReturnError,
     Storing, StoreLabels, HoldsLock, ForBlank
  <2>2. QED
    BY <2>1, SettledFrame
<1>7. ASSUME NEW p \in Procs, LockBlank(p) PROVE SettledInv'
  <2>1. Frame(p)
    BY <1>7, <1>0 DEF Frame, TypeOK, LockBlank, Goto, request,
     Storing, StoreLabels, HoldsLock, ForBlank
  <2>2. QED
    BY <2>1, SettledFrame
<1>8. ASSUME NEW p \in Procs, BlankUnlocked(p) PROVE SettledInv'
  <2>1. Frame(p)
    BY <1>8, <1>0 DEF Frame, TypeOK, BlankUnlocked, Goto, disk, request,
     Storing, StoreLabels, HoldsLock, ForBlank
  <2>2. QED
    BY <2>1, SettledFrame
<1>9. ASSUME NEW p \in Procs, CreateBlank(p) PROVE SettledInv'
  <2>1. CASE OpenToWrite(p, Blank) /\ Goto(p, "writeblank") /\ UNCHANGED <<lock, err>>
    <3>1. /\ fd[p] = None /\ Blank \in Names /\ pc[p] = "createblank"
          /\ pc' = [pc EXCEPT ![p] = "writeblank"] /\ UNCHANGED <<lock, tile, kind, err>>
      BY <1>9, <2>1 DEF TypeOK, CreateBlank, Goto, request, Names
    <3>2. QED
      BY <2>1, <3>1, SettledOpen
  <2>2. CASE ReturnError(p) /\ lock' = None /\ UNCHANGED <<name, file>>
    <3>1. Frame(p)
      BY <1>9, <2>2, <1>0 DEF Frame, TypeOK, CreateBlank, ReturnError, Goto, request,
       Storing, StoreLabels, HoldsLock, ForBlank
    <3>2. QED
      BY <3>1, SettledFrame
  <2>3. QED
    BY <1>9, <2>1, <2>2 DEF CreateBlank
<1>10. ASSUME NEW p \in Procs, WriteBlank(p) PROVE SettledInv'
  BY <1>10, SettledWrite DEF WriteBlank, Goto, request
<1>11. ASSUME NEW p \in Procs, CloseBlank(p) PROVE SettledInv'
  BY <1>11, SettledWrite DEF CloseBlank, Goto, request
<1>12. ASSUME NEW p \in Procs, UnlockBlank(p) PROVE SettledInv'
  <2>1. Frame(p)
    BY <1>12, <1>0 DEF Frame, TypeOK, UnlockBlank, Goto, request,
     Storing, StoreLabels, HoldsLock, ForBlank
  <2>2. QED
    BY <2>1, SettledFrame
<1>13. ASSUME NEW p \in Procs, LinkTile(p) PROVE SettledInv'
  <2>1. pc[p] = "link" /\ ~err[p] /\ name[tile[p]] = None /\ fd[p] = None
    BY <1>13, <1>0 DEF TypeOK, LinkTile, Storing, StoreLabels, FreshInv, OldGone, Emptied
  <2>2. CASE name' = [name EXCEPT ![tile[p]] = Link] /\ Return(p)
    BY <1>13, <2>1, <2>2, SettledLink DEF LinkTile, request
  <2>3. CASE Retry(p) /\ UNCHANGED name
    <3>1. Frame(p)
      BY <1>13, <2>1, <2>3, <1>0 DEF Frame, TypeOK, LinkTile, Retry, ReturnError, Goto, request,
       Storing, StoreLabels, HoldsLock, ForBlank
    <3>2. QED
      BY <3>1, SettledFrame
  <2>4. QED
    BY <1>13, <2>1, <2>2, <2>3 DEF LinkTile
<1>14. ASSUME NEW p \in Procs, CreateTile(p) PROVE SettledInv'
  <2>1. CASE OpenToWrite(p, tile[p]) /\ Goto(p, "write") /\ UNCHANGED err
    <3>1. /\ fd[p] = None /\ tile[p] \in Names /\ pc[p] = "create"
          /\ pc' = [pc EXCEPT ![p] = "write"] /\ UNCHANGED <<lock, tile, kind, err>>
      BY <1>14, <2>1 DEF TypeOK, CreateTile, Goto, request, Names
    <3>2. QED
      BY <2>1, <3>1, SettledOpen
  <2>2. CASE Retry(p) /\ UNCHANGED <<name, file>>
    <3>1. Frame(p)
      BY <1>14, <2>2, <1>0 DEF Frame, TypeOK, CreateTile, Retry, ReturnError, Goto, request,
       Storing, StoreLabels, HoldsLock, ForBlank
    <3>2. QED
      BY <3>1, SettledFrame
  <2>3. QED
    BY <1>14, <2>1, <2>2 DEF CreateTile
<1>15. ASSUME NEW p \in Procs, WriteTile(p) PROVE SettledInv'
  BY <1>15, SettledWrite DEF WriteTile, Goto, request
<1>16. ASSUME NEW p \in Procs, CloseTile(p) PROVE SettledInv'
  BY <1>16, SettledWrite DEF CloseTile, Goto, request, Return
<1>17. ASSUME NEW p \in Procs, NEW t \in Tiles, Get(p, t) PROVE SettledInv'
  BY <1>17, SettledGet
<1>18. ASSUME NEW p \in Procs, Read(p) PROVE SettledInv'
  <2>1. CASE ReturnError(p)
    <3>1. Frame(p)
      BY <1>18, <2>1, <1>0 DEF Frame, TypeOK, Read, Goto, disk, request, ReturnError,
       Storing, StoreLabels, HoldsLock, ForBlank
    <3>2. QED
      BY <3>1, SettledFrame
  <2>2. CASE Return(p)
    <3>1. Frame(p)
      BY <1>18, <2>2, <1>0 DEF Frame, TypeOK, Read, Goto, disk, request, Return,
       Storing, StoreLabels, HoldsLock, ForBlank
    <3>2. QED
      BY <3>1, SettledFrame
  <2>3. QED
    BY <1>18, <2>1, <2>2 DEF Read
<1>19. ASSUME NEW p \in Procs, NEW t \in Tiles, Delete(p, t) PROVE SettledInv'
  BY <1>19, SettledUnlink DEF Delete, request
<1>20. ASSUME NEW p \in Procs, Crash(p) PROVE SettledInv'
  BY <1>20 DEF Crash, TypeOK
<1>21. CASE UNCHANGED vars
  BY <1>21 DEF vars, SettledInv, NoErrors, LockHeld, BlankImages, BlankOpen, ReadersWait,
     SettledFilesAreWhole, BeingWritten, Storing
<1>22. ASSUME NEW p \in Procs, Store(p) PROVE SettledInv'
  BY <1>22, <1>2, <1>3, <1>4, <1>5, <1>6, <1>7, <1>8, <1>9, <1>10, <1>11, <1>12, <1>13, <1>14,
     <1>15, <1>16 DEF Store
<1>23. ASSUME NEW p \in Procs, NEW image \in Images, Set(p, image[1], image[2]) PROVE SettledInv'
  BY <1>23, SettledSet, CacheAssumption
<1>24. QED
  BY <1>17, <1>18, <1>19, <1>20, <1>21, <1>22, <1>23 DEF Next

LEMMA Settled ==
  ASSUME Careful PROVE Spec => []SettledInv
<1>1. TypeOK /\ FreshInv /\ [Next]_vars => FreshInv'
  BY FreshNext DEF Careful
<1>2. TypeOK /\ FreshInv /\ SettledInv /\ [Next]_vars => SettledInv'
  BY SettledNext
<1>3. QED
  BY <1>1, <1>2, FreshInit, SettledInit, TypeCorrect, PTL DEF Spec

(* Whatever is stored, read, linked and deleted at once, a file that       *)
(* nobody writes is whole and the blank tile is the blank image.           *)
THEOREM FilesSettle ==
  ASSUME Careful PROVE Spec => []SettledFilesAreWhole
<1>1. SettledInv => SettledFilesAreWhole
  BY DEF SettledInv
<1>2. QED
  BY <1>1, Settled, PTL

(* Only the step of p that reads its file changes its reply to one of an   *)
(* empty or an incomplete file.                                            *)
LEMMA OnlyReadFails ==
  ASSUME TypeOK, NEW p \in Procs, reply'[p] # reply[p], reply'[p] \in {"nodata", "part"}, Next
  PROVE  Read(p)
<1>1. PICK q \in Procs :
        \/ Store(q) \/ Read(q) \/ Crash(q)
        \/ \E t \in Tiles : Get(q, t) \/ Delete(q, t)
        \/ \E image \in Images : Set(q, image[1], image[2])
  BY DEF Next
<1>2. ~Store(q)
  BY DEF Store, MakeDirectory, RemoveOld, ChooseFile, FindBlank, MakeBlankDirectory,
     LockBlank, BlankUnlocked, CreateBlank, WriteBlank, CloseBlank, UnlockBlank, LinkTile,
     CreateTile, WriteTile, CloseTile
<1>3. ~Crash(q) /\ \A image \in Images : ~Set(q, image[1], image[2])
  BY DEF Crash, Set
<1>4. \A t \in Tiles : ~Get(q, t) /\ ~Delete(q, t)
  BY DEF TypeOK, Get, Delete
<1>5. Read(q) /\ q = p
  BY <1>1, <1>2, <1>3, <1>4 DEF TypeOK, Read
<1>6. QED
  BY <1>5

(* A reader that holds no lock gets less than a whole image only while     *)
(* somebody is writing the file it has open.                               *)
THEOREM ErrorsAreTransient ==
  ASSUME Careful PROVE Spec => ErrorsOnlyWhileWriting
<1> DEFINE Excused(p) == reply'[p] # reply[p] /\ reply'[p] \in {"nodata", "part"}
                           => BeingWritten(fd[p])
<1>1. TypeOK /\ SettledInv /\ [Next]_vars => [\A p \in Procs : Excused(p)]_vars
  <2> SUFFICES ASSUME TypeOK, SettledInv, Next, NEW p \in Procs,
                      reply'[p] # reply[p], reply'[p] \in {"nodata", "part"}
               PROVE  BeingWritten(fd[p])
    OBVIOUS
  <2>1. Read(p)
    BY OnlyReadFails
  <2>2. BeingWritten(fd[p]) \/ file[fd[p]].size = 2
    BY <2>1 DEF SettledInv, ReadersWait, Read
  <2>3. file[fd[p]].size # 2
    <3>1. ASSUME file[fd[p]].size = 2 PROVE FALSE
      <4>1. reply' = [reply EXCEPT ![p] = "tile"]
        BY <2>1, <3>1 DEF Read
      <4>2. QED
        BY <4>1 DEF TypeOK
    <3>2. QED
      BY <3>1
  <2>4. QED
    BY <2>2, <2>3
<1>2. QED
  BY <1>1, Settled, TypeCorrect, PTL DEF Spec, ErrorsOnlyWhileWriting
=============================================================================
