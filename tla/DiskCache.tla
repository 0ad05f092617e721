----------------------------- MODULE DiskCache -----------------------------
(***************************************************************************)
(* The disk cache, lib/cache_disk.c: every tile is a file, or a symbolic   *)
(* link to a file shared by all the blank tiles of one color. Readers take *)
(* no lock, so they meet whatever the writers have left on the disk.       *)
(*                                                                         *)
(* A file name leads to an inode that writers keep open after the name has *)
(* gone. A step is one call on the file system.                            *)
(***************************************************************************)
EXTENDS Integers, FiniteSets

CONSTANTS
  Procs,      \* the threads or processes that use the cache
  Tiles,      \* the tiles, each one standing for its file name
  Blank,      \* the file name of the blank tile
  None,       \* no inode, no lock owner
  Link,       \* a symbolic link to Blank
  Inodes,     \* bound: the files that can exist, or be open, at once
  Symlinks,   \* symlink_blank is configured
  Retries,    \* creation_retry
  Exclusive,  \* every writer holds the metatile lock of its tile
  Operations, \* what is asked of the cache: "set", "get", "delete"
  Images,     \* what is stored: pairs of a tile and the kind of its image
  MayFail,    \* the calls that may fail in this run
  MaxCrashes  \* bound: processes that die while they store a tile

Calls == {"mkdir", "remove", "lock", "open", "write", "flush", "symlink"}

ASSUME CacheAssumption ==
  /\ Blank \notin Tiles
  /\ {None, Link} \cap Inodes = {} /\ None # Link
  /\ None \notin Procs
  /\ {Symlinks, Exclusive} \subseteq BOOLEAN
  /\ Operations \subseteq {"set", "get", "delete"}
  /\ Images \subseteq Tiles \X {"image", "blank"}
  /\ {Retries, MaxCrashes} \subseteq Nat
  /\ MayFail \subseteq Calls

Names == Tiles \union {Blank}

(* An inode for each name and for each file that is open without one, so   *)
(* that who creates a file finds one that is free.                         *)
ASSUME InodeAssumption ==
  /\ IsFiniteSet(Names) /\ IsFiniteSet(Procs) /\ IsFiniteSet(Inodes)
  /\ Cardinality(Names) + Cardinality(Procs) <= Cardinality(Inodes) + 1

(* What a file holds: nothing, a part or all of the image last written     *)
(* from its start, which another one of another length may show through.   *)
Kinds == {"image", "blank", "mixed"}
Files == [size : 0 .. 2, kind : Kinds]
Whole(k) == [size |-> 2, kind |-> k]
Empty == [size |-> 0, kind |-> "image"]

VARIABLES
  name,     \* name[n]: the inode of file n, Link for a link, or None
  file,     \* file[i]: what inode i holds
  lock,     \* the process that created the lock file of Blank, or None
  pc,       \* pc[p]: the next call of process p
  tile,     \* tile[p]: the tile p reads or stores
  kind,     \* kind[p]: the kind of image p stores
  fd,       \* fd[p]: the inode p has open
  tries,    \* tries[p]: how often p has tried to create its file or link
  err,      \* err[p]: the context of p's request has an error
  reply,    \* reply[p]: what p's last tile_get found
  crashes   \* how many processes have died

vars == <<name, file, lock, pc, tile, kind, fd, tries, err, reply, crashes>>
disk == <<name, file, lock>>
request == <<tile, kind>>

Init ==
  /\ name = [n \in Names |-> None]
  /\ file = [i \in Inodes |-> Empty]
  /\ lock = None
  /\ pc = [p \in Procs |-> "idle"]
  /\ tile \in [Procs -> Tiles]
  /\ kind = [p \in Procs |-> "image"]
  /\ fd = [p \in Procs |-> None]
  /\ tries = [p \in Procs |-> 0]
  /\ err = [p \in Procs |-> FALSE]
  /\ reply = [p \in Procs |-> "none"]
  /\ crashes = 0

Goto(p, label) == pc' = [pc EXCEPT ![p] = label]

(* The call returns to the tileset, which ends the request.                *)
Return(p) ==
  /\ Goto(p, "idle")
  /\ fd' = [fd EXCEPT ![p] = None]
  /\ tries' = [tries EXCEPT ![p] = 0]
  /\ UNCHANGED err

ReturnError(p) ==
  /\ Goto(p, "idle")
  /\ fd' = [fd EXCEPT ![p] = None]
  /\ tries' = [tries EXCEPT ![p] = 0]
  /\ err' = [err EXCEPT ![p] = TRUE]

StoreLabels == {"mkdir", "remove", "choose", "findblank", "mkblanks", "lockblank",
                "waitblank", "createblank", "writeblank", "closeblank", "unlockblank",
                "link", "create", "write", "close"}
Storing(p) == pc[p] \in StoreLabels

(* The inode a name leads to, through a link.                              *)
Resolve(n) == IF name[n] = Link THEN name[Blank] ELSE name[n]

(* An inode that no name leads to and that nobody has open.                *)
FreeInode ==
  CHOOSE i \in Inodes : /\ \A n \in Names : name[n] # i
                        /\ \A q \in Procs : fd[q] # i

(* Opening a name for writing creates the file it leads to, without        *)
(* APR_TRUNCATE or APR_EXCL: what exists is kept and written over.         *)
OpenToWrite(p, n) ==
  \/ /\ Resolve(n) # None
     /\ fd' = [fd EXCEPT ![p] = Resolve(n)]
     /\ UNCHANGED <<name, file>>
  \/ /\ Resolve(n) = None
     /\ name' = [name EXCEPT ![IF name[n] = Link THEN Blank ELSE n] = FreeInode]
     /\ file' = [file EXCEPT ![FreeInode] = [size |-> 0, kind |-> kind[p]]]
     /\ fd' = [fd EXCEPT ![p] = FreeInode]

(* The file of a name that goes is kept while somebody has it open.        *)
Unlink(n) ==
  /\ name' = [name EXCEPT ![n] = None]
  /\ file' = [i \in Inodes |-> IF i = name[n] /\ \A q \in Procs : fd[q] # i
                                THEN Empty ELSE file[i]]

(* A call to create a file or a link that fails is made again up to        *)
(* creation_retry times, after the directory was created again.            *)
Retry(p) ==
  \/ /\ tries[p] < Retries
     /\ tries' = [tries EXCEPT ![p] = @ + 1]
     /\ UNCHANGED <<pc, fd, err>>
  \/ /\ tries[p] = Retries \/ "mkdir" \in MayFail
     /\ ReturnError(p)

-----------------------------------------------------------------------------
(* _mapcache_cache_disk_set.                                                *)

Set(p, t, k) ==
  /\ pc[p] = "idle" /\ "set" \in Operations
  /\ Exclusive => \A q \in Procs : Storing(q) => tile[q] # t
  /\ tile' = [tile EXCEPT ![p] = t]
  /\ kind' = [kind EXCEPT ![p] = k]
  /\ err' = [err EXCEPT ![p] = FALSE]
  /\ Goto(p, "mkdir")
  /\ UNCHANGED <<disk, fd, tries, reply, crashes>>

MakeDirectory(p) ==
  /\ pc[p] = "mkdir"
  /\ \/ Goto(p, "remove") /\ UNCHANGED <<fd, tries, err>>
     \/ "mkdir" \in MayFail /\ ReturnError(p)
  /\ UNCHANGED <<disk, request, reply, crashes>>

(* Mutant: the old file stays, to be written over.                         *)
RemoveNothing(p) ==
  /\ pc[p] = "remove"
  /\ Goto(p, "choose")
  /\ UNCHANGED <<disk, request, fd, tries, err, reply, crashes>>

(* A file that cannot be removed is an error, but the code goes on.        *)
RemoveOld(p) ==
  /\ pc[p] = "remove"
  /\ \/ Unlink(tile[p]) /\ UNCHANGED err
     \/ /\ "remove" \in MayFail /\ name[tile[p]] # None
        /\ err' = [err EXCEPT ![p] = TRUE] /\ UNCHANGED <<name, file>>
  /\ Goto(p, "choose")
  /\ UNCHANGED <<lock, request, fd, tries, reply, crashes>>

(* Decoding or encoding the tile comes first when it is needed, and checks *)
(* for errors.                                                             *)
ChooseFile(p) ==
  /\ pc[p] = "choose"
  /\ \/ /\ Goto(p, IF Symlinks /\ kind[p] = "blank" THEN "findblank" ELSE "create")
        /\ UNCHANGED <<fd, tries, err>>
     \/ err[p] /\ Return(p)
  /\ UNCHANGED <<disk, request, reply, crashes>>

FindBlank(p) ==
  /\ pc[p] = "findblank"
  /\ \/ name[Blank] # None /\ Goto(p, "link") /\ UNCHANGED <<fd, tries, err>>
     \/ name[Blank] = None /\ Goto(p, "mkblanks") /\ UNCHANGED <<fd, tries, err>>
     \/ name[Blank] = None /\ err[p] /\ Return(p)
  /\ UNCHANGED <<disk, request, reply, crashes>>

MakeBlankDirectory(p) ==
  /\ pc[p] = "mkblanks"
  /\ \/ Goto(p, "lockblank") /\ UNCHANGED <<fd, tries, err>>
     \/ "mkdir" \in MayFail /\ ReturnError(p)
  /\ UNCHANGED <<disk, request, reply, crashes>>

(* A lock file that cannot be created is not told from one that was        *)
(* removed meanwhile.                                                      *)
LockBlank(p) ==
  /\ pc[p] = "lockblank"
  /\ \/ lock = None /\ lock' = p /\ Goto(p, "createblank")
     \/ lock # None /\ UNCHANGED lock /\ Goto(p, "waitblank")
     \/ lock = None /\ "lock" \in MayFail /\ UNCHANGED lock /\ Goto(p, "link")
  /\ UNCHANGED <<name, file, request, fd, tries, err, reply, crashes>>

(* Whoever held the lock is taken to have created the blank tile.          *)
BlankUnlocked(p) ==
  /\ pc[p] = "waitblank"
  /\ lock = None
  /\ Goto(p, "link")
  /\ UNCHANGED <<disk, request, fd, tries, err, reply, crashes>>

CreateBlank(p) ==
  /\ pc[p] = "createblank"
  /\ \/ OpenToWrite(p, Blank) /\ Goto(p, "writeblank") /\ UNCHANGED <<lock, tries, err>>
     \/ "open" \in MayFail /\ ReturnError(p) /\ lock' = None /\ UNCHANGED <<name, file>>
  /\ UNCHANGED <<request, reply, crashes>>

(* The data goes to a buffer, a part of it perhaps to the file.            *)
WritePart(p) ==
  \E s \in {file[fd[p]].size, 1} :
    /\ s >= file[fd[p]].size
    /\ file' = [file EXCEPT ![fd[p]] =
                  [size |-> s, kind |-> IF @.size = 0 THEN kind[p]
                                        ELSE IF @.kind = kind[p] THEN @.kind ELSE "mixed"]]

(* The rest follows when the file is closed. What was there before still   *)
(* shows if it was longer.                                                 *)
WriteRest(p) ==
  \E k \in IF file[fd[p]].kind = kind[p] THEN {kind[p]} ELSE {kind[p], "mixed"} :
    file' = [file EXCEPT ![fd[p]] = Whole(k)]

(* Mutant: the lock of the blank tile is not released when writing fails.  *)
WriteBlankKeepsLock(p) ==
  /\ pc[p] = "writeblank"
  /\ WritePart(p)
  /\ \/ Goto(p, "closeblank") /\ UNCHANGED <<fd, tries, err>>
     \/ "write" \in MayFail /\ ReturnError(p)
  /\ UNCHANGED <<name, lock, request, reply, crashes>>

WriteBlank(p) ==
  /\ pc[p] = "writeblank"
  /\ WritePart(p)
  /\ \/ Goto(p, "closeblank") /\ UNCHANGED <<lock, fd, tries, err>>
     \/ "write" \in MayFail /\ ReturnError(p) /\ lock' = None
  /\ UNCHANGED <<name, request, reply, crashes>>

(* Mutant: the file of the blank tile is flushed but stays open.           *)
CloseBlankLeaks(p) ==
  /\ pc[p] = "closeblank"
  /\ WriteRest(p) \/ ("flush" \in MayFail /\ UNCHANGED file)
  /\ Goto(p, "unlockblank")
  /\ UNCHANGED <<name, lock, request, fd, tries, err, reply, crashes>>

(* Nobody looks at what closing the file of the blank tile returns.        *)
CloseBlank(p) ==
  /\ pc[p] = "closeblank"
  /\ WriteRest(p) \/ ("flush" \in MayFail /\ UNCHANGED file)
  /\ fd' = [fd EXCEPT ![p] = None]
  /\ Goto(p, "unlockblank")
  /\ UNCHANGED <<name, lock, request, tries, err, reply, crashes>>

UnlockBlank(p) ==
  /\ pc[p] = "unlockblank"
  /\ lock' = None
  /\ Goto(p, "link")
  /\ UNCHANGED <<name, file, request, fd, tries, err, reply, crashes>>

LinkTile(p) ==
  /\ pc[p] = "link"
  /\ \/ /\ err[p]
        /\ Return(p)
        /\ UNCHANGED name
     \/ /\ ~err[p] /\ name[tile[p]] = None
        /\ name' = [name EXCEPT ![tile[p]] = Link]
        /\ Return(p)
     \/ /\ ~err[p] /\ (name[tile[p]] # None \/ "symlink" \in MayFail)
        /\ Retry(p)
        /\ UNCHANGED name
  /\ UNCHANGED <<file, lock, request, reply, crashes>>

CreateTile(p) ==
  /\ pc[p] = "create"
  /\ \/ OpenToWrite(p, tile[p]) /\ Goto(p, "write") /\ UNCHANGED <<tries, err>>
     \/ "open" \in MayFail /\ Retry(p) /\ UNCHANGED <<name, file>>
  /\ UNCHANGED <<lock, request, reply, crashes>>

WriteTile(p) ==
  /\ pc[p] = "write"
  /\ WritePart(p)
  /\ \/ Goto(p, "close") /\ UNCHANGED <<fd, tries, err>>
     \/ "write" \in MayFail /\ ReturnError(p)
  /\ UNCHANGED <<name, lock, request, reply, crashes>>

(* Mutant: the process returns before the rest of the data is written.     *)
CloseTileUnflushed(p) ==
  /\ pc[p] = "close"
  /\ Return(p)
  /\ UNCHANGED <<disk, request, reply, crashes>>

CloseTile(p) ==
  /\ pc[p] = "close"
  /\ \/ WriteRest(p) /\ Return(p)
     \/ "flush" \in MayFail /\ UNCHANGED file /\ ReturnError(p)
  /\ UNCHANGED <<name, lock, request, reply, crashes>>

-----------------------------------------------------------------------------
(* _mapcache_cache_disk_get, _delete and a crash.                           *)

Get(p, t) ==
  /\ pc[p] = "idle" /\ "get" \in Operations
  /\ tile' = [tile EXCEPT ![p] = t]
  /\ IF Resolve(t) = None
     THEN reply' = [reply EXCEPT ![p] = "miss"] /\ UNCHANGED <<pc, fd>>
     ELSE /\ fd' = [fd EXCEPT ![p] = Resolve(t)]
          /\ reply' = [reply EXCEPT ![p] = "none"]
          /\ Goto(p, "read")
  /\ err' = [err EXCEPT ![p] = FALSE]
  /\ UNCHANGED <<disk, kind, tries, crashes>>

(* The size is looked at once, then that much of the file is handed out.   *)
Read(p) ==
  /\ pc[p] = "read"
  /\ reply' = [reply EXCEPT ![p] = CASE file[fd[p]].size = 0 -> "nodata"
                                     [] file[fd[p]].size = 1 -> "part"
                                     [] OTHER -> "tile"]
  /\ IF file[fd[p]].size = 0 THEN ReturnError(p) ELSE Return(p)
  /\ UNCHANGED <<disk, request, crashes>>

Delete(p, t) ==
  /\ pc[p] = "idle" /\ "delete" \in Operations
  /\ name[t] # None
  /\ Unlink(t)
  /\ UNCHANGED <<lock, pc, request, fd, tries, err, reply, crashes>>

(* What a dying process has open is closed, its lock file stays.           *)
Crash(p) ==
  /\ Storing(p)
  /\ crashes < MaxCrashes
  /\ crashes' = crashes + 1
  /\ Goto(p, "dead")
  /\ fd' = [fd EXCEPT ![p] = None]
  /\ UNCHANGED <<disk, request, tries, err, reply>>

Store(p) ==
  \/ MakeDirectory(p) \/ RemoveOld(p) \/ ChooseFile(p)
  \/ FindBlank(p) \/ MakeBlankDirectory(p) \/ LockBlank(p) \/ BlankUnlocked(p)
  \/ CreateBlank(p) \/ WriteBlank(p) \/ CloseBlank(p) \/ UnlockBlank(p) \/ LinkTile(p)
  \/ CreateTile(p) \/ WriteTile(p) \/ CloseTile(p)

Next ==
  \E p \in Procs :
    \/ Store(p) \/ Read(p) \/ Crash(p)
    \/ \E t \in Tiles : Get(p, t) \/ Delete(p, t)
    \/ \E image \in Images : Set(p, image[1], image[2])

Spec == Init /\ [][Next]_vars
(* The operating system schedules every process; requests need not come.   *)
FairSpec == Spec /\ \A p \in Procs : WF_vars(Store(p) \/ Read(p))

-----------------------------------------------------------------------------
(* Properties.                                                              *)

(* Every variable keeps its type, a process that writes or reads has a     *)
(* file open, and there are inodes enough.                                 *)
TypeOK ==
  /\ name \in [Names -> Inodes \union {None, Link}] /\ name[Blank] # Link
  /\ file \in [Inodes -> Files]
  /\ lock \in Procs \union {None}
  /\ pc \in [Procs -> StoreLabels \union {"idle", "read", "dead"}]
  /\ tile \in [Procs -> Tiles]
  /\ kind \in [Procs -> {"image", "blank"}]
  /\ fd \in [Procs -> Inodes \union {None}]
  /\ \A p \in Procs : pc[p] \in {"writeblank", "closeblank", "write", "close", "read"}
                        <=> fd[p] # None
  /\ tries \in [Procs -> 0 .. Retries]
  /\ err \in [Procs -> BOOLEAN]
  /\ reply \in [Procs -> {"none", "miss", "nodata", "part", "tile"}]
  /\ crashes \in 0 .. MaxCrashes

BeingWritten(i) == \E p \in Procs : Storing(p) /\ fd[p] = i

(* When one writer at a time stores a tile, what the name of a tile leads  *)
(* to and nobody is writing is a whole image, and the shared blank tile    *)
(* holds nothing but the blank image, whatever is stored, linked and       *)
(* deleted around it.                                                      *)
SettledFilesAreWhole ==
  \A n \in Names : name[n] \in Inodes =>
    /\ ~BeingWritten(name[n]) => file[name[n]] \in {Whole("image"), Whole("blank")}
    /\ n = Blank => file[name[n]].kind = "blank"

(* A tile_set that writes a file of its own for the tile, and meets no     *)
(* error, leaves its whole image in the cache, whatever a process that     *)
(* died, or failed, had left there before. Nothing of the kind holds of a  *)
(* blank tile that is linked: FindBlank takes any file that is there, and  *)
(* LockBlank goes on without one, so the link may lead to a part of the    *)
(* blank image, or to nothing, after a writer that failed or died. What    *)
(* links lead to otherwise is in SettledFilesAreWhole.                     *)
CopiedTilesAreWhole ==
  [][\A p \in Procs :
       pc[p] = "close" /\ pc'[p] = "idle" /\ ~err'[p] /\ Resolve(tile[p]) # None
         => file'[Resolve(tile[p])] = Whole(kind[p])]_vars

(* "any error that might happen at this stage should only occur if the     *)
(* tile isn't already cached, i.e. normally only once"                     *)
(* (lib/cache_disk.c:391): a reader gets an empty or an incomplete file    *)
(* only while somebody writes it.                                          *)
ErrorsOnlyWhileWriting ==
  [][\A p \in Procs : reply'[p] # reply[p] /\ reply'[p] \in {"nodata", "part"}
                        => BeingWritten(fd[p])]_vars

(* Every tile_set returns, whatever fails: the lock of the blank tile is   *)
(* released on every path. It waits forever only for a process that died   *)
(* with that lock.                                                         *)
SetsEnd ==
  \A p \in Procs :
    Storing(p) ~> (\/ ~Storing(p)
                   \/ pc[p] = "waitblank" /\ lock # None /\ pc[lock] = "dead")
=============================================================================
