----------------------------- MODULE TileStore ------------------------------
(***************************************************************************)
(* What the callers of a cache rely on (struct mapcache_cache in           *)
(* include/mapcache.h): tiles are stored, several at once, deleted, read.  *)
(* A read answers what is stored. A write that is not acknowledged leaves  *)
(* no trace, and several tiles are written at once, if the cache is        *)
(* atomic. A write may be late, or lost, where that is said.               *)
(***************************************************************************)
CONSTANTS Clients, Tiles, Images, None

VARIABLES
  atomic,    \* writes are done at once or not at all
  careless,  \* the store may forget, and its answers are not looked at
  fragile,   \* a tile that is written again may be read half
  store,     \* the tiles
  late,      \* what the store is once the late writes are done, or None
  call,      \* call[c]: what client c reads or still has to write
  answer     \* answer[c]: how its last call ended

storeVars == <<atomic, careless, fragile, store, late, call, answer>>

Answers == Images \union {"torn", "lost", "ok", "miss", "error"}

(* Writes are pairs of a tile and what it becomes.                         *)
Writes == SUBSET (Tiles \X (Images \union {None}))
After(base, W) ==
  [t \in Tiles |-> IF \E w \in W : w[1] = t THEN (CHOOSE w \in W : w[1] = t)[2] ELSE base[t]]
Base == IF late = None THEN store ELSE late

Writing(W) == [tile |-> None, whole |-> W, rest |-> W, seen |-> "ok"]
Reading(t) == [tile |-> t, whole |-> {}, rest |-> {}, seen |-> None]

Init ==
  /\ atomic \in BOOLEAN /\ careless \in BOOLEAN /\ fragile \in BOOLEAN
  /\ store \in [Tiles -> Images \union {None}] /\ late = None
  /\ call = [c \in Clients |-> None] /\ answer = [c \in Clients |-> "ok"]

Begin(c) ==
  /\ call[c] = None
  /\ \/ \E W \in Writes : call' = [call EXCEPT ![c] = Writing(W)]
     \/ \E t \in Tiles : call' = [call EXCEPT ![c] = Reading(t)]
  /\ UNCHANGED <<atomic, careless, fragile, store, late, answer>>

Read(c) ==
  /\ call[c] # None /\ call[c].tile # None
  /\ LET i == store[call[c].tile]
     IN  call' = [call EXCEPT ![c].seen = IF i = None THEN "miss" ELSE i]
  /\ UNCHANGED <<atomic, careless, fragile, store, late, answer>>

(* Only while it is written again, or since it was.                        *)
Tear(c) ==
  /\ fragile /\ call[c] # None /\ call[c].seen \in Images
  /\ \/ store[call[c].tile] # call[c].seen
     \/ \E d \in Clients : call[d] # None /\ \E w \in call[d].rest : w[1] = call[c].tile
  /\ call' = [call EXCEPT ![c].seen = "torn"]
  /\ UNCHANGED <<atomic, careless, fragile, store, late, answer>>

(* The write takes effect, and with it what was late.                      *)
Write(c) ==
  /\ call[c] # None
  /\ \E W \in SUBSET call[c].rest :
       /\ W # {} /\ (atomic => W = call[c].whole)
       /\ store' = After(Base, W)
       /\ call' = [call EXCEPT ![c].rest = @ \ W]
  /\ late' = None
  /\ UNCHANGED <<atomic, careless, fragile, answer>>

(* Done when the next one is.                                              *)
Postpone(c) ==
  /\ atomic /\ call[c] # None /\ call[c].rest # {}
  /\ late' = After(Base, call[c].rest)
  /\ call' = [call EXCEPT ![c].rest = {}]
  /\ UNCHANGED <<atomic, careless, fragile, store, answer>>

Ignore(c) ==
  /\ careless /\ call[c] # None
  /\ \E W \in SUBSET call[c].rest :
       call' = [call EXCEPT ![c].rest = @ \ W]
  /\ UNCHANGED <<atomic, careless, fragile, store, late, answer>>

(* A call ends well when it has read, or has nothing left to write.        *)
Acknowledge(c) ==
  /\ call[c] # None /\ call[c].rest = {}
  /\ \E a \in Answers :
       /\ a = call[c].seen \/ (careless /\ call[c].tile # None /\ a \in {"miss", "lost"})
       /\ answer' = [answer EXCEPT ![c] = a]
  /\ call' = [call EXCEPT ![c] = None]
  /\ UNCHANGED <<atomic, careless, fragile, store, late>>

(* One that fails leaves no trace in an atomic store. It closes the        *)
(* connection that late writes wait on.                                    *)
Fail(c) ==
  /\ call[c] # None /\ (atomic => call[c].rest = call[c].whole)
  /\ answer' = [answer EXCEPT ![c] = "error"]
  /\ call' = [call EXCEPT ![c] = None]
  /\ late' \in {late, None}
  /\ UNCHANGED <<atomic, careless, fragile, store>>

(* Processes end, each of their calls done or not.                         *)
Crash(C) ==
  /\ call' = [c \in Clients |-> IF c \in C THEN None ELSE call[c]]
  /\ late' \in {late, None}
  /\ UNCHANGED <<atomic, careless, fragile, store, answer>>

Forget(t) ==
  /\ careless
  /\ store' = [store EXCEPT ![t] = None]
  /\ UNCHANGED <<atomic, careless, fragile, late, call, answer>>

Next ==
  \/ \E c \in Clients : Begin(c) \/ Read(c) \/ Tear(c) \/ Write(c) \/ Postpone(c) \/ Ignore(c)
                        \/ Acknowledge(c) \/ Fail(c)
  \/ \E C \in SUBSET Clients : Crash(C)
  \/ \E t \in Tiles : Forget(t)

Spec == Init /\ [][Next]_storeVars
=============================================================================
