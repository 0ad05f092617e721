------------------------------- MODULE Seeder -------------------------------
(***************************************************************************)
(* The command line seeder, util/mapcache_seed.c: the main thread walks    *)
(* over the metatiles, decides for each one whether it needs work and      *)
(* queues a command; workers, threads or forked processes, take commands   *)
(* from the bounded queue until they take a STOP.                          *)
(*                                                                         *)
(* A metatile is its examined tile (the first one, the only one the seeder *)
(* looks at) and the rest of its tiles.                                    *)
(***************************************************************************)
EXTENDS Integers, Sequences, FiniteSets

CONSTANTS
  Metas,       \* the metatiles the walk visits, from minzoom to maxzoom
  Roots,       \* those of minzoom, in the order of the loop of cmd_worker
  Children,    \* Children[m]: those visited below m, empty at maxzoom
  Options,     \* the command lines, alone or beside a server
  Found,       \* what a cache can have of the metatiles when the run starts
  MayFail,     \* what may fail in this run
  MaxSignals   \* bound: how often ctrl-C is hit

(* A command line: -n, 1 when neither -n nor -p is given and 0 with -p; -p, *)
(* 0 when it is not given; -m; -f; whether there is an age limit, -o. And   *)
(* whether a server, and one whose calls may fail, shares the cache and    *)
(* the lock directory.                                                     *)
ASSUME OptionAssumption ==
  /\ \A o \in Options :
       /\ o \in [threads : Nat, processes : Nat, mode : {"seed", "delete", "transfer"},
                 force : BOOLEAN, ageLimit : BOOLEAN, server : {"no", "yes", "failing"}]
       /\ o.threads = 0 <=> o.processes > 0
  /\ MayFail \subseteq {"render", "delete", "read"}
  /\ MaxSignals \in 0 .. 2

ASSUME WalkAssumption ==
  /\ Roots \in Seq(Metas)
  /\ Children \in [Metas -> Seq(Metas)]
  /\ \A S \in SUBSET Metas :
       /\ \A i \in DOMAIN Roots : Roots[i] \in S
       /\ \A m \in S : \A i \in DOMAIN Children[m] : Children[m][i] \in S
       => S = Metas

Ages == {"none", "old", "new"}
Contents == [first : Ages, rest : BOOLEAN]
Empty == [first |-> "none", rest |-> FALSE]
Whole(age) == [first |-> age, rest |-> TRUE]

ASSUME FoundAssumption == Found \subseteq [Metas -> {Empty, Whole("old"), Whole("new")}]

Stop == [command |-> "stop"]

VARIABLES
  option,    \* the command line
  main,      \* where the main thread is in cmd_worker
  todo,      \* the metatiles cmd_recurse has still to be called on
  pending,   \* the command main is pushing
  stops,     \* how many STOP commands main has pushed
  queue,     \* work_queue, or the message queue of the processes
  worker,    \* worker[w]: where worker w is in seed_worker
  hand,      \* hand[w]: the command worker w took last
  err,       \* err[w]: the context of w has an error. Nothing clears it
  mainErr,   \* the context of main has an error. Nothing clears it
  detected,  \* main's error_detected is not zero
  signals,   \* how often SIGINT was received
  source,    \* source[m]: what the tileset's cache has of metatile m
  target,    \* target[m]: what the cache of the -x tileset has of m
  locks,     \* the metatiles with a lock file
  server     \* those of them the server is rendering

vars == <<option, main, todo, pending, stops, queue, worker, hand, err, mainErr, detected,
          signals, source, target, locks, server>>
mainVars == <<option, main, todo, pending, stops, mainErr>>
workerVars == <<worker, hand, err, detected>>
caches == <<source, target>>

(* What main starts. One process is not forked: -p 1 takes the branch of   *)
(* the threads, of which there are none.                                   *)
Mode == option.mode
Forked == option.processes > 1
Capacity == IF Forked THEN option.processes ELSE option.threads
Workers == 1 .. Capacity
StopCount == IF option.processes >= 1 THEN option.processes ELSE option.threads
Commands == {Stop} \union [command : {Mode}, meta : Metas]

Running == main \notin {"ended", "killed"}
StopAsked == signals > 0 \/ detected

Init ==
  /\ option \in Options
  /\ main = "walk"
  /\ todo = Roots
  /\ pending = Stop
  /\ stops = 0
  /\ queue = <<>>
  /\ worker = [w \in Workers |-> "pop"]
  /\ hand = [w \in Workers |-> Stop]
  /\ err = [w \in Workers |-> FALSE]
  /\ mainErr = FALSE
  /\ detected = FALSE
  /\ signals = 0
  /\ source \in Found
  /\ target \in {f \in Found : \A m \in Metas :
                   f[m] \in IF Mode = "transfer" THEN {Empty, Whole("new")} ELSE {Empty}}
  /\ locks = {}
  /\ server = {}

-----------------------------------------------------------------------------
(* examine_tile.                                                            *)

(* The caches answer that a tile does not exist once the context they are  *)
(* given has an error.                                                     *)
Exists(m) == ~option.force /\ ~mainErr /\ source[m].first # "none"
TransferExists(m) == ~mainErr /\ target[m].first # "none"
Outdated(m) == Exists(m) /\ option.ageLimit /\ source[m].first = "old"

(* Mutant: what exists in the tileset is taken to exist in the target too. *)
NeedsWorkHere(m) ==
  \/ ~Exists(m) /\ Mode # "delete"
  \/ Outdated(m)
  \/ Exists(m) /\ ~option.ageLimit /\ Mode = "delete"

NeedsWork(m) ==
  \/ ~Exists(m) /\ Mode # "delete"
  \/ Outdated(m)
  \/ Exists(m) /\ ~option.ageLimit /\ Mode = "delete"
  \/ Exists(m) /\ ~option.ageLimit /\ Mode = "transfer" /\ ~TransferExists(m)

(* An outdated metatile is deleted before its command is queued, from the  *)
(* tileset and then from the target.                                       *)
DropOutdated(m) ==
  \/ /\ source' = [source EXCEPT ![m] = Empty]
     /\ target' = IF Mode = "transfer" /\ TransferExists(m)
                  THEN [target EXCEPT ![m] = Empty] ELSE target
     /\ UNCHANGED mainErr
  \/ /\ "delete" \in MayFail
     /\ \/ source' \in {source, [source EXCEPT ![m].first = "none"]} /\ UNCHANGED target
        \/ /\ Mode = "transfer" /\ TransferExists(m)
           /\ source' = [source EXCEPT ![m] = Empty]
           /\ target' \in {target, [target EXCEPT ![m].first = "none"]}
     /\ mainErr' = TRUE

-----------------------------------------------------------------------------
(* The main thread: cmd_worker and cmd_recurse.                             *)

(* examine_tile and the push of what is to be done. A tile whose age       *)
(* cannot be read is skipped.                                              *)
Examine(m) ==
  /\ \/ /\ Outdated(m) /\ Mode # "delete"
        /\ DropOutdated(m)
     \/ /\ ~(Outdated(m) /\ Mode # "delete")
        /\ UNCHANGED <<caches, mainErr>>
  /\ \/ /\ NeedsWork(m)
        /\ pending' = [command |-> Mode, meta |-> m]
        /\ main' = "push"
     \/ /\ ~NeedsWork(m)
        /\ UNCHANGED <<pending, main>>
ExamineFails(m) ==
  /\ "read" \in MayFail /\ Exists(m) /\ option.ageLimit
  /\ mainErr' = TRUE
  /\ UNCHANGED <<pending, main, caches>>

(* cmd_recurse, asked to stop: the queue is emptied and the metatiles      *)
(* below are left out, but not those beside.                               *)
DrainQueue ==
  /\ main = "walk" /\ todo # <<>>
  /\ StopAsked
  /\ queue' = <<>>
  /\ todo' = Tail(todo)
  /\ UNCHANGED <<main, pending, stops, mainErr, workerVars, signals, caches,
                 locks, server, option>>

Recurse ==
  /\ main = "walk" /\ todo # <<>>
  /\ ~StopAsked
  /\ LET m == Head(todo)
     IN  /\ todo' = Children[m] \o Tail(todo)
         /\ \/ Examine(m)
            \/ ExamineFails(m)
  /\ UNCHANGED <<stops, queue, workerVars, signals, locks, server, option>>

(* Mutant: the queue grows.                                                *)
PushUnbounded(c) ==
  /\ queue' = Append(queue, c)
  /\ \/ \E w \in Workers : /\ worker[w] = "waiting"
                           /\ worker' = [worker EXCEPT ![w] = "woken"]
     \/ /\ \A w \in Workers : worker[w] # "waiting"
        /\ UNCHANGED worker

(* Mutant: nobody is signalled.                                            *)
PushSilently(c) ==
  /\ Len(queue) < Capacity
  /\ queue' = Append(queue, c)
  /\ UNCHANGED worker

(* push_queue blocks while the queue is full. A push to a queue of threads *)
(* signals one of those that wait on it.                                   *)
PushQueue(c) ==
  /\ Len(queue) < Capacity
  /\ queue' = Append(queue, c)
  /\ \/ \E w \in Workers : /\ worker[w] = "waiting"
                           /\ worker' = [worker EXCEPT ![w] = "woken"]
     \/ /\ \A w \in Workers : worker[w] # "waiting"
        /\ UNCHANGED worker

PushCommand ==
  /\ main = "push"
  /\ PushQueue(pending)
  /\ main' = "walk"
  /\ UNCHANGED <<todo, pending, stops, hand, err, mainErr, detected, signals,
                 caches, locks, server, option>>

WalkDone ==
  /\ main = "walk" /\ todo = <<>>
  /\ main' = "stop"
  /\ UNCHANGED <<todo, pending, stops, queue, mainErr, workerVars, signals,
                 caches, locks, server, option>>

(* Mutant: a STOP that does not fit is dropped.                            *)
PushStopOrDrop ==
  /\ main = "stop" /\ stops < StopCount
  /\ \/ PushQueue(Stop)
     \/ Len(queue) = Capacity /\ UNCHANGED <<queue, worker>>
  /\ stops' = stops + 1
  /\ UNCHANGED <<main, todo, pending, hand, err, mainErr, detected, signals,
                 caches, locks, server, option>>

PushStop ==
  /\ main = "stop" /\ stops < StopCount
  /\ PushQueue(Stop)
  /\ stops' = stops + 1
  /\ UNCHANGED <<main, todo, pending, hand, err, mainErr, detected, signals,
                 caches, locks, server, option>>

(* apr_thread_join or waitpid on every worker.                             *)
Join ==
  /\ main = "stop" /\ stops = StopCount
  /\ \A w \in Workers : worker[w] = "gone"
  /\ main' = "ended"
  /\ UNCHANGED <<todo, pending, stops, queue, mainErr, workerVars, signals,
                 caches, locks, server, option>>

-----------------------------------------------------------------------------
(* The workers: pop_queue.                                                  *)

TakeCommand(w) ==
  /\ worker[w] \in {"pop", "woken"}
  /\ queue # <<>>
  /\ hand' = [hand EXCEPT ![w] = Head(queue)]
  /\ queue' = Tail(queue)
  /\ worker' = [worker EXCEPT ![w] = IF Head(queue) = Stop THEN "gone" ELSE "work"]
  /\ UNCHANGED <<mainVars, err, detected, signals, caches, locks, server>>

(* apr_queue_pop waits for a signal on an empty queue.                     *)
WaitForCommand(w) ==
  /\ ~Forked
  /\ worker[w] = "pop"
  /\ queue = <<>>
  /\ worker' = [worker EXCEPT ![w] = "waiting"]
  /\ UNCHANGED <<mainVars, queue, hand, err, detected, signals, caches, locks, server>>

(* A signalled thread that finds the queue empty again, because another    *)
(* one was faster, gets APR_EINTR, and a worker ends on any error.         *)
WakeToNothing(w) ==
  /\ worker[w] = "woken"
  /\ queue = <<>>
  /\ worker' = [worker EXCEPT ![w] = "gone"]
  /\ UNCHANGED <<mainVars, queue, hand, err, detected, signals, caches, locks, server>>

-----------------------------------------------------------------------------
(* The workers: a command. An error in the worker's context stays there.   *)

Working(w, command) == worker[w] = "work" /\ hand[w].command = command

(* Each forked process counts its own errors.                              *)
CommandDone(w) ==
  /\ worker' = [worker EXCEPT ![w] = "pop"]
  /\ detected' = (detected \/ (err'[w] /\ ~Forked))
  /\ UNCHANGED <<mainVars, queue, hand, signals, server>>

LockMetatile(w) ==
  /\ Working(w, "seed")
  /\ hand[w].meta \notin locks
  /\ locks' = locks \union {hand[w].meta}
  /\ worker' = [worker EXCEPT ![w] = "render"]
  /\ UNCHANGED <<mainVars, queue, hand, err, detected, signals, caches, server>>

WaitForMetatile(w) ==
  /\ Working(w, "seed")
  /\ hand[w].meta \in locks
  /\ worker' = [worker EXCEPT ![w] = "wait"]
  /\ UNCHANGED <<mainVars, queue, hand, err, detected, signals, caches, locks, server>>

(* Whoever held the lock is taken to have rendered the metatile.           *)
MetatileUnlocked(w) ==
  /\ worker[w] = "wait"
  /\ hand[w].meta \notin locks
  /\ UNCHANGED <<err, caches, locks>>
  /\ CommandDone(w)

(* Mutant: a failing worker forgets its lock.                              *)
RenderKeepsLock(w) ==
  /\ worker[w] = "render"
  /\ LET m == hand[w].meta
     IN  \/ /\ ~err[w]
            /\ source' = [source EXCEPT ![m] = Whole("new")]
            /\ locks' = locks \ {m}
            /\ UNCHANGED err
         \/ /\ err[w] \/ "render" \in MayFail
            /\ err' = [err EXCEPT ![w] = TRUE]
            /\ UNCHANGED <<source, locks>>
  /\ CommandDone(w)
  /\ UNCHANGED target

(* With an old error in the context the source is asked, but nothing is    *)
(* saved.                                                                  *)
RenderMetatile(w) ==
  /\ worker[w] = "render"
  /\ LET m == hand[w].meta
     IN  /\ \/ /\ ~err[w]
               /\ source' = [source EXCEPT ![m] = Whole("new")]
               /\ UNCHANGED err
            \/ /\ ~err[w] /\ "render" \in MayFail
               /\ source' \in {source, [source EXCEPT ![m].first = "new"]}
               /\ err' = [err EXCEPT ![w] = TRUE]
            \/ /\ err[w]
               /\ UNCHANGED <<source, err>>
         /\ locks' = locks \ {m}
  /\ CommandDone(w)
  /\ UNCHANGED target

(* With an old error in the context at most the first tile is deleted; not *)
(* even that by a cache that looks at the error first.                     *)
DeleteMetatile(w) ==
  /\ Working(w, "delete")
  /\ LET m == hand[w].meta
     IN  \/ /\ ~err[w]
            /\ source' = [source EXCEPT ![m] = Empty]
            /\ UNCHANGED err
         \/ /\ ~err[w] /\ "delete" \in MayFail
            /\ source' \in {source, [source EXCEPT ![m].first = "none"]}
            /\ err' = [err EXCEPT ![w] = TRUE]
         \/ /\ err[w]
            /\ source' \in {source, [source EXCEPT ![m].first = "none"]}
            /\ UNCHANGED err
  /\ CommandDone(w)
  /\ UNCHANGED <<target, locks>>

Cached(m) == source[m].first # "none" /\ source[m].rest

(* tile_set is called after an error, too, this one or an older one, and   *)
(* stores nothing then. What it does to the connections is in Stores.      *)
TransferMetatile(w) ==
  /\ Working(w, "transfer")
  /\ LET m == hand[w].meta
     IN  \/ /\ ~err[w] /\ Cached(m)
            /\ target' = [target EXCEPT ![m] = Whole("new")]
            /\ UNCHANGED <<source, err>>
         \/ /\ ~err[w] /\ "render" \in MayFail
            /\ target' \in IF source[m].first # "none"
                          THEN {target, [target EXCEPT ![m].first = "new"]} ELSE {target}
            /\ source' \in IF Cached(m) THEN {source}
                                      ELSE {source, [source EXCEPT ![m].first = "new"]}
            /\ err' = [err EXCEPT ![w] = TRUE]
         \/ /\ err[w]
            /\ UNCHANGED <<caches, err>>
  /\ CommandDone(w)
  /\ UNCHANGED locks

(* tile_get renders the missing tile with its metatile, unless there is no *)
(* source or another process renders it, and hands out no data; storing a  *)
(* tile that has neither an image nor encoded data ends the process.       *)
TransferWithoutData(w) ==
  /\ Working(w, "transfer")
  /\ LET m == hand[w].meta
     IN  /\ ~err[w] /\ ~Cached(m)
         /\ source' \in {source, [source EXCEPT ![m] = Whole("new")]}
         /\ target' = IF source[m].first # "none"
                      THEN [target EXCEPT ![m].first = "new"] ELSE target
  /\ \/ /\ Forked
        /\ worker' = [worker EXCEPT ![w] = "gone"]
        /\ UNCHANGED main
     \/ /\ ~Forked
        /\ worker' = [v \in Workers |-> "gone"]
        /\ main' = "killed"
  /\ UNCHANGED <<todo, pending, stops, mainErr, queue, hand, err, detected,
                 signals, locks, server, option>>

-----------------------------------------------------------------------------
(* handle_sig_int. The terminal signals every process of the group.        *)

(* The first one sets a flag that only main reads. A blocked system call   *)
(* on the message queue fails: a worker that waits for a message ends, a   *)
(* push to the full queue is given up, STOP or not.                        *)
Interrupt ==
  /\ Running /\ signals = 0 /\ MaxSignals > 0
  /\ signals' = 1
  /\ \E W \in SUBSET {w \in Workers : Forked /\ worker[w] = "pop" /\ queue = <<>>} :
       worker' = [w \in Workers |-> IF w \in W THEN "gone" ELSE worker[w]]
  /\ \/ UNCHANGED <<main, stops>>
     \/ /\ Forked /\ Len(queue) = Capacity
        /\ \/ main = "push" /\ main' = "walk" /\ UNCHANGED stops
           \/ main = "stop" /\ stops < StopCount /\ stops' = stops + 1 /\ UNCHANGED main
  /\ UNCHANGED <<todo, pending, mainErr, queue, hand, err, detected, caches,
                 locks, server, option>>

(* The second one ends them all.                                           *)
Terminate ==
  /\ Running /\ signals = 1 /\ MaxSignals > 1
  /\ signals' = 2
  /\ main' = "killed"
  /\ worker' = [w \in Workers |-> "gone"]
  /\ UNCHANGED <<todo, pending, stops, mainErr, queue, hand, err, detected,
                 caches, locks, server, option>>

-----------------------------------------------------------------------------
(* The server renders a metatile it was asked for and does not have.       *)

ServerLocks(m) ==
  /\ option.server # "no" /\ m \notin locks /\ source[m].first = "none"
  /\ locks' = locks \union {m}
  /\ server' = server \union {m}
  /\ UNCHANGED <<mainVars, queue, workerVars, signals, caches>>

ServerUnlocks(m) ==
  /\ m \in server
  /\ \/ source' = [source EXCEPT ![m] = Whole("new")]
     \/ option.server = "failing" /\ UNCHANGED source
  /\ locks' = locks \ {m}
  /\ server' = server \ {m}
  /\ UNCHANGED <<mainVars, queue, workerVars, signals, target>>

MainStep == DrainQueue \/ Recurse \/ PushCommand \/ WalkDone \/ PushStop \/ Join
WorkerStep(w) ==
  \/ TakeCommand(w) \/ WaitForCommand(w) \/ WakeToNothing(w)
  \/ LockMetatile(w) \/ WaitForMetatile(w) \/ MetatileUnlocked(w) \/ RenderMetatile(w)
  \/ DeleteMetatile(w) \/ TransferMetatile(w) \/ TransferWithoutData(w)

(* The run is over: its processes are gone.                                *)
Over == ~Running /\ UNCHANGED vars

Next ==
  \/ MainStep
  \/ \E w \in Workers : WorkerStep(w)
  \/ \E m \in Metas : ServerLocks(m) \/ ServerUnlocks(m)
  \/ Interrupt \/ Terminate
  \/ Over

Spec == Init /\ [][Next]_vars

(* The operating system schedules every thread and process, the server's   *)
(* included. Signals and requests to the server need not come.             *)
WorkerNames == UNION {1 .. (o.threads + o.processes) : o \in Options}
FairSpec ==
  /\ Spec
  /\ WF_vars(MainStep)
  /\ \A w \in WorkerNames : WF_vars(w \in Workers /\ WorkerStep(w))
  /\ \A m \in Metas : WF_vars(ServerUnlocks(m))

-----------------------------------------------------------------------------
(* Properties.                                                              *)

(* Every variable keeps its type; the queue stays inside its bound.        *)
TypeOK ==
  /\ option \in Options
  /\ main \in {"walk", "push", "stop", "ended", "killed"}
  /\ todo \in Seq(Metas)
  /\ pending \in Commands
  /\ stops \in 0 .. StopCount
  /\ queue \in Seq(Commands) /\ Len(queue) <= Capacity
  /\ worker \in [Workers -> {"pop", "waiting", "woken", "work", "render", "wait", "gone"}]
  /\ hand \in [Workers -> Commands]
  /\ err \in [Workers -> BOOLEAN]
  /\ {mainErr, detected} \subseteq BOOLEAN
  /\ signals \in 0 .. 2
  /\ source \in [Metas -> Contents]
  /\ target \in [Metas -> Contents]
  /\ server \subseteq locks /\ locks \subseteq Metas

Alive == {w \in Workers : worker[w] # "gone"}
QueuedStops == {i \in DOMAIN queue : queue[i] = Stop}

(* "instruct rendering threads to stop working" (util/mapcache_seed.c:596): *)
(* whatever ended some workers early or failed, the STOPs in the queue and *)
(* those main will still push are enough for the workers that are left.    *)
(* Threads may be interrupted too; processes then lose STOPs.              *)
StopsSuffice ==
  Running /\ (Forked => signals = 0)
    => Cardinality(Alive) <= Cardinality(QueuedStops) + (StopCount - stops)

(* No signal, no error, no process that died, no server that failed.       *)
Clean == /\ signals = 0 /\ ~mainErr /\ option.server # "failing"
         /\ \A w \in Workers : ~err[w] /\ (Forked => hand[w] = Stop)

(* A run that ended without an error or a signal has done its work on      *)
(* every metatile, whichever worker took it and however many threads ended *)
(* early: what was to be seeded or transferred is there and not outdated,  *)
(* what was to be deleted is not, unless a server rendered it again.       *)
EndedMeansDone ==
  main = "ended" /\ Clean =>
    \A m \in Metas :
      CASE Mode = "seed" -> Cached(m) /\ (option.ageLimit => source[m].first = "new")
        [] Mode = "transfer" -> Cached(m) => target[m] = Whole("new") \/ option.ageLimit
        [] Mode = "delete" -> \/ source[m] = Empty \/ option.force
                              \/ /\ option.ageLimit \/ option.server # "no"
                                 /\ source[m].first = "new"

(* A run that was not killed leaves no lock file of its own, whatever      *)
(* failed or was interrupted.                                              *)
NoLocksLeft == main = "ended" => locks = server

(* "waiting for threads to finish" (util/mapcache_seed.c:225): with or     *)
(* without errors, interrupted or not, every run ends.                     *)
RunEnds == <>~Running
=============================================================================
