---------------------------- MODULE SeederProofs ----------------------------
(* What holds of Seeder for all walks over metatiles, all command lines    *)
(* and all failures.                                                       *)
EXTENDS Seeder, FunctionTheorems, FiniteSetTheorems, SequenceTheorems, TLAPS

(* The command line does not change, and with it what main starts.         *)
LEMMA OptionStays == [Next]_vars => option' = option
BY DEF Next, vars, mainVars, MainStep, WorkerStep, DrainQueue, Recurse, PushCommand, WalkDone,
       PushStop, Join, TakeCommand, WaitForCommand, WakeToNothing, LockMetatile, WaitForMetatile,
       MetatileUnlocked, RenderMetatile, DeleteMetatile, TransferMetatile, TransferWithoutData,
       CommandDone, Interrupt, Terminate, ServerLocks, ServerUnlocks, Over

LEMMA Rigid ==
  ASSUME option' = option
  PROVE  /\ Mode' = Mode /\ Forked' = Forked /\ Capacity' = Capacity /\ Workers' = Workers
         /\ StopCount' = StopCount /\ Commands' = Commands
BY DEF Mode, Forked, Capacity, Workers, StopCount, Commands

(* There is at least one STOP for every worker.                            *)
LEMMA Started ==
  ASSUME option \in Options
  PROVE  /\ Mode \in {"seed", "delete", "transfer"}
         /\ Capacity \in Nat /\ StopCount \in Nat /\ Capacity <= StopCount
BY OptionAssumption DEF Mode, Capacity, StopCount, Forked

(* A command that is not a STOP names a metatile.                          *)
LEMMA CommandTypes ==
  ASSUME NEW c \in Commands
  PROVE  /\ c = Stop \/ (c.command = Mode /\ c.meta \in Metas)
         /\ Stop \in Commands
BY DEF Commands

LEMMA CacheTypes ==
  ASSUME NEW cache \in [Metas -> Contents], NEW m \in Metas, NEW age \in Ages
  PROVE  /\ [cache EXCEPT ![m] = Empty] \in [Metas -> Contents]
         /\ [cache EXCEPT ![m] = Whole(age)] \in [Metas -> Contents]
         /\ [cache EXCEPT ![m].first = age] \in [Metas -> Contents]
<1>1. Empty \in Contents /\ Whole(age) \in Contents
  BY DEF Contents, Ages, Empty, Whole
<1>2. [cache[m] EXCEPT !.first = age] \in Contents
  BY cache[m] \in Contents DEF Contents
<1>3. QED
  BY <1>1, <1>2

(* A push puts a command into the queue and wakes at most one thread.      *)
LEMMA PushTypes ==
  ASSUME TypeOK, NEW c \in Commands, PushQueue(c)
  PROVE  /\ queue' \in Seq(Commands) /\ Len(queue') <= Capacity
         /\ worker' \in [Workers -> {"pop", "waiting", "woken", "work", "render", "wait", "gone"}]
         /\ \A w \in Workers : \/ worker'[w] = worker[w]
                               \/ worker[w] = "waiting" /\ worker'[w] = "woken"
<1>1. queue' \in Seq(Commands) /\ Len(queue') = Len(queue) + 1
  BY DEF TypeOK, PushQueue
<1>2. Len(queue) < Capacity /\ Len(queue) \in Nat /\ Capacity \in Nat
  BY Started DEF TypeOK, PushQueue
<1>3. Len(queue') <= Capacity
  BY <1>1, <1>2
<1>4. CASE \A w \in Workers : worker[w] # "waiting"
  BY <1>1, <1>3, <1>4 DEF TypeOK, PushQueue
<1>5. CASE \E w \in Workers : /\ worker[w] = "waiting"
                              /\ worker' = [worker EXCEPT ![w] = "woken"]
  BY <1>1, <1>3, <1>5 DEF TypeOK
<1>6. QED
  BY <1>4, <1>5 DEF PushQueue

-----------------------------------------------------------------------------
(* A worker's command is not a STOP while it works; a metatile that a      *)
(* worker renders is locked, and neither the server nor another worker     *)
(* renders it.                                                             *)
HandOK ==
  \A w \in Workers : worker[w] \in {"work", "wait", "render"} => hand[w] # Stop
RenderOK ==
  /\ \A w \in Workers : worker[w] = "render" => hand[w].meta \in locks \ server
  /\ \A v, w \in Workers : worker[v] = "render" /\ worker[w] = "render" /\ v # w
                            => hand[v].meta # hand[w].meta

TInv == TypeOK /\ HandOK /\ RenderOK

LEMMA TypeInit == Init => TInv
<1> SUFFICES ASSUME Init PROVE TInv
  OBVIOUS
<1>1. Stop \in Commands
  BY DEF Commands
<1>2. source \in [Metas -> Contents] /\ target \in [Metas -> Contents]
  <2>1. {Empty, Whole("old"), Whole("new")} \subseteq Contents
    BY DEF Contents, Ages, Empty, Whole
  <2>2. Found \subseteq [Metas -> Contents]
    BY <2>1, FoundAssumption
  <2>3. QED
    BY <2>2 DEF Init
<1>3. todo \in Seq(Metas)
  BY WalkAssumption DEF Init
<1>4. queue \in Seq(Commands) /\ Len(queue) <= Capacity
  BY Started DEF Init
<1>5. stops \in 0 .. StopCount
  BY Started DEF Init
<1>6. /\ err \in [Workers -> BOOLEAN]
      /\ {mainErr, detected} \subseteq BOOLEAN
  BY DEF Init
<1>7. /\ worker \in [Workers -> {"pop", "waiting", "woken", "work", "render", "wait", "gone"}]
      /\ hand \in [Workers -> Commands]
  BY <1>1 DEF Init
<1>8. TypeOK
  BY <1>1, <1>2, <1>3, <1>4, <1>5, <1>6, <1>7 DEF Init, TypeOK
<1>9. QED
  BY <1>8 DEF Init, TInv, HandOK, RenderOK

LEMMA TypeMain == TInv /\ MainStep => TInv'
<1> SUFFICES ASSUME TInv, MainStep PROVE TInv'
  OBVIOUS
<1> USE DEF TInv
<1>1. option' = option
  BY DEF MainStep, DrainQueue, Recurse, PushCommand, WalkDone, PushStop, Join
<1>2. /\ Mode' = Mode /\ Forked' = Forked /\ Capacity' = Capacity /\ Workers' = Workers
      /\ StopCount' = StopCount /\ Commands' = Commands
  BY <1>1, Rigid
<1>3. Capacity \in Nat /\ StopCount \in Nat
  BY Started DEF TypeOK
<1>4. CASE DrainQueue
  <2>1. todo' \in Seq(Metas)
    BY <1>4 DEF DrainQueue, TypeOK
  <2>2. queue' \in Seq(Commands)' /\ Len(queue') <= Capacity'
    BY <1>4, <1>2, <1>3 DEF DrainQueue
  <2>3. QED
    BY <1>2, <1>4, <2>1, <2>2 DEF DrainQueue, TypeOK, HandOK, RenderOK, workerVars, caches
<1>5. CASE Recurse
  <2> DEFINE m == Head(todo)
  <2>1. m \in Metas /\ todo' \in Seq(Metas)
    BY <1>5, WalkAssumption DEF Recurse, TypeOK
  <2>2. /\ source' \in [Metas -> Contents] /\ target' \in [Metas -> Contents]
        /\ mainErr' \in BOOLEAN
    <3>1. CASE DropOutdated(m)
      <4>1. /\ [target EXCEPT ![m].first = "none"] \in [Metas -> Contents]
            /\ source \in [Metas -> Contents] /\ target \in [Metas -> Contents]
            /\ [source EXCEPT ![m] = Empty] \in [Metas -> Contents]
            /\ [source EXCEPT ![m].first = "none"] \in [Metas -> Contents]
            /\ [target EXCEPT ![m] = Empty] \in [Metas -> Contents]
        BY <2>1, CacheTypes DEF Ages, TypeOK
      <4> HIDE DEF m
      <4>2. source' \in [Metas -> Contents] /\ target' \in [Metas -> Contents]
        <5>1. \/ source' = source
              \/ source' = [source EXCEPT ![m] = Empty]
              \/ source' = [source EXCEPT ![m].first = "none"]
          BY <3>1, Zenon DEF DropOutdated
        <5>2. \/ target' = target
              \/ target' = [target EXCEPT ![m] = Empty]
              \/ target' = [target EXCEPT ![m].first = "none"]
          BY <3>1, Zenon DEF DropOutdated
        <5>3. QED
          BY <4>1, <5>1, <5>2, Zenon
      <4>3. mainErr' = mainErr \/ mainErr' = TRUE
        BY <3>1 DEF DropOutdated
      <4>4. QED
        BY <4>2, <4>3 DEF TypeOK
    <3>2. CASE UNCHANGED <<caches, mainErr>>
      BY <3>2 DEF TypeOK, caches
    <3>3. CASE ExamineFails(m)
      BY <3>3 DEF TypeOK, caches, ExamineFails
    <3>4. QED
      BY <1>5, <3>1, <3>2, <3>3 DEF Recurse, Examine
  <2>3. pending' \in Commands /\ main' \in {"walk", "push", "stop", "ended", "killed"}
    BY <1>5, <2>1 DEF Recurse, Examine, ExamineFails, TypeOK, Commands
  <2>4. QED
    BY <1>2, <1>5, <2>1, <2>2, <2>3 DEF Recurse, TypeOK, HandOK, RenderOK, workerVars
<1>6. CASE PushCommand
  <2>1. PushQueue(pending) /\ pending \in Commands
    BY <1>6 DEF PushCommand, TypeOK
  <2>2. QED
    BY <1>2, <1>6, <2>1, PushTypes DEF PushCommand, TypeOK, HandOK, RenderOK, caches
<1>7. CASE WalkDone
  BY <1>2, <1>7 DEF WalkDone, TypeOK, HandOK, RenderOK, workerVars, caches
<1>8. CASE PushStop
  <2>1. PushQueue(Stop) /\ Stop \in Commands
    BY <1>8 DEF PushStop, Commands
  <2>2. stops' \in 0 .. StopCount
    BY <1>3, <1>8 DEF PushStop, TypeOK
  <2>3. QED
    BY <1>2, <1>8, <2>1, <2>2, PushTypes DEF PushStop, TypeOK, HandOK, RenderOK, caches
<1>9. CASE Join
  BY <1>2, <1>9 DEF Join, TypeOK, HandOK, RenderOK, workerVars, caches
<1>10. QED
  BY <1>4, <1>5, <1>6, <1>7, <1>8, <1>9 DEF MainStep

(* The end of a command, and of a worker.                                  *)
LEMMA CommandDoneTypes ==
  ASSUME TypeOK, NEW w \in Workers, err' \in [Workers -> BOOLEAN], CommandDone(w)
  PROVE  /\ worker' = [worker EXCEPT ![w] = "pop"]
         /\ detected' \in BOOLEAN
         /\ UNCHANGED <<mainVars, queue, hand, signals, server>>
<1>1. (err'[w] /\ ~Forked) \in BOOLEAN
  BY DEF Forked
<1>2. QED
  BY <1>1 DEF CommandDone, TypeOK

LEMMA TypeQueueSteps ==
  ASSUME TInv, NEW w \in Workers, TakeCommand(w) \/ WaitForCommand(w) \/ WakeToNothing(w)
  PROVE  TInv'
<1> USE DEF TInv, mainVars, caches
<1>1. /\ option' = option /\ Mode' = Mode /\ Forked' = Forked /\ Capacity' = Capacity
      /\ Workers' = Workers /\ StopCount' = StopCount /\ Commands' = Commands
  BY Rigid DEF TakeCommand, WaitForCommand, WakeToNothing
<1>2. CASE TakeCommand(w)
  <2>1. /\ queue' \in Seq(Commands) /\ Len(queue') <= Capacity
        /\ Head(queue) \in Commands
    BY <1>2, Started DEF TakeCommand, TypeOK
  <2>2. HandOK'
    BY <1>1, <1>2 DEF TakeCommand, TypeOK, HandOK
  <2>3. RenderOK'
    BY <1>1, <1>2 DEF TakeCommand, TypeOK, RenderOK
  <2>4. QED
    BY <1>1, <1>2, <2>1, <2>2, <2>3 DEF TakeCommand, TypeOK
<1>3. CASE WaitForCommand(w) \/ WakeToNothing(w)
  <2>1. HandOK' /\ RenderOK'
    BY <1>1, <1>3 DEF WaitForCommand, WakeToNothing, TypeOK, HandOK, RenderOK
  <2>2. QED
    BY <1>1, <1>3, <2>1 DEF WaitForCommand, WakeToNothing, TypeOK
<1>4. QED
  BY <1>2, <1>3

(* A worker that is done with its command, whatever it did to the caches   *)
(* and to the lock of its metatile.                                        *)
LEMMA TypeCommandDone ==
  ASSUME TInv, NEW w \in Workers, CommandDone(w),
         err' \in [Workers -> BOOLEAN],
         source' \in [Metas -> Contents], target' \in [Metas -> Contents],
         \/ locks' = locks
         \/ worker[w] = "render" /\ locks' = locks \ {hand[w].meta}
  PROVE  TInv'
<1> USE DEF TInv
<1>1. /\ worker' = [worker EXCEPT ![w] = "pop"]
      /\ detected' \in BOOLEAN
      /\ UNCHANGED <<option, main, todo, pending, stops, mainErr, queue, hand, signals, server>>
  BY CommandDoneTypes DEF mainVars
<1>2. /\ Mode' = Mode /\ Forked' = Forked /\ Capacity' = Capacity
      /\ Workers' = Workers /\ StopCount' = StopCount /\ Commands' = Commands
  BY <1>1, Rigid
<1>3. server' \subseteq locks' /\ locks' \subseteq Metas
  BY <1>1 DEF TypeOK, RenderOK
<1>4. HandOK' /\ RenderOK'
  BY <1>1, <1>2 DEF TypeOK, HandOK, RenderOK
<1>5. {mainErr', detected'} \subseteq BOOLEAN
  BY <1>1 DEF TypeOK
<1>6. QED
  BY <1>1, <1>2, <1>3, <1>4, <1>5 DEF TypeOK

(* The steps of a worker on a command name the metatile of its command.    *)
LEMMA WorkersMetatile ==
  ASSUME TInv, NEW w \in Workers,
         worker[w] \in {"wait", "render"} \/ \E c \in {"seed", "delete", "transfer"} : Working(w, c)
  PROVE  hand[w].meta \in Metas /\ hand[w] # Stop
<1>1. hand[w] \in Commands /\ hand[w] # Stop
  BY DEF TInv, TypeOK, HandOK, Working
<1>2. QED
  BY <1>1, CommandTypes

LEMMA TypeLockSteps ==
  ASSUME TInv, NEW w \in Workers, LockMetatile(w) \/ WaitForMetatile(w) \/ MetatileUnlocked(w)
  PROVE  TInv'
<1> USE DEF TInv
<1>1. CASE LockMetatile(w)
  <2>1. /\ option' = option /\ Mode' = Mode /\ Forked' = Forked /\ Capacity' = Capacity
        /\ Workers' = Workers /\ StopCount' = StopCount /\ Commands' = Commands
    BY <1>1, Rigid DEF LockMetatile, mainVars
  <2>2. hand[w].meta \in Metas /\ hand[w] # Stop /\ hand[w].meta \notin locks
    BY <1>1, WorkersMetatile DEF LockMetatile
  <2>3. worker' = [worker EXCEPT ![w] = "render"] /\ locks' = locks \union {hand[w].meta}
    BY <1>1 DEF LockMetatile
  <2>4. HandOK' /\ RenderOK'
    BY <1>1, <2>1, <2>2, <2>3 DEF LockMetatile, TypeOK, HandOK, RenderOK
  <2>5. QED
    BY <1>1, <2>1, <2>2, <2>3, <2>4 DEF LockMetatile, TypeOK, mainVars, caches
<1>2. CASE WaitForMetatile(w)
  <2>1. /\ option' = option /\ Mode' = Mode /\ Forked' = Forked /\ Capacity' = Capacity
        /\ Workers' = Workers /\ StopCount' = StopCount /\ Commands' = Commands
    BY <1>2, Rigid DEF WaitForMetatile, mainVars
  <2>2. hand[w] # Stop
    BY <1>2, WorkersMetatile DEF WaitForMetatile
  <2>3. HandOK' /\ RenderOK'
    BY <1>2, <2>1, <2>2 DEF WaitForMetatile, TypeOK, HandOK, RenderOK
  <2>4. QED
    BY <1>2, <2>1, <2>3 DEF WaitForMetatile, TypeOK, mainVars, caches
<1>3. CASE MetatileUnlocked(w)
  BY <1>3, TypeCommandDone DEF MetatileUnlocked, TypeOK, caches
<1>4. QED
  BY <1>1, <1>2, <1>3

LEMMA TypeRender ==
  ASSUME TInv, NEW w \in Workers, RenderMetatile(w)
  PROVE  TInv'
<1> DEFINE m == hand[w].meta
<1>1. m \in Metas
  BY WorkersMetatile DEF RenderMetatile
<1>2. /\ source \in [Metas -> Contents] /\ target \in [Metas -> Contents]
      /\ [source EXCEPT ![m] = Whole("new")] \in [Metas -> Contents]
      /\ [source EXCEPT ![m].first = "new"] \in [Metas -> Contents]
  BY <1>1, CacheTypes DEF Ages, TInv, TypeOK
<1>3. \/ source' = source
      \/ source' = [source EXCEPT ![m] = Whole("new")]
      \/ source' = [source EXCEPT ![m].first = "new"]
  BY Zenon DEF RenderMetatile
<1>4. err' = err \/ err' = [err EXCEPT ![w] = TRUE]
  BY Zenon DEF RenderMetatile
<1>5. source' \in [Metas -> Contents] /\ target' \in [Metas -> Contents]
  BY <1>2, <1>3, Zenon DEF RenderMetatile
<1>6. err' \in [Workers -> BOOLEAN]
  BY <1>4 DEF TInv, TypeOK
<1>7. CommandDone(w) /\ worker[w] = "render" /\ locks' = locks \ {hand[w].meta}
  BY DEF RenderMetatile
<1>8. QED
  BY <1>5, <1>6, <1>7, TypeCommandDone

LEMMA TypeDelete ==
  ASSUME TInv, NEW w \in Workers, DeleteMetatile(w)
  PROVE  TInv'
<1> DEFINE m == hand[w].meta
<1>1. m \in Metas
  BY WorkersMetatile DEF DeleteMetatile
<1>2. /\ source \in [Metas -> Contents] /\ target \in [Metas -> Contents]
      /\ [source EXCEPT ![m] = Empty] \in [Metas -> Contents]
      /\ [source EXCEPT ![m].first = "none"] \in [Metas -> Contents]
  BY <1>1, CacheTypes DEF Ages, TInv, TypeOK
<1>3. \/ source' = source
      \/ source' = [source EXCEPT ![m] = Empty]
      \/ source' = [source EXCEPT ![m].first = "none"]
  BY Zenon DEF DeleteMetatile
<1>4. err' = err \/ err' = [err EXCEPT ![w] = TRUE]
  BY Zenon DEF DeleteMetatile
<1>5. source' \in [Metas -> Contents] /\ target' \in [Metas -> Contents]
  BY <1>2, <1>3, Zenon DEF DeleteMetatile
<1>6. err' \in [Workers -> BOOLEAN]
  BY <1>4 DEF TInv, TypeOK
<1>7. CommandDone(w) /\ locks' = locks
  BY DEF DeleteMetatile
<1>8. QED
  BY <1>5, <1>6, <1>7, TypeCommandDone

LEMMA TypeTransfer ==
  ASSUME TInv, NEW w \in Workers, TransferMetatile(w)
  PROVE  TInv'
<1> DEFINE m == hand[w].meta
<1>1. m \in Metas
  BY WorkersMetatile DEF TransferMetatile
<1>2. /\ source \in [Metas -> Contents] /\ target \in [Metas -> Contents]
      /\ [source EXCEPT ![m].first = "new"] \in [Metas -> Contents]
      /\ [target EXCEPT ![m] = Whole("new")] \in [Metas -> Contents]
      /\ [target EXCEPT ![m].first = "new"] \in [Metas -> Contents]
  BY <1>1, CacheTypes DEF Ages, TInv, TypeOK
<1>3. /\ source' = source \/ source' = [source EXCEPT ![m].first = "new"]
      /\ \/ target' = target
         \/ target' = [target EXCEPT ![m] = Whole("new")]
         \/ target' = [target EXCEPT ![m].first = "new"]
  BY Zenon DEF TransferMetatile, caches
<1>4. err' = err \/ err' = [err EXCEPT ![w] = TRUE]
  BY Zenon DEF TransferMetatile
<1>5. source' \in [Metas -> Contents] /\ target' \in [Metas -> Contents]
  BY <1>2, <1>3, Zenon
<1>6. err' \in [Workers -> BOOLEAN]
  BY <1>4 DEF TInv, TypeOK
<1>7. CommandDone(w) /\ locks' = locks
  BY DEF TransferMetatile
<1>8. QED
  BY <1>5, <1>6, <1>7, TypeCommandDone

(* What ends workers and changes neither commands nor locks.               *)
LEMMA TypeWorkersGone ==
  ASSUME TInv,
         UNCHANGED <<option, todo, pending, mainErr, queue, hand, err, detected, locks, server>>,
         main' \in {"walk", "push", "stop", "ended", "killed"},
         stops' \in 0 .. StopCount, signals' \in 0 .. 2,
         source' \in [Metas -> Contents], target' \in [Metas -> Contents],
         worker' \in [Workers -> {"pop", "waiting", "woken", "work", "render", "wait", "gone"}],
         \A w \in Workers : worker'[w] = worker[w] \/ worker'[w] = "gone"
  PROVE  TInv'
<1>1. /\ Mode' = Mode /\ Forked' = Forked /\ Capacity' = Capacity /\ Workers' = Workers
      /\ StopCount' = StopCount /\ Commands' = Commands
  BY Rigid
<1>2. HandOK' /\ RenderOK'
  BY <1>1 DEF TInv, HandOK, RenderOK
<1>3. QED
  BY <1>1, <1>2 DEF TInv, TypeOK

LEMMA TypeTransferWithoutData ==
  ASSUME TInv, NEW w \in Workers, TransferWithoutData(w)
  PROVE  TInv'
<1> DEFINE m == hand[w].meta
<1>1. m \in Metas
  BY WorkersMetatile DEF TransferWithoutData
<1>2. /\ source \in [Metas -> Contents] /\ target \in [Metas -> Contents]
      /\ [source EXCEPT ![m] = Whole("new")] \in [Metas -> Contents]
      /\ [target EXCEPT ![m].first = "new"] \in [Metas -> Contents]
  BY <1>1, CacheTypes DEF Ages, TInv, TypeOK
<1>3. /\ source' = source \/ source' = [source EXCEPT ![m] = Whole("new")]
      /\ target' = target \/ target' = [target EXCEPT ![m].first = "new"]
  BY Zenon DEF TransferWithoutData
<1>4. source' \in [Metas -> Contents] /\ target' \in [Metas -> Contents]
  BY <1>2, <1>3, Zenon
<1>5. /\ worker' \in [Workers -> {"pop", "waiting", "woken", "work", "render", "wait", "gone"}]
      /\ \A v \in Workers : worker'[v] = worker[v] \/ worker'[v] = "gone"
      /\ main' = main \/ main' = "killed"
  BY DEF TransferWithoutData, TInv, TypeOK
<1>6. QED
  BY <1>4, <1>5, TypeWorkersGone DEF TransferWithoutData, TInv, TypeOK

LEMMA TypeSignal == TInv /\ (Interrupt \/ Terminate) => TInv'
<1> SUFFICES ASSUME TInv, Interrupt \/ Terminate PROVE TInv'
  OBVIOUS
<1>1. /\ worker' \in [Workers -> {"pop", "waiting", "woken", "work", "render", "wait", "gone"}]
      /\ \A v \in Workers : worker'[v] = worker[v] \/ worker'[v] = "gone"
  BY DEF Interrupt, Terminate, TInv, TypeOK
<1>2. stops' \in 0 .. StopCount
  BY Started DEF Interrupt, Terminate, TInv, TypeOK
<1>3. main' \in {"walk", "push", "stop", "ended", "killed"} /\ signals' \in 0 .. 2
  BY DEF Interrupt, Terminate, TInv, TypeOK
<1>4. QED
  BY <1>1, <1>2, <1>3, TypeWorkersGone DEF Interrupt, Terminate, TInv, TypeOK, caches

LEMMA TypeServer ==
  ASSUME TInv, NEW m \in Metas, ServerLocks(m) \/ ServerUnlocks(m)
  PROVE  TInv'
<1>1. /\ UNCHANGED <<option, main, todo, pending, stops, mainErr, queue, worker, hand, err,
                      detected, signals, target>>
  BY DEF ServerLocks, ServerUnlocks, mainVars, workerVars, caches
<1>2. /\ Mode' = Mode /\ Forked' = Forked /\ Capacity' = Capacity /\ Workers' = Workers
      /\ StopCount' = StopCount /\ Commands' = Commands
  BY <1>1, Rigid
<1>3. source' \in [Metas -> Contents]
  <2>1. source \in [Metas -> Contents] /\ [source EXCEPT ![m] = Whole("new")] \in [Metas -> Contents]
    BY CacheTypes DEF TInv, TypeOK, Ages
  <2>2. QED
    BY <2>1 DEF ServerLocks, ServerUnlocks, caches
<1>4. server' \subseteq locks' /\ locks' \subseteq Metas
  BY DEF ServerLocks, ServerUnlocks, TInv, TypeOK
<1>5. HandOK' /\ RenderOK'
  BY <1>1, <1>2 DEF ServerLocks, ServerUnlocks, TInv, HandOK, RenderOK
<1>6. QED
  BY <1>1, <1>2, <1>3, <1>4, <1>5 DEF TInv, TypeOK

LEMMA TypeWorker ==
  ASSUME TInv, NEW w \in Workers, WorkerStep(w)
  PROVE  TInv'
<1>1. CASE TakeCommand(w) \/ WaitForCommand(w) \/ WakeToNothing(w)
  BY <1>1, TypeQueueSteps
<1>2. CASE LockMetatile(w) \/ WaitForMetatile(w) \/ MetatileUnlocked(w)
  BY <1>2, TypeLockSteps
<1>3. CASE RenderMetatile(w)
  BY <1>3, TypeRender
<1>4. CASE DeleteMetatile(w)
  BY <1>4, TypeDelete
<1>5. CASE TransferMetatile(w)
  BY <1>5, TypeTransfer
<1>6. CASE TransferWithoutData(w)
  BY <1>6, TypeTransferWithoutData
<1>7. QED
  BY <1>1, <1>2, <1>3, <1>4, <1>5, <1>6 DEF WorkerStep

LEMMA TypeStutter == TInv /\ UNCHANGED vars => TInv'
BY DEF vars, TInv, TypeOK, HandOK, RenderOK, Mode, Forked, Capacity, Workers, StopCount, Commands

LEMMA TypeNext == TInv /\ [Next]_vars => TInv'
BY TypeMain, TypeWorker, TypeServer, TypeSignal, TypeStutter DEF Next, Over

(* Whatever the command line, the walk, the failures and the signals, the  *)
(* variables keep their types, the queue its bound (push_queue), and the   *)
(* server's lock files are there until it removes them.                    *)
THEOREM TypeCorrect == Spec => []TypeOK
<1>1. Spec => []TInv
  BY TypeInit, TypeNext, PTL DEF Spec
<1>2. TInv => TypeOK
  BY DEF TInv
<1>3. QED
  BY <1>1, <1>2, PTL

-----------------------------------------------------------------------------
(* Counting the STOPs of a queue.                                           *)
StopsIn(q) == {i \in DOMAIN q : q[i] = Stop}

LEMMA StopsFinite ==
  ASSUME NEW q \in Seq(Commands)
  PROVE  /\ StopsIn(q) \subseteq 1 .. Len(q)
         /\ IsFiniteSet(StopsIn(q)) /\ Cardinality(StopsIn(q)) \in Nat
<1>1. StopsIn(q) \in SUBSET (1 .. Len(q)) /\ Len(q) \in Nat
  BY DEF StopsIn
<1>2. IsFiniteSet(1 .. Len(q))
  BY <1>1, FS_Interval
<1>3. QED
  BY <1>1, <1>2, FS_Subset, FS_CardinalityType

LEMMA StopsAppended ==
  ASSUME NEW q \in Seq(Commands)
  PROVE  Cardinality(StopsIn(Append(q, Stop))) = Cardinality(StopsIn(q)) + 1
<1>1. StopsIn(Append(q, Stop)) = StopsIn(q) \cup {Len(q) + 1}
  BY CommandTypes DEF StopsIn, Commands
<1>2. Len(q) + 1 \notin StopsIn(q)
  BY DEF StopsIn
<1>3. QED
  BY <1>1, <1>2, StopsFinite, FS_AddElement

(* The STOPs behind the head move one place forward.                       *)
LEMMA StopsTaken ==
  ASSUME NEW q \in Seq(Commands), q # <<>>
  PROVE  Cardinality(StopsIn(q)) =
           Cardinality(StopsIn(Tail(q))) + (IF Head(q) = Stop THEN 1 ELSE 0)
<1> DEFINE Behind == StopsIn(q) \ {1}
           Move == [i \in StopsIn(Tail(q)) |-> i + 1]
<1>1. /\ Tail(q) \in Seq(Commands) /\ Len(Tail(q)) = Len(q) - 1 /\ Len(q) \in Nat \ {0}
      /\ \A i \in 1 .. Len(Tail(q)) : Tail(q)[i] = q[i + 1]
      /\ Head(q) = q[1]
  BY HeadTailProperties, EmptySeq
<1>2. /\ StopsIn(Tail(q)) = {i \in 1 .. Len(q) - 1 : q[i + 1] = Stop}
      /\ Behind = {i \in 2 .. Len(q) : q[i] = Stop}
  BY <1>1 DEF StopsIn
<1>3. Move \in Bijection(StopsIn(Tail(q)), Behind)
  <2>1. \A i \in StopsIn(Tail(q)) : i \in Int /\ i + 1 \in Behind
    BY <1>1, <1>2
  <2>2. \A j \in Behind : j - 1 \in StopsIn(Tail(q)) /\ (j - 1) + 1 = j
    BY <1>1, <1>2
  <2> HIDE DEF Behind
  <2>3. Move \in [StopsIn(Tail(q)) -> Behind]
    BY <2>1
  <2>4. \A i, j \in StopsIn(Tail(q)) : Move[i] = Move[j] => i = j
    BY <2>1
  <2>5. \A j \in Behind : \E i \in StopsIn(Tail(q)) : Move[i] = j
    BY <2>2
  <2>6. QED
    BY <2>3, <2>4, <2>5, Fun_IsBij
<1>4. Cardinality(Behind) = Cardinality(StopsIn(Tail(q)))
  BY <1>1, <1>3, StopsFinite, FS_Bijection DEF ExistsBijection
<1>5. Cardinality(Behind) = IF 1 \in StopsIn(q) THEN Cardinality(StopsIn(q)) - 1
                                               ELSE Cardinality(StopsIn(q))
  BY StopsFinite, FS_RemoveElement
<1>6. 1 \in StopsIn(q) <=> Head(q) = Stop
  BY <1>1 DEF StopsIn
<1>7. Cardinality(StopsIn(q)) \in Nat /\ Cardinality(StopsIn(Tail(q))) \in Nat
  BY <1>1, StopsFinite
<1>8. QED
  BY <1>4, <1>5, <1>6, <1>7

-----------------------------------------------------------------------------
(* StopsSuffice is inductive once it is said that main pushes no STOP      *)
(* before the walk is done: while main walks, all STOPs are still to come. *)
StopsLater == main \in {"walk", "push"} => stops = 0
SInv == StopsLater /\ StopsSuffice

Enough == Cardinality(Alive) <= Cardinality(QueuedStops) + (StopCount - stops)

LEMMA Counted ==
  ASSUME TypeOK
  PROVE  /\ IsFiniteSet(Alive) /\ Cardinality(Alive) \in Nat /\ Cardinality(Alive) <= StopCount
         /\ QueuedStops = StopsIn(queue) /\ Cardinality(QueuedStops) \in Nat
         /\ StopCount \in Nat /\ stops \in Nat
<1>1. Capacity \in Nat /\ StopCount \in Nat /\ Capacity <= StopCount
  BY Started DEF TypeOK
<1>2. IsFiniteSet(Workers) /\ Cardinality(Workers) = Capacity
  BY <1>1, FS_Interval DEF Workers
<1>3. Alive \in SUBSET Workers
  BY DEF Alive
<1>4. IsFiniteSet(Alive) /\ Cardinality(Alive) <= Capacity /\ Cardinality(Alive) \in Nat
  BY <1>2, <1>3, FS_Subset, FS_CardinalityType
<1>5. QueuedStops = StopsIn(queue) /\ Cardinality(QueuedStops) \in Nat
  BY StopsFinite DEF QueuedStops, StopsIn, TypeOK
<1>6. QED
  BY <1>1, <1>4, <1>5 DEF TypeOK

(* Before the first STOP there are enough to come.                         *)
LEMMA EnoughToCome == TypeOK /\ stops = 0 => Enough
<1> SUFFICES ASSUME TypeOK, stops = 0 PROVE Enough
  OBVIOUS
<1>1. /\ Cardinality(Alive) \in Nat /\ Cardinality(Alive) <= StopCount
      /\ Cardinality(QueuedStops) \in Nat /\ StopCount \in Nat
  BY Counted
<1>2. QED
  BY <1>1 DEF Enough

LEMMA EnoughToComeNext == (TypeOK /\ stops = 0)' => Enough'
BY EnoughToCome, PTL

(* A step that wakes nobody from the dead and leaves the STOPs alone.      *)
LEMMA FewerAlive ==
  ASSUME TypeOK, Enough, UNCHANGED <<option, queue, stops>>,
         \A w \in Workers : worker[w] = "gone" => worker'[w] = "gone"
  PROVE  Enough'
<1>1. Workers' = Workers /\ StopCount' = StopCount /\ QueuedStops' = QueuedStops
  BY Rigid DEF QueuedStops
<1>2. Alive' \in SUBSET Alive
  BY <1>1 DEF Alive
<1>3. /\ Cardinality(Alive') <= Cardinality(Alive)
      /\ Cardinality(Alive') \in Nat /\ Cardinality(Alive) \in Nat
  BY <1>2, Counted, FS_Subset, FS_CardinalityType
<1>4. Cardinality(QueuedStops) \in Nat /\ StopCount \in Nat /\ stops \in Nat
  BY Counted
<1>5. QED
  BY <1>1, <1>3, <1>4 DEF Enough

LEMMA StopsInit == Init => SInv
<1> SUFFICES ASSUME Init PROVE SInv
  OBVIOUS
<1>1. TypeOK
  BY TypeInit DEF TInv
<1>2. stops = 0
  BY DEF Init
<1>3. QED
  BY <1>1, <1>2, EnoughToCome DEF SInv, StopsLater, StopsSuffice, Enough

LEMMA StopsMain ==
  ASSUME TInv, SInv, MainStep
  PROVE  SInv'
<1>1. TypeOK /\ TypeOK'
  BY TypeMain DEF TInv
<1>2. CASE DrainQueue \/ Recurse \/ PushCommand \/ WalkDone
  <2>1. main \in {"walk", "push"} /\ stops' = stops
    BY <1>2 DEF DrainQueue, Recurse, PushCommand, WalkDone
  <2>2. stops' = 0
    BY <2>1 DEF SInv, StopsLater
  <2>3. Enough'
    BY <1>1, <2>2, EnoughToComeNext
  <2>4. QED
    BY <2>2, <2>3 DEF SInv, StopsLater, StopsSuffice, Enough
<1>3. CASE PushStop
  <2>1. /\ option' = option /\ main = "stop" /\ main' = main /\ signals' = signals
        /\ stops' = stops + 1 /\ queue' = Append(queue, Stop)
    BY <1>3 DEF PushStop, PushQueue
  <2>2. /\ Workers' = Workers /\ StopCount' = StopCount /\ Forked' = Forked
    BY <2>1, Rigid
  <2>3. \A w \in Workers : worker[w] = "gone" => worker'[w] = "gone"
    <3>1. PushQueue(Stop) /\ Stop \in Commands
      BY <1>3 DEF PushStop, Commands
    <3>2. QED
      BY <1>1, <3>1, PushTypes
  <2>4. Alive' \in SUBSET Alive
    BY <2>2, <2>3 DEF Alive
  <2>5. /\ Cardinality(Alive') <= Cardinality(Alive)
        /\ Cardinality(Alive') \in Nat /\ Cardinality(Alive) \in Nat
    BY <1>1, <2>4, Counted, FS_Subset, FS_CardinalityType
  <2>6. Cardinality(QueuedStops') = Cardinality(QueuedStops) + 1
    <3>1. QueuedStops = StopsIn(queue) /\ QueuedStops' = StopsIn(queue')
      BY DEF QueuedStops, StopsIn
    <3>2. QED
      BY <1>1, <2>1, <3>1, StopsAppended DEF TypeOK
  <2>7. Cardinality(QueuedStops) \in Nat /\ StopCount \in Nat /\ stops \in Nat
    BY <1>1, Counted
  <2>8. Enough => Enough'
    BY <2>1, <2>2, <2>5, <2>6, <2>7 DEF Enough
  <2>9. QED
    BY <2>1, <2>2, <2>8 DEF SInv, StopsLater, StopsSuffice, Enough, Running
<1>4. CASE Join
  BY <1>4 DEF Join, SInv, StopsLater, StopsSuffice, Running
<1>5. QED
  BY <1>2, <1>3, <1>4 DEF MainStep

LEMMA StopsTake ==
  ASSUME TInv, SInv, NEW w \in Workers, TakeCommand(w)
  PROVE  SInv'
<1>1. /\ UNCHANGED <<option, main, stops, signals>>
      /\ queue # <<>> /\ queue' = Tail(queue) /\ worker[w] # "gone"
      /\ worker' = [worker EXCEPT ![w] = IF Head(queue) = Stop THEN "gone" ELSE "work"]
  BY DEF TakeCommand, mainVars
<1>2. Workers' = Workers /\ StopCount' = StopCount /\ Forked' = Forked
  BY <1>1, Rigid
<1>3. TypeOK
  BY DEF TInv
<1>4. /\ IsFiniteSet(Alive) /\ Cardinality(Alive) \in Nat
      /\ Cardinality(QueuedStops) \in Nat /\ StopCount \in Nat /\ stops \in Nat
  BY <1>3, Counted
<1>5. Alive' = IF Head(queue) = Stop THEN Alive \ {w} ELSE Alive
  BY <1>1, <1>2, <1>3 DEF Alive, TypeOK
<1>6. Cardinality(Alive') = Cardinality(Alive) - (IF Head(queue) = Stop THEN 1 ELSE 0)
  <2>1. w \in Alive
    BY <1>1 DEF Alive
  <2>2. Cardinality(Alive \ {w}) = Cardinality(Alive) - 1
    BY <1>4, <2>1, FS_RemoveElement
  <2>3. CASE Head(queue) = Stop
    BY <1>5, <2>2, <2>3
  <2>4. CASE Head(queue) # Stop
    BY <1>4, <1>5, <2>4
  <2>5. QED
    BY <2>3, <2>4
<1>7. /\ Cardinality(QueuedStops) = Cardinality(QueuedStops') + (IF Head(queue) = Stop THEN 1 ELSE 0)
      /\ Cardinality(QueuedStops') \in Nat
  <2>1. QueuedStops = StopsIn(queue) /\ QueuedStops' = StopsIn(queue')
    BY DEF QueuedStops, StopsIn
  <2>2. queue \in Seq(Commands) /\ Tail(queue) \in Seq(Commands)
    BY <1>1, <1>3 DEF TypeOK
  <2>3. QED
    BY <1>1, <2>1, <2>2, StopsTaken, StopsFinite
<1>8. Enough => Enough'
  BY <1>1, <1>2, <1>4, <1>6, <1>7 DEF Enough
<1>9. QED
  BY <1>1, <1>2, <1>8 DEF SInv, StopsLater, StopsSuffice, Enough, Running

(* The other steps of workers, signals and the server push and take no     *)
(* STOP, but when a signal cuts a push of forked workers short.            *)
LEMMA StopsElsewhere ==
  ASSUME TInv, SInv, UNCHANGED <<option, queue, stops>>,
         \/ main' = "killed"
         \/ main' = main /\ (Forked => signals' = signals \/ signals' = 1),
         \A w \in Workers : worker[w] = "gone" => worker'[w] = "gone"
  PROVE  SInv'
<1>1. Forked' = Forked
  BY Rigid
<1>2. Enough => Enough'
  BY FewerAlive DEF TInv
<1>3. QED
  BY <1>1, <1>2 DEF SInv, StopsLater, StopsSuffice, Enough, Running

LEMMA StopsNext == TInv /\ SInv /\ [Next]_vars => SInv'
<1> SUFFICES ASSUME TInv, SInv, [Next]_vars PROVE SInv'
  OBVIOUS
<1>1. CASE MainStep
  BY <1>1, StopsMain
<1>2. ASSUME NEW w \in Workers, WorkerStep(w) PROVE SInv'
  <2>1. CASE TakeCommand(w)
    BY <2>1, StopsTake
  <2>2. CASE ~TakeCommand(w)
    <3>1. /\ UNCHANGED <<option, queue, stops, signals>>
          /\ main' = main \/ main' = "killed"
      BY <1>2, <2>2 DEF WorkerStep, WaitForCommand, WakeToNothing, LockMetatile, WaitForMetatile,
            MetatileUnlocked, RenderMetatile, DeleteMetatile, TransferMetatile,
            TransferWithoutData, CommandDone, mainVars
    <3>2. \A v \in Workers : worker[v] = "gone" => worker'[v] = "gone"
      BY <1>2, <2>2 DEF TInv, TypeOK, WorkerStep, WaitForCommand, WakeToNothing, LockMetatile,
            WaitForMetatile, MetatileUnlocked, RenderMetatile, DeleteMetatile, TransferMetatile,
            TransferWithoutData, CommandDone, Working
    <3>3. QED
      BY <3>1, <3>2, StopsElsewhere
  <2>3. QED
    BY <2>1, <2>2
<1>3. ASSUME NEW m \in Metas, ServerLocks(m) \/ ServerUnlocks(m) PROVE SInv'
  BY <1>3, StopsElsewhere DEF ServerLocks, ServerUnlocks, mainVars, workerVars
<1>4. CASE Interrupt /\ Forked
  <2>1. option' = option /\ signals' = 1 /\ (main = "stop" \/ stops' = stops)
        /\ (main' = main \/ main = "push")
    BY <1>4 DEF Interrupt
  <2>2. Forked' /\ signals' # 0
    BY <1>4, <2>1, Rigid
  <2>3. StopsLater'
    BY <2>1 DEF SInv, StopsLater
  <2>4. QED
    BY <2>2, <2>3 DEF SInv, StopsSuffice
<1>5. CASE Interrupt /\ ~Forked
  <2>1. UNCHANGED <<option, queue, stops, main>>
    BY <1>5 DEF Interrupt
  <2>2. \A v \in Workers : worker[v] = "gone" => worker'[v] = "gone"
    BY <1>5 DEF Interrupt
  <2>3. QED
    BY <1>5, <2>1, <2>2, StopsElsewhere
<1>6. CASE Terminate
  BY <1>6, StopsElsewhere DEF Terminate
<1>7. CASE UNCHANGED vars
  BY <1>7, StopsElsewhere DEF vars
<1>8. QED
  BY <1>1, <1>2, <1>3, <1>4, <1>5, <1>6, <1>7 DEF Next, Over

(* Whatever ended workers early, there is a STOP in the queue, or to come, *)
(* for each one that is left: threads that woke to nothing, processes that *)
(* died and commands that failed take none away (cmd_worker, pop_queue).   *)
THEOREM StopsEnough == Spec => []StopsSuffice
<1>1. Init => TInv /\ SInv
  BY TypeInit, StopsInit
<1>2. TInv /\ SInv /\ [Next]_vars => (TInv /\ SInv)'
  BY TypeNext, StopsNext
<1>3. TInv /\ SInv => StopsSuffice
  BY DEF SInv
<1>4. QED
  BY <1>1, <1>2, <1>3, PTL DEF Spec

-----------------------------------------------------------------------------
(* NoLocksLeft is not inductive: it says nothing before the end. Until     *)
(* then each lock file of the run has a worker that renders, and main ends *)
(* after its workers.                                                      *)
LocksOwned ==
  main # "killed" =>
    \A m \in locks \ server : \E w \in Workers : worker[w] = "render" /\ hand[w].meta = m
EndedLast == main = "ended" => \A w \in Workers : worker[w] = "gone"
LInv == LocksOwned /\ EndedLast

LEMMA LocksInit == Init => LInv
BY DEF Init, LInv, LocksOwned, EndedLast

(* A step that leaves the locks and the renderers alone, or kills the run. *)
LEMMA LocksElsewhere ==
  ASSUME LInv, UNCHANGED <<option, locks, server>>,
         main' = main \/ main' \in {"walk", "push", "stop", "killed"},
         main = "killed" => main' = "killed",
         main' # "killed" =>
           \A w \in Workers : worker[w] = "render" => worker'[w] = "render" /\ hand'[w] = hand[w],
         \A w \in Workers : worker[w] = "gone" => worker'[w] = "gone"
  PROVE  LInv'
<1>1. Workers' = Workers
  BY Rigid
<1>2. LocksOwned'
  BY <1>1 DEF LInv, LocksOwned
<1>3. EndedLast'
  BY <1>1 DEF LInv, EndedLast
<1>4. QED
  BY <1>2, <1>3 DEF LInv

LEMMA LocksMain ==
  ASSUME TInv, LInv, MainStep
  PROVE  LInv'
<1>1. option' = option /\ main # "killed" /\ locks' = locks /\ server' = server
  BY OptionStays DEF MainStep, Next, DrainQueue, Recurse, PushCommand, WalkDone, PushStop, Join
<1>2. hand' = hand
  BY DEF MainStep, DrainQueue, Recurse, PushCommand, WalkDone, PushStop, Join, workerVars
<1>3. CASE Join
  BY <1>1, <1>2, <1>3, Rigid DEF Join, workerVars, LInv, LocksOwned, EndedLast
<1>4. CASE ~Join
  <2>1. main' \in {"walk", "push", "stop"}
    BY <1>4 DEF MainStep, DrainQueue, Recurse, Examine, ExamineFails, PushCommand, WalkDone, PushStop, TInv, TypeOK
  <2>2. worker' = worker \/ PushQueue(pending) \/ PushQueue(Stop)
    BY <1>4 DEF MainStep, DrainQueue, Recurse, PushCommand, WalkDone, PushStop, workerVars
  <2>3. \A w \in Workers : worker[w] \in {"render", "gone"} => worker'[w] = worker[w]
    BY <2>2 DEF PushQueue, TInv, TypeOK
  <2>4. QED
    BY <1>1, <1>2, <2>1, <2>3, LocksElsewhere
<1>5. QED
  BY <1>3, <1>4

LEMMA LocksWorker ==
  ASSUME TInv, LInv, NEW w \in Workers, WorkerStep(w)
  PROVE  LInv'
<1>1. option' = option /\ Workers' = Workers
  BY OptionStays, Rigid DEF Next
<1>2. worker[w] # "gone" /\ main # "ended"
  BY DEF WorkerStep, TakeCommand, WaitForCommand, WakeToNothing, LockMetatile, WaitForMetatile,
         MetatileUnlocked, RenderMetatile, DeleteMetatile, TransferMetatile,
         TransferWithoutData, Working, LInv, EndedLast
<1>3. CASE LockMetatile(w)
  <2>1. /\ main' = main /\ hand' = hand /\ server' = server
        /\ locks' = locks \union {hand[w].meta}
        /\ worker' = [worker EXCEPT ![w] = "render"]
    BY <1>3 DEF LockMetatile, mainVars
  <2>2. /\ worker'[w] = "render"
        /\ \A v \in Workers : worker[v] = "render" => worker'[v] = "render"
    BY <2>1 DEF TInv, TypeOK
  <2>3. QED
    BY <1>1, <1>2, <2>1, <2>2 DEF LInv, LocksOwned, EndedLast
<1>4. CASE RenderMetatile(w)
  <2>1. /\ main' = main /\ hand' = hand /\ server' = server
        /\ locks' = locks \ {hand[w].meta}
        /\ worker' = [worker EXCEPT ![w] = "pop"]
    BY <1>4 DEF RenderMetatile, CommandDone, mainVars
  <2>2. \A v \in Workers : worker[v] = "render" /\ hand[v].meta # hand[w].meta
                             => worker'[v] = "render"
    BY <2>1 DEF TInv, TypeOK
  <2>3. QED
    BY <1>1, <1>2, <2>1, <2>2 DEF LInv, LocksOwned, EndedLast
<1>5. CASE ~LockMetatile(w) /\ ~RenderMetatile(w)
  <2>1. UNCHANGED <<locks, server>> /\ main' \in {main, "killed"}
    BY <1>5 DEF WorkerStep, TakeCommand, WaitForCommand, WakeToNothing, WaitForMetatile,
           MetatileUnlocked, DeleteMetatile, TransferMetatile, TransferWithoutData,
           CommandDone, mainVars
  <2>2. /\ worker[w] # "render"
        /\ main' # "killed" =>
             \A v \in Workers \ {w} : worker'[v] = worker[v] /\ hand'[v] = hand[v]
    BY <1>5 DEF WorkerStep, TakeCommand, WaitForCommand, WakeToNothing, WaitForMetatile,
           MetatileUnlocked, DeleteMetatile, TransferMetatile, TransferWithoutData,
           CommandDone, mainVars, Working, TInv, TypeOK
  <2>3. LocksOwned'
    BY <1>1, <2>1, <2>2 DEF LInv, LocksOwned
  <2>4. EndedLast'
    BY <1>2, <2>1 DEF EndedLast
  <2>5. QED
    BY <2>3, <2>4 DEF LInv
<1>6. QED
  BY <1>3, <1>4, <1>5

LEMMA LocksNext == TInv /\ LInv /\ [Next]_vars => LInv'
<1> SUFFICES ASSUME TInv, LInv, [Next]_vars PROVE LInv'
  OBVIOUS
<1>1. CASE MainStep
  BY <1>1, LocksMain
<1>2. ASSUME NEW w \in Workers, WorkerStep(w) PROVE LInv'
  BY <1>2, LocksWorker
<1>3. ASSUME NEW m \in Metas, ServerLocks(m) \/ ServerUnlocks(m) PROVE LInv'
  <2>1. UNCHANGED <<option, main, worker, hand>> /\ locks' \ server' \subseteq locks \ server
    BY <1>3 DEF ServerLocks, ServerUnlocks, mainVars, workerVars
  <2>2. QED
    BY <2>1, Rigid DEF LInv, LocksOwned, EndedLast
<1>4. CASE Interrupt
  <2>1. /\ UNCHANGED <<option, locks, server, hand>> /\ Running
        /\ main' = main \/ main' = "walk"
        /\ \A w \in Workers : worker[w] \in {"render", "gone"} => worker'[w] = worker[w]
    BY <1>4 DEF Interrupt
  <2>2. QED
    BY <2>1, LocksElsewhere DEF Running
<1>5. CASE Terminate
  BY <1>5, LocksElsewhere DEF Terminate
<1>6. CASE UNCHANGED vars
  BY <1>6, LocksElsewhere DEF vars
<1>7. QED
  BY <1>1, <1>2, <1>3, <1>4, <1>5, <1>6 DEF Next, Over

(* A run that was not killed leaves no lock file of its own behind,        *)
(* whatever failed or was interrupted (mapcache_tileset_tile_get releases  *)
(* its lock on every path after it took it; cmd_worker joins every worker).*)
THEOREM LocksReleased == Spec => []NoLocksLeft
<1>1. Init => TInv /\ LInv
  BY TypeInit, LocksInit
<1>2. TInv /\ LInv /\ [Next]_vars => (TInv /\ LInv)'
  BY TypeNext, LocksNext
<1>3. TInv /\ LInv => NoLocksLeft
  BY DEF TInv, TypeOK, LInv, LocksOwned, EndedLast, NoLocksLeft
<1>4. QED
  BY <1>1, <1>2, <1>3, PTL DEF Spec

-----------------------------------------------------------------------------
(* A run that ended without an error or a signal. Nothing that went wrong  *)
(* is mended: a process that died (TransferWithoutData) keeps its command. *)
Died(w) == Forked /\ worker[w] = "gone" /\ hand[w] # Stop
Quiet ==
  /\ main # "killed" /\ signals = 0 /\ ~mainErr /\ option.server # "failing"
  /\ \A w \in Workers : ~err[w] /\ ~Died(w)

(* The phases of main, and the threads that wait for commands.             *)
FlowInv ==
  /\ main = "push" => pending # Stop
  /\ main \in {"stop", "ended"} => todo = <<>>
  /\ main = "ended" => stops = StopCount
  /\ stops > 0 => Capacity > 0
  /\ detected => \E w \in Workers : err[w]
  /\ Forked => \A w \in Workers : worker[w] \notin {"waiting", "woken"}
  /\ \A w \in Workers : worker[w] \in {"wait", "render"} => Mode = "seed"
  /\ option.server = "no" => server = {}

(* What a step of a worker leaves to the others, and what never goes away. *)
LEMMA WorkerFrame ==
  ASSUME TInv, NEW w \in Workers, WorkerStep(w)
  PROVE  /\ UNCHANGED <<option, todo, pending, stops, mainErr, signals>>
         /\ main' = main \/ main' = "killed"
         /\ server' = server
         /\ \A v \in Workers : err[v] => err'[v]
         /\ \A v \in Workers : worker[v] = "gone" => worker'[v] = "gone" /\ hand'[v] = hand[v]
         /\ detected' => detected \/ \E v \in Workers : err'[v]
         /\ ~Forked \/ \A v \in Workers : worker'[v] \in {"waiting", "woken"} => worker'[v] = worker[v]
         /\ \A v \in Workers : worker'[v] \in {"wait", "render"} => worker'[v] = worker[v] \/ Mode = "seed"
<1> USE DEF mainVars, TInv, TypeOK
<1>1. CASE TakeCommand(w) \/ WaitForCommand(w) \/ WakeToNothing(w) \/ LockMetatile(w)
           \/ WaitForMetatile(w)
  <2>1. LockMetatile(w) \/ WaitForMetatile(w) => Mode = "seed"
    <3>1. ASSUME Working(w, "seed") PROVE Mode = "seed"
      <4>1. hand[w] \in Commands /\ hand[w] # Stop /\ hand[w].command = "seed"
        BY <3>1, WorkersMetatile DEF Working
      <4>2. QED
        BY <4>1, CommandTypes
    <3>2. QED
      BY <3>1 DEF LockMetatile, WaitForMetatile
  <2>2. QED
    BY <1>1, <2>1 DEF TakeCommand, WaitForCommand, WakeToNothing, LockMetatile, WaitForMetatile, Working
<1>2. CASE MetatileUnlocked(w) \/ RenderMetatile(w) \/ DeleteMetatile(w) \/ TransferMetatile(w)
  <2>1. worker[w] # "gone" /\ CommandDone(w) /\ option' = option
    BY <1>2, OptionStays DEF MetatileUnlocked, RenderMetatile, DeleteMetatile, TransferMetatile, Working,
       WorkerStep, Next
  <2>2. err' = err \/ err' = [err EXCEPT ![w] = TRUE]
    BY <1>2, Zenon DEF MetatileUnlocked, RenderMetatile, DeleteMetatile, TransferMetatile
  <2>3. /\ worker' = [worker EXCEPT ![w] = "pop"] /\ detected' = (detected \/ (err'[w] /\ ~Forked))
        /\ UNCHANGED <<main, todo, pending, stops, mainErr, signals, hand, server>>
    BY <2>1 DEF CommandDone
  <2>4. \A v \in Workers : err[v] => err'[v]
    BY <2>2
  <2>5. QED
    BY <2>1, <2>3, <2>4
<1>3. CASE TransferWithoutData(w)
  <2>1. \A v \in Workers : worker[v] = "gone" => worker'[v] = "gone"
    BY <1>3 DEF TransferWithoutData
  <2>2. \A v \in Workers : worker'[v] # "gone" => worker'[v] = worker[v]
    BY <1>3 DEF TransferWithoutData
  <2>3. QED
    BY <1>3, <2>1, <2>2 DEF TransferWithoutData
<1>4. QED
  BY <1>1, <1>2, <1>3 DEF WorkerStep

LEMMA FlowInit == Init => FlowInv
BY DEF Init, FlowInv

LEMMA FlowStep == TInv /\ FlowInv /\ [Next]_vars => FlowInv'
<1> SUFFICES ASSUME TInv, FlowInv, [Next]_vars PROVE FlowInv'
  OBVIOUS
<1>1. /\ option' = option /\ Mode' = Mode /\ Forked' = Forked /\ Capacity' = Capacity
      /\ Workers' = Workers /\ StopCount' = StopCount
  BY OptionStays, Rigid
<1>2. /\ Capacity \in Nat /\ Len(queue) \in Nat /\ stops \in Nat /\ Mode \in {"seed", "delete", "transfer"}
  BY Started DEF TInv, TypeOK
<1>3. CASE Recurse
  <2>1. \A m \in Metas : [command |-> Mode, meta |-> m] # Stop
    BY <1>2 DEF Stop
  <2>2. main' = "push" => pending' # Stop
    <3>1. Head(todo) \in Metas
      BY <1>3 DEF Recurse, TInv, TypeOK
    <3>2. QED
      BY <1>3, <2>1, <3>1 DEF Recurse, Examine, ExamineFails
  <2>3. main' \in {"walk", "push"} /\ UNCHANGED <<stops, detected, err, worker, server>>
    BY <1>3 DEF Recurse, Examine, ExamineFails, workerVars
  <2>4. QED
    BY <1>1, <2>2, <2>3 DEF FlowInv
<1>4. CASE PushCommand \/ PushStop
  <2>1. \A w \in Workers : /\ worker'[w] \in {"waiting", "woken"} => worker[w] \in {"waiting", "woken"}
                           /\ worker'[w] \in {"wait", "render"} => worker'[w] = worker[w]
    BY <1>4 DEF PushCommand, PushStop, PushQueue, TInv, TypeOK
  <2>2. Capacity > 0
    BY <1>2, <1>4 DEF PushCommand, PushStop, PushQueue
  <2>3. UNCHANGED <<todo, pending, err, detected, server>> /\ (main' = "walk" \/ (main' = "stop" /\ main = "stop"))
    BY <1>4 DEF PushCommand, PushStop
  <2>4. QED
    BY <1>1, <2>1, <2>2, <2>3 DEF FlowInv
<1>5. CASE DrainQueue \/ WalkDone \/ Join
  BY <1>1, <1>5 DEF DrainQueue, WalkDone, Join, workerVars, FlowInv
<1>6. ASSUME NEW w \in Workers, WorkerStep(w) PROVE FlowInv'
  BY <1>1, <1>6, WorkerFrame DEF FlowInv
<1>7. ASSUME NEW m \in Metas, ServerLocks(m) \/ ServerUnlocks(m) PROVE FlowInv'
  BY <1>1, <1>7 DEF ServerLocks, ServerUnlocks, mainVars, workerVars, FlowInv
<1>8. CASE Interrupt
  <2>1. \A w \in Workers : worker'[w] # "gone" => worker'[w] = worker[w]
    BY <1>8 DEF Interrupt
  <2>2. /\ UNCHANGED <<todo, pending, err, detected, server>>
        /\ \/ UNCHANGED <<main, stops>>
           \/ main' = "walk" /\ stops' = stops
           \/ main = "stop" /\ main' = "stop" /\ Forked
    BY <1>8 DEF Interrupt
  <2>3. Forked => Capacity > 0
    BY OptionAssumption DEF Forked, Capacity, TInv, TypeOK
  <2>4. QED
    BY <1>1, <2>1, <2>2, <2>3 DEF FlowInv
<1>9. CASE Terminate
  BY <1>1, <1>9 DEF Terminate, FlowInv
<1>10. CASE UNCHANGED vars
  BY <1>1, <1>10 DEF vars, FlowInv
<1>11. QED
  BY <1>3, <1>4, <1>5, <1>6, <1>7, <1>8, <1>9, <1>10 DEF Next, MainStep, Over

(* While all is quiet, all was quiet, and neither a signal nor an error    *)
(* has changed the course of the run.                                      *)
LEMMA QuietBefore == TInv /\ [Next]_vars /\ Quiet' => Quiet
<1> SUFFICES ASSUME TInv, [Next]_vars, Quiet' PROVE Quiet
  OBVIOUS
<1>1. option' = option /\ Workers' = Workers /\ Forked' = Forked
  BY OptionStays, Rigid
<1>2. CASE MainStep
  <2>1. UNCHANGED <<hand, err, signals>> /\ main # "killed"
    BY <1>2 DEF MainStep, DrainQueue, Recurse, PushCommand, WalkDone, PushStop, Join, workerVars
  <2>2. mainErr => mainErr'
    BY <1>2, Zenon DEF MainStep, DrainQueue, Recurse, Examine, ExamineFails, DropOutdated, PushCommand, WalkDone,
                       PushStop, Join
  <2>3. worker' = worker \/ PushQueue(pending) \/ PushQueue(Stop)
    BY <1>2 DEF MainStep, DrainQueue, Recurse, PushCommand, WalkDone, PushStop, Join, workerVars
  <2>4. \A w \in Workers : worker[w] = "gone" => worker'[w] = "gone"
    BY <2>3 DEF PushQueue, TInv, TypeOK
  <2>5. QED
    BY <1>1, <2>1, <2>2, <2>4 DEF Quiet, Died
<1>3. ASSUME NEW w \in Workers, WorkerStep(w) PROVE Quiet
  BY <1>1, <1>3, WorkerFrame DEF Quiet, Died
<1>4. ASSUME NEW m \in Metas, ServerLocks(m) \/ ServerUnlocks(m) PROVE Quiet
  BY <1>1, <1>4 DEF ServerLocks, ServerUnlocks, mainVars, workerVars, Quiet, Died
<1>5. CASE Interrupt \/ Terminate
  BY <1>5 DEF Interrupt, Terminate, Quiet
<1>6. CASE UNCHANGED vars
  BY <1>1, <1>6 DEF vars, Quiet, Died
<1>7. QED
  BY <1>2, <1>3, <1>4, <1>5, <1>6 DEF Next, Over

(* A quiet step is no signal, no stop and no death, and what workers do    *)
(* with their metatiles succeeds.                                          *)
QuietWork(w) ==
  \/ TakeCommand(w) \/ WaitForCommand(w) \/ WakeToNothing(w)
  \/ LockMetatile(w) \/ WaitForMetatile(w) \/ MetatileUnlocked(w)
  \/ RenderMetatile(w) \/ DeleteMetatile(w) \/ TransferMetatile(w)

LEMMA QuietSteps ==
  ASSUME TInv, FlowInv, [Next]_vars, Quiet, Quiet'
  PROVE  \/ Recurse \/ PushCommand \/ WalkDone \/ PushStop \/ Join
         \/ \E w \in Workers : QuietWork(w)
         \/ \E m \in Metas : ServerLocks(m) \/ ServerUnlocks(m)
         \/ UNCHANGED vars
<1>1. ~DrainQueue
  BY DEF DrainQueue, StopAsked, FlowInv, Quiet
<1>2. ~Interrupt /\ ~Terminate
  BY DEF Interrupt, Terminate, Quiet
<1>3. ASSUME NEW w \in Workers, TransferWithoutData(w) PROVE FALSE
  <2>1. hand[w] # Stop /\ hand' = hand /\ main' # "killed" /\ option' = option
    BY <1>3, WorkersMetatile, OptionStays DEF TransferWithoutData, Quiet, Next, WorkerStep
  <2>2. Forked /\ worker'[w] = "gone"
    BY <1>3, <2>1 DEF TransferWithoutData, TInv, TypeOK
  <2>3. QED
    BY <2>1, <2>2, Rigid DEF Quiet, Died
<1>4. QED
  BY <1>1, <1>2, <1>3 DEF Next, MainStep, WorkerStep, QuietWork, Over

(* The queue holds commands and then STOPs, whose number tells whether one *)
(* was taken; until then a thread that is not about to end without a       *)
(* command is left (pop_queue).                                            *)
InOrder == \A i \in DOMAIN queue : queue[i] = Stop <=> i > Len(queue) - stops
SomeoneLeft ==
  Capacity > 0 /\ stops <= Len(queue) =>
    \E w \in Workers : worker[w] # "gone" /\ (queue = <<>> => worker[w] # "woken")
OrderInv == Quiet => InOrder /\ SomeoneLeft

LEMMA OrderInit == Init => OrderInv
<1> SUFFICES ASSUME Init PROVE OrderInv
  OBVIOUS
<1>1. queue = <<>> /\ option \in Options /\ worker = [w \in Workers |-> "pop"]
  BY DEF Init
<1>2. InOrder
  BY <1>1 DEF InOrder
<1>3. Capacity > 0 => 1 \in Workers
  BY <1>1, Started DEF Workers
<1>4. SomeoneLeft
  BY <1>1, <1>3 DEF SomeoneLeft
<1>5. QED
  BY <1>2, <1>4 DEF OrderInv

LEMMA OrderPush ==
  ASSUME TInv, InOrder, SomeoneLeft, option' = option, NEW c \in Commands, PushQueue(c),
         \/ c = Stop /\ stops' = stops + 1
         \/ c # Stop /\ stops' = stops /\ stops = 0
  PROVE  InOrder' /\ SomeoneLeft'
<1>1. /\ queue \in Seq(Commands) /\ Len(queue) \in Nat /\ stops \in Nat /\ Capacity \in Nat
      /\ queue' = Append(queue, c) /\ Workers' = Workers /\ Capacity' = Capacity
  BY Started, Rigid DEF TInv, TypeOK, PushQueue
<1>2. /\ Len(queue') = Len(queue) + 1 /\ queue' # <<>> /\ DOMAIN queue' = 1 .. Len(queue) + 1
      /\ \A i \in 1 .. Len(queue) : queue'[i] = queue[i]
      /\ queue'[Len(queue) + 1] = c
  BY <1>1
<1>3. InOrder'
  <2>1. SUFFICES ASSUME NEW i \in DOMAIN queue'
                 PROVE  queue'[i] = Stop <=> i > Len(queue') - stops'
    BY DEF InOrder
  <2>2. CASE i = Len(queue) + 1
    BY <1>1, <1>2, <2>2
  <2>3. CASE i \in 1 .. Len(queue)
    <3>1. queue'[i] = Stop <=> i > Len(queue) - stops
      BY <1>1, <1>2, <2>3 DEF InOrder
    <3>2. QED
      BY <1>1, <2>3, <3>1
  <2>4. QED
    BY <1>1, <2>2, <2>3
<1>4. SomeoneLeft'
  <2>1. \A w \in Workers : worker[w] # "gone" => worker'[w] # "gone"
    BY PushTypes DEF TInv
  <2>2. stops' <= Len(queue') => stops <= Len(queue)
    BY <1>1, <1>2
  <2>3. QED
    BY <1>1, <1>2, <2>1, <2>2 DEF SomeoneLeft
<1>5. QED
  BY <1>3, <1>4

LEMMA OrderTake ==
  ASSUME TInv, InOrder, SomeoneLeft, NEW w \in Workers, TakeCommand(w)
  PROVE  InOrder' /\ SomeoneLeft'
<1>1. /\ queue \in Seq(Commands) /\ queue # <<>> /\ queue' = Tail(queue) /\ stops' = stops
      /\ stops \in Nat /\ option' = option
  BY DEF TInv, TypeOK, TakeCommand, mainVars
<1>2. /\ Len(queue) \in Nat \ {0} /\ Len(queue') = Len(queue) - 1
      /\ DOMAIN queue' = 1 .. Len(queue) - 1
      /\ \A i \in 1 .. Len(queue) - 1 : queue'[i] = queue[i + 1]
      /\ Head(queue) = queue[1] /\ 1 \in DOMAIN queue
  BY <1>1, HeadTailProperties, EmptySeq
<1>3. InOrder'
  <2>1. SUFFICES ASSUME NEW i \in 1 .. Len(queue) - 1
                 PROVE  queue'[i] = Stop <=> i > Len(queue) - 1 - stops
    BY <1>1, <1>2 DEF InOrder
  <2>2. i + 1 \in DOMAIN queue
    BY <1>1, <1>2
  <2>3. queue[i + 1] = Stop <=> i + 1 > Len(queue) - stops
    BY <2>2 DEF InOrder
  <2>4. QED
    BY <1>1, <1>2, <2>3
<1>4. SomeoneLeft'
  <2>1. CASE Head(queue) = Stop
    <3>1. 1 > Len(queue) - stops
      BY <1>2, <2>1 DEF InOrder
    <3>2. ~(stops' <= Len(queue'))
      BY <1>1, <1>2, <3>1
    <3>3. QED
      BY <3>2 DEF SomeoneLeft
  <2>2. CASE Head(queue) # Stop
    <3>1. worker'[w] = "work"
      BY <2>2 DEF TakeCommand, TInv, TypeOK
    <3>2. QED
      BY <1>1, <3>1, Rigid DEF SomeoneLeft
  <2>3. QED
    BY <2>1, <2>2
<1>5. QED
  BY <1>3, <1>4

(* The other steps leave the queue alone; a thread that ends without a     *)
(* command was not the one that is left.                                   *)
LEMMA OrderElsewhere ==
  ASSUME InOrder, SomeoneLeft, UNCHANGED <<option, queue, stops>>,
         \A w \in Workers : \/ worker'[w] = worker[w]
                            \/ worker[w] = "woken" /\ queue = <<>>
                            \/ worker'[w] \notin {"gone", "woken"}
  PROVE  InOrder' /\ SomeoneLeft'
<1>1. Workers' = Workers /\ Capacity' = Capacity
  BY Rigid
<1>2. InOrder'
  BY DEF InOrder
<1>3. SomeoneLeft'
  BY <1>1 DEF SomeoneLeft
<1>4. QED
  BY <1>2, <1>3

LEMMA OrderStep == TInv /\ SInv /\ FlowInv /\ OrderInv /\ [Next]_vars => OrderInv'
<1> SUFFICES ASSUME TInv, SInv, FlowInv, OrderInv, [Next]_vars, Quiet'
             PROVE  InOrder' /\ SomeoneLeft'
  BY DEF OrderInv
<1>1. Quiet /\ InOrder /\ SomeoneLeft /\ option' = option
  BY QuietBefore, OptionStays DEF OrderInv
<1>2. CASE PushCommand
  <2>1. pending \in Commands /\ pending # Stop /\ stops = 0 /\ stops' = stops
    BY <1>2 DEF PushCommand, FlowInv, SInv, StopsLater, TInv, TypeOK
  <2>2. QED
    BY <1>1, <1>2, <2>1, OrderPush DEF PushCommand
<1>3. CASE PushStop
  <2>1. Stop \in Commands
    BY DEF Commands
  <2>2. QED
    BY <1>1, <1>3, <2>1, OrderPush DEF PushStop
<1>4. CASE Recurse \/ WalkDone \/ Join
  <2>1. UNCHANGED <<queue, stops, worker>>
    BY <1>4 DEF Recurse, WalkDone, Join, workerVars
  <2>2. QED
    BY <1>1, <2>1, OrderElsewhere
<1>5. ASSUME NEW w \in Workers, QuietWork(w) PROVE InOrder' /\ SomeoneLeft'
  <2>1. CASE TakeCommand(w)
    BY <1>1, <2>1, OrderTake
  <2>2. CASE ~TakeCommand(w)
    <3>1. UNCHANGED <<queue, stops>>
      BY <1>5, <2>2 DEF QuietWork, WaitForCommand, WakeToNothing, LockMetatile, WaitForMetatile,
         MetatileUnlocked, RenderMetatile, DeleteMetatile, TransferMetatile, CommandDone, mainVars
    <3>2. \A v \in Workers : \/ worker'[v] = worker[v]
                             \/ worker[v] = "woken" /\ queue = <<>>
                             \/ worker'[v] \notin {"gone", "woken"}
      BY <1>5, <2>2 DEF QuietWork, WaitForCommand, WakeToNothing, LockMetatile, WaitForMetatile,
         MetatileUnlocked, RenderMetatile, DeleteMetatile, TransferMetatile, CommandDone, TInv, TypeOK
    <3>3. QED
      BY <1>1, <3>1, <3>2, OrderElsewhere
  <2>3. QED
    BY <2>1, <2>2
<1>6. CASE (\E m \in Metas : ServerLocks(m) \/ ServerUnlocks(m)) \/ UNCHANGED vars
  <2>1. UNCHANGED <<queue, stops, worker>>
    BY <1>6 DEF ServerLocks, ServerUnlocks, mainVars, workerVars, vars
  <2>2. QED
    BY <1>1, <2>1, OrderElsewhere
<1>7. QED
  BY <1>1, <1>2, <1>3, <1>4, <1>5, <1>6, QuietSteps

(* What the caches have of a metatile: all of it or nothing. Who waits for *)
(* a lock file finds the metatile seeded once the file is gone.            *)
CacheInv ==
  Quiet =>
    /\ \A m \in Metas : source[m] \in {Empty, Whole("old"), Whole("new")}
    /\ Mode = "transfer" /\ ~option.ageLimit =>
         \A m \in Metas : target[m] \in {Empty, Whole("new")}
    /\ \A w \in Workers : worker[w] = "wait" =>
         hand[w].meta \in locks \/ source[hand[w].meta] = Whole("new")

LEMMA Wholes ==
  /\ Empty # Whole("old") /\ Empty # Whole("new") /\ Whole("old") # Whole("new")
  /\ Empty.first = "none" /\ ~Empty.rest
  /\ \A age \in Ages : Whole(age).first = age /\ Whole(age).rest
BY DEF Empty, Whole, Ages

(* What the workers' commands do when nothing fails.                       *)
LEMMA QuietCommands ==
  ASSUME TInv, Quiet, Quiet', NEW w \in Workers, WorkerStep(w)
  PROVE  /\ RenderMetatile(w) => /\ source' = [source EXCEPT ![hand[w].meta] = Whole("new")]
                                 /\ target' = target /\ locks' = locks \ {hand[w].meta}
         /\ DeleteMetatile(w) => /\ source' = [source EXCEPT ![hand[w].meta] = Empty]
                                 /\ UNCHANGED <<target, locks>>
         /\ TransferMetatile(w) => /\ target' = [target EXCEPT ![hand[w].meta] = Whole("new")]
                                   /\ UNCHANGED <<source, locks>>
<1>1. ~err[w] /\ ~err'[w] /\ err' # [err EXCEPT ![w] = TRUE]
  <2>1. option' = option /\ Workers' = Workers
    BY OptionStays, Rigid DEF Next
  <2>2. [err EXCEPT ![w] = TRUE][w]
    BY DEF TInv, TypeOK
  <2>3. QED
    BY <2>1, <2>2 DEF Quiet
<1>2. ASSUME RenderMetatile(w)
      PROVE  /\ source' = [source EXCEPT ![hand[w].meta] = Whole("new")]
             /\ target' = target /\ locks' = locks \ {hand[w].meta}
  BY <1>1, <1>2, Zenon DEF RenderMetatile
<1>3. ASSUME DeleteMetatile(w)
      PROVE  /\ source' = [source EXCEPT ![hand[w].meta] = Empty]
             /\ UNCHANGED <<target, locks>>
  BY <1>1, <1>3, Zenon DEF DeleteMetatile
<1>4. ASSUME TransferMetatile(w)
      PROVE  /\ target' = [target EXCEPT ![hand[w].meta] = Whole("new")]
             /\ UNCHANGED <<source, locks>>
  BY <1>1, <1>4, Zenon DEF TransferMetatile
<1>5. QED
  BY <1>2, <1>3, <1>4

(* What main deletes when no deletion fails.                               *)
LEMMA QuietWalk ==
  ASSUME Quiet', Recurse
  PROVE  \/ UNCHANGED caches /\ (Outdated(Head(todo)) => Mode = "delete")
         \/ /\ Outdated(Head(todo)) /\ Mode # "delete"
            /\ source' = [source EXCEPT ![Head(todo)] = Empty]
            /\ ~(Mode = "transfer" /\ TransferExists(Head(todo))) => target' = target
<1> DEFINE m == Head(todo)
<1>0. Examine(m)
  BY DEF Recurse, ExamineFails, Quiet
<1>1. CASE ~(Outdated(m) /\ Mode # "delete")
  BY <1>0, <1>1, Zenon DEF Examine
<1>2. CASE Outdated(m) /\ Mode # "delete"
  <2>1. DropOutdated(m)
    BY <1>0, <1>2, Zenon DEF Examine
  <2>2. ~mainErr'
    BY DEF Quiet
  <2>3. QED
    BY <1>2, <2>1, <2>2, Zenon DEF DropOutdated
<1>3. QED
  BY <1>1, <1>2

LEMMA CacheInit == Init => CacheInv
<1> SUFFICES ASSUME Init PROVE CacheInv
  OBVIOUS
<1>1. source \in Found
  BY DEF Init
<1>2. \A m \in Metas : source[m] \in {Empty, Whole("old"), Whole("new")}
  BY <1>1, FoundAssumption
<1>3. Mode = "transfer" => \A m \in Metas : target[m] \in {Empty, Whole("new")}
  BY DEF Init
<1>4. \A w \in Workers : worker[w] # "wait"
  BY DEF Init
<1>5. QED
  BY <1>2, <1>3, <1>4 DEF CacheInv

LEMMA CacheStep == TInv /\ FlowInv /\ CacheInv /\ [Next]_vars => CacheInv'
<1> SUFFICES ASSUME TInv, FlowInv, CacheInv, [Next]_vars, Quiet'
             PROVE  /\ \A m \in Metas : source'[m] \in {Empty, Whole("old"), Whole("new")}
                    /\ Mode' = "transfer" /\ ~option'.ageLimit =>
                         \A m \in Metas : target'[m] \in {Empty, Whole("new")}
                    /\ \A w \in Workers' : worker'[w] = "wait" =>
                         hand'[w].meta \in locks' \/ source'[hand'[w].meta] = Whole("new")
  BY DEF CacheInv
<1>1. /\ \A m \in Metas : source[m] \in {Empty, Whole("old"), Whole("new")}
      /\ Mode = "transfer" /\ ~option.ageLimit =>
           \A m \in Metas : target[m] \in {Empty, Whole("new")}
      /\ \A w \in Workers : worker[w] = "wait" =>
           hand[w].meta \in locks \/ source[hand[w].meta] = Whole("new")
  BY QuietBefore DEF CacheInv
<1>2. /\ option' = option /\ Mode' = Mode /\ Workers' = Workers
      /\ source \in [Metas -> Contents] /\ target \in [Metas -> Contents]
      /\ \A w \in Workers : worker[w] = "wait" => hand[w].meta \in Metas
  BY OptionStays, Rigid, WorkersMetatile DEF TInv, TypeOK
<1>3. CASE Recurse
  <2> DEFINE m == Head(todo)
  <2>1. m \in Metas /\ UNCHANGED <<worker, hand, locks>>
    BY <1>3 DEF Recurse, workerVars, TInv, TypeOK
  <2>2. CASE UNCHANGED caches
    BY <1>1, <1>2, <2>1, <2>2 DEF caches
  <2>3. CASE ~UNCHANGED caches
    <3>1. Outdated(m) /\ Mode # "delete" /\ source' = [source EXCEPT ![m] = Empty]
          /\ (~(Mode = "transfer" /\ TransferExists(m)) => target' = target)
      BY <1>3, <2>3, QuietWalk
    <3>2. option.ageLimit /\ source[m] # Whole("new")
      <4>1. Whole("new").first = "new" /\ "new" # "old"
        BY DEF Whole
      <4>2. QED
        BY <3>1, <4>1 DEF Outdated
    <3>3. \A n \in Metas : source'[n] = source[n] \/ (n = m /\ source'[n] = Empty)
      BY <1>2, <3>1
    <3>4. QED
      BY <1>1, <1>2, <2>1, <3>2, <3>3
  <2>4. QED
    BY <2>2, <2>3
<1>4. CASE PushCommand \/ PushStop \/ WalkDone \/ Join \/ UNCHANGED vars
  <2>1. UNCHANGED <<source, target, hand, locks>>
    BY <1>4 DEF PushCommand, PushStop, WalkDone, Join, vars, workerVars, caches
  <2>2. worker' = worker \/ PushQueue(pending) \/ PushQueue(Stop)
    BY <1>4 DEF PushCommand, PushStop, WalkDone, Join, vars, workerVars
  <2>3. \A w \in Workers : worker'[w] = "wait" => worker[w] = "wait"
    BY <2>2 DEF PushQueue, TInv, TypeOK
  <2>4. QED
    BY <1>1, <1>2, <2>1, <2>3
<1>5. ASSUME NEW w \in Workers, \/ TakeCommand(w) \/ WaitForCommand(w) \/ WakeToNothing(w)
                                \/ LockMetatile(w) \/ MetatileUnlocked(w)
      PROVE  CacheInv'
  <2>1. /\ UNCHANGED <<source, target>> /\ locks \subseteq locks' /\ worker'[w] # "wait"
        /\ \A v \in Workers \ {w} : worker'[v] = worker[v] /\ hand'[v] = hand[v]
    BY <1>5 DEF TakeCommand, WaitForCommand, WakeToNothing, LockMetatile, MetatileUnlocked,
       CommandDone, caches, TInv, TypeOK
  <2>2. QED
    BY <1>1, <1>2, <2>1 DEF CacheInv
<1>6. ASSUME NEW w \in Workers, WaitForMetatile(w) PROVE CacheInv'
  <2>1. /\ UNCHANGED <<source, target, locks, hand>> /\ hand[w].meta \in locks
        /\ \A v \in Workers \ {w} : worker'[v] = worker[v]
    BY <1>6 DEF WaitForMetatile, caches, TInv, TypeOK
  <2>2. QED
    BY <1>1, <1>2, <2>1 DEF CacheInv
<1>7. ASSUME NEW w \in Workers, RenderMetatile(w) \/ DeleteMetatile(w) \/ TransferMetatile(w)
      PROVE  CacheInv'
  <2>1. Quiet /\ WorkerStep(w) /\ hand[w].meta \in Metas
    BY <1>7, QuietBefore, WorkersMetatile
       DEF WorkerStep, RenderMetatile, DeleteMetatile, TransferMetatile
  <2>2. /\ hand' = hand /\ worker'[w] # "wait"
        /\ \A v \in Workers \ {w} : worker'[v] = worker[v]
    BY <1>7 DEF RenderMetatile, DeleteMetatile, TransferMetatile, CommandDone, TInv, TypeOK
  <2>3. CASE RenderMetatile(w)
    <3>1. /\ source' = [source EXCEPT ![hand[w].meta] = Whole("new")]
          /\ target' = target /\ locks' = locks \ {hand[w].meta}
      BY <2>1, <2>3, QuietCommands
    <3>2. \A m \in Metas : source'[m] = IF m = hand[w].meta THEN Whole("new") ELSE source[m]
      BY <1>2, <3>1
    <3>3. QED
      BY <1>1, <1>2, <2>1, <2>2, <3>1, <3>2 DEF CacheInv
  <2>4. CASE DeleteMetatile(w)
    <3>1. /\ source' = [source EXCEPT ![hand[w].meta] = Empty]
          /\ UNCHANGED <<target, locks>>
      BY <2>1, <2>4, QuietCommands
    <3>2. \A m \in Metas : source'[m] = IF m = hand[w].meta THEN Empty ELSE source[m]
      BY <1>2, <3>1
    <3>3. Mode = "delete"
      <4>1. hand[w] \in Commands /\ hand[w] # Stop /\ hand[w].command = "delete"
        BY <2>4, WorkersMetatile DEF DeleteMetatile, Working, TInv, TypeOK
      <4>2. QED
        BY <4>1, CommandTypes
    <3>4. \A v \in Workers : worker[v] # "wait"
      BY <3>3 DEF FlowInv
    <3>5. QED
      BY <1>1, <1>2, <2>1, <2>2, <3>1, <3>2, <3>4 DEF CacheInv
  <2>5. CASE TransferMetatile(w)
    <3>1. /\ target' = [target EXCEPT ![hand[w].meta] = Whole("new")]
          /\ UNCHANGED <<source, locks>>
      BY <2>1, <2>5, QuietCommands
    <3>2. \A m \in Metas : target'[m] = IF m = hand[w].meta THEN Whole("new") ELSE target[m]
      BY <1>2, <3>1
    <3>3. QED
      BY <1>1, <1>2, <2>1, <2>2, <3>1, <3>2 DEF CacheInv
  <2>6. QED
    BY <1>7, <2>3, <2>4, <2>5
<1>8. ASSUME NEW n \in Metas, ServerLocks(n) \/ ServerUnlocks(n) PROVE CacheInv'
  <2>1. UNCHANGED <<worker, hand, target>>
    BY <1>8 DEF ServerLocks, ServerUnlocks, workerVars, caches
  <2>2. CASE ServerLocks(n)
    BY <1>1, <1>2, <2>1, <2>2 DEF ServerLocks, caches, CacheInv
  <2>3. CASE ServerUnlocks(n)
    <3>1. option.server # "failing"
      BY QuietBefore DEF Quiet
    <3>2. source' = [source EXCEPT ![n] = Whole("new")] /\ locks' = locks \ {n}
      BY <2>3, <3>1 DEF ServerUnlocks
    <3>3. \A m \in Metas : source'[m] = IF m = n THEN Whole("new") ELSE source[m]
      BY <1>2, <3>2
    <3>4. QED
      BY <1>1, <1>2, <2>1, <3>2, <3>3 DEF CacheInv
  <2>4. QED
    BY <1>8, <2>2, <2>3
<1>9. QED
  <2>1. Quiet
    BY QuietBefore
  <2>2. CacheInv' => /\ \A m \in Metas : source'[m] \in {Empty, Whole("old"), Whole("new")}
                     /\ Mode' = "transfer" /\ ~option'.ageLimit =>
                          \A m \in Metas : target'[m] \in {Empty, Whole("new")}
                     /\ \A w \in Workers' : worker'[w] = "wait" =>
                          hand'[w].meta \in locks' \/ source'[hand'[w].meta] = Whole("new")
    BY DEF CacheInv
  <2>3. QED
    BY <1>3, <1>4, <1>5, <1>6, <1>7, <1>8, <2>1, <2>2, QuietSteps DEF QuietWork

-----------------------------------------------------------------------------
(* What cmd_recurse has still to visit: the metatiles that are in every    *)
(* set that has those of todo and all those below its own.                 *)
Closed(S) == \A m \in S : \A i \in DOMAIN Children[m] : Children[m][i] \in S
ToVisit ==
  {m \in Metas : \A S \in SUBSET Metas : Closed(S) /\ (\A i \in DOMAIN todo : todo[i] \in S) => m \in S}

LEMMA VisitAll == Init => ToVisit = Metas
BY WalkAssumption DEF Init, ToVisit, Closed

LEMMA VisitNone == todo = <<>> => ToVisit = {}
<1> SUFFICES ASSUME todo = <<>> PROVE ToVisit = {}
  OBVIOUS
<1>1. Closed({}) /\ {} \in SUBSET Metas
  BY DEF Closed
<1>2. \A i \in DOMAIN todo : FALSE
  OBVIOUS
<1>3. QED
  BY <1>1, <1>2 DEF ToVisit

(* A metatile that is visited makes place for those below it.              *)
LEMMA VisitHead ==
  ASSUME todo \in Seq(Metas), todo # <<>>, todo' = Children[Head(todo)] \o Tail(todo),
         NEW m \in ToVisit, m # Head(todo)
  PROVE  m \in ToVisit'
<1> DEFINE h == Head(todo)
           below == Children[h]
<1>1. h \in Metas /\ Tail(todo) \in Seq(Metas) /\ below \in Seq(Metas) /\ Len(todo) \in Nat \ {0}
  BY WalkAssumption, HeadTailProperties, EmptySeq
<1>2. /\ \A i \in 1 .. Len(below) : i \in DOMAIN todo' /\ todo'[i] = below[i]
      /\ \A i \in 1 .. Len(todo) - 1 : /\ Len(below) + i \in DOMAIN todo'
                                       /\ todo'[Len(below) + i] = todo[i + 1]
  BY <1>1, HeadTailProperties, ConcatProperties
<1>3. ASSUME NEW S \in SUBSET Metas, Closed(S), \A i \in DOMAIN todo' : todo'[i] \in S
      PROVE  m \in S
  <2>1. Closed(S \union {h})
    <3>1. \A i \in DOMAIN below : below[i] \in S
      <4>1. DOMAIN below = 1 .. Len(below)
        BY <1>1
      <4>2. QED
        BY <1>2, <1>3, <4>1
    <3>2. QED
      BY <1>3, <3>1 DEF Closed
  <2>2. \A i \in DOMAIN todo : todo[i] \in S \union {h}
    <3>1. SUFFICES ASSUME NEW i \in 1 .. Len(todo), i # 1 PROVE todo[i] \in S
      BY <1>1
    <3>2. i - 1 \in 1 .. Len(todo) - 1 /\ (i - 1) + 1 = i
      BY <1>1, <3>1
    <3>3. QED
      BY <1>2, <1>3, <3>2
  <2>3. QED
    BY <1>1, <2>1, <2>2 DEF ToVisit
<1>4. QED
  BY <1>3 DEF ToVisit, Closed

-----------------------------------------------------------------------------
(* Where the work on a metatile is: still to be found by main, on its way  *)
(* through the queue to a worker and its metatile, or done.                *)
Work(m) == [command |-> Mode, meta |-> m]
Owed(m) ==
  \/ main = "push" /\ pending = Work(m)
  \/ \E i \in DOMAIN queue : queue[i] = Work(m)
  \/ \E w \in Workers : worker[w] \in {"work", "wait", "render"} /\ hand[w] = Work(m)
Seeded(m) == source[m] = Whole("new") \/ (source[m] = Whole("old") /\ ~option.ageLimit)
Transferred(m) == option.ageLimit \/ target[m] = Whole("new")
Deleted(m) ==
  \/ source[m] = Empty \/ option.force
  \/ (option.ageLimit \/ option.server # "no") /\ source[m] = Whole("new")
Settled(m) ==
  /\ Mode = "seed" => Seeded(m)
  /\ Mode = "transfer" => Transferred(m)
  /\ Mode = "delete" => Deleted(m)
WorkInv == Quiet => \A m \in Metas : m \in ToVisit \/ Owed(m) \/ Settled(m)

(* The mode a command was queued for.                                      *)
LEMMA ModeOfWork ==
  ASSUME TInv, NEW w \in Workers
  PROVE  /\ \A c \in {"seed", "delete", "transfer"} : Working(w, c) => Mode = c
         /\ hand[w] # Stop => hand[w] = Work(hand[w].meta)
         /\ \A m : Work(m) # Stop /\ Work(m).meta = m
<1>1. Mode \in {"seed", "delete", "transfer"}
  BY Started DEF TInv, TypeOK
<1>2. \A m : Work(m) # Stop /\ Work(m).meta = m
  BY <1>1 DEF Work, Stop
<1>3. hand[w] # Stop => hand[w] = Work(hand[w].meta)
  BY DEF TInv, TypeOK, Commands, Work
<1>4. ASSUME NEW c \in {"seed", "delete", "transfer"}, Working(w, c) PROVE Mode = c
  <2>1. hand[w] \in Commands /\ hand[w] # Stop /\ hand[w].command = c
    BY <1>4, WorkersMetatile DEF Working, TInv, TypeOK
  <2>2. QED
    BY <2>1, CommandTypes
<1>5. QED
  BY <1>2, <1>3, <1>4

(* What is done stays done.                                                *)
LEMMA SettledStays ==
  ASSUME TInv, FlowInv, CacheInv, [Next]_vars, Quiet', NEW m \in Metas, Settled(m)
  PROVE  Settled(m)'
<1>1. Quiet /\ option' = option /\ Mode' = Mode
  BY QuietBefore, OptionStays, Rigid
<1>2. source \in [Metas -> Contents] /\ target \in [Metas -> Contents]
  BY DEF TInv, TypeOK
<1>3. CASE UNCHANGED <<source, target>>
  BY <1>1, <1>3 DEF Settled, Seeded, Transferred, Deleted
<1>4. CASE Recurse
  <2>1. CASE UNCHANGED caches
    BY <1>3, <2>1 DEF caches
  <2>2. CASE ~UNCHANGED caches
    <3>1. Outdated(Head(todo)) /\ Mode # "delete" /\ source' = [source EXCEPT ![Head(todo)] = Empty]
      BY <1>4, <2>2, QuietWalk
    <3>2. option.ageLimit /\ source[Head(todo)] # Whole("new")
      <4>1. Whole("new").first = "new" /\ "new" # "old"
        BY DEF Whole
      <4>2. QED
        BY <3>1, <4>1 DEF Outdated
    <3>3. source'[m] = source[m] \/ m = Head(todo)
      BY <1>2, <3>1
    <3>4. QED
      BY <1>1, <3>1, <3>2, <3>3 DEF Settled, Seeded, Transferred
  <2>3. QED
    BY <2>1, <2>2
<1>5. ASSUME NEW w \in Workers, RenderMetatile(w) \/ DeleteMetatile(w) \/ TransferMetatile(w)
      PROVE  Settled(m)'
  <2>1. WorkerStep(w) /\ hand[w].meta \in Metas
    BY <1>5, WorkersMetatile DEF WorkerStep, RenderMetatile, DeleteMetatile, TransferMetatile
  <2>2. CASE RenderMetatile(w)
    <3>1. Mode = "seed" /\ source' = [source EXCEPT ![hand[w].meta] = Whole("new")]
      BY <1>1, <2>1, <2>2, QuietCommands DEF FlowInv, RenderMetatile
    <3>2. source'[m] = source[m] \/ source'[m] = Whole("new")
      BY <1>2, <2>1, <3>1
    <3>3. QED
      BY <1>1, <3>1, <3>2 DEF Settled, Seeded
  <2>3. CASE DeleteMetatile(w)
    <3>1. Mode = "delete" /\ source' = [source EXCEPT ![hand[w].meta] = Empty]
      BY <1>1, <2>1, <2>3, QuietCommands, ModeOfWork DEF DeleteMetatile
    <3>2. source'[m] = source[m] \/ source'[m] = Empty
      BY <1>2, <2>1, <3>1
    <3>3. QED
      BY <1>1, <3>1, <3>2 DEF Settled, Deleted
  <2>4. CASE TransferMetatile(w)
    <3>1. Mode = "transfer" /\ target' = [target EXCEPT ![hand[w].meta] = Whole("new")]
      BY <1>1, <2>1, <2>4, QuietCommands, ModeOfWork DEF TransferMetatile
    <3>2. target'[m] = target[m] \/ target'[m] = Whole("new")
      BY <1>2, <2>1, <3>1
    <3>3. QED
      BY <1>1, <3>1, <3>2 DEF Settled, Transferred
  <2>5. QED
    BY <1>5, <2>2, <2>3, <2>4
<1>6. ASSUME NEW n \in Metas, ServerUnlocks(n) PROVE Settled(m)'
  <2>1. option.server \notin {"no", "failing"} /\ target' = target
    BY <1>1, <1>6 DEF ServerUnlocks, FlowInv, Quiet
  <2>2. source' = [source EXCEPT ![n] = Whole("new")]
    BY <1>6, <2>1 DEF ServerUnlocks
  <2>3. source'[m] = source[m] \/ source'[m] = Whole("new")
    BY <1>2, <2>2
  <2>4. QED
    BY <1>1, <2>1, <2>3 DEF Settled, Seeded, Transferred, Deleted
<1>7. ASSUME NEW w \in Workers, \/ TakeCommand(w) \/ WaitForCommand(w) \/ WakeToNothing(w)
                                \/ LockMetatile(w) \/ WaitForMetatile(w) \/ MetatileUnlocked(w)
      PROVE  Settled(m)'
  BY <1>3, <1>7 DEF TakeCommand, WaitForCommand, WakeToNothing, LockMetatile, WaitForMetatile,
     MetatileUnlocked, caches
<1>8. CASE PushCommand \/ WalkDone \/ PushStop \/ Join \/ (\E n \in Metas : ServerLocks(n)) \/ UNCHANGED vars
  BY <1>3, <1>8 DEF PushCommand, WalkDone, PushStop, Join, ServerLocks, vars, caches
<1>9. QED
  BY <1>1, <1>4, <1>5, <1>6, <1>7, <1>8, QuietSteps DEF QuietWork

(* What is to be done stays in main's hand, in the queue or in a worker's  *)
(* hand until it is done.                                                  *)
LEMMA OwedStays ==
  ASSUME TInv, FlowInv, CacheInv, [Next]_vars, Quiet', NEW m \in Metas, Owed(m)
  PROVE  Owed(m)' \/ Settled(m)'
<1>1. Quiet /\ option' = option /\ Mode' = Mode /\ Workers' = Workers /\ Work(m)' = Work(m)
  BY QuietBefore, OptionStays, Rigid DEF Work
<1>2. queue \in Seq(Commands) /\ Len(queue) \in Nat
  BY DEF TInv, TypeOK
<1>3. CASE PushCommand \/ PushStop
  <2>1. PICK c \in {pending, Stop} : PushQueue(c) /\ (PushCommand => c = pending)
    BY <1>3 DEF PushCommand, PushStop
  <2>2. c \in Commands
    BY DEF Commands, TInv, TypeOK
  <2>3. /\ Len(queue) + 1 \in DOMAIN queue' /\ queue'[Len(queue) + 1] = c
        /\ \A i \in DOMAIN queue : i \in DOMAIN queue' /\ queue'[i] = queue[i]
    <3>1. queue' = Append(queue, c)
      BY <2>1 DEF PushQueue
    <3>2. QED
      BY <1>2, <2>2, <3>1
  <2>4. CASE main = "push" /\ pending = Work(m)
    <3>1. c = pending
      BY <1>3, <2>1, <2>4 DEF PushStop
    <3>2. QED
      BY <1>1, <2>3, <2>4, <3>1 DEF Owed
  <2>5. CASE \E i \in DOMAIN queue : queue[i] = Work(m)
    BY <1>1, <2>3, <2>5 DEF Owed
  <2>6. CASE \E w \in Workers : worker[w] \in {"work", "wait", "render"} /\ hand[w] = Work(m)
    <3>1. hand' = hand
      BY <1>3 DEF PushCommand, PushStop
    <3>2. \A w \in Workers : worker[w] \in {"work", "wait", "render"} => worker'[w] = worker[w]
      BY <2>1 DEF PushQueue, TInv, TypeOK
    <3>3. QED
      BY <1>1, <2>6, <3>1, <3>2 DEF Owed
  <2>7. QED
    BY <2>4, <2>5, <2>6 DEF Owed
<1>4. CASE Recurse \/ WalkDone \/ Join
  <2>1. main # "push" /\ UNCHANGED <<queue, worker, hand>>
    BY <1>4 DEF Recurse, WalkDone, Join, workerVars
  <2>2. QED
    BY <1>1, <2>1 DEF Owed
<1>5. CASE (\E n \in Metas : ServerLocks(n) \/ ServerUnlocks(n)) \/ UNCHANGED vars
  <2>1. UNCHANGED <<main, pending, queue, worker, hand>>
    BY <1>5 DEF ServerLocks, ServerUnlocks, mainVars, workerVars, vars
  <2>2. QED
    BY <1>1, <2>1 DEF Owed
<1>6. ASSUME NEW w \in Workers, TakeCommand(w) PROVE Owed(m)'
  <2>1. /\ UNCHANGED <<main, pending>> /\ queue # <<>> /\ queue' = Tail(queue)
        /\ hand'[w] = Head(queue) /\ (Head(queue) # Stop => worker'[w] = "work")
        /\ worker[w] \in {"pop", "woken"}
        /\ \A v \in Workers \ {w} : worker'[v] = worker[v] /\ hand'[v] = hand[v]
    BY <1>6 DEF TakeCommand, mainVars, TInv, TypeOK
  <2>2. CASE \E i \in DOMAIN queue : queue[i] = Work(m)
    <3>1. PICK i \in DOMAIN queue : queue[i] = Work(m)
      BY <2>2
    <3>2. CASE i = 1
      <4>1. Head(queue) = Work(m) /\ Work(m) # Stop
        BY <1>2, <2>1, <3>1, <3>2, ModeOfWork
      <4>2. QED
        BY <1>1, <2>1, <4>1 DEF Owed
    <3>3. CASE i # 1
      <4>1. i - 1 \in DOMAIN queue' /\ queue'[i - 1] = queue[i]
        <5>1. /\ Len(queue') = Len(queue) - 1 /\ queue' \in Seq(Commands)
              /\ \A j \in 1 .. Len(queue) - 1 : queue'[j] = queue[j + 1]
          BY <1>2, <2>1, HeadTailProperties
        <5>2. i - 1 \in 1 .. Len(queue) - 1 /\ (i - 1) + 1 = i
          BY <1>2, <3>1, <3>3
        <5>3. QED
          BY <5>1, <5>2
      <4>2. QED
        BY <1>1, <3>1, <4>1 DEF Owed
    <3>4. QED
      BY <3>2, <3>3
  <2>3. CASE ~\E i \in DOMAIN queue : queue[i] = Work(m)
    BY <1>1, <2>1, <2>3 DEF Owed
  <2>4. QED
    BY <2>2, <2>3
<1>7. ASSUME NEW w \in Workers, WaitForCommand(w) \/ WakeToNothing(w) \/ LockMetatile(w) \/ WaitForMetatile(w)
      PROVE  Owed(m)'
  <2>1. UNCHANGED <<main, pending, queue, hand>>
    BY <1>7 DEF WaitForCommand, WakeToNothing, LockMetatile, WaitForMetatile, mainVars
  <2>2. \A v \in Workers : worker[v] \in {"work", "wait", "render"}
                             => worker'[v] \in {"work", "wait", "render"}
    BY <1>7 DEF WaitForCommand, WakeToNothing, LockMetatile, WaitForMetatile, TInv, TypeOK
  <2>3. QED
    BY <1>1, <2>1, <2>2 DEF Owed
<1>8. ASSUME NEW w \in Workers, \/ MetatileUnlocked(w) \/ RenderMetatile(w) \/ DeleteMetatile(w)
                                \/ TransferMetatile(w)
      PROVE  Owed(m)' \/ Settled(m)'
  <2>1. /\ UNCHANGED <<main, pending, queue, hand>> /\ CommandDone(w)
        /\ \A v \in Workers \ {w} : worker'[v] = worker[v]
    BY <1>8 DEF MetatileUnlocked, RenderMetatile, DeleteMetatile, TransferMetatile, CommandDone,
       mainVars, TInv, TypeOK
  <2>2. CASE hand[w] # Work(m)
    BY <1>1, <2>1, <2>2 DEF Owed
  <2>3. CASE hand[w] = Work(m)
    <3>1. hand[w].meta = m /\ WorkerStep(w)
      BY <1>8, <2>3, ModeOfWork DEF WorkerStep
    <3>2. source \in [Metas -> Contents] /\ target \in [Metas -> Contents]
      BY DEF TInv, TypeOK
    <3>3. CASE MetatileUnlocked(w)
      <4>1. source[m] = Whole("new") /\ Mode = "seed" /\ source' = source
        BY <1>1, <3>1, <3>3 DEF MetatileUnlocked, CacheInv, FlowInv, caches
      <4>2. QED
        BY <1>1, <4>1 DEF Settled, Seeded
    <3>4. CASE RenderMetatile(w)
      <4>1. source' = [source EXCEPT ![m] = Whole("new")] /\ Mode = "seed"
        BY <1>1, <3>1, <3>4, QuietCommands DEF RenderMetatile, FlowInv
      <4>2. QED
        BY <1>1, <3>2, <4>1 DEF Settled, Seeded
    <3>5. CASE DeleteMetatile(w)
      <4>1. source' = [source EXCEPT ![m] = Empty] /\ Mode = "delete"
        BY <1>1, <3>1, <3>5, QuietCommands, ModeOfWork DEF DeleteMetatile
      <4>2. QED
        BY <1>1, <3>2, <4>1 DEF Settled, Deleted
    <3>6. CASE TransferMetatile(w)
      <4>1. target' = [target EXCEPT ![m] = Whole("new")] /\ Mode = "transfer"
        BY <1>1, <3>1, <3>6, QuietCommands, ModeOfWork DEF TransferMetatile
      <4>2. QED
        BY <1>1, <3>2, <4>1 DEF Settled, Transferred
    <3>7. QED
      BY <1>8, <3>3, <3>4, <3>5, <3>6
  <2>4. QED
    BY <2>2, <2>3
<1>9. QED
  BY <1>1, <1>3, <1>4, <1>5, <1>6, <1>7, <1>8, QuietSteps DEF QuietWork

(* examine_tile queues a command for what needs work; the rest is done.    *)
LEMMA Examined ==
  ASSUME TInv, CacheInv, Quiet, Quiet', Recurse, option' = option, NEW m, m = Head(todo)
  PROVE  Owed(m)' \/ Settled(m)
<1>1. m \in Metas /\ Mode' = Mode
  BY Rigid DEF Recurse, TInv, TypeOK
<1>2. CASE NeedsWork(m)
  <2>1. pending' = Work(m) /\ main' = "push"
    <3>1. Examine(m)
      BY DEF Recurse, ExamineFails, Quiet
    <3>2. QED
      BY <1>2, <3>1, Zenon DEF Examine, Work
  <2>2. QED
    BY <1>1, <2>1 DEF Owed, Work
<1>3. CASE ~NeedsWork(m)
  <2>1. /\ source[m] \in {Empty, Whole("old"), Whole("new")} /\ ~mainErr
        /\ Mode = "transfer" /\ ~option.ageLimit => target[m] \in {Empty, Whole("new")}
    BY <1>1 DEF CacheInv, Quiet
  <2>2. /\ Empty.first = "none" /\ Whole("old").first = "old" /\ Whole("new").first = "new"
    BY DEF Empty, Whole
  <2>3. Mode = "seed" => Seeded(m)
    BY <1>3, <2>1, <2>2 DEF NeedsWork, Outdated, Exists, Seeded
  <2>4. Mode = "transfer" => Transferred(m)
    BY <1>3, <2>1, <2>2 DEF NeedsWork, Outdated, Exists, TransferExists, Transferred
  <2>5. Mode = "delete" => Deleted(m)
    BY <1>3, <2>1, <2>2 DEF NeedsWork, Outdated, Exists, Deleted
  <2>6. QED
    BY <2>3, <2>4, <2>5 DEF Settled
<1>4. QED
  BY <1>2, <1>3

LEMMA WorkInit == Init => WorkInv
BY VisitAll DEF WorkInv

LEMMA WorkStep == TInv /\ FlowInv /\ CacheInv /\ WorkInv /\ [Next]_vars => WorkInv'
<1> SUFFICES ASSUME TInv, FlowInv, CacheInv, WorkInv, [Next]_vars, Quiet', NEW m \in Metas
             PROVE  m \in ToVisit' \/ Owed(m)' \/ Settled(m)'
  BY DEF WorkInv
<1>1. Quiet /\ option' = option
  BY QuietBefore, OptionStays
<1>2. m \in ToVisit \/ Owed(m) \/ Settled(m)
  BY <1>1 DEF WorkInv
<1>3. CASE m \in ToVisit
  <2>1. CASE Recurse
    <3>1. /\ todo \in Seq(Metas) /\ todo # <<>> /\ Head(todo) \in Metas
          /\ todo' = Children[Head(todo)] \o Tail(todo)
      BY <2>1 DEF Recurse, TInv, TypeOK
    <3>2. CASE m = Head(todo)
      BY <1>1, <2>1, <3>2, Examined, SettledStays
    <3>3. CASE m # Head(todo)
      BY <1>3, <3>1, <3>3, VisitHead
    <3>4. QED
      BY <3>2, <3>3
  <2>2. CASE ~Recurse
    <3>1. \A w \in Workers : QuietWork(w) => todo' = todo
      BY WorkerFrame DEF QuietWork, WorkerStep
    <3>2. todo' = todo
      BY <1>1, <2>2, <3>1, QuietSteps DEF PushCommand, WalkDone, PushStop, Join, ServerLocks,
         ServerUnlocks, mainVars, vars
    <3>3. QED
      BY <1>3, <3>2 DEF ToVisit
  <2>3. QED
    BY <2>1, <2>2
<1>4. QED
  BY <1>2, <1>3, OwedStays, SettledStays

(* A run that ended without an error or a signal has done its work on      *)
(* every metatile the walk visits (EndedMeansDone), for every number of    *)
(* threads or processes and whichever of them ended early: examine_tile    *)
(* leaves out only what is done, no command is lost between push_queue and *)
(* a worker, and the last worker ends with a STOP.                         *)
Inv == TInv /\ SInv /\ LInv /\ FlowInv /\ OrderInv /\ CacheInv /\ WorkInv

LEMMA InvDone == Inv => EndedMeansDone
<1> SUFFICES ASSUME Inv, main = "ended", Clean, NEW m \in Metas
             PROVE  CASE Mode = "seed" -> Cached(m) /\ (option.ageLimit => source[m].first = "new")
                      [] Mode = "transfer" -> Cached(m) => target[m] = Whole("new") \/ option.ageLimit
                      [] Mode = "delete" -> \/ source[m] = Empty \/ option.force
                                            \/ /\ option.ageLimit \/ option.server # "no"
                                               /\ source[m].first = "new"
  BY DEF EndedMeansDone
<1>1. Quiet
  BY DEF Clean, Quiet, Died
<1>2. m \notin ToVisit
  BY VisitNone DEF Inv, FlowInv
<1>3. \A w \in Workers : worker[w] = "gone"
  BY DEF Inv, LInv, EndedLast
<1>4. ~\E i \in DOMAIN queue : queue[i] = Work(m)
  <2>1. StopCount > 0 /\ Len(queue) \in Nat /\ stops = StopCount /\ StopCount \in Nat /\ Capacity \in Nat
    BY OptionAssumption, Started DEF StopCount, Inv, TInv, TypeOK, FlowInv
  <2>2. Capacity > 0
    BY <2>1 DEF Inv, FlowInv
  <2>3. ~(stops <= Len(queue))
    BY <1>1, <1>3, <2>2 DEF Inv, OrderInv, SomeoneLeft
  <2>4. ASSUME NEW i \in DOMAIN queue PROVE queue[i] = Stop
    <3>1. i \in Nat \ {0}
      BY DEF Inv, TInv, TypeOK
    <3>2. i > Len(queue) - stops
      BY <2>1, <2>3, <3>1
    <3>3. QED
      BY <1>1, <3>2 DEF Inv, OrderInv, InOrder
  <2>5. Work(m) # Stop
    <3>1. Mode \in {"seed", "delete", "transfer"}
      BY Started DEF Inv, TInv, TypeOK
    <3>2. QED
      BY <3>1 DEF Work, Stop
  <2>6. QED
    BY <2>4, <2>5
<1>5. Settled(m)
  BY <1>1, <1>2, <1>3, <1>4 DEF Inv, WorkInv, Owed
<1>6. /\ Whole("new").first = "new" /\ Whole("new").rest /\ Whole("old").first = "old" /\ Whole("old").rest
  BY DEF Whole
<1>7. CASE Mode = "seed"
  BY <1>5, <1>6, <1>7 DEF Settled, Seeded, Cached
<1>8. CASE Mode = "transfer"
  BY <1>5, <1>6, <1>8 DEF Settled, Transferred
<1>9. CASE Mode = "delete"
  BY <1>5, <1>6, <1>9 DEF Settled, Deleted
<1>10. QED
  BY <1>7, <1>8, <1>9, Started DEF Inv, TInv, TypeOK

THEOREM RunsDoTheirWork == Spec => []EndedMeansDone
<1>1. Init => Inv
  BY TypeInit, StopsInit, LocksInit, FlowInit, OrderInit, CacheInit, WorkInit DEF Inv
<1>2. Inv /\ [Next]_vars => Inv'
  BY TypeNext, StopsNext, LocksNext, FlowStep, OrderStep, CacheStep, WorkStep DEF Inv
<1>3. QED
  BY <1>1, <1>2, InvDone, PTL DEF Spec
=============================================================================
