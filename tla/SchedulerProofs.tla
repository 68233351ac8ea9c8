--------------------------- MODULE SchedulerProofs ---------------------------
(***************************************************************************)
(* Proofs about Scheduler for any set of schedulers, any interval and any  *)
(* occurrences.                                                            *)
(***************************************************************************)
EXTENDS Scheduler, FiniteSetTheorems, WellFoundedInduction, TLAPS

-----------------------------------------------------------------------------
(* The clock and the occurrences.                                          *)

LEMMA Mul == ASSUME NEW a \in Int, NEW b \in Int, a >= b + 1 PROVE a * Interval >= b * Interval + Interval
<1>1. (a - b - 1) * Interval >= 0
  BY SchedulerAssumption
<1> QED
  BY <1>1, SchedulerAssumption

LEMMA ModNext ==
  ASSUME NEW n \in Nat
  PROVE  /\ n % Interval \in 0 .. Interval - 1
         /\ (n + 1) % Interval = IF n % Interval = Interval - 1 THEN 0 ELSE (n % Interval) + 1
<1> DEFINE q == n \div Interval
           r == n % Interval
           p == (n + 1) \div Interval
           s == (n + 1) % Interval
<1>1. q \in Int /\ r \in 0 .. Interval - 1 /\ n = Interval * q + r
  BY SchedulerAssumption
<1>2. p \in Int /\ s \in 0 .. Interval - 1 /\ n + 1 = Interval * p + s
  BY SchedulerAssumption
<1> HIDE DEF q, r, p, s
<1>3. Interval * p - Interval * q = r + 1 - s
  BY <1>1, <1>2, SchedulerAssumption
<1>4. CASE p >= q + 1
  <2>1. p * Interval >= q * Interval + Interval
    BY <1>1, <1>2, <1>4, Mul
  <2>2. r + 1 - s >= Interval
    BY <1>3, <2>1, <1>1, <1>2, SchedulerAssumption
  <2>3. r = Interval - 1 /\ s = 0
    BY <2>2, <1>1, <1>2, SchedulerAssumption
  <2> QED
    BY <2>3, SchedulerAssumption DEF r, s
<1>5. CASE q >= p + 1
  <2>1. q * Interval >= p * Interval + Interval
    BY <1>1, <1>2, <1>5, Mul
  <2> QED
    BY <1>3, <2>1, <1>1, <1>2, SchedulerAssumption DEF r, s
<1>6. CASE p = q
  <2>1. s = r + 1
    BY <1>3, <1>6, <1>1, <1>2, SchedulerAssumption
  <2> QED
    BY <2>1, <1>1, <1>2, SchedulerAssumption DEF r, s
<1> QED
  BY <1>1, <1>2, <1>4, <1>5, <1>6

LEMMA MinFacts ==
  ASSUME NEW S \in SUBSET Nat, S # {}
  PROVE  Min(S) \in S /\ \A x \in S : Min(S) <= x
<1> DEFINE T == {0 .. x : x \in S}
<1>1. T # {} /\ T \subseteq FiniteSubsetsOf(Nat)
  <2>1. \A x \in S : IsFiniteSet(0 .. x)
    BY FS_Interval
  <2>2. \A x \in S : 0 .. x \in FiniteSubsetsOf(Nat)
    BY <2>1 DEF FiniteSubsetsOf
  <2> QED
    BY <2>2
<1>2. IsWellFoundedOn(StrictSubsetOrdering(Nat), FiniteSubsetsOf(Nat))
  BY FS_StrictSubsetOrderingWellFounded
<1> HIDE DEF T
<1>3. PICK U \in T : \A V \in T : <<V, U>> \notin StrictSubsetOrdering(Nat)
  BY <1>1, <1>2, WFMin, Zenon
<1>4. PICK m \in S : U = 0 .. m
  BY <1>3 DEF T
<1>5. \A x \in S : m <= x
  <2> SUFFICES ASSUME NEW x \in S, x < m PROVE FALSE
    OBVIOUS
  <2>1. 0 .. x \in T
    BY DEF T
  <2>2. 0 .. x \subseteq 0 .. m /\ 0 .. x # 0 .. m
    <3>1. m \in 0 .. m /\ m \notin 0 .. x
      OBVIOUS
    <3> QED
      BY <3>1
  <2>3. <<0 .. x, 0 .. m>> \in StrictSubsetOrdering(Nat)
    BY <2>2 DEF StrictSubsetOrdering
  <2> QED
    BY <1>3, <1>4, <2>1, <2>3
<1> QED
  BY <1>5 DEF Min

\* The occurrence after t, if there is one.
LEMMA NextOccFacts ==
  ASSUME NEW k \in Keys, NEW e \in Edges, NEW t \in Nat, cron \in [Keys -> Crons]
  PROVE  /\ NextOcc(k, e, t) \in Int /\ NextOcc(k, e, t) \in Moments
         /\ NextOcc(k, e, t) > t \/ NextOcc(k, e, t) = Zero
         /\ cron[k][e].every = 0 => NextOcc(k, e, t) \in cron[k][e].occ \union {Zero}
<1> DEFINE S == {o \in cron[k][e].occ : o > t}
<1>1. cron[k][e].occ \in SUBSET Nat /\ cron[k][e].every \in Nat
  <2>1. cron[k] \in [Edges -> [occ: SUBSET Nat, every: Nat]]
    BY SchedulerAssumption
  <2> QED
    BY <2>1
<1>2. CASE cron[k][e].every > 0
  BY <1>1, <1>2 DEF NextOcc, Moments
<1>3. CASE cron[k][e].every = 0 /\ S = {}
  BY <1>1, <1>3 DEF NextOcc, Moments, Zero
<1>4. CASE cron[k][e].every = 0 /\ S # {}
  <2>1. S \in SUBSET Nat
    BY <1>1
  <2>2. Min(S) \in S
    BY <1>4, <2>1, MinFacts
  <2>3. NextOcc(k, e, t) = Min(S)
    BY <1>1, <1>4 DEF NextOcc
  <2> QED
    BY <2>1, <2>2, <2>3 DEF Moments
<1> QED
  BY <1>1, <1>2, <1>3, <1>4

-----------------------------------------------------------------------------
(* Types, and how the parts of the state go together.                      *)

Event == [type: {"create", "modify", "delete"}, key: Keys]
Repeats == [Keys -> [Edges -> 0 .. 5]]

EnvOK ==
  /\ now \in 0 .. MaxTime /\ {tick, pending, late, failed} \subseteq BOOLEAN
  /\ dates \in [Keys -> Dates]
  /\ cron \in [Keys -> Crons] /\ watch \in BOOLEAN
  /\ toLoad \in SUBSET Keys /\ missed \in SUBSET Keys
  /\ stored \in SUBSET Keys /\ mine \in SUBSET Keys /\ left \in SUBSET Keys
  /\ todo \in Seq(Event)
  /\ save \in {"idle", "range", "returned"}
  /\ moves \in 0 .. MaxMoves /\ changes \in 0 .. MaxChanges

\* Run and rebalance have a key when they need one.
ThrOK ==
  /\ thr \in [run: [at: RunStages, key: Keys \union {NoScheduler},
                    then: {"select", "check", "delete"}],
              reload: [at: ReloadStages, key: Keys \union {NoScheduler}, then: {"next"}]]
  /\ thr.run.at \notin {"load", "loading", "opening", "select", "ended", "range"} =>
       thr.run.key \in Keys
  /\ thr.reload.at \notin {"idle", "read", "next"} => thr.reload.key \in Keys
  /\ thr.run.at = "get" => thr.run.then # "delete"

\* Run handles a tick.
InTick ==
  \/ thr.run.at \in {"range", "delete", "from", "do from", "to", "do to"}
  \/ thr.run.at = "remove" /\ thr.run.then = "delete"

\* The lock is held as long as an Iter holds it, which Run's does only in a tick.
LockOK ==
  /\ lock \in {"run", "save", "none"}
  /\ iter \in [Iterators -> [at: {"off", "wait", "hold", "closed"}, items: SUBSET Keys]]
  /\ \A w \in Iterators : lock = w <=> iter[w].at = "hold"
  /\ iter.run.at # "off" <=> InTick
  /\ save = "idle" => iter.save.at = "off"

\* What Run holds is what is registered, and what an Iter has left is registered.
RegOK ==
  /\ rgt \in [Keys -> Times \union {NoScheduler}]
  /\ own \in Times /\ held \in Keys \union {NoScheduler} /\ runs \in Repeats
  /\ held # NoScheduler =>
       rgt[held] = own /\ thr.run.key = held /\ InTick /\ thr.run.at # "delete"
  /\ \A w \in Iterators : iter[w].at = "hold" => \A k \in iter[w].items : rgt[k] # NoScheduler

TypeI == EnvOK /\ ThrOK /\ LockOK /\ RegOK

LEMMA Stages ==
  /\ RunStages = {"load", "loading", "opening", "select", "ended", "get",
                  "remove", "check", "set", "range", "delete",
                  "from", "to", "do from", "do to"}
  /\ \A e \in Edges : Doing[e] \in {"do from", "do to"} /\ After[e] \in {"to", "range"}
  /\ Doing["from"] = "do from" /\ Doing["to"] = "do to"
  /\ After["from"] = "to" /\ After["to"] = "range"
<1>1. Doing["from"] = "do from" /\ Doing["to"] = "do to"
      /\ After["from"] = "to" /\ After["to"] = "range"
  BY DEF Doing, After
<1>2. {Doing[e] : e \in Edges} = {"do from", "do to"}
  BY <1>1 DEF Edges
<1> QED
  BY <1>1, <1>2 DEF RunStages, Edges

LEMMA NotTimes == NoScheduler \notin Times /\ NoScheduler \notin Keys
  BY SchedulerAssumption DEF Times, Moments, Zero

LEMMA NextTimes ==
  \A k \in Keys : EnvOK => [e \in Edges |-> NextOcc(k, e, now)] \in Times
  BY NextOccFacts DEF Times, EnvOK

LEMMA TypeFollows == TypeI => TypeOK
  BY DEF TypeI, EnvOK, ThrOK, LockOK, RegOK, TypeOK, Repeats, Event, Iterators

LEMMA InitTypes == Init => TypeI
<1> SUFFICES ASSUME Init PROVE TypeI
  OBVIOUS
<1>1. EnvOK
  <2>1. todo \in Seq(Event) /\ now \in 0 .. MaxTime /\ moves \in 0 .. MaxMoves
        /\ changes \in 0 .. MaxChanges
    BY SchedulerAssumption DEF Init
  <2> QED
    BY <2>1 DEF Init, EnvOK
<1>2. ThrOK
  BY Stages DEF Init, ThrOK, ReloadStages
<1>3. LockOK
  BY <1>2 DEF Init, LockOK, InTick, Iterators, Off
<1>4. RegOK
  <2>2. rgt \in [Keys -> Times \union {NoScheduler}]
    BY DEF Init
  <2>3. own \in Times
    BY DEF Init, NoNext, Times, Moments
  <2>4. held = NoScheduler /\ runs \in Repeats /\ \A w \in Iterators : iter[w].at # "hold"
    BY DEF Init, Repeats, Off
  <2> QED
    BY <2>2, <2>3, <2>4 DEF RegOK
<1> QED
  BY <1>1, <1>2, <1>3, <1>4 DEF TypeI

LEMMA RunGoes ==
  ASSUME ThrOK, NEW l \in RunStages, Goes("run", l), l # "get",
         l \notin {"load", "loading", "opening", "select", "ended", "range"} => thr.run.key \in Keys
  PROVE  /\ ThrOK' /\ thr'.reload = thr.reload
         /\ thr'.run.at = l /\ thr'.run.key = thr.run.key /\ thr'.run.then = thr.run.then
  BY DEF ThrOK, Goes

LEMMA ReloadGoes ==
  ASSUME ThrOK, NEW l \in ReloadStages, Goes("reload", l),
         l \notin {"idle", "read", "next"} => thr.reload.key \in Keys
  PROVE  /\ ThrOK' /\ thr'.run = thr.run
         /\ thr'.reload.at = l /\ thr'.reload.key = thr.reload.key
  BY DEF ThrOK, Goes

\* Steps that leave the registry and its iterators alone.
LEMMA KeepReg ==
  ASSUME TypeI, UNCHANGED <<rgt, lock, iter, own, held, runs>>,
         InTick' <=> InTick, save' = "idle" => save = "idle",
         held # NoScheduler => thr'.run.key = thr.run.key /\ thr'.run.at # "delete"
  PROVE  LockOK' /\ RegOK'
  BY DEF TypeI, LockOK, RegOK

\* Writes of a key.
LEMMA WriteTypes ==
  ASSUME EnvOK, NEW k \in Keys, Put(k) \/ Delete(k)
  PROVE  /\ todo' \in Seq(Event) /\ stored' \in SUBSET Keys /\ missed' \in SUBSET Keys
         /\ UNCHANGED <<watch, toLoad>>
<1>1. ASSUME NEW type \in {"create", "modify", "delete"}, Tell(k, type)
      PROVE  todo' \in Seq(Event) /\ missed' \in SUBSET Keys /\ UNCHANGED <<watch, toLoad>>
  <2>1. [type |-> type, key |-> k] \in Event
    BY DEF Event
  <2>2. todo' \in Seq(Event)
    BY <1>1, <2>1 DEF EnvOK, Tell
  <2>3. missed' \in SUBSET Keys /\ UNCHANGED <<watch, toLoad>>
    BY <1>1 DEF EnvOK, Tell
  <2> QED
    BY <2>2, <2>3
<1>2. CASE Put(k)
  BY <1>1, <1>2 DEF EnvOK, Put
<1>3. CASE Delete(k)
  BY <1>1, <1>3 DEF EnvOK, Delete
<1> QED
  BY <1>2, <1>3

LEMMA ClockTypes ==
  ASSUME TypeI, Clock
  PROVE  TypeI'
<1>1. UNCHANGED <<dates, cron, mine, pending, moves, stored, watch, todo, toLoad, missed, changes, failed, rgt, lock, iter,
                  thr, own, held, runs, left, save>>
  BY DEF Clock, etcdVars, regVars, itemVars
<1>2. EnvOK'
  BY <1>1, SchedulerAssumption DEF TypeI, EnvOK, Clock
<1>3. ThrOK' /\ (InTick' <=> InTick)
  BY <1>1 DEF TypeI, ThrOK, InTick
<1> QED
  BY <1>1, <1>2, <1>3, KeepReg DEF TypeI, RegOK

\* Changes of the ring and of etcd.
LEMMA OthersTypes ==
  ASSUME TypeI,
         RingMoves \/ \E k \in Keys : CreateScheduler(k) \/ DeleteScheduler(k)
  PROVE  TypeI'
<1>1. UNCHANGED <<now, tick, dates, cron, late, failed, rgt, lock, iter, thr, own, held, runs, left,
                  save>>
  BY DEF RingMoves, CreateScheduler, DeleteScheduler, inputs, etcdVars, regVars, itemVars
<1>2. EnvOK'
  <2>1. CASE RingMoves
    BY <1>1, <2>1, SchedulerAssumption DEF TypeI, EnvOK, RingMoves, etcdVars
  <2>2. ASSUME NEW k \in Keys, CreateScheduler(k) PROVE EnvOK'
    <3>1. /\ todo' \in Seq(Event) /\ stored' \in SUBSET Keys /\ missed' \in SUBSET Keys
          /\ UNCHANGED <<watch, toLoad>>
      BY <2>2, WriteTypes DEF TypeI, CreateScheduler
    <3> QED
      BY <1>1, <2>2, <3>1, SchedulerAssumption
      DEF TypeI, EnvOK, CreateScheduler, Change, inputs
  <2>3. ASSUME NEW k \in Keys, DeleteScheduler(k) PROVE EnvOK'
    <3>1. /\ todo' \in Seq(Event) /\ stored' \in SUBSET Keys /\ missed' \in SUBSET Keys
          /\ UNCHANGED <<watch, toLoad>>
      BY <2>3, WriteTypes DEF TypeI, DeleteScheduler
    <3> QED
      BY <1>1, <2>3, <3>1, SchedulerAssumption
      DEF TypeI, EnvOK, DeleteScheduler, Change, inputs
  <2> QED
    BY <2>1, <2>2, <2>3
<1>3. ThrOK' /\ (InTick' <=> InTick)
  BY <1>1 DEF TypeI, ThrOK, InTick
<1> QED
  BY <1>1, <1>2, <1>3, KeepReg DEF TypeI, RegOK

\* A step of Run only: rebalance stands still, and time, ring and the moves do.
RunOnly ==
  /\ UNCHANGED <<now, dates, cron, mine, pending, moves, late, left, save>>
  /\ thr'.reload = thr.reload

\* load's steps, and the watch.
LEMMA LoadFacts ==
  ASSUME TypeI, LoadStep
  PROVE  /\ \/ UNCHANGED <<inputs, stored, watch, todo, regVars, itemVars, left, save>>
            \/ OpenWatch /\ UNCHANGED <<inputs, stored, todo, regVars, itemVars, left, save>>
         /\ EnvOK' /\ ThrOK' /\ thr'.reload = thr.reload
         /\ thr.run.at \in {"load", "loading", "opening"}
         /\ thr'.run.at \in {"loading", "opening", "check", "select"}
<1> USE DEF At
<1>1. thr \in [run: [at: RunStages, key: Keys \union {NoScheduler},
                     then: {"select", "check", "delete"}],
               reload: [at: ReloadStages, key: Keys \union {NoScheduler}, then: {"next"}]]
  BY DEF TypeI, ThrOK
<1>2. ASSUME LoadReads \/ LoadFails \/ LoadEnds \/ OpenWatch
      PROVE  /\ ThrOK' /\ thr'.reload = thr.reload
             /\ thr'.run.at \in {"loading", "opening", "select"}
  <2>1. PICK l \in {"loading", "opening", "select"} : Goes("run", l)
    BY <1>2 DEF LoadReads, LoadFails, LoadEnds, OpenWatch
  <2> QED
    BY <2>1, Stages, RunGoes DEF TypeI
<1>3. ASSUME NEW k \in Keys, LoadKey(k)
      PROVE  ThrOK' /\ thr'.reload = thr.reload /\ thr'.run.at = "check"
  BY <1>1, <1>3, Stages DEF TypeI, ThrOK, LoadKey
<1>4. ASSUME NEW k \in Keys, LoadSkips(k)
      PROVE  ThrOK' /\ thr'.reload = thr.reload /\ thr'.run.at = "loading"
  BY <1>4 DEF TypeI, ThrOK, LoadSkips
<1>5. ASSUME LoadReads \/ LoadEnds \/ OpenWatch \/ \E k \in Keys : LoadKey(k) \/ LoadSkips(k)
      PROVE  EnvOK'
  <2>1. /\ UNCHANGED <<inputs, stored, todo, changes, failed, left, save>>
        /\ watch' \in BOOLEAN /\ toLoad' \in SUBSET Keys /\ missed' \in SUBSET Keys
    BY <1>5 DEF LoadReads, LoadEnds, OpenWatch, LoadKey, LoadSkips, etcdVars, TypeI, EnvOK
  <2> QED
    BY <2>1 DEF TypeI, EnvOK, inputs
<1>6. ASSUME LoadFails PROVE EnvOK'
  <2>1. /\ UNCHANGED <<inputs, stored, watch, todo, toLoad, missed, left, save>>
        /\ changes' \in 0 .. MaxChanges /\ failed' \in BOOLEAN
    BY <1>6, SchedulerAssumption DEF LoadFails, RequestFails, Change, TypeI, EnvOK
  <2> QED
    BY <2>1 DEF TypeI, EnvOK, inputs
<1>7. /\ \/ UNCHANGED <<inputs, stored, watch, todo, regVars, itemVars, left, save>>
         \/ OpenWatch /\ UNCHANGED <<inputs, stored, todo, regVars, itemVars, left, save>>
      /\ thr.run.at \in {"load", "loading", "opening"}
  BY DEF LoadStep, LoadReads, LoadFails, LoadEnds, OpenWatch, LoadKey, LoadSkips, RequestFails,
         etcdVars
<1> QED
  BY <1>2, <1>3, <1>4, <1>5, <1>6, <1>7 DEF LoadStep

\* Run's steps with an event, those of load before it, and its end.
LEMMA EventTypes ==
  ASSUME TypeI,
         \/ RunStops \/ WatchFails \/ TakeEvent \/ LookUp \/ LoadStep \/ StoreCheck("run")
  PROVE  /\ TypeI' /\ RunOnly /\ UNCHANGED <<tick, rgt, lock, iter, own, held, runs>>
         /\ ~InTick /\ ~InTick' /\ held = NoScheduler
<1> USE DEF At, Goes
<1>1. /\ UNCHANGED <<now, tick, dates, cron, mine, pending, moves, late, left, save, rgt, lock, iter,
                     own, held, runs>>
      /\ thr.run.at \in {"load", "loading", "opening", "select", "get", "check"} /\ ~InTick
  BY LoadFacts
  DEF RunStops, WatchFails, TakeEvent, LookUp, StoreCheck, inputs, regVars, itemVars, InTick
<1>2. thr \in [run: [at: RunStages, key: Keys \union {NoScheduler},
                     then: {"select", "check", "delete"}],
               reload: [at: ReloadStages, key: Keys \union {NoScheduler}, then: {"next"}]]
  BY DEF TypeI, ThrOK
<1>3. ASSUME RunStops \/ WatchFails
      PROVE  thr'.run.at = "ended" /\ thr'.reload = thr.reload /\ ThrOK'
  BY <1>3, Stages, RunGoes DEF TypeI, RunStops, WatchFails
<1>4. ASSUME TakeEvent
      PROVE  thr'.run.at \in {"check", "get"} /\ thr'.reload = thr.reload /\ ThrOK'
             /\ todo' \in Seq(Event)
  <2>1. Head(todo) \in Event /\ Tail(todo) \in Seq(Event)
    BY <1>4 DEF TypeI, EnvOK, TakeEvent
  <2>2. Head(todo).key \in Keys
    BY <2>1 DEF Event
  <2> QED
    BY <1>2, <1>4, <2>1, <2>2, Stages DEF TypeI, ThrOK, TakeEvent, FirstStep
<1>5. ASSUME LookUp
      PROVE  thr'.run.at \in {"select", "remove"} /\ thr'.run.then = thr.run.then
             /\ thr.run.then # "delete" /\ thr'.reload = thr.reload /\ ThrOK'
  BY <1>2, <1>5, Stages DEF TypeI, ThrOK, LookUp
<1>6. ASSUME StoreCheck("run")
      PROVE  thr'.run.at \in {"set", "select", "loading"} /\ thr'.reload = thr.reload /\ ThrOK'
  BY <1>2, <1>6, Stages DEF TypeI, ThrOK, StoreCheck, Home
<1>7. ThrOK' /\ thr'.reload = thr.reload /\ ~InTick'
  BY <1>3, <1>4, <1>5, <1>6, LoadFacts DEF InTick
<1>8. EnvOK'
  <2>1. CASE LoadStep
    BY <2>1, LoadFacts
  <2>2. CASE ~LoadStep
    <3>1. /\ todo' \in Seq(Event) /\ UNCHANGED <<stored, watch, toLoad, missed>>
          /\ changes' \in 0 .. MaxChanges /\ failed' \in BOOLEAN
      <4>1. CASE WatchFails
        BY <4>1, SchedulerAssumption DEF TypeI, EnvOK, WatchFails, RequestFails, Change
      <4>2. CASE TakeEvent
        BY <1>4, <4>2 DEF TypeI, EnvOK, TakeEvent
      <4>3. CASE RunStops \/ LookUp \/ StoreCheck("run")
        BY <4>3 DEF TypeI, EnvOK, RunStops, LookUp, StoreCheck, etcdVars
      <4> QED
        BY <2>2, <4>1, <4>2, <4>3
    <3> QED
      BY <1>1, <3>1 DEF TypeI, EnvOK
  <2> QED
    BY <2>1, <2>2
<1>9. held = NoScheduler
  BY <1>1 DEF TypeI, RegOK
<1> QED
  BY <1>1, <1>7, <1>8, <1>9, KeepReg DEF TypeI, RunOnly

\* storeScheduler registers a new scheduler, here or in rebalance.
LEMMA StoreSetTypes ==
  ASSUME TypeI, NEW t \in Threads, StoreSet(t)
  PROVE  /\ TypeI' /\ (InTick' <=> InTick)
         /\ lock = "none" /\ thr[t].at = "set" /\ thr[t].key \in Keys
         /\ rgt' = [rgt EXCEPT ![thr[t].key] = [e \in Edges |-> NextOcc(thr[t].key, e, now)]]
         /\ [e \in Edges |-> NextOcc(thr[t].key, e, now)] \in Times
         /\ runs' = [runs EXCEPT ![thr[t].key] = [e \in Edges |-> 0]]
         /\ held' = IF held = thr[t].key THEN NoScheduler ELSE held
         /\ t = "run" => ~InTick /\ thr'.reload = thr.reload /\ thr'.run.at \in {"select", "loading"}
         /\ t = "reload" => thr'.run = thr.run /\ thr'.reload.at = "next"
<1> USE DEF At, Goes
<1>1. thr \in [run: [at: RunStages, key: Keys \union {NoScheduler},
                     then: {"select", "check", "delete"}],
               reload: [at: ReloadStages, key: Keys \union {NoScheduler}, then: {"next"}]]
  BY DEF TypeI, ThrOK
<1>2. UNCHANGED <<now, tick, dates, cron, mine, pending, moves, late, stored, watch, todo, toLoad, missed, changes, failed,
                  lock, iter, own, left, save>>
  BY DEF StoreSet, inputs, etcdVars
<1>3. t \in {"run", "reload"} /\ thr[t].at = "set" /\ lock = "none"
  BY DEF StoreSet, Free, Threads
<1>4. thr[t].key \in Keys
  BY <1>1, <1>3 DEF TypeI, ThrOK
<1>5. /\ t = "run" => ~InTick /\ thr'.reload = thr.reload /\ thr'.run.at \in {"select", "loading"}
                      /\ thr'.run.key = thr.run.key /\ thr'.run.then = thr.run.then
      /\ t = "reload" => thr'.run = thr.run /\ thr'.reload.at = "next"
                         /\ thr'.reload.key = thr.reload.key
      /\ ThrOK'
  BY <1>1, <1>3, Stages DEF StoreSet, Home, TypeI, ThrOK, InTick, ReloadStages
<1>6. InTick' <=> InTick
  BY <1>3, <1>5 DEF InTick
<1>7. [e \in Edges |-> NextOcc(thr[t].key, e, now)] \in Times
  BY <1>4, NextTimes DEF TypeI
<1>8. /\ rgt' = [rgt EXCEPT ![thr[t].key] = [e \in Edges |-> NextOcc(thr[t].key, e, now)]]
      /\ held' = IF held = thr[t].key THEN NoScheduler ELSE held
      /\ runs' = [runs EXCEPT ![thr[t].key] = [e \in Edges |-> 0]]
  BY DEF StoreSet, Register
<1>9. EnvOK' /\ LockOK'
  BY <1>2, <1>6 DEF TypeI, EnvOK, LockOK
<1>10. RegOK'
  <2>1. rgt' \in [Keys -> Times \union {NoScheduler}]
    BY <1>4, <1>7, <1>8 DEF TypeI, RegOK
  <2>2. runs' \in Repeats
    BY <1>4, <1>8 DEF TypeI, RegOK, Repeats
  <2>3. held' # NoScheduler => held' = held /\ rgt'[held] = rgt[held]
                               /\ thr'.run.key = thr.run.key /\ thr'.run.at = thr.run.at
    BY <1>3, <1>4, <1>5, <1>8 DEF TypeI, RegOK
  <2>4. \A w \in Iterators : iter[w].at # "hold"
    BY <1>3 DEF TypeI, LockOK, Iterators
  <2> QED
    BY <1>2, <1>6, <1>8, <2>1, <2>2, <2>3, <2>4 DEF TypeI, RegOK
<1> QED
  BY <1>3, <1>4, <1>5, <1>6, <1>7, <1>8, <1>9, <1>10 DEF TypeI

\* removeScheduler takes a scheduler out of the registry.
LEMMA RemoveTypes ==
  ASSUME TypeI, NEW t \in Threads, Remove(t)
  PROVE  /\ TypeI' /\ (InTick' <=> InTick)
         /\ lock = "none" /\ thr[t].at = "remove" /\ thr[t].key \in Keys
         /\ rgt' = [rgt EXCEPT ![thr[t].key] = NoScheduler]
         /\ held' = IF held = thr[t].key THEN NoScheduler ELSE held
         /\ t = "run" => thr'.reload = thr.reload /\ thr'.run.at = thr.run.then
                         /\ thr'.run.key = thr.run.key /\ thr'.run.then = thr.run.then
         /\ t = "reload" => thr'.run = thr.run /\ thr'.reload.at = "next"
<1> USE DEF At, Goes
<1>1. thr \in [run: [at: RunStages, key: Keys \union {NoScheduler},
                     then: {"select", "check", "delete"}],
               reload: [at: ReloadStages, key: Keys \union {NoScheduler}, then: {"next"}]]
  BY DEF TypeI, ThrOK
<1>2. UNCHANGED <<now, tick, dates, cron, mine, pending, moves, late, stored, watch, todo, toLoad, missed, changes, failed,
                  lock, iter, own, runs, left, save>>
  BY DEF Remove, inputs, etcdVars
<1>3. t \in {"run", "reload"} /\ thr[t].at = "remove" /\ lock = "none"
  BY DEF Remove, Free, Threads
<1>4. thr[t].key \in Keys
  BY <1>1, <1>3 DEF TypeI, ThrOK
<1>5. /\ t = "run" => thr'.reload = thr.reload /\ thr'.run.at = thr.run.then
                      /\ thr'.run.key = thr.run.key /\ thr'.run.then = thr.run.then
      /\ t = "reload" => thr'.run = thr.run /\ thr'.reload.at = "next"
                         /\ thr'.reload.key = thr.reload.key
      /\ ThrOK'
  BY <1>1, <1>3, Stages DEF Remove, TypeI, ThrOK, ReloadStages
<1>6. InTick' <=> InTick
  BY <1>1, <1>3, <1>5 DEF InTick
<1>7. /\ rgt' = [rgt EXCEPT ![thr[t].key] = NoScheduler]
      /\ held' = IF held = thr[t].key THEN NoScheduler ELSE held
  BY DEF Remove, Register
<1>8. EnvOK' /\ LockOK'
  BY <1>2, <1>6 DEF TypeI, EnvOK, LockOK
<1>9. RegOK'
  <2>1. rgt' \in [Keys -> Times \union {NoScheduler}]
    BY <1>4, <1>7 DEF TypeI, RegOK
  <2>2. held' # NoScheduler => /\ held' = held /\ rgt'[held] = rgt[held] /\ t = "reload"
                               /\ thr'.run.key = thr.run.key /\ thr'.run.at = thr.run.at
    BY <1>3, <1>4, <1>5, <1>7 DEF TypeI, RegOK
  <2>3. \A w \in Iterators : iter[w].at # "hold"
    BY <1>3 DEF TypeI, LockOK, Iterators
  <2> QED
    BY <1>2, <1>6, <1>7, <2>1, <2>2, <2>3 DEF TypeI, RegOK
<1> QED
  BY <1>3, <1>4, <1>5, <1>6, <1>7, <1>8, <1>9 DEF TypeI


\* Iter's goroutine takes the lock and gives it back.
LEMMA IterTypes ==
  ASSUME TypeI, NEW w \in Iterators, IterLocks(w) \/ IterCloses(w)
  PROVE  /\ TypeI'
         /\ UNCHANGED <<inputs, etcdVars, rgt, thr, itemVars, left, save>>
         /\ \A v \in Iterators : iter'[v].at = "wait" => iter[v].at = "wait"
         /\ \A v \in Iterators : iter'[v].at \in {"wait", "hold"} => iter[v].at \in {"wait", "hold"}
         /\ iter.run.at = "hold" /\ iter'.run.at = "hold" => iter'.run.items = iter.run.items
<1>1. UNCHANGED <<inputs, etcdVars, rgt, thr, itemVars, left, save>>
  BY DEF IterLocks, IterCloses
<1>2. iter \in [Iterators -> [at: {"off", "wait", "hold", "closed"}, items: SUBSET Keys]]
      /\ (\A v \in Iterators : lock = v <=> iter[v].at = "hold") /\ lock \in {"run", "save", "none"}
  BY DEF TypeI, LockOK
<1>3. w \in {"run", "save"}
  BY DEF Iterators
<1>4. CASE IterLocks(w)
  <2> DEFINE new == [at |-> "hold", items |-> {k \in Keys : rgt[k] # NoScheduler}]
  <2>1. iter[w].at = "wait" /\ lock = "none" /\ lock' = w /\ iter' = [iter EXCEPT ![w] = new]
    BY <1>4 DEF IterLocks, Free
  <2>2. iter' \in [Iterators -> [at: {"off", "wait", "hold", "closed"}, items: SUBSET Keys]]
    BY <1>2, <2>1
  <2>3. iter'[w] = new /\ \A v \in Iterators : v # w => iter'[v] = iter[v] /\ iter[v].at # "hold"
    BY <1>2, <2>1 DEF Iterators
  <2>4. LockOK'
    BY <1>1, <1>2, <1>3, <2>1, <2>2, <2>3 DEF TypeI, LockOK, InTick, Iterators
  <2>5. \A v \in Iterators : iter'[v].at = "hold" => \A k \in iter'[v].items : rgt[k] # NoScheduler
    BY <2>3
  <2>6. RegOK'
    BY <1>1, <2>5 DEF TypeI, RegOK, itemVars, InTick
  <2> QED
    BY <1>1, <1>3, <2>1, <2>3, <2>4, <2>6
    DEF TypeI, EnvOK, ThrOK, inputs, etcdVars, Iterators
<1>5. CASE IterCloses(w)
  <2>1. /\ iter[w].at = "hold" /\ lock = w /\ lock' = "none"
        /\ iter' = [iter EXCEPT ![w].at = "closed"]
    BY <1>2, <1>5 DEF IterCloses
  <2>2. iter' \in [Iterators -> [at: {"off", "wait", "hold", "closed"}, items: SUBSET Keys]]
    BY <1>2, <2>1
  <2>3. /\ iter'[w].at = "closed"
        /\ \A v \in Iterators : v # w => iter'[v] = iter[v] /\ iter[v].at # "hold"
    BY <1>2, <2>1 DEF Iterators
  <2>4. LockOK'
    BY <1>1, <1>2, <1>3, <2>1, <2>2, <2>3 DEF TypeI, LockOK, InTick, Iterators
  <2>5. RegOK'
    BY <1>1, <2>3 DEF TypeI, RegOK, itemVars, InTick
  <2> QED
    BY <1>1, <1>3, <2>1, <2>3, <2>4, <2>5
    DEF TypeI, EnvOK, ThrOK, inputs, etcdVars, Iterators
<1> QED
  BY <1>4, <1>5

\* What TakeItem does to the iterators.
LEMMA ItemFacts ==
  ASSUME TypeI, NEW w \in Iterators, NEW k \in Keys, TakeItem(w, k)
  PROVE  /\ iter' \in [Iterators -> [at: {"off", "wait", "hold", "closed"}, items: SUBSET Keys]]
         /\ \A v \in Iterators : iter'[v].at = iter[v].at /\ iter'[v].items \subseteq iter[v].items
         /\ iter'[w].items = iter[w].items \ {k}
         /\ iter[w].at = "hold" /\ lock = w /\ rgt[k] # NoScheduler
<1>1. iter \in [Iterators -> [at: {"off", "wait", "hold", "closed"}, items: SUBSET Keys]]
  BY DEF TypeI, LockOK
<1>2. iter[w].at = "hold" /\ k \in iter[w].items
      /\ iter' = [iter EXCEPT ![w].items = iter[w].items \ {k}]
  BY DEF TakeItem
<1>3. iter' \in [Iterators -> [at: {"off", "wait", "hold", "closed"}, items: SUBSET Keys]]
  BY <1>1, <1>2
<1>4. \A v \in Iterators : iter'[v].at = iter[v].at
  BY <1>1, <1>2
<1>5. iter'[w].items = iter[w].items \ {k} /\ \A v \in Iterators : v # w => iter'[v] = iter[v]
  BY <1>1, <1>2
<1> QED
  BY <1>2, <1>3, <1>4, <1>5 DEF TypeI, LockOK, RegOK

\* A tick begins.
LEMMA TakeTickTypes ==
  ASSUME TypeI, TakeTick
  PROVE  /\ TypeI' /\ RunOnly /\ UNCHANGED <<etcdVars, rgt, itemVars>>
         /\ ~InTick /\ thr.run.at = "select" /\ InTick' /\ thr'.run.at = "range"
         /\ tick /\ ~tick' /\ held = NoScheduler
         /\ iter.run.at = "off" /\ iter'.run.at = "wait"
<1>1. UNCHANGED <<now, dates, cron, mine, pending, moves, late, etcdVars, rgt, lock, itemVars, left, save>>
      /\ thr.run.at = "select" /\ tick /\ tick' = FALSE /\ Goes("run", "range")
  BY DEF TakeTick, At
<1>2. iter \in [Iterators -> [at: {"off", "wait", "hold", "closed"}, items: SUBSET Keys]]
      /\ (\A v \in Iterators : lock = v <=> iter[v].at = "hold") /\ lock \in {"run", "save", "none"}
  BY DEF TypeI, LockOK
<1>3. ~InTick /\ iter.run.at = "off"
  BY <1>1, <1>2 DEF TypeI, LockOK, InTick, Iterators
<1>4. iter' = [iter EXCEPT !["run"].at = "wait"]
  BY DEF TakeTick
<1>5. /\ iter' \in [Iterators -> [at: {"off", "wait", "hold", "closed"}, items: SUBSET Keys]]
      /\ iter'.run.at = "wait" /\ iter'.save = iter.save
  BY <1>2, <1>4 DEF Iterators
<1>6. ThrOK' /\ thr'.reload = thr.reload /\ thr'.run.at = "range"
  BY <1>1, Stages, RunGoes DEF TypeI
<1>7. InTick'
  BY <1>6 DEF InTick
<1>8. held = NoScheduler
  BY <1>3 DEF TypeI, RegOK
<1>9. LockOK'
  <2>1. \A v \in Iterators : lock' = v <=> iter'[v].at = "hold"
    BY <1>1, <1>2, <1>3, <1>5 DEF Iterators
  <2> QED
    BY <1>1, <1>5, <1>7, <2>1 DEF TypeI, LockOK
<1>10. RegOK'
  BY <1>1, <1>5, <1>8 DEF TypeI, RegOK, itemVars, Iterators
<1>11. EnvOK'
  BY <1>1 DEF TypeI, EnvOK, etcdVars
<1> QED
  BY <1>1, <1>3, <1>5, <1>6, <1>7, <1>8, <1>9, <1>10, <1>11 DEF TypeI, RunOnly

\* Run takes the next scheduler, or passes over it.
LEMMA TakeSchedulerTypes ==
  ASSUME TypeI, NEW k \in Keys, TakeScheduler(k) \/ SkipScheduler(k)
  PROVE  /\ TypeI' /\ RunOnly /\ UNCHANGED <<tick, etcdVars, rgt, lock, runs>>
         /\ thr.run.at = "range" /\ InTick /\ InTick'
         /\ iter'.run.at = iter.run.at /\ iter.run.at = "hold"
         /\ k \in iter.run.items /\ iter'.run.items = iter.run.items \ {k}
         /\ rgt[k] # NoScheduler
         /\ TakeScheduler(k) =>
              /\ thr'.run = [at |-> IF IsExpired(k) THEN "remove" ELSE "from", key |-> k,
                             then |-> "delete"]
              /\ own' = rgt[k] /\ held' = k /\ IsActive(k)
         /\ SkipScheduler(k) => UNCHANGED <<thr, own, held>> /\ ~IsActive(k)
<1>1. /\ UNCHANGED <<inputs, etcdVars, rgt, lock, runs, left, save>>
      /\ thr.run.at = "range" /\ TakeItem("run", k)
  BY DEF TakeScheduler, SkipScheduler, itemVars, At
<1>2. "run" \in Iterators
  BY DEF Iterators
<1>3. /\ iter' \in [Iterators -> [at: {"off", "wait", "hold", "closed"}, items: SUBSET Keys]]
      /\ \A v \in Iterators : iter'[v].at = iter[v].at /\ iter'[v].items \subseteq iter[v].items
      /\ iter'.run.items = iter.run.items \ {k}
      /\ iter.run.at = "hold" /\ lock = "run" /\ rgt[k] # NoScheduler
  BY <1>1, <1>2, ItemFacts
<1>4. thr \in [run: [at: RunStages, key: Keys \union {NoScheduler},
                     then: {"select", "check", "delete"}],
               reload: [at: ReloadStages, key: Keys \union {NoScheduler}, then: {"next"}]]
  BY DEF TypeI, ThrOK
<1>5. /\ TakeScheduler(k) =>
              /\ thr'.run = [at |-> IF IsExpired(k) THEN "remove" ELSE "from", key |-> k,
                             then |-> "delete"]
              /\ thr'.reload = thr.reload
              /\ own' = rgt[k] /\ held' = k /\ IsActive(k)
      /\ SkipScheduler(k) => UNCHANGED <<thr, own, held>> /\ ~IsActive(k)
  BY <1>4 DEF TakeScheduler, SkipScheduler, itemVars
<1>6. ThrOK' /\ InTick /\ InTick'
  <2>1. CASE TakeScheduler(k)
    <3>1. thr' \in [run: [at: RunStages, key: Keys \union {NoScheduler},
                     then: {"select", "check", "delete"}],
               reload: [at: ReloadStages, key: Keys \union {NoScheduler}, then: {"next"}]]
      BY <1>4, <2>1, Stages DEF TakeScheduler
    <3>2. /\ thr'.run.at \in {"remove", "from"} /\ thr'.run.key = k /\ thr'.run.then = "delete"
          /\ thr'.reload = thr.reload
      BY <1>5, <2>1
    <3> QED
      BY <1>1, <3>1, <3>2 DEF TypeI, ThrOK, InTick
  <2>2. CASE SkipScheduler(k)
    BY <1>1, <1>5, <2>2 DEF TypeI, ThrOK, InTick
  <2> QED
    BY <2>1, <2>2
<1>7. EnvOK' /\ LockOK'
  <2>1. EnvOK'
    BY <1>1 DEF TypeI, EnvOK, inputs, etcdVars
  <2>2. LockOK'
    BY <1>1, <1>2, <1>3, <1>6 DEF TypeI, LockOK, Iterators
  <2> QED
    BY <2>1, <2>2
<1>8. RegOK'
  <2>1. rgt[k] \in Times
    BY <1>3 DEF TypeI, RegOK
  <2>2. own' \in Times /\ held' \in Keys \union {NoScheduler}
    BY <1>5, <2>1 DEF TypeI, RegOK, TakeScheduler, SkipScheduler
  <2>3. held' # NoScheduler =>
          rgt'[held'] = own' /\ thr'.run.key = held' /\ InTick' /\ thr'.run.at # "delete"
    BY <1>1, <1>5, <1>6 DEF TypeI, RegOK
  <2> QED
    BY <1>1, <1>3, <2>2, <2>3 DEF TypeI, RegOK
<1>9. iter'.run.at = iter.run.at /\ k \in iter.run.items
  BY <1>1, <1>2, <1>3 DEF TakeItem
<1>10. RunOnly /\ UNCHANGED tick
  BY <1>1, <1>5 DEF RunOnly, inputs
<1> QED
  BY <1>1, <1>3, <1>5, <1>6, <1>7, <1>8, <1>9, <1>10 DEF TypeI

\* The key of an expired scheduler is deleted, or the request fails.
LEMMA DeleteExpiredTypes ==
  ASSUME TypeI, DeleteExpired \/ DeleteExpiredFails
  PROVE  /\ TypeI' /\ RunOnly /\ UNCHANGED <<tick, rgt, lock, iter, own, held, runs>>
         /\ InTick /\ InTick' /\ held = NoScheduler
         /\ thr.run.at = "delete" /\ thr.run.key \in Keys
         /\ thr'.run.at = "from" /\ thr'.run.key = thr.run.key /\ thr'.run.then = thr.run.then
<1>1. /\ UNCHANGED <<inputs, regVars, itemVars, left, save>> /\ thr.run.at = "delete"
      /\ Goes("run", "from")
  BY DEF DeleteExpired, DeleteExpiredFails, At
<1>2. thr.run.key \in Keys /\ held = NoScheduler /\ InTick
  BY <1>1 DEF TypeI, ThrOK, RegOK, InTick
<1>3. /\ ThrOK' /\ thr'.reload = thr.reload
      /\ thr'.run.at = "from" /\ thr'.run.key = thr.run.key /\ thr'.run.then = thr.run.then
  BY <1>1, <1>2, Stages, RunGoes DEF TypeI
<1>4. InTick'
  BY <1>3 DEF InTick
<1>5. /\ todo' \in Seq(Event) /\ stored' \in SUBSET Keys /\ missed' \in SUBSET Keys
      /\ UNCHANGED <<watch, toLoad>>
      /\ changes' \in 0 .. MaxChanges /\ failed' \in BOOLEAN
  <2>1. CASE DeleteExpired
    <3>1. Delete(thr.run.key) /\ UNCHANGED <<changes, failed>>
      BY <2>1 DEF DeleteExpired
    <3> QED
      BY <1>2, <3>1, WriteTypes DEF TypeI, EnvOK
  <2>2. CASE DeleteExpiredFails
    BY <2>2, SchedulerAssumption DEF TypeI, EnvOK, DeleteExpiredFails, RequestFails, Change
  <2> QED
    BY <2>1, <2>2
<1>6. EnvOK'
  BY <1>1, <1>5 DEF TypeI, EnvOK, inputs
<1>7. LockOK' /\ RegOK'
  BY <1>1, <1>2, <1>3, <1>4, KeepReg DEF regVars, itemVars
<1> QED
  BY <1>1, <1>2, <1>3, <1>4, <1>6, <1>7 DEF TypeI, RunOnly, inputs, regVars, itemVars

\* An action starts, is not due, or returns.
LEMMA ActionTypes ==
  ASSUME TypeI, NEW e \in Edges, Execute(e) \/ NotDue(e) \/ Forward(e)
  PROVE  /\ TypeI' /\ RunOnly /\ UNCHANGED <<tick, etcdVars, lock, iter, held>>
         /\ InTick /\ InTick' /\ thr.run.key \in Keys
         /\ thr'.run.key = thr.run.key /\ thr'.run.then = thr.run.then
         /\ Execute(e) => /\ thr.run.at = e /\ thr'.run.at = Doing[e] /\ IsDue(e)
                          /\ UNCHANGED <<own, rgt>>
         /\ NotDue(e) => /\ thr.run.at = e /\ thr'.run.at = After[e] /\ ~IsDue(e)
                         /\ UNCHANGED <<own, rgt, runs>>
         /\ Forward(e) => /\ thr.run.at = Doing[e] /\ thr'.run.at = After[e]
                          /\ own' = [own EXCEPT ![e] = Forwarded(e)]
                          /\ Forwarded(e) \in Moments
                          /\ held # NoScheduler =>
                               rgt' = [rgt EXCEPT ![held] = own'] /\ rgt'[held] = own'
                          /\ held = NoScheduler => rgt' = rgt
<1>1. /\ UNCHANGED <<inputs, etcdVars, lock, iter, held, left, save>>
      /\ thr.run.at \in {"from", "to", "do from", "do to"}
  BY Stages DEF Execute, NotDue, Forward, At, regVars, itemVars, Edges
<1>2. thr.run.key \in Keys /\ InTick /\ (held # NoScheduler => thr.run.key = held)
  BY <1>1 DEF TypeI, ThrOK, RegOK, InTick
<1>3. /\ ThrOK' /\ thr'.reload = thr.reload
      /\ thr'.run.at \in {"do from", "do to", "to", "range"}
      /\ thr'.run.key = thr.run.key /\ thr'.run.then = thr.run.then
      /\ Execute(e) => thr.run.at = e /\ thr'.run.at = Doing[e]
      /\ NotDue(e) => thr.run.at = e /\ thr'.run.at = After[e]
      /\ Forward(e) => thr.run.at = Doing[e] /\ thr'.run.at = After[e]
  <2>1. PICK l \in {"do from", "do to", "to", "range"} :
          /\ Goes("run", l) /\ (Execute(e) => l = Doing[e])
          /\ NotDue(e) \/ Forward(e) => l = After[e]
    <3>1. CASE Execute(e)
      <4>1. Doing[e] \in {"do from", "do to"} /\ Goes("run", Doing[e])
        BY <3>1, Stages DEF Execute
      <4>2. ~NotDue(e) /\ ~Forward(e)
        BY <3>1, Stages DEF Execute, NotDue, Forward, At, Edges
      <4> QED
        BY <4>1, <4>2
    <3>2. CASE ~Execute(e)
      <4>1. After[e] \in {"to", "range"} /\ Goes("run", After[e])
        BY <3>2, Stages DEF NotDue, Forward
      <4> QED
        BY <3>2, <4>1
    <3> QED
      BY <3>1, <3>2
  <2>2. /\ ThrOK' /\ thr'.reload = thr.reload
        /\ thr'.run.at = l /\ thr'.run.key = thr.run.key /\ thr'.run.then = thr.run.then
    BY <1>2, <2>1, Stages, RunGoes DEF TypeI
  <2> QED
    BY <2>1, <2>2 DEF Execute, NotDue, Forward, At
<1>4. InTick'
  BY <1>3 DEF InTick
<1>5. Forward(e) => /\ own' = [own EXCEPT ![e] = Forwarded(e)] /\ Forwarded(e) \in Moments
                    /\ own' \in Times
                    /\ held # NoScheduler =>
                         rgt' = [rgt EXCEPT ![held] = own'] /\ rgt'[held] = own'
                    /\ held = NoScheduler => rgt' = rgt
  <2> SUFFICES ASSUME Forward(e)
               PROVE  /\ own' = [own EXCEPT ![e] = Forwarded(e)] /\ Forwarded(e) \in Moments
                      /\ own' \in Times
                      /\ held # NoScheduler =>
                           rgt' = [rgt EXCEPT ![held] = own'] /\ rgt'[held] = own'
                      /\ held = NoScheduler => rgt' = rgt
    OBVIOUS
  <2>1. own' = [own EXCEPT ![e] = Forwarded(e)]
        /\ rgt' = IF held = thr.run.key THEN [rgt EXCEPT ![thr.run.key] = own'] ELSE rgt
    BY DEF Forward
  <2>2. NextOcc(thr.run.key, e, now) \in Moments
    BY <1>2, NextOccFacts DEF TypeI, EnvOK
  <2>3. own \in [Edges -> Moments]
    BY DEF TypeI, RegOK, Times
  <2>4. Forwarded(e) \in Moments
    BY <2>2, <2>3 DEF Forwarded
  <2>5. own' \in Times
    BY <2>1, <2>3, <2>4 DEF Times
  <2>6. rgt \in [Keys -> Times \union {NoScheduler}]
    BY DEF TypeI, RegOK
  <2> QED
    BY <1>2, <2>1, <2>4, <2>5, <2>6, NotTimes
<1>6. EnvOK' /\ LockOK'
  <2>1. EnvOK'
    BY <1>1 DEF TypeI, EnvOK, inputs, etcdVars
  <2>2. LockOK'
    BY <1>1, <1>2, <1>4 DEF TypeI, LockOK
  <2> QED
    BY <2>1, <2>2
<1>7. RegOK'
  <2>1. runs' \in Repeats
    <3>1. runs \in Repeats
      BY DEF TypeI, RegOK
    <3>2. CASE Execute(e)
      <4>1. \A c \in 0 .. 5 : (IF held = thr.run.key /\ own[e] # Zero /\ c < 5 THEN c + 1 ELSE c) \in 0 .. 5
        OBVIOUS
      <4>2. runs[thr.run.key][e] \in 0 .. 5
        BY <1>2, <3>1 DEF Repeats
      <4>3. runs' = [runs EXCEPT ![thr.run.key][e] =
                       IF held = thr.run.key /\ own[e] # Zero /\ runs[thr.run.key][e] < 5
                       THEN runs[thr.run.key][e] + 1 ELSE runs[thr.run.key][e]]
        BY <3>2 DEF Execute
      <4> QED
        BY <1>2, <3>1, <4>1, <4>2, <4>3 DEF Repeats
    <3>3. CASE NotDue(e)
      BY <3>1, <3>3 DEF NotDue, itemVars
    <3>4. CASE Forward(e)
      <4>1. runs' = runs \/ runs' = [runs EXCEPT ![thr.run.key][e] = 0]
        BY <3>4 DEF Forward
      <4> QED
        BY <1>2, <3>1, <4>1 DEF Repeats
    <3> QED
      BY <3>2, <3>3, <3>4
  <2>2. CASE ~Forward(e)
    <3>1. UNCHANGED <<rgt, own>>
      BY <2>2 DEF Execute, NotDue, regVars, itemVars
    <3>2. thr'.run.at # "delete"
      BY <1>3
    <3> QED
      BY <1>1, <1>2, <1>3, <1>4, <2>1, <3>1, <3>2 DEF TypeI, RegOK
  <2>3. CASE Forward(e)
    <3>1. rgt' \in [Keys -> Times \union {NoScheduler}]
          /\ \A k \in Keys : rgt[k] # NoScheduler => rgt'[k] # NoScheduler
      <4>1. rgt \in [Keys -> Times \union {NoScheduler}] /\ held \in Keys \union {NoScheduler}
        BY DEF TypeI, RegOK
      <4>2. own' # NoScheduler
        BY <1>5, <2>3, NotTimes
      <4> QED
        BY <1>5, <2>3, <4>1, <4>2, NotTimes
    <3>2. own' \in Times /\ (held # NoScheduler => rgt'[held] = own')
      BY <1>5, <2>3
    <3>3. thr'.run.at # "delete"
      BY <1>3
    <3>4. \A w \in Iterators : iter[w].items \subseteq Keys
      BY DEF TypeI, LockOK
    <3> QED
      BY <1>1, <1>2, <1>3, <1>4, <2>1, <3>1, <3>2, <3>3, <3>4 DEF TypeI, RegOK
  <2> QED
    BY <2>2, <2>3
<1>8. /\ Execute(e) => IsDue(e) /\ UNCHANGED <<own, rgt>>
      /\ NotDue(e) => ~IsDue(e) /\ UNCHANGED <<own, rgt, runs>>
  BY DEF Execute, NotDue, regVars, itemVars
<1>9. RunOnly /\ UNCHANGED <<tick, etcdVars, lock, iter, held>>
  BY <1>1, <1>3 DEF RunOnly, inputs
<1> QED
  BY <1>2, <1>3, <1>4, <1>5, <1>6, <1>7, <1>8, <1>9 DEF TypeI

\* The tick is over.
LEMMA TickEndsTypes ==
  ASSUME TypeI, TickEnds
  PROVE  /\ TypeI' /\ RunOnly /\ UNCHANGED <<tick, etcdVars, rgt, lock, runs>>
         /\ InTick /\ ~InTick' /\ thr.run.at = "range" /\ thr'.run.at = "select"
         /\ iter.run.at = "closed" /\ iter'.run.at = "off" /\ held' = NoScheduler
<1>1. /\ UNCHANGED <<inputs, etcdVars, rgt, lock, runs, left, save>> /\ thr.run.at = "range"
      /\ Goes("run", "select") /\ iter.run.at = "closed" /\ iter' = [iter EXCEPT !["run"] = Off]
      /\ own' = NoNext /\ held' = NoScheduler
  BY DEF TickEnds, At
<1>2. /\ ThrOK' /\ thr'.reload = thr.reload /\ thr'.run.at = "select"
  BY <1>1, Stages, RunGoes DEF TypeI
<1>3. InTick /\ ~InTick'
  BY <1>1, <1>2 DEF InTick
<1>4. iter \in [Iterators -> [at: {"off", "wait", "hold", "closed"}, items: SUBSET Keys]]
      /\ (\A v \in Iterators : lock = v <=> iter[v].at = "hold") /\ lock \in {"run", "save", "none"}
  BY DEF TypeI, LockOK
<1>5. /\ iter' \in [Iterators -> [at: {"off", "wait", "hold", "closed"}, items: SUBSET Keys]]
      /\ iter'.run.at = "off" /\ iter'.save = iter.save
  BY <1>1, <1>4 DEF Iterators, Off
<1>6. LockOK'
  <2>1. \A v \in Iterators : lock' = v <=> iter'[v].at = "hold"
    BY <1>1, <1>4, <1>5 DEF Iterators
  <2> QED
    BY <1>1, <1>3, <1>5, <2>1 DEF TypeI, LockOK
<1>7. own' \in Times
  BY <1>1 DEF NoNext, Times, Moments
<1>8. RegOK'
  BY <1>1, <1>5, <1>7 DEF TypeI, RegOK, Iterators
<1>9. EnvOK'
  BY <1>1 DEF TypeI, EnvOK, inputs, etcdVars
<1> QED
  BY <1>1, <1>2, <1>3, <1>5, <1>6, <1>8, <1>9 DEF TypeI, RunOnly, inputs

\* A step of rebalance only: Run and the registry's lock stand still.
ReloadOnly ==
  /\ UNCHANGED <<now, tick, dates, cron, mine, moves, late, lock, iter, save>>
  /\ thr'.run = thr.run

\* Rebalance is on its way through the keys, and leaves the registry alone.
ReloadSteps ==
  \/ TakeReload \/ Rebalance \/ RebalanceFails \/ RebalanceDone
  \/ \E k \in Keys : AskRing(k)
  \/ AskRegistry \/ HandOver \/ StoreCheck("reload")

LEMMA ReloadTypes ==
  ASSUME TypeI, ReloadSteps
  PROVE  /\ TypeI' /\ ReloadOnly /\ UNCHANGED <<rgt, own, held, runs>> /\ (InTick' <=> InTick)
<1> USE DEF At
<1>1. UNCHANGED <<now, tick, dates, cron, mine, moves, late, rgt, lock, iter, own, held, runs, save>>
  BY DEF ReloadSteps, TakeReload, Rebalance, RebalanceFails, RebalanceDone, AskRing,
         AskRegistry, HandOver, StoreCheck, inputs, etcdVars, regVars, itemVars
<1>2. thr \in [run: [at: RunStages, key: Keys \union {NoScheduler},
                     then: {"select", "check", "delete"}],
               reload: [at: ReloadStages, key: Keys \union {NoScheduler}, then: {"next"}]]
  BY DEF TypeI, ThrOK
<1>3. ThrOK' /\ thr'.run = thr.run
  <2>1. CASE TakeReload
    BY <2>1, ReloadGoes DEF TakeReload, TypeI, ReloadStages
  <2>2. CASE Rebalance
    BY <2>2, ReloadGoes DEF Rebalance, TypeI, ReloadStages
  <2>3. CASE RebalanceFails
    BY <2>3, ReloadGoes DEF RebalanceFails, TypeI, ReloadStages
  <2>4. CASE RebalanceDone
    BY <2>4, ReloadGoes DEF RebalanceDone, TypeI, ReloadStages
  <2>5. ASSUME NEW k \in Keys, AskRing(k) PROVE ThrOK' /\ thr'.run = thr.run
    BY <1>2, <2>5 DEF AskRing, TypeI, ThrOK, ReloadStages
  <2>6. CASE AskRegistry
    <3>1. PICK l \in {"next", "check", "put"} :
            Goes("reload", l) /\ thr.reload.at \in {"own", "foreign"}
      BY <2>6 DEF AskRegistry
    <3> QED
      BY <3>1, ReloadGoes DEF TypeI, ThrOK, ReloadStages
  <2>7. CASE HandOver
    BY <2>7, ReloadGoes DEF HandOver, TypeI, ThrOK, ReloadStages
  <2>8. CASE StoreCheck("reload")
    <3>1. PICK l \in {"next", "set"} : Goes("reload", l) /\ thr.reload.at = "check"
      BY <2>8 DEF StoreCheck, Home
    <3> QED
      BY <3>1, ReloadGoes DEF TypeI, ThrOK, ReloadStages
  <2> QED
    BY <2>1, <2>2, <2>3, <2>4, <2>5, <2>6, <2>7, <2>8 DEF ReloadSteps
<1>4. InTick' <=> InTick
  BY <1>3 DEF InTick
<1>5. LockOK' /\ RegOK'
  BY <1>1, <1>3, <1>4, KeepReg DEF TypeI, RegOK
<1>6. EnvOK'
  <2>1. /\ todo' \in Seq(Event) /\ stored' \in SUBSET Keys /\ missed' \in SUBSET Keys
        /\ UNCHANGED <<watch, toLoad>>
        /\ changes' \in 0 .. MaxChanges /\ failed' \in BOOLEAN
    <3>1. CASE RebalanceFails
      BY <3>1, SchedulerAssumption DEF TypeI, EnvOK, RebalanceFails, RequestFails, Change
    <3>2. CASE HandOver
      <4>1. thr.reload.key \in Keys
        BY <3>2 DEF HandOver, TypeI, ThrOK
      <4> QED
        BY <3>2, <4>1, WriteTypes DEF TypeI, EnvOK, HandOver
    <3>3. CASE Rebalance
      BY <3>3 DEF TypeI, EnvOK, Rebalance
    <3>4. CASE ~RebalanceFails /\ ~HandOver /\ ~Rebalance
      <4>1. UNCHANGED etcdVars
        BY <3>4 DEF ReloadSteps, TakeReload, RebalanceDone, AskRing, AskRegistry, StoreCheck
      <4> QED
        BY <4>1 DEF TypeI, EnvOK, etcdVars
    <3> QED
      BY <3>1, <3>2, <3>3, <3>4
  <2>2. left' \in SUBSET Keys /\ pending' \in BOOLEAN
    BY DEF TypeI, EnvOK, ReloadSteps, TakeReload, Rebalance, RebalanceFails, RebalanceDone,
           AskRing, AskRegistry, HandOver, StoreCheck, inputs
  <2> QED
    BY <1>1, <2>1, <2>2 DEF TypeI, EnvOK
<1> QED
  BY <1>1, <1>3, <1>4, <1>5, <1>6 DEF TypeI, ReloadOnly

\* Stop and save.
SaveSteps == Stop \/ SaveDone \/ \E k \in Keys : SavePuts(k) \/ SaveFails(k)

LEMMA SaveTypes ==
  ASSUME TypeI, SaveSteps
  PROVE  /\ TypeI' /\ UNCHANGED <<inputs, rgt, lock, thr, itemVars, left>> /\ (InTick' <=> InTick)
         /\ save' # "idle" /\ iter'.run = iter.run
<1>1. UNCHANGED <<inputs, rgt, lock, thr, itemVars, left>>
  BY DEF SaveSteps, Stop, SaveDone, SavePuts, SaveFails, regVars
<1>2. InTick' <=> InTick
  BY <1>1 DEF InTick
<1>3. iter \in [Iterators -> [at: {"off", "wait", "hold", "closed"}, items: SUBSET Keys]]
      /\ (\A v \in Iterators : lock = v <=> iter[v].at = "hold") /\ lock \in {"run", "save", "none"}
  BY DEF TypeI, LockOK
<1>4. /\ iter' \in [Iterators -> [at: {"off", "wait", "hold", "closed"}, items: SUBSET Keys]]
      /\ iter'.run = iter.run /\ save' \in {"range", "returned"}
      /\ iter'.save.at = "hold" <=> iter.save.at = "hold"
      /\ iter'.save.items \subseteq iter.save.items
  <2>1. CASE Stop
    <3>1. iter.save.at = "off" /\ iter' = [iter EXCEPT !["save"].at = "wait"] /\ save' = "range"
      BY <2>1 DEF Stop, TypeI, LockOK
    <3> QED
      BY <1>3, <3>1 DEF Iterators
  <2>2. CASE SaveDone
    BY <1>3, <2>2 DEF SaveDone, regVars
  <2>3. ASSUME NEW k \in Keys, SavePuts(k) \/ SaveFails(k)
        PROVE  /\ iter' \in [Iterators -> [at: {"off", "wait", "hold", "closed"}, items: SUBSET Keys]]
               /\ iter'.run = iter.run /\ save' \in {"range", "returned"}
               /\ iter'.save.at = "hold" <=> iter.save.at = "hold"
               /\ iter'.save.items \subseteq iter.save.items
    <3>1. iter' = [iter EXCEPT !["save"].items = iter["save"].items \ {k}]
          /\ save' \in {"range", "returned"}
      BY <2>3 DEF SavePuts, SaveFails, TakeItem
    <3> QED
      BY <1>3, <3>1 DEF Iterators
  <2> QED
    BY <2>1, <2>2, <2>3 DEF SaveSteps
<1>5. LockOK'
  <2>1. \A v \in Iterators : lock' = v <=> iter'[v].at = "hold"
    BY <1>1, <1>3, <1>4 DEF Iterators
  <2> QED
    BY <1>1, <1>2, <1>4, <2>1 DEF TypeI, LockOK
<1>6. RegOK'
  BY <1>1, <1>2, <1>4 DEF TypeI, RegOK, itemVars, Iterators
<1>7. EnvOK'
  <2>1. /\ todo' \in Seq(Event) /\ stored' \in SUBSET Keys /\ missed' \in SUBSET Keys
        /\ UNCHANGED <<watch, toLoad>>
        /\ changes' \in 0 .. MaxChanges /\ failed' \in BOOLEAN
    <3>1. CASE Stop \/ SaveDone
      BY <3>1 DEF TypeI, EnvOK, Stop, SaveDone, etcdVars
    <3>2. ASSUME NEW k \in Keys, SavePuts(k)
          PROVE  /\ todo' \in Seq(Event) /\ stored' \in SUBSET Keys /\ missed' \in SUBSET Keys
                 /\ UNCHANGED <<watch, toLoad>>
                 /\ changes' \in 0 .. MaxChanges /\ failed' \in BOOLEAN
      BY <3>2, WriteTypes DEF TypeI, EnvOK, SavePuts
    <3>3. ASSUME NEW k \in Keys, SaveFails(k)
          PROVE  /\ todo' \in Seq(Event) /\ stored' \in SUBSET Keys /\ missed' \in SUBSET Keys
                 /\ UNCHANGED <<watch, toLoad>>
                 /\ changes' \in 0 .. MaxChanges /\ failed' \in BOOLEAN
      BY <3>3, SchedulerAssumption DEF TypeI, EnvOK, SaveFails, RequestFails, Change
    <3> QED
      BY <3>1, <3>2, <3>3 DEF SaveSteps
  <2> QED
    BY <1>1, <1>4, <2>1 DEF TypeI, EnvOK, inputs
<1>8. ThrOK'
  BY <1>1 DEF TypeI, ThrOK
<1> QED
  BY <1>1, <1>2, <1>4, <1>5, <1>6, <1>7, <1>8 DEF TypeI

\* The steps by what they touch.
LEMMA StepKinds ==
  ASSUME Next
  PROVE  \/ Clock \/ RingMoves \/ \E k \in Keys : CreateScheduler(k) \/ DeleteScheduler(k)
         \/ \E w \in Iterators : IterLocks(w) \/ IterCloses(w)
         \/ RunStops \/ WatchFails \/ TakeEvent \/ LookUp \/ LoadStep \/ StoreCheck("run")
         \/ \E t \in Threads : StoreSet(t) \/ Remove(t)
         \/ TakeTick \/ TickEnds \/ \E k \in Keys : TakeScheduler(k) \/ SkipScheduler(k)
         \/ DeleteExpired \/ DeleteExpiredFails
         \/ \E e \in Edges : Execute(e) \/ NotDue(e) \/ Forward(e)
         \/ ReloadSteps \/ SaveSteps
<1>1. RunStep =>
         \/ RunStops \/ TakeEvent \/ LookUp \/ StoreCheck("run") \/ StoreSet("run")
         \/ Remove("run") \/ TakeTick \/ TickEnds
         \/ \E k \in Keys : TakeScheduler(k) \/ SkipScheduler(k)
         \/ DeleteExpired \/ \E e \in Edges : Execute(e) \/ NotDue(e) \/ Forward(e)
  BY DEF RunStep, Stores
<1>2. ReloadStep => ReloadSteps \/ StoreSet("reload") \/ Remove("reload")
  BY DEF ReloadStep, ReloadSteps, Stores
<1>3. Stop \/ SaveStep \/ Failures =>
         SaveSteps \/ WatchFails \/ DeleteExpiredFails \/ ReloadSteps
  BY DEF SaveStep, SaveSteps, Failures, ReloadSteps
<1> QED
  BY <1>1, <1>2, <1>3, Zenon DEF Next, Threads

LEMMA TypeStep == TypeI /\ [Next]_vars => TypeI'
<1> SUFFICES ASSUME TypeI, [Next]_vars PROVE TypeI'
  OBVIOUS
<1>1. CASE UNCHANGED vars
  <2>1. /\ UNCHANGED <<now, tick, dates, cron, mine, pending, moves, late, stored, watch, todo, toLoad, missed, changes, failed>>
        /\ UNCHANGED <<rgt, lock, iter, thr, own, held, runs, left, save>>
    BY <1>1 DEF vars, inputs, etcdVars, regVars, itemVars
  <2>2. EnvOK'
    BY <2>1 DEF TypeI, EnvOK
  <2>3. ThrOK' /\ (InTick' <=> InTick)
    BY <2>1 DEF TypeI, ThrOK, InTick
  <2> QED
    BY <2>1, <2>2, <2>3, KeepReg DEF TypeI, RegOK
<1>2. CASE Next
  BY <1>2, StepKinds, ClockTypes, OthersTypes, IterTypes, EventTypes, StoreSetTypes, RemoveTypes,
     TakeTickTypes, TickEndsTypes, TakeSchedulerTypes, DeleteExpiredTypes, ActionTypes,
     ReloadTypes, SaveTypes, Zenon
<1> QED
  BY <1>1, <1>2

\* What Run holds as registered is what is registered, in every reachable state,
\* and the registry's lock is held by an Iter that runs (registry.go:60).
THEOREM TypeCorrect == Spec => []TypeOK
<1>1. Spec => []TypeI
  BY InitTypes, TypeStep, PTL DEF Spec
<1> QED
  BY <1>1, TypeFollows, PTL

-----------------------------------------------------------------------------
(* How often an occurrence is executed, and when the next one is looked at. *)

\* When the last tick fired.
Fired == now - (now % Interval)

\* How many executions there may be.
Limit == IF late THEN 4 ELSE 3

\* The tick in Run's hands has not come to k, or not to its edge e.
Waits(k) == iter.run.at = "wait" \/ (iter.run.at = "hold" /\ k \in iter.run.items)

Ahead(k, e) ==
  \/ Waits(k)
  \/ held = k /\ (thr.run.at = "from" \/ (e = "to" /\ thr.run.at \in {"do from", "to"}))

Acting(k, e) == held = k /\ thr.run.at = Doing[e]

\* How often the ticks there are will still look at edge e of k.
Looks(k, e) == (IF Ahead(k, e) THEN 1 ELSE 0) + (IF tick THEN 1 ELSE 0)

\* An occurrence that was executed c times is past after Limit executions, counting
\* those that the ticks there are may still add: the last tick fired later than
\* the others by an interval each.  The zero time is no occurrence.
RepeatOK(k, e) ==
  /\ rgt[k][e] = Zero => runs[k][e] = 0
  /\ runs[k][e] = Limit => Acting(k, e)
  /\ runs[k][e] >= 1 =>
       rgt[k][e] + (runs[k][e] + Looks(k, e)) * Interval < Fired + Limit * Interval

\* As long as no tick is late, the next execution is not earlier than the last tick
\* that has looked at it, unless FromDateTime was not past then.
LowerOK(k, e) ==
  /\ cron[k][e].every = 0 => rgt[k][e] \in cron[k][e].occ \union {Zero}
  /\ ~late /\ rgt[k][e] > dates[k].from =>
       rgt[k][e] >= Fired - (IF tick \/ Ahead(k, e) \/ Acting(k, e)
                                \/ (held = k /\ thr.run.at = "remove")
                             THEN Interval ELSE 0)

TickInv == late \/ ~tick \/ iter.run.at = "off"

HeldInv == held # NoScheduler => ~Waits(held)

CountInv == \A k \in Keys, e \in Edges : runs[k][e] <= Limit

EdgeInv ==
  \A k \in Keys, e \in Edges : rgt[k] # NoScheduler => RepeatOK(k, e) /\ LowerOK(k, e)

TimeI == TickInv /\ HeldInv /\ CountInv /\ EdgeInv

LEMMA FiredFacts ==
  ASSUME EnvOK
  PROVE  Fired \in Int /\ Fired <= now /\ now < Fired + Interval
<1>1. now % Interval \in 0 .. Interval - 1
  BY ModNext DEF EnvOK
<1> QED
  BY <1>1, SchedulerAssumption DEF EnvOK, Fired

LEMMA EdgeTypes ==
  ASSUME TypeI, NEW k \in Keys, NEW e \in Edges, rgt[k] # NoScheduler
  PROVE  /\ rgt[k][e] \in Moments /\ rgt[k][e] \in Int
         /\ runs[k][e] \in 0 .. 5 /\ dates[k].from \in Nat
<1>1. rgt[k] \in Times /\ runs[k] \in [Edges -> 0 .. 5] /\ dates[k] \in Dates
  BY DEF TypeI, RegOK, EnvOK, Repeats
<1> QED
  BY <1>1, SchedulerAssumption DEF Times, Moments, Zero

LEMMA InitTime == Init => TimeI
<1> SUFFICES ASSUME Init PROVE TimeI
  OBVIOUS
<1>1. /\ ~tick /\ held = NoScheduler
      /\ \A k \in Keys, e \in Edges : runs[k][e] = 0
      /\ \A k \in Keys : rgt[k] = NoScheduler
  BY DEF Init
<1>2. TickInv /\ HeldInv /\ CountInv
  BY <1>1 DEF TickInv, HeldInv, CountInv, Limit
<1> QED
  BY <1>1, <1>2 DEF TimeI, EdgeInv

\* A next execution that was computed just now.
LEMMA FreshEdge ==
  ASSUME TypeI, now' = now, dates' = dates, cron' = cron, NEW k \in Keys, NEW e \in Edges,
         rgt'[k][e] = NextOcc(k, e, now), runs'[k][e] = 0
  PROVE  RepeatOK(k, e)' /\ LowerOK(k, e)'
<1>1. /\ rgt'[k][e] \in Int
      /\ rgt'[k][e] > now \/ rgt'[k][e] = Zero
      /\ cron[k][e].every = 0 => rgt'[k][e] \in cron[k][e].occ \union {Zero}
  BY NextOccFacts DEF TypeI, EnvOK
<1>2. Fired' \in Int /\ Fired' <= now /\ now \in Int
  BY FiredFacts DEF TypeI, EnvOK, Fired
<1>3. RepeatOK(k, e)'
  BY DEF RepeatOK, Limit
<1>4. LowerOK(k, e)'
  <2>1. ASSUME rgt'[k][e] > dates'[k].from
        PROVE  rgt'[k][e] >= Fired'
    <3>1. dates[k].from \in Nat
      BY SchedulerAssumption DEF TypeI, EnvOK
    <3> QED
      BY <1>1, <1>2, <2>1, <3>1 DEF Zero
  <2> QED
    BY <1>1, <1>2, <2>1, SchedulerAssumption DEF LowerOK
<1> QED
  BY <1>3, <1>4

\* Steps that do not bring Run to another scheduler or edge of one, but may
\* register a scheduler or remove one.
LEMMA TimeKept ==
  ASSUME TypeI, TypeI', TimeI,
         UNCHANGED <<now, tick, late, dates, cron>>,
         iter'.run.at # "off" => iter.run.at # "off",
         (held' = held /\ thr'.run.at = thr.run.at) \/ held' = NoScheduler,
         \A k \in Keys :
           \/ rgt'[k] = NoScheduler /\ runs'[k] = runs[k]
           \/ /\ rgt'[k] = rgt[k] /\ runs'[k] = runs[k] /\ (held' = k <=> held = k)
              /\ Waits(k)' <=> Waits(k)
           \/ \A e \in Edges : rgt'[k][e] = NextOcc(k, e, now) /\ runs'[k][e] = 0,
         \A k \in Keys : held' = k => ~Waits(k)'
  PROVE  TimeI'
<1>1. TickInv' /\ HeldInv'
  <2>1. TickInv'
    BY DEF TimeI, TickInv
  <2>2. held' \in Keys \union {NoScheduler}
    BY DEF TypeI, RegOK
  <2>3. HeldInv'
    BY <2>2 DEF HeldInv
  <2> QED
    BY <2>1, <2>3
<1>2. CountInv'
  <2> SUFFICES ASSUME NEW k \in Keys, NEW e \in Edges PROVE runs'[k][e] <= Limit'
    BY DEF CountInv
  <2>1. runs'[k] = runs[k] \/ runs'[k][e] = 0
    OBVIOUS
  <2> QED
    BY <2>1 DEF TimeI, CountInv, Limit
<1>3. ASSUME NEW k \in Keys, NEW e \in Edges, rgt'[k] # NoScheduler
      PROVE  RepeatOK(k, e)' /\ LowerOK(k, e)'
  <2>1. CASE rgt'[k] = rgt[k] /\ runs'[k] = runs[k] /\ (held' = k <=> held = k)
             /\ (Waits(k)' <=> Waits(k))
    <3>1. RepeatOK(k, e) /\ LowerOK(k, e)
      BY <1>3, <2>1 DEF TimeI, EdgeInv
    <3>2. /\ Ahead(k, e)' <=> Ahead(k, e)
          /\ Acting(k, e)' <=> Acting(k, e)
          /\ (held = k /\ thr.run.at = "remove")' <=> (held = k /\ thr.run.at = "remove")
      BY <2>1, NotTimes DEF Ahead, Acting
    <3>3. Fired' = Fired /\ Limit' = Limit /\ Looks(k, e)' = Looks(k, e)
      BY <3>2 DEF Fired, Limit, Looks
    <3>4. RepeatOK(k, e)'
      BY <2>1, <3>1, <3>2, <3>3 DEF RepeatOK
    <3>5. LowerOK(k, e)'
      BY <2>1, <3>1, <3>2, <3>3 DEF LowerOK
    <3> QED
      BY <3>4, <3>5
  <2>2. CASE \A f \in Edges : rgt'[k][f] = NextOcc(k, f, now) /\ runs'[k][f] = 0
    BY <2>2, FreshEdge
  <2> QED
    BY <1>3, <2>1, <2>2
<1> QED
  BY <1>1, <1>2, <1>3 DEF TimeI, EdgeInv

\* Steps that leave the registry, Run's tick and the clock alone.
LEMMA TimeCalm ==
  ASSUME TypeI, TypeI', TimeI,
         UNCHANGED <<now, tick, late, dates, cron, rgt, runs, held>>, iter'.run = iter.run,
         held # NoScheduler => thr'.run.at = thr.run.at
  PROVE  TimeI'
<1>1. \A k \in Keys : Waits(k)' <=> Waits(k)
  BY DEF Waits
<1>2. \A k \in Keys : held' = k => ~Waits(k)'
  BY <1>1, NotTimes DEF TimeI, HeldInv, Waits
<1> QED
  BY <1>1, <1>2, TimeKept

LEMMA TimeOfOthers ==
  ASSUME TypeI, TypeI', TimeI,
         \/ RingMoves \/ \E k \in Keys : CreateScheduler(k) \/ DeleteScheduler(k)
         \/ RunStops \/ WatchFails \/ TakeEvent \/ LookUp \/ LoadStep \/ StoreCheck("run")
         \/ DeleteExpired \/ DeleteExpiredFails
         \/ ReloadSteps \/ SaveSteps
  PROVE  TimeI'
<1>1. CASE RingMoves \/ \E k \in Keys : CreateScheduler(k) \/ DeleteScheduler(k)
  <2>1. UNCHANGED <<now, tick, late, dates, cron, rgt, runs, held, iter, thr>>
    BY <1>1 DEF RingMoves, CreateScheduler, DeleteScheduler, inputs, regVars, itemVars
  <2> QED
    BY <2>1, TimeCalm
<1>2. CASE RunStops \/ WatchFails \/ TakeEvent \/ LookUp \/ LoadStep \/ StoreCheck("run")
  BY <1>2, EventTypes, TimeCalm DEF RunOnly
<1>3. CASE DeleteExpired \/ DeleteExpiredFails
  BY <1>3, DeleteExpiredTypes, TimeCalm DEF RunOnly
<1>4. CASE ReloadSteps
  <2>1. dates' = dates /\ cron' = cron
    BY <1>4, ReloadTypes DEF ReloadOnly
  <2> QED
    BY <1>4, <2>1, ReloadTypes, TimeCalm DEF ReloadOnly
<1>5. CASE SaveSteps
  BY <1>5, SaveTypes, TimeCalm DEF inputs, itemVars
<1> QED
  BY <1>1, <1>2, <1>3, <1>4, <1>5

LEMMA TimeOfRegistry ==
  ASSUME TypeI, TypeI', TimeI, NEW t \in Threads, StoreSet(t) \/ Remove(t)
  PROVE  TimeI'
<1> DEFINE r == thr[t].key
<1>1. UNCHANGED <<now, tick, late, dates, cron, lock, iter>>
  BY DEF StoreSet, Remove, inputs
<1>2. t \in {"run", "reload"} /\ r \in Keys /\ (held' = IF held = r THEN NoScheduler ELSE held)
  BY StoreSetTypes, RemoveTypes DEF Threads
<1>3. (held' = held /\ thr'.run.at = thr.run.at) \/ held' = NoScheduler
  <2>1. CASE t = "reload"
    BY <1>2, <2>1, StoreSetTypes, RemoveTypes
  <2>2. CASE t = "run"
    <3>1. thr["run"].key = thr.run.key /\ thr["run"].at = thr.run.at
      OBVIOUS
    <3>2. held # NoScheduler => held = thr.run.key
      BY DEF TypeI, RegOK
    <3> QED
      BY <1>2, <2>2, <3>1, <3>2
  <2> QED
    BY <1>2, <2>1, <2>2
<1>4. ASSUME NEW k \in Keys
      PROVE  \/ rgt'[k] = NoScheduler /\ runs'[k] = runs[k]
             \/ /\ rgt'[k] = rgt[k] /\ runs'[k] = runs[k] /\ (held' = k <=> held = k)
                /\ Waits(k)' <=> Waits(k)
             \/ \A e \in Edges : rgt'[k][e] = NextOcc(k, e, now) /\ runs'[k][e] = 0
  <2>1. Waits(k)' <=> Waits(k)
    BY <1>1 DEF Waits
  <2>2. rgt \in [Keys -> Times \union {NoScheduler}] /\ runs \in Repeats /\ k # NoScheduler
    BY NotTimes DEF TypeI, RegOK
  <2>3. CASE StoreSet(t)
    <3>1. /\ rgt' = [rgt EXCEPT ![r] = [e \in Edges |-> NextOcc(r, e, now)]]
          /\ runs' = [runs EXCEPT ![r] = [e \in Edges |-> 0]]
      BY <2>3, StoreSetTypes
    <3> HIDE DEF r
    <3>2. CASE k = r
      BY <2>2, <3>1, <3>2 DEF Repeats
    <3>3. CASE k # r
      BY <1>2, <2>1, <2>2, <3>1, <3>3 DEF Repeats
    <3> QED
      BY <3>2, <3>3
  <2>4. CASE Remove(t)
    <3>1. rgt' = [rgt EXCEPT ![r] = NoScheduler] /\ runs' = runs
      BY <2>4, RemoveTypes DEF Remove
    <3> HIDE DEF r
    <3> QED
      BY <1>2, <2>1, <2>2, <3>1
  <2> QED
    BY <2>3, <2>4
<1>5. \A k \in Keys : held' = k => ~Waits(k)'
  BY <1>1, <1>2, NotTimes DEF TimeI, HeldInv, Waits
<1> HIDE DEF r
<1> QED
  BY <1>1, <1>3, <1>4, <1>5, TimeKept

LEMMA TimeOfIter ==
  ASSUME TypeI, TypeI', TimeI, NEW w \in Iterators, IterLocks(w) \/ IterCloses(w)
  PROVE  TimeI'
<1>1. UNCHANGED <<now, tick, late, dates, cron, rgt, thr, own, held, runs>>
  BY IterTypes DEF inputs, itemVars
<1>2. iter \in [Iterators -> [at: {"off", "wait", "hold", "closed"}, items: SUBSET Keys]]
      /\ w \in {"run", "save"}
  BY DEF TypeI, LockOK, Iterators
<1>3. CASE w = "save"
  <2>1. iter'.run = iter.run
    BY <1>2, <1>3 DEF IterLocks, IterCloses, Iterators
  <2> QED
    BY <1>1, <2>1, TimeCalm
<1>4. CASE w = "run" /\ IterLocks(w)
  <2>1. /\ iter.run.at = "wait" /\ iter'.run.at = "hold"
        /\ iter'.run.items = {k \in Keys : rgt[k] # NoScheduler}
    BY <1>2, <1>4 DEF IterLocks, Iterators
  <2>2. \A k \in Keys : rgt[k] # NoScheduler => (Waits(k)' <=> Waits(k))
    BY <2>1 DEF Waits
  <2>3. held = NoScheduler
    BY <2>1 DEF TimeI, HeldInv, Waits
  <2> QED
    BY <1>1, <2>1, <2>2, <2>3, NotTimes, TimeKept
<1>5. CASE w = "run" /\ IterCloses(w)
  <2>1. /\ iter.run.at = "hold" /\ iter'.run.at = "closed" /\ iter.run.items = {}
    BY <1>2, <1>5 DEF IterCloses, Iterators
  <2>2. \A k \in Keys : ~Waits(k)' /\ ~Waits(k)
    BY <2>1 DEF Waits
  <2> QED
    BY <1>1, <2>1, <2>2, TimeKept
<1> QED
  BY <1>2, <1>3, <1>4, <1>5

\* Time goes on.
LEMMA TimeOfClock ==
  ASSUME TypeI, TypeI', TimeI, Clock
  PROVE  TimeI'
<1> DEFINE fires == (now + 1) % Interval = 0
<1>1. /\ UNCHANGED <<dates, cron, rgt, iter, thr, own, held, runs>> /\ now' = now + 1
      /\ tick' = (tick \/ (fires /\ watch))
      /\ late' = (late \/ (fires /\ (tick \/ iter.run.at # "off" \/ ~watch)))
  BY DEF Clock, regVars, itemVars
<1>8. /\ tick' <=> (tick \/ (fires /\ watch))
      /\ late' <=> (late \/ (fires /\ (tick \/ iter.run.at # "off" \/ ~watch)))
  BY <1>1, Zenon
<1>2. Fired \in Int /\ Fired <= now /\ now < Fired + Interval /\ now \in Nat
  BY FiredFacts DEF TypeI, EnvOK
<1>3. Fired' = IF fires THEN Fired + Interval ELSE Fired
  <2>1. /\ now % Interval \in 0 .. Interval - 1
        /\ (now + 1) % Interval = IF now % Interval = Interval - 1 THEN 0 ELSE (now % Interval) + 1
    BY <1>2, ModNext
  <2>2. Fired' = now + 1 - ((now + 1) % Interval)
    BY <1>1, <1>2, SchedulerAssumption DEF Fired
  <2> QED
    BY <1>2, <2>1, <2>2, SchedulerAssumption DEF Fired
<1>4. TickInv' /\ HeldInv'
  <2>1. TickInv'
    BY <1>1, <1>8 DEF TimeI, TickInv
  <2>2. HeldInv'
    BY <1>1 DEF TimeI, HeldInv, Waits
  <2> QED
    BY <2>1, <2>2
<1>5. Limit' >= Limit /\ Limit \in {3, 4} /\ Limit' \in {3, 4}
      /\ (fires /\ tick => Limit' = 4)
  BY <1>8 DEF Limit
<1>6. CountInv'
  <2> SUFFICES ASSUME NEW k \in Keys, NEW e \in Edges PROVE runs'[k][e] <= Limit'
    BY DEF CountInv
  <2>1. runs[k][e] \in 0 .. 5
    BY DEF TypeI, RegOK, Repeats
  <2> QED
    BY <1>1, <1>5, <2>1 DEF TimeI, CountInv
<1>7. ASSUME NEW k \in Keys, NEW e \in Edges, rgt'[k] # NoScheduler
      PROVE  RepeatOK(k, e)' /\ LowerOK(k, e)'
  <2>1. RepeatOK(k, e) /\ LowerOK(k, e) /\ runs[k][e] <= Limit
    BY <1>1, <1>7 DEF TimeI, EdgeInv, CountInv
  <2>2. rgt[k][e] \in Int /\ runs[k][e] \in 0 .. 5 /\ dates[k].from \in Nat
    BY <1>1, <1>7, EdgeTypes
  <2>3. /\ Ahead(k, e)' <=> Ahead(k, e)
        /\ Acting(k, e)' <=> Acting(k, e)
        /\ Ahead(k, e) \/ Acting(k, e) \/ (held = k /\ thr.run.at = "remove") => iter.run.at # "off"
    <3>1. /\ Ahead(k, e)' <=> Ahead(k, e)
          /\ Acting(k, e)' <=> Acting(k, e)
      BY <1>1 DEF Ahead, Acting, Waits
    <3>2. held # NoScheduler => iter.run.at # "off"
      BY DEF TypeI, RegOK, LockOK
    <3> QED
      BY <3>1, <3>2, NotTimes DEF Ahead, Acting, Waits
  <2>4. RepeatOK(k, e)'
    <3>1. runs'[k][e] = Limit' => Acting(k, e)'
      BY <1>1, <1>5, <2>1, <2>2, <2>3 DEF RepeatOK
    <3>2. ASSUME runs[k][e] >= 1 PROVE RepeatOK(k, e)'
      <4>1. rgt[k][e] + (runs[k][e] + Looks(k, e)) * Interval < Fired + Limit * Interval
        BY <2>1, <3>2 DEF RepeatOK
      <4>2. Looks(k, e) \in 0 .. 2 /\ Looks(k, e)' \in 0 .. 2
            /\ Looks(k, e)' <= Looks(k, e) + (IF fires THEN 1 ELSE 0)
        BY <1>8, <2>3 DEF Looks
      <4> DEFINE c == runs[k][e]
                 a == Looks(k, e)
                 b == Looks(k, e)'
                 o == rgt[k][e]
      <4>3. o + (c + b) * Interval < Fired' + Limit' * Interval
        <5>1. (c + b) * Interval <= (c + a) * Interval + (IF fires THEN Interval ELSE 0)
          <6>1. CASE b <= a
            BY <2>2, <4>2, <6>1, SchedulerAssumption
          <6>2. CASE b > a
            <7>1. b = a + 1 /\ fires
              BY <4>2, <6>2
            <7> QED
              BY <2>2, <4>2, <7>1, SchedulerAssumption
          <6> QED
            BY <4>2, <6>1, <6>2
        <5>2. Fired' + Limit' * Interval >= Fired + Limit * Interval + (IF fires THEN Interval ELSE 0)
          <6>1. CASE Limit' = Limit
            BY <1>2, <1>3, <1>5, <6>1, SchedulerAssumption
          <6>2. CASE Limit' = 4 /\ Limit = 3
            BY <1>2, <1>3, <6>2, SchedulerAssumption
          <6> QED
            BY <1>5, <6>1, <6>2
        <5>3. /\ o \in Int /\ (c + a) * Interval \in Int /\ (c + b) * Interval \in Int
              /\ Interval \in Int /\ Fired' + Limit' * Interval \in Int
              /\ Fired + Limit * Interval \in Int
          BY <1>2, <1>3, <1>5, <2>2, <4>2, SchedulerAssumption
        <5> HIDE DEF a, b, c, o, fires
        <5> QED
          BY <4>1, <5>1, <5>2, <5>3 DEF a, c, o
      <4>4. RepeatOK(k, e)' = ((rgt[k][e] = Zero => runs[k][e] = 0)
                /\ (runs[k][e] = Limit' => Acting(k, e)')
                /\ (runs[k][e] >= 1 =>
                      rgt[k][e] + (runs[k][e] + Looks(k, e)') * Interval < Fired' + Limit' * Interval))
        BY <1>1 DEF RepeatOK
      <4> QED
        BY <1>1, <2>1, <3>1, <4>3, <4>4 DEF RepeatOK
    <3>3. ASSUME runs[k][e] = 0 PROVE RepeatOK(k, e)'
      BY <1>1, <1>5, <3>1, <3>3 DEF RepeatOK
    <3> QED
      BY <2>2, <3>2, <3>3
  <2>5. LowerOK(k, e)'
    <3>1. cron'[k][e].every = 0 => rgt'[k][e] \in cron'[k][e].occ \union {Zero}
      BY <1>1, <2>1 DEF LowerOK
    <3>2. ASSUME ~late', rgt[k][e] > dates[k].from
          PROVE  rgt[k][e] >= Fired' - (IF tick' \/ Ahead(k, e)' \/ Acting(k, e)'
                                           \/ (held' = k /\ thr'.run.at = "remove")
                                        THEN Interval ELSE 0)
      <4>1. rgt[k][e] >= Fired - (IF tick \/ Ahead(k, e) \/ Acting(k, e)
                                           \/ (held = k /\ thr.run.at = "remove")
                                  THEN Interval ELSE 0)
        BY <1>1, <2>1, <3>2 DEF LowerOK
      <4>2. CASE fires
        <5>1. ~tick /\ iter.run.at = "off" /\ tick'
          BY <1>1, <1>8, <3>2, <4>2
        <5>2. rgt[k][e] >= Fired
          BY <1>2, <2>2, <2>3, <4>1, <5>1
        <5> QED
          BY <1>2, <1>3, <2>2, <4>2, <5>1, <5>2, SchedulerAssumption
      <4>3. CASE ~fires
        <5>1. Fired' = Fired /\ tick' = tick
          BY <1>3, <1>8, <4>3 DEF TypeI, EnvOK
        <5> QED
          BY <1>1, <2>3, <4>1, <5>1
      <4> QED
        BY <4>2, <4>3
    <3> QED
      BY <1>1, <3>1, <3>2 DEF LowerOK
  <2> QED
    BY <2>4, <2>5
<1> QED
  BY <1>4, <1>6, <1>7 DEF TimeI, EdgeInv

\* Steps of Run past an edge whose next execution stays what it is.
LEMMA EdgeKept ==
  ASSUME TypeI, NEW k \in Keys, NEW e \in Edges, rgt[k] # NoScheduler,
         RepeatOK(k, e), LowerOK(k, e), UNCHANGED <<now, late, dates, cron>>,
         rgt'[k][e] = rgt[k][e], runs'[k][e] = runs[k][e],
         Looks(k, e)' <= Looks(k, e),
         Acting(k, e) => Acting(k, e)' \/ rgt[k][e] >= Fired,
         tick \/ Ahead(k, e) \/ Acting(k, e) \/ (held = k /\ thr.run.at = "remove") =>
            \/ tick' \/ Ahead(k, e)' \/ Acting(k, e)' \/ (held' = k /\ thr'.run.at = "remove")
            \/ rgt[k][e] >= Fired
  PROVE  RepeatOK(k, e)' /\ LowerOK(k, e)'
<1>1. rgt[k][e] \in Int /\ runs[k][e] \in 0 .. 5 /\ dates[k].from \in Nat
      /\ Fired \in Int /\ Limit \in {3, 4}
  BY EdgeTypes, FiredFacts DEF TypeI, Limit
<1>2. Fired' = Fired /\ Limit' = Limit
  BY DEF Fired, Limit
<1>3. Looks(k, e) \in 0 .. 2 /\ Looks(k, e)' \in 0 .. 2
  BY DEF Looks
<1>4. runs[k][e] = Limit => rgt[k][e] < Fired
  <2> SUFFICES ASSUME runs[k][e] = Limit PROVE rgt[k][e] < Fired
    OBVIOUS
  <2>1. rgt[k][e] + (Limit + Looks(k, e)) * Interval < Fired + Limit * Interval
    BY <1>1 DEF RepeatOK
  <2>2. (Limit + Looks(k, e)) * Interval >= Limit * Interval
    BY <1>1, <1>3, SchedulerAssumption
  <2>3. Limit * Interval \in Int /\ (Limit + Looks(k, e)) * Interval \in Int
    BY <1>1, <1>3, SchedulerAssumption
  <2> QED
    BY <1>1, <2>1, <2>2, <2>3
<1>5. RepeatOK(k, e)'
  <2>1. runs'[k][e] = Limit' => Acting(k, e)'
    BY <1>1, <1>2, <1>4 DEF RepeatOK
  <2>2. runs[k][e] >= 1 =>
          rgt[k][e] + (runs[k][e] + Looks(k, e)') * Interval < Fired + Limit * Interval
    <3>1. (runs[k][e] + Looks(k, e)') * Interval <= (runs[k][e] + Looks(k, e)) * Interval
      BY <1>1, <1>3, SchedulerAssumption
    <3>2. /\ (runs[k][e] + Looks(k, e)') * Interval \in Int
          /\ (runs[k][e] + Looks(k, e)) * Interval \in Int
          /\ Fired + Limit * Interval \in Int
      BY <1>1, <1>3, SchedulerAssumption
    <3> QED
      BY <1>1, <3>1, <3>2 DEF RepeatOK
  <2> QED
    BY <1>2, <2>1, <2>2 DEF RepeatOK
<1>6. LowerOK(k, e)'
  <2>1. rgt[k][e] >= Fired => \A b \in {0, Interval} : rgt[k][e] >= Fired - b
    BY <1>1, SchedulerAssumption
  <2> QED
    BY <1>1, <1>2, <2>1, SchedulerAssumption DEF LowerOK
<1> QED
  BY <1>5, <1>6

LEMMA TimeOfTick ==
  ASSUME TypeI, TypeI', TimeI, TakeTick \/ TickEnds
  PROVE  TimeI'
<1>1. UNCHANGED <<now, late, dates, cron, rgt, runs>>
  BY TakeTickTypes, TickEndsTypes DEF RunOnly, itemVars
<1>2. TickInv' /\ HeldInv'
  BY TakeTickTypes, TickEndsTypes DEF TickInv, HeldInv, itemVars
<1>3. CountInv'
  BY <1>1 DEF TimeI, CountInv, Limit
<1>4. ASSUME NEW k \in Keys, NEW e \in Edges, rgt'[k] # NoScheduler
      PROVE  RepeatOK(k, e)' /\ LowerOK(k, e)'
  <2>1. RepeatOK(k, e) /\ LowerOK(k, e)
    BY <1>1, <1>4 DEF TimeI, EdgeInv
  <2>2. ~Acting(k, e) /\ ~(held = k /\ thr.run.at = "remove")
        /\ Looks(k, e)' = Looks(k, e)
        /\ (tick \/ Ahead(k, e) => tick' \/ Ahead(k, e)')
    <3>1. CASE TakeTick
      <4>1. /\ ~Ahead(k, e) /\ ~Acting(k, e) /\ Ahead(k, e)' /\ tick /\ ~tick'
            /\ ~(held = k /\ thr.run.at = "remove")
        BY <3>1, TakeTickTypes, NotTimes DEF Ahead, Acting, Waits
      <4> QED
        BY <4>1 DEF Looks
    <3>2. CASE TickEnds
      <4>1. /\ ~Ahead(k, e) /\ ~Acting(k, e) /\ ~Ahead(k, e)' /\ (tick' = tick)
            /\ ~(held = k /\ thr.run.at = "remove")
        BY <3>2, TickEndsTypes, NotTimes, Stages DEF Ahead, Acting, Waits
      <4> QED
        BY <4>1 DEF Looks
    <3> QED
      BY <3>1, <3>2
  <2>3. Looks(k, e)' <= Looks(k, e)
    BY <2>2 DEF Looks
  <2> QED
    BY <1>1, <1>4, <2>1, <2>2, <2>3, EdgeKept
<1> QED
  BY <1>2, <1>3, <1>4 DEF TimeI, EdgeInv

LEMMA TimeOfScheduler ==
  ASSUME TypeI, TypeI', TimeI, NEW s \in Keys, TakeScheduler(s) \/ SkipScheduler(s)
  PROVE  TimeI'
<1>1. UNCHANGED <<now, tick, late, dates, cron, rgt, runs>>
      /\ iter'.run.at = "hold" /\ iter.run.at = "hold" /\ thr.run.at = "range"
      /\ s \in iter.run.items /\ iter'.run.items = iter.run.items \ {s}
  BY TakeSchedulerTypes DEF RunOnly
<1>2. /\ TakeScheduler(s) => held' = s /\ thr'.run.at \in {"remove", "from"}
      /\ SkipScheduler(s) => held' = held /\ thr'.run.at = "range" /\ ~IsActive(s)
  <2>1. CASE TakeScheduler(s)
    <3>1. thr'.run = [at |-> IF IsExpired(s) THEN "remove" ELSE "from", key |-> s,
                      then |-> "delete"]
          /\ held' = s /\ IsActive(s)
      BY <2>1, TakeSchedulerTypes
    <3>2. thr'.run.at \in {"remove", "from"}
      BY <3>1
    <3> QED
      BY <2>1, <3>1, <3>2 DEF SkipScheduler
  <2>2. CASE SkipScheduler(s)
    BY <1>1, <2>2, TakeSchedulerTypes DEF TakeScheduler
  <2> QED
    BY <2>1, <2>2
<1>3. TickInv' /\ HeldInv'
  BY <1>1, <1>2, NotTimes DEF TimeI, TickInv, HeldInv, Waits
<1>4. CountInv'
  BY <1>1 DEF TimeI, CountInv, Limit
<1>5. ASSUME NEW k \in Keys, NEW e \in Edges, rgt'[k] # NoScheduler
      PROVE  RepeatOK(k, e)' /\ LowerOK(k, e)'
  <2>1. RepeatOK(k, e) /\ LowerOK(k, e)
    BY <1>1, <1>5 DEF TimeI, EdgeInv
  <2>2. ~Acting(k, e) /\ ~(held = k /\ thr.run.at = "remove") /\ (Ahead(k, e) <=> Waits(k))
    BY <1>1, Stages DEF Acting, Ahead
  <2>3. Ahead(k, e)' => Ahead(k, e)
    BY <1>1, <1>2, <2>2 DEF Ahead, Waits
  <2>4. Looks(k, e)' <= Looks(k, e)
    BY <1>1, <2>3 DEF Looks
  <2>5. Ahead(k, e) => \/ Ahead(k, e)' \/ (held' = k /\ thr'.run.at = "remove")
                       \/ k = s /\ SkipScheduler(s)
    BY <1>1, <1>2, <2>2 DEF Ahead, Waits
  <2>6. CASE k = s /\ SkipScheduler(s)
    <3>1. dates[k].from >= now /\ dates[k].from \in Nat /\ now \in Nat
      BY <1>1, <1>2, <1>5, <2>6, EdgeTypes DEF IsActive, TypeI, EnvOK
    <3>2. rgt[k][e] > dates[k].from => rgt[k][e] >= Fired
      BY <1>1, <1>5, <3>1, EdgeTypes, FiredFacts DEF TypeI
    <3>3. RepeatOK(k, e)'
      <4>1. rgt[k][e] \in Int /\ runs[k][e] \in 0 .. 5 /\ Fired \in Int
        BY <1>1, <1>5, EdgeTypes, FiredFacts DEF TypeI
      <4>2. Fired' = Fired /\ Limit' = Limit /\ Limit \in {3, 4}
        BY <1>1 DEF Fired, Limit
      <4>3. Looks(k, e) \in 0 .. 2 /\ Looks(k, e)' \in 0 .. 2
        BY DEF Looks
      <4>4. (runs[k][e] + Looks(k, e)') * Interval <= (runs[k][e] + Looks(k, e)) * Interval
        BY <2>4, <4>1, <4>3, SchedulerAssumption
      <4>5. /\ (runs[k][e] + Looks(k, e)') * Interval \in Int
            /\ (runs[k][e] + Looks(k, e)) * Interval \in Int
            /\ Fired + Limit * Interval \in Int
        BY <4>1, <4>2, <4>3, SchedulerAssumption
      <4> QED
        BY <1>1, <2>1, <2>2, <4>1, <4>2, <4>4, <4>5 DEF RepeatOK
    <3>4. LowerOK(k, e)'
      <4>1. Fired' = Fired /\ Fired \in Int
        BY <1>1, FiredFacts DEF TypeI, Fired
      <4>2. rgt[k][e] >= Fired => \A b \in {0, Interval} : rgt[k][e] >= Fired - b
        BY <1>1, <1>5, <4>1, EdgeTypes, SchedulerAssumption
      <4> QED
        BY <1>1, <2>1, <3>2, <4>1, <4>2 DEF LowerOK
    <3> QED
      BY <3>3, <3>4
  <2>7. CASE ~(k = s /\ SkipScheduler(s))
    BY <1>1, <1>5, <2>1, <2>2, <2>4, <2>5, <2>7, EdgeKept
  <2> QED
    BY <2>6, <2>7
<1> QED
  BY <1>3, <1>4, <1>5 DEF TimeI, EdgeInv

\* An action of the scheduler Run holds starts, is passed over, or returns and is
\* moved on.
LEMMA TimeOfHeldAction ==
  ASSUME TypeI, TypeI', TimeI, NEW f \in Edges, Execute(f) \/ NotDue(f) \/ Forward(f),
         NEW s \in Keys, held = s, thr.run.key = s
  PROVE  TimeI'
<1>0. /\ UNCHANGED <<now, tick, late, dates, cron, iter, held>> /\ s \in Keys /\ InTick
      /\ iter.run.at # "off" /\ rgt[s] = own /\ held # NoScheduler /\ held' = s
      /\ thr'.run.key = s
  BY ActionTypes, NotTimes DEF RunOnly, TypeI, RegOK, LockOK
<1>1. held = s /\ rgt[s] = own /\ ~Waits(s) /\ ~Waits(s)'
  BY <1>0 DEF TimeI, HeldInv, Waits
<1>2. /\ rgt \in [Keys -> Times \union {NoScheduler}] /\ runs \in Repeats /\ own \in Times
      /\ rgt[s] # NoScheduler /\ rgt'[s] # NoScheduler
  <2>1. rgt[s] \in Times /\ rgt'[s] \in Times
    BY <1>0, <1>1 DEF TypeI, RegOK
  <2> QED
    BY <2>1, NotTimes DEF TypeI, RegOK
<1>3. /\ Execute(f) => thr.run.at = f /\ thr'.run.at = Doing[f]
      /\ NotDue(f) => thr.run.at = f /\ thr'.run.at = After[f]
      /\ Forward(f) => thr.run.at = Doing[f] /\ thr'.run.at = After[f]
  BY ActionTypes
<1>4. TickInv' /\ HeldInv'
  <2>1. TickInv'
    BY <1>0 DEF TimeI, TickInv
  <2>2. HeldInv'
    BY <1>0 DEF TimeI, HeldInv, Waits
  <2> QED
    BY <2>1, <2>2
<1>5. \A k \in Keys, e \in Edges : k # s \/ e # f =>
        /\ runs'[k][e] = runs[k][e]
        /\ rgt'[k] # NoScheduler => rgt[k] # NoScheduler /\ rgt'[k][e] = rgt[k][e]
  <2>1. \E c \in Nat : runs' = [runs EXCEPT ![s] = [runs[s] EXCEPT ![f] = c]] \/ runs' = runs
    <3>1. runs[s][f] \in 0 .. 5
      BY <1>0, <1>2 DEF Repeats
    <3>2. Execute(f) => runs' = [runs EXCEPT ![s] = [runs[s] EXCEPT ![f] =
                                   IF held = s /\ own[f] # Zero /\ runs[s][f] < 5
                                   THEN runs[s][f] + 1 ELSE runs[s][f]]]
      BY DEF Execute
    <3>3. Forward(f) => runs' = [runs EXCEPT ![s] = [runs[s] EXCEPT ![f] = 0]] \/ runs' = runs
      BY DEF Forward
    <3>4. (IF held = s /\ own[f] # Zero /\ runs[s][f] < 5 THEN runs[s][f] + 1
           ELSE runs[s][f]) \in Nat
      BY <3>1
    <3> QED
      BY <3>2, <3>3, <3>4, ActionTypes
  <2>2. rgt' = rgt \/ rgt' = [rgt EXCEPT ![s] = [own EXCEPT ![f] = Forwarded(f)]]
    BY <1>0, <1>1, ActionTypes
  <2>3. \A k \in Keys, e \in Edges : k # s \/ e # f => runs'[k][e] = runs[k][e]
    BY <1>0, <1>2, <2>1 DEF Repeats
  <2>4. \A k \in Keys, e \in Edges : (k # s \/ e # f) /\ rgt'[k] # NoScheduler =>
           rgt[k] # NoScheduler /\ rgt'[k][e] = rgt[k][e]
    BY <1>0, <1>1, <1>2, <2>2 DEF Times
  <2> QED
    BY <2>3, <2>4
<1>6. ASSUME NEW k \in Keys, NEW e \in Edges, rgt'[k] # NoScheduler, k # s \/ e # f
      PROVE  RepeatOK(k, e)' /\ LowerOK(k, e)' /\ runs'[k][e] <= Limit'
  <2>1. rgt[k] # NoScheduler /\ rgt'[k][e] = rgt[k][e] /\ runs'[k][e] = runs[k][e]
    BY <1>5, <1>6
  <2>2. RepeatOK(k, e) /\ LowerOK(k, e)
    BY <2>1 DEF TimeI, EdgeInv
  <2>3. /\ ~Acting(k, e) /\ ~(held = k /\ thr.run.at = "remove")
        /\ Ahead(k, e)' <=> Ahead(k, e)
    <3>1. Waits(k)' <=> Waits(k)
      BY <1>0 DEF Waits
    <3>2. CASE k # s
      BY <1>0, <1>1, <3>1, <3>2 DEF Acting, Ahead
    <3>3. CASE k = s
      BY <1>0, <1>1, <1>3, <1>6, <3>1, <3>3, Stages DEF Acting, Ahead, Edges
    <3> QED
      BY <3>2, <3>3
  <2>4. Looks(k, e)' <= Looks(k, e)
    BY <1>0, <2>3 DEF Looks
  <2>5. RepeatOK(k, e)' /\ LowerOK(k, e)'
    BY <1>0, <2>1, <2>2, <2>3, <2>4, EdgeKept
  <2>6. runs'[k][e] <= Limit'
    BY <1>0, <2>1 DEF TimeI, CountInv, Limit
  <2> QED
    BY <2>5, <2>6
<1>7. RepeatOK(s, f)' /\ LowerOK(s, f)' /\ runs'[s][f] <= Limit'
  <2>1. RepeatOK(s, f) /\ LowerOK(s, f) /\ runs[s][f] <= Limit
    BY <1>0, <1>2 DEF TimeI, EdgeInv, CountInv
  <2>2. /\ rgt[s][f] = own[f] /\ own[f] \in Moments /\ runs[s][f] \in 0 .. 5
        /\ Limit \in {3, 4} /\ Limit' = Limit /\ Fired' = Fired /\ Fired \in Int /\ Fired <= now
        /\ now < Fired + Interval /\ now \in Nat /\ own[f] \in Int /\ Zero \in Int
    <3>1. Limit \in {3, 4} /\ Limit' = Limit /\ Fired' = Fired
      BY <1>0 DEF Limit, Fired
    <3>2. own[f] \in Moments /\ runs[s][f] \in 0 .. 5
      BY <1>0, <1>2 DEF Times, Repeats
    <3> QED
      BY <1>1, <3>1, <3>2, FiredFacts DEF TypeI, EnvOK, Moments, Zero
  <2>6. CASE Execute(f) /\ own[f] = Zero
    <3>1. /\ Ahead(s, f) /\ ~Acting(s, f) /\ ~Ahead(s, f)' /\ Acting(s, f)'
      BY <1>0, <1>1, <1>3, <2>6, Stages DEF Ahead, Acting, Edges
    <3>2. rgt'[s][f] = rgt[s][f] /\ runs'[s][f] = runs[s][f]
      <4>1. runs' = [runs EXCEPT ![s] = [runs[s] EXCEPT ![f] = runs[s][f]]]
        BY <2>6 DEF Execute
      <4> QED
        BY <1>0, <1>2, <2>6, <4>1, ActionTypes DEF Repeats
    <3>3. Looks(s, f)' <= Looks(s, f)
      BY <1>0, <3>1 DEF Looks
    <3> QED
      BY <1>0, <1>2, <2>1, <2>2, <3>1, <3>2, <3>3, EdgeKept
  <2>3. CASE Execute(f) /\ own[f] # Zero
    <3>1. /\ Ahead(s, f) /\ ~Acting(s, f) /\ ~Ahead(s, f)' /\ Acting(s, f)'
          /\ ~(held = s /\ thr.run.at = "remove")
      BY <1>0, <1>1, <1>3, <2>3, Stages DEF Ahead, Acting, Edges
    <3>2. rgt'[s][f] = rgt[s][f] /\ own[f] - now < Interval
      BY <2>3, ActionTypes DEF IsDue
    <3>3. runs[s][f] < Limit
      BY <2>1, <2>2, <3>1 DEF RepeatOK
    <3>4. runs'[s][f] = runs[s][f] + 1
      <4>1. runs' = [runs EXCEPT ![s][f] =
                       IF held = s /\ own[f] # Zero /\ runs[s][f] < 5
                       THEN runs[s][f] + 1 ELSE runs[s][f]]
        BY <2>3 DEF Execute
      <4>2. runs[s][f] < 5
        BY <2>2, <3>3
      <4> QED
        BY <1>0, <1>1, <1>2, <2>3, <4>1, <4>2 DEF Repeats
    <3>5. RepeatOK(s, f)'
      <4>1. tick => Limit = 4
        BY <1>0 DEF TimeI, TickInv, Limit
      <4>2. rgt[s][f] + (runs[s][f] + 1 + (IF tick THEN 1 ELSE 0)) * Interval
              < Fired + Limit * Interval
        <5>1. CASE runs[s][f] >= 1
          <6>1. Looks(s, f) = 1 + (IF tick THEN 1 ELSE 0)
            BY <3>1 DEF Looks
          <6> QED
            BY <2>1, <2>2, <5>1, <6>1 DEF RepeatOK
        <5>2. CASE runs[s][f] = 0
          <6> QED
            BY <2>2, <3>2, <4>1, <5>2, SchedulerAssumption
        <5> QED
          BY <2>2, <5>1, <5>2
      <4>3. Looks(s, f)' = IF tick THEN 1 ELSE 0
        BY <1>0, <3>1 DEF Looks
      <4> QED
        BY <2>2, <2>3, <3>1, <3>2, <3>4, <4>2, <4>3 DEF RepeatOK
    <3>6. LowerOK(s, f)'
      BY <1>0, <2>1, <2>2, <3>1, <3>2 DEF LowerOK
    <3>7. runs'[s][f] <= Limit'
      BY <2>2, <3>3, <3>4
    <3> QED
      BY <3>5, <3>6, <3>7
  <2>4. CASE NotDue(f)
    <3>1. /\ Ahead(s, f) /\ ~Acting(s, f) /\ ~Ahead(s, f)'
          /\ ~(held = s /\ thr.run.at = "remove")
      BY <1>0, <1>1, <1>3, <2>4, Stages DEF Ahead, Acting, Edges
    <3>2. rgt'[s][f] = rgt[s][f] /\ runs'[s][f] = runs[s][f] /\ own[f] - now >= Interval
      BY <2>2, <2>4, ActionTypes, SchedulerAssumption DEF IsDue
    <3>3. Looks(s, f)' <= Looks(s, f)
      BY <1>0, <3>1 DEF Looks
    <3>4. rgt[s][f] >= Fired
      BY <2>2, <3>2, SchedulerAssumption
    <3> QED
      BY <1>0, <1>2, <2>1, <2>2, <3>1, <3>2, <3>3, <3>4, EdgeKept
  <2>5. CASE Forward(f)
    <3>1. /\ ~Ahead(s, f) /\ Acting(s, f) /\ ~Ahead(s, f)' /\ ~Acting(s, f)'
      BY <1>0, <1>1, <1>3, <2>5, Stages DEF Ahead, Acting, Edges
    <3>2. /\ rgt'[s] = own' /\ own'[f] = Forwarded(f)
          /\ runs' = IF held = s /\ own'[f] # own[f] THEN [runs EXCEPT ![s][f] = 0] ELSE runs
      <4>1. own' = [own EXCEPT ![f] = Forwarded(f)]
        BY <2>5, ActionTypes
      <4> QED
        BY <1>1, <1>2, <1>0, <2>5, <4>1, ActionTypes DEF Forward, Times
    <3>3. CASE own[f] < now
      <4>1. own'[f] = NextOcc(s, f, now) /\ (own'[f] # own[f] \/ own[f] = Zero)
        <5>1. /\ NextOcc(s, f, now) \in Int
              /\ NextOcc(s, f, now) > now \/ NextOcc(s, f, now) = Zero
          BY NextOccFacts DEF TypeI, EnvOK
        <5>2. Forwarded(f) = NextOcc(s, f, now)
          BY <3>3 DEF Forwarded
        <5> QED
          BY <2>2, <3>2, <3>3, <5>1, <5>2
      <4>2. rgt'[s][f] = NextOcc(s, f, now) /\ runs'[s][f] = 0
        <5>1. CASE own'[f] # own[f]
          BY <1>0, <1>1, <1>2, <3>2, <4>1, <5>1 DEF Repeats
        <5>2. CASE own'[f] = own[f]
          BY <2>1, <2>2, <3>2, <4>1, <5>2 DEF RepeatOK
        <5> QED
          BY <5>1, <5>2
      <4>3. RepeatOK(s, f)' /\ LowerOK(s, f)'
        BY <1>0, <4>2, FreshEdge
      <4> QED
        BY <2>2, <4>2, <4>3
    <3>4. CASE ~(own[f] < now)
      <4>1. rgt'[s][f] = rgt[s][f] /\ runs'[s][f] = runs[s][f] /\ rgt[s][f] >= Fired
        <5>1. own'[f] = own[f]
          BY <3>2, <3>4 DEF Forwarded
        <5> QED
          BY <2>2, <3>2, <3>4, <5>1
      <4>2. Looks(s, f)' <= Looks(s, f)
        BY <1>0, <3>1 DEF Looks
      <4> QED
        BY <1>0, <1>2, <2>1, <2>2, <3>1, <4>1, <4>2, EdgeKept
    <3> QED
      BY <3>3, <3>4
  <2> QED
    BY <2>3, <2>4, <2>5, <2>6
<1>8. CountInv'
  <2> SUFFICES ASSUME NEW k \in Keys, NEW e \in Edges PROVE runs'[k][e] <= Limit'
    BY DEF CountInv
  <2>1. CASE k = s /\ e = f
    BY <1>7, <2>1
  <2>2. CASE k # s \/ e # f
    BY <1>0, <1>5, <2>2 DEF TimeI, CountInv, Limit
  <2> QED
    BY <2>1, <2>2
<1> QED
  BY <1>4, <1>6, <1>7, <1>8 DEF TimeI, EdgeInv

LEMMA TimeOfAction ==
  ASSUME TypeI, TypeI', TimeI, NEW f \in Edges, Execute(f) \/ NotDue(f) \/ Forward(f)
  PROVE  TimeI'
<1> DEFINE s == thr.run.key
<1>1. /\ UNCHANGED <<now, tick, late, dates, cron, iter, held>> /\ s \in Keys /\ InTick
      /\ iter.run.at # "off" /\ (held # NoScheduler => held = s /\ rgt[s] = own)
  BY ActionTypes DEF RunOnly, TypeI, RegOK, LockOK
<1>2. CASE held = NoScheduler
  <2>1. UNCHANGED <<rgt, runs>>
    <3>1. held # s
      BY <1>1, <1>2, NotTimes
    <3>2. runs \in Repeats
      BY DEF TypeI, RegOK
    <3>3. Execute(f) => runs' = [runs EXCEPT ![s] = [runs[s] EXCEPT ![f] = runs[s][f]]]
      BY <3>1 DEF Execute
    <3>4. [runs EXCEPT ![s] = [runs[s] EXCEPT ![f] = runs[s][f]]] = runs
      BY <1>1, <3>2 DEF Repeats
    <3>5. Forward(f) => runs' = runs
      BY <3>1 DEF Forward
    <3> QED
      BY <1>2, <3>3, <3>4, <3>5, ActionTypes
  <2> QED
    BY <1>1, <1>2, <2>1, TimeCalm
<1>3. CASE held # NoScheduler
  BY <1>1, <1>3, TimeOfHeldAction
<1> QED
  BY <1>2, <1>3

LEMMA TimeStep == TypeI /\ TimeI /\ [Next]_vars => TimeI'
<1> SUFFICES ASSUME TypeI, TimeI, [Next]_vars PROVE TimeI'
  OBVIOUS
<1>1. TypeI'
  BY TypeStep
<1>2. CASE UNCHANGED vars
  <2>1. UNCHANGED <<now, tick, late, dates, cron, rgt, runs, held, iter, thr>>
    BY <1>2 DEF vars, inputs, regVars, itemVars
  <2> QED
    BY <1>1, <2>1, TimeCalm
<1>3. CASE Next
  BY <1>1, <1>3, StepKinds, TimeOfClock, TimeOfOthers, TimeOfIter, TimeOfRegistry, TimeOfTick,
     TimeOfScheduler, TimeOfAction, Zenon
<1> QED
  BY <1>2, <1>3

LEMMA Timed == Spec => [](TypeI /\ TimeI)
<1>1. Init => TypeI /\ TimeI
  BY InitTypes, InitTime
<1>2. TypeI /\ TimeI /\ [Next]_vars => TypeI' /\ TimeI'
  BY TypeStep, TimeStep
<1> QED
  BY <1>1, <1>2, PTL DEF Spec

\* One registration executes an occurrence in at most three ticks, or four if one of
\* them was late, however long the actions take (manager.go:141).
THEOREM RepeatsEnd == Spec => []AtMostThrice
<1>1. TimeI => AtMostThrice
  BY DEF TimeI, CountInv, AtMostThrice, Limit
<1> QED
  BY <1>1, Timed, PTL

\* An executed occurrence that is past is less than two intervals past, unless a
\* tick was late, so the next one is the first after it.
LEMMA NextIsNext ==
  ASSUME TypeI, TimeI, Next, NEW e \in Edges, Forwards(e), held # NoScheduler, ~late,
         own[e] > dates[held].from, cron[held][e].every = 0
  PROVE  own'[e] = NextOcc(held, e, own[e])
<1>1. thr.run.at = Doing[e] /\ own'[e] # own[e]
  BY DEF Forwards, At
<1>2. Forward(e)
  <2>1. thr.run.at \in {"do from", "do to"}
    BY <1>1, Stages
  <2>2. \A f \in Edges : ~Execute(f) /\ ~NotDue(f) /\ (Forward(f) => f = e)
    BY <1>1, Stages DEF Execute, NotDue, Forward, At, Edges
  <2>3. own' = own \/ \E f \in Edges : Forward(f)
    <3>1. CASE Clock \/ RingMoves \/ \E k \in Keys : CreateScheduler(k) \/ DeleteScheduler(k)
      BY <3>1 DEF Clock, RingMoves, CreateScheduler, DeleteScheduler, itemVars
    <3>2. CASE \E w \in Iterators : IterLocks(w) \/ IterCloses(w)
      BY <3>2, IterTypes DEF itemVars
    <3>3. CASE RunStops \/ WatchFails \/ TakeEvent \/ LookUp \/ LoadStep \/ StoreCheck("run")
      BY <3>3, EventTypes
    <3>4. CASE \E t \in Threads : StoreSet(t) \/ Remove(t)
      BY <3>4 DEF StoreSet, Remove
    <3>5. CASE TakeTick \/ TickEnds \/ (\E k \in Keys : TakeScheduler(k) \/ SkipScheduler(k))
               \/ DeleteExpired \/ DeleteExpiredFails
      BY <2>1, <3>5 DEF TakeTick, TickEnds, TakeScheduler, SkipScheduler, DeleteExpired,
                        DeleteExpiredFails, At
    <3>6. CASE ReloadSteps \/ SaveSteps
      BY <3>6, ReloadTypes, SaveTypes DEF itemVars
    <3> QED
      BY <2>2, <3>1, <3>2, <3>3, <3>4, <3>5, <3>6, StepKinds, Zenon
  <2> QED
    BY <1>1, <2>2, <2>3
<1>3. /\ held \in Keys /\ rgt[held] = own /\ rgt[held] # NoScheduler
      /\ own[e] \in Int /\ now \in Nat /\ InTick /\ thr.run.key = held
      /\ dates[held].from \in Nat
  <2>1. held \in Keys /\ rgt[held] = own /\ own \in Times /\ InTick /\ thr.run.key = held
    BY DEF TypeI, RegOK
  <2>2. rgt[held] # NoScheduler
    BY <2>1, NotTimes
  <2> QED
    BY <2>1, <2>2, EdgeTypes DEF TypeI, EnvOK
<1>4. own[e] < now /\ own'[e] = NextOcc(held, e, now)
  BY <1>1, <1>2, <1>3, ActionTypes DEF Forwarded, TypeI, RegOK, Times
<1> DEFINE occ == cron[held][e].occ
<1>5. own[e] \in occ /\ own[e] >= Fired - Interval
  <2>1. LowerOK(held, e)
    BY <1>3 DEF TimeI, EdgeInv
  <2>2. own[e] \in occ
    BY <1>3, <2>1 DEF LowerOK, Zero
  <2>3. Fired \in Int
    BY FiredFacts DEF TypeI
  <2> QED
    BY <1>3, <2>1, <2>2, <2>3, SchedulerAssumption DEF LowerOK
<1>6. now < own[e] + 2 * Interval
  BY <1>3, <1>5, FiredFacts, SchedulerAssumption DEF TypeI
<1>7. \A o \in occ : o > own[e] <=> o > now
  <2> SUFFICES ASSUME NEW o \in occ PROVE o > own[e] <=> o > now
    OBVIOUS
  <2>1. cron[held] \in Crons
    BY <1>3 DEF TypeI, EnvOK
  <2>2. o \in Nat
    <3>1. cron[held] \in [Edges -> [occ: SUBSET Nat, every: Nat]]
      BY <2>1, SchedulerAssumption
    <3> QED
      BY <3>1
  <2>3. own[e] < o => o - own[e] >= 2 * Interval
    BY <1>5, <2>1, OccurrencesApart
  <2> QED
    BY <1>3, <1>4, <1>6, <2>2, <2>3, SchedulerAssumption
<1>8. {o \in occ : o > own[e]} = {o \in occ : o > now}
  BY <1>7
<1>9. ~(cron[held][e].every > 0)
  OBVIOUS
<1> QED
  BY <1>4, <1>8, <1>9, Zenon DEF NextOcc

\* No occurrence of a schedule of five fields is passed over when the next execution
\* is moved on, for any interval of at most half a minute (scheduler.go:97).
THEOREM NoneSkipped == Spec => NothingSkipped
<1> DEFINE A == \A e \in Edges :
                  Forwards(e) /\ held # NoScheduler =>
                    \/ late
                    \/ own[e] <= dates[held].from
                    \/ cron[held][e].every > 0
                    \/ own'[e] = NextOcc(held, e, own[e])
<1>1. TypeI /\ TimeI /\ [Next]_vars => [A]_vars
  <2> SUFFICES ASSUME TypeI, TimeI, Next, NEW e \in Edges, Forwards(e), held # NoScheduler,
                      ~late, ~(own[e] <= dates[held].from), ~(cron[held][e].every > 0)
               PROVE  own'[e] = NextOcc(held, e, own[e])
    OBVIOUS
  <2>1. held \in Keys /\ own[e] \in Int /\ dates[held].from \in Nat
    <3>1. held \in Keys /\ own \in Times /\ rgt[held] = own
      BY DEF TypeI, RegOK
    <3> QED
      BY <3>1, NotTimes, EdgeTypes
  <2>2. own[e] > dates[held].from /\ cron[held][e].every = 0
    <3>1. cron[held] \in [Edges -> [occ: SUBSET Nat, every: Nat]]
      BY <2>1, SchedulerAssumption DEF TypeI, EnvOK
    <3>2. cron[held][e].every \in Nat
      BY <3>1
    <3> QED
      BY <2>1, <3>2
  <2> QED
    BY <2>2, NextIsNext
<1>2. Spec => [][A]_vars
  BY <1>1, Timed, PTL DEF Spec
<1> QED
  BY <1>2 DEF NothingSkipped

-----------------------------------------------------------------------------
(* Events on their way, and what load, Run and rebalance know of a key.     *)

\* An event of k in the queue has a type of T.
Told(k, T) == \E n \in DOMAIN todo : todo[n].key = k /\ todo[n].type \in T

\* The last event of k, apart from modify after a create, is of type y.
LastIs(k, y) ==
  \E n \in DOMAIN todo :
    /\ todo[n].type = y /\ todo[n].key = k
    /\ \A m \in DOMAIN todo :
         m > n /\ todo[m].key = k => y = "create" /\ todo[m].type = "modify"

LEMMA AppendFacts ==
  ASSUME todo \in Seq(Event), NEW v \in Event, todo' = Append(todo, v), NEW k
  PROVE  /\ v.key # k => /\ \A y \in {"create", "delete"} : LastIs(k, y)' <=> LastIs(k, y)
                         /\ \A T \in SUBSET {"create", "modify", "delete"} : Told(k, T)' <=> Told(k, T)
         /\ v.key = k => /\ \A y \in {"create", "delete"} : v.type = y => LastIs(k, y)'
                         /\ v.type = "modify" /\ LastIs(k, "create") => LastIs(k, "create")'
                         /\ \A T \in SUBSET {"create", "modify", "delete"} : v.type \notin T => (Told(k, T)' <=> Told(k, T))
<1> DEFINE N == Len(todo)
<1>1. /\ DOMAIN todo = 1 .. N /\ DOMAIN todo' = 1 .. N + 1 /\ N \in Nat
      /\ todo'[N + 1] = v /\ \A n \in 1 .. N : todo'[n] = todo[n]
  BY DEF Event
<1>2. \A n \in 1 .. N + 1 : n \in 1 .. N \/ n = N + 1
  BY <1>1
<1>3. N + 1 \in 1 .. N + 1 /\ 1 .. N \subseteq 1 .. N + 1 /\ \A n \in 1 .. N : n < N + 1 /\ ~(N + 1 < n)
  BY <1>1
<1> HIDE DEF N
<1>4. ASSUME NEW T \in SUBSET {"create", "modify", "delete"}, v.key # k \/ v.type \notin T
      PROVE  Told(k, T)' <=> Told(k, T)
  BY <1>1, <1>2, <1>3, <1>4 DEF Told
<1>5. ASSUME NEW y \in {"create", "delete"}, v.key # k
      PROVE  LastIs(k, y)' <=> LastIs(k, y)
  <2>1. ASSUME NEW n \in 1 .. N
        PROVE  (\A m \in 1 .. N + 1 : m > n /\ todo'[m].key = k => y = "create" /\ todo'[m].type = "modify")
               <=> (\A m \in 1 .. N : m > n /\ todo[m].key = k => y = "create" /\ todo[m].type = "modify")
    BY <1>1, <1>2, <1>3, <1>5
  <2> QED
    BY <1>1, <1>2, <1>3, <1>5, <2>1 DEF LastIs
<1>6. ASSUME NEW y \in {"create", "delete"}, v.key = k, v.type = y
      PROVE  LastIs(k, y)'
  <2>1. \A m \in DOMAIN todo' : ~(m > N + 1)
    BY <1>1
  <2> QED
    BY <1>1, <1>3, <1>6, <2>1 DEF LastIs
<1>7. ASSUME v.key = k, v.type = "modify", LastIs(k, "create")
      PROVE  LastIs(k, "create")'
  <2>1. PICK n \in 1 .. N :
          /\ todo[n].type = "create" /\ todo[n].key = k
          /\ \A m \in 1 .. N : m > n /\ todo[m].key = k => todo[m].type = "modify"
    BY <1>1, <1>7 DEF LastIs
  <2>2. \A m \in 1 .. N + 1 : m > n /\ todo'[m].key = k => todo'[m].type = "modify"
    BY <1>1, <1>2, <1>7, <2>1
  <2>3. n \in 1 .. N + 1 /\ todo'[n].type = "create" /\ todo'[n].key = k
    BY <1>1, <1>3, <2>1
  <2> QED
    BY <1>1, <2>2, <2>3 DEF LastIs
<1> QED
  BY <1>4, <1>5, <1>6, <1>7

LEMMA TailFacts ==
  ASSUME todo \in Seq(Event), todo # << >>, todo' = Tail(todo), NEW k
  PROVE  /\ \A T \in SUBSET {"create", "modify", "delete"} :
              /\ Told(k, T)' => Told(k, T)
              /\ Head(todo).key = k /\ Head(todo).type \in T => Told(k, T)
         /\ \A y \in {"create", "delete"} : LastIs(k, y) =>
              \/ LastIs(k, y)'
              \/ /\ Head(todo).key = k /\ Head(todo).type = y
                 /\ ~Told(k, {"create", "delete"})'
                 /\ y = "delete" => ~Told(k, {"create", "modify", "delete"})'
<1> DEFINE N == Len(todo)
<1>1. /\ DOMAIN todo = 1 .. N /\ DOMAIN todo' = 1 .. N - 1 /\ N \in Nat \ {0}
      /\ Head(todo) = todo[1] /\ \A n \in 1 .. N - 1 : todo'[n] = todo[n + 1]
  BY DEF Event
<1>2. /\ \A n \in 1 .. N - 1 : n + 1 \in 1 .. N /\ n + 1 > 1
      /\ 1 \in 1 .. N
      /\ \A n \in 1 .. N : n = 1 \/ (n - 1 \in 1 .. N - 1 /\ n = (n - 1) + 1)
      /\ \A n, m \in 1 .. N - 1 : m > n => m + 1 > n + 1
  BY <1>1
<1> HIDE DEF N
<1>3. ASSUME NEW T \in SUBSET {"create", "modify", "delete"}
      PROVE  /\ Told(k, T)' => Told(k, T)
             /\ Head(todo).key = k /\ Head(todo).type \in T => Told(k, T)
  BY <1>1, <1>2 DEF Told
<1>4. ASSUME NEW y \in {"create", "delete"}, LastIs(k, y), ~LastIs(k, y)'
      PROVE  /\ Head(todo).key = k /\ Head(todo).type = y
             /\ ~Told(k, {"create", "delete"})'
             /\ y = "delete" => ~Told(k, {"create", "modify", "delete"})'
  <2>1. PICK n \in 1 .. N :
          /\ todo[n].type = y /\ todo[n].key = k
          /\ \A m \in 1 .. N : m > n /\ todo[m].key = k => y = "create" /\ todo[m].type = "modify"
    BY <1>1, <1>4 DEF LastIs
  <2>2. n = 1
    <3> SUFFICES ASSUME n # 1 PROVE LastIs(k, y)'
      BY <1>4
    <3>1. PICK i \in 1 .. N - 1 : n = i + 1
      BY <1>2, <2>1
    <3>2. todo'[i].type = y /\ todo'[i].key = k
      BY <1>1, <2>1, <3>1
    <3>3. \A m \in 1 .. N - 1 : m > i /\ todo'[m].key = k => y = "create" /\ todo'[m].type = "modify"
      BY <1>1, <1>2, <2>1, <3>1
    <3> QED
      BY <1>1, <3>2, <3>3 DEF LastIs
  <2>3. \A m \in 1 .. N - 1 : todo'[m].key = k => y = "create" /\ todo'[m].type = "modify"
    BY <1>1, <1>2, <2>1, <2>2
  <2> QED
    BY <1>1, <2>1, <2>2, <2>3 DEF Told
<1> QED
  BY <1>3, <1>4

\* The queue says whether etcd has k, if it says anything of that.
QueueOK(k) ==
  /\ k \in stored /\ Told(k, {"create", "delete"}) => LastIs(k, "create")
  /\ k \notin stored /\ Told(k, {"create", "modify", "delete"}) => LastIs(k, "delete")

\* Run is about to remove k, to store it anew after that, or to store it.
Deleting(k) == thr.run.key = k /\ thr.run.at \in {"get", "remove"} /\ thr.run.then = "select"
Modifying(k) == thr.run.key = k /\ thr.run.at \in {"get", "remove"} /\ thr.run.then = "check"
Storing(k) == thr.run.key = k /\ thr.run.at \in {"check", "set"}

\* etcd has k, or its deletion is on the way, or was missed.
Known(k) == k \in stored \/ LastIs(k, "delete") \/ k \in missed

\* An event in Run's hands that is no longer true is followed by one that is.
HandOK(k) ==
  /\ Deleting(k) /\ k \in stored => LastIs(k, "create")
  /\ Modifying(k) \/ Storing(k) => Known(k)

\* Who is registered changes only when a scheduler is stored or removed.
Registered == {k \in Keys : rgt[k] # NoScheduler}

LoadStages == {"load", "loading", "opening"}

\* Run begins when load has looked at all keys; before that no event is there, and
\* before load has read nothing is registered.
LoadInv ==
  /\ ~watch => todo = << >> /\ thr.run.at \in LoadStages \union {"check", "set"}
  /\ watch => toLoad = {} /\ thr.run.at \notin LoadStages
  /\ thr.run.at \in {"load", "opening"} => toLoad = {}
  /\ thr.run.at = "load" => Registered = {} /\ thr.reload.at = "idle"
  /\ \A k \in toLoad : k \in stored \/ k \in missed

\* load will come to k.
LoadHas(k) == thr.run.at = "load" \/ k \in toLoad

KeyInv == \A k \in Keys : QueueOK(k) /\ HandOK(k)

\* What rebalance hands over is not of this node, or rebalance comes again.
ReloadInv ==
  /\ thr.reload.at = "idle" => left = {}
  /\ thr.reload.at \in {"foreign", "put", "remove"} /\ thr.reload.key \in mine => pending

\* Rebalance will come to k, or Run is at it.
ReloadHas(k) ==
  \/ pending \/ thr.reload.at = "read" \/ k \in left
  \/ thr.reload.key = k /\ thr.reload.at \in {"own", "check", "set"}

RunHas(k) ==
  \/ Storing(k) \/ (Modifying(k) /\ thr.run.at = "remove")
  \/ thr.run.key = k /\ thr.run.at \in {"remove", "delete"} /\ thr.run.then = "delete"

\* A scheduler of this node that is not registered is about to be, or to be deleted,
\* or was missed.
OwnInv ==
  ~failed /\ save = "idle" =>
    \A k \in (stored \intersect mine) \ missed :
      \/ rgt[k] # NoScheduler
      \/ ReloadHas(k) \/ RunHas(k) \/ LastIs(k, "create") \/ LoadHas(k)

\* While the ring has not moved, what is registered is of this node and in etcd, or
\* about to be removed, or its deletion was missed.
ExactInv ==
  moves = 0 =>
    /\ ~pending /\ thr.reload.at = "idle"
    /\ thr.run.at = "set" => thr.run.key \in mine
    /\ \A k \in Keys : rgt[k] # NoScheduler =>
         k \in mine /\ (Known(k) \/ Deleting(k))

KeyI == KeyInv /\ LoadInv /\ ReloadInv /\ OwnInv /\ ExactInv

\* What a step other than TakeEvent may do to etcd.
EtcdMoves ==
  \/ UNCHANGED <<stored, todo>> /\ missed \subseteq missed'
  \/ Rebalance
  \/ \E s \in Keys : Put(s) \/ Delete(s)

\* A write the watch does not tell of.
LEMMA QueueUntold ==
  ASSUME TypeI, NEW k \in Keys, ~watch, todo = << >>, NEW s \in Keys, Put(s) \/ Delete(s)
  PROVE  /\ todo' = << >> /\ missed \subseteq missed'
         /\ k \in stored' /\ k \notin stored => k \in missed' \/ thr.run.at = "load"
         /\ k \in stored => k \in stored' \/ k \in missed' \/ thr.run.at = "load"
<1>1. ASSUME NEW y, Tell(s, y)
      PROVE  /\ todo' = << >> /\ missed \subseteq missed'
             /\ s \in missed' \/ thr.run.at = "load"
  BY <1>1 DEF Tell
<1>2. CASE Put(s)
  BY <1>1, <1>2 DEF Put
<1>3. CASE Delete(s)
  BY <1>1, <1>3 DEF Delete
<1> QED
  BY <1>2, <1>3

\* A change of etcd, or none, as far as k sees it.
LEMMA QueueChange ==
  ASSUME TypeI, NEW k \in Keys, QueueOK(k), ~watch => todo = << >>, EtcdMoves
  PROVE  /\ QueueOK(k)'
         /\ LastIs(k, "create") /\ k \in stored' => LastIs(k, "create")'
         /\ k \in stored' /\ k \notin stored =>
              LastIs(k, "create")' \/ (~watch /\ (k \in missed' \/ thr.run.at = "load"))
         /\ Known(k) => Known(k)' \/ (~watch /\ thr.run.at = "load")
         /\ k \in missed /\ k \notin missed' /\ k \in stored' => LastIs(k, "create")' \/ Rebalance
<1>1. todo \in Seq(Event) /\ stored \in SUBSET Keys
  BY DEF TypeI, EnvOK
<1>0. /\ {"create", "delete"} \in SUBSET {"create", "modify", "delete"}
      /\ {"create", "modify", "delete"} \in SUBSET {"create", "modify", "delete"}
  OBVIOUS
<1>2. CASE (UNCHANGED <<stored, todo>> /\ missed \subseteq missed') \/ Rebalance
  <2>1. /\ UNCHANGED <<stored, todo>>
        /\ \A j \in missed : j \in missed' \/ (j \in stored' /\ Rebalance)
    BY <1>2 DEF Rebalance
  <2> QED
    BY <2>1 DEF QueueOK, Told, LastIs, Known
<1>5. ASSUME ~watch, NEW s \in Keys, Put(s) \/ Delete(s)
      PROVE  /\ QueueOK(k)' /\ ~LastIs(k, "create") /\ missed \subseteq missed'
             /\ k \in stored' /\ k \notin stored => k \in missed' \/ thr.run.at = "load"
             /\ Known(k) => Known(k)' \/ thr.run.at = "load"
  <2>1. /\ todo = << >> /\ todo' = << >> /\ missed \subseteq missed'
        /\ k \in stored' /\ k \notin stored => k \in missed' \/ thr.run.at = "load"
        /\ k \in stored => k \in stored' \/ k \in missed' \/ thr.run.at = "load"
    BY <1>5, QueueUntold
  <2>2. ~LastIs(k, "create") /\ ~LastIs(k, "delete") /\ QueueOK(k)'
    BY <2>1 DEF LastIs, QueueOK, Told
  <2> QED
    BY <2>1, <2>2 DEF Known
<1>3. ASSUME watch, NEW s \in Keys, Put(s)
      PROVE  /\ QueueOK(k)'
             /\ LastIs(k, "create") => LastIs(k, "create")'
             /\ k \in stored' /\ k \notin stored => LastIs(k, "create")'
             /\ k \in stored => k \in stored'
             /\ LastIs(k, "delete") => k \in stored' \/ LastIs(k, "delete")'
             /\ k \in missed => k \in missed' \/ (k \in stored' /\ k \notin stored)
  <2> DEFINE v == [type |-> IF s \in stored THEN "modify" ELSE "create", key |-> s]
  <2>1. v \in Event /\ todo' = Append(todo, v) /\ v.key = s /\ stored' = stored \union {s}
        /\ v.type = IF s \in stored THEN "modify" ELSE "create"
    BY <1>3 DEF Put, Tell, Event
  <2>5. k \in missed => k \in missed' \/ (k \in stored' /\ k \notin stored)
    BY <1>3 DEF Put, Tell
  <2> HIDE DEF v
  <2>2. CASE s # k
    BY <1>0, <1>1, <2>1, <2>2, <2>5, AppendFacts DEF QueueOK
  <2>3. CASE s = k /\ k \in stored
    <3>1. v.type = "modify" /\ v.type \notin {"create", "delete"} /\ k \in stored'
      BY <2>1, <2>3
    <3>2. /\ LastIs(k, "create") => LastIs(k, "create")'
          /\ Told(k, {"create", "delete"})' <=> Told(k, {"create", "delete"})
      BY <1>0, <1>1, <2>1, <2>3, <3>1, AppendFacts
    <3> QED
      BY <2>3, <2>5, <3>1, <3>2 DEF QueueOK
  <2>4. CASE s = k /\ k \notin stored
    <3>1. v.type = "create" /\ k \in stored'
      BY <2>1, <2>4
    <3>2. LastIs(k, "create")'
      BY <1>1, <2>1, <2>4, <3>1, AppendFacts
    <3> QED
      BY <2>4, <2>5, <3>1, <3>2 DEF QueueOK
  <2> QED
    BY <2>2, <2>3, <2>4, <2>5
<1>4. ASSUME watch, NEW s \in Keys, Delete(s)
      PROVE  /\ QueueOK(k)'
             /\ LastIs(k, "create") /\ k \in stored' => LastIs(k, "create")'
             /\ k \in stored' => k \in stored
             /\ k \in stored \/ LastIs(k, "delete") => k \in stored' \/ LastIs(k, "delete")'
             /\ k \in missed =>
                  k \in missed' \/ (k \notin stored' /\ LastIs(k, "delete")')
  <2> DEFINE v == [type |-> "delete", key |-> s]
  <2>1. /\ v \in Event /\ v.key = s /\ v.type = "delete" /\ stored' = stored \ {s}
        /\ todo' = IF s \in stored THEN Append(todo, v) ELSE todo
        /\ missed' = missed \/ (s \in stored /\ missed' = missed \ {s})
    BY <1>4 DEF Delete, Tell, Event
  <2> HIDE DEF v
  <2>2. CASE s \notin stored
    <3>1. UNCHANGED <<stored, todo>>
      BY <1>1, <2>1, <2>2
    <3> QED
      BY <2>1, <2>2, <3>1 DEF QueueOK, Told, LastIs
  <2>3. CASE s \in stored /\ s # k
    BY <1>0, <1>1, <2>1, <2>3, AppendFacts DEF QueueOK
  <2>4. CASE s \in stored /\ s = k
    <3>1. LastIs(k, "delete")' /\ k \notin stored'
      BY <1>1, <2>1, <2>4, AppendFacts
    <3> QED
      BY <2>4, <3>1 DEF QueueOK
  <2> QED
    BY <2>2, <2>3, <2>4
<1> QED
  BY <1>2, <1>3, <1>4, <1>5 DEF EtcdMoves, Known

\* An event leaves the queue.
LEMMA QueueTaken ==
  ASSUME TypeI, NEW k \in Keys, QueueOK(k), TakeEvent
  PROVE  /\ QueueOK(k)' /\ stored' = stored
         /\ LastIs(k, "create") => LastIs(k, "create")' \/ Storing(k)'
         /\ LastIs(k, "delete") => LastIs(k, "delete")' \/ Deleting(k)'
         /\ Deleting(k)' /\ k \in stored => LastIs(k, "create")'
         /\ Modifying(k)' \/ Storing(k)' => k \in stored \/ LastIs(k, "delete")'
<1> DEFINE v == Head(todo)
<1>1. todo \in Seq(Event) /\ todo # << >> /\ todo' = Tail(todo) /\ stored' = stored /\ v \in Event
  BY DEF TypeI, EnvOK, TakeEvent
<1>2. /\ thr'.run.key = v.key
      /\ thr'.run.at = IF v.type = "create" THEN "check" ELSE "get"
      /\ thr'.run.then = IF v.type = "modify" THEN "check" ELSE "select"
      /\ v.type \in {"create", "modify", "delete"}
  <2>1. thr'.run = [at |-> FirstStep(v), key |-> v.key,
                    then |-> IF v.type = "modify" THEN "check" ELSE "select"]
    BY DEF TakeEvent, TypeI, ThrOK
  <2>2. v.type \in {"create", "modify", "delete"}
    BY <1>1 DEF Event
  <2> HIDE DEF v
  <2> QED
    BY <2>1, <2>2 DEF FirstStep
<1>3. /\ Deleting(k)' <=> v.key = k /\ v.type = "delete"
      /\ Modifying(k)' <=> v.key = k /\ v.type = "modify"
      /\ Storing(k)' <=> v.key = k /\ v.type = "create"
  BY <1>2 DEF Deleting, Modifying, Storing
<1>4. /\ Told(k, {"create", "delete"})' => Told(k, {"create", "delete"})
      /\ Told(k, {"create", "modify", "delete"})' => Told(k, {"create", "modify", "delete"})
      /\ v.key = k /\ v.type \in {"create", "delete"} => Told(k, {"create", "delete"})
      /\ v.key = k => Told(k, {"create", "modify", "delete"})
      /\ LastIs(k, "create") =>
           LastIs(k, "create")' \/ (v.key = k /\ v.type = "create" /\ ~Told(k, {"create", "delete"})')
      /\ LastIs(k, "delete") =>
           LastIs(k, "delete")' \/ (v.key = k /\ v.type = "delete"
                                    /\ ~Told(k, {"create", "modify", "delete"})')
  <2>1. /\ {"create", "delete"} \in SUBSET {"create", "modify", "delete"}
        /\ {"create", "modify", "delete"} \in SUBSET {"create", "modify", "delete"}
    OBVIOUS
  <2> QED
    BY <1>1, <1>2, <2>1, TailFacts
<1> HIDE DEF v
<1>5. QueueOK(k)'
  BY <1>1, <1>4 DEF QueueOK
<1> QED
  BY <1>1, <1>3, <1>4, <1>5 DEF QueueOK

\* What it may do to what Run has in hand.
HandsFollow ==
  \A k \in Keys :
    /\ Deleting(k)' => Deleting(k)
    /\ (Modifying(k) \/ Storing(k))' => Modifying(k) \/ Storing(k)

LEMMA EtcdSteps ==
  ASSUME TypeI, Next, ~TakeEvent
  PROVE  EtcdMoves /\ (LoadStep \/ HandsFollow)
<1> USE DEF EtcdMoves
<1>1. CASE Clock \/ RingMoves \/ \E k \in Keys : CreateScheduler(k) \/ DeleteScheduler(k)
  <2>1. thr' = thr
    BY <1>1 DEF Clock, RingMoves, CreateScheduler, DeleteScheduler
  <2>2. EtcdMoves
    BY <1>1 DEF Clock, RingMoves, CreateScheduler, DeleteScheduler, etcdVars
  <2> QED
    BY <2>1, <2>2 DEF HandsFollow, Deleting, Modifying, Storing
<1>2. CASE \E w \in Iterators : IterLocks(w) \/ IterCloses(w)
  BY <1>2, IterTypes DEF etcdVars, HandsFollow, Deleting, Modifying, Storing
<1>11. CASE LoadStep
  <2>1. UNCHANGED <<stored, todo>>
    BY <1>11, LoadFacts
  <2>2. missed \subseteq missed'
    BY <1>11 DEF LoadStep, LoadReads, LoadFails, LoadEnds, OpenWatch, LoadKey, LoadSkips,
                 RequestFails, etcdVars
  <2> QED
    BY <1>11, <2>1, <2>2
<1>3. CASE RunStops \/ WatchFails \/ LookUp \/ StoreCheck("run")
  <2>1. UNCHANGED <<stored, todo>> /\ missed \subseteq missed'
    BY <1>3 DEF RunStops, WatchFails, RequestFails, LookUp, StoreCheck, etcdVars
  <2>2. CASE RunStops \/ WatchFails
    <3>1. thr'.run.at = "ended"
      BY <2>2, Stages, RunGoes DEF RunStops, WatchFails, TypeI
    <3> QED
      BY <2>1, <3>1 DEF HandsFollow, Deleting, Modifying, Storing
  <2>3. CASE LookUp
    <3>1. PICK l \in {"select", "remove"} : Goes("run", l) /\ thr.run.at = "get"
      BY <2>3 DEF LookUp, At
    <3>2. /\ thr'.run.at = l /\ thr'.run.key = thr.run.key /\ thr'.run.then = thr.run.then
      BY <3>1, Stages, RunGoes DEF TypeI, ThrOK
    <3> QED
      BY <2>1, <3>1, <3>2 DEF HandsFollow, Deleting, Modifying, Storing
  <2>4. CASE StoreCheck("run")
    <3>1. PICK l \in {"select", "loading", "set"} : Goes("run", l) /\ thr["run"].at = "check"
      BY <2>4 DEF StoreCheck, At, Home
    <3>2. /\ thr'.run.at = l /\ thr'.run.key = thr.run.key /\ thr'.run.then = thr.run.then
      BY <3>1, Stages, RunGoes DEF TypeI, ThrOK
    <3> QED
      BY <2>1, <3>1, <3>2 DEF HandsFollow, Deleting, Modifying, Storing
  <2> QED
    BY <1>3, <2>2, <2>3, <2>4
<1>4. ASSUME NEW t \in Threads, StoreSet(t) \/ Remove(t)
      PROVE  EtcdMoves /\ HandsFollow
  <2>1. UNCHANGED <<stored, todo>> /\ missed \subseteq missed'
    BY <1>4 DEF StoreSet, Remove, etcdVars
  <2>2. CASE t = "reload"
    BY <1>4, <2>1, <2>2, StoreSetTypes, RemoveTypes DEF HandsFollow, Deleting, Modifying, Storing
  <2>3. CASE t = "run" /\ StoreSet(t)
    BY <2>1, <2>3, StoreSetTypes DEF HandsFollow, Deleting, Modifying, Storing
  <2>4. CASE t = "run" /\ Remove(t)
    <3>1. /\ thr'.run.at = thr.run.then /\ thr'.run.key = thr.run.key
          /\ thr'.run.then = thr.run.then /\ thr["run"].at = "remove"
          /\ thr.run.then \in {"select", "check", "delete"}
      BY <2>4, RemoveTypes DEF TypeI, ThrOK
    <3> QED
      BY <2>1, <3>1 DEF HandsFollow, Deleting, Modifying, Storing
  <2> QED
    BY <1>4, <2>2, <2>3, <2>4 DEF Threads
<1>5. CASE TakeTick \/ TickEnds
  <2>1. UNCHANGED <<stored, todo>> /\ missed \subseteq missed' /\ thr'.run.at \in {"range", "select"}
    BY <1>5, TakeTickTypes, TickEndsTypes DEF etcdVars
  <2> QED
    BY <2>1 DEF HandsFollow, Deleting, Modifying, Storing
<1>6. ASSUME NEW s \in Keys, TakeScheduler(s) \/ SkipScheduler(s)
      PROVE  EtcdMoves /\ HandsFollow
  <2>1. UNCHANGED <<stored, todo>> /\ missed \subseteq missed'
    BY <1>6, TakeSchedulerTypes DEF etcdVars
  <2>2. TakeScheduler(s) => thr'.run.at \in {"remove", "from"} /\ thr'.run.then = "delete"
    <3> SUFFICES ASSUME TakeScheduler(s)
                 PROVE  thr'.run.at \in {"remove", "from"} /\ thr'.run.then = "delete"
      OBVIOUS
    <3>1. thr'.run = [at |-> IF IsExpired(s) THEN "remove" ELSE "from", key |-> s,
                      then |-> "delete"]
      BY TakeSchedulerTypes
    <3> QED
      BY <3>1
  <2>3. SkipScheduler(s) => thr' = thr
    BY DEF SkipScheduler
  <2> QED
    BY <1>6, <2>1, <2>2, <2>3 DEF HandsFollow, Deleting, Modifying, Storing
<1>7. CASE DeleteExpired \/ DeleteExpiredFails
  <2>1. thr'.run.at = "from" /\ thr.run.key \in Keys
    BY <1>7, DeleteExpiredTypes
  <2>2. EtcdMoves
    BY <1>7, <2>1 DEF DeleteExpired, DeleteExpiredFails, RequestFails
  <2> QED
    BY <2>1, <2>2 DEF HandsFollow, Deleting, Modifying, Storing
<1>8. ASSUME NEW e \in Edges, Execute(e) \/ NotDue(e) \/ Forward(e)
      PROVE  EtcdMoves /\ HandsFollow
  <2>1. UNCHANGED <<stored, todo>> /\ missed \subseteq missed' /\ thr'.run.at \in {"do from", "do to", "to", "range"}
    BY <1>8, ActionTypes, Stages DEF etcdVars
  <2> QED
    BY <2>1 DEF HandsFollow, Deleting, Modifying, Storing
<1>9. CASE ReloadSteps
  <2>1. thr'.run = thr.run
    BY <1>9, ReloadTypes DEF ReloadOnly
  <2>2. EtcdMoves
    <3>1. CASE HandOver
      <4>1. thr.reload.key \in Keys
        BY <3>1 DEF HandOver, At, TypeI, ThrOK
      <4> QED
        BY <3>1, <4>1 DEF HandOver
    <3>2. CASE RebalanceFails
      BY <3>2 DEF RebalanceFails, RequestFails
    <3>3. CASE ~HandOver /\ ~RebalanceFails /\ ~Rebalance
      BY <1>9, <3>3 DEF ReloadSteps, TakeReload, RebalanceDone, AskRing, AskRegistry,
                        StoreCheck, etcdVars
    <3> QED
      BY <3>1, <3>2, <3>3
  <2> QED
    BY <2>1, <2>2 DEF HandsFollow, Deleting, Modifying, Storing
<1>10. CASE SaveSteps
  <2>1. thr' = thr
    BY <1>10, SaveTypes
  <2>2. EtcdMoves
    BY <1>10 DEF SaveSteps, Stop, SaveDone, SavePuts, SaveFails, RequestFails, etcdVars
  <2> QED
    BY <2>1, <2>2 DEF HandsFollow, Deleting, Modifying, Storing
<1> QED
  BY <1>1, <1>2, <1>3, <1>4, <1>5, <1>6, <1>7, <1>8, <1>9, <1>10, <1>11, StepKinds, Zenon

LEMMA KeyStep == ASSUME TypeI, KeyInv, LoadInv, [Next]_vars PROVE KeyInv'
<1> SUFFICES ASSUME NEW k \in Keys PROVE QueueOK(k)' /\ HandOK(k)'
  BY DEF KeyInv
<1>1. QueueOK(k) /\ HandOK(k) /\ (~watch => todo = << >>)
  BY DEF KeyInv, LoadInv
<1>2. ASSUME EtcdMoves, HandsFollow PROVE QueueOK(k)' /\ HandOK(k)'
  <2>1. /\ QueueOK(k)'
        /\ LastIs(k, "create") /\ k \in stored' => LastIs(k, "create")'
        /\ k \in stored' /\ k \notin stored => LastIs(k, "create")' \/ ~watch
        /\ Known(k) => Known(k)' \/ thr.run.at = "load"
    BY <1>1, <1>2, QueueChange
  <2>2. /\ Deleting(k)' => Deleting(k)
        /\ (Modifying(k) \/ Storing(k))' => Modifying(k) \/ Storing(k)
    BY <1>2 DEF HandsFollow
  <2>3. /\ Deleting(k) => watch
        /\ Modifying(k) \/ Storing(k) => thr.run.at # "load"
    BY DEF LoadInv, LoadStages, Deleting, Modifying, Storing
  <2> QED
    BY <1>1, <2>1, <2>2, <2>3 DEF HandOK
<1>3. CASE TakeEvent
  <2>1. /\ QueueOK(k)' /\ stored' = stored
        /\ Deleting(k)' /\ k \in stored => LastIs(k, "create")'
        /\ Modifying(k)' \/ Storing(k)' => k \in stored \/ LastIs(k, "delete")'
    BY <1>1, <1>3, QueueTaken
  <2> QED
    BY <2>1 DEF HandOK, Known
<1>4. CASE UNCHANGED vars
  <2>1. EtcdMoves /\ HandsFollow
    BY <1>4 DEF vars, etcdVars, EtcdMoves, HandsFollow, Deleting, Modifying, Storing
  <2> QED
    BY <1>2, <2>1
<1>5. CASE LoadStep
  <2>1. EtcdMoves /\ UNCHANGED <<stored, todo>>
        /\ thr'.run.at \in {"loading", "opening", "check", "select"}
    BY <1>5, LoadFacts DEF EtcdMoves, LoadStep, LoadReads, LoadFails, LoadEnds, OpenWatch, LoadKey,
                           LoadSkips, RequestFails, etcdVars
  <2>2. QueueOK(k)'
    BY <1>1, <2>1, QueueChange
  <2>3. ~Deleting(k)' /\ ~Modifying(k)'
    BY <2>1 DEF Deleting, Modifying
  <2>4. ASSUME Storing(k)' PROVE Known(k)'
    <3>1. thr'.run.at = "check" /\ thr'.run.key = k
      BY <2>1, <2>4 DEF Storing
    <3>2. PICK s \in Keys : LoadKey(s)
      <4>1. ASSUME LoadReads \/ LoadFails \/ LoadEnds \/ OpenWatch PROVE FALSE
        <5>1. PICK l \in {"loading", "opening", "select"} : Goes("run", l)
          BY <4>1 DEF LoadReads, LoadFails, LoadEnds, OpenWatch
        <5> QED
          BY <3>1, <5>1, Stages, RunGoes DEF TypeI
      <4>2. ASSUME NEW s \in Keys, LoadSkips(s) PROVE FALSE
        BY <3>1, <4>2 DEF LoadSkips, At
      <4> QED
        BY <1>5, <4>1, <4>2 DEF LoadStep
    <3>3. s = k /\ s \in toLoad /\ missed' = missed
      BY <3>1, <3>2 DEF LoadKey, TypeI, ThrOK
    <3> QED
      BY <2>1, <3>3 DEF LoadInv, Known
  <2> QED
    BY <2>2, <2>3, <2>4 DEF HandOK
<1> QED
  BY <1>2, <1>3, <1>4, <1>5, EtcdSteps

\* Only load's steps change what it has to look at, and open the watch.
LEMMA LoadKept ==
  ASSUME TypeI, Next, ~LoadStep
  PROVE  UNCHANGED <<watch, toLoad>>
<1>0. \A s \in Keys : Put(s) \/ Delete(s) => UNCHANGED <<watch, toLoad>>
  BY DEF Put, Delete, Tell
<1>1. CASE \/ Clock \/ RingMoves \/ \E k \in Keys : CreateScheduler(k) \/ DeleteScheduler(k)
           \/ \E w \in Iterators : IterLocks(w) \/ IterCloses(w)
           \/ \E t \in Threads : StoreSet(t) \/ Remove(t)
  BY <1>0, <1>1 DEF Clock, RingMoves, CreateScheduler, DeleteScheduler, IterLocks, IterCloses,
                    StoreSet, Remove, etcdVars
<1>2. CASE RunStops \/ WatchFails \/ TakeEvent \/ LookUp \/ StoreCheck("run") \/ TakeTick \/ TickEnds
           \/ \E k \in Keys : TakeScheduler(k) \/ SkipScheduler(k)
  BY <1>2 DEF RunStops, WatchFails, TakeEvent, LookUp, StoreCheck, TakeTick, TickEnds,
              TakeScheduler, SkipScheduler, RequestFails, etcdVars
<1>3. CASE DeleteExpired \/ DeleteExpiredFails
  BY <1>0, <1>3, DeleteExpiredTypes DEF DeleteExpired, DeleteExpiredFails, RequestFails
<1>4. CASE \E e \in Edges : Execute(e) \/ NotDue(e) \/ Forward(e)
  BY <1>4, ActionTypes DEF etcdVars
<1>5. CASE ReloadSteps
  <2>1. HandOver => thr.reload.key \in Keys
    BY DEF HandOver, At, TypeI, ThrOK
  <2> QED
    BY <1>0, <1>5, <2>1 DEF ReloadSteps, TakeReload, Rebalance, RebalanceFails, RebalanceDone, AskRing,
                      AskRegistry, HandOver, StoreCheck, RequestFails, etcdVars
<1>6. CASE SaveSteps
  BY <1>0, <1>6 DEF SaveSteps, Stop, SaveDone, SavePuts, SaveFails, RequestFails, etcdVars
<1> QED
  BY <1>1, <1>2, <1>3, <1>4, <1>5, <1>6, StepKinds, Zenon

LEMMA RegisteredKept ==
  ASSUME TypeI, TypeI', Next, \A t \in Threads : ~StoreSet(t) /\ ~Remove(t)
  PROVE  Registered' = Registered
<1>1. CASE \E e \in Edges : Forward(e)
  <2>1. CASE held = NoScheduler
    BY <1>1, <2>1, ActionTypes DEF Registered
  <2>2. CASE held # NoScheduler
    <3>1. /\ rgt' = [rgt EXCEPT ![held] = own'] /\ rgt \in [Keys -> Times \union {NoScheduler}]
          /\ own \in Times /\ own' \in Times /\ rgt[held] = own
      BY <1>1, <2>2, ActionTypes DEF TypeI, RegOK
    <3> QED
      BY <3>1, NotTimes DEF Registered
  <2> QED
    BY <2>1, <2>2
<1>2. CASE ~\E e \in Edges : Forward(e)
  <2>1. rgt' = rgt
    <3>1. CASE Clock \/ RingMoves \/ \E k \in Keys : CreateScheduler(k) \/ DeleteScheduler(k)
      BY <3>1 DEF Clock, RingMoves, CreateScheduler, DeleteScheduler, regVars
    <3>2. CASE \/ \E w \in Iterators : IterLocks(w) \/ IterCloses(w)
               \/ RunStops \/ WatchFails \/ TakeEvent \/ LookUp \/ LoadStep \/ StoreCheck("run")
               \/ TakeTick \/ TickEnds \/ \E k \in Keys : TakeScheduler(k) \/ SkipScheduler(k)
               \/ DeleteExpired \/ DeleteExpiredFails \/ ReloadSteps \/ SaveSteps
      BY <3>2, IterTypes, EventTypes, TakeTickTypes, TickEndsTypes, TakeSchedulerTypes,
         DeleteExpiredTypes, ReloadTypes, SaveTypes
    <3>3. CASE \E e \in Edges : Execute(e) \/ NotDue(e)
      BY <3>3, ActionTypes
    <3> QED
      BY <1>2, <3>1, <3>2, <3>3, StepKinds, Zenon
  <2> QED
    BY <2>1 DEF Registered
<1> QED
  BY <1>1, <1>2

LEMMA ReloadInvStep == ASSUME TypeI, ReloadInv, [Next]_vars PROVE ReloadInv'
<1>1. ASSUME thr'.reload = thr.reload, left' = left, mine' = mine, pending' = pending
      PROVE  ReloadInv'
  BY <1>1 DEF ReloadInv
<1>2. CASE RingMoves
  BY <1>2 DEF RingMoves, ReloadInv
<1>3. ASSUME NEW t \in Threads, StoreSet(t) \/ Remove(t) PROVE ReloadInv'
  <2>1. UNCHANGED <<left, mine, pending>>
    BY <1>3 DEF StoreSet, Remove, inputs
  <2> QED
    BY <1>1, <1>3, <2>1, StoreSetTypes, RemoveTypes DEF ReloadInv, Threads
<1>4. CASE ReloadSteps
  <2>1. mine' = mine
    BY <1>4, ReloadTypes DEF ReloadOnly
  <2>2. thr \in [run: [at: RunStages, key: Keys \union {NoScheduler},
                       then: {"select", "check", "delete"}],
                 reload: [at: ReloadStages, key: Keys \union {NoScheduler}, then: {"next"}]]
    BY DEF TypeI, ThrOK
  <2>3. CASE TakeReload \/ Rebalance \/ StoreCheck("reload")
    <3>1. thr'.reload.at \in {"read", "next", "set"}
      BY <2>2, <2>3 DEF TakeReload, Rebalance, StoreCheck, Goes, Home
    <3> QED
      BY <3>1 DEF ReloadInv
  <2>4. CASE RebalanceFails \/ RebalanceDone
    <3>1. thr'.reload.at = "idle" /\ left' = {}
      BY <2>2, <2>4 DEF RebalanceFails, RebalanceDone, Goes
    <3> QED
      BY <3>1 DEF ReloadInv
  <2>5. ASSUME NEW k \in Keys, AskRing(k) PROVE ReloadInv'
    <3>1. /\ thr'.reload.at = (IF k \in mine THEN "own" ELSE "foreign") /\ thr'.reload.key = k
      BY <2>2, <2>5 DEF AskRing
    <3> QED
      BY <2>1, <3>1 DEF ReloadInv
  <2>6. CASE AskRegistry
    <3>1. /\ thr'.reload.at \in {"next", "check", "put"} /\ thr'.reload.key = thr.reload.key
          /\ thr'.reload.at = "put" => thr.reload.at = "foreign"
          /\ pending' = pending
      BY <2>2, <2>6 DEF AskRegistry, Goes, At, inputs
    <3> QED
      BY <2>1, <3>1 DEF ReloadInv
  <2>7. CASE HandOver
    <3>1. /\ thr'.reload.at = "remove" /\ thr'.reload.key = thr.reload.key /\ thr.reload.at = "put"
          /\ pending' = pending
      BY <2>2, <2>7 DEF HandOver, Goes, At, inputs
    <3> QED
      BY <2>1, <3>1 DEF ReloadInv
  <2> QED
    BY <1>4, <2>3, <2>4, <2>5, <2>6, <2>7 DEF ReloadSteps
<1>5. CASE Clock \/ \E k \in Keys : CreateScheduler(k) \/ DeleteScheduler(k)
  BY <1>1, <1>5 DEF Clock, CreateScheduler, DeleteScheduler, inputs
<1>6. CASE \/ \E w \in Iterators : IterLocks(w) \/ IterCloses(w)
           \/ SaveSteps
  BY <1>1, <1>6, IterTypes, SaveTypes DEF inputs
<1>7. CASE \/ RunStops \/ WatchFails \/ TakeEvent \/ LookUp \/ LoadStep \/ StoreCheck("run")
           \/ TakeTick \/ TickEnds \/ \E k \in Keys : TakeScheduler(k) \/ SkipScheduler(k)
           \/ DeleteExpired \/ DeleteExpiredFails
           \/ \E e \in Edges : Execute(e) \/ NotDue(e) \/ Forward(e)
  <2>1. RunOnly
    BY <1>7, EventTypes, TakeTickTypes, TickEndsTypes, TakeSchedulerTypes, DeleteExpiredTypes,
       ActionTypes
  <2> QED
    BY <1>1, <2>1 DEF RunOnly
<1>8. CASE UNCHANGED vars
  BY <1>1, <1>8 DEF vars, inputs
<1> QED
  BY <1>2, <1>3, <1>4, <1>5, <1>6, <1>7, <1>8, StepKinds, Zenon

\* Rebalance comes to k and registers it.
LEMMA ReloadHasKept ==
  ASSUME TypeI, Next, NEW k \in Keys, k \in stored, k \in mine, ReloadHas(k), ~failed',
         rgt[k] = NoScheduler
  PROVE  ReloadHas(k)' \/ rgt'[k] # NoScheduler
<1>1. ASSUME thr'.reload = thr.reload, left' = left, pending => pending'
      PROVE  ReloadHas(k)'
  BY <1>1 DEF ReloadHas
<1>2. CASE Clock \/ RingMoves \/ \E s \in Keys : CreateScheduler(s) \/ DeleteScheduler(s)
  <2>1. thr' = thr /\ left' = left /\ (pending => pending')
    BY <1>2 DEF Clock, RingMoves, CreateScheduler, DeleteScheduler, inputs
  <2> QED
    BY <1>1, <2>1
<1>3. CASE SaveSteps \/ \E w \in Iterators : IterLocks(w) \/ IterCloses(w)
  <2>1. thr' = thr /\ left' = left /\ pending' = pending
    BY <1>3, IterTypes, SaveTypes DEF inputs
  <2> QED
    BY <1>1, <2>1
<1>4. CASE \/ RunStops \/ WatchFails \/ TakeEvent \/ LookUp \/ LoadStep \/ StoreCheck("run")
           \/ TakeTick \/ TickEnds \/ \E s \in Keys : TakeScheduler(s) \/ SkipScheduler(s)
           \/ DeleteExpired \/ DeleteExpiredFails
           \/ \E e \in Edges : Execute(e) \/ NotDue(e) \/ Forward(e)
  <2>1. RunOnly
    BY <1>4, EventTypes, TakeTickTypes, TickEndsTypes, TakeSchedulerTypes, DeleteExpiredTypes,
       ActionTypes
  <2> QED
    BY <1>1, <2>1 DEF RunOnly
<1>5. ASSUME NEW t \in Threads, StoreSet(t) \/ Remove(t)
      PROVE  ReloadHas(k)' \/ rgt'[k] # NoScheduler
  <2>1. left' = left /\ pending' = pending
    BY <1>5 DEF StoreSet, Remove, inputs
  <2>2. CASE t = "run"
    BY <1>1, <1>5, <2>1, <2>2, StoreSetTypes, RemoveTypes
  <2>3. CASE t = "reload"
    <3>1. thr["reload"].key = thr.reload.key /\ thr["reload"].at = thr.reload.at
      OBVIOUS
    <3>2. CASE StoreSet(t) /\ thr.reload.key = k
      <4>1. rgt'[k] \in Times
        BY <2>3, <3>1, <3>2, StoreSetTypes DEF TypeI, RegOK
      <4> QED
        BY <4>1, NotTimes
    <3>3. CASE Remove(t) \/ thr.reload.key # k
      <4>1. thr.reload.at \in {"set", "remove"} /\ (Remove(t) => thr.reload.at = "remove")
        BY <1>5, <2>3, <3>1, StoreSetTypes, RemoveTypes
      <4> QED
        BY <2>1, <3>3, <4>1 DEF ReloadHas
    <3> QED
      BY <1>5, <3>2, <3>3
  <2> QED
    BY <2>2, <2>3 DEF Threads
<1>6. CASE ReloadSteps
  <2>1. thr \in [run: [at: RunStages, key: Keys \union {NoScheduler},
                       then: {"select", "check", "delete"}],
                 reload: [at: ReloadStages, key: Keys \union {NoScheduler}, then: {"next"}]]
    BY DEF TypeI, ThrOK
  <2>2. CASE TakeReload
    BY <2>1, <2>2 DEF TakeReload, Goes, ReloadHas
  <2>3. CASE Rebalance
    BY <2>3 DEF Rebalance, ReloadHas
  <2>4. CASE RebalanceFails
    BY <2>4 DEF RebalanceFails, RequestFails
  <2>5. CASE RebalanceDone
    BY <2>1, <2>5 DEF RebalanceDone, Goes, At, ReloadHas, inputs
  <2>6. ASSUME NEW s \in Keys, AskRing(s) PROVE ReloadHas(k)'
    <3>1. /\ thr'.reload.at = (IF s \in mine THEN "own" ELSE "foreign") /\ thr'.reload.key = s
          /\ left' = left \ {s} /\ pending' = pending /\ thr.reload.at = "next"
      BY <2>1, <2>6 DEF AskRing, At, inputs
    <3> QED
      BY <3>1 DEF ReloadHas
  <2>7. CASE AskRegistry
    <3>1. /\ thr'.reload.key = thr.reload.key /\ left' = left /\ pending' = pending
          /\ thr.reload.at = "own" => thr'.reload.at =
               IF rgt[thr.reload.key] # NoScheduler THEN "next" ELSE "check"
          /\ thr.reload.at \in {"own", "foreign"}
      BY <2>1, <2>7 DEF AskRegistry, Goes, At, inputs
    <3> QED
      BY <3>1 DEF ReloadHas
  <2>8. CASE HandOver
    BY <2>1, <2>8 DEF HandOver, Goes, At, inputs, ReloadHas
  <2>9. CASE StoreCheck("reload")
    <3>1. /\ thr'.reload.key = thr.reload.key /\ left' = left /\ pending' = pending
          /\ thr'.reload.at = IF thr.reload.key \in mine THEN "set" ELSE "next"
          /\ thr.reload.at = "check"
      BY <2>1, <2>9 DEF StoreCheck, Goes, At, inputs, Home
    <3> QED
      BY <3>1 DEF ReloadHas
  <2> QED
    BY <1>6, <2>2, <2>3, <2>4, <2>5, <2>6, <2>7, <2>8, <2>9 DEF ReloadSteps
<1> QED
  BY <1>2, <1>3, <1>4, <1>5, <1>6, StepKinds, Zenon

\* Run goes on with k until it is registered, or deleted.
LEMMA RunHasKept ==
  ASSUME TypeI, Next, NEW k \in Keys, k \in stored', k \in mine, RunHas(k), ~failed'
  PROVE  RunHas(k)' \/ rgt'[k] # NoScheduler
<1> USE DEF RunHas, Storing, Modifying
<1>1. ASSUME thr'.run = thr.run PROVE RunHas(k)'
  BY <1>1
<1>2. thr.run.at \in {"check", "set", "remove", "delete"} /\ thr.run.key = k
  OBVIOUS
<1>3. CASE Clock \/ RingMoves \/ \E s \in Keys : CreateScheduler(s) \/ DeleteScheduler(s)
  BY <1>1, <1>3 DEF Clock, RingMoves, CreateScheduler, DeleteScheduler
<1>4. CASE \/ \E w \in Iterators : IterLocks(w) \/ IterCloses(w)
           \/ ReloadSteps \/ SaveSteps
  BY <1>1, <1>4, IterTypes, ReloadTypes, SaveTypes DEF ReloadOnly
<1>5. CASE StoreCheck("run")
  <2>1. thr'.run.at = "set" /\ thr'.run.key = k
    <3>1. Goes("run", "set")
      BY <1>2, <1>5 DEF StoreCheck
    <3> QED
      BY <1>2, <3>1, Stages, RunGoes DEF TypeI
  <2> QED
    BY <2>1
<1>6. ~RunStops /\ ~WatchFails /\ ~TakeEvent /\ ~LookUp /\ ~TakeTick /\ ~TickEnds
      /\ ~LoadStep /\ \A s \in Keys : ~TakeScheduler(s) /\ ~SkipScheduler(s)
  BY <1>2, LoadFacts DEF RunStops, WatchFails, TakeEvent, LookUp, TakeTick, TickEnds,
                         TakeScheduler, SkipScheduler, At
<1>7. \A e \in Edges : ~Execute(e) /\ ~NotDue(e) /\ ~Forward(e)
  BY <1>2, Stages DEF Execute, NotDue, Forward, At, Edges
<1>8. ~DeleteExpired /\ ~DeleteExpiredFails
  BY <1>2 DEF DeleteExpired, Delete, DeleteExpiredFails, RequestFails
<1>9. ASSUME NEW t \in Threads, StoreSet(t) \/ Remove(t)
      PROVE  RunHas(k)' \/ rgt'[k] # NoScheduler
  <2>1. CASE t = "reload"
    BY <1>1, <1>9, <2>1, StoreSetTypes, RemoveTypes
  <2>2. CASE t = "run" /\ StoreSet(t)
    <3>1. thr["run"].key = k
      BY <1>2
    <3>2. rgt'[k] \in Times
      BY <2>2, <3>1, StoreSetTypes DEF TypeI, RegOK
    <3> QED
      BY <3>2, NotTimes
  <2>3. CASE t = "run" /\ Remove(t)
    <3>1. /\ thr'.run.at = thr.run.then /\ thr'.run.key = thr.run.key
          /\ thr'.run.then = thr.run.then /\ thr["run"].at = "remove"
      BY <2>3, RemoveTypes
    <3> QED
      BY <1>2, <3>1
  <2> QED
    BY <1>9, <2>1, <2>2, <2>3 DEF Threads
<1> QED
  BY <1>3, <1>4, <1>5, <1>6, <1>7, <1>8, <1>9, StepKinds, Zenon

\* What is removed is stored again, or is no longer etcd's or this node's.
LEMMA RemovedForAReason ==
  ASSUME TypeI, TypeI', ReloadInv, KeyInv, Next, NEW k \in stored, k \in mine,
         rgt[k] # NoScheduler, rgt'[k] = NoScheduler
  PROVE  RunHas(k)' \/ ReloadHas(k)' \/ LastIs(k, "create")
<1>1. k \in Keys /\ HandOK(k)
  BY DEF TypeI, EnvOK, KeyInv
<1>2. PICK t \in Threads : StoreSet(t) \/ Remove(t)
  BY <1>1, RegisteredKept DEF Registered
<1>3. rgt \in [Keys -> Times \union {NoScheduler}] /\ thr[t].key \in Keys
  BY <1>2, StoreSetTypes, RemoveTypes DEF TypeI, RegOK
<1>4. Remove(t) /\ thr[t].key = k
  BY <1>1, <1>2, <1>3, StoreSetTypes, RemoveTypes, NotTimes
<1>5. CASE t = "run"
  <2>1. /\ thr'.run.at = thr.run.then /\ thr'.run.key = thr.run.key
        /\ thr'.run.then = thr.run.then /\ thr.run.at = "remove" /\ thr.run.key = k
        /\ thr.run.then \in {"select", "check", "delete"}
    BY <1>4, <1>5, RemoveTypes DEF TypeI, ThrOK
  <2> QED
    BY <1>1, <2>1 DEF HandOK, Deleting, RunHas, Storing
<1>6. CASE t = "reload"
  <2>1. thr.reload.at = "remove" /\ thr.reload.key = k /\ pending' = pending
    BY <1>4, <1>6, RemoveTypes DEF Remove, inputs
  <2> QED
    BY <2>1 DEF ReloadInv, ReloadHas
<1> QED
  BY <1>5, <1>6 DEF Threads

LEMMA OnceOnly ==
  ASSUME TypeI, Next
  PROVE  (failed => failed') /\ (save # "idle" => save' # "idle")
         /\ (moves = 0 \/ moves' # 0) /\ (moves' = 0 => mine' = mine)
<1>1. failed => failed'
  <2>1. CASE \/ RingMoves \/ Clock \/ \E k \in Keys : CreateScheduler(k) \/ DeleteScheduler(k)
    BY <2>1 DEF RingMoves, Clock, CreateScheduler, DeleteScheduler, etcdVars
  <2>6. CASE LoadStep
    BY <2>6 DEF LoadStep, LoadReads, LoadFails, LoadEnds, OpenWatch, LoadKey, LoadSkips, RequestFails,
                etcdVars
  <2>2. CASE \/ RunStops \/ TakeEvent \/ LookUp \/ StoreCheck("run") \/ TakeTick \/ TickEnds
             \/ \E k \in Keys : TakeScheduler(k) \/ SkipScheduler(k)
             \/ \E w \in Iterators : IterLocks(w) \/ IterCloses(w)
             \/ \E t \in Threads : StoreSet(t) \/ Remove(t)
             \/ \E e \in Edges : Execute(e) \/ NotDue(e) \/ Forward(e)
    BY <2>2, ActionTypes DEF RunStops, TakeEvent, LookUp, StoreCheck, TakeTick, TickEnds,
       TakeScheduler, SkipScheduler, IterLocks, IterCloses, StoreSet, Remove, etcdVars
  <2>3. CASE WatchFails \/ DeleteExpired \/ DeleteExpiredFails
    BY <2>3 DEF WatchFails, DeleteExpired, DeleteExpiredFails, RequestFails
  <2>4. CASE ReloadSteps
    BY <2>4 DEF ReloadSteps, TakeReload, Rebalance, RebalanceFails, RebalanceDone, AskRing,
                AskRegistry, HandOver, StoreCheck, RequestFails, etcdVars
  <2>5. CASE SaveSteps
    BY <2>5 DEF SaveSteps, Stop, SaveDone, SavePuts, SaveFails, RequestFails, etcdVars
  <2> QED
    BY <2>1, <2>2, <2>3, <2>4, <2>5, <2>6, StepKinds, Zenon
<1>2. CASE RingMoves
  <2>1. save' = save /\ moves' = moves + 1 /\ moves \in Nat
    BY <1>2, SchedulerAssumption DEF RingMoves, TypeI, EnvOK
  <2> QED
    BY <1>1, <2>1
<1>3. CASE ~RingMoves
  <2>1. UNCHANGED <<moves, mine>> /\ (save # "idle" => save' # "idle")
    <3>1. CASE Clock \/ \E k \in Keys : CreateScheduler(k) \/ DeleteScheduler(k)
      BY <3>1 DEF Clock, CreateScheduler, DeleteScheduler, inputs
    <3>2. CASE \/ RunStops \/ WatchFails \/ TakeEvent \/ LookUp \/ LoadStep \/ StoreCheck("run")
               \/ TakeTick \/ TickEnds \/ \E k \in Keys : TakeScheduler(k) \/ SkipScheduler(k)
               \/ DeleteExpired \/ DeleteExpiredFails
               \/ \E e \in Edges : Execute(e) \/ NotDue(e) \/ Forward(e)
      <4>1. RunOnly
        BY <3>2, EventTypes, TakeTickTypes, TickEndsTypes, TakeSchedulerTypes,
           DeleteExpiredTypes, ActionTypes
      <4> QED
        BY <4>1 DEF RunOnly
    <3>3. CASE \/ \E w \in Iterators : IterLocks(w) \/ IterCloses(w)
               \/ ReloadSteps \/ SaveSteps
      BY <3>3, IterTypes, ReloadTypes, SaveTypes DEF ReloadOnly, inputs
    <3>4. CASE \E t \in Threads : StoreSet(t) \/ Remove(t)
      BY <3>4 DEF StoreSet, Remove, inputs
    <3> QED
      BY <1>3, <3>1, <3>2, <3>3, <3>4, StepKinds, Zenon
  <2> QED
    BY <1>1, <2>1
<1> QED
  BY <1>2, <1>3

\* load comes to k and stores it, skips it, or fails.
LEMMA LoadHasKept ==
  ASSUME TypeI, Next, NEW k \in Keys, LoadHas(k), k \in stored', k \notin missed', ~failed'
  PROVE  LoadHas(k)' \/ RunHas(k)'
<1>1. CASE LoadReads
  BY <1>1 DEF LoadReads, LoadHas
<1>2. ~LoadFails
  BY DEF LoadFails, RequestFails
<1>3. CASE LoadEnds \/ OpenWatch
  BY <1>3 DEF LoadEnds, OpenWatch, LoadHas, At, etcdVars
<1>4. ASSUME NEW s \in Keys, LoadKey(s) PROVE LoadHas(k)' \/ RunHas(k)'
  <2>1. /\ toLoad' = toLoad \ {s} /\ thr'.run.at = "check" /\ thr'.run.key = s
        /\ thr.run.at = "loading"
    BY <1>4 DEF LoadKey, At, TypeI, ThrOK
  <2> QED
    BY <2>1 DEF LoadHas, RunHas, Storing
<1>5. ASSUME NEW s \in Keys, LoadSkips(s) PROVE LoadHas(k)'
  BY <1>5 DEF LoadSkips, LoadHas, At
<1>6. CASE ~LoadStep
  <2>1. toLoad' = toLoad
    BY <1>6, LoadKept
  <2>2. thr.run.at = "load" => thr'.run = thr.run
    <3> SUFFICES ASSUME thr.run.at = "load" PROVE thr'.run = thr.run
      OBVIOUS
    <3>1. CASE \/ Clock \/ RingMoves \/ \E j \in Keys : CreateScheduler(j) \/ DeleteScheduler(j)
               \/ \E w \in Iterators : IterLocks(w) \/ IterCloses(w)
               \/ ReloadSteps \/ SaveSteps
      BY <3>1, IterTypes, ReloadTypes, SaveTypes
      DEF Clock, RingMoves, CreateScheduler, DeleteScheduler, ReloadOnly
    <3>2. ASSUME NEW t \in Threads, StoreSet(t) \/ Remove(t) PROVE thr'.run = thr.run
      <4>1. thr[t].at \in {"set", "remove"}
        BY <3>2 DEF StoreSet, Remove, At
      <4>2. t = "reload"
        BY <4>1 DEF Threads
      <4> QED
        BY <3>2, <4>2, StoreSetTypes, RemoveTypes
    <3>3. ~RunStops /\ ~WatchFails /\ ~TakeEvent /\ ~LookUp /\ ~StoreCheck("run") /\ ~TakeTick
          /\ ~TickEnds /\ ~DeleteExpired /\ ~DeleteExpiredFails
          /\ \A s \in Keys : ~TakeScheduler(s) /\ ~SkipScheduler(s)
      BY DEF RunStops, WatchFails, TakeEvent, LookUp, StoreCheck, TakeTick, TickEnds, DeleteExpired,
             DeleteExpiredFails, TakeScheduler, SkipScheduler, At
    <3>4. \A e \in Edges : ~Execute(e) /\ ~NotDue(e) /\ ~Forward(e)
      BY Stages DEF Execute, NotDue, Forward, At, Edges
    <3> QED
      BY <1>6, <3>1, <3>2, <3>3, <3>4, StepKinds, Zenon
  <2> QED
    BY <2>1, <2>2 DEF LoadHas
<1> QED
  BY <1>1, <1>2, <1>3, <1>4, <1>5, <1>6 DEF LoadStep

LEMMA OwnInvStep ==
  ASSUME TypeI, TypeI', KeyInv, LoadInv, ReloadInv, OwnInv, Next
  PROVE  OwnInv'
<1> SUFFICES ASSUME ~failed', save' = "idle", NEW k \in stored', k \in mine',
                    k \notin missed', rgt'[k] = NoScheduler
             PROVE  ReloadHas(k)' \/ RunHas(k)' \/ LastIs(k, "create")' \/ LoadHas(k)'
  BY DEF OwnInv
<1>1. k \in Keys /\ QueueOK(k) /\ HandOK(k)
  BY DEF TypeI, EnvOK, KeyInv
<1>2. ~failed /\ save = "idle"
  BY OnceOnly
<1>3. CASE k \notin mine
  <2>1. RingMoves
    <3>1. ~(\E t \in Threads : StoreSet(t) \/ Remove(t))
      BY <1>3 DEF StoreSet, Remove, inputs
    <3>2. ~(Clock \/ \E s \in Keys : CreateScheduler(s) \/ DeleteScheduler(s))
      BY <1>3 DEF Clock, CreateScheduler, DeleteScheduler, inputs
    <3>3. ~(\/ \E w \in Iterators : IterLocks(w) \/ IterCloses(w)
            \/ ReloadSteps \/ SaveSteps)
      BY <1>3, IterTypes, ReloadTypes, SaveTypes DEF ReloadOnly, inputs
    <3>4. ~(\/ RunStops \/ WatchFails \/ TakeEvent \/ LookUp \/ LoadStep \/ StoreCheck("run")
            \/ TakeTick \/ TickEnds \/ \E s \in Keys : TakeScheduler(s) \/ SkipScheduler(s)
            \/ DeleteExpired \/ DeleteExpiredFails
            \/ \E e \in Edges : Execute(e) \/ NotDue(e) \/ Forward(e))
      BY <1>3, EventTypes, TakeTickTypes, TickEndsTypes, TakeSchedulerTypes,
         DeleteExpiredTypes, ActionTypes DEF RunOnly
    <3> QED
      BY <3>1, <3>2, <3>3, <3>4, StepKinds, Zenon
  <2> QED
    BY <2>1 DEF RingMoves, ReloadHas
<1>4. CASE k \in mine
  <2>1. CASE TakeEvent
    <3>1. stored' = stored /\ (LastIs(k, "create") => LastIs(k, "create")' \/ Storing(k)')
      BY <1>1, <2>1, QueueTaken
    <3>2. rgt' = rgt /\ thr'.reload = thr.reload /\ left' = left /\ pending' = pending
      BY <2>1, EventTypes DEF RunOnly
    <3>3. thr.run.at = "select" /\ missed' = missed /\ ~LoadHas(k)
      BY <2>1 DEF TakeEvent, At, LoadInv, LoadStages, LoadHas
    <3>4. ~RunHas(k) /\ (ReloadHas(k)' <=> ReloadHas(k))
      BY <3>2, <3>3 DEF RunHas, Storing, ReloadHas
    <3> QED
      BY <1>2, <1>4, <3>1, <3>2, <3>3, <3>4 DEF OwnInv, RunHas
  <2>2. CASE ~TakeEvent
    <3>1. /\ LastIs(k, "create") => LastIs(k, "create")'
          /\ k \notin stored => LastIs(k, "create")' \/ thr.run.at = "load"
          /\ k \in missed => LastIs(k, "create")' \/ Rebalance
      BY <1>1, <2>2, EtcdSteps, QueueChange DEF LoadInv
    <3>2. ASSUME LoadHas(k) PROVE LoadHas(k)' \/ RunHas(k)'
      BY <1>1, <3>2, LoadHasKept
    <3>3. Rebalance => ReloadHas(k)'
      BY DEF Rebalance, ReloadHas
    <3>4. ASSUME k \in stored, k \notin missed, ~LastIs(k, "create"), ~LoadHas(k)
          PROVE  ReloadHas(k)' \/ RunHas(k)'
      <4>1. CASE rgt[k] # NoScheduler
        BY <1>4, <3>4, <4>1, RemovedForAReason
      <4>2. CASE rgt[k] = NoScheduler
        <5>1. ReloadHas(k) \/ RunHas(k)
          BY <1>2, <1>4, <3>4, <4>2 DEF OwnInv
        <5> QED
          BY <1>1, <1>4, <3>4, <4>2, <5>1, ReloadHasKept, RunHasKept
      <4> QED
        BY <4>1, <4>2
    <3> QED
      BY <3>1, <3>2, <3>3, <3>4 DEF LoadHas
  <2> QED
    BY <2>1, <2>2
<1> QED
  BY <1>3, <1>4

LEMMA ExactInvStep ==
  ASSUME TypeI, TypeI', KeyInv, LoadInv, ExactInv, Next
  PROVE  ExactInv'
<1> SUFFICES ASSUME moves' = 0
             PROVE  /\ ~pending' /\ thr'.reload.at = "idle"
                    /\ thr'.run.at = "set" => thr'.run.key \in mine'
                    /\ \A k \in Keys : rgt'[k] # NoScheduler =>
                         k \in mine' /\ (Known(k)' \/ Deleting(k)')
  BY DEF ExactInv
<1>1. /\ moves = 0 /\ mine' = mine /\ ~pending /\ thr.reload.at = "idle"
      /\ thr.run.at = "set" => thr.run.key \in mine
      /\ \A k \in Keys : rgt[k] # NoScheduler =>
           k \in mine /\ (Known(k) \/ Deleting(k))
  <2>1. moves = 0 /\ mine' = mine
    BY OnceOnly
  <2> QED
    BY <2>1 DEF ExactInv
<1>2. ~RingMoves /\ ~ReloadSteps /\ \A t \in Threads : StoreSet(t) \/ Remove(t) => t = "run"
  <2>1. ~RingMoves
    BY <1>1, SchedulerAssumption DEF RingMoves, TypeI, EnvOK
  <2>2. ~ReloadSteps
    BY <1>1 DEF ReloadSteps, TakeReload, Rebalance, RebalanceFails, RebalanceDone, AskRing,
                AskRegistry, HandOver, StoreCheck, At
  <2>3. \A t \in Threads : StoreSet(t) \/ Remove(t) => t = "run"
    <3> SUFFICES ASSUME NEW t \in Threads, StoreSet(t) \/ Remove(t) PROVE t # "reload"
      BY DEF Threads
    <3> QED
      BY <1>1, StoreSetTypes, RemoveTypes
  <2> QED
    BY <2>1, <2>2, <2>3
<1>3. ~pending' /\ thr'.reload.at = "idle" /\ (thr'.run.at = "set" => thr'.run.key \in mine')
  <2>1. CASE Clock \/ SaveSteps \/ \E k \in Keys : CreateScheduler(k) \/ DeleteScheduler(k)
    <3>1. thr' = thr /\ pending' = pending
      BY <2>1, SaveTypes DEF Clock, CreateScheduler, DeleteScheduler, inputs
    <3> QED
      BY <1>1, <3>1
  <2>2. CASE \E w \in Iterators : IterLocks(w) \/ IterCloses(w)
    BY <1>1, <2>2, IterTypes DEF inputs
  <2>3. ASSUME NEW t \in Threads, StoreSet(t) \/ Remove(t)
        PROVE  ~pending' /\ thr'.reload.at = "idle" /\ (thr'.run.at = "set" => thr'.run.key \in mine')
    <3>1. t = "run" /\ pending' = pending
      BY <1>2, <2>3 DEF StoreSet, Remove, inputs
    <3>2. thr'.reload = thr.reload /\ (Remove(t) => thr'.run.at = thr.run.then)
          /\ (StoreSet(t) => thr'.run.at \in {"select", "loading"})
      BY <2>3, <3>1, StoreSetTypes, RemoveTypes
    <3>3. thr.run.then \in {"select", "check", "delete"}
      BY DEF TypeI, ThrOK
    <3> QED
      BY <1>1, <2>3, <3>1, <3>2, <3>3
  <2>4. CASE RunStops \/ WatchFails \/ TakeEvent \/ LookUp \/ LoadStep \/ StoreCheck("run")
    <3>1. RunOnly
      BY <2>4, EventTypes
    <3>2. thr'.run.at = "set" => thr'.run.key \in mine
      <4>1. CASE StoreCheck("run") /\ thr["run"].key \in mine
        <5>1. Goes("run", "set") /\ thr.run.at = "check"
          BY <4>1 DEF StoreCheck, At
        <5>2. thr'.run.key = thr.run.key
          BY <5>1, Stages, RunGoes DEF TypeI, ThrOK
        <5> QED
          BY <4>1, <5>2
      <4>2. CASE StoreCheck("run") /\ thr["run"].key \notin mine
        <5>1. PICK l \in {"select", "loading"} : Goes("run", l)
          BY <4>2 DEF StoreCheck, Home
        <5> QED
          BY <5>1, Stages, RunGoes DEF TypeI
      <4>3. CASE RunStops \/ WatchFails
        <5>1. Goes("run", "ended")
          BY <4>3 DEF RunStops, WatchFails
        <5> QED
          BY <5>1, Stages, RunGoes DEF TypeI
      <4>4. CASE LookUp
        <5>1. PICK l \in {"select", "remove"} : Goes("run", l) /\ thr.run.at = "get"
          BY <4>4 DEF LookUp, At
        <5> QED
          BY <5>1, Stages, RunGoes DEF TypeI, ThrOK
      <4>5. CASE TakeEvent
        <5>1. thr'.run.at \in {"check", "get"}
          BY <4>5 DEF TakeEvent, FirstStep, TypeI, ThrOK
        <5> QED
          BY <5>1
      <4>6. CASE LoadStep
        <5>1. thr'.run.at \in {"loading", "opening", "check", "select"}
          BY <4>6, LoadFacts
        <5> QED
          BY <5>1
      <4> QED
        BY <2>4, <4>1, <4>2, <4>3, <4>4, <4>5, <4>6
    <3> QED
      BY <1>1, <3>1, <3>2 DEF RunOnly
  <2>5. CASE TakeTick \/ TickEnds \/ DeleteExpired \/ DeleteExpiredFails
             \/ \E e \in Edges : Execute(e) \/ NotDue(e) \/ Forward(e)
    <3>1. RunOnly /\ thr'.run.at # "set"
      BY <2>5, TakeTickTypes, TickEndsTypes, DeleteExpiredTypes, ActionTypes, Stages
    <3> QED
      BY <1>1, <3>1 DEF RunOnly
  <2>6. ASSUME NEW s \in Keys, TakeScheduler(s) \/ SkipScheduler(s)
        PROVE  ~pending' /\ thr'.reload.at = "idle" /\ (thr'.run.at = "set" => thr'.run.key \in mine')
    <3>1. RunOnly /\ thr.run.at = "range" /\ (SkipScheduler(s) => thr' = thr)
      BY <2>6, TakeSchedulerTypes
    <3>2. TakeScheduler(s) => thr'.run.at \in {"remove", "from"}
      <4> SUFFICES ASSUME TakeScheduler(s) PROVE thr'.run.at \in {"remove", "from"}
        OBVIOUS
      <4>1. thr'.run = [at |-> IF IsExpired(s) THEN "remove" ELSE "from", key |-> s,
                        then |-> "delete"]
        BY TakeSchedulerTypes
      <4> QED
        BY <4>1
    <3> QED
      BY <1>1, <2>6, <3>1, <3>2 DEF RunOnly
  <2> QED
    BY <1>2, <2>1, <2>2, <2>3, <2>4, <2>5, <2>6, StepKinds, Zenon
<1>4. ASSUME NEW k \in Keys, rgt'[k] # NoScheduler
      PROVE  k \in mine /\ (Known(k)' \/ Deleting(k)')
  <2>1. QueueOK(k) /\ HandOK(k)
    BY DEF KeyInv
  <2>2. Known(k) => Known(k)' \/ Deleting(k)' \/ thr.run.at = "load"
    <3>1. CASE TakeEvent
      <4>1. missed' = missed /\ stored' = stored
        BY <3>1 DEF TakeEvent
      <4> QED
        BY <2>1, <3>1, <4>1, QueueTaken DEF Known
    <3>2. CASE ~TakeEvent
      BY <2>1, <3>2, EtcdSteps, QueueChange DEF LoadInv
    <3> QED
      BY <3>1, <3>2
  <2>3. CASE rgt[k] = NoScheduler
    <3>1. PICK t \in Threads : StoreSet(t) \/ Remove(t)
      BY <1>4, <2>3, RegisteredKept DEF Registered
    <3>2. t = "run" /\ rgt \in [Keys -> Times \union {NoScheduler}]
      BY <1>2, <3>1 DEF TypeI, RegOK
    <3>3. StoreSet(t) /\ thr.run.key = k /\ thr.run.at = "set"
      BY <1>4, <2>3, <3>1, <3>2, StoreSetTypes, RemoveTypes
    <3> QED
      BY <1>1, <2>1, <2>2, <3>3 DEF HandOK, Storing
  <2>4. CASE rgt[k] # NoScheduler
    <3>1. k \in mine /\ (Known(k) \/ Deleting(k)) /\ thr.run.at # "load"
      BY <1>1, <2>4 DEF LoadInv, Registered
    <3>2. Deleting(k) => Deleting(k)'
      <4> SUFFICES ASSUME Deleting(k) PROVE Deleting(k)'
        OBVIOUS
      <4>1. thr.run.key = k /\ thr.run.at \in {"get", "remove"} /\ thr.run.then = "select"
        BY DEF Deleting
      <4>2. CASE LookUp
        <5>1. Goes("run", "remove")
          BY <2>4, <4>1, <4>2 DEF LookUp
        <5> QED
          BY <4>1, <5>1, Stages, RunGoes DEF Deleting, TypeI
      <4>3. CASE Clock \/ SaveSteps \/ \E s \in Keys : CreateScheduler(s) \/ DeleteScheduler(s)
        BY <4>1, <4>3, SaveTypes DEF Deleting, Clock, CreateScheduler, DeleteScheduler
      <4>4. CASE \E w \in Iterators : IterLocks(w) \/ IterCloses(w)
        BY <4>1, <4>4, IterTypes DEF Deleting
      <4>5. \A t \in Threads : ~StoreSet(t) /\ ~Remove(t)
        <5> SUFFICES ASSUME NEW t \in Threads, StoreSet(t) \/ Remove(t) PROVE FALSE
          OBVIOUS
        <5>1. t = "run" /\ rgt \in [Keys -> Times \union {NoScheduler}]
          BY <1>2 DEF TypeI, RegOK
        <5>2. Remove(t)
          BY <4>1, <5>1 DEF StoreSet, At
        <5>3. rgt' = [rgt EXCEPT ![k] = NoScheduler]
          BY <4>1, <5>1, <5>2, RemoveTypes
        <5> QED
          BY <1>4, <5>1, <5>3
      <4>6. ~RunStops /\ ~WatchFails /\ ~TakeEvent /\ ~StoreCheck("run") /\ ~TakeTick /\ ~TickEnds
            /\ ~LoadStep
            /\ (\A s \in Keys : ~TakeScheduler(s) /\ ~SkipScheduler(s))
            /\ ~DeleteExpired /\ ~DeleteExpiredFails
        BY <4>1, LoadFacts
                DEF RunStops, WatchFails, TakeEvent, StoreCheck, TakeTick, TickEnds, TakeScheduler,
                    SkipScheduler, DeleteExpired, DeleteExpiredFails, At
      <4>7. \A e \in Edges : ~Execute(e) /\ ~NotDue(e) /\ ~Forward(e)
        BY <4>1, Stages DEF Execute, NotDue, Forward, At, Edges
      <4> QED
        BY <1>2, <4>2, <4>3, <4>4, <4>5, <4>6, <4>7, StepKinds, Zenon
    <3> QED
      BY <2>2, <3>1, <3>2
  <2> QED
    BY <2>3, <2>4
<1> QED
  BY <1>1, <1>3, <1>4

\* load's steps, and those that write a key meanwhile.
LEMMA LoadInvStep ==
  ASSUME TypeI, LoadInv, [Next]_vars
  PROVE  LoadInv'
<1> USE DEF LoadStages
<1>1. CASE LoadStep
  <2>1. /\ UNCHANGED <<stored, todo, rgt>> /\ thr'.reload = thr.reload
        /\ thr.run.at \in LoadStages /\ ~watch /\ todo = << >>
    BY <1>1, LoadFacts DEF LoadInv, regVars
  <2>2. Registered' = Registered
    BY <2>1 DEF Registered
  <2>3. CASE LoadReads
    <3>1. thr'.run.at = "loading" /\ toLoad' = stored /\ UNCHANGED <<watch, missed>>
      BY <2>3, Stages, RunGoes DEF LoadReads, TypeI
    <3> QED
      BY <2>1, <2>2, <3>1 DEF LoadInv
  <2>4. CASE LoadFails \/ LoadEnds
    <3>1. /\ thr'.run.at = "opening" /\ toLoad' = toLoad /\ UNCHANGED <<watch, missed>>
          /\ toLoad = {}
      BY <2>4, Stages, RunGoes DEF LoadFails, LoadEnds, RequestFails, etcdVars, TypeI, LoadInv, At
    <3> QED
      BY <2>1, <2>2, <3>1 DEF LoadInv
  <2>5. CASE OpenWatch
    <3>1. thr'.run.at = "select" /\ toLoad' = toLoad /\ watch' /\ missed' = missed /\ toLoad = {}
      BY <2>5, Stages, RunGoes DEF OpenWatch, TypeI, LoadInv, At
    <3> QED
      BY <2>1, <2>2, <3>1 DEF LoadInv
  <2>6. ASSUME NEW k \in Keys, LoadKey(k) \/ LoadSkips(k) PROVE LoadInv'
    <3>1. /\ thr'.run.at \in {"check", "loading"} /\ toLoad' = toLoad \ {k} /\ watch' = watch
          /\ missed \subseteq missed'
      BY <2>6 DEF LoadKey, LoadSkips, TypeI, ThrOK, At
    <3> QED
      BY <2>1, <2>2, <3>1 DEF LoadInv
  <2> QED
    BY <1>1, <2>3, <2>4, <2>5, <2>6 DEF LoadStep
<1>2. ASSUME Next, ~LoadStep PROVE LoadInv'
  <2>1. UNCHANGED <<watch, toLoad>>
    BY <1>2, LoadKept
  <2>2. /\ ~watch => todo' = << >>
        /\ \A k \in toLoad : k \in stored' \/ k \in missed'
    <3>1. CASE TakeEvent
      BY <3>1 DEF TakeEvent, LoadInv
    <3>2. CASE UNCHANGED <<stored, todo>> /\ missed \subseteq missed'
      BY <3>2 DEF LoadInv
    <3>3. CASE Rebalance
      BY <3>3 DEF Rebalance, LoadInv
    <3>4. ASSUME NEW s \in Keys, Put(s) \/ Delete(s)
          PROVE  /\ ~watch => todo' = << >>
                 /\ \A k \in toLoad : k \in stored' \/ k \in missed'
      <4>1. CASE watch
        BY <4>1 DEF LoadInv
      <4>2. CASE ~watch
        <5>1. todo' = << >> /\ missed \subseteq missed'
          BY <3>4, <4>2, QueueUntold DEF LoadInv
        <5>2. ASSUME NEW k \in toLoad, k \in stored, thr.run.at # "load"
              PROVE  k \in stored' \/ k \in missed'
          BY <3>4, <4>2, <5>2, QueueUntold DEF LoadInv, TypeI, EnvOK
        <5> QED
          BY <5>1, <5>2 DEF LoadInv
      <4> QED
        BY <4>1, <4>2
    <3> QED
      BY <1>2, <3>1, <3>2, <3>3, <3>4, EtcdSteps DEF EtcdMoves
  <2>3. CASE \/ Clock \/ RingMoves \/ \E k \in Keys : CreateScheduler(k) \/ DeleteScheduler(k)
             \/ \E w \in Iterators : IterLocks(w) \/ IterCloses(w)
             \/ SaveSteps
    <3>1. UNCHANGED <<thr, rgt>>
      BY <2>3, IterTypes, SaveTypes DEF Clock, RingMoves, CreateScheduler, DeleteScheduler, regVars
    <3> QED
      BY <2>1, <2>2, <3>1 DEF LoadInv, Registered
  <2>4. CASE ReloadSteps
    <3>1. thr'.run = thr.run /\ rgt' = rgt
      BY <2>4, ReloadTypes DEF ReloadOnly
    <3>2. thr.run.at = "load" => FALSE
      BY <2>4 DEF LoadInv, ReloadSteps, TakeReload, Loaded, Rebalance, RebalanceFails, RebalanceDone,
                  AskRing, AskRegistry, HandOver, StoreCheck, At
    <3> QED
      BY <2>1, <2>2, <3>1, <3>2 DEF LoadInv
  <2>5. ASSUME NEW t \in Threads, StoreSet(t) \/ Remove(t) PROVE LoadInv'
    <3>1. CASE t = "reload"
      <4>1. thr'.run = thr.run /\ thr.reload.at # "idle"
        BY <2>5, <3>1, StoreSetTypes, RemoveTypes
      <4> QED
        BY <2>1, <2>2, <4>1 DEF LoadInv
    <3>2. CASE t = "run" /\ StoreSet(t)
      <4>1. thr["run"].at = "set" /\ thr'.run.at = (IF watch THEN "select" ELSE "loading")
        BY <3>2 DEF StoreSet, At, Goes, Home, TypeI, ThrOK
      <4> QED
        BY <2>1, <2>2, <4>1 DEF LoadInv
    <3>3. CASE t = "run" /\ Remove(t)
      <4>1. /\ thr["run"].at = "remove" /\ thr'.run.at \in {"select", "check", "delete"}
        BY <3>3, RemoveTypes DEF TypeI, ThrOK
      <4> QED
        BY <2>1, <2>2, <4>1 DEF LoadInv
    <3> QED
      BY <2>5, <3>1, <3>2, <3>3 DEF Threads
  <2>6. CASE StoreCheck("run")
    <3>1. /\ thr["run"].at = "check"
          /\ thr'.run.at = IF thr["run"].key \in mine THEN "set"
                           ELSE IF watch THEN "select" ELSE "loading"
      BY <2>6 DEF StoreCheck, At, Goes, Home, TypeI, ThrOK
    <3> QED
      BY <2>1, <2>2, <3>1 DEF LoadInv
  <2>7. CASE RunStops \/ WatchFails \/ TakeEvent \/ LookUp \/ TakeTick \/ TickEnds
    <3>1. thr.run.at \in {"select", "get", "range"} /\ thr'.run.at \notin LoadStages
      <4>1. CASE RunStops \/ WatchFails
        BY <4>1, Stages, RunGoes DEF RunStops, WatchFails, At, TypeI
      <4>2. CASE TakeEvent
        BY <4>2 DEF TakeEvent, At, FirstStep, TypeI, ThrOK
      <4>3. CASE LookUp
        <5>1. PICK l \in {"select", "remove"} : Goes("run", l) /\ thr.run.at = "get"
          BY <4>3 DEF LookUp, At
        <5> QED
          BY <5>1, Stages, RunGoes DEF TypeI, ThrOK
      <4>4. CASE TakeTick \/ TickEnds
        BY <4>4, TakeTickTypes, TickEndsTypes
      <4> QED
        BY <2>7, <4>1, <4>2, <4>3, <4>4
    <3> QED
      BY <2>1, <2>2, <3>1 DEF LoadInv
  <2>8. CASE \/ \E k \in Keys : TakeScheduler(k) \/ SkipScheduler(k)
             \/ DeleteExpired \/ DeleteExpiredFails
             \/ \E e \in Edges : Execute(e) \/ NotDue(e) \/ Forward(e)
    <3>1. InTick /\ InTick'
      BY <2>8, TakeSchedulerTypes, DeleteExpiredTypes, ActionTypes
    <3> QED
      BY <2>1, <2>2, <3>1 DEF LoadInv, InTick
  <2> QED
    BY <1>2, <2>3, <2>4, <2>5, <2>6, <2>7, <2>8, StepKinds, Zenon
<1>3. CASE UNCHANGED vars
  <2>1. UNCHANGED <<watch, toLoad, todo, stored, missed, rgt, thr>>
    BY <1>3 DEF vars, etcdVars, regVars
  <2> QED
    BY <2>1 DEF LoadInv, Registered
<1> QED
  BY <1>1, <1>2, <1>3

LEMMA InitKeys == Init => KeyI
<1> SUFFICES ASSUME Init PROVE KeyI
  OBVIOUS
<1>1. /\ todo = << >> /\ thr.run.at = "load" /\ thr.reload.at = "idle" /\ left = {} /\ ~pending
      /\ toLoad = {} /\ ~watch /\ \A k \in Keys : rgt[k] = NoScheduler
  BY DEF Init
<1>2. KeyInv
  BY <1>1 DEF KeyInv, QueueOK, HandOK, Told, Deleting, Modifying, Storing
<1>3. ReloadInv /\ ExactInv /\ LoadInv
  BY <1>1 DEF ReloadInv, ExactInv, LoadInv, LoadStages, Registered
<1>4. OwnInv
  BY <1>1 DEF OwnInv, LoadHas
<1> QED
  BY <1>2, <1>3, <1>4 DEF KeyI

LEMMA KeyIStep == TypeI /\ KeyI /\ [Next]_vars => KeyI'
<1> SUFFICES ASSUME TypeI, KeyI, [Next]_vars PROVE KeyI'
  OBVIOUS
<1>1. TypeI' /\ KeyInv' /\ LoadInv' /\ ReloadInv'
  BY TypeStep, KeyStep, LoadInvStep, ReloadInvStep DEF KeyI
<1>2. CASE Next
  BY <1>1, <1>2, OwnInvStep, ExactInvStep DEF KeyI
<1>3. CASE UNCHANGED vars
  <2>1. /\ UNCHANGED <<stored, todo, toLoad, missed, mine, pending, moves, failed, rgt, thr, left,
                       save>>
    BY <1>3 DEF vars, inputs, etcdVars, regVars
  <2>2. \A k \in Keys : (ReloadHas(k)' <=> ReloadHas(k)) /\ (RunHas(k)' <=> RunHas(k))
          /\ (LastIs(k, "create")' <=> LastIs(k, "create")) /\ (LoadHas(k)' <=> LoadHas(k))
          /\ (Known(k)' <=> Known(k)) /\ (Deleting(k)' <=> Deleting(k))
    BY <2>1 DEF ReloadHas, RunHas, Storing, Modifying, LastIs, LoadHas, Known, Deleting
  <2>3. OwnInv'
    BY <2>1, <2>2 DEF KeyI, OwnInv, TypeI, EnvOK
  <2>4. ExactInv'
    BY <2>1, <2>2 DEF KeyI, ExactInv
  <2> QED
    BY <1>1, <2>3, <2>4 DEF KeyI
<1> QED
  BY <1>2, <1>3

LEMMA Keyed == Spec => [](TypeI /\ KeyI)
<1>1. Init => TypeI /\ KeyI
  BY InitTypes, InitKeys
<1>2. TypeI /\ KeyI /\ [Next]_vars => TypeI' /\ KeyI'
  BY TypeStep, KeyIStep
<1> QED
  BY <1>1, <1>2, PTL DEF Spec

\* At rest load has come to an end.
LEMMA RestFacts ==
  ASSUME LoadInv, AtRest
  PROVE  watch /\ \A k : ~LoadHas(k)
  BY DEF LoadInv, LoadStages, AtRest, At, LoadHas

\* load, events and rebalance end up with every scheduler of this node registered, apart
\* from those load skipped and the watch missed, however the ring moves, the API writes
\* and schedulers expire meanwhile (manager.go:232).
THEOREM OwnersAreRegistered == Spec => []OwnerHasScheduler
<1>1. KeyI => OwnerHasScheduler
  BY RestFacts DEF KeyI, ReloadInv, OwnInv, OwnerHasScheduler, AtRest, At, ReloadHas, RunHas, Storing,
         Modifying, LastIs
<1> QED
  BY <1>1, Keyed, PTL

\* While the ring does not move, nothing else is registered at rest: a deleted or
\* expired scheduler is gone when its event was handled (manager.go:114), apart from
\* those load skipped and the watch missed.
THEOREM ExactAtRest == Spec => []ExactWithoutMoves
<1>1. TypeI /\ KeyI => ExactWithoutMoves
  <2> SUFFICES ASSUME TypeI, KeyI, AtRest, moves = 0, ~failed
               PROVE  {k \in Keys : rgt[k] # NoScheduler} \ missed = (stored \intersect mine) \ missed
    BY DEF ExactWithoutMoves
  <2>1. \A k \in (stored \intersect mine) \ missed : rgt[k] # NoScheduler
    BY RestFacts DEF KeyI, ReloadInv, OwnInv, AtRest, At, ReloadHas, RunHas, Storing, Modifying, LastIs
  <2>2. \A k \in Keys : rgt[k] # NoScheduler => k \in mine /\ (k \in stored \/ k \in missed)
    BY DEF KeyI, ExactInv, AtRest, At, Deleting, Known, LastIs
  <2> QED
    BY <2>1, <2>2 DEF TypeI, EnvOK
<1> QED
  BY <1>1, Keyed, PTL
=============================================================================
