------------------------------- MODULE Healer -------------------------------
(***************************************************************************)
(* One healer of pkg/autohealer/healer.go: the goroutine run, which queries *)
(* the metrics backend for instances that are down, and the goroutines it  *)
(* starts, one per instance to heal, which wait Duration and then run the  *)
(* healing actions.  They share the maps chans and whitelist without a     *)
(* lock.  What the query counts for an instance is abstracted to "absent", *)
(* "full" (EvaluationLevel series) and "partial" (any other number).       *)
(*                                                                         *)
(* Time is the number of instants since a start, which is of no interest   *)
(* beyond Duration.  Healer.state is left out: a failed query overwrites   *)
(* it, but the only Stop that could be misled waits for the lock.          *)
(***************************************************************************)
EXTENDS Integers, FiniteSets

CONSTANTS
  Instances,
  MaxInstances,  \* model.DefaultMaxNumberOfInstances
  Duration,
  Silenceable,   \* instances that silences may match
  Slots,         \* bound: healing goroutines alive at a time
  MayStop        \* bound: whether Stop may be called

ASSUME HealerAssumption ==
  /\ MaxInstances \in Nat /\ Duration \in Nat
  /\ IsFiniteSet(Instances) /\ Instances # {} /\ Silenceable \subseteq Instances
  /\ MayStop \in BOOLEAN

VARIABLES
  active,     \* model.Healer.Active
  loop,       \* where run is
  result,     \* what the last query counted
  chosen,     \* the instances the loop still means to heal
  chans,      \* the goroutine listed for an instance
  whitelist,  \* instances whose healing was carried out
  silenced,   \* instances a silence matches
  named,      \* instances whose node name is known
  go,         \* the healing goroutines: closed is that of their own channel, while
              \* they may still look at it, since the age of their alert
  stop,       \* the caller of Stop
  (* Observers, per instance. *)
  downFor,    \* time since the first result of the current outage
  heals,      \* healings begun in the current outage, counted up to two
  met,        \* instances with a goroutine alive when the loop asked the whitelist
  stray       \* the loop started a goroutine for the instance although it met one

loopVars == <<active, loop, result, chosen>>
shared == <<chans, whitelist>>
inputs == <<silenced, named, stop>>
observers == <<downFor, heals, met, stray>>
vars == <<loopVars, shared, inputs, go, observers>>

NoTime == -1
None == 0     \* no goroutine
ASSUME SlotsAssumption == None \notin Slots /\ IsFiniteSet(Slots)

Nobody == CHOOSE i \in Instances : TRUE
Ended == [at |-> "ended", inst |-> Nobody, closed |-> FALSE, since |-> NoTime]

Alive(g) == go[g].at # "ended"
Listed == {i \in Instances : chans[i] # None}
Free == {g \in Slots : ~Alive(g) /\ \A i \in Listed : chans[i] # g}

\* Healer.done is closed.
Done == stop # "idle"

Init ==
  /\ active \in BOOLEAN
  /\ loop = "select"
  /\ result = [i \in Instances |-> "absent"] /\ chosen = {}
  /\ chans = [i \in Instances |-> None] /\ whitelist = {}
  /\ silenced \in SUBSET Silenceable
  /\ named = {}
  /\ go = [g \in Slots |-> Ended]
  /\ stop = "idle"
  /\ downFor = [i \in Instances |-> NoTime]
  /\ heals = [i \in Instances |-> 0]
  /\ met = {}
  /\ stray = [i \in Instances |-> FALSE]

-----------------------------------------------------------------------------
(* Time and the environment.                                               *)

Longer(t) == IF t \in 0 .. Duration - 1 THEN t + 1 ELSE t

\* One instant passes.
Tick ==
  /\ downFor' = [i \in Instances |-> Longer(downFor[i])]
  /\ go' = [g \in Slots |-> [go[g] EXCEPT !.since = Longer(@)]]
  /\ UNCHANGED <<loopVars, shared, inputs, heals, met, stray>>

\* After an event the loop looks at done before it selects again.
Turn == loop' = IF Done THEN "closing" ELSE "select"

\* nc delivers the name of an instance.
UpdateNodes(i) ==
  /\ loop = "select" /\ Turn
  /\ named' = named \union {i}
  /\ UNCHANGED <<active, result, chosen, shared, silenced, stop, go, observers>>

\* A silence comes or goes: by a watch event, by its expiry, by the sync from
\* the Alertmanager.
Silence(i) ==
  /\ loop = "select" /\ Turn
  /\ silenced' = IF i \in silenced THEN silenced \ {i} ELSE silenced \union {i}
  /\ UNCHANGED <<active, result, chosen, shared, named, stop, go, observers>>

-----------------------------------------------------------------------------
(* run.                                                                    *)

LoopEnds ==
  /\ loop \in {"select", "closing"} /\ Done
  /\ loop' = "ended"
  /\ UNCHANGED <<active, result, chosen, shared, inputs, go, observers>>

Down(r) == {i \in Instances : r[i] # "absent"}

\* Fault: a recovered instance keeps its goroutine while others are down.
UpAgainAll(r) == IF Down(r) = {} THEN Instances ELSE {}

UpAgain(r) == Instances \ Down(r)

\* Fault: the channels are closed, but stay listed.
TellListed(s) ==
  /\ go' = [g \in Slots |->
       [go[g] EXCEPT !.closed = @ \/ (go[g].at \in {"name", "wait"} /\ \E i \in s : chans[i] = g)]]
  /\ UNCHANGED chans

\* The goroutines of the instances s are told to end: their channels are closed and
\* taken from the list.
Tell(s) ==
  /\ chans' = [i \in Instances |-> IF i \in s THEN None ELSE chans[i]]
  /\ go' = [g \in Slots |->
       [go[g] EXCEPT !.closed = @ \/ (go[g].at \in {"name", "wait"} /\ \E i \in s : chans[i] = g)]]

\* A tick whose query succeeds; done may be closed and the ticker picked.
\* Instances that are up again leave the whitelist and their goroutines are told
\* to end.
Query(r) ==
  /\ loop = "select" /\ active
  /\ IF Down(r) = {} THEN Turn ELSE loop' = "filter"
  /\ result' = r
  /\ whitelist' = whitelist \intersect Down(r)
  /\ Tell(UpAgain(r))
  /\ downFor' = [i \in Instances |-> IF i \notin Down(r) THEN NoTime
                                     ELSE IF downFor[i] = NoTime THEN 0 ELSE downFor[i]]
  /\ heals' = [i \in Instances |-> IF i \in Down(r) THEN heals[i] ELSE 0]
  /\ UNCHANGED <<active, chosen, inputs, met, stray>>

\* Fault: the whitelist is not asked.
ToHealAgain == {i \in Instances : result[i] = "full"} \ silenced

ToHeal == {i \in Instances : result[i] = "full"} \ (whitelist \union silenced)

\* The loop asks the whitelist (and the silences) for each instance, and then the
\* list of channels: a goroutine may write to both in between.  For which instance
\* it asks first makes no difference, as no goroutine writes for two.
AskWhitelist ==
  /\ loop = "filter" /\ loop' = "list"
  /\ chosen' = ToHeal
  /\ met' = {go[g].inst : g \in {h \in Slots : Alive(h)}}
  /\ UNCHANGED <<active, result, shared, inputs, go, downFor, heals, stray>>

AskList ==
  /\ loop = "list" /\ loop' = "start"
  /\ chosen' = chosen \ Listed
  /\ UNCHANGED <<active, result, shared, inputs, go, observers>>

\* Fault: instances that already have a goroutine are not counted.
TooManyNew == Cardinality(chosen) > MaxInstances

TooMany ==
  \/ Cardinality(chosen) > MaxInstances
  \/ Cardinality(chosen) + Cardinality(Listed) > MaxInstances

\* With too many to heal all goroutines are told to end, otherwise one is started for
\* each chosen instance.
Start ==
  LET started == CHOOSE f \in [chosen -> Free] :
                   \A i, j \in chosen : i # j => f[i] # f[j]
  IN
  /\ loop = "start" /\ Turn
  /\ IF TooMany THEN Tell(Instances) /\ UNCHANGED stray
     ELSE /\ Cardinality(chosen) <= Cardinality(Free)
          /\ chans' = [i \in Instances |-> IF i \in chosen THEN started[i] ELSE chans[i]]
          /\ go' = [g \in Slots |->
               IF \E i \in chosen : started[i] = g
               THEN [Ended EXCEPT !.at = "name", !.inst = CHOOSE i \in chosen : started[i] = g]
               ELSE go[g]]
          /\ stray' = [i \in Instances |-> stray[i] \/ i \in chosen \intersect met]
  /\ chosen' = {} /\ met' = {}
  /\ UNCHANGED <<active, result, whitelist, inputs, downFor, heals>>

-----------------------------------------------------------------------------
(* A healing goroutine.                                                    *)

\* It waits for the node's name and looks at nothing else.
NameFound(g) ==
  /\ go[g].at = "name" /\ go[g].inst \in named
  /\ go' = [go EXCEPT ![g].at = "wait"]
  /\ UNCHANGED <<loopVars, shared, inputs, observers>>

\* done or its own channel is closed.
Quit(g) ==
  /\ go[g].at = "wait" /\ (Done \/ go[g].closed)
  /\ go' = [go EXCEPT ![g] = Ended]
  /\ UNCHANGED <<loopVars, shared, inputs, observers>>

ShouldFire(t) == t >= Duration

\* Fault: the alert starts anew at every tick.
SinceRestarted(g) == 0

\* The age of the alert, which is started unless it is active.
Since(g) == IF go[g].since = NoTime THEN 0 ELSE go[g].since

\* rTicker, which may be picked although a channel is closed: the alert starts,
\* and when it is due the healing begins.
Evaluate(g) ==
  LET t == Since(g)
      i == go[g].inst
  IN
  /\ go[g].at = "wait"
  /\ go' = [go EXCEPT ![g] = IF ShouldFire(t) THEN [Ended EXCEPT !.at = "do", !.inst = i]
                             ELSE [@ EXCEPT !.since = t]]
  /\ heals' = IF ShouldFire(t) /\ downFor[i] # NoTime /\ heals[i] < 2
              THEN [heals EXCEPT ![i] = @ + 1] ELSE heals
  /\ UNCHANGED <<loopVars, shared, inputs, downFor, met, stray>>

\* do returns: every action ended, or the cloud is unknown.
Healed(g) ==
  /\ go[g].at = "do"
  /\ go' = [go EXCEPT ![g].at = "mark"]
  /\ UNCHANGED <<loopVars, shared, inputs, observers>>

Mark(g) ==
  /\ go[g].at = "mark"
  /\ whitelist' = whitelist \union {go[g].inst}
  /\ go' = [go EXCEPT ![g].at = "unlist"]
  /\ UNCHANGED <<loopVars, chans, inputs, observers>>

\* delete(chans, instance): whatever goroutine is listed by now.
Unlist(g) ==
  /\ go[g].at = "unlist"
  /\ chans' = [chans EXCEPT ![go[g].inst] = None]
  /\ go' = [go EXCEPT ![g] = Ended]
  /\ UNCHANGED <<loopVars, whitelist, inputs, observers>>

\* Two goroutines at the maps at once: the Go runtime may end the process.
MapRace ==
  /\ (loop = "select" /\ active) \/ loop \in {"filter", "list", "start"}
  /\ \E g \in Slots : go[g].at \in {"mark", "unlist"}
  /\ loop' = "crashed"
  /\ go' = [g \in Slots |-> Ended]
  /\ UNCHANGED <<active, result, chosen, shared, inputs, observers>>

-----------------------------------------------------------------------------
(* Stop.                                                                   *)

CloseDone ==
  /\ MayStop /\ stop = "idle" /\ loop # "crashed"
  /\ stop' = "wait"
  /\ UNCHANGED <<loopVars, shared, silenced, named, go, observers>>

StopReturns ==
  /\ stop = "wait" /\ loop = "ended"
  /\ stop' = "returned"
  /\ UNCHANGED <<loopVars, shared, silenced, named, go, observers>>

-----------------------------------------------------------------------------
Results == [Instances -> {"absent", "partial", "full"}]

Choose == AskWhitelist \/ AskList \/ Start

QueryTick == (\E r \in Results : Query(r)) \/ Choose

GoStep(g) == NameFound(g) \/ Quit(g) \/ Evaluate(g) \/ Mark(g) \/ Unlist(g)

Next ==
  \/ Tick
  \/ \E i \in Instances : UpdateNodes(i)
  \/ \E i \in Silenceable : Silence(i)
  \/ LoopEnds \/ QueryTick
  \/ \E g \in Slots : GoStep(g) \/ Healed(g)
  \/ MapRace
  \/ CloseDone \/ StopReturns

Spec == Init /\ [][Next]_vars

\* The backend goes on to give its last answer.
SameAnswer == Query(result)

(* Time passes, the goroutines' tickers fire and Go runs what can run.  A  *)
(* backend whose answer stays what it is goes on to be asked: fairness of  *)
(* QueryTick would have it change its answer for ever.  Nothing says that  *)
(* healing actions end, that names or silences come, or that Stop is called. *)
Fairness ==
  /\ WF_vars(Tick) /\ WF_vars(LoopEnds) /\ WF_vars(SameAnswer) /\ WF_vars(Choose)
  /\ \A g \in Slots : WF_vars(GoStep(g))

FairSpec == Spec /\ Fairness

-----------------------------------------------------------------------------
(* Properties.                                                             *)

Goroutine == [at: {"name", "wait", "do", "mark", "unlist", "ended"}, inst: Instances,
              closed: BOOLEAN, since: NoTime .. Duration]

\* Every variable has its type, and a listed channel is open: close(*c) never
\* meets a channel that was closed before, which would end the process.
TypeOK ==
  /\ active \in BOOLEAN
  /\ loop \in {"select", "filter", "list", "start", "closing", "ended", "crashed"}
  /\ result \in Results /\ chosen \in SUBSET Instances
  /\ chans \in [Instances -> Slots \union {None}]
  /\ whitelist \in SUBSET Instances
  /\ silenced \in SUBSET Instances /\ named \in SUBSET Instances
  /\ go \in [Slots -> Goroutine]
  /\ stop \in {"idle", "wait", "returned"}
  /\ downFor \in [Instances -> NoTime .. Duration]
  /\ heals \in [Instances -> 0 .. 2] /\ met \in SUBSET Instances /\ stray \in [Instances -> BOOLEAN]
  /\ \A i \in Listed : ~go[chans[i]].closed

\* No more than MaxInstances goroutines are listed at a time, although the
\* goroutines themselves take entries out at any time.
AtMostMaxInstances == Cardinality(Listed) <= MaxInstances

Begins(g) == go[g].at = "wait" /\ go'[g].at = "do"

\* A goroutine that was not told to end begins to heal only when every result of
\* the last Duration reported its instance, unless the loop lost track of it.
HealsAfterDuration ==
  [][\A g \in Slots :
       Begins(g) =>
         \/ go[g].closed \/ Done \/ stray[go[g].inst]
         \/ downFor[go[g].inst] >= Duration]_vars

\* In one outage an instance is healed once, unless the loop started a goroutine for
\* it although an earlier one was alive when it asked the whitelist: one it had told
\* to end and that healed all the same, or one that put the instance on the whitelist
\* and took its channel from the list just after the loop had asked the whitelist and
\* just before it asked the list.
HealedOncePerOutage == \A i \in Instances : heals[i] = 2 => stray[i]

\* The instance is down in full, its name is known, nothing speaks against
\* healing it, the healer works and the bound leaves it a goroutine.
Needs(i) ==
  /\ \E g \in Slots : go[g].at # "do"
  /\ active /\ ~Done /\ loop # "crashed"
  /\ \A j \in Instances : result[j] = IF j = i THEN "full" ELSE "absent"
  /\ i \in named /\ i \notin silenced

\* The only instance that stays down is healed in that outage, or is on the
\* whitelist for good: a healing begun in an earlier outage put it there.
DownIsHealed ==
  \A i \in Instances : <>[]Needs(i) => <>[](heals[i] > 0 \/ i \in whitelist)
=============================================================================
