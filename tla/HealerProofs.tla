---------------------------- MODULE HealerProofs ----------------------------
(***************************************************************************)
(* Proofs about Healer for any finite sets of instances and goroutines, any *)
(* limit and any duration.                                                 *)
(***************************************************************************)
EXTENDS Healer, FiniteSetTheorems, FunctionTheorems, TLAPS

\* A goroutine that has yet to heal, and one that heals.
Waits(g) == go[g].at \in {"name", "wait"}
Works(g) == go[g].at \in {"do", "mark"}

\* No goroutine is listed twice.
DistinctInv == \A i, j \in Listed : chans[i] = chans[j] => i = j

\* An instance has one goroutine at a time, unless the loop lost track of one.
UniqueInv ==
  \A g, h \in Slots :
    Alive(g) /\ Alive(h) /\ go[g].inst = go[h].inst /\ ~stray[go[g].inst] => g = h

\* A goroutine that was not told to end is listed, and its alert is no older than
\* the outage.
Minded(g) == Waits(g) /\ ~go[g].closed /\ ~stray[go[g].inst]
WatchInv ==
  \A g \in Slots : Minded(g) =>
    /\ chans[go[g].inst] = g
    /\ downFor[go[g].inst] # NoTime /\ go[g].since <= downFor[go[g].inst]

\* After a healing has begun the instance is being healed, or is on the whitelist;
\* there no goroutine waits for it.
HealInv ==
  \A i \in Instances : ~stray[i] =>
    /\ heals[i] < 2
    /\ i \in whitelist => \A g \in Slots : Waits(g) => go[g].inst # i
    /\ heals[i] > 0 /\ loop # "crashed" =>
         i \in whitelist \/ \E g \in Slots : Works(g) /\ go[g].inst = i

\* The end of the process is the end of its goroutines.
CrashInv == loop = "crashed" => \A g \in Slots : ~Alive(g)

\* The instances the loop chose are down.  One of which it met no goroutine has none
\* since, and none will put it on the whitelist.
Choosing == {"filter", "list", "start"}
ChosenInv ==
  /\ loop \in Choosing => \A i \in Down(result) : downFor[i] # NoTime
  /\ loop \in {"list", "start"} => chosen \subseteq Down(result)
  /\ loop = "start" => chosen \intersect Listed = {}
  /\ \A i \in chosen \ met :
       i \notin whitelist /\ \A g \in Slots : Alive(g) => go[g].inst # i

\* The inductive invariant.
IInv ==
  /\ TypeOK /\ AtMostMaxInstances /\ DistinctInv /\ UniqueInv /\ WatchInv /\ HealInv
  /\ CrashInv /\ ChosenInv

-----------------------------------------------------------------------------
LEMMA EndedFacts ==
  /\ Ended \in Goroutine /\ Ended.at = "ended" /\ Ended.closed = FALSE /\ Ended.since = NoTime
<1>1. Nobody \in Instances
  BY HealerAssumption DEF Nobody
<1> QED
  BY <1>1, HealerAssumption DEF Ended, Goroutine, NoTime

LEMMA BegunFacts ==
  ASSUME NEW i \in Instances, NEW a \in {"name", "do"}
  PROVE  LET v == [Ended EXCEPT !.at = a, !.inst = i]
         IN  /\ v \in Goroutine /\ v.at = a /\ v.inst = i
             /\ v.closed = FALSE /\ v.since = NoTime
<1>1. ASSUME NEW r \in Goroutine
      PROVE  LET e == [r EXCEPT !.at = a]
             IN  e \in Goroutine /\ e.at = a /\ e.closed = r.closed /\ e.since = r.since
  BY DEF Goroutine
<1>2. ASSUME NEW r \in Goroutine
      PROVE  LET e == [r EXCEPT !.inst = i]
             IN  /\ e \in Goroutine /\ e.at = r.at /\ e.inst = i
                 /\ e.closed = r.closed /\ e.since = r.since
  BY DEF Goroutine
<1> DEFINE e == [Ended EXCEPT !.at = a]
<1>3. e \in Goroutine /\ e.at = a /\ e.closed = FALSE /\ e.since = NoTime
  BY <1>1, EndedFacts
<1> HIDE DEF e
<1> DEFINE v == [e EXCEPT !.inst = i]
<1>4. v \in Goroutine /\ v.at = a /\ v.inst = i /\ v.closed = FALSE /\ v.since = NoTime
  BY <1>2, <1>3
<1> QED
  BY <1>4 DEF e
LEMMA InitIInv == Init => IInv
<1> SUFFICES ASSUME Init PROVE IInv
  OBVIOUS
<1>1. \A g \in Slots : go[g] = Ended /\ ~Alive(g) /\ ~Waits(g)
  BY EndedFacts DEF Init, Alive, Waits
<1>2. Listed = {}
  BY DEF Init, Listed
<1>3. TypeOK
  <2>1. go \in [Slots -> Goroutine]
    BY EndedFacts DEF Init
  <2>2. result \in Results /\ chosen = {} /\ met = {}
    BY DEF Init, Results
  <2>3. downFor \in [Instances -> NoTime .. Duration] /\ heals \in [Instances -> 0 .. 2]
    BY HealerAssumption DEF Init, NoTime
  <2>4. chans \in [Instances -> Slots \union {None}] /\ stray \in [Instances -> BOOLEAN]
    BY DEF Init
  <2>5. /\ active \in BOOLEAN /\ loop = "select" /\ stop = "idle"
        /\ whitelist = {} /\ silenced \in SUBSET Instances /\ named = {}
    BY HealerAssumption DEF Init
  <2>6. \A i \in Listed : ~go[chans[i]].closed
    BY <1>2
  <2> QED
    BY <2>1, <2>2, <2>3, <2>4, <2>5, <2>6 DEF TypeOK
<1>4. AtMostMaxInstances
  BY <1>2, FS_EmptySet, HealerAssumption DEF AtMostMaxInstances
<1>5. DistinctInv /\ UniqueInv /\ WatchInv /\ CrashInv
  BY <1>1, <1>2 DEF DistinctInv, UniqueInv, WatchInv, Minded, CrashInv
<1>6. HealInv
  BY <1>1 DEF Init, HealInv
<1>7. ChosenInv
  BY DEF Init, ChosenInv, Choosing
<1> QED
  BY <1>3, <1>4, <1>5, <1>6, <1>7 DEF IInv

\* Steps that leave the maps and the goroutines alone.
LEMMA FrameStep ==
  ASSUME IInv, TypeOK', ChosenInv', UNCHANGED <<shared, go, downFor, heals, stray>>,
         loop' = "crashed" <=> loop = "crashed"
  PROVE  IInv'
<1> USE DEF shared
<1>1. Listed' = Listed
  BY DEF Listed
<1>2. AtMostMaxInstances' /\ DistinctInv'
  BY <1>1 DEF IInv, AtMostMaxInstances, DistinctInv
<1>3. UniqueInv' /\ WatchInv' /\ CrashInv'
  BY DEF IInv, UniqueInv, WatchInv, Minded, Waits, CrashInv, Alive
<1>4. HealInv'
  BY DEF IInv, HealInv, Waits, Works
<1> QED
  BY <1>2, <1>3, <1>4 DEF IInv

LEMMA LongerFacts ==
  ASSUME NEW t \in NoTime .. Duration
  PROVE  /\ Longer(t) \in NoTime .. Duration
         /\ Longer(t) = NoTime <=> t = NoTime
         /\ \A d \in NoTime .. Duration : t <= d /\ d # NoTime => Longer(t) <= Longer(d)
  BY HealerAssumption DEF Longer, NoTime

LEMMA TickStep ==
  ASSUME IInv, Tick
  PROVE  IInv'
<1>1. go \in [Slots -> Goroutine] /\ downFor \in [Instances -> NoTime .. Duration]
  BY DEF IInv, TypeOK
<1>2. ASSUME NEW g \in Slots
      PROVE  /\ go'[g].at = go[g].at /\ go'[g].inst = go[g].inst /\ go'[g].closed = go[g].closed
             /\ go'[g].since = Longer(go[g].since) /\ go'[g] \in Goroutine
             /\ go[g].since \in NoTime .. Duration /\ go[g].inst \in Instances
  <2>1. go[g] \in Goroutine
    BY <1>1
  <2>2. go'[g] = [go[g] EXCEPT !.since = Longer(go[g].since)]
    BY DEF Tick
  <2>3. go[g].since \in NoTime .. Duration /\ go[g].inst \in Instances
    BY <2>1 DEF Goroutine
  <2>4. Longer(go[g].since) \in NoTime .. Duration
    BY <2>3, LongerFacts
  <2> QED
    BY <2>1, <2>2, <2>3, <2>4 DEF Goroutine
<1>3. \A i \in Instances : /\ downFor[i] \in NoTime .. Duration /\ downFor'[i] = Longer(downFor[i])
                          /\ downFor'[i] \in NoTime .. Duration
  BY <1>1, LongerFacts DEF Tick
<1>4. UNCHANGED <<active, loop, result, chosen, chans, whitelist, silenced, named, stop, heals,
                  met, stray>>
  BY DEF Tick, loopVars, shared, inputs
<1>5. Listed' = Listed
  BY <1>4 DEF Listed
<1>6. TypeOK'
  <2>1. go' \in [Slots -> Goroutine]
    BY <1>2 DEF Tick
  <2>2. downFor' \in [Instances -> NoTime .. Duration]
    BY <1>3 DEF Tick
  <2>3. \A i \in Listed : ~go'[chans[i]].closed
    BY <1>2 DEF IInv, TypeOK, Listed
  <2> QED
    BY <1>4, <1>5, <2>1, <2>2, <2>3 DEF IInv, TypeOK
<1>7. AtMostMaxInstances' /\ DistinctInv'
  BY <1>4, <1>5 DEF IInv, AtMostMaxInstances, DistinctInv
<1>8. UniqueInv' /\ CrashInv'
  BY <1>2, <1>4 DEF IInv, UniqueInv, CrashInv, Alive
<1>9. WatchInv'
  <2> SUFFICES ASSUME NEW g \in Slots, Minded(g)'
               PROVE  /\ chans'[go'[g].inst] = g
                      /\ downFor'[go'[g].inst] # NoTime /\ go'[g].since <= downFor'[go'[g].inst]
    BY DEF WatchInv
  <2>1. Minded(g)
    BY <1>2, <1>4 DEF Minded, Waits
  <2>2. chans[go[g].inst] = g /\ downFor[go[g].inst] # NoTime /\ go[g].since <= downFor[go[g].inst]
    BY <2>1 DEF IInv, WatchInv
  <2>3. Longer(go[g].since) <= Longer(downFor[go[g].inst]) /\ Longer(downFor[go[g].inst]) # NoTime
    BY <1>2, <1>3, <2>2, LongerFacts
  <2> QED
    BY <1>2, <1>3, <1>4, <2>2, <2>3
<1>10. HealInv'
  BY <1>2, <1>4 DEF IInv, HealInv, Waits, Works
<1>11. ChosenInv'
  <2>1. \A i \in Instances : downFor[i] # NoTime => downFor'[i] # NoTime
    BY <1>3, LongerFacts
  <2>2. Down(result)' = Down(result) /\ Down(result) \subseteq Instances
    BY <1>4 DEF Down
  <2>3. \A g \in Slots : Alive(g)' = Alive(g) /\ go'[g].inst = go[g].inst
    BY <1>2 DEF Alive
  <2> QED
    BY <1>4, <1>5, <2>1, <2>2, <2>3 DEF IInv, ChosenInv
<1> QED
  BY <1>6, <1>7, <1>8, <1>9, <1>10, <1>11 DEF IInv

\* What a step of one goroutine leaves as it is.
SlotFrame(g, v) ==
  /\ Alive(g) /\ v \in Goroutine /\ go' = [go EXCEPT ![g] = v]
  /\ v.at = "ended" \/ v.inst = go[g].inst
  /\ v.closed => go[g].closed
  /\ whitelist' \subseteq whitelist \union {go[g].inst} /\ Listed' \subseteq Listed
  /\ UNCHANGED <<loopVars, inputs, downFor, met, stray>>

LEMMA SlotFacts ==
  ASSUME IInv, NEW g \in Slots, NEW v, SlotFrame(g, v)
  PROVE  /\ go' \in [Slots -> Goroutine] /\ go'[g] = v
         /\ \A h \in Slots : h # g => go'[h] = go[h]
         /\ \A h \in Slots : go[h] \in Goroutine /\ go[h].inst \in Instances
         /\ UNCHANGED <<active, loop, result, chosen, silenced, named, stop, downFor, met, stray>>
         /\ loop # "crashed"
         /\ UniqueInv' /\ CrashInv' /\ ChosenInv'
<1>1. go \in [Slots -> Goroutine]
  BY DEF IInv, TypeOK
<1>2. go' \in [Slots -> Goroutine] /\ go'[g] = v /\ \A h \in Slots : h # g => go'[h] = go[h]
  BY <1>1 DEF SlotFrame
<1>3. UNCHANGED <<active, loop, result, chosen, silenced, named, stop, downFor, met, stray>>
  BY DEF SlotFrame, loopVars, inputs
<1>4. loop # "crashed"
  BY DEF IInv, CrashInv, SlotFrame
<1>5. \A h \in Slots : Alive(h)' => Alive(h) /\ go'[h].inst = go[h].inst
  BY <1>2 DEF SlotFrame, Alive
<1>6. UniqueInv'
  BY <1>3, <1>5 DEF IInv, UniqueInv
<1>7. \A h \in Slots : go[h] \in Goroutine /\ go[h].inst \in Instances
  BY <1>1 DEF Goroutine
<1>8. ChosenInv'
  <2>1. Down(result)' = Down(result)
    BY <1>3 DEF Down
  <2>2. Listed' \subseteq Listed /\ whitelist' \subseteq whitelist \union {go[g].inst} /\ Alive(g)
    BY DEF SlotFrame
  <2>3. \A i \in chosen \ met : i \notin whitelist' /\ \A h \in Slots : Alive(h)' => go'[h].inst # i
    BY <1>5, <2>2 DEF IInv, ChosenInv
  <2> QED
    BY <1>3, <2>1, <2>2, <2>3 DEF IInv, ChosenInv
<1> QED
  BY <1>2, <1>3, <1>4, <1>6, <1>7, <1>8 DEF CrashInv

\* A step of one goroutine that leaves the maps alone.
LEMMA SlotTypes ==
  ASSUME IInv, NEW g \in Slots, NEW v, SlotFrame(g, v), UNCHANGED shared,
         heals' \in [Instances -> 0 .. 2]
  PROVE  TypeOK' /\ AtMostMaxInstances' /\ DistinctInv'
<1>1. UNCHANGED <<chans, whitelist>> /\ Listed' = Listed
  BY DEF shared, Listed
<1>2. \A i \in Listed : ~go'[chans[i]].closed
  <2> TAKE i \in Listed
  <2>1. chans[i] \in Slots /\ ~go[chans[i]].closed
    BY DEF IInv, TypeOK, Listed
  <2> QED
    BY <2>1, SlotFacts DEF SlotFrame
<1>3. TypeOK'
  BY <1>1, <1>2, SlotFacts DEF IInv, TypeOK
<1> QED
  BY <1>1, <1>3 DEF IInv, AtMostMaxInstances, DistinctInv

LEMMA NameFoundStep ==
  ASSUME IInv, NEW g \in Slots, NameFound(g)
  PROVE  IInv'
<1> DEFINE v == [go[g] EXCEPT !.at = "wait"]
<1>1. go[g] \in Goroutine /\ v \in Goroutine /\ v.at = "wait"
      /\ v.inst = go[g].inst /\ v.closed = go[g].closed /\ v.since = go[g].since
  BY DEF IInv, TypeOK, Goroutine
<1>2. SlotFrame(g, v) /\ UNCHANGED <<chans, whitelist, heals>>
  BY <1>1 DEF NameFound, SlotFrame, Alive, observers, shared, Listed
<1> HIDE DEF v
<1>3. /\ TypeOK' /\ AtMostMaxInstances' /\ DistinctInv' /\ UniqueInv' /\ CrashInv'
      /\ ChosenInv' /\ UNCHANGED <<loop, downFor, stray>>
      /\ go'[g] = v /\ \A h \in Slots : h # g => go'[h] = go[h]
  BY <1>2, SlotFacts, SlotTypes DEF shared, IInv, TypeOK
<1>4. \A h \in Slots : /\ Waits(h)' = Waits(h) /\ Works(h)' = Works(h)
                       /\ go'[h].inst = go[h].inst /\ go'[h].since = go[h].since
                       /\ go'[h].closed = go[h].closed
  BY <1>1, <1>3 DEF NameFound, Waits, Works
<1>5. WatchInv'
  BY <1>2, <1>3, <1>4 DEF IInv, WatchInv, Minded
<1>6. HealInv'
  BY <1>2, <1>3, <1>4 DEF IInv, HealInv
<1> QED
  BY <1>3, <1>5, <1>6 DEF IInv

LEMMA QuitStep ==
  ASSUME IInv, NEW g \in Slots, Quit(g)
  PROVE  IInv'
<1>1. SlotFrame(g, Ended) /\ UNCHANGED <<chans, whitelist, heals>>
  BY EndedFacts DEF Quit, SlotFrame, Alive, observers, shared, Listed
<1>2. /\ TypeOK' /\ AtMostMaxInstances' /\ DistinctInv' /\ UniqueInv' /\ CrashInv'
      /\ ChosenInv' /\ UNCHANGED <<loop, downFor, stray>>
      /\ go'[g] = Ended /\ \A h \in Slots : h # g => go'[h] = go[h]
  BY <1>1, SlotFacts, SlotTypes DEF shared, IInv, TypeOK
<1>3. ~Waits(g)' /\ ~Works(g)
  BY <1>2, EndedFacts DEF Quit, Waits, Works
<1>4. \A h \in Slots : h # g => /\ Waits(h)' = Waits(h) /\ Works(h)' = Works(h)
                                /\ Minded(h)' = Minded(h)
  BY <1>2 DEF Waits, Works, Minded
<1>5. WatchInv'
  BY <1>1, <1>2, <1>3, <1>4 DEF IInv, WatchInv, Minded
<1>6. HealInv'
  BY <1>1, <1>2, <1>3, <1>4 DEF IInv, HealInv
<1> QED
  BY <1>2, <1>5, <1>6 DEF IInv

LEMMA HealedStep ==
  ASSUME IInv, NEW g \in Slots, Healed(g)
  PROVE  IInv'
<1> DEFINE v == [go[g] EXCEPT !.at = "mark"]
<1>1. go[g] \in Goroutine /\ v \in Goroutine /\ v.at = "mark"
      /\ v.inst = go[g].inst /\ v.closed = go[g].closed /\ v.since = go[g].since
  BY DEF IInv, TypeOK, Goroutine
<1>2. SlotFrame(g, v) /\ UNCHANGED <<chans, whitelist, heals>>
  BY <1>1 DEF Healed, SlotFrame, Alive, observers, shared, Listed
<1> HIDE DEF v
<1>3. /\ TypeOK' /\ AtMostMaxInstances' /\ DistinctInv' /\ UniqueInv' /\ CrashInv'
      /\ ChosenInv' /\ UNCHANGED <<loop, downFor, stray>>
      /\ go'[g] = v /\ \A h \in Slots : h # g => go'[h] = go[h]
  BY <1>2, SlotFacts, SlotTypes DEF shared, IInv, TypeOK
<1>4. \A h \in Slots : /\ Waits(h)' = Waits(h) /\ Works(h)' = Works(h)
                       /\ go'[h].inst = go[h].inst /\ go'[h].since = go[h].since
                       /\ go'[h].closed = go[h].closed
  BY <1>1, <1>3 DEF Healed, Waits, Works
<1>5. WatchInv'
  BY <1>2, <1>3, <1>4 DEF IInv, WatchInv, Minded
<1>6. HealInv'
  BY <1>2, <1>3, <1>4 DEF IInv, HealInv
<1> QED
  BY <1>3, <1>5, <1>6 DEF IInv

\* Nobody waits or works for the instance of a goroutine besides that goroutine.
LEMMA Alone ==
  ASSUME IInv, NEW g \in Slots, Alive(g), ~stray[go[g].inst]
  PROVE  \A h \in Slots : (Waits(h) \/ Works(h)) /\ go[h].inst = go[g].inst => h = g
  BY DEF IInv, UniqueInv, Waits, Works, Alive

LEMMA FireStep ==
  ASSUME IInv, NEW g \in Slots, Evaluate(g), ShouldFire(Since(g))
  PROVE  IInv'
<1> DEFINE i == go[g].inst
           v == [Ended EXCEPT !.at = "do", !.inst = i]
<1>1. go[g] \in Goroutine /\ i \in Instances /\ go[g].at = "wait" /\ Alive(g)
  BY DEF IInv, TypeOK, Goroutine, Evaluate, Alive
<1>2. v \in Goroutine /\ v.at = "do" /\ v.inst = i /\ v.closed = FALSE
  BY <1>1, BegunFacts
<1>3. SlotFrame(g, v) /\ UNCHANGED <<chans, whitelist>>
      /\ heals' = IF downFor[i] # NoTime /\ heals[i] < 2
                  THEN [heals EXCEPT ![i] = heals[i] + 1] ELSE heals
  <2>1. go' = [go EXCEPT ![g] = v]
    BY DEF Evaluate
  <2> HIDE DEF v
  <2> QED
    BY <1>1, <1>2, <2>1 DEF Evaluate, SlotFrame, shared, Listed
<1> HIDE DEF v
<1>4. heals \in [Instances -> 0 .. 2]
  BY DEF IInv, TypeOK
<1>5. /\ heals' \in [Instances -> 0 .. 2] /\ heals'[i] \in {heals[i], heals[i] + 1}
      /\ \A j \in Instances : j # i => heals'[j] = heals[j]
  BY <1>1, <1>3, <1>4
<1>6. /\ TypeOK' /\ AtMostMaxInstances' /\ DistinctInv' /\ UniqueInv' /\ CrashInv'
      /\ ChosenInv' /\ UNCHANGED <<loop, downFor, stray>>
      /\ go'[g] = v /\ \A h \in Slots : h # g => go'[h] = go[h]
  BY <1>3, <1>5, SlotFacts, SlotTypes DEF shared, IInv, TypeOK
<1>7. Waits(g) /\ ~Works(g) /\ ~Waits(g)' /\ Works(g)' /\ go'[g].inst = i
  BY <1>1, <1>2, <1>6 DEF Waits, Works
<1>8. \A h \in Slots : h # g => /\ Waits(h)' = Waits(h) /\ Works(h)' = Works(h)
                                /\ Minded(h)' = Minded(h)
  BY <1>6 DEF Waits, Works, Minded
<1>9. WatchInv'
  BY <1>3, <1>6, <1>7, <1>8 DEF IInv, WatchInv, Minded
<1>10. HealInv'
  <2> SUFFICES ASSUME NEW j \in Instances, ~stray[j]
               PROVE  /\ heals'[j] < 2
                      /\ j \in whitelist => \A h \in Slots : Waits(h)' => go'[h].inst # j
                      /\ heals'[j] > 0 /\ loop # "crashed" =>
                           j \in whitelist \/ \E h \in Slots : Works(h)' /\ go'[h].inst = j
    BY <1>3, <1>6 DEF HealInv
  <2>1. /\ heals[j] < 2
        /\ j \in whitelist => \A h \in Slots : Waits(h) => go[h].inst # j
        /\ heals[j] > 0 /\ loop # "crashed" =>
             j \in whitelist \/ \E h \in Slots : Works(h) /\ go[h].inst = j
    BY DEF IInv, HealInv
  <2>2. j \in whitelist => \A h \in Slots : Waits(h)' => go'[h].inst # j
    BY <2>1, <1>6, <1>7, <1>8
  <2>3. CASE j = i
    <3>1. loop # "crashed"
      BY <1>1 DEF IInv, CrashInv
    <3>2. ~(heals[i] > 0)
      BY <1>1, <1>7, <2>1, <2>3, <3>1, Alone
    <3>3. heals'[i] < 2
      BY <1>1, <1>4, <1>5, <3>2
    <3> QED
      BY <1>7, <2>2, <2>3, <3>3
  <2>4. CASE j # i
    BY <1>5, <1>6, <1>7, <1>8, <2>1, <2>2, <2>4
  <2> QED
    BY <2>3, <2>4
<1> QED
  BY <1>6, <1>9, <1>10 DEF IInv

LEMMA WaitOnStep ==
  ASSUME IInv, NEW g \in Slots, Evaluate(g), ~ShouldFire(Since(g))
  PROVE  IInv'
<1> DEFINE v == [go[g] EXCEPT !.since = Since(g)]
<1>1. go[g] \in Goroutine /\ go[g].inst \in Instances /\ go[g].at = "wait" /\ Alive(g)
  BY DEF IInv, TypeOK, Goroutine, Evaluate, Alive
<1>2. Since(g) \in 0 .. Duration /\ (go[g].since = NoTime \/ Since(g) = go[g].since)
      /\ (go[g].since = NoTime => Since(g) = 0)
  BY <1>1, HealerAssumption DEF Goroutine, Since, NoTime
<1>3. v \in Goroutine /\ v.at = "wait" /\ v.inst = go[g].inst /\ v.closed = go[g].closed
      /\ v.since = Since(g)
  BY <1>1, <1>2, HealerAssumption DEF Goroutine, NoTime
<1>4. go' = [go EXCEPT ![g] = v] /\ UNCHANGED <<chans, whitelist, heals>>
  BY DEF Evaluate, shared
<1> HIDE DEF v
<1>5. SlotFrame(g, v)
  BY <1>1, <1>3, <1>4 DEF Evaluate, SlotFrame, Listed
<1>6. /\ TypeOK' /\ AtMostMaxInstances' /\ DistinctInv' /\ UniqueInv' /\ CrashInv'
      /\ ChosenInv' /\ UNCHANGED <<loop, downFor, stray>>
      /\ go'[g] = v /\ \A h \in Slots : h # g => go'[h] = go[h]
  BY <1>4, <1>5, SlotFacts, SlotTypes DEF shared, IInv, TypeOK
<1>7. \A h \in Slots : /\ Waits(h)' = Waits(h) /\ Works(h)' = Works(h)
                       /\ Minded(h)' = Minded(h) /\ go'[h].inst = go[h].inst
  BY <1>1, <1>3, <1>6 DEF Waits, Works, Minded
<1>8. WatchInv'
  <2> SUFFICES ASSUME NEW h \in Slots, Minded(h)
               PROVE  /\ chans[go[h].inst] = h
                      /\ downFor[go[h].inst] # NoTime /\ go'[h].since <= downFor[go[h].inst]
    BY <1>4, <1>6, <1>7 DEF WatchInv
  <2>1. /\ chans[go[h].inst] = h
        /\ downFor[go[h].inst] # NoTime /\ go[h].since <= downFor[go[h].inst]
    BY DEF IInv, WatchInv
  <2>2. downFor[go[h].inst] \in NoTime .. Duration
    BY DEF IInv, TypeOK, Goroutine
  <2>3. CASE h = g
    BY <1>2, <1>3, <1>6, <2>1, <2>2, <2>3, HealerAssumption DEF NoTime
  <2> QED
    BY <1>6, <2>1, <2>3
<1>9. HealInv'
  BY <1>4, <1>6, <1>7 DEF IInv, HealInv
<1> QED
  BY <1>6, <1>8, <1>9 DEF IInv

LEMMA MarkStep ==
  ASSUME IInv, NEW g \in Slots, Mark(g)
  PROVE  IInv'
<1> DEFINE v == [go[g] EXCEPT !.at = "unlist"]
           i == go[g].inst
<1>1. go[g] \in Goroutine /\ i \in Instances /\ go[g].at = "mark" /\ Alive(g)
  BY DEF IInv, TypeOK, Goroutine, Mark, Alive
<1>2. v \in Goroutine /\ v.at = "unlist" /\ v.inst = i /\ v.closed = go[g].closed
  BY <1>1 DEF Goroutine
<1>3. go' = [go EXCEPT ![g] = v] /\ UNCHANGED <<chans, heals>>
      /\ whitelist' = whitelist \union {i}
  BY DEF Mark, observers
<1> HIDE DEF v
<1>4. SlotFrame(g, v)
  BY <1>1, <1>2, <1>3 DEF Mark, SlotFrame, observers, Listed
<1>5. /\ UNCHANGED <<active, loop, result, chosen, silenced, named, stop, downFor, met, stray>>
      /\ ChosenInv' /\ UniqueInv' /\ CrashInv' /\ go' \in [Slots -> Goroutine]
      /\ go'[g] = v /\ \A h \in Slots : h # g => go'[h] = go[h]
  BY <1>4, SlotFacts
<1>6. Listed' = Listed
  BY <1>3 DEF Listed
<1>7. \A j \in Listed : ~go'[chans[j]].closed
  BY <1>2, <1>5 DEF IInv, TypeOK, Listed
<1>8. TypeOK'
  BY <1>1, <1>3, <1>5, <1>6, <1>7 DEF IInv, TypeOK
<1>9. AtMostMaxInstances' /\ DistinctInv'
  BY <1>3, <1>6 DEF IInv, AtMostMaxInstances, DistinctInv
<1>10. ~Waits(g) /\ Works(g) /\ ~Waits(g)' /\ ~Works(g)'
  BY <1>1, <1>2, <1>5 DEF Waits, Works
<1>11. \A h \in Slots : h # g => /\ Waits(h)' = Waits(h) /\ Works(h)' = Works(h)
                                 /\ Minded(h)' = Minded(h)
  BY <1>5 DEF Waits, Works, Minded
<1>12. WatchInv'
  BY <1>3, <1>5, <1>10, <1>11 DEF IInv, WatchInv, Minded
<1>13. HealInv'
  <2> SUFFICES ASSUME NEW j \in Instances, ~stray[j]
               PROVE  /\ heals[j] < 2
                      /\ j \in whitelist' => \A h \in Slots : Waits(h)' => go'[h].inst # j
                      /\ heals[j] > 0 /\ loop # "crashed" =>
                           j \in whitelist' \/ \E h \in Slots : Works(h)' /\ go'[h].inst = j
    BY <1>3, <1>5 DEF HealInv
  <2>1. /\ heals[j] < 2
        /\ j \in whitelist => \A h \in Slots : Waits(h) => go[h].inst # j
        /\ heals[j] > 0 /\ loop # "crashed" =>
             j \in whitelist \/ \E h \in Slots : Works(h) /\ go[h].inst = j
    BY DEF IInv, HealInv
  <2>2. CASE j = i
    BY <1>1, <1>3, <1>5, <1>10, <1>11, <2>1, <2>2, Alone
  <2>3. CASE j # i
    BY <1>3, <1>5, <1>10, <1>11, <2>1, <2>3
  <2> QED
    BY <2>2, <2>3
<1> QED
  BY <1>5, <1>8, <1>9, <1>12, <1>13 DEF IInv

LEMMA UnlistStep ==
  ASSUME IInv, NEW g \in Slots, Unlist(g)
  PROVE  IInv'
<1> DEFINE i == go[g].inst
<1>1. go[g] \in Goroutine /\ i \in Instances /\ go[g].at = "unlist" /\ Alive(g)
  BY DEF IInv, TypeOK, Goroutine, Unlist, Alive
<1>2. go' = [go EXCEPT ![g] = Ended] /\ UNCHANGED <<whitelist, heals>>
      /\ chans' = [chans EXCEPT ![i] = None]
  BY DEF Unlist, observers
<1>3. SlotFrame(g, Ended)
  <2>1. chans \in [Instances -> Slots \union {None}]
    BY DEF IInv, TypeOK
  <2>2. \A j \in Instances : chans'[j] # None => chans[j] # None
    BY <1>1, <1>2, <2>1
  <2>3. Listed' \subseteq Listed
    BY <2>2 DEF Listed
  <2> QED
    BY <1>1, <1>2, <2>3, EndedFacts DEF Unlist, SlotFrame, observers
<1>4. /\ UNCHANGED <<active, loop, result, chosen, silenced, named, stop, downFor, met, stray>>
      /\ ChosenInv' /\ UniqueInv' /\ CrashInv' /\ go' \in [Slots -> Goroutine]
      /\ go'[g] = Ended /\ \A h \in Slots : h # g => go'[h] = go[h]
  BY <1>3, SlotFacts
<1>5. chans \in [Instances -> Slots \union {None}]
  BY DEF IInv, TypeOK
<1>6. /\ chans' \in [Instances -> Slots \union {None}] /\ chans'[i] = None
      /\ \A j \in Instances : j # i => chans'[j] = chans[j]
  BY <1>1, <1>2, <1>5
<1>7. Listed' \subseteq Listed /\ i \notin Listed'
      /\ \A j \in Listed' : chans'[j] = chans[j] /\ chans[j] \in Slots
  BY <1>5, <1>6 DEF Listed
<1>8. \A j \in Listed' : ~go'[chans'[j]].closed
  <2> TAKE j \in Listed'
  <2>1. ~go[chans[j]].closed
    BY <1>7 DEF IInv, TypeOK
  <2> QED
    BY <1>4, <1>7, <2>1, EndedFacts
<1>9. TypeOK'
  BY <1>2, <1>4, <1>6, <1>8 DEF IInv, TypeOK
<1>10. AtMostMaxInstances'
  <2>1. IsFiniteSet(Listed)
    BY HealerAssumption, FS_Subset DEF Listed
  <2>2. Cardinality(Listed') <= Cardinality(Listed)
        /\ Cardinality(Listed) \in Nat /\ Cardinality(Listed') \in Nat
    BY <1>7, <2>1, FS_Subset, FS_CardinalityType
  <2> QED
    BY <2>2, HealerAssumption DEF IInv, AtMostMaxInstances
<1>11. DistinctInv'
  BY <1>7 DEF IInv, DistinctInv
<1>12. ~Waits(g) /\ ~Works(g) /\ ~Waits(g)' /\ ~Works(g)'
  BY <1>1, <1>4, EndedFacts DEF Waits, Works
<1>13. \A h \in Slots : h # g => /\ Waits(h)' = Waits(h) /\ Works(h)' = Works(h)
                                 /\ Minded(h)' = Minded(h)
  BY <1>4 DEF Waits, Works, Minded
<1>14. WatchInv'
  <2> SUFFICES ASSUME NEW h \in Slots, h # g, Minded(h)
               PROVE  /\ chans'[go[h].inst] = h
                      /\ downFor[go[h].inst] # NoTime /\ go[h].since <= downFor[go[h].inst]
    BY <1>4, <1>12, <1>13 DEF WatchInv, Minded
  <2>1. go[h].inst # i
    BY <1>1, Alone DEF Minded
  <2>2. go[h].inst \in Instances
    BY DEF IInv, TypeOK, Goroutine
  <2> QED
    BY <1>6, <2>1, <2>2 DEF IInv, WatchInv
<1>15. HealInv'
  BY <1>2, <1>4, <1>12, <1>13 DEF IInv, HealInv
<1> QED
  BY <1>4, <1>9, <1>10, <1>11, <1>14, <1>15 DEF IInv

LEMMA MapRaceStep ==
  ASSUME IInv, MapRace
  PROVE  IInv'
<1>1. UNCHANGED <<active, result, chosen, chans, whitelist, silenced, named, stop, downFor, heals,
                  met, stray>>
      /\ loop' = "crashed" /\ Listed' = Listed
  BY DEF MapRace, shared, inputs, observers, Listed
<1>2. \A g \in Slots : go'[g] = Ended /\ ~Alive(g)' /\ ~Waits(g)'
  BY EndedFacts DEF MapRace, Alive, Waits
<1>3. go' \in [Slots -> Goroutine]
  BY EndedFacts DEF MapRace
<1>4. \A i \in Listed : ~go'[chans[i]].closed
  BY <1>2, EndedFacts DEF IInv, TypeOK, Listed
<1>5. TypeOK'
  BY <1>1, <1>3, <1>4 DEF IInv, TypeOK
<1>6. AtMostMaxInstances' /\ DistinctInv'
  BY <1>1 DEF IInv, AtMostMaxInstances, DistinctInv
<1>7. UniqueInv' /\ WatchInv' /\ CrashInv'
  BY <1>2 DEF UniqueInv, WatchInv, Minded, CrashInv
<1>8. HealInv' /\ ChosenInv'
  BY <1>1, <1>2 DEF IInv, HealInv, ChosenInv, Choosing
<1> QED
  BY <1>5, <1>6, <1>7, <1>8 DEF IInv

LEMMA Injections ==
  ASSUME NEW S, NEW T, IsFiniteSet(S), IsFiniteSet(T), Cardinality(S) <= Cardinality(T)
  PROVE  \E f \in [S -> T] : \A x, y \in S : x # y => f[x] # f[y]
<1>1. /\ Cardinality(S) \in Nat /\ ExistsBijection(1 .. Cardinality(S), S)
      /\ Cardinality(T) \in Nat /\ ExistsBijection(1 .. Cardinality(T), T)
  BY FS_CardinalityType
<1>2. ExistsBijection(S, 1 .. Cardinality(S))
  BY <1>1, Fun_ExistsBijSymmetric
<1>3. \A U, V : ExistsBijection(U, V) => ExistsInjection(U, V)
  BY Fun_ExistsBij, Fun_ExistsInj DEF Bijection
<1>4. ExistsInjection(1 .. Cardinality(S), 1 .. Cardinality(T))
  BY <1>1, Fun_NatInjLeq
<1>5. ExistsInjection(S, 1 .. Cardinality(T))
  BY <1>2, <1>3, <1>4, Fun_ExistsInjTransitive
<1>6. ExistsInjection(S, T)
  BY <1>1, <1>3, <1>5, Fun_ExistsInjTransitive
<1>7. PICK f \in Injection(S, T) : TRUE
  BY <1>6, Fun_ExistsInj
<1> QED
  BY <1>7, Fun_InjectionProperties

-----------------------------------------------------------------------------
(* The tick.                                                               *)

\* What telling goroutines to end does.
LEMMA TellFacts ==
  ASSUME IInv, NEW s \in SUBSET Instances, Tell(s)
  PROVE  /\ go' \in [Slots -> Goroutine] /\ chans' \in [Instances -> Slots \union {None}]
         /\ \A g \in Slots : /\ go'[g].at = go[g].at /\ go'[g].inst = go[g].inst
                             /\ go'[g].since = go[g].since
                             /\ Alive(g)' = Alive(g) /\ Waits(g)' = Waits(g)
                             /\ Works(g)' = Works(g)
                             /\ ~go'[g].closed =>
                                  ~go[g].closed /\ (Waits(g) => \A i \in s : chans[i] # g)
         /\ Listed' = Listed \ s /\ \A i \in Listed' : chans'[i] = chans[i]
         /\ \A i \in Listed' : ~go'[chans'[i]].closed
         /\ AtMostMaxInstances' /\ DistinctInv'
<1>1. go \in [Slots -> Goroutine] /\ chans \in [Instances -> Slots \union {None}]
  BY DEF IInv, TypeOK
<1>2. ASSUME NEW g \in Slots
      PROVE  LET c == go[g].closed \/ (Waits(g) /\ \E i \in s : chans[i] = g)
             IN  /\ go'[g] \in Goroutine /\ go'[g].at = go[g].at /\ go'[g].inst = go[g].inst
                 /\ go'[g].since = go[g].since /\ go'[g].closed = c
  <2> DEFINE c == go[g].closed \/ (Waits(g) /\ \E i \in s : chans[i] = g)
  <2>1. go[g] \in Goroutine /\ c \in BOOLEAN
    BY <1>1 DEF Goroutine
  <2>2. go'[g] = [go[g] EXCEPT !.closed = c]
    BY Zenon DEF Tell, Waits
  <2> HIDE DEF c
  <2>3. /\ go'[g] \in Goroutine /\ go'[g].at = go[g].at /\ go'[g].inst = go[g].inst
        /\ go'[g].since = go[g].since /\ go'[g].closed = c
    BY <2>1, <2>2 DEF Goroutine
  <2> QED
    BY <2>3 DEF c
<1>3. go' \in [Slots -> Goroutine]
  BY <1>2 DEF Tell
<1>4. chans' = [i \in Instances |-> IF i \in s THEN None ELSE chans[i]]
  BY DEF Tell
<1>5. chans' \in [Instances -> Slots \union {None}]
      /\ Listed' = Listed \ s /\ Listed' \subseteq Listed /\ \A i \in Listed' : chans'[i] = chans[i]
  BY <1>1, <1>4 DEF Listed
<1>6. ASSUME NEW i \in Listed' PROVE ~go'[chans'[i]].closed
  <2>1. i \in Listed /\ chans'[i] = chans[i] /\ chans[i] \in Slots /\ i \notin s
    BY <1>1, <1>5, <1>6 DEF Listed
  <2>2. ~go[chans[i]].closed
    BY <2>1 DEF IInv, TypeOK
  <2>3. \A j \in s : chans[j] # chans[i]
    <3> SUFFICES ASSUME NEW j \in s, chans[j] = chans[i] PROVE FALSE
      OBVIOUS
    <3>1. j \in Listed
      BY <2>1 DEF Listed
    <3> QED
      BY <2>1, <3>1 DEF IInv, DistinctInv
  <2> DEFINE g == chans[i]
  <2>4. go'[g].closed = (go[g].closed \/ (Waits(g) /\ \E j \in s : chans[j] = g))
    BY <1>2, <2>1
  <2> QED
    BY <2>1, <2>2, <2>3, <2>4
<1>7. AtMostMaxInstances'
  <2>1. IsFiniteSet(Listed)
    BY HealerAssumption, FS_Subset DEF Listed
  <2>2. Cardinality(Listed') <= Cardinality(Listed)
        /\ Cardinality(Listed) \in Nat /\ Cardinality(Listed') \in Nat
    BY <1>5, <2>1, FS_Subset, FS_CardinalityType
  <2> QED
    BY <2>2, HealerAssumption DEF IInv, AtMostMaxInstances
<1>8. DistinctInv'
  BY <1>5 DEF IInv, DistinctInv
<1>9. ASSUME NEW g \in Slots
      PROVE  /\ Alive(g)' = Alive(g) /\ Waits(g)' = Waits(g) /\ Works(g)' = Works(g)
             /\ ~go'[g].closed => ~go[g].closed /\ (Waits(g) => \A i \in s : chans[i] # g)
  BY <1>2 DEF Alive, Waits, Works
<1> QED
  BY <1>2, <1>3, <1>5, <1>6, <1>7, <1>8, <1>9

LEMMA QueryStep ==
  ASSUME IInv, NEW r \in Results, Query(r)
  PROVE  IInv'
<1>1. UpAgain(r) \in SUBSET Instances /\ Tell(UpAgain(r))
  BY DEF Query, UpAgain
<1>2. /\ loop = "select" /\ loop' \in {"select", "filter", "closing"} /\ result' = r
      /\ loop' = "filter" => Down(r) # {}
      /\ whitelist' = whitelist \intersect Down(r)
      /\ UNCHANGED <<active, chosen, silenced, named, stop, met, stray>>
  BY DEF Query, Turn, inputs
<1>3. /\ downFor' = [i \in Instances |-> IF i \notin Down(r) THEN NoTime
                                         ELSE IF downFor[i] = NoTime THEN 0 ELSE downFor[i]]
      /\ heals' = [i \in Instances |-> IF i \in Down(r) THEN heals[i] ELSE 0]
  BY DEF Query
<1>4. /\ downFor \in [Instances -> NoTime .. Duration] /\ heals \in [Instances -> 0 .. 2]
      /\ go \in [Slots -> Goroutine]
  BY DEF IInv, TypeOK
<1>5. downFor' \in [Instances -> NoTime .. Duration] /\ heals' \in [Instances -> 0 .. 2]
  <2>1. 0 \in NoTime .. Duration /\ NoTime \in NoTime .. Duration
    BY HealerAssumption DEF NoTime
  <2> QED
    BY <1>3, <1>4, <2>1
<1>6. \A i \in Down(r) : i \in Instances /\ i \notin UpAgain(r)
  BY DEF Down, UpAgain
<1>7. TypeOK'
  BY <1>1, <1>2, <1>5, TellFacts DEF IInv, TypeOK
<1>8. UniqueInv'
  BY <1>1, <1>2, TellFacts DEF IInv, UniqueInv
<1>9. WatchInv'
  <2> SUFFICES ASSUME NEW g \in Slots, Minded(g)'
               PROVE  /\ chans'[go'[g].inst] = g
                      /\ downFor'[go'[g].inst] # NoTime /\ go'[g].since <= downFor'[go'[g].inst]
    BY DEF WatchInv
  <2> DEFINE i == go[g].inst
  <2>1. /\ i \in Instances /\ go'[g].inst = i /\ go'[g].since = go[g].since
        /\ Waits(g) /\ ~go[g].closed /\ ~stray[i] /\ \A j \in UpAgain(r) : chans[j] # g
    BY <1>1, <1>2, <1>4, TellFacts DEF Minded, Goroutine
  <2>2. chans[i] = g /\ downFor[i] # NoTime /\ go[g].since <= downFor[i]
    BY <2>1 DEF IInv, WatchInv, Minded
  <2>3. i \in Listed /\ i \notin UpAgain(r) /\ i \in Down(r)
    BY <2>1, <2>2, SlotsAssumption DEF Listed, UpAgain
  <2>4. chans'[i] = g
    BY <1>1, <2>2, <2>3, TellFacts
  <2> QED
    BY <1>3, <2>1, <2>2, <2>3, <2>4
<1>10. HealInv'
  <2> SUFFICES ASSUME NEW i \in Instances, ~stray[i]
               PROVE  /\ heals'[i] < 2
                      /\ i \in whitelist' => \A g \in Slots : Waits(g)' => go'[g].inst # i
                      /\ heals'[i] > 0 =>
                           i \in whitelist' \/ \E g \in Slots : Works(g)' /\ go'[g].inst = i
    BY <1>2 DEF HealInv
  <2>1. /\ heals[i] < 2
        /\ i \in whitelist => \A g \in Slots : Waits(g) => go[g].inst # i
        /\ heals[i] > 0 => i \in whitelist \/ \E g \in Slots : Works(g) /\ go[g].inst = i
    BY <1>2 DEF IInv, HealInv
  <2> QED
    BY <1>1, <1>2, <1>3, <2>1, TellFacts
<1>11. ChosenInv'
  <2>1. loop' = "filter" => \A i \in Down(r) : downFor'[i] # NoTime
    BY <1>3, <1>6 DEF NoTime
  <2>2. \A i \in chosen \ met : i \notin whitelist' /\ \A g \in Slots : Alive(g)' => go'[g].inst # i
    BY <1>1, <1>2, TellFacts DEF IInv, ChosenInv
  <2>3. Down(result)' = Down(r)
    BY <1>2 DEF Down
  <2> QED
    BY <1>2, <2>1, <2>2, <2>3 DEF ChosenInv, Choosing
<1> QED
  BY <1>1, <1>2, <1>7, <1>8, <1>9, <1>10, <1>11, TellFacts DEF IInv, CrashInv

LEMMA AskWhitelistStep ==
  ASSUME IInv, AskWhitelist
  PROVE  IInv'
<1>1. /\ UNCHANGED <<active, result, shared, inputs, go, downFor, heals, stray>>
      /\ loop = "filter" /\ loop' = "list" /\ chosen' = ToHeal
      /\ met' = {go[g].inst : g \in {h \in Slots : Alive(h)}}
  BY DEF AskWhitelist
<1>2. ToHeal \subseteq Down(result) /\ ToHeal \in SUBSET Instances /\ ToHeal \intersect whitelist = {}
  BY DEF ToHeal, Down
<1>3. met' \in SUBSET Instances
  BY <1>1 DEF IInv, TypeOK, Goroutine
<1>4. Listed' = Listed /\ Down(result)' = Down(result) /\ \A g \in Slots : Alive(g)' = Alive(g)
  BY <1>1 DEF shared, Listed, Down, Alive
<1>5. TypeOK'
  BY <1>1, <1>2, <1>3, <1>4 DEF IInv, TypeOK, shared, inputs
<1>6. ChosenInv'
  BY <1>1, <1>2, <1>4 DEF IInv, ChosenInv, Choosing, shared
<1> QED
  BY <1>1, <1>5, <1>6, FrameStep DEF IInv

LEMMA AskListStep ==
  ASSUME IInv, AskList
  PROVE  IInv'
<1>1. /\ UNCHANGED <<active, result, shared, inputs, go, observers>>
      /\ loop = "list" /\ loop' = "start" /\ chosen' = chosen \ Listed
  BY DEF AskList
<1>2. Listed' = Listed /\ Down(result)' = Down(result) /\ \A g \in Slots : Alive(g)' = Alive(g)
  BY <1>1 DEF shared, Listed, Down, Alive
<1>3. TypeOK'
  BY <1>1, <1>2 DEF IInv, TypeOK, shared, inputs, observers
<1>4. ChosenInv'
  BY <1>1, <1>2 DEF IInv, ChosenInv, Choosing, shared, observers
<1> QED
  BY <1>1, <1>3, <1>4, FrameStep DEF IInv, observers

\* With too many to heal every goroutine that is listed is told to end.
LEMMA TooManyStep ==
  ASSUME IInv, Start, TooMany
  PROVE  IInv'
<1>1. /\ Tell(Instances) /\ Instances \in SUBSET Instances
      /\ loop = "start" /\ loop' \in {"select", "closing"} /\ chosen' = {} /\ met' = {}
      /\ UNCHANGED <<active, result, whitelist, silenced, named, stop, downFor, heals, stray>>
  BY DEF Start, Turn, inputs
<1>2. go \in [Slots -> Goroutine]
  BY DEF IInv, TypeOK
<1>3. TypeOK'
  BY <1>1, TellFacts DEF IInv, TypeOK
<1>4. UniqueInv'
  BY <1>1, TellFacts DEF IInv, UniqueInv
<1>5. WatchInv'
  <2> SUFFICES ASSUME NEW g \in Slots, Minded(g)' PROVE FALSE
    BY DEF WatchInv
  <2>1. /\ go[g].inst \in Instances /\ Waits(g) /\ ~go[g].closed /\ ~stray[go[g].inst]
        /\ \A j \in Instances : chans[j] # g
    BY <1>1, <1>2, TellFacts DEF Minded, Goroutine
  <2> QED
    BY <2>1 DEF IInv, WatchInv, Minded
<1>6. HealInv'
  BY <1>1, TellFacts DEF IInv, HealInv
<1>7. ChosenInv' /\ CrashInv'
  BY <1>1 DEF ChosenInv, Choosing, CrashInv
<1> QED
  BY <1>1, <1>3, <1>4, <1>5, <1>6, <1>7, TellFacts DEF IInv

\* What Start calls started.
Started == CHOOSE f \in [chosen -> Free] : \A i, j \in chosen : i # j => f[i] # f[j]
New(g) == \E i \in chosen : Started[i] = g
Begun(i) == [Ended EXCEPT !.at = "name", !.inst = i]

LEMMA StartedFacts ==
  ASSUME IInv, Cardinality(chosen) <= Cardinality(Free)
  PROVE  /\ Started \in [chosen -> Free] /\ chosen \in SUBSET Instances
         /\ \A i, j \in chosen : Started[i] = Started[j] => i = j
<1>1. IsFiniteSet(chosen) /\ chosen \in SUBSET Instances
  BY HealerAssumption, FS_Subset DEF IInv, TypeOK
<1>2. IsFiniteSet(Free)
  <2>1. Free \in SUBSET Slots
    BY DEF Free
  <2> QED
    BY <2>1, SlotsAssumption, FS_Subset
<1>3. \E f \in [chosen -> Free] : \A i, j \in chosen : i # j => f[i] # f[j]
  BY <1>1, <1>2, Injections
<1> QED
  BY <1>1, <1>3 DEF Started

\* What a start does to the list, the goroutines and the observers.
LEMMA StartFacts ==
  ASSUME IInv, Start, ~TooMany
  PROVE  /\ Started \in [chosen -> Free] /\ chosen \in SUBSET Instances
         /\ \A i, j \in chosen : Started[i] = Started[j] => i = j
         /\ loop = "start" /\ loop' \in {"select", "closing"} /\ chosen' = {} /\ met' = {}
         /\ UNCHANGED <<active, result, whitelist, silenced, named, stop, downFor, heals>>
         /\ chans' = [i \in Instances |-> IF i \in chosen THEN Started[i] ELSE chans[i]]
         /\ go' = [g \in Slots |->
              IF New(g) THEN Begun(CHOOSE i \in chosen : Started[i] = g) ELSE go[g]]
         /\ stray' = [i \in Instances |-> stray[i] \/ i \in chosen \intersect met]
<1>1. Cardinality(chosen) <= Cardinality(Free)
  BY DEF Start
<1>2. /\ loop = "start" /\ loop' \in {"select", "closing"} /\ chosen' = {} /\ met' = {}
      /\ UNCHANGED <<active, result, whitelist, silenced, named, stop, downFor, heals>>
  BY DEF Start, Turn, inputs
<1>3. /\ chans' = [i \in Instances |-> IF i \in chosen THEN Started[i] ELSE chans[i]]
      /\ stray' = [i \in Instances |-> stray[i] \/ i \in chosen \intersect met]
  BY Zenon DEF Start, Started
<1>4. go' = [g \in Slots |->
              IF New(g) THEN Begun(CHOOSE i \in chosen : Started[i] = g) ELSE go[g]]
  BY Zenon DEF Start, Started, New, Begun
<1> QED
  BY <1>1, <1>2, <1>3, <1>4, StartedFacts

\* A goroutine that is started was free; the others go on.
LEMMA NewFacts ==
  ASSUME IInv, Start, ~TooMany, NEW g \in Slots, New(g)
  PROVE  /\ ~Alive(g) /\ \A i \in Listed : chans[i] # g
         /\ go'[g] \in Goroutine /\ go'[g].at = "name"
         /\ go'[g].closed = FALSE /\ go'[g].since = NoTime
         /\ go'[g].inst \in chosen /\ Started[go'[g].inst] = g
<1> DEFINE i == CHOOSE i \in chosen : Started[i] = g
<1>1. i \in chosen /\ Started[i] = g
  BY DEF New
<1>2. g \in Free /\ i \in Instances
  <2>1. Started \in [chosen -> Free] /\ chosen \in SUBSET Instances
    BY StartFacts
  <2> HIDE DEF i
  <2> QED
    BY <1>1, <2>1
<1>3. go'[g] = Begun(i)
  BY StartFacts
<1> HIDE DEF i
<1>4. /\ go'[g] \in Goroutine /\ go'[g].at = "name" /\ go'[g].inst = i
      /\ go'[g].closed = FALSE /\ go'[g].since = NoTime
  <2>1. "name" \in {"name", "do"}
    OBVIOUS
  <2>2. /\ Begun(i) \in Goroutine /\ Begun(i).at = "name" /\ Begun(i).inst = i
        /\ Begun(i).closed = FALSE /\ Begun(i).since = NoTime
    BY <1>2, <2>1, BegunFacts, Zenon DEF Begun
  <2> QED
    BY <1>3, <2>2
<1> QED
  BY <1>1, <1>2, <1>4 DEF Free

LEMMA OldFacts ==
  ASSUME IInv, Start, ~TooMany, NEW g \in Slots, ~New(g)
  PROVE  go'[g] = go[g] /\ go[g] \in Goroutine
  BY StartFacts DEF IInv, TypeOK

LEMMA StartLists ==
  ASSUME IInv, Start, ~TooMany
  PROVE  /\ chans' \in [Instances -> Slots \union {None}]
         /\ Listed' = chosen \union Listed /\ chosen \intersect Listed = {}
         /\ \A i \in chosen : chans'[i] = Started[i] /\ New(chans'[i]) /\ chans'[i] \in Slots
         /\ \A i \in Instances \ chosen : chans'[i] = chans[i]
         /\ \A i \in Listed : ~New(chans[i]) /\ chans[i] \in Slots
<1>1. chans \in [Instances -> Slots \union {None}]
  BY DEF IInv, TypeOK
<1>2. chosen \subseteq Instances /\ Listed \subseteq Instances /\ chosen \intersect Listed = {}
  BY StartFacts DEF IInv, ChosenInv, Listed
<1>3. \A i \in Listed : chans[i] \in Slots /\ chans[i] # None
  BY <1>1 DEF Listed
<1>4. ASSUME NEW i \in chosen
      PROVE  /\ chans'[i] = Started[i] /\ New(chans'[i])
             /\ chans'[i] \in Slots /\ chans'[i] # None
  <2>1. chans'[i] = Started[i]
    BY <1>2, StartFacts
  <2>2. Started[i] \in Free
    BY StartFacts
  <2> QED
    BY <2>1, <2>2, SlotsAssumption DEF New, Free
<1>5. \A i \in Instances \ chosen : chans'[i] = chans[i]
  BY StartFacts
<1>6. ASSUME NEW i \in Listed, New(chans[i]) PROVE FALSE
  <2>1. chans[i] \in Slots
    BY <1>3
  <2>2. \A j \in Listed : chans[j] # chans[i]
    BY <1>6, <2>1, NewFacts
  <2> QED
    BY <2>2
<1>7. chans' \in [Instances -> Slots \union {None}]
  <2>1. \A i \in Instances : chans'[i] \in Slots \union {None}
    BY <1>1, <1>4, <1>5
  <2> QED
    BY <2>1, StartFacts
<1>8. Listed' = chosen \union Listed
  BY <1>2, <1>4, <1>5 DEF Listed
<1> QED
  BY <1>2, <1>3, <1>4, <1>5, <1>6, <1>7, <1>8

LEMMA StartTypes ==
  ASSUME IInv, Start, ~TooMany
  PROVE  TypeOK'
<1>1. go' \in [Slots -> Goroutine]
  <2>1. \A g \in Slots : go'[g] \in Goroutine
    BY NewFacts, OldFacts
  <2> QED
    BY <2>1, StartFacts
<1>2. stray' \in [Instances -> BOOLEAN]
  <2>1. stray' = [i \in Instances |-> stray[i] \/ i \in chosen \intersect met]
    BY StartFacts
  <2> QED
    BY <2>1
<1>3. ASSUME NEW i \in Listed' PROVE ~go'[chans'[i]].closed
  <2>1. CASE i \in chosen
    BY <2>1, StartLists, NewFacts
  <2>2. CASE i \notin chosen
    <3>1. i \in Listed /\ chans'[i] = chans[i] /\ ~New(chans[i]) /\ chans[i] \in Slots
      BY <1>3, <2>2, StartLists DEF Listed
    <3> QED
      BY <3>1, OldFacts DEF IInv, TypeOK
  <2> QED
    BY <2>1, <2>2
<1>4. /\ UNCHANGED <<active, result, whitelist, silenced, named, stop, downFor, heals>>
      /\ loop' \in {"select", "closing"} /\ chosen' = {} /\ met' = {}
  BY StartFacts
<1> QED
  BY <1>1, <1>2, <1>3, <1>4, StartLists DEF IInv, TypeOK

LEMMA StartLimit ==
  ASSUME IInv, Start, ~TooMany
  PROVE  AtMostMaxInstances' /\ DistinctInv'
<1>1. IsFiniteSet(chosen) /\ IsFiniteSet(Listed)
  <2>1. chosen \in SUBSET Instances /\ Listed \in SUBSET Instances
    BY StartFacts DEF Listed
  <2> QED
    BY <2>1, HealerAssumption, FS_Subset
<1>2. Cardinality(chosen) + Cardinality(Listed) <= MaxInstances
      /\ Cardinality(chosen) \in Nat /\ Cardinality(Listed) \in Nat
  BY <1>1, FS_CardinalityType, HealerAssumption DEF TooMany
<1>3. Cardinality(chosen \union Listed) <= MaxInstances
  <2>1. Cardinality(chosen \intersect Listed) \in Nat
    BY <1>1, FS_Intersection, FS_CardinalityType
  <2>2. Cardinality(chosen \union Listed) =
          Cardinality(chosen) + Cardinality(Listed) - Cardinality(chosen \intersect Listed)
    BY <1>1, FS_Union
  <2> QED
    BY <1>2, <2>1, <2>2, HealerAssumption
<1>4. DistinctInv'
  <2> SUFFICES ASSUME NEW i \in chosen \union Listed, NEW j \in chosen \union Listed,
                      chans'[i] = chans'[j]
               PROVE  i = j
    BY StartLists DEF DistinctInv
  <2>1. i \in Instances /\ j \in Instances
    BY StartFacts DEF Listed
  <2>2. CASE i \in chosen /\ j \in chosen
    BY <2>2, StartLists, StartFacts
  <2>3. CASE i \in Listed /\ j \in Listed
    BY <2>1, <2>3, StartLists DEF IInv, DistinctInv
  <2>4. CASE (i \in chosen /\ j \in Listed) \/ (i \in Listed /\ j \in chosen)
    BY <2>1, <2>4, StartLists
  <2> QED
    BY <2>2, <2>3, <2>4
<1> QED
  BY <1>3, <1>4, StartLists DEF AtMostMaxInstances

\* A goroutine an instance has after the start is new if and only if the instance was
\* chosen, unless the loop met an earlier one.
LEMMA ChosenIffNew ==
  ASSUME IInv, Start, ~TooMany, NEW g \in Slots, Alive(g)', ~stray'[go'[g].inst]
  PROVE  /\ go'[g].inst \in Instances /\ ~stray[go'[g].inst]
         /\ go'[g].inst \in chosen <=> New(g)
         /\ go'[g].inst \in chosen => go'[g].inst \in chosen \ met
<1>1. go'[g].inst \in Instances
  BY StartTypes DEF TypeOK, Goroutine
<1>2. stray' = [i \in Instances |-> stray[i] \/ i \in chosen \intersect met]
  BY StartFacts
<1>3. ~stray[go'[g].inst] /\ (go'[g].inst \in chosen => go'[g].inst \in chosen \ met)
  BY <1>1, <1>2
<1>4. New(g) => go'[g].inst \in chosen
  BY NewFacts
<1>5. ~New(g) => Alive(g) /\ go'[g].inst = go[g].inst
  BY OldFacts DEF Alive
<1> QED
  BY <1>1, <1>3, <1>4, <1>5 DEF IInv, ChosenInv

LEMMA StartUnique ==
  ASSUME IInv, Start, ~TooMany
  PROVE  UniqueInv'
<1> SUFFICES ASSUME NEW g \in Slots, NEW h \in Slots, Alive(g)', Alive(h)',
                    go'[g].inst = go'[h].inst, ~stray'[go'[g].inst]
             PROVE  g = h
  BY DEF UniqueInv
<1>1. ~stray[go'[g].inst] /\ (New(g) <=> New(h))
  BY ChosenIffNew
<1>2. CASE New(g)
  <2>1. New(h)
    BY <1>1, <1>2
  <2>2. Started[go'[g].inst] = g
    BY <1>2, NewFacts
  <2>3. Started[go'[h].inst] = h
    BY <2>1, NewFacts
  <2> QED
    BY <2>2, <2>3
<1>3. CASE ~New(g)
  <2>1. /\ Alive(g) /\ Alive(h)
        /\ go'[g].inst = go[g].inst /\ go'[h].inst = go[h].inst
    BY <1>1, <1>3, OldFacts DEF Alive
  <2> QED
    BY <1>1, <2>1 DEF IInv, UniqueInv
<1> QED
  BY <1>2, <1>3

LEMMA StartWatch ==
  ASSUME IInv, Start, ~TooMany
  PROVE  WatchInv'
<1> SUFFICES ASSUME NEW g \in Slots, Minded(g)'
             PROVE  /\ chans'[go'[g].inst] = g
                    /\ downFor'[go'[g].inst] # NoTime /\ go'[g].since <= downFor'[go'[g].inst]
  BY DEF WatchInv
<1> DEFINE i == go'[g].inst
<1>1. Waits(g)' /\ ~go'[g].closed /\ ~stray'[i] /\ Alive(g)'
  BY DEF Minded, Waits, Alive
<1>2. i \in Instances /\ ~stray[i] /\ (i \in chosen <=> New(g)) /\ downFor' = downFor
  BY <1>1, ChosenIffNew, StartFacts
<1>3. downFor[i] \in NoTime .. Duration
  BY <1>2 DEF IInv, TypeOK
<1>4. CASE New(g)
  <2>1. go'[g].since = NoTime /\ Started[i] = g /\ i \in chosen
    BY <1>4, NewFacts
  <2>2. downFor[i] # NoTime
    BY <2>1, StartFacts DEF IInv, ChosenInv, Choosing
  <2>3. chans'[i] = g
    BY <2>1, StartLists
  <2> QED
    BY <1>2, <1>3, <2>1, <2>2, <2>3, HealerAssumption DEF NoTime
<1>5. CASE ~New(g)
  <2>1. i = go[g].inst /\ go'[g].since = go[g].since /\ Waits(g) /\ ~go[g].closed
    BY <1>1, <1>5, OldFacts DEF Waits
  <2>2. chans[i] = g /\ downFor[i] # NoTime /\ go[g].since <= downFor[i]
    BY <1>2, <2>1 DEF IInv, WatchInv, Minded
  <2>3. chans'[i] = g
    BY <1>2, <1>5, <2>2, StartLists
  <2> QED
    BY <1>2, <2>1, <2>2, <2>3
<1> QED
  BY <1>4, <1>5

LEMMA StartHeals ==
  ASSUME IInv, Start, ~TooMany
  PROVE  HealInv'
<1> SUFFICES ASSUME NEW i \in Instances, ~stray'[i]
             PROVE  /\ heals'[i] < 2
                    /\ i \in whitelist' => \A g \in Slots : Waits(g)' => go'[g].inst # i
                    /\ heals'[i] > 0 =>
                         i \in whitelist' \/ \E g \in Slots : Works(g)' /\ go'[g].inst = i
  BY DEF HealInv
<1>1. stray' = [j \in Instances |-> stray[j] \/ j \in chosen \intersect met]
  BY StartFacts
<1>2. ~stray[i] /\ loop # "crashed" /\ whitelist' = whitelist /\ heals' = heals
  BY <1>1, StartFacts
<1>3. /\ heals[i] < 2
      /\ i \in whitelist => \A g \in Slots : Waits(g) => go[g].inst # i
      /\ heals[i] > 0 => i \in whitelist \/ \E g \in Slots : Works(g) /\ go[g].inst = i
  BY <1>2 DEF IInv, HealInv
<1>4. ASSUME i \in whitelist', NEW g \in Slots, Waits(g)', go'[g].inst = i
      PROVE  FALSE
  <2>1. i \notin chosen
    BY <1>1, <1>2, <1>4 DEF IInv, ChosenInv
  <2>2. ~New(g)
    BY <1>4, <2>1, NewFacts
  <2>3. Waits(g) /\ go[g].inst = i
    BY <1>4, <2>2, OldFacts DEF Waits
  <2> QED
    BY <1>2, <1>3, <1>4, <2>3
<1>5. ASSUME heals'[i] > 0, i \notin whitelist'
      PROVE  \E g \in Slots : Works(g)' /\ go'[g].inst = i
  <2>1. PICK g \in Slots : Works(g) /\ go[g].inst = i
    BY <1>2, <1>3, <1>5
  <2>2. ~New(g)
    BY <2>1, NewFacts DEF Works, Alive
  <2> QED
    BY <2>1, <2>2, OldFacts DEF Works
<1> QED
  BY <1>2, <1>3, <1>4, <1>5

LEMMA StartStep ==
  ASSUME IInv, Start
  PROVE  IInv'
<1>1. CASE TooMany
  BY <1>1, TooManyStep
<1>2. CASE ~TooMany
  <2>1. CrashInv' /\ ChosenInv'
    BY <1>2, StartFacts DEF CrashInv, ChosenInv, Choosing
  <2> QED
    BY <1>2, <2>1, StartTypes, StartLimit, StartUnique, StartWatch, StartHeals DEF IInv
<1> QED
  BY <1>1, <1>2

-----------------------------------------------------------------------------
\* The steps that touch neither the maps nor the goroutines.
LEMMA QuietStep ==
  ASSUME IInv,
         \/ \E i \in Instances : UpdateNodes(i)
         \/ \E i \in Silenceable : Silence(i)
         \/ LoopEnds \/ CloseDone \/ StopReturns \/ UNCHANGED vars
  PROVE  IInv'
<1>1. UNCHANGED <<active, result, chosen, shared, go, observers>>
  BY DEF UpdateNodes, Silence, LoopEnds, CloseDone, StopReturns, vars, loopVars, inputs
<1>2. /\ loop' \in {"select", "filter", "list", "start", "closing", "ended", "crashed"}
      /\ loop' = "crashed" <=> loop = "crashed"
      /\ loop' \in Choosing => loop' = loop
      /\ stop' \in {"idle", "wait", "returned"}
  BY DEF IInv, TypeOK, UpdateNodes, Silence, Turn, LoopEnds, CloseDone, StopReturns, vars,
         loopVars, inputs, Choosing
<1>3. named' \in SUBSET Instances /\ silenced' \in SUBSET Instances
  BY HealerAssumption
  DEF IInv, TypeOK, UpdateNodes, Silence, LoopEnds, CloseDone, StopReturns, vars, inputs
<1>4. Listed' = Listed
  BY <1>1 DEF shared, Listed
<1>5. TypeOK'
  BY <1>1, <1>2, <1>3, <1>4 DEF IInv, TypeOK, shared, observers
<1>6. ChosenInv'
  <2>1. Down(result)' = Down(result) /\ \A g \in Slots : Alive(g)' = Alive(g)
    BY <1>1 DEF Down, Alive
  <2> QED
    BY <1>1, <1>2, <1>4, <2>1 DEF IInv, ChosenInv, Choosing, shared, observers
<1> QED
  BY <1>1, <1>2, <1>5, <1>6, FrameStep DEF observers

LEMMA Step == IInv /\ [Next]_vars => IInv'
<1> SUFFICES ASSUME IInv, [Next]_vars
             PROVE  IInv'
  OBVIOUS
<1>1. CASE Tick
  BY <1>1, TickStep
<1>2. CASE QueryTick
  BY <1>2, QueryStep, AskWhitelistStep, AskListStep, StartStep DEF QueryTick, Choose
<1>3. CASE \E g \in Slots : GoStep(g) \/ Healed(g)
  <2>1. PICK g \in Slots : GoStep(g) \/ Healed(g)
    BY <1>3
  <2> QED
    BY <2>1, NameFoundStep, QuitStep, FireStep, WaitOnStep, MarkStep, UnlistStep, HealedStep
    DEF GoStep
<1>4. CASE MapRace
  BY <1>4, MapRaceStep
<1> QED
  BY <1>1, <1>2, <1>3, <1>4, QuietStep DEF Next

\* The invariant the theorems rest on holds of every run of a healer.
THEOREM Inductive == Spec => []IInv
  BY InitIInv, Step, PTL DEF Spec

\* Only the alert's evaluation begins a healing.
LEMMA BeginsByEvaluate ==
  ASSUME IInv, Next, NEW g \in Slots, Begins(g)
  PROVE  Evaluate(g) /\ ShouldFire(Since(g))
<1>1. go \in [Slots -> Goroutine] /\ go[g].at = "wait" /\ go'[g].at = "do"
  BY DEF IInv, TypeOK, Begins
<1>2. ~Tick
  BY <1>1 DEF Tick, Goroutine
<1>3. ASSUME QueryTick PROVE FALSE
  <2>1. ASSUME NEW r \in Results, Query(r) PROVE go'[g].at = go[g].at
    BY <2>1, TellFacts DEF Query, UpAgain
  <2>2. ASSUME Start, TooMany PROVE go'[g].at = go[g].at
    BY <2>2, TellFacts DEF Start
  <2>3. ASSUME Start, ~TooMany PROVE go'[g].at \in {"name", go[g].at}
    BY <2>3, NewFacts, OldFacts
  <2>4. ASSUME AskWhitelist \/ AskList PROVE go' = go
    BY <2>4 DEF AskWhitelist, AskList
  <2> QED
    BY <1>1, <1>3, <2>1, <2>2, <2>3, <2>4 DEF QueryTick, Choose
<1>4. ~MapRace
  BY <1>1, EndedFacts DEF MapRace
<1>5. go' # go
  BY <1>1
<1>6. PICK h \in Slots : GoStep(h) \/ Healed(h)
  BY <1>2, <1>3, <1>4, <1>5
  DEF Next, UpdateNodes, Silence, LoopEnds, CloseDone, StopReturns
<1>7. h = g
  BY <1>1, <1>6 DEF GoStep, NameFound, Quit, Evaluate, Healed, Mark, Unlist
<1>8. Evaluate(g)
  BY <1>1, <1>6, <1>7, EndedFacts DEF GoStep, NameFound, Quit, Healed, Mark, Unlist
<1>9. ShouldFire(Since(g))
  <2> SUFFICES ASSUME ~ShouldFire(Since(g)) PROVE FALSE
    OBVIOUS
  <2>1. go'[g] = [go[g] EXCEPT !.since = Since(g)]
    BY <1>1, <1>8 DEF Evaluate
  <2>2. go'[g].at = go[g].at
    BY <1>1, <2>1 DEF Goroutine
  <2> QED
    BY <1>1, <2>2
<1> QED
  BY <1>8, <1>9

-----------------------------------------------------------------------------
\* Every variable has its type, and run never closes a healing goroutine's channel
\* twice (close(*c) in run).
THEOREM TypeCorrect == Spec => []TypeOK
<1>1. IInv => TypeOK
  BY DEF IInv
<1> QED
  BY <1>1, Inductive, PTL

\* The healing goroutines listed in chans are at most MaxInstances, although the
\* goroutines themselves delete entries between queries.
THEOREM LimitHolds == Spec => []AtMostMaxInstances
<1>1. IInv => AtMostMaxInstances
  BY DEF IInv
<1> QED
  BY <1>1, Inductive, PTL

\* In one outage an instance is healed twice only if run started a goroutine for it
\* although an earlier one lived when it asked the whitelist (healer.go:174); between
\* its readings of the two maps the goroutines may take any steps.
THEOREM HealedOnce == Spec => []HealedOncePerOutage
<1>1. IInv => HealedOncePerOutage
  BY DEF IInv, HealInv, HealedOncePerOutage
<1> QED
  BY <1>1, Inductive, PTL

\* A healing begins only when every result of the last Duration reported the
\* instance, whatever the order of ticks, queries and silences.
THEOREM HealsOnlyAfterDuration == Spec => HealsAfterDuration
<1> DEFINE Due == \A g \in Slots :
      Begins(g) =>
        \/ go[g].closed \/ Done \/ stray[go[g].inst]
        \/ downFor[go[g].inst] >= Duration
<1>1. IInv /\ [Next]_vars => [Due]_vars
  <2> SUFFICES ASSUME IInv, Next, NEW g \in Slots, Begins(g),
                      ~go[g].closed, ~stray[go[g].inst]
               PROVE  downFor[go[g].inst] >= Duration
    OBVIOUS
  <2>1. Since(g) >= Duration
    BY BeginsByEvaluate DEF ShouldFire
  <2>2. Minded(g) /\ go[g].since \in NoTime .. Duration
        /\ downFor[go[g].inst] \in NoTime .. Duration
    BY DEF IInv, TypeOK, Goroutine, Begins, Minded, Waits
  <2>3. downFor[go[g].inst] # NoTime /\ go[g].since <= downFor[go[g].inst]
    BY <2>2 DEF IInv, WatchInv
  <2> QED
    BY <2>1, <2>2, <2>3, HealerAssumption DEF Since, NoTime
<1> QED
  BY <1>1, Inductive, PTL DEF Spec, HealsAfterDuration
=============================================================================
