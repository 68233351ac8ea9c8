--------------------------- MODULE ProcessProofs ----------------------------
(***************************************************************************)
(* Proofs about Process for any number of requests, tries, errors and any  *)
(* capacity of ErrCh.                                                      *)
(***************************************************************************)
EXTENDS Process, TLAPS

Place == {"boot", "exit", "serving", "ended", "select", "reload", "check", "close",
          "save", "client", "kill", "wait", "ring", "watch", "send", "idle", "ask",
          "report", "gone", "rest", "halt"}
All == Managers \union {"cls"}

\* The variables as functions, with the bounds of each step counter.
Shape ==
  /\ pc \in [Goroutines -> [at : Place, i : 1 .. 10]]
  /\ ask \in [Goroutines -> [n : 0 .. Tries - 1, failed : BOOLEAN]]
  /\ state \in [All -> {"active", "stopping", "stopped"}]
  /\ closed \in [All -> BOOLEAN]
  /\ open \in BOOLEAN /\ term \in BOOLEAN /\ crash \in BOOLEAN /\ overlap \in BOOLEAN
  /\ errch \in 0 .. Cap /\ faults \in 0 .. MaxFaults /\ failed \in 0 .. 3
  /\ saved \in SUBSET All /\ lost \in SUBSET All /\ (lost # {} => failed # 0)
  /\ \A m \in All : closed[m] <=> state[m] # "active"
  /\ \A g \in Goroutines :
       /\ At(g, "check") => g \in Stoppers /\ pc[g].i \in 1 .. 5
       /\ At(g, "close") \/ At(g, "save") \/ At(g, "halt") => g \in Stoppers /\ pc[g].i \in 1 .. 4
       /\ At(g, "save") \/ At(g, "halt") => closed[StopOrder[pc[g].i]]
       /\ At(g, "reload") \/ At(g, "rest") => pc[g].i \in 1 .. 3
       /\ ask[g].failed => failed # 0

\* A request is pending only where one is made.
PendingInv == \A g \in Goroutines : Up /\ ask[g] # NoRequest => Asking(g)

\* One goroutine at a time is in stopFunc, unless the observer saw two.
AloneInv ==
  /\ ~(pc["main"].at \in Stopping /\ pc["serve"].at \in Stopping)
  /\ ~crash
  /\ \A g \in Stoppers : At(g, "close") => state[StopOrder[pc[g].i]] = "active"

\* What stopFunc is done with: it is in etcd, or a request for it failed.
Dealt == saved \union lost

\* What is no longer active is dealt with, or the goroutine in stopFunc is at its
\* save; and so is what stopFunc has passed.
SavedInv ==
  /\ \A m \in All :
       state[m] # "active" =>
         m \in Dealt \/ \E g \in Stoppers : At(g, "save") /\ StopOrder[pc[g].i] = m
  /\ \A g \in Stoppers :
       /\ pc[g].at \in {"check", "close", "save", "halt"} =>
            \A j \in 1 .. 4 : j < pc[g].i => StopOrder[j] \in Dealt
       /\ At(g, "halt") => StopOrder[pc[g].i] \in Dealt
       /\ At(g, "client") => Dealt = All
  /\ closed["cls"] => {"fas", "fah"} \subseteq Dealt
  /\ At("main", "ended") => Dealt = All /\ ~open

StopInv == ~overlap => AloneInv /\ SavedInv
IInv == Shape /\ PendingInv /\ StopInv

-----------------------------------------------------------------------------
\* The sequences of steps, spelt out.
LEMMA Orders ==
  /\ Len(StopOrder) = 4 /\ Len(ReloadOrder) = 3 /\ Len(Boot) = 10
  /\ StopOrder[1] = "fas" /\ StopOrder[2] = "fah" /\ StopOrder[3] = "cls" /\ StopOrder[4] = "fsh"
  /\ \A k \in 1 .. 10 : Boot[k] \in {"config", "sync"} => k + 1 \in 1 .. 10
  /\ All = {"fas", "fah", "fsh", "cls"}
  /\ \A j \in 1 .. 4 : StopOrder[j] \in All
  /\ \A m \in All : \E j \in 1 .. 4 : StopOrder[j] = m
  /\ \A j, k \in 1 .. 4 : StopOrder[j] = StopOrder[k] => j = k
BY DEF StopOrder, ReloadOrder, Boot, All, Managers

LEMMA GoroutineNames ==
  /\ {"main", "serve", "etcd", "cluster"} \subseteq Goroutines
  /\ Askers \subseteq Goroutines
BY DEF Goroutines

LEMMA Pairs == Stoppers = {"main", "serve"} /\ Stoppers \subseteq Goroutines
BY DEF Stoppers, Goroutines

\* The initial states satisfy the inductive invariant.
LEMMA InitIInv == Init => IInv
<1> SUFFICES ASSUME Init PROVE IInv
  OBVIOUS
<1> USE ProcessAssumption, AskersAssumption
<1>1. pc \in [Goroutines -> [at : Place, i : 1 .. 10]]
  BY DEF Init, Place, Goroutines
<1>2. \A g \in Goroutines : pc[g].at \in {"boot", "select", "wait", "watch", "idle"}
  BY DEF Init
<1>3. ask \in [Goroutines -> [n : 0 .. Tries - 1, failed : BOOLEAN]]
  BY DEF Init, NoRequest
<1>4. state \in [All -> {"active", "stopping", "stopped"}] /\ closed \in [All -> BOOLEAN]
      /\ \A m \in All : closed[m] = FALSE /\ state[m] = "active"
  BY DEF Init, All
<1>5. Shape
  <2>1. \A g \in Goroutines : ~At(g, "check") /\ ~At(g, "close") /\ ~At(g, "save") /\ ~At(g, "reload")
        /\ ~At(g, "halt") /\ ~At(g, "rest")
    BY <1>2 DEF At
  <2>2. errch \in 0 .. Cap /\ faults \in 0 .. MaxFaults /\ failed \in 0 .. 3
    BY DEF Init
  <2>3. open \in BOOLEAN /\ term \in BOOLEAN /\ crash \in BOOLEAN /\ overlap \in BOOLEAN
        /\ saved = {} /\ lost = {} /\ \A g \in Goroutines : ~ask[g].failed
    BY DEF Init, NoRequest
  <2>4. \A m \in All : closed[m] <=> state[m] # "active"
    BY <1>4
  <2> QED
    BY <1>1, <1>3, <1>4, <2>1, <2>2, <2>3, <2>4 DEF Shape
<1>6. PendingInv
  BY DEF Init, PendingInv
<1>7. pc["main"].at = "boot" /\ pc["serve"].at = "select"
  BY DEF Init, Goroutines
<1>8. AloneInv /\ SavedInv
  BY <1>4, <1>7, Pairs DEF Init, AloneInv, SavedInv, At, Stopping, All
<1> QED
  BY <1>5, <1>6, <1>8 DEF IInv, StopInv

\* Moving one goroutine keeps the others where they are.
LEMMA Moves ==
  ASSUME Shape, NEW g \in Goroutines, NEW l \in Place, NEW k \in 1 .. 10, Goes(g, l, k)
  PROVE  /\ pc' \in [Goroutines -> [at : Place, i : 1 .. 10]]
         /\ pc'[g].at = l /\ pc'[g].i = k
         /\ \A h \in Goroutines \ {g} : pc'[h] = pc[h]
BY DEF Shape, Goes

\* Answering a request keeps the shape of what it changes.
LEMMA AnsweredShape ==
  ASSUME Shape, NEW g \in Goroutines, Answered(g)
  PROVE  /\ ask' \in [Goroutines -> [n : 0 .. Tries - 1, failed : BOOLEAN]]
         /\ ask'[g] = NoRequest /\ ~ask'[g].failed /\ \A h \in Goroutines \ {g} : ask'[h] = ask[h]
         /\ errch' \in 0 .. Cap /\ faults' = faults /\ failed' = failed
         /\ Up /\ Asking(g)
BY ProcessAssumption DEF Shape, Answered, NoRequest

-----------------------------------------------------------------------------
\* Every step keeps the shape and the pending requests.
LEMMA ShapeStep == Shape /\ PendingInv /\ [Next]_vars => Shape' /\ PendingInv'
<1> DEFINE Goal == Shape /\ PendingInv
<1> SUFFICES ASSUME Shape, PendingInv, [Next]_vars PROVE Goal'
  OBVIOUS
<1> USE ProcessAssumption, AskersAssumption, Pairs
    DEF etcdVars, stopVars, At, Asking, Up, PendingInv
<1>1. ASSUME NEW g \in Goroutines, TryFails(g) PROVE Goal'
  <2>1. ask' \in [Goroutines -> [n : 0 .. Tries - 1, failed : BOOLEAN]]
        /\ \A h \in Goroutines \ {g} : ask'[h] = ask[h]
    <3>1. CASE Fails(g)
      BY <3>1 DEF Fails, Shape
    <3>2. CASE ~Fails(g)
      <4>1. ask' = [ask EXCEPT ![g].n = @ + 1] /\ ask[g].n # Tries - 1
        BY <1>1, <3>2 DEF TryFails, LastTry
      <4>0. ask[g] \in [n : 0 .. Tries - 1, failed : BOOLEAN]
        BY DEF Shape
      <4>2. ask[g].n + 1 \in 0 .. Tries - 1
        BY <4>0, <4>1
      <4>3. [ask[g] EXCEPT !.n = ask[g].n + 1] \in [n : 0 .. Tries - 1, failed : BOOLEAN]
        BY <4>0, <4>2
      <4> QED
        BY <4>1, <4>3 DEF Shape
    <3> QED
      BY <3>1, <3>2
  <2>2. /\ faults' \in 0 .. MaxFaults /\ failed' \in 0 .. 3
        /\ failed # 0 => failed' # 0
    BY <1>1 DEF TryFails, FaultOccurs, Fails, Shape
  <2>5. ask'[g].failed => failed' # 0
    <3>1. CASE Fails(g)
      BY <3>1 DEF Fails, Shape
    <3>2. CASE ask' = [ask EXCEPT ![g].n = @ + 1]
      <4>1. ~ask'[g].failed
        BY <1>1, <3>2 DEF TryFails, Shape
      <4> QED
        BY <4>1
    <3> QED
      BY <1>1, <3>1, <3>2 DEF TryFails
  <2>3. Shape'
    BY <1>1, <2>1, <2>2, <2>5 DEF TryFails, Shape
  <2>4. PendingInv'
    BY <1>1, <2>1 DEF TryFails, Step
  <2> QED
    BY <2>3, <2>4
<1>2. ASSUME NEW g \in Goroutines, StreamBreaks(g) PROVE Goal'
  <2>1. /\ pc' \in [Goroutines -> [at : Place, i : 1 .. 10]]
        /\ pc'[g].at = "report" /\ \A h \in Goroutines \ {g} : pc'[h] = pc[h]
    BY <1>2 DEF StreamBreaks, Goes, Shape, Place
  <2>2. /\ ask' \in [Goroutines -> [n : 0 .. Tries - 1, failed : BOOLEAN]]
        /\ \A h \in Goroutines \ {g} : ask'[h] = ask[h]
        /\ faults' \in 0 .. MaxFaults /\ failed' \in 0 .. 3 /\ failed' # 0
    BY <1>2 DEF StreamBreaks, Fails, FaultOccurs, Shape
  <2>3. Shape'
    BY <1>2, <2>1, <2>2 DEF StreamBreaks, Shape
  <2>4. PendingInv'
    BY <1>2, <2>1, <2>2 DEF StreamBreaks, Step
  <2> QED
    BY <2>3, <2>4
<1>3. ASSUME NEW g \in Goroutines, StreamReported(g) PROVE Goal'
  <2>0. Answered(g)
    BY <1>3 DEF StreamReported
  <2>1. /\ ask' \in [Goroutines -> [n : 0 .. Tries - 1, failed : BOOLEAN]]
        /\ ask'[g] = NoRequest /\ ~ask'[g].failed /\ \A h \in Goroutines \ {g} : ask'[h] = ask[h]
        /\ errch' \in 0 .. Cap /\ faults' = faults /\ failed' = failed
    BY <2>0, AnsweredShape, GoroutineNames
  <2>2. /\ pc' \in [Goroutines -> [at : Place, i : 1 .. 10]]
        /\ pc'[g].at \in {"gone"}
        /\ \A h \in Goroutines \ {g} : pc'[h] = pc[h]
    BY <1>3, GoroutineNames, Orders DEF StreamReported, Goes, Shape, Place
  <2>3. Shape'
    BY <1>3, <2>1, <2>2, GoroutineNames DEF StreamReported, Shape
  <2>4. PendingInv'
    BY <1>3, <2>1, <2>2, GoroutineNames DEF StreamReported, Step
  <2> QED
    BY <2>3, <2>4
<1>4. ASSUME NEW a \in Askers, Ask(a) PROVE Goal'
  <2>2. /\ pc' \in [Goroutines -> [at : Place, i : 1 .. 10]]
        /\ pc'[a].at \in {"ask"}
        /\ \A h \in Goroutines \ {a} : pc'[h] = pc[h]
    BY <1>4, GoroutineNames, Orders DEF Ask, Goes, Shape, Place
  <2>3. Shape'
    BY <1>4, <2>2, GoroutineNames DEF Ask, Shape
  <2>4. PendingInv'
    BY <1>4, <2>2, GoroutineNames DEF Ask, Step
  <2> QED
    BY <2>3, <2>4
<1>5. ASSUME NEW a \in Askers, AskerDone(a) PROVE Goal'
  <2>0. Answered(a)
    BY <1>5 DEF AskerDone
  <2>1. /\ ask' \in [Goroutines -> [n : 0 .. Tries - 1, failed : BOOLEAN]]
        /\ ask'[a] = NoRequest /\ ~ask'[a].failed /\ \A h \in Goroutines \ {a} : ask'[h] = ask[h]
        /\ errch' \in 0 .. Cap /\ faults' = faults /\ failed' = failed
    BY <2>0, AnsweredShape, GoroutineNames
  <2>2. /\ pc' \in [Goroutines -> [at : Place, i : 1 .. 10]]
        /\ pc'[a].at \in {"idle"}
        /\ \A h \in Goroutines \ {a} : pc'[h] = pc[h]
    BY <1>5, GoroutineNames, Orders DEF AskerDone, Goes, Shape, Place
  <2>3. Shape'
    BY <1>5, <2>1, <2>2, GoroutineNames DEF AskerDone, Shape
  <2>4. PendingInv'
    BY <1>5, <2>1, <2>2, GoroutineNames DEF AskerDone, Step
  <2> QED
    BY <2>3, <2>4
<1>6. ASSUME TakeError PROVE Goal'
  <2>2. /\ pc' \in [Goroutines -> [at : Place, i : 1 .. 10]]
        /\ pc'["etcd"].at \in {"ring"}
        /\ \A h \in Goroutines \ {"etcd"} : pc'[h] = pc[h]
    BY <1>6, GoroutineNames, Orders DEF TakeError, Goes, Shape, Place
  <2>3. Shape'
    BY <1>6, <2>2, GoroutineNames DEF TakeError, Shape
  <2>4. PendingInv'
    BY <1>6, <2>2, GoroutineNames DEF TakeError, Step
  <2> QED
    BY <2>3, <2>4
<1>7. ASSUME RingChanges PROVE Goal'
  <2>2. /\ pc' \in [Goroutines -> [at : Place, i : 1 .. 10]]
        /\ pc'["cluster"].at \in {"send"}
        /\ \A h \in Goroutines \ {"cluster"} : pc'[h] = pc[h]
    BY <1>7, GoroutineNames, Orders DEF RingChanges, Goes, Shape, Place
  <2>3. Shape'
    BY <1>7, <2>2, GoroutineNames DEF RingChanges, Shape
  <2>4. PendingInv'
    BY <1>7, <2>2, GoroutineNames DEF RingChanges, Step
  <2> QED
    BY <2>3, <2>4
<1>8. ASSUME ClusterEnds PROVE Goal'
  <2>2. /\ pc' \in [Goroutines -> [at : Place, i : 1 .. 10]]
        /\ pc'["cluster"].at \in {"gone"}
        /\ \A h \in Goroutines \ {"cluster"} : pc'[h] = pc[h]
    BY <1>8, GoroutineNames, Orders DEF ClusterEnds, Goes, Shape, Place
  <2>3. Shape'
    BY <1>8, <2>2, GoroutineNames DEF ClusterEnds, Shape
  <2>4. PendingInv'
    BY <1>8, <2>2, GoroutineNames DEF ClusterEnds, Step
  <2> QED
    BY <2>3, <2>4
<1>9. ASSUME BootChecks PROVE Goal'
  <2>2. /\ pc' \in [Goroutines -> [at : Place, i : 1 .. 10]]
        /\ pc'["main"].at \in {"boot", "exit"}
        /\ \A h \in Goroutines \ {"main"} : pc'[h] = pc[h]
    <3>1. pc["main"].i + 1 \in 1 .. 10
      BY <1>9, GoroutineNames, Orders DEF BootChecks, Shape, Step
    <3> QED
      BY <1>9, <3>1, GoroutineNames DEF BootChecks, Goes, Shape, Place
  <2>3. Shape'
    BY <1>9, <2>2, GoroutineNames DEF BootChecks, Shape
  <2>4. PendingInv'
    BY <1>9, <2>2, GoroutineNames DEF BootChecks, Step
  <2> QED
    BY <2>3, <2>4
<1>10. ASSUME BootRequest PROVE Goal'
  <2>0. Answered("main")
    BY <1>10 DEF BootRequest
  <2>1. /\ ask' \in [Goroutines -> [n : 0 .. Tries - 1, failed : BOOLEAN]]
        /\ ask'["main"] = NoRequest /\ ~ask'["main"].failed /\ \A h \in Goroutines \ {"main"} : ask'[h] = ask[h]
        /\ errch' \in 0 .. Cap /\ faults' = faults /\ failed' = failed
    BY <2>0, AnsweredShape, GoroutineNames
  <2>2. /\ pc' \in [Goroutines -> [at : Place, i : 1 .. 10]]
        /\ pc'["main"].at \in {"exit", "serving", "boot"}
        /\ \A h \in Goroutines \ {"main"} : pc'[h] = pc[h]
    <3>0. pc["main"].i \in 1 .. 10 /\ Len(Boot) = 10
      BY GoroutineNames, Orders DEF Shape
    <3>1. \/ Goes("main", "exit", 1)
          \/ Goes("main", "serving", 1)
          \/ pc["main"].i # 10 /\ Goes("main", "boot", pc["main"].i + 1)
      <4>1. CASE pc["main"].i = 10
        BY <1>10, <3>0, <4>1 DEF BootRequest
      <4>2. CASE pc["main"].i # 10
        BY <1>10, <3>0, <4>2 DEF BootRequest
      <4> QED
        BY <4>1, <4>2
    <3>2. CASE Goes("main", "exit", 1)
      BY <3>2, GoroutineNames DEF Goes, Shape, Place
    <3>3. CASE Goes("main", "serving", 1)
      BY <3>3, GoroutineNames DEF Goes, Shape, Place
    <3>4. CASE pc["main"].i # 10 /\ Goes("main", "boot", pc["main"].i + 1)
      <4>1. pc["main"].i + 1 \in 1 .. 10
        BY <3>0, <3>4
      <4> QED
        BY <3>4, <4>1, GoroutineNames, Moves DEF Place
    <3> QED
      BY <3>1, <3>2, <3>3, <3>4
  <2>3. Shape'
    <3>1. UNCHANGED stopVars
      BY <1>10 DEF BootRequest
    <3> QED
      BY <2>1, <2>2, <3>1, GoroutineNames DEF Shape
  <2>4. PendingInv'
    BY <1>10, <2>1, <2>2, GoroutineNames DEF BootRequest, Step
  <2> QED
    BY <2>3, <2>4
<1>11. ASSUME MainReturns PROVE Goal'
  <2>2. /\ pc' \in [Goroutines -> [at : Place, i : 1 .. 10]]
        /\ pc'["main"].at \in {"check"}
        /\ \A h \in Goroutines \ {"main"} : pc'[h] = pc[h]
        /\ pc'["main"].at = "check" => pc'["main"].i \in 1 .. 5
    BY <1>11, GoroutineNames, Orders DEF MainReturns, EntersStop, Goes, Shape, Place
  <2>3. Shape'
    BY <1>11, <2>2, GoroutineNames DEF MainReturns, EntersStop, Shape
  <2>4. PendingInv'
    BY <1>11, <2>2, GoroutineNames DEF MainReturns, EntersStop, Step
  <2> QED
    BY <2>3, <2>4
<1>12. ASSUME Reload PROVE Goal'
  <2>0. Answered("serve")
    BY <1>12 DEF Reload
  <2>1. /\ ask' \in [Goroutines -> [n : 0 .. Tries - 1, failed : BOOLEAN]]
        /\ ask'["serve"] = NoRequest /\ ~ask'["serve"].failed /\ \A h \in Goroutines \ {"serve"} : ask'[h] = ask[h]
        /\ errch' \in 0 .. Cap /\ faults' = faults /\ failed' = failed
    BY <2>0, AnsweredShape, GoroutineNames
  <2>2. /\ pc' \in [Goroutines -> [at : Place, i : 1 .. 10]]
        /\ pc'["serve"].at \in {"rest"}
        /\ \A h \in Goroutines \ {"serve"} : pc'[h] = pc[h]
        /\ pc'["serve"].at = "rest" => pc'["serve"].i \in 1 .. 3
    BY <1>12, GoroutineNames, Orders DEF Reload, Goes, Shape, Place
  <2>3. Shape'
    BY <1>12, <2>1, <2>2, GoroutineNames DEF Reload, Shape
  <2>4. PendingInv'
    BY <1>12, <2>1, <2>2, GoroutineNames DEF Reload, Step
  <2> QED
    BY <2>3, <2>4
<1>22. ASSUME ReloadReturns PROVE Goal'
  <2>2. /\ pc' \in [Goroutines -> [at : Place, i : 1 .. 10]]
        /\ pc'["serve"].at \in {"select", "reload"}
        /\ \A h \in Goroutines \ {"serve"} : pc'[h] = pc[h]
        /\ pc'["serve"].at = "reload" => pc'["serve"].i \in 1 .. 3
    BY <1>22, GoroutineNames, Orders DEF ReloadReturns, Goes, Shape, Place
  <2>3. Shape'
    BY <1>22, <2>2, GoroutineNames DEF ReloadReturns, Shape
  <2>4. PendingInv'
    BY <1>22, <2>2, GoroutineNames DEF ReloadReturns, Step
  <2> QED
    BY <2>3, <2>4
<1>13. ASSUME Kill PROVE Goal'
  <2>2. /\ pc' \in [Goroutines -> [at : Place, i : 1 .. 10]]
        /\ pc'["serve"].at \in {"select"}
        /\ \A h \in Goroutines \ {"serve"} : pc'[h] = pc[h]
    BY <1>13, GoroutineNames, Orders DEF Kill, Goes, Shape, Place
  <2>3. Shape'
    BY <1>13, <2>2, GoroutineNames DEF Kill, Shape
  <2>4. PendingInv'
    BY <1>13, <2>2, GoroutineNames DEF Kill, Step
  <2> QED
    BY <2>3, <2>4
<1>14. ASSUME NEW g \in Stoppers, Check(g) PROVE Goal'
  <2>2. /\ pc' \in [Goroutines -> [at : Place, i : 1 .. 10]]
        /\ pc'[g].at \in {"client", "check", "close"}
        /\ \A h \in Goroutines \ {g} : pc'[h] = pc[h]
        /\ pc'[g].at = "check" => pc'[g].i \in 1 .. 5
        /\ pc'[g].at = "close" => pc'[g].i \in 1 .. 4
    <3>1. pc[g].i \in 1 .. 5
      BY <1>14 DEF Check, Shape
    <3>2. \/ pc[g].i = 5 /\ Goes(g, "client", 1)
          \/ pc[g].i \in 1 .. 4 /\ (Goes(g, "check", pc[g].i + 1) \/ Goes(g, "close", pc[g].i))
      BY <1>14, <3>1, Orders DEF Check
    <3> QED
      BY <3>2, GoroutineNames DEF Goes, Shape, Place
  <2>3. Shape'
    BY <1>14, <2>2, GoroutineNames DEF Check, Shape
  <2>4. PendingInv'
    BY <1>14, <2>2, GoroutineNames DEF Check, Step
  <2> QED
    BY <2>3, <2>4
<1>15. ASSUME NEW g \in Stoppers, Save(g) PROVE Goal'
  <2>0. Answered(g)
    BY <1>15 DEF Save
  <2>1. /\ ask' \in [Goroutines -> [n : 0 .. Tries - 1, failed : BOOLEAN]]
        /\ ask'[g] = NoRequest /\ ~ask'[g].failed /\ \A h \in Goroutines \ {g} : ask'[h] = ask[h]
        /\ errch' \in 0 .. Cap /\ faults' = faults /\ failed' = failed
    BY <2>0, AnsweredShape, GoroutineNames
  <2>2. /\ pc' \in [Goroutines -> [at : Place, i : 1 .. 10]]
        /\ pc'[g].at = "halt" /\ pc'[g].i = pc[g].i /\ pc[g].i \in 1 .. 4
        /\ \A h \in Goroutines \ {g} : pc'[h] = pc[h]
    BY <1>15, GoroutineNames, Orders DEF Save, Goes, Shape, Place
  <2>3. Shape'
    <3> DEFINE m == StopOrder[pc[g].i]
    <3>1. m \in All /\ closed[m]
      BY <1>15, Orders DEF Save, Shape
    <3>2. /\ saved' \in SUBSET All /\ lost' \in SUBSET All /\ (lost' # {} => failed' # 0)
          /\ UNCHANGED <<open, state, closed, term, crash, overlap>>
      BY <1>15, <2>1, <3>1 DEF Save, Step, Shape
    <3> QED
      BY <2>1, <2>2, <3>1, <3>2, GoroutineNames DEF Shape, NoRequest
  <2>4. PendingInv'
    BY <1>15, <2>1, <2>2, GoroutineNames DEF Save, Step
  <2> QED
    BY <2>3, <2>4
<1>23. ASSUME NEW g \in Stoppers, StopReturns(g) PROVE Goal'
  <2>2. /\ pc' \in [Goroutines -> [at : Place, i : 1 .. 10]]
        /\ pc'[g].at = "check" /\ pc'[g].i \in 1 .. 5
        /\ \A h \in Goroutines \ {g} : pc'[h] = pc[h]
    BY <1>23, GoroutineNames, Orders DEF StopReturns, Goes, Shape, Place
  <2>3. Shape'
    <3> DEFINE m == StopOrder[pc[g].i]
    <3>1. m \in All /\ closed[m]
      BY <1>23, Orders DEF StopReturns, Shape
    <3>2. state' = [state EXCEPT ![m] = "stopped"]
          /\ UNCHANGED <<etcdVars, open, closed, term, crash, saved, lost, overlap>>
      BY <1>23 DEF StopReturns, Step
    <3> QED
      BY <2>2, <3>1, <3>2, GoroutineNames DEF Shape
  <2>4. PendingInv'
    BY <1>23, <2>2, GoroutineNames DEF StopReturns, Step
  <2> QED
    BY <2>3, <2>4
<1>16. ASSUME NEW g \in Stoppers, CloseClient(g) PROVE Goal'
  <2>2. /\ pc' \in [Goroutines -> [at : Place, i : 1 .. 10]]
        /\ pc'[g].at \in {"ended", "kill"}
        /\ \A h \in Goroutines \ {g} : pc'[h] = pc[h]
    BY <1>16, GoroutineNames, Orders DEF CloseClient, Goes, Shape, Place
  <2>3. Shape'
    BY <1>16, <2>2, GoroutineNames DEF CloseClient, Shape
  <2>4. PendingInv'
    BY <1>16, <2>2, GoroutineNames DEF CloseClient, Step
  <2> QED
    BY <2>3, <2>4
<1>17. CASE Term
  <2>1. CASE At("main", "boot")
    <3>1. /\ pc' \in [Goroutines -> [at : Place, i : 1 .. 10]]
          /\ pc'["main"].at = "exit" /\ \A h \in Goroutines \ {"main"} : pc'[h] = pc[h]
      BY <1>17, <2>1, GoroutineNames DEF Term, Goes, Shape, Place
    <3> QED
      BY <1>17, <2>1, <3>1, GoroutineNames DEF Term, Shape, Step
  <2>2. CASE ~At("main", "boot")
    BY <1>17, <2>2 DEF Term, Shape, Step
  <2> QED
    BY <2>1, <2>2
<1>18. CASE TakeReload
  <2>1. /\ pc' \in [Goroutines -> [at : Place, i : 1 .. 10]]
        /\ pc'["serve"].at = "reload" /\ pc'["serve"].i = 1 /\ pc'["cluster"].at = "watch"
        /\ \A h \in Goroutines \ {"serve", "cluster"} : pc'[h] = pc[h]
    BY <1>18, GoroutineNames DEF TakeReload, Shape, Place
  <2>2. Shape'
    BY <1>18, <2>1, GoroutineNames DEF TakeReload, Shape
  <2>3. PendingInv'
    BY <1>18, <2>1, GoroutineNames DEF TakeReload, Step
  <2> QED
    BY <2>2, <2>3
<1>19. CASE TakeStop
  <2>1. /\ pc' \in [Goroutines -> [at : Place, i : 1 .. 10]]
        /\ pc'["serve"].at = "check" /\ pc'["serve"].i = 1 /\ pc'["etcd"].at = "wait"
        /\ \A h \in Goroutines \ {"serve", "etcd"} : pc'[h] = pc[h]
    BY <1>19, GoroutineNames DEF TakeStop, Shape, Place
  <2>2. Shape'
    BY <1>19, <2>1, GoroutineNames DEF TakeStop, Shape, EntersStop
  <2>3. PendingInv'
    BY <1>19, <2>1, GoroutineNames DEF TakeStop, Step, EntersStop
  <2> QED
    BY <2>2, <2>3
<1>20. ASSUME NEW g \in Stoppers, Close(g) PROVE Goal'
  <2> DEFINE m == StopOrder[pc[g].i]
  <2>1. m \in All /\ pc[g].i \in 1 .. 4
    BY <1>20, Orders DEF Close, Shape
  <2>2. CASE closed[m]
    BY <1>20, <2>2 DEF Close, Shape, Step
  <2>3. CASE ~closed[m]
    <3>1. /\ pc' \in [Goroutines -> [at : Place, i : 1 .. 10]]
          /\ pc'[g].at = "save" /\ pc'[g].i = pc[g].i
          /\ \A h \in Goroutines \ {g} : pc'[h] = pc[h]
      BY <1>20, <2>1, <2>3 DEF Close, Step, Goes, Shape, Place
    <3>2. /\ state' = [state EXCEPT ![m] = "stopping"]
          /\ closed' = [closed EXCEPT ![m] = TRUE]
      BY <1>20, <2>3 DEF Close, Step
    <3>3. Shape'
      BY <1>20, <2>1, <2>3, <3>1, <3>2 DEF Close, Step, Shape
    <3>4. PendingInv'
      BY <1>20, <2>3, <3>1 DEF Close, Step
    <3> QED
      BY <3>3, <3>4
  <2> QED
    BY <2>2, <2>3
<1>21. CASE UNCHANGED vars
  BY <1>21 DEF vars, Shape, Step
<1> QED
  BY <1>1, <1>2, <1>3, <1>4, <1>5, <1>6, <1>7, <1>8, <1>9, <1>10, <1>11, <1>12, <1>13, <1>14, <1>15, <1>16, <1>17, <1>18, <1>19, <1>20, <1>21, <1>22, <1>23
     DEF Next, StopFunc

-----------------------------------------------------------------------------
(* The run of stopFunc.                                                    *)

\* A goroutine that stops stays where it is, or was and is not in stopFunc.
Elsewhere ==
  \A g \in Stoppers :
    \/ pc'[g] = pc[g]
    \/ pc[g].at \notin Stopping /\ pc'[g].at \notin Stopping \union {"ended"}

\* Steps outside stopFunc do not touch its invariant.
LEMMA Frame ==
  ASSUME Shape, StopInv, Elsewhere, UNCHANGED <<state, closed, saved, lost, crash, overlap, open>>
  PROVE  StopInv'
<1> SUFFICES ASSUME ~overlap PROVE AloneInv' /\ SavedInv'
  BY DEF StopInv
<1>1. AloneInv /\ SavedInv
  BY DEF StopInv
<1> USE Pairs DEF At, Stopping, Elsewhere, Dealt
<1>2. AloneInv'
  BY <1>1 DEF AloneInv
<1>3. \A m \in All :
        state'[m] # "active" =>
          m \in Dealt' \/ \E g \in Stoppers : pc'[g].at = "save" /\ StopOrder[pc'[g].i] = m
  BY <1>1 DEF SavedInv
<1>4. SavedInv'
  BY <1>1, <1>3 DEF SavedInv
<1> QED
  BY <1>2, <1>4

LEMMA StopStep == IInv /\ [Next]_vars => StopInv'
<1> SUFFICES ASSUME IInv, [Next]_vars PROVE StopInv'
  OBVIOUS
<1> USE AskersAssumption, Pairs, GoroutineNames
    DEF IInv, etcdVars, stopVars, At, Stopping, Dealt
<1>1. ASSUME NEW g \in Goroutines, TryFails(g) PROVE StopInv'
  BY <1>1, Frame DEF TryFails, Goes, Shape, Elsewhere
<1>2. ASSUME NEW g \in Goroutines, StreamBreaks(g) PROVE StopInv'
  BY <1>2, Frame DEF StreamBreaks, Goes, Shape, Elsewhere
<1>3. ASSUME NEW g \in Goroutines, StreamReported(g) PROVE StopInv'
  BY <1>3, Frame DEF StreamReported, Goes, Shape, Elsewhere
<1>4. ASSUME NEW a \in Askers, Ask(a) PROVE StopInv'
  BY <1>4, Frame DEF Ask, Goes, Shape, Elsewhere
<1>5. ASSUME NEW a \in Askers, AskerDone(a) PROVE StopInv'
  BY <1>5, Frame DEF AskerDone, Goes, Shape, Elsewhere
<1>6. ASSUME TakeError PROVE StopInv'
  BY <1>6, Frame DEF TakeError, Goes, Shape, Elsewhere
<1>7. ASSUME RingChanges PROVE StopInv'
  BY <1>7, Frame DEF RingChanges, Goes, Shape, Elsewhere
<1>8. ASSUME ClusterEnds PROVE StopInv'
  BY <1>8, Frame DEF ClusterEnds, Goes, Shape, Elsewhere
<1>9. ASSUME BootChecks PROVE StopInv'
  BY <1>9, Frame DEF BootChecks, Goes, Shape, Elsewhere
<1>10. ASSUME BootRequest PROVE StopInv'
  BY <1>10, Frame DEF BootRequest, Goes, Shape, Elsewhere
<1>11. ASSUME Term PROVE StopInv'
  BY <1>11, Frame DEF Term, Goes, Shape, Elsewhere
<1>12. ASSUME TakeReload PROVE StopInv'
  BY <1>12, Frame DEF TakeReload, Goes, Shape, Elsewhere
<1>13. ASSUME Reload PROVE StopInv'
  BY <1>13, Frame DEF Reload, Goes, Shape, Elsewhere
<1>22. ASSUME ReloadReturns PROVE StopInv'
  BY <1>22, Frame DEF ReloadReturns, Goes, Shape, Elsewhere
<1>14. ASSUME Kill PROVE StopInv'
  BY <1>14, Frame DEF Kill, Goes, Shape, Elsewhere
<1>15. CASE MainReturns
  <2> SUFFICES ASSUME ~overlap' PROVE AloneInv' /\ SavedInv'
    BY DEF StopInv
  <2>1. pc["serve"].at \notin Stopping /\ AloneInv /\ SavedInv
    BY <1>15 DEF MainReturns, EntersStop, StopInv
  <2>2. /\ pc'["main"].at = "check" /\ pc'["main"].i = 1 /\ pc["main"].at \notin Stopping \union {"ended"}
        /\ pc'["serve"] = pc["serve"] /\ UNCHANGED <<open, state, closed, crash, saved, lost>>
    BY <1>15 DEF MainReturns, EntersStop, Goes, Shape
  <2>3. AloneInv'
    BY <2>1, <2>2 DEF AloneInv
  <2>4. \A m \in All :
          state'[m] # "active" =>
            m \in Dealt' \/ \E g \in Stoppers : pc'[g].at = "save" /\ StopOrder[pc'[g].i] = m
    BY <2>1, <2>2 DEF SavedInv
  <2>5. SavedInv'
    BY <2>1, <2>2, <2>4 DEF SavedInv
  <2> QED
    BY <2>3, <2>5
<1>16. CASE TakeStop
  <2> SUFFICES ASSUME ~overlap' PROVE AloneInv' /\ SavedInv'
    BY DEF StopInv
  <2>1. pc["main"].at \notin Stopping /\ AloneInv /\ SavedInv
    BY <1>16 DEF TakeStop, EntersStop, StopInv
  <2>2. /\ pc'["serve"].at = "check" /\ pc'["serve"].i = 1 /\ pc["serve"].at \notin Stopping \union {"ended"}
        /\ pc'["main"] = pc["main"] /\ UNCHANGED <<open, state, closed, crash, saved, lost>>
    BY <1>16 DEF TakeStop, EntersStop, Goes, Shape
  <2>3. AloneInv'
    BY <2>1, <2>2 DEF AloneInv
  <2>4. \A m \in All :
          state'[m] # "active" =>
            m \in Dealt' \/ \E g \in Stoppers : pc'[g].at = "save" /\ StopOrder[pc'[g].i] = m
    BY <2>1, <2>2 DEF SavedInv
  <2>5. SavedInv'
    BY <2>1, <2>2, <2>4 DEF SavedInv
  <2> QED
    BY <2>3, <2>5
<1>17. ASSUME NEW g \in Stoppers, Check(g) PROVE StopInv'
  <2> SUFFICES ASSUME ~overlap' PROVE AloneInv' /\ SavedInv'
    BY DEF StopInv
  <2>1. /\ AloneInv /\ SavedInv
        /\ \A h \in Stoppers \ {g} : pc[h].at \notin Stopping
    BY <1>17 DEF Check, StopInv, AloneInv
  <2>2. /\ \A h \in Stoppers \ {g} : pc'[h] = pc[h]
        /\ UNCHANGED <<open, state, closed, crash, saved, lost>>
        /\ pc[g].at = "check" /\ pc[g].i \in 1 .. 5
        /\ pc'[g].at \in {"client", "check", "close"}
        /\ pc'[g].at = "client" => pc[g].i = 5
        /\ pc'[g].at = "check" => /\ pc[g].i \in 1 .. 4 /\ pc'[g].i = pc[g].i + 1
                                  /\ state[StopOrder[pc[g].i]] # "active"
        /\ pc'[g].at = "close" => /\ pc[g].i \in 1 .. 4 /\ pc'[g].i = pc[g].i
                                  /\ state[StopOrder[pc[g].i]] = "active"
    <3>1. pc[g].i \in 1 .. 5 /\ pc[g].at = "check"
      BY <1>17 DEF Check, Shape
    <3>2. UNCHANGED <<open, state, closed, crash, saved, lost>>
      BY <1>17 DEF Check
    <3>3. \/ pc[g].i = 5 /\ Goes(g, "client", 1)
          \/ /\ pc[g].i \in 1 .. 4 /\ Goes(g, "check", pc[g].i + 1)
             /\ state[StopOrder[pc[g].i]] # "active"
          \/ /\ pc[g].i \in 1 .. 4 /\ Goes(g, "close", pc[g].i)
             /\ state[StopOrder[pc[g].i]] = "active"
      BY <1>17, <3>1, Orders DEF Check
    <3> QED
      BY <3>1, <3>2, <3>3 DEF Goes, Shape
  <2>3. AloneInv'
    BY <2>1, <2>2 DEF AloneInv
  <2>4. \A m \in All : state[m] # "active" => m \in Dealt
    BY <2>1, <2>2 DEF SavedInv
  <2>5. \A j \in 1 .. 4 : j < pc[g].i => StopOrder[j] \in Dealt
    BY <2>1, <2>2 DEF SavedInv
  <2>6. \A j \in 1 .. 4 : pc'[g].at \in {"check", "close"} /\ j < pc'[g].i => StopOrder[j] \in Dealt
    <3>1. CASE pc'[g].at = "check"
      BY <2>2, <2>4, <2>5, <3>1, Orders
    <3>2. CASE pc'[g].at # "check"
      BY <2>2, <2>5, <3>2
    <3> QED
      BY <3>1, <3>2
  <2>7. pc'[g].at = "client" => Dealt = All
    <3> SUFFICES ASSUME pc'[g].at = "client" PROVE Dealt = All
      OBVIOUS
    <3>1. \A j \in 1 .. 4 : StopOrder[j] \in Dealt
      BY <2>2, <2>5
    <3>2. Dealt \subseteq All
      BY DEF Shape
    <3>3. \A m \in All : m \in Dealt
      BY <3>1, Orders
    <3> QED
      BY <3>2, <3>3
  <2>8. \A h \in Stoppers :
          /\ pc'[h].at \in {"check", "close", "save", "halt"} =>
               \A j \in 1 .. 4 : j < pc'[h].i => StopOrder[j] \in Dealt'
          /\ pc'[h].at = "halt" => StopOrder[pc'[h].i] \in Dealt'
          /\ pc'[h].at = "client" => Dealt' = All
    BY <2>1, <2>2, <2>6, <2>7 DEF SavedInv
  <2>9. SavedInv'
    BY <2>1, <2>2, <2>4, <2>8 DEF SavedInv
  <2> QED
    BY <2>3, <2>9
<1>18. ASSUME NEW g \in Stoppers, Close(g) PROVE StopInv'
  <2> SUFFICES ASSUME ~overlap' PROVE AloneInv' /\ SavedInv'
    BY DEF StopInv
  <2>1. /\ AloneInv /\ SavedInv
        /\ \A h \in Stoppers \ {g} : pc[h].at \notin Stopping
    BY <1>18 DEF Close, StopInv, AloneInv
  <2> DEFINE m == StopOrder[pc[g].i]
  <2>2. /\ pc[g].at = "close" /\ pc[g].i \in 1 .. 4 /\ m \in All /\ ~closed[m]
        /\ \A j \in 1 .. 4 : j < pc[g].i => StopOrder[j] \in Dealt
    BY <1>18, <2>1, Orders DEF Close, Shape, AloneInv, SavedInv
  <2>3. /\ \A h \in Stoppers \ {g} : pc'[h] = pc[h]
        /\ pc'[g].at = "save" /\ pc'[g].i = pc[g].i
        /\ state' = [state EXCEPT ![m] = "stopping"] /\ closed' = [closed EXCEPT ![m] = TRUE]
        /\ UNCHANGED <<open, crash, saved, lost>>
    BY <1>18, <2>2 DEF Close, Step, Goes, Shape
  <2>4. AloneInv'
    BY <2>1, <2>3 DEF AloneInv
  <2>5. \A x \in All : state'[x] # "active" => x \in Dealt' \/ x = m
    <3>1. \A x \in All : state[x] # "active" => x \in Dealt
      BY <2>1, <2>2 DEF SavedInv
    <3> QED
      BY <2>3, <3>1 DEF Shape
  <2>6. \A x \in All :
          state'[x] # "active" =>
            x \in Dealt' \/ \E h \in Stoppers : pc'[h].at = "save" /\ StopOrder[pc'[h].i] = x
    BY <2>3, <2>5
  <2>7. closed'["cls"] => {"fas", "fah"} \subseteq Dealt'
    <3>1. CASE closed["cls"]
      BY <2>1, <2>3, <3>1 DEF SavedInv
    <3>2. CASE m = "cls"
      <4>1. pc[g].i = 3
        BY <2>2, <3>2, Orders
      <4> QED
        BY <2>2, <2>3, <4>1, Orders
    <3> QED
      BY <2>3, <3>1, <3>2 DEF Shape, All
  <2>8. \A h \in Stoppers :
          /\ pc'[h].at \in {"check", "close", "save", "halt"} =>
               \A j \in 1 .. 4 : j < pc'[h].i => StopOrder[j] \in Dealt'
          /\ pc'[h].at = "halt" => StopOrder[pc'[h].i] \in Dealt'
          /\ pc'[h].at = "client" => Dealt' = All
    BY <2>1, <2>2, <2>3 DEF SavedInv
  <2>9. SavedInv'
    BY <2>1, <2>2, <2>3, <2>6, <2>7, <2>8 DEF SavedInv
  <2> QED
    BY <2>4, <2>9
<1>19. ASSUME NEW g \in Stoppers, Save(g) PROVE StopInv'
  <2> SUFFICES ASSUME ~overlap' PROVE AloneInv' /\ SavedInv'
    BY DEF StopInv
  <2>1. /\ AloneInv /\ SavedInv
        /\ \A h \in Stoppers \ {g} : pc[h].at \notin Stopping
    BY <1>19 DEF Save, StopInv, AloneInv
  <2> DEFINE m == StopOrder[pc[g].i]
  <2>2. /\ pc[g].at = "save" /\ pc[g].i \in 1 .. 4 /\ m \in All
        /\ \A j \in 1 .. 4 : j < pc[g].i => StopOrder[j] \in Dealt
    BY <1>19, <2>1, Orders DEF Save, Shape, SavedInv
  <2>3. /\ \A h \in Stoppers \ {g} : pc'[h] = pc[h]
        /\ pc'[g].at = "halt" /\ pc'[g].i = pc[g].i
        /\ Dealt' = Dealt \union {m}
        /\ UNCHANGED <<open, state, closed, crash>>
    BY <1>19, <2>2 DEF Save, Step, Goes, Shape
  <2>4. AloneInv'
    BY <2>1, <2>3 DEF AloneInv
  <2>5. \A x \in All : state'[x] # "active" => x \in Dealt'
    <3>1. \A x \in All : state[x] # "active" => x \in Dealt \/ x = m
      BY <2>1, <2>2 DEF SavedInv
    <3> QED
      BY <2>3, <3>1 DEF Shape
  <2>6. \A j \in 1 .. 4 : j < pc[g].i + 1 => StopOrder[j] \in Dealt'
    BY <2>2, <2>3
  <2>7. Dealt = All => Dealt' = All
    BY <2>2, <2>3
  <2>8. \A h \in Stoppers :
          /\ pc'[h].at \in {"check", "close", "save", "halt"} =>
               \A j \in 1 .. 4 : j < pc'[h].i => StopOrder[j] \in Dealt'
          /\ pc'[h].at = "halt" => StopOrder[pc'[h].i] \in Dealt'
          /\ pc'[h].at = "client" => Dealt' = All
    BY <2>1, <2>2, <2>3, <2>6, <2>7 DEF SavedInv
  <2>9. SavedInv'
    BY <2>1, <2>2, <2>3, <2>5, <2>7, <2>8 DEF SavedInv
  <2> QED
    BY <2>4, <2>9
<1>23. ASSUME NEW g \in Stoppers, StopReturns(g) PROVE StopInv'
  <2> SUFFICES ASSUME ~overlap' PROVE AloneInv' /\ SavedInv'
    BY DEF StopInv
  <2>1. /\ AloneInv /\ SavedInv
        /\ \A h \in Stoppers \ {g} : pc[h].at \notin Stopping
    BY <1>23 DEF StopReturns, StopInv, AloneInv
  <2> DEFINE m == StopOrder[pc[g].i]
  <2>2. /\ pc[g].at = "halt" /\ pc[g].i \in 1 .. 4 /\ m \in All
        /\ \A j \in 1 .. 4 : j < pc[g].i => StopOrder[j] \in Dealt
        /\ m \in Dealt
    BY <1>23, <2>1, Orders DEF StopReturns, Shape, SavedInv
  <2>3. /\ \A h \in Stoppers \ {g} : pc'[h] = pc[h]
        /\ pc'[g].at = "check" /\ pc'[g].i = pc[g].i + 1
        /\ state' = [state EXCEPT ![m] = "stopped"] /\ Dealt' = Dealt
        /\ UNCHANGED <<open, closed, crash>>
    BY <1>23, <2>2 DEF StopReturns, Step, Goes, Shape
  <2>4. AloneInv'
    BY <2>1, <2>3 DEF AloneInv
  <2>5. \A x \in All : state'[x] # "active" => x \in Dealt'
    <3>1. \A x \in All : state[x] # "active" => x \in Dealt \/ x = m
      BY <2>1, <2>2 DEF SavedInv
    <3> QED
      BY <2>2, <2>3, <3>1 DEF Shape
  <2>6. \A j \in 1 .. 4 : j < pc[g].i + 1 => StopOrder[j] \in Dealt'
    BY <2>2, <2>3
  <2>7. Dealt = All => Dealt' = All
    BY <2>2, <2>3
  <2>8. \A h \in Stoppers :
          /\ pc'[h].at \in {"check", "close", "save", "halt"} =>
               \A j \in 1 .. 4 : j < pc'[h].i => StopOrder[j] \in Dealt'
          /\ pc'[h].at = "halt" => StopOrder[pc'[h].i] \in Dealt'
          /\ pc'[h].at = "client" => Dealt' = All
    BY <2>1, <2>2, <2>3, <2>6, <2>7 DEF SavedInv
  <2>9. SavedInv'
    BY <2>1, <2>2, <2>3, <2>5, <2>7, <2>8 DEF SavedInv
  <2> QED
    BY <2>4, <2>9
<1>20. ASSUME NEW g \in Stoppers, CloseClient(g) PROVE StopInv'
  <2> SUFFICES ASSUME ~overlap' PROVE AloneInv' /\ SavedInv'
    BY DEF StopInv
  <2>1. /\ AloneInv /\ SavedInv
        /\ \A h \in Stoppers \ {g} : pc[h].at \notin Stopping
    BY <1>20 DEF CloseClient, StopInv, AloneInv
  <2>2. /\ pc[g].at = "client" /\ Dealt = All
        /\ \A h \in Stoppers \ {g} : pc'[h] = pc[h]
        /\ pc'[g].at \in {"ended", "kill"}
        /\ ~open' /\ UNCHANGED <<state, closed, crash, saved, lost>>
    BY <1>20, <2>1 DEF CloseClient, Goes, Shape, SavedInv
  <2>3. AloneInv'
    BY <2>1, <2>2 DEF AloneInv
  <2>4. SavedInv'
    BY <2>1, <2>2 DEF SavedInv, All, Managers
  <2> QED
    BY <2>3, <2>4
<1>21. CASE UNCHANGED vars
  BY <1>21, Frame DEF vars, Elsewhere
<1> QED
  BY <1>1, <1>2, <1>3, <1>4, <1>5, <1>6, <1>7, <1>8, <1>9, <1>10, <1>11, <1>12, <1>13, <1>14, <1>15, <1>16, <1>17, <1>18, <1>19, <1>20, <1>21, <1>22, <1>23
     DEF Next, StopFunc

-----------------------------------------------------------------------------
\* IInv is inductive.
LEMMA Inductive == Spec => []IInv
<1>1. IInv /\ [Next]_vars => IInv'
  BY ShapeStep, StopStep DEF IInv
<1> QED
  BY InitIInv, <1>1, PTL DEF Spec

\* Every reachable state is well typed, a request is pending only where one is
\* made, and a stop channel is closed exactly when its owner is no longer active.
THEOREM TypeCorrect == Spec => []TypeOK
<1>1. IInv => TypeOK
  <2> SUFFICES ASSUME IInv PROVE TypeOK
    OBVIOUS
  <2>1. DOMAIN state = All /\ \A m \in All : state[m] \in {"active", "stopping", "stopped"}
                                           /\ closed[m] = (state[m] # "active")
    BY DEF IInv, Shape
  <2>2. \A g \in Goroutines :
          /\ pc[g].i \in 1 .. Len(Boot)
          /\ ask[g].n \in 0 .. Tries - 1 /\ ask[g].failed \in BOOLEAN
          /\ Up /\ ask[g] # NoRequest => Asking(g)
    BY Orders DEF IInv, Shape, PendingInv
  <2>3. {open, term, crash, overlap} \subseteq BOOLEAN
        /\ {saved, lost} \subseteq SUBSET (Managers \union {"cls"})
    BY DEF IInv, Shape, All
  <2> QED
    BY <2>1, <2>2, <2>3 DEF IInv, Shape, TypeOK
<1> QED
  BY Inductive, <1>1, PTL

\* main and the reload goroutine close every channel once, however often errors,
\* signals and reloads come, unless both are in stopFunc at the same time.
THEOREM ClosesOnce == Spec => []StopsOnce
<1>1. IInv => StopsOnce
  BY DEF IInv, StopInv, AloneInv, StopsOnce
<1> QED
  BY Inductive, <1>1, PTL

\* The node leaves the ring only with its scalers and healers saved, and main
\* returns with everything saved, but for what was given up with a request that
\* failed, unless two were in stopFunc at once.
THEOREM StopSavesAll == Spec => []SavedInTime
<1>1. IInv => SavedInTime
  BY DEF IInv, Shape, StopInv, SavedInv, Dealt, SavedInTime, All
<1> QED
  BY Inductive, <1>1, PTL
=============================================================================
