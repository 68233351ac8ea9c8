----------------------- MODULE HealerManagerProofs -------------------------
(***************************************************************************)
(* Proofs about HealerManager for any number of resolvers, healers and     *)
(* goroutines of pubSubNodes, of API writes, moves of the ring and failed  *)
(* requests.  Of every step it is first said which goroutine takes it and  *)
(* where that goroutine goes; then that run alone keeps the registry in    *)
(* step with etcd as long as the ring stands still.                        *)
(***************************************************************************)
EXTENDS HealerManager, TLAPS

-----------------------------------------------------------------------------
(* What the manager keeps.                                                 *)

Identities == Resolvers \union Healers \union {None}

\* Where run is before the watches are open, while it waits for events, and in
\* startWorker, which both come to.
LoadPlaces == {"loadN", "checkN", "loadH", "checkH", "watch"}
EventPlaces == {"select", "putN", "stopN", "forgetN", "delN", "dropH", "get", "ask", "wait", "ended"}
StartPlaces == {"backendN", "ring", "backend", "chan", "go"}

\* Where each goroutine can be.
PlacesOf == [t \in Threads |->
  CASE t = "run" -> LoadPlaces \union EventPlaces \union StartPlaces \union {"idle"}
    [] t = "reload" -> {"idle", "look", "lookMine", "lookOther", "ring", "backend", "chan", "go",
                        "put", "halt", "wait"}
    [] t = "saveN" -> {"idle", "putN", "stopN", "forgetN"}
    [] t = "saveH" -> {"idle", "putH", "get", "ask", "wait"}]

Places == UNION {PlacesOf[t] : t \in Threads}

Goroutine == [at: Places, id: Identities, then: {"idle", "loadH", "watch", "select"}]

Types ==
  /\ cloud \in BOOLEAN /\ nrkey \in BOOLEAN /\ hkey \in BOOLEAN
  /\ mine \in BOOLEAN /\ pending \in BOOLEAN
  /\ todo \in [{"cloud", "healer"} -> Seq({"create", "delete"})]
  /\ mgr \in {"loading", "active", "stopping", "stopped"}
  /\ crash \in {"no", "nil", "closed", "cloud", "race"}
  /\ rqt \in [nr: Resolvers \union {None}, healer: Healers \union {None}]
  /\ ncin \in Resolvers \union {None} /\ ncout \in Healers \union {None}
  /\ res \in [Resolvers -> {"off", "up", "done"}]
  /\ heal \in [Healers -> {"off", "made", "live", "stopping"}]
  /\ hch \in [Healers -> Healers \union {None}]
  /\ pub \in [Pubs -> [at: {"off", "get", "recv", "send"}, ch: Identities]]
  /\ thr \in [Threads -> Goroutine]
  /\ failed \in BOOLEAN /\ churned \in BOOLEAN /\ early \in SUBSET Healers
  /\ create \in {"no", "count", "query", "put"} /\ deaf \subseteq Watches /\ late \in BOOLEAN

\* Each goroutine is at a place of its own, and who works at a healer has one.
Stands(t) ==
  /\ thr[t].at \in PlacesOf[t]
  /\ thr[t].at \in {"chan", "go", "wait", "put", "halt"} => thr[t].id \in Healers
  /\ thr[t].at = "ask" => thr[t].id \in Healers \union {None}
  /\ thr[t].at = "go" => ncout # None
  /\ t # "run" => thr[t].then = "idle"

\* A healer whose run is under way listens to a channel.
ListenInv == \A h \in Healers : heal[h] = "live" => hch[h] # None

\* Where run is says whether the manager has loaded, and where it goes on.
RunInv ==
  /\ thr.run.at \in LoadPlaces => mgr = "loading"
  /\ thr.run.at \in EventPlaces => mgr # "loading"
  /\ thr.run.at \in {"checkN", "backendN"} /\ mgr = "loading" => thr.run.then = "loadH"
  /\ thr.run.at \in {"checkH", "ring", "backend", "chan", "go"} /\ mgr = "loading" =>
       thr.run.then = "watch"
  /\ thr.run.at \notin LoadPlaces \union {"idle"} /\ mgr # "loading" => thr.run.then = "select"

\* The goroutines besides run come with a move of the ring and with Stop.
OthersInv ==
  /\ mgr \in {"loading", "active"} => thr.saveN.at = "idle" /\ thr.saveH.at = "idle"
  /\ mgr = "loading" \/ ~churned => thr.reload.at = "idle"
  /\ ~churned => ~pending

\* The events of a watch alternate while it is open, and the last one is true of etcd.
Alternates(q, stored) ==
  /\ \A i \in 1 .. Len(q) - 1 : q[i] # q[i + 1]
  /\ q # << >> => (q[Len(q)] = "create" <=> stored)

QueueOK(w, stored) ==
  /\ mgr = "loading" \/ w \in deaf => todo[w] = << >>
  /\ Alternates(todo[w], stored)

QueueInv ==
  QueueOK("cloud", cloud) /\ QueueOK("healer", hkey) /\ (deaf # {} => failed)

\* The only goroutine that has ever worked on the registry is run.
Alone == Up /\ mgr \in {"loading", "active"} /\ ~churned

\* Alone, run stops what is registered, and registers what it is about to start.
SoloInv ==
  Alone =>
    /\ rqt.nr # None /\ thr.run.at # "forgetN" => res[rqt.nr] = "up"
    /\ thr.run.at = "stopN" => rqt.nr # None
    /\ thr.run.at = "get" => rqt.healer # None
    /\ thr.run.at = "ask" => thr.run.id # None
    /\ thr.run.at \in {"chan", "go"} => thr.run.id = rqt.healer /\ heal[thr.run.id] = "made"
    /\ thr.run.at = "go" => ncout = thr.run.id

\* The channels are those of the workers that are registered.
ChanInv ==
  /\ rqt.nr # None => ncin = rqt.nr
  /\ Alone /\ rqt.healer # None /\ heal[rqt.healer] = "live" => ncout = hch[rqt.healer]

\* Goroutine p of pubSubNodes serves resolver r and the healer listening to c.
Serves(p, r, c) ==
  \/ pub[p].at = "get"
  \/ pub[p] = [at |-> "recv", ch |-> r]
  \/ pub[p] = [at |-> "send", ch |-> c]

\* A registered healer that was started after its resolver has such a goroutine.
FedInv ==
  /\ Alone /\ rqt.nr # None /\ rqt.healer # None
  /\ rqt.healer \notin early /\ heal[rqt.healer] = "live"
  => \E p \in Pubs : Serves(p, rqt.nr, hch[rqt.healer])

\* Whether the key was there before the events of its watch that are still to come.
SeenBefore(q, stored) == IF q = << >> THEN stored ELSE q[1] = "delete"
Seen(w, stored) == SeenBefore(todo[w], stored)

\* What run has made of the cloud's events so far.
ResolverDone(at, c) ==
  CASE at = "loadN" -> rqt.nr = None /\ nrkey = c
    [] at = "checkN" -> c /\ rqt.nr = None /\ nrkey
    [] at = "putN" -> c /\ rqt.nr = None
    [] at = "backendN" -> c /\ rqt.nr = None /\ nrkey
    [] at \in {"stopN", "forgetN"} -> ~c /\ rqt.nr # None
    [] at = "delN" -> ~c /\ rqt.nr = None
    [] OTHER -> (rqt.nr # None) = c /\ nrkey = c

\* What run has made of the healer's events so far.
HealerDone(at, c) ==
  CASE at \in {"loadN", "checkN", "loadH"} \/ (at = "backendN" /\ mgr = "loading") ->
         rqt.healer = None
    [] at \in {"checkH", "ring"} -> c /\ rqt.healer = None
    [] at = "backend" -> c /\ mine /\ rqt.healer = None
    [] at \in {"chan", "go"} -> c /\ mine
    [] at \in {"get", "ask", "wait"} ->
         /\ ~c /\ mine /\ rqt.healer # None
         /\ at # "get" => thr.run.id = rqt.healer
         /\ at = "wait" => heal[rqt.healer] \notin {"made", "live"}
    [] OTHER -> (rqt.healer # None) = (c /\ mine)

\* The healer of a removed cloud is deleted by who handles the removal.
OrphanOK ==
  hkey /\ ~cloud =>
    todo.cloud # << >> \/ thr.run.at \in {"stopN", "forgetN", "delN", "dropH"}

ExactInv ==
  Alone /\ ~failed /\ ~late =>
    /\ ResolverDone(thr.run.at, Seen("cloud", cloud))
    /\ HealerDone(thr.run.at, Seen("healer", hkey))
    /\ \A h \in Healers : heal[h] \in {"made", "live"} => h = rqt.healer
    /\ OrphanOK

IInv ==
  /\ Types /\ (\A t \in Threads : Stands(t)) /\ ListenInv /\ RunInv /\ OthersInv /\ QueueInv
  /\ SoloInv /\ ChanInv /\ FedInv /\ ExactInv /\ StopsOnce

-----------------------------------------------------------------------------
(* Types.                                                                  *)

\* What the API does about a healer, and the end of a watch.
Meanwhile ==
  \/ AskCloud \/ CountHealers \/ TryQuery \/ CreateHealer \/ RemoveHealer
  \/ \E w \in Watches : WatchFails(w)

\* The steps that do not move a goroutine of the manager.
Around ==
  \/ WriteCloud \/ Meanwhile \/ RingMoves \/ Stopped
  \/ \E h \in Healers : HealerEnds(h)
  \/ \E r \in Resolvers : ResolverEnds(r)
  \/ \E p \in Pubs :
       \/ PubTurns(p)
       \/ \E r \in Resolvers : PubReceives(p, r)
       \/ \E h \in Healers : UpdateNodes(p, h)

\* Goroutine t decides where to go on, and changes nothing else.
Wanders(t) ==
  \/ t = "run" /\ (LoadResolver \/ LoadHealer \/ CheckResolver \/ CheckHealer \/ RunStops)
  \/ t = "reload" /\ (Look \/ LookUp)
  \/ AskRing(t) \/ GetHealer(t) \/ LeaveHealer(t)

\* Goroutine t asks etcd, reads an event or writes a key.
Asks(t) ==
  \/ t = "run" /\ (LoadFails \/ CloudCreated \/ CloudGone \/ HealerCreated \/ HealerGone
                   \/ DeleteResolver \/ DeleteHealer)
  \/ t = "reload" /\ (Rebalance \/ HandOver)
  \/ t = "saveH" /\ SaveHealer
  \/ PutResolver(t) \/ StartFails(t)

\* Goroutine t works on the registry, the channels or a worker.
Handles(t) ==
  \/ t = "run" /\ (OpenWatches \/ StartResolver)
  \/ SetHealer(t) \/ MakeChan(t) \/ GoHealer(t)
  \/ StopResolver(t) \/ ForgetResolver(t) \/ StopHealer(t) \/ ForgetHealer(t)

\* Every other step is the end of the process, or a Stop.
LEMMA Roles ==
  ASSUME Next
  PROVE  \/ Around \/ Stop \/ (\E why \in {"nil", "closed", "cloud", "race"} : Panics(why))
         \/ \E t \in Threads : Wanders(t) \/ Asks(t) \/ Handles(t)
<1>1. "run" \in Threads /\ "reload" \in Threads /\ "saveH" \in Threads
  BY DEF Threads
<1>2. ASSUME NEW t \in Threads,
             \/ AskRing(t) \/ CloudMissing(t) \/ StartFails(t)
             \/ SetHealer(t) \/ MakeChan(t) \/ GoHealer(t)
             \/ PutResolver(t) \/ StopResolver(t) \/ ClosedTwice(t) \/ NilWorker(t)
             \/ ForgetResolver(t) \/ GetHealer(t) \/ LeaveHealer(t) \/ StopHealer(t)
             \/ ForgetHealer(t)
      PROVE  \/ Wanders(t) \/ Asks(t) \/ Handles(t)
             \/ \E why \in {"nil", "closed", "cloud", "race"} : Panics(why)
  BY <1>2 DEF Wanders, Asks, Handles, CloudMissing, ClosedTwice, NilWorker
<1>3. CASE LoadResolver \/ LoadHealer \/ CheckResolver \/ CheckHealer \/ LoadFails \/ OpenWatches
           \/ CloudCreated \/ CloudGone \/ HealerCreated \/ HealerGone
           \/ StartResolver \/ DeleteResolver \/ DeleteHealer \/ RunStops
  BY <1>1, <1>3 DEF Wanders, Asks, Handles
<1>4. CASE Rebalance \/ Look \/ LookUp \/ HandOver \/ SaveHealer
  BY <1>1, <1>4 DEF Wanders, Asks
<1>5. CASE WriteCloud \/ Meanwhile \/ RingMoves \/ Stopped \/ (\E h \in Healers : HealerEnds(h))
           \/ (\E r \in Resolvers : ResolverEnds(r))
           \/ (\E p \in Pubs : \/ PubTurns(p)
                               \/ \E r \in Resolvers : PubReceives(p, r)
                               \/ \E h \in Healers : UpdateNodes(p, h))
  BY <1>5 DEF Around
<1>6. CASE MapRace
  BY <1>6 DEF MapRace
<1> QED
  BY <1>2, <1>3, <1>4, <1>5, <1>6 DEF Next, Meanwhile

\* The places by name.
LEMMA PlaceNames ==
  /\ PlacesOf["run"] = {"loadN", "checkN", "loadH", "checkH", "watch", "select", "putN", "stopN",
                        "forgetN", "delN", "dropH", "get", "ask", "wait", "ended", "backendN",
                        "ring", "backend", "chan", "go", "idle"}
  /\ PlacesOf["reload"] = {"idle", "look", "lookMine", "lookOther", "ring", "backend", "chan", "go",
                           "put", "halt", "wait"}
  /\ PlacesOf["saveN"] = {"idle", "putN", "stopN", "forgetN"}
  /\ PlacesOf["saveH"] = {"idle", "putH", "get", "ask", "wait"}
  /\ Threads = {"run", "reload", "saveN", "saveH"}
<1>1. Threads = {"run", "reload", "saveN", "saveH"}
  BY DEF Threads
<1>2. \A t \in Threads : PlacesOf[t] =
        CASE t = "run" -> LoadPlaces \union EventPlaces \union StartPlaces \union {"idle"}
          [] t = "reload" -> {"idle", "look", "lookMine", "lookOther", "ring", "backend", "chan", "go",
                              "put", "halt", "wait"}
          [] t = "saveN" -> {"idle", "putN", "stopN", "forgetN"}
          [] t = "saveH" -> {"idle", "putH", "get", "ask", "wait"}
  BY DEF PlacesOf
<1>3. PlacesOf["run"] = LoadPlaces \union EventPlaces \union StartPlaces \union {"idle"}
  BY <1>1, <1>2
<1>4. PlacesOf["reload"] = {"idle", "look", "lookMine", "lookOther", "ring", "backend", "chan", "go",
                            "put", "halt", "wait"}
  BY <1>1, <1>2
<1>5. PlacesOf["saveN"] = {"idle", "putN", "stopN", "forgetN"}
  BY <1>1, <1>2
<1>6. PlacesOf["saveH"] = {"idle", "putH", "get", "ask", "wait"}
  BY <1>1, <1>2
<1>7. LoadPlaces \union EventPlaces \union StartPlaces \union {"idle"} =
        {"loadN", "checkN", "loadH", "checkH", "watch", "select", "putN", "stopN",
         "forgetN", "delN", "dropH", "get", "ask", "wait", "ended", "backendN",
         "ring", "backend", "chan", "go", "idle"}
  BY DEF LoadPlaces, EventPlaces, StartPlaces
<1> QED
  BY <1>1, <1>3, <1>4, <1>5, <1>6, <1>7

\* The place of a goroutine is a place.
LEMMA PlaceIsPlace ==
  ASSUME NEW t \in Threads
  PROVE  PlacesOf[t] \subseteq Places
BY DEF Places

\* A goroutine goes somewhere, and the others stay.
LEMMA Goings ==
  ASSUME Types, NEW t \in Threads, NEW l \in PlacesOf[t], NEW i \in Identities, Goes(t, l, i)
  PROVE  /\ thr' \in [Threads -> Goroutine]
         /\ thr'[t].at = l /\ thr'[t].id = i /\ thr'[t].then = thr[t].then
         /\ \A u \in Threads : u # t => thr'[u] = thr[u]
<1>1. thr[t] \in Goroutine /\ l \in Places
  BY PlaceIsPlace DEF Types
<1>2. [thr[t] EXCEPT !.at = l] \in Goroutine
  BY <1>1 DEF Goroutine
<1>3. [[thr[t] EXCEPT !.at = l] EXCEPT !.id = i] \in Goroutine
  BY <1>2 DEF Goroutine
<1>4. thr' = [thr EXCEPT ![t] = [[thr[t] EXCEPT !.at = l] EXCEPT !.id = i]]
  BY DEF Types, Goes
<1>5. /\ [[thr[t] EXCEPT !.at = l] EXCEPT !.id = i].at = l
      /\ [[thr[t] EXCEPT !.at = l] EXCEPT !.id = i].id = i
      /\ [[thr[t] EXCEPT !.at = l] EXCEPT !.id = i].then = thr[t].then
  BY <1>1 DEF Goroutine
<1> QED
  BY <1>3, <1>4, <1>5 DEF Types

\* Where a goroutine can be next.
LEMMA Ways ==
  ASSUME Types, NEW t \in Threads, Stands(t)
  PROVE  /\ thr[t].then \in PlacesOf[t] /\ "idle" \in PlacesOf[t]
         /\ thr[t].at = "ring" => "backend" \in PlacesOf[t]
         /\ thr[t].at = "backend" => "chan" \in PlacesOf[t]
         /\ thr[t].at = "chan" => "go" \in PlacesOf[t]
         /\ thr[t].at = "get" => "ask" \in PlacesOf[t]
         /\ thr[t].at \in {"ask", "halt"} => "wait" \in PlacesOf[t]
         /\ thr[t].at = "stopN" => "forgetN" \in PlacesOf[t]
         /\ thr[t].at = "putN" => (IF t = "run" THEN "backendN" ELSE "stopN") \in PlacesOf[t]
<1>1. thr[t] \in Goroutine
  BY DEF Types
<1>2. CASE t = "run"
  BY <1>1, <1>2, PlaceNames DEF Goroutine
<1>3. CASE t = "reload"
  BY <1>3, PlaceNames DEF Stands
<1>4. CASE t = "saveN"
  BY <1>4, PlaceNames DEF Stands
<1>5. CASE t = "saveH"
  BY <1>5, PlaceNames DEF Stands
<1> QED
  BY <1>2, <1>3, <1>4, <1>5, PlaceNames

\* A goroutine comes to one of its places, and to a healer with one in hand.
Comes(t) ==
  /\ thr' \in [Threads -> Goroutine]
  /\ \A u \in Threads : u # t => thr'[u] = thr[u]
  /\ thr'[t].at \in PlacesOf[t]
  /\ thr'[t].at \in {"chan", "go", "wait", "put", "halt"} => thr'[t].id \in Healers
  /\ thr'[t].at = "ask" => thr'[t].id \in Healers \union {None}
  /\ t # "run" => thr'[t].then = "idle"

\* The end of an errand.
LEMMA Returning ==
  ASSUME Types, NEW t \in Threads, Stands(t), Returns(t)
  PROVE  Comes(t)
<1>1. thr[t].then \in PlacesOf[t] /\ thr[t].then \notin {"chan", "go", "wait", "put", "halt", "ask"}
  BY Ways DEF Types, Goroutine
<1>2. None \in Identities
  BY DEF Identities
<1> QED
  BY <1>1, <1>2, Goings DEF Returns, Comes, Stands

\* A step to where no healer is needed.
LEMMA Walking ==
  ASSUME Types, NEW t \in Threads, Stands(t), NEW l \in PlacesOf[t], Goes(t, l, None),
         l \notin {"chan", "go", "wait", "put", "halt"}
  PROVE  Comes(t)
<1>1. None \in Identities
  BY DEF Identities
<1> QED
  BY <1>1, Goings DEF Comes, Stands

\* A step with a healer in hand.
LEMMA Holding ==
  ASSUME Types, NEW t \in Threads, Stands(t), NEW l \in PlacesOf[t], NEW h \in Healers, Goes(t, l, h)
  PROVE  Comes(t)
<1>1. h \in Identities
  BY DEF Identities
<1> QED
  BY <1>1, Goings DEF Comes, Stands

\* What stands in etcd does not matter for where a goroutine goes.
LEMMA WandersComes ==
  ASSUME Types, NEW t \in Threads, Stands(t), Wanders(t)
  PROVE  Comes(t)
<1>1. ASSUME NEW key \in BOOLEAN, NEW next \in PlacesOf["run"], NEW after \in {"loadH", "watch"},
             next \notin {"chan", "go", "wait", "put", "halt", "ask"}, t = "run",
             thr' = [thr EXCEPT !.run = [at |-> IF key THEN next ELSE after,
                                         id |-> None, then |-> after]]
      PROVE  Comes(t)
  <2> DEFINE g == [at |-> IF key THEN next ELSE after, id |-> None, then |-> after]
  <2>1. g.at \in PlacesOf["run"] /\ g.at \notin {"chan", "go", "wait", "put", "halt", "ask"}
    BY <1>1, PlaceNames
  <2>2. g.at \in Places /\ None \in Identities
    BY <2>1, PlaceIsPlace, PlaceNames DEF Identities
  <2>3. g \in Goroutine
    BY <2>2 DEF Goroutine
  <2>4. thr' = [thr EXCEPT !["run"] = g]
    BY <1>1
  <2> HIDE DEF g
  <2> QED
    BY <1>1, <2>1, <2>3, <2>4 DEF Types, Comes
<1>2. CASE t = "run" /\ LoadResolver
  <2>1. thr' = [thr EXCEPT !.run = [at |-> IF nrkey THEN "checkN" ELSE "loadH",
                                    id |-> None, then |-> "loadH"]]
    BY <1>2 DEF LoadResolver, Reads
  <2>2. nrkey \in BOOLEAN /\ "checkN" \in PlacesOf["run"]
    BY PlaceNames DEF Types
  <2> QED
    BY <1>1, <1>2, <2>1, <2>2
<1>3. CASE t = "run" /\ LoadHealer
  <2>1. thr' = [thr EXCEPT !.run = [at |-> IF hkey THEN "checkH" ELSE "watch",
                                    id |-> None, then |-> "watch"]]
    BY <1>3 DEF LoadHealer, Reads
  <2>2. hkey \in BOOLEAN /\ "checkH" \in PlacesOf["run"]
    BY PlaceNames DEF Types
  <2> QED
    BY <1>1, <1>3, <2>1, <2>2
<1>4. ASSUME NEW l \in PlacesOf[t], Goes(t, l, None) \/ Goes(t, thr[t].then, None),
             l \notin {"chan", "go", "wait", "put", "halt"}
      PROVE  Comes(t)
  BY <1>4, Walking, Returning DEF Returns
<1>5. CASE t = "run" /\ CheckResolver
  <2>1. "backendN" \in PlacesOf["run"]
    BY PlaceNames
  <2> QED
    BY <1>4, <1>5, <2>1 DEF CheckResolver, CheckCloud, Steps
<1>6. CASE t = "run" /\ CheckHealer
  <2>1. "ring" \in PlacesOf["run"]
    BY PlaceNames
  <2> QED
    BY <1>4, <1>6, <2>1 DEF CheckHealer, CheckCloud, Steps
<1>7. CASE t = "run" /\ RunStops
  <2>1. "ended" \in PlacesOf["run"]
    BY PlaceNames
  <2> QED
    BY <1>4, <1>7, <2>1 DEF RunStops, Steps
<1>8. CASE t = "reload" /\ Look
  <2>1. "lookMine" \in PlacesOf["reload"] /\ "lookOther" \in PlacesOf["reload"]
    BY PlaceNames
  <2> QED
    BY <1>4, <1>8, <2>1 DEF Look, Steps
<1>9. CASE t = "reload" /\ LookUp
  <2>1. {"ring", "idle", "put"} \subseteq PlacesOf["reload"]
    BY PlaceNames
  <2>2. rqt.healer \in Healers \union {None}
    BY DEF Types
  <2> QED
    BY <1>4, <1>9, <2>1, <2>2, Holding DEF LookUp, Steps
<1>10. CASE AskRing(t) \/ LeaveHealer(t)
  <2>1. CASE AskRing(t)
    <3>1. "backend" \in PlacesOf[t]
      BY <2>1, Ways DEF AskRing, At
    <3> QED
      BY <1>4, <2>1, <3>1 DEF AskRing, Steps
  <2>2. CASE LeaveHealer(t)
    BY <2>2, Returning DEF LeaveHealer, Steps, Returns
  <2> QED
    BY <1>10, <2>1, <2>2
<1>11. CASE GetHealer(t)
  <2>1. "ask" \in PlacesOf[t] /\ rqt.healer \in Healers \union {None}
    BY <1>11, Ways DEF GetHealer, At, Types
  <2> QED
    BY <1>4, <1>11, <2>1, Holding DEF GetHealer, Steps
<1> QED
  BY <1>2, <1>3, <1>5, <1>6, <1>7, <1>8, <1>9, <1>10, <1>11 DEF Wanders

\* The same of the requests to etcd.
LEMMA AsksComes ==
  ASSUME Types, NEW t \in Threads, Stands(t), Asks(t)
  PROVE  Comes(t) \/ thr' = thr
<1>1. {"watch", "putN", "stopN", "dropH", "ring", "get", "select"} \subseteq PlacesOf["run"]
      /\ {"look", "idle", "halt"} \subseteq PlacesOf["reload"] /\ "get" \in PlacesOf["saveH"]
  BY PlaceNames
<1>2. CASE t = "run" /\ LoadFails
  BY <1>1, <1>2, Walking DEF LoadFails
<1>3. CASE t = "run" /\ (CloudCreated \/ CloudGone \/ HealerCreated \/ HealerGone)
  <2>1. \E l \in {"putN", "stopN", "dropH", "ring", "get", "select"} : Goes(t, l, None)
    BY <1>3 DEF CloudCreated, CloudGone, HealerCreated, HealerGone, Take
  <2> QED
    BY <1>1, <1>3, <2>1, Walking
<1>4. CASE t = "run" /\ (DeleteResolver \/ DeleteHealer)
  BY <1>1, <1>4, Walking, Returning DEF DeleteResolver, DeleteHealer
<1>5. CASE t = "reload" /\ Rebalance
  BY <1>1, <1>5, Walking DEF Rebalance
<1>6. CASE t = "reload" /\ HandOver
  <2>1. thr.reload.id \in Healers
    BY <1>6 DEF HandOver, At, Stands
  <2> QED
    BY <1>1, <1>6, <2>1, Holding, Returning DEF HandOver
<1>7. CASE t = "saveH" /\ SaveHealer
  BY <1>1, <1>7, Walking DEF SaveHealer
<1>8. CASE PutResolver(t)
  <2>1. (IF t = "run" THEN "backendN" ELSE "stopN") \in PlacesOf[t]
    BY <1>8, Ways DEF PutResolver, At
  <2>2. Goes(t, IF t = "run" THEN "backendN" ELSE "stopN", None)
    BY <1>8 DEF PutResolver
  <2>3. (IF t = "run" THEN "backendN" ELSE "stopN") \notin {"chan", "go", "wait", "put", "halt"}
    OBVIOUS
  <2> QED
    BY <2>1, <2>2, <2>3, Walking
<1>9. CASE StartFails(t)
  BY <1>9, Returning DEF StartFails
<1> QED
  BY <1>2, <1>3, <1>4, <1>5, <1>6, <1>7, <1>8, <1>9 DEF Asks

\* A healer that was free is one.
LEMMA FreshHealer ==
  ASSUME NEW t, NEW next, Registers(t, next)
  PROVE  \E h \in Healers : /\ heal[h] = "off"
                            /\ rqt' = [rqt EXCEPT !.healer = h]
                            /\ heal' = [heal EXCEPT ![h] = "made"]
                            /\ Goes(t, next, h)
<1> DEFINE free == {h \in Healers : heal[h] = "off"} \ Known
           h == CHOOSE x \in free : TRUE
<1>1. h \in free
  BY DEF Registers
<1>2. rqt' = [rqt EXCEPT !.healer = h] /\ heal' = [heal EXCEPT ![h] = "made"] /\ Goes(t, next, h)
  BY DEF Registers
<1> HIDE DEF h
<1> QED
  BY <1>1, <1>2

\* The same of the steps on the workers.
LEMMA HandlesComes ==
  ASSUME Types, NEW t \in Threads, Stands(t), Handles(t)
  PROVE  Comes(t)
<1>1. CASE t = "run" /\ OpenWatches
  <2> DEFINE g == [at |-> "select", id |-> None, then |-> "select"]
  <2>1. g \in Goroutine /\ g.at \in PlacesOf["run"]
    BY PlaceNames, PlaceIsPlace DEF Goroutine, Identities
  <2>2. thr' = [thr EXCEPT !["run"] = g]
    BY <1>1 DEF OpenWatches
  <2>3. g.at \notin {"chan", "go", "wait", "put", "halt", "ask"}
    OBVIOUS
  <2> HIDE DEF g
  <2> QED
    BY <1>1, <2>1, <2>2, <2>3 DEF Types, Comes
<1>2. CASE t = "run" /\ StartResolver
  BY <1>2, Returning DEF StartResolver
<1>3. CASE SetHealer(t)
  <2>1. "chan" \in PlacesOf[t]
    BY <1>3, Ways DEF SetHealer, Registers, At
  <2> QED
    BY <1>3, <2>1, FreshHealer, Holding DEF SetHealer
<1>4. CASE MakeChan(t)
  <2>1. "go" \in PlacesOf[t] /\ thr[t].id \in Healers
    BY <1>4, Ways DEF MakeChan, At, Stands
  <2> QED
    BY <1>4, <2>1, Holding DEF MakeChan
<1>5. CASE GoHealer(t)
  BY <1>5, Returning DEF GoHealer
<1>6. CASE StopResolver(t)
  <2>1. "forgetN" \in PlacesOf[t]
    BY <1>6, Ways DEF StopResolver, At
  <2> QED
    BY <1>6, <2>1, Walking DEF StopResolver
<1>7. CASE ForgetResolver(t)
  <2>1. "delN" \in PlacesOf["run"]
    BY PlaceNames
  <2> QED
    BY <1>7, <2>1, Walking, Returning DEF ForgetResolver
<1>8. CASE StopHealer(t)
  <2>1. "wait" \in PlacesOf[t] /\ thr[t].id \in Healers
    BY <1>8, Ways DEF StopHealer, At, Stands
  <2> QED
    BY <1>8, <2>1, Holding DEF StopHealer
<1>9. CASE ForgetHealer(t)
  BY <1>9, Returning DEF ForgetHealer
<1> QED
  BY <1>1, <1>2, <1>3, <1>4, <1>5, <1>6, <1>7, <1>8, <1>9 DEF Handles

-----------------------------------------------------------------------------
(* Every step keeps the types.                                             *)

\* What the types say of each group of variables.
EtcdTypes ==
  /\ cloud \in BOOLEAN /\ nrkey \in BOOLEAN /\ hkey \in BOOLEAN /\ failed \in BOOLEAN
  /\ todo \in [{"cloud", "healer"} -> Seq({"create", "delete"})]
  /\ create \in {"no", "count", "query", "put"} /\ deaf \subseteq Watches /\ late \in BOOLEAN

RingTypes == mine \in BOOLEAN /\ pending \in BOOLEAN /\ churned \in BOOLEAN

NodeTypes ==
  /\ mgr \in {"loading", "active", "stopping", "stopped"}
  /\ crash \in {"no", "nil", "closed", "cloud", "race"}
  /\ rqt \in [nr: Resolvers \union {None}, healer: Healers \union {None}]
  /\ ncin \in Resolvers \union {None} /\ ncout \in Healers \union {None}
  /\ res \in [Resolvers -> {"off", "up", "done"}]
  /\ heal \in [Healers -> {"off", "made", "live", "stopping"}]
  /\ hch \in [Healers -> Healers \union {None}]
  /\ pub \in [Pubs -> [at: {"off", "get", "recv", "send"}, ch: Identities]]
  /\ early \in SUBSET Healers

\* The types, group by group.
LEMMA TypesSplit == Types <=> EtcdTypes /\ RingTypes /\ NodeTypes /\ thr \in [Threads -> Goroutine]
BY DEF Types, EtcdTypes, RingTypes, NodeTypes

\* The same of the types after a step.
LEMMA TypesSplitNext ==
  Types' <=> EtcdTypes' /\ RingTypes' /\ NodeTypes' /\ thr' \in [Threads -> Goroutine]
BY DEF Types, EtcdTypes, RingTypes, NodeTypes

\* Writes, failed requests and events.
LEMMA EventTypes ==
  ASSUME EtcdTypes, NEW w \in {"cloud", "healer"}, NEW type \in {"create", "delete"},
         NodeTypes, Event(w, type)
  PROVE  /\ todo' \in [{"cloud", "healer"} -> Seq({"create", "delete"})]
         /\ failed' \in BOOLEAN /\ deaf' \subseteq Watches
BY DEF Event, EtcdTypes, NodeTypes

\* A step keeps the types of etcd and its events.
LEMMA EtcdTypesStep ==
  ASSUME Types, Around \/ Stop \/ (\E t \in Threads : Wanders(t) \/ Asks(t) \/ Handles(t))
  PROVE  EtcdTypes'
<1> USE TypesSplit
<1>0. ASSUME UNCHANGED <<cloud, nrkey, hkey, todo, failed, create, deaf, late>> PROVE EtcdTypes'
  BY <1>0 DEF EtcdTypes
<1>1. CASE UNCHANGED etcdVars
  BY <1>0, <1>1 DEF etcdVars, watchVars, apiVars
<1>2. ASSUME RequestFails PROVE EtcdTypes'
  BY <1>2 DEF RequestFails, EtcdTypes, apiVars
<1>3. CASE WriteCloud
  BY <1>3, EventTypes DEF WriteCloud, EtcdTypes, apiVars
<1>4. CASE Meanwhile
  <2>1. CASE AskCloud \/ CountHealers \/ TryQuery
    BY <2>1 DEF AskCloud, CountHealers, TryQuery, CreateGoes, watchVars, EtcdTypes
  <2>2. CASE CreateHealer
    BY <2>2, EventTypes DEF CreateHealer, Put, NoEvent, watchVars, EtcdTypes
  <2>3. CASE RemoveHealer
    BY <2>3, EventTypes DEF RemoveHealer, apiVars, EtcdTypes
  <2>4. ASSUME NEW w \in Watches, WatchFails(w) PROVE EtcdTypes'
    <3>1. todo' \in [{"cloud", "healer"} -> Seq({"create", "delete"})]
      BY <2>4 DEF WatchFails, Watches, EtcdTypes
    <3> QED
      BY <2>4, <3>1 DEF WatchFails, apiVars, EtcdTypes
  <2> QED
    BY <1>4, <2>1, <2>2, <2>3, <2>4 DEF Meanwhile
<1>5. CASE RingMoves \/ Stop
  BY <1>0, <1>5 DEF RingMoves, Stop, watchVars, apiVars
<1>6. ASSUME NEW w \in {"cloud", "healer"}, NEW type, NEW stage, Take(w, type, stage)
      PROVE  EtcdTypes'
  BY <1>6 DEF Take, EtcdTypes, apiVars
<1>7. ASSUME PutHealer PROVE EtcdTypes'
  BY <1>7, EventTypes DEF PutHealer, Put, NoEvent, watchVars, apiVars, EtcdTypes
<1>8. CASE Around
  <2>1. CASE Stopped \/ \E h \in Healers : HealerEnds(h)
    BY <1>1, <2>1 DEF Stopped, HealerEnds
  <2>2. CASE \E r \in Resolvers : ResolverEnds(r)
    BY <1>1, <2>2 DEF ResolverEnds
  <2>3. ASSUME NEW p \in Pubs,
               \/ PubTurns(p)
               \/ \E r \in Resolvers : PubReceives(p, r)
               \/ \E h \in Healers : UpdateNodes(p, h)
        PROVE  UNCHANGED etcdVars
    <3>1. \E s : PubGoes(p, s)
      BY <2>3 DEF PubTurns, PubReceives, UpdateNodes
    <3> QED
      BY <3>1 DEF PubGoes
  <2> QED
    BY <1>1, <1>3, <1>4, <1>5, <1>8, <2>1, <2>2, <2>3 DEF Around
<1>9. ASSUME NEW t \in Threads, Wanders(t) \/ Handles(t) PROVE UNCHANGED etcdVars
  BY <1>9 DEF Wanders, LoadResolver, LoadHealer, Reads, CheckResolver, CheckHealer, CheckCloud, RunStops,
       Look, LookUp, AskRing, GetHealer, LeaveHealer, Steps, Handles, OpenWatches, StartResolver,
       SetHealer, Registers, MakeChan, GoHealer, StopResolver, ForgetResolver, StopHealer, ForgetHealer
<1>10. ASSUME NEW t \in Threads, Asks(t) PROVE EtcdTypes'
  <2>1. CASE LoadFails \/ StartFails(t)
    BY <1>2, <2>1 DEF LoadFails, StartFails
  <2>2. CASE CloudCreated \/ CloudGone \/ HealerCreated \/ HealerGone
    BY <1>6, <2>2 DEF CloudCreated, CloudGone, HealerCreated, HealerGone
  <2>3. CASE DeleteResolver \/ PutResolver(t)
    BY <1>2, <2>3 DEF DeleteResolver, PutResolver, watchVars, apiVars, EtcdTypes
  <2>4. CASE DeleteHealer
    BY <1>2, <2>4, EventTypes DEF DeleteHealer, NoEvent, watchVars, apiVars, EtcdTypes
  <2>5. CASE Rebalance
    BY <1>1, <1>2, <2>5 DEF Rebalance
  <2>6. CASE HandOver \/ SaveHealer
    BY <1>2, <1>7, <2>6 DEF HandOver, SaveHealer
  <2> QED
    BY <1>10, <2>1, <2>2, <2>3, <2>4, <2>5, <2>6 DEF Asks
<1> QED
  BY <1>1, <1>5, <1>8, <1>9, <1>10

\* A step keeps the types of the ring.
LEMMA RingTypesStep ==
  ASSUME Types, Around \/ Stop \/ (\E t \in Threads : Wanders(t) \/ Asks(t) \/ Handles(t))
  PROVE  RingTypes'
<1> USE TypesSplit
<1>1. ASSUME UNCHANGED ringVars PROVE RingTypes'
  BY <1>1 DEF ringVars, RingTypes
<1>2. CASE Around
  <2>1. CASE RingMoves
    BY <2>1 DEF RingMoves, RingTypes
  <2>2. ASSUME NEW p \in Pubs,
               \/ PubTurns(p)
               \/ \E r \in Resolvers : PubReceives(p, r)
               \/ \E h \in Healers : UpdateNodes(p, h)
        PROVE  UNCHANGED ringVars
    <3>1. \E s : PubGoes(p, s)
      BY <2>2 DEF PubTurns, PubReceives, UpdateNodes
    <3> QED
      BY <3>1 DEF PubGoes
  <2> QED
    BY <1>1, <1>2, <2>1, <2>2 DEF Around, WriteCloud, Meanwhile, CreateHealer, RemoveHealer, AskCloud,
       CountHealers, TryQuery, CreateGoes, WatchFails, Stopped, HealerEnds, ResolverEnds
<1>3. CASE Stop
  BY <1>1, <1>3 DEF Stop
<1>4. ASSUME NEW t \in Threads, Wanders(t) \/ Handles(t) PROVE RingTypes'
  BY <1>1, <1>4 DEF Wanders, LoadResolver, LoadHealer, Reads, CheckResolver, CheckHealer, CheckCloud, RunStops,
       Look, LookUp, AskRing, GetHealer, LeaveHealer, Steps, Handles, OpenWatches, StartResolver,
       SetHealer, Registers, MakeChan, GoHealer, StopResolver, ForgetResolver, StopHealer, ForgetHealer
<1>5. ASSUME NEW t \in Threads, Asks(t) PROVE RingTypes'
  <2>1. CASE Rebalance
    BY <2>1 DEF Rebalance, RingTypes
  <2> QED
    BY <1>1, <1>5, <2>1 DEF Asks, LoadFails, StartFails, CloudCreated, CloudGone, HealerCreated, HealerGone,
         Take, DeleteResolver, PutResolver, DeleteHealer, HandOver, SaveHealer
<1> QED
  BY <1>2, <1>3, <1>4, <1>5

\* The channel a goroutine of pubSubNodes waits at is one that was made.
LEMMA PubTypes ==
  ASSUME NodeTypes, NEW p \in Pubs,
         \/ PubTurns(p)
         \/ \E r \in Resolvers : PubReceives(p, r)
         \/ \E h \in Healers : UpdateNodes(p, h)
  PROVE  /\ NodeTypes'
         /\ UNCHANGED <<etcdVars, ringVars, ncin, ncout, hch, early, workers, mgr, crash, thr>>
         /\ \A q \in Pubs : q # p => pub'[q] = pub[q]
<1> DEFINE S == [at: {"off", "get", "recv", "send"}, ch: Identities]
<1>1. Off \in S /\ Turn \in S /\ [at |-> "recv", ch |-> ncin] \in S /\ [at |-> "send", ch |-> ncout] \in S
  BY DEF Off, Turn, Identities, NodeTypes
<1>2. \E s \in S : PubGoes(p, s)
  <2>1. CASE PubTurns(p)
    BY <1>1, <2>1 DEF PubTurns
  <2>2. CASE \E r \in Resolvers : PubReceives(p, r)
    BY <1>1, <2>2 DEF PubReceives
  <2>3. CASE \E h \in Healers : UpdateNodes(p, h)
    BY <1>1, <2>3 DEF UpdateNodes
  <2> QED
    BY <2>1, <2>2, <2>3
<1> QED
  BY <1>2 DEF PubGoes, NodeTypes, workers

\* A resolver that was free is one.
LEMMA FreshResolver ==
  ASSUME StartResolver
  PROVE  \E r \in Resolvers : /\ res[r] = "off"
                              /\ rqt' = [rqt EXCEPT !.nr = r] /\ ncin' = r
                              /\ res' = [res EXCEPT ![r] = "up"]
<1> DEFINE free == {r \in Resolvers : res[r] = "off"} \ Known
           r == CHOOSE x \in free : TRUE
<1>1. r \in free
  BY DEF StartResolver
<1>2. rqt' = [rqt EXCEPT !.nr = r] /\ ncin' = r /\ res' = [res EXCEPT ![r] = "up"]
  BY DEF StartResolver
<1> HIDE DEF r
<1> QED
  BY <1>1, <1>2

\* A goroutine of pubSubNodes is started that was none.
LEMMA FreshPub ==
  ASSUME NEW t, GoHealer(t)
  PROVE  \E p \in Pubs : pub[p].at = "off" /\ pub' = [pub EXCEPT ![p].at = "get"]
<1> DEFINE free == {p \in Pubs : pub[p].at = "off"}
           p == CHOOSE x \in free : TRUE
<1>1. p \in free
  BY DEF GoHealer
<1>2. pub' = [pub EXCEPT ![p].at = "get"]
  BY DEF GoHealer
<1> HIDE DEF p
<1> QED
  BY <1>1, <1>2

\* A step keeps the types of the workers and the channels.
LEMMA NodeTypesStep ==
  ASSUME Types, \A t \in Threads : Stands(t),
         Around \/ Stop \/ (\E t \in Threads : Wanders(t) \/ Asks(t) \/ Handles(t))
  PROVE  NodeTypes'
<1> USE TypesSplit
<1>1. ASSUME UNCHANGED Node PROVE NodeTypes'
  BY <1>1 DEF Node, chanVars, workers, NodeTypes
<1>2. CASE Around
  <2>1. CASE Stopped \/ \E h \in Healers : HealerEnds(h)
    BY <2>1 DEF Stopped, HealerEnds, NodeTypes, chanVars, workers
  <2>2. CASE \E r \in Resolvers : ResolverEnds(r)
    BY <2>2 DEF ResolverEnds, NodeTypes, chanVars
  <2>3. CASE WriteCloud \/ Meanwhile \/ RingMoves
    BY <1>1, <2>3 DEF WriteCloud, Meanwhile, CreateHealer, RemoveHealer, AskCloud,
       CountHealers, TryQuery, CreateGoes, WatchFails, RingMoves
  <2> QED
    BY <1>2, <2>1, <2>2, <2>3, PubTypes DEF Around
<1>3. CASE Stop
  BY <1>3 DEF Stop, NodeTypes, chanVars, workers
<1>4. ASSUME NEW t \in Threads, Wanders(t) \/ Asks(t) PROVE NodeTypes'
  BY <1>1, <1>4 DEF Wanders, LoadResolver, LoadHealer, Reads, CheckResolver, CheckHealer, CheckCloud, RunStops,
       Look, LookUp, AskRing, GetHealer, LeaveHealer, Steps, Asks, LoadFails, StartFails, CloudCreated,
       CloudGone, HealerCreated, HealerGone, Take, DeleteResolver, PutResolver, DeleteHealer, Rebalance,
       HandOver, SaveHealer
<1>5. ASSUME NEW t \in Threads, Handles(t) PROVE NodeTypes'
  <2>1. CASE OpenWatches
    BY <2>1 DEF OpenWatches, NodeTypes, chanVars, workers
  <2>2. CASE StartResolver
    <3>1. early' \in SUBSET Healers /\ UNCHANGED <<ncout, hch, pub, heal, mgr, crash>>
      BY <2>2 DEF StartResolver
    <3> QED
      BY <2>2, <3>1, FreshResolver DEF NodeTypes
  <2>3. CASE SetHealer(t)
    <3>1. UNCHANGED <<chanVars, res, mgr, crash>>
      BY <2>3 DEF SetHealer, Registers
    <3>2. PICK h \in Healers : /\ rqt' = [rqt EXCEPT !.healer = h]
                               /\ heal' = [heal EXCEPT ![h] = "made"]
      BY <2>3, FreshHealer DEF SetHealer
    <3> QED
      BY <3>1, <3>2 DEF NodeTypes, chanVars
  <2>4. CASE MakeChan(t)
    <3>1. thr[t].id \in Healers
      BY <2>4 DEF MakeChan, At, Stands
    <3> QED
      BY <2>4, <3>1 DEF MakeChan, NodeTypes, workers
  <2>5. CASE GoHealer(t)
    <3>1. thr[t].id \in Healers /\ ncout \in Healers \union {None}
      BY <2>5 DEF GoHealer, At, Stands, NodeTypes
    <3>2. PICK p \in Pubs : pub' = [pub EXCEPT ![p].at = "get"]
      BY <2>5, FreshPub
    <3>3. pub' \in [Pubs -> [at: {"off", "get", "recv", "send"}, ch: Identities]]
      BY <3>2 DEF NodeTypes
    <3>4. hch' \in [Healers -> Healers \union {None}]
      BY <2>5, <3>1 DEF GoHealer, NodeTypes
    <3>5. heal' \in [Healers -> {"off", "made", "live", "stopping"}]
      BY <2>5, <3>1 DEF GoHealer, NodeTypes
    <3>6. early' \in SUBSET Healers
      BY <2>5, <3>1 DEF GoHealer, NodeTypes
    <3> QED
      BY <2>5, <3>3, <3>4, <3>5, <3>6 DEF GoHealer, NodeTypes
  <2>6. CASE StopResolver(t)
    BY <2>6 DEF StopResolver, NodeTypes, chanVars
  <2>7. CASE ForgetResolver(t)
    BY <2>7 DEF ForgetResolver, NodeTypes, chanVars
  <2>8. CASE StopHealer(t)
    BY <2>8 DEF StopHealer, NodeTypes, chanVars
  <2>9. CASE ForgetHealer(t)
    BY <2>9 DEF ForgetHealer, NodeTypes, chanVars
  <2> QED
    BY <1>5, <2>1, <2>2, <2>3, <2>4, <2>5, <2>6, <2>7, <2>8, <2>9 DEF Handles
<1> QED
  BY <1>2, <1>3, <1>4, <1>5

\* No goroutine of the manager moves in the steps around it.
LEMMA AroundFrame ==
  ASSUME Types, Around
  PROVE  thr' = thr /\ UNCHANGED <<rqt, ncin, ncout, hch, nrkey, crash>>
<1>1. ASSUME NEW p \in Pubs,
             \/ PubTurns(p)
             \/ \E r \in Resolvers : PubReceives(p, r)
             \/ \E h \in Healers : UpdateNodes(p, h)
      PROVE  UNCHANGED <<thr, rqt, ncin, ncout, hch, nrkey, crash>>
  BY <1>1, PubTypes, TypesSplit DEF workers, etcdVars
<1> QED
  BY <1>1 DEF Around, WriteCloud, Meanwhile, CreateHealer, RemoveHealer, AskCloud,
       CountHealers, TryQuery, CreateGoes, WatchFails, RingMoves, Stopped, HealerEnds, ResolverEnds, Node, chanVars,
       workers, etcdVars

\* Stop starts the two goroutines of save.
LEMMA StopMoves ==
  ASSUME Types, \A t \in Threads : Stands(t), Stop
  PROVE  /\ thr' \in [Threads -> Goroutine]
         /\ thr'["run"] = thr["run"] /\ thr'["reload"] = thr["reload"]
         /\ thr'["saveN"].at \in {"idle", "putN"} /\ thr'["saveN"].then = "idle"
         /\ thr'["saveH"].at \in {"idle", "putH"} /\ thr'["saveH"].then = "idle"
         /\ UNCHANGED ncout
<1> DEFINE n == IF rqt.nr # None THEN "putN" ELSE "idle"
           h == IF rqt.healer # None THEN "putH" ELSE "idle"
<1>1. thr' = [thr EXCEPT !["saveN"].at = n, !["saveH"].at = h] /\ UNCHANGED ncout
  BY DEF Stop, chanVars
<1>2. n \in {"idle", "putN"} /\ h \in {"idle", "putH"} /\ n \in Places /\ h \in Places
  BY PlaceNames, PlaceIsPlace
<1> HIDE DEF n, h
<1>3. [thr["saveN"] EXCEPT !.at = n] \in Goroutine /\ [thr["saveH"] EXCEPT !.at = h] \in Goroutine
  <2>1. thr["saveN"] \in Goroutine /\ thr["saveH"] \in Goroutine
    BY PlaceNames DEF Types
  <2> QED
    BY <1>2, <2>1 DEF Goroutine
<1>4. thr' = [[thr EXCEPT !["saveN"] = [thr["saveN"] EXCEPT !.at = n]]
                   EXCEPT !["saveH"] = [thr["saveH"] EXCEPT !.at = h]]
  BY <1>1, PlaceNames DEF Types
<1>5. thr["saveN"].then = "idle" /\ thr["saveH"].then = "idle"
  BY PlaceNames DEF Stands
<1>6. thr["saveN"] \in Goroutine /\ thr["saveH"] \in Goroutine
  BY PlaceNames DEF Types
<1>7. /\ [thr["saveN"] EXCEPT !.at = n].at = n /\ [thr["saveH"] EXCEPT !.at = h].at = h
      /\ [thr["saveN"] EXCEPT !.at = n].then = thr["saveN"].then
      /\ [thr["saveH"] EXCEPT !.at = h].then = thr["saveH"].then
  BY <1>6 DEF Goroutine
<1>8. /\ thr' \in [Threads -> Goroutine]
      /\ thr'["saveN"] = [thr["saveN"] EXCEPT !.at = n]
      /\ thr'["saveH"] = [thr["saveH"] EXCEPT !.at = h]
      /\ thr'["run"] = thr["run"] /\ thr'["reload"] = thr["reload"]
  BY <1>3, <1>4, PlaceNames DEF Types
<1> QED
  BY <1>1, <1>2, <1>5, <1>7, <1>8

\* The types hold after every step that the process survives.
LEMMA TypesStep ==
  ASSUME Types, \A t \in Threads : Stands(t),
         Around \/ Stop \/ (\E t \in Threads : Wanders(t) \/ Asks(t) \/ Handles(t))
  PROVE  Types'
<1>1. thr' \in [Threads -> Goroutine]
  BY AroundFrame, StopMoves, WandersComes, AsksComes, HandlesComes DEF Comes, Types
<1> QED
  BY <1>1, EtcdTypesStep, RingTypesStep, NodeTypesStep, TypesSplitNext

\* The channel of the healers stays, but in MakeChan.
LEMMA ChanStays ==
  ASSUME NEW t \in Threads, Wanders(t) \/ Asks(t) \/ Handles(t), ~MakeChan(t)
  PROVE  ncout' = ncout
BY DEF Wanders, LoadResolver, LoadHealer, Reads, CheckResolver, CheckHealer, CheckCloud, RunStops,
       Look, LookUp, AskRing, GetHealer, LeaveHealer, Steps, Asks, LoadFails, StartFails, CloudCreated,
       CloudGone, HealerCreated, HealerGone, Take, DeleteResolver, PutResolver, DeleteHealer, Rebalance,
       HandOver, SaveHealer, Handles, OpenWatches, StartResolver, SetHealer, Registers, GoHealer,
       StopResolver, ForgetResolver, StopHealer, ForgetHealer, Node, chanVars

\* Who makes a goroutine go finds it at the channel.
LEMMA OnlyChanGoes ==
  ASSUME Types, NEW t \in Threads, Stands(t), Wanders(t) \/ Asks(t) \/ Handles(t), thr'[t].at = "go"
  PROVE  MakeChan(t) \/ thr'[t] = thr[t]
<1>1. None \in Identities /\ rqt.healer \in Identities /\ thr[t].id \in Identities
  BY DEF Identities, Types, Goroutine
<1>2. thr[t].then \in PlacesOf[t] /\ thr[t].then # "go"
  BY Ways DEF Types, Goroutine
<1>3. ASSUME NEW l \in PlacesOf[t], l # "go", NEW i \in Identities, Goes(t, l, i)
      PROVE  FALSE
  BY <1>3, Goings
<1>4. ~Returns(t)
  BY <1>1, <1>2, <1>3 DEF Returns
<1>5. CASE Wanders(t)
  <2>1. CASE t = "run" /\ (LoadResolver \/ LoadHealer)
    BY <2>1 DEF LoadResolver, LoadHealer, Reads, Types
  <2>2. CASE t = "run" /\ (CheckResolver \/ CheckHealer \/ RunStops)
    BY <1>1, <1>2, <1>3, <2>2, PlaceNames DEF CheckResolver, CheckHealer, CheckCloud, RunStops, Steps
  <2>3. CASE t = "reload" /\ (Look \/ LookUp)
    BY <1>1, <1>2, <1>3, <2>3, PlaceNames DEF Look, LookUp, Steps
  <2>4. CASE AskRing(t)
    BY <1>1, <1>2, <1>3, <2>4, Ways DEF AskRing, Steps, At
  <2>5. CASE GetHealer(t) \/ LeaveHealer(t)
    BY <1>1, <1>2, <1>3, <2>5, Ways DEF GetHealer, LeaveHealer, Steps, At
  <2> QED
    BY <1>5, <2>1, <2>2, <2>3, <2>4, <2>5 DEF Wanders
<1>6. CASE Asks(t)
  <2>1. CASE t = "run" /\ LoadFails
    BY <1>1, <1>3, <2>1, PlaceNames DEF LoadFails
  <2>2. CASE t = "run" /\ (CloudCreated \/ CloudGone \/ HealerCreated \/ HealerGone)
    <3>1. \E l \in {"putN", "stopN", "dropH", "ring", "get", "select"} : Goes(t, l, None)
      BY <2>2 DEF CloudCreated, CloudGone, HealerCreated, HealerGone, Take
    <3> QED
      BY <1>1, <1>3, <2>2, <3>1, PlaceNames
  <2>3. CASE t = "run" /\ (DeleteResolver \/ DeleteHealer)
    BY <1>1, <1>3, <1>4, <2>3, PlaceNames DEF DeleteResolver, DeleteHealer
  <2>4. CASE t = "reload" /\ Rebalance
    BY <1>1, <1>3, <2>4, PlaceNames DEF Rebalance
  <2>5. CASE t = "reload" /\ HandOver
    BY <1>1, <1>3, <1>4, <2>5, PlaceNames DEF HandOver
  <2>6. CASE t = "saveH" /\ SaveHealer
    BY <1>1, <1>3, <2>6, PlaceNames DEF SaveHealer
  <2>7. CASE PutResolver(t)
    <3>1. Goes(t, IF t = "run" THEN "backendN" ELSE "stopN", None)
      BY <2>7 DEF PutResolver
    <3>2. (IF t = "run" THEN "backendN" ELSE "stopN") \in PlacesOf[t]
      BY <2>7, Ways DEF PutResolver, At
    <3> QED
      BY <1>1, <1>3, <3>1, <3>2
  <2>8. CASE StartFails(t)
    BY <1>4, <2>8 DEF StartFails
  <2> QED
    BY <1>6, <2>1, <2>2, <2>3, <2>4, <2>5, <2>6, <2>7, <2>8 DEF Asks
<1>7. CASE Handles(t)
  <2>1. CASE t = "run" /\ OpenWatches
    BY <2>1 DEF OpenWatches, Types
  <2>2. CASE t = "run" /\ StartResolver
    BY <1>4, <2>2 DEF StartResolver
  <2>3. CASE SetHealer(t)
    <3>1. PICK h \in Healers : Goes(t, "chan", h)
      BY <2>3, FreshHealer DEF SetHealer
    <3>2. "chan" \in PlacesOf[t] /\ h \in Identities
      BY <2>3, Ways DEF SetHealer, Registers, At, Identities
    <3> QED
      BY <1>3, <3>1, <3>2
  <2>4. CASE GoHealer(t) \/ ForgetHealer(t)
    BY <1>4, <2>4 DEF GoHealer, ForgetHealer
  <2>5. CASE StopResolver(t)
    BY <1>1, <1>3, <2>5, Ways DEF StopResolver, At
  <2>6. CASE ForgetResolver(t)
    BY <1>1, <1>3, <1>4, <2>6, PlaceNames DEF ForgetResolver
  <2>7. CASE StopHealer(t)
    BY <1>1, <1>3, <2>7, Ways DEF StopHealer, At
  <2> QED
    BY <1>7, <2>1, <2>2, <2>3, <2>4, <2>5, <2>6, <2>7 DEF Handles
<1> QED
  BY <1>5, <1>6, <1>7

\* Every goroutine stands where it may after every such step.
LEMMA StandsStep ==
  ASSUME Types, \A t \in Threads : Stands(t), NEW u \in Threads,
         Around \/ Stop \/ (\E t \in Threads : Wanders(t) \/ Asks(t) \/ Handles(t))
  PROVE  Stands(u)'
<1>1. CASE Around
  BY <1>1, AroundFrame DEF Stands
<1>2. CASE Stop
  BY <1>2, StopMoves, PlaceNames DEF Stands
<1>3. ASSUME NEW t \in Threads, Wanders(t) \/ Asks(t) \/ Handles(t)
      PROVE  Stands(u)'
  <2>1. Comes(t) \/ thr' = thr
    BY <1>3, WandersComes, AsksComes, HandlesComes
  <2>2. CASE MakeChan(t)
    <3>1. ncout' = thr[t].id /\ thr[t].id \in Healers
      BY <2>2 DEF MakeChan, At, Stands
    <3> QED
      BY <2>1, <3>1, HealerManagerAssumption DEF Comes, Stands
  <2>3. CASE ~MakeChan(t)
    <3>1. ncout' = ncout
      BY <1>3, <2>3, ChanStays
    <3>2. thr'[u].at = "go" => thr'[u] = thr[u]
      BY <1>3, <2>1, <2>3, OnlyChanGoes DEF Comes
    <3> QED
      BY <2>1, <3>1, <3>2 DEF Comes, Stands
  <2> QED
    BY <2>2, <2>3
<1> QED
  BY <1>1, <1>2, <1>3

-----------------------------------------------------------------------------
(* The stages of run, and the goroutines beside it.                        *)

\* Deciding and asking leave the node's workers alone.
LEMMA NodeStays ==
  ASSUME NEW t \in Threads, Wanders(t) \/ Asks(t)
  PROVE  UNCHANGED <<rqt, res, heal, ncin, ncout, hch, pub, early, mgr, crash>>
<1>1. UNCHANGED Node
  BY DEF Wanders, LoadResolver, LoadHealer, Reads, CheckResolver, CheckHealer, CheckCloud, RunStops,
       Look, LookUp, AskRing, GetHealer, LeaveHealer, Steps, Asks, LoadFails, StartFails, CloudCreated,
       CloudGone, HealerCreated, HealerGone, Take, DeleteResolver, PutResolver, DeleteHealer, Rebalance,
       HandOver, SaveHealer
<1> QED
  BY <1>1 DEF Node, chanVars, workers

\* What a step on a worker leaves alone.
LEMMA HandlesFrame ==
  ASSUME NEW t \in Threads, Handles(t)
  PROVE  /\ UNCHANGED <<cloud, nrkey, hkey, todo, deaf, changes, failed, late, mine, pending, churned, crash>>
         /\ (t = "run" /\ OpenWatches) \/ mgr' = mgr
BY DEF Handles, OpenWatches, StartResolver, SetHealer, Registers, MakeChan, GoHealer,
       StopResolver, ForgetResolver, StopHealer, ForgetHealer, etcdVars, watchVars, apiVars, ringVars

\* A healer comes to live by its run, which is given a channel.
LEMMA ListenStep ==
  ASSUME Types, \A t \in Threads : Stands(t), ListenInv,
         Around \/ Stop \/ (\E t \in Threads : Wanders(t) \/ Asks(t) \/ Handles(t))
  PROVE  ListenInv'
<1>1. ASSUME hch' = hch, \A h \in Healers : heal'[h] = "live" => heal[h] = "live"
      PROVE  ListenInv'
  BY <1>1 DEF ListenInv
<1>2. CASE Around
  <2>1. \A h \in Healers : heal'[h] = "live" => heal[h] = "live"
    <3>1. ASSUME NEW p \in Pubs,
                 \/ PubTurns(p)
                 \/ \E r \in Resolvers : PubReceives(p, r)
                 \/ \E h \in Healers : UpdateNodes(p, h)
          PROVE  UNCHANGED heal
      BY <3>1, PubTypes, TypesSplit DEF workers
    <3>2. ASSUME NEW h \in Healers, HealerEnds(h)
          PROVE  heal' = [heal EXCEPT ![h] = "off"]
      BY <3>2 DEF HealerEnds
    <3>3. CASE WriteCloud \/ Meanwhile \/ RingMoves \/ Stopped \/ \E r \in Resolvers : ResolverEnds(r)
      BY <3>3 DEF WriteCloud, Meanwhile, CreateHealer, RemoveHealer, AskCloud,
       CountHealers, TryQuery, CreateGoes, WatchFails, RingMoves, Stopped, ResolverEnds, Node, workers
    <3> QED
      BY <1>2, <3>1, <3>2, <3>3 DEF Around, Types
  <2> QED
    BY <1>1, <1>2, <2>1, AroundFrame
<1>3. CASE Stop
  BY <1>1, <1>3 DEF Stop, chanVars, workers
<1>4. ASSUME NEW t \in Threads, Wanders(t) \/ Asks(t) PROVE ListenInv'
  BY <1>1, <1>4, NodeStays
<1>5. ASSUME NEW t \in Threads, Handles(t) PROVE ListenInv'
  <2>1. CASE GoHealer(t)
    <3>1. thr[t].id \in Healers /\ ncout # None
      BY <2>1 DEF GoHealer, At, Stands
    <3>2. hch' = [hch EXCEPT ![thr[t].id] = ncout]
          /\ heal' = [heal EXCEPT ![thr[t].id] = IF heal[thr[t].id] = "made" THEN "live" ELSE heal[thr[t].id]]
      BY <2>1 DEF GoHealer
    <3> QED
      BY <3>1, <3>2 DEF ListenInv, Types
  <2>2. CASE SetHealer(t)
    <3>1. PICK h \in Healers : heal' = [heal EXCEPT ![h] = "made"]
      BY <2>2, FreshHealer DEF SetHealer
    <3>2. hch' = hch
      BY <2>2 DEF SetHealer, Registers, chanVars
    <3> QED
      BY <1>1, <3>1, <3>2 DEF Types
  <2>3. CASE StopHealer(t)
    <3>1. thr[t].id \in Healers /\ hch' = hch
          /\ heal' = [heal EXCEPT ![thr[t].id] = IF heal[thr[t].id] \in {"made", "live"} THEN "stopping" ELSE heal[thr[t].id]]
      BY <2>3 DEF StopHealer, At, Stands, chanVars
    <3> QED
      BY <1>1, <3>1 DEF Types
  <2>4. CASE (t = "run" /\ (OpenWatches \/ StartResolver)) \/ MakeChan(t) \/ StopResolver(t)
             \/ ForgetResolver(t) \/ ForgetHealer(t)
    BY <1>1, <2>4 DEF OpenWatches, StartResolver, MakeChan, StopResolver, ForgetResolver, ForgetHealer,
       chanVars, workers
  <2> QED
    BY <1>5, <2>1, <2>2, <2>3, <2>4 DEF Handles
<1> QED
  BY <1>2, <1>3, <1>4, <1>5

\* Where run goes on, its stage is that of the manager.
LEMMA RunGoes ==
  ASSUME Types, RunInv, NEW l \in PlacesOf["run"], NEW i \in Identities, Goes("run", l, i),
         mgr' = mgr,
         l \in LoadPlaces => mgr = "loading",
         l \in EventPlaces => mgr # "loading",
         l \in {"checkN", "backendN"} /\ mgr = "loading" => thr.run.then = "loadH",
         l \in {"checkH", "ring", "backend", "chan", "go"} /\ mgr = "loading" => thr.run.then = "watch",
         l \notin LoadPlaces \union {"idle"} /\ mgr # "loading" => thr.run.then = "select"
  PROVE  RunInv'
<1>1. thr'["run"].at = l /\ thr'["run"].then = thr["run"].then
  BY Goings, PlaceNames
<1> QED
  BY <1>1 DEF RunInv

\* What run returns to.
LEMMA RunReturns ==
  ASSUME Types, Stands("run"), RunInv, Returns("run"), mgr' = mgr,
         \/ thr.run.at \in StartPlaces \union {"checkN", "checkH"}
         \/ thr.run.at \in {"dropH", "wait", "forgetN", "ask"}
  PROVE  RunInv'
<1>1. thr.run.then \in PlacesOf["run"] /\ None \in Identities
  BY Ways, PlaceNames DEF Identities
<1>2. mgr = "loading" => thr.run.then \in {"loadH", "watch"}
  BY DEF RunInv, StartPlaces, EventPlaces, LoadPlaces
<1>3. mgr # "loading" => thr.run.then = "select"
  BY DEF RunInv, StartPlaces, EventPlaces, LoadPlaces
<1> QED
  BY <1>1, <1>2, <1>3, RunGoes DEF Returns, LoadPlaces, EventPlaces

\* The stage of run stays that of the manager.
LEMMA RunStep ==
  ASSUME Types, \A t \in Threads : Stands(t), RunInv,
         Around \/ Stop \/ (\E t \in Threads : Wanders(t) \/ Asks(t) \/ Handles(t))
  PROVE  RunInv'
<1> USE PlaceNames
<1>0. None \in Identities /\ Stands("run")
  BY DEF Identities
<1>1. ASSUME thr'["run"] = thr["run"], (mgr' = "loading") <=> (mgr = "loading")
      PROVE  RunInv'
  BY <1>1 DEF RunInv
<1>2. CASE Around
  <2>1. ASSUME NEW p \in Pubs,
               \/ PubTurns(p)
               \/ \E r \in Resolvers : PubReceives(p, r)
               \/ \E h \in Healers : UpdateNodes(p, h)
        PROVE  UNCHANGED mgr
    BY <2>1, PubTypes, TypesSplit
  <2>2. (mgr' = "loading") <=> (mgr = "loading")
    BY <1>2, <2>1 DEF Around, WriteCloud, Meanwhile, CreateHealer, RemoveHealer, AskCloud,
       CountHealers, TryQuery, CreateGoes, WatchFails, RingMoves, Stopped, HealerEnds, ResolverEnds, Node
  <2> QED
    BY <1>1, <1>2, <2>2, AroundFrame
<1>3. CASE Stop
  BY <1>1, <1>3, StopMoves DEF Stop
<1>4. ASSUME NEW t \in Threads, t # "run", Wanders(t) \/ Asks(t) \/ Handles(t)
      PROVE  RunInv'
  <2>1. Comes(t) \/ thr' = thr
    BY <1>4, WandersComes, AsksComes, HandlesComes
  <2>2. mgr' = mgr
    BY <1>4, NodeStays, HandlesFrame
  <2> QED
    BY <1>1, <1>4, <2>1, <2>2 DEF Comes
<1>5. CASE Wanders("run")
  <2>0. mgr' = mgr
    BY <1>5, NodeStays
  <2>1. CASE LoadResolver
    <3>1. thr' = [thr EXCEPT !.run = [at |-> IF nrkey THEN "checkN" ELSE "loadH", id |-> None, then |-> "loadH"]]
          /\ mgr = "loading"
      BY <2>1 DEF LoadResolver, Reads, At, RunInv, LoadPlaces
    <3>2. thr'["run"].at \in {"checkN", "loadH"} /\ thr'["run"].then = "loadH"
      BY <3>1 DEF Types
    <3> QED
      BY <2>0, <3>1, <3>2 DEF RunInv, EventPlaces
  <2>2. CASE LoadHealer
    <3>1. thr' = [thr EXCEPT !.run = [at |-> IF hkey THEN "checkH" ELSE "watch", id |-> None, then |-> "watch"]]
          /\ mgr = "loading"
      BY <2>2 DEF LoadHealer, Reads, At, RunInv, LoadPlaces
    <3>2. thr'["run"].at \in {"checkH", "watch"} /\ thr'["run"].then = "watch"
      BY <3>1 DEF Types
    <3> QED
      BY <2>0, <3>1, <3>2 DEF RunInv, EventPlaces
  <2>3. CASE CheckResolver
    <3>1. CASE Goes("run", "backendN", None)
      BY <1>0, <2>0, <2>3, <3>1, RunGoes DEF CheckResolver, CheckCloud, At, RunInv, LoadPlaces, EventPlaces
    <3>2. CASE Returns("run")
      BY <1>0, <2>0, <2>3, <3>2, RunReturns DEF CheckResolver, CheckCloud, At
    <3> QED
      BY <2>3, <3>1, <3>2 DEF CheckResolver, CheckCloud, Steps, Returns
  <2>4. CASE CheckHealer
    <3>1. CASE Goes("run", "ring", None)
      BY <1>0, <2>0, <2>4, <3>1, RunGoes DEF CheckHealer, CheckCloud, At, RunInv, LoadPlaces, EventPlaces
    <3>2. CASE Returns("run")
      BY <1>0, <2>0, <2>4, <3>2, RunReturns DEF CheckHealer, CheckCloud, At
    <3> QED
      BY <2>4, <3>1, <3>2 DEF CheckHealer, CheckCloud, Steps, Returns
  <2>5. CASE RunStops
    BY <1>0, <2>0, <2>5, RunGoes DEF RunStops, Steps, At, RunInv, LoadPlaces, EventPlaces
  <2>6. CASE AskRing("run")
    <3>1. CASE Goes("run", "backend", None)
      BY <1>0, <2>0, <2>6, <3>1, RunGoes DEF AskRing, At, RunInv, LoadPlaces, EventPlaces
    <3>2. CASE Returns("run")
      BY <1>0, <2>0, <2>6, <3>2, RunReturns DEF AskRing, At, StartPlaces
    <3> QED
      BY <2>6, <3>1, <3>2 DEF AskRing, Steps, Returns
  <2>7. CASE GetHealer("run")
    <3>1. rqt.healer \in Identities
      BY DEF Types, Identities
    <3> QED
      BY <2>0, <2>7, <3>1, RunGoes DEF GetHealer, Steps, At, RunInv, LoadPlaces, EventPlaces
  <2>8. CASE LeaveHealer("run")
    BY <1>0, <2>0, <2>8, RunReturns DEF LeaveHealer, Steps, At, Returns
  <2> QED
    BY <1>5, <2>1, <2>2, <2>3, <2>4, <2>5, <2>6, <2>7, <2>8 DEF Wanders
<1>6. CASE Asks("run")
  <2>0. mgr' = mgr
    BY <1>6, NodeStays
  <2>1. CASE LoadFails
    BY <1>0, <2>0, <2>1, RunGoes DEF LoadFails, At, RunInv, LoadPlaces, EventPlaces
  <2>2. CASE CloudCreated \/ CloudGone \/ HealerCreated \/ HealerGone
    <3>1. PICK l \in {"putN", "stopN", "dropH", "ring", "get", "select"} : Goes("run", l, None)
      BY <2>2 DEF CloudCreated, CloudGone, HealerCreated, HealerGone, Take
    <3>2. thr.run.at = "select"
      BY <2>2 DEF CloudCreated, CloudGone, HealerCreated, HealerGone, Take, At
    <3>3. mgr # "loading" /\ thr.run.then = "select"
      BY <3>2 DEF RunInv, EventPlaces, LoadPlaces
    <3> QED
      BY <1>0, <2>0, <3>1, <3>3, RunGoes DEF LoadPlaces
  <2>3. CASE DeleteResolver
    BY <1>0, <2>0, <2>3, RunGoes DEF DeleteResolver, At, RunInv, LoadPlaces, EventPlaces
  <2>4. CASE DeleteHealer
    BY <1>0, <2>0, <2>4, RunReturns DEF DeleteHealer, At
  <2>5. CASE PutResolver("run")
    BY <1>0, <2>0, <2>5, RunGoes DEF PutResolver, At, RunInv, LoadPlaces, EventPlaces
  <2>6. CASE StartFails("run")
    <3>1. thr.run.at \in StartPlaces \union {"checkN", "checkH"}
      BY <2>6 DEF StartFails, At, StartPlaces
    <3> QED
      BY <1>0, <2>0, <2>6, <3>1, RunReturns DEF StartFails
  <2> QED
    BY <1>6, <2>1, <2>2, <2>3, <2>4, <2>5, <2>6 DEF Asks
<1>7. CASE Handles("run")
  <2>1. CASE OpenWatches
    <3>1. thr'["run"] = [at |-> "select", id |-> None, then |-> "select"] /\ mgr' = "active"
      BY <2>1 DEF OpenWatches, Types
    <3> QED
      BY <3>1 DEF RunInv, LoadPlaces
  <2>2. CASE ~OpenWatches
    <3>0. mgr' = mgr
      BY <1>7, <2>2, HandlesFrame
    <3>1. CASE StartResolver \/ GoHealer("run")
      BY <1>0, <3>0, <3>1, RunReturns DEF StartResolver, GoHealer, At, StartPlaces
    <3>2. CASE SetHealer("run")
      <4>1. PICK h \in Healers : Goes("run", "chan", h)
        BY <3>2, FreshHealer DEF SetHealer
      <4> QED
        BY <3>0, <3>2, <4>1, RunGoes DEF SetHealer, Registers, At, RunInv, LoadPlaces, EventPlaces, Identities
    <3>3. CASE MakeChan("run")
      <4>1. thr.run.id \in Identities
        BY DEF Types, Goroutine
      <4> QED
        BY <3>0, <3>3, <4>1, RunGoes DEF MakeChan, At, RunInv, LoadPlaces, EventPlaces
    <3>4. CASE StopResolver("run")
      BY <1>0, <3>0, <3>4, RunGoes DEF StopResolver, At, RunInv, LoadPlaces, EventPlaces
    <3>5. CASE ForgetResolver("run")
      BY <1>0, <3>0, <3>5, RunGoes DEF ForgetResolver, At, RunInv, LoadPlaces, EventPlaces
    <3>6. CASE StopHealer("run")
      <4>1. thr.run.id \in Identities /\ thr.run.at # "halt"
        BY <1>0 DEF Types, Goroutine, Stands
      <4> QED
        BY <3>0, <3>6, <4>1, RunGoes DEF StopHealer, At, RunInv, LoadPlaces, EventPlaces
    <3>7. CASE ForgetHealer("run")
      BY <1>0, <3>0, <3>7, RunReturns DEF ForgetHealer, At
    <3> QED
      BY <1>7, <2>2, <3>1, <3>2, <3>3, <3>4, <3>5, <3>6, <3>7 DEF Handles
  <2> QED
    BY <2>1, <2>2
<1> QED
  BY <1>2, <1>3, <1>4, <1>5, <1>6, <1>7

\* A goroutine that is idle does nothing but take a reload.
LEMMA IdleRests ==
  ASSUME NEW t \in Threads, thr[t].at = "idle", Wanders(t) \/ Asks(t) \/ Handles(t)
  PROVE  t = "reload" /\ Rebalance
BY DEF Wanders, LoadResolver, LoadHealer, Reads, CheckResolver, CheckHealer, CheckCloud, RunStops,
       Look, LookUp, AskRing, GetHealer, LeaveHealer, Asks, LoadFails, StartFails, CloudCreated,
       CloudGone, HealerCreated, HealerGone, Take, DeleteResolver, PutResolver, DeleteHealer,
       HandOver, SaveHealer, Handles, OpenWatches, StartResolver, SetHealer, Registers, MakeChan, GoHealer,
       StopResolver, ForgetResolver, StopHealer, ForgetHealer, At

\* How the stage of the manager and the ring's observers change.
LEMMA Courses ==
  ASSUME Types, RunInv, OthersInv,
         Around \/ Stop \/ (\E t \in Threads : Wanders(t) \/ Asks(t) \/ Handles(t))
  PROVE  /\ mgr' = "loading" => mgr = "loading"
         /\ mgr' = "active" => mgr \in {"loading", "active"}
         /\ ~churned' => ~churned /\ ~pending'
<1>0. ASSUME UNCHANGED <<churned, pending>> PROVE ~churned' => ~churned /\ ~pending'
  BY <1>0 DEF OthersInv
<1>1. CASE Around
  <2>1. ASSUME NEW p \in Pubs,
               \/ PubTurns(p)
               \/ \E r \in Resolvers : PubReceives(p, r)
               \/ \E h \in Healers : UpdateNodes(p, h)
        PROVE  UNCHANGED <<mgr, churned, pending>>
    BY <2>1, PubTypes, TypesSplit DEF ringVars
  <2>2. CASE RingMoves
    BY <2>2 DEF RingMoves, Node
  <2> QED
    BY <1>0, <1>1, <2>1, <2>2 DEF Around, WriteCloud, Meanwhile, CreateHealer, RemoveHealer, AskCloud,
       CountHealers, TryQuery, CreateGoes, WatchFails, Stopped, HealerEnds, ResolverEnds, Node, ringVars
<1>2. CASE Stop
  BY <1>0, <1>2 DEF Stop, ringVars
<1>3. ASSUME NEW t \in Threads, Wanders(t) PROVE UNCHANGED <<mgr, churned, pending>>
  <2>1. mgr' = mgr
    BY <1>3, NodeStays
  <2>2. UNCHANGED ringVars
    BY <1>3 DEF Wanders, LoadResolver, LoadHealer, Reads, CheckResolver, CheckHealer, CheckCloud, RunStops,
       Look, LookUp, AskRing, GetHealer, LeaveHealer, Steps
  <2> QED
    BY <2>1, <2>2 DEF ringVars
<1>4. ASSUME NEW t \in Threads, Asks(t)
      PROVE  mgr' = mgr /\ (~churned' => ~churned /\ ~pending')
  <2>1. mgr' = mgr
    BY <1>4, NodeStays
  <2>2. CASE Rebalance
    BY <2>1, <2>2 DEF Rebalance
  <2>3. CASE ~Rebalance
    <3>1. UNCHANGED ringVars
      BY <1>4, <2>3 DEF Asks, LoadFails, StartFails, CloudCreated, CloudGone, HealerCreated, HealerGone,
         Take, DeleteResolver, PutResolver, DeleteHealer, HandOver, SaveHealer
    <3> QED
      BY <1>0, <2>1, <3>1 DEF ringVars
  <2> QED
    BY <2>2, <2>3
<1>5. ASSUME NEW t \in Threads, Handles(t)
      PROVE  /\ mgr' = mgr \/ (mgr = "loading" /\ mgr' = "active")
             /\ UNCHANGED <<churned, pending>>
  <2>1. CASE OpenWatches
    BY <2>1 DEF OpenWatches, ringVars, At, RunInv, LoadPlaces
  <2> QED
    BY <1>5, <2>1, HandlesFrame
<1> QED
  BY <1>0, <1>1, <1>2, <1>3, <1>4, <1>5

\* No other goroutine is at work before its time.
LEMMA OthersStep ==
  ASSUME Types, \A t \in Threads : Stands(t), RunInv, OthersInv,
         Around \/ Stop \/ (\E t \in Threads : Wanders(t) \/ Asks(t) \/ Handles(t))
  PROVE  OthersInv'
<1>1. CASE Around
  BY <1>1, AroundFrame, Courses DEF OthersInv, Types
<1>2. CASE Stop
  <2>1. mgr' = "stopping"
    BY <1>2 DEF Stop
  <2> QED
    BY <1>2, <2>1, StopMoves, Courses DEF OthersInv
<1>3. ASSUME NEW t \in Threads, Wanders(t) \/ Asks(t) \/ Handles(t)
      PROVE  OthersInv'
  <2>1. Comes(t) \/ thr' = thr
    BY <1>3, WandersComes, AsksComes, HandlesComes
  <2>2. ASSUME NEW u \in Threads, thr[u].at = "idle", ~(u = "reload" /\ Rebalance)
        PROVE  thr'[u] = thr[u]
    BY <1>3, <2>1, <2>2, IdleRests DEF Comes
  <2>3. Rebalance => pending /\ mgr # "loading"
    BY DEF Rebalance
  <2>4. mgr' \in {"loading", "active"} => thr'["saveN"].at = "idle" /\ thr'["saveH"].at = "idle"
    BY <1>3, <2>2, Courses, PlaceNames DEF OthersInv
  <2>5. mgr' = "loading" \/ ~churned' => thr'["reload"].at = "idle"
    BY <1>3, <2>2, <2>3, Courses, PlaceNames DEF OthersInv
  <2> QED
    BY <1>3, <2>4, <2>5, Courses DEF OthersInv
<1> QED
  BY <1>1, <1>2, <1>3

-----------------------------------------------------------------------------
(* The events of the watches.                                              *)

\* A write after the last event.
LEMMA OneMoreEvent ==
  ASSUME NEW q \in Seq({"create", "delete"}), NEW s \in BOOLEAN, Alternates(q, s)
  PROVE  LET e == IF s THEN "delete" ELSE "create"
         IN  /\ Alternates(Append(q, e), ~s)
             /\ SeenBefore(Append(q, e), ~s) = SeenBefore(q, s)
<1> DEFINE e == IF s THEN "delete" ELSE "create"
           a == Append(q, e)
<1>1. e \in {"create", "delete"} /\ (e = "create" <=> ~s) /\ (e = "delete" <=> s)
  OBVIOUS
<1> HIDE DEF e
<1>2. /\ a \in Seq({"create", "delete"}) /\ Len(a) = Len(q) + 1 /\ a[Len(q) + 1] = e
      /\ \A i \in 1 .. Len(q) : a[i] = q[i]
  BY <1>1
<1>3. Len(q) \in Nat /\ (q = << >> <=> Len(q) = 0) /\ (\A i \in 1 .. Len(q) : q[i] \in {"create", "delete"})
  OBVIOUS
<1> HIDE DEF a
<1>4. \A i \in 1 .. Len(a) - 1 : a[i] # a[i + 1]
  <2> TAKE i \in 1 .. Len(a) - 1
  <2>1. CASE i < Len(q)
    BY <1>2, <1>3, <2>1 DEF Alternates
  <2>2. CASE i = Len(q)
    <3>1. a[i] = q[Len(q)] /\ a[i + 1] = e
      BY <1>2, <1>3, <2>2
    <3> QED
      BY <1>1, <1>3, <2>2, <3>1 DEF Alternates
  <2> QED
    BY <1>2, <1>3, <2>1, <2>2
<1>5. a # << >> /\ (a[Len(a)] = "create" <=> ~s)
  BY <1>1, <1>2, <1>3
<1>6. (a[1] = "delete") = SeenBefore(q, s)
  <2>1. CASE q = << >>
    BY <1>1, <1>2, <1>3, <2>1 DEF SeenBefore
  <2>2. CASE q # << >>
    BY <1>2, <1>3, <2>2 DEF SeenBefore
  <2> QED
    BY <2>1, <2>2
<1> QED
  BY <1>4, <1>5, <1>6 DEF Alternates, SeenBefore, a, e

\* The first event is taken.
LEMMA OneLessEvent ==
  ASSUME NEW q \in Seq({"create", "delete"}), NEW s \in BOOLEAN, Alternates(q, s), q # << >>
  PROVE  /\ Alternates(Tail(q), s)
         /\ SeenBefore(q, s) = (Head(q) = "delete")
         /\ SeenBefore(Tail(q), s) = (Head(q) = "create")
<1> DEFINE a == Tail(q)
<1>1. /\ a \in Seq({"create", "delete"}) /\ Len(a) = Len(q) - 1
      /\ \A i \in 1 .. Len(a) : a[i] = q[i + 1]
      /\ Head(q) = q[1]
  OBVIOUS
<1> HIDE DEF a
<1>2. /\ Len(q) \in Nat /\ Len(q) > 0 /\ Len(a) \in Nat
      /\ a = << >> <=> Len(a) = 0
      /\ \A i \in 1 .. Len(q) : q[i] \in {"create", "delete"}
  <2>1. Len(q) \in Nat /\ Len(q) > 0
    OBVIOUS
  <2>2. Len(a) \in Nat /\ (a = << >> <=> Len(a) = 0)
    BY <1>1
  <2> QED
    BY <2>1, <2>2
<1>3. \A i \in 1 .. Len(a) - 1 : a[i] # a[i + 1]
  BY <1>1, <1>2 DEF Alternates
<1>4. a # << >> => (a[Len(a)] = "create" <=> s)
  BY <1>1, <1>2 DEF Alternates
<1>5. SeenBefore(a, s) = (Head(q) = "create")
  <2>1. CASE a = << >>
    <3>0. Len(a) = 0 /\ Len(a) = Len(q) - 1 /\ Len(q) \in Nat
      BY <1>1, <1>2, <2>1
    <3>1. Len(q) = 1
      BY <3>0
    <3>2. Head(q) = "create" <=> s
      BY <1>1, <3>1 DEF Alternates
    <3> QED
      BY <2>1, <3>2 DEF SeenBefore
  <2>2. CASE a # << >>
    <3>1. a[1] = q[2] /\ q[1] # q[2] /\ q[1] \in {"create", "delete"} /\ q[2] \in {"create", "delete"}
      BY <1>1, <1>2, <2>2 DEF Alternates
    <3> QED
      BY <1>1, <2>2, <3>1 DEF SeenBefore
  <2> QED
    BY <2>1, <2>2
<1>6. SeenBefore(q, s) = (Head(q) = "delete")
  BY <1>1 DEF SeenBefore
<1> QED
  BY <1>3, <1>4, <1>5, <1>6 DEF Alternates, a

\* A write of a key is seen as what it was by who has not taken its event.
LEMMA WrittenQueue ==
  ASSUME Types, NEW w \in {"cloud", "healer"}, NEW s \in BOOLEAN, QueueOK(w, s), mgr # "loading",
         w \notin deaf, Event(w, IF s THEN "delete" ELSE "create")
  PROVE  /\ Alternates(todo'[w], ~s)
         /\ SeenBefore(todo'[w], ~s) = SeenBefore(todo[w], s)
         /\ \A v \in {"cloud", "healer"} : v # w => todo'[v] = todo[v]
<1> DEFINE e == IF s THEN "delete" ELSE "create"
<1>1. todo' = [todo EXCEPT ![w] = Append(todo[w], e)]
  BY DEF Event
<1>2. todo[w] \in Seq({"create", "delete"})
  BY DEF Types
<1>3. todo'[w] = Append(todo[w], e) /\ \A v \in {"cloud", "healer"} : v # w => todo'[v] = todo[v]
  BY <1>1 DEF Types
<1> QED
  BY <1>2, <1>3, OneMoreEvent DEF QueueOK

\* An event is taken as what it says.
LEMMA TakenQueue ==
  ASSUME Types, NEW w \in {"cloud", "healer"}, NEW s \in BOOLEAN, QueueOK(w, s),
         NEW type, NEW stage, Take(w, type, stage)
  PROVE  /\ Alternates(todo'[w], s)
         /\ SeenBefore(todo[w], s) = (type = "delete")
         /\ SeenBefore(todo'[w], s) = (type = "create")
         /\ todo[w] # << >> /\ Head(todo[w]) = type
         /\ \A v \in {"cloud", "healer"} : v # w => todo'[v] = todo[v]
<1>1. todo[w] # << >> /\ Head(todo[w]) = type /\ todo' = [todo EXCEPT ![w] = Tail(todo[w])]
  BY DEF Take
<1>2. todo[w] \in Seq({"create", "delete"})
  BY DEF Types
<1>3. todo'[w] = Tail(todo[w]) /\ \A v \in {"cloud", "healer"} : v # w => todo'[v] = todo[v]
  BY <1>1 DEF Types
<1> QED
  BY <1>1, <1>2, <1>3, OneLessEvent DEF QueueOK

\* Before the watches are open there is nothing to keep in order.
LEMMA EventKeeps ==
  ASSUME Types, NEW w \in {"cloud", "healer"}, NEW s \in BOOLEAN, QueueOK(w, s),
         Event(w, IF s THEN "delete" ELSE "create")
  PROVE  /\ mgr = "loading" \/ w \in deaf => todo'[w] = << >>
         /\ Alternates(todo'[w], ~s)
         /\ \A v \in {"cloud", "healer"} : v # w => todo'[v] = todo[v]
<1>1. CASE mgr = "loading" \/ w \in deaf
  <2>1. todo' = todo /\ todo[w] = << >>
    BY <1>1 DEF Event, QueueOK
  <2>2. Alternates(<< >>, ~s)
    BY DEF Alternates
  <2> QED
    BY <2>1, <2>2
<1>2. CASE mgr # "loading" /\ w \notin deaf
  BY <1>2, WrittenQueue
<1> QED
  BY <1>1, <1>2

\* The same of the put of a healer, which may be no event.
LEMMA PutKeeps ==
  ASSUME Types, QueueOK("healer", hkey), Put
  PROVE  /\ mgr = "loading" \/ "healer" \in deaf => todo'["healer"] = << >>
         /\ Alternates(todo'["healer"], hkey')
         /\ todo'["cloud"] = todo["cloud"]
<1>1. CASE hkey
  BY <1>1 DEF Put, NoEvent, watchVars, QueueOK
<1>2. CASE ~hkey
  <2>1. hkey = FALSE /\ Event("healer", IF FALSE THEN "delete" ELSE "create") /\ hkey' = TRUE
    BY <1>2 DEF Put, Types
  <2>2. QueueOK("healer", FALSE)
    BY <2>1
  <2> QED
    BY <2>1, <2>2, EventKeeps
<1> QED
  BY <1>1, <1>2

\* The events of both watches stay in order.
LEMMA QueueStep ==
  ASSUME Types, \A t \in Threads : Stands(t), RunInv, OthersInv, QueueInv,
         Around \/ Stop \/ (\E t \in Threads : Wanders(t) \/ Asks(t) \/ Handles(t))
  PROVE  QueueInv'
<1>1. mgr' = "loading" => mgr = "loading"
  BY Courses
<1>2. ASSUME UNCHANGED <<todo, cloud, hkey, deaf>>, failed => failed' PROVE QueueInv'
  BY <1>1, <1>2 DEF QueueInv, QueueOK
<1>3. ASSUME /\ mgr = "loading" \/ "cloud" \in deaf => todo'["cloud"] = << >>
             /\ deaf' = deaf /\ (failed => failed')
             /\ Alternates(todo'["cloud"], cloud')
             /\ todo'["healer"] = todo["healer"] /\ hkey' = hkey
      PROVE  QueueInv'
  BY <1>1, <1>3 DEF QueueInv, QueueOK
<1>4. ASSUME /\ mgr = "loading" \/ "healer" \in deaf => todo'["healer"] = << >>
             /\ deaf' = deaf /\ (failed => failed')
             /\ Alternates(todo'["healer"], hkey')
             /\ todo'["cloud"] = todo["cloud"] /\ cloud' = cloud
      PROVE  QueueInv'
  BY <1>1, <1>4 DEF QueueInv, QueueOK
<1>5. CASE WriteCloud
  <2>1. PICK s \in BOOLEAN : s = cloud
    BY DEF Types
  <2>2. /\ Event("cloud", IF s THEN "delete" ELSE "create") /\ QueueOK("cloud", s)
        /\ cloud' = ~s /\ hkey' = hkey /\ deaf' = deaf /\ (failed => failed')
    BY <1>5, <2>1 DEF WriteCloud, QueueInv, Event
  <2> QED
    BY <1>3, <2>2, EventKeeps
<1>6. CASE Meanwhile
  <2>1. CASE AskCloud \/ CountHealers \/ TryQuery
    BY <1>2, <2>1 DEF AskCloud, CountHealers, TryQuery, CreateGoes, watchVars
  <2>2. CASE CreateHealer
    <3>1. QueueOK("healer", hkey) /\ Put /\ cloud' = cloud
      BY <2>2 DEF CreateHealer, QueueInv
    <3>2. deaf' = deaf /\ (failed => failed')
      BY <3>1 DEF Put, NoEvent, watchVars, Event
    <3> QED
      BY <1>4, <3>1, <3>2, PutKeeps
  <2>3. CASE RemoveHealer
    <3>1. QueueOK("healer", TRUE) /\ Event("healer", IF TRUE THEN "delete" ELSE "create")
          /\ hkey' = FALSE /\ cloud' = cloud
      <4>1. hkey = TRUE
        BY <2>3 DEF RemoveHealer, Types
      <4> QED
        BY <2>3, <4>1 DEF RemoveHealer, QueueInv
    <3>2. deaf' = deaf /\ (failed => failed')
      BY <3>1 DEF Event
    <3> QED
      BY <1>4, <3>1, <3>2, EventKeeps
  <2>4. ASSUME NEW w \in Watches, WatchFails(w) PROVE QueueInv'
    <3>1. /\ todo'[w] = << >> /\ \A v \in Watches : v # w => todo'[v] = todo[v]
          /\ deaf' = deaf \union {w} /\ failed' /\ UNCHANGED <<cloud, hkey>>
          /\ Watches = {"cloud", "healer"}
      BY <2>4 DEF WatchFails, Types, Watches
    <3>2. \A b : Alternates(<< >>, b)
      BY DEF Alternates
    <3> QED
      BY <1>1, <3>1, <3>2 DEF QueueInv, QueueOK
  <2> QED
    BY <1>6, <2>1, <2>2, <2>3, <2>4 DEF Meanwhile
<1>7. CASE Around
  <2>1. ASSUME NEW p \in Pubs,
               \/ PubTurns(p)
               \/ \E r \in Resolvers : PubReceives(p, r)
               \/ \E h \in Healers : UpdateNodes(p, h)
        PROVE  UNCHANGED <<todo, cloud, hkey, deaf, failed>>
    BY <2>1, PubTypes, TypesSplit DEF etcdVars, watchVars
  <2>2. CASE RingMoves \/ Stopped \/ (\E h \in Healers : HealerEnds(h)) \/ \E r \in Resolvers : ResolverEnds(r)
    BY <1>2, <2>2 DEF RingMoves, Stopped, HealerEnds, ResolverEnds, etcdVars, watchVars
  <2> QED
    BY <1>2, <1>5, <1>6, <1>7, <2>1, <2>2 DEF Around
<1>8. CASE Stop
  BY <1>2, <1>8 DEF Stop, watchVars
<1>9. ASSUME NEW t \in Threads, Wanders(t) PROVE UNCHANGED etcdVars
  BY <1>9 DEF Wanders, LoadResolver, LoadHealer, Reads, CheckResolver, CheckHealer, CheckCloud, RunStops,
       Look, LookUp, AskRing, GetHealer, LeaveHealer, Steps
<1>10. ASSUME NEW t \in Threads, Handles(t) PROVE QueueInv'
  BY <1>2, <1>10, HandlesFrame
<1>11. ASSUME NEW t \in Threads, Asks(t) PROVE QueueInv'
  <2>0. ASSUME RequestFails PROVE QueueInv'
    BY <1>2, <2>0 DEF RequestFails
  <2>1. CASE LoadFails \/ StartFails(t)
    BY <2>0, <2>1 DEF LoadFails, StartFails
  <2>2. ASSUME NEW w \in {"cloud", "healer"}, NEW type, NEW stage, Take(w, type, stage)
        PROVE  QueueInv'
    <3>0. /\ thr.run.at = "select" /\ mgr # "loading" /\ cloud' = cloud /\ hkey' = hkey
          /\ deaf' = deaf /\ failed' = failed /\ w \notin deaf
      BY <2>2 DEF Take, At, RunInv, EventPlaces, QueueInv, QueueOK
    <3>1. CASE w = "cloud"
      <4>1. PICK s \in BOOLEAN : s = cloud
        BY DEF Types
      <4>2. QueueOK("cloud", s)
        BY <4>1 DEF QueueInv
      <4> QED
        BY <1>3, <2>2, <3>0, <3>1, <4>1, <4>2, TakenQueue
    <3>2. CASE w = "healer"
      <4>1. PICK s \in BOOLEAN : s = hkey
        BY DEF Types
      <4>2. QueueOK("healer", s)
        BY <4>1 DEF QueueInv
      <4> QED
        BY <1>4, <2>2, <3>0, <3>2, <4>1, <4>2, TakenQueue
    <3> QED
      BY <3>1, <3>2
  <2>3. CASE CloudCreated \/ CloudGone \/ HealerCreated \/ HealerGone
    BY <2>2, <2>3 DEF CloudCreated, CloudGone, HealerCreated, HealerGone
  <2>4. CASE DeleteResolver \/ PutResolver(t)
    BY <1>2, <2>0, <2>4 DEF DeleteResolver, PutResolver, watchVars
  <2>5. CASE DeleteHealer
    <3>1. CASE RequestFails
      BY <2>0, <3>1
    <3>2. CASE hkey' = FALSE /\ (IF hkey THEN Event("healer", "delete") ELSE NoEvent) /\ cloud' = cloud
      <4>1. CASE hkey
        <5>1. hkey = TRUE
          BY <4>1 DEF Types
        <5>2. QueueOK("healer", TRUE) /\ Event("healer", IF TRUE THEN "delete" ELSE "create") /\ hkey' = ~TRUE
          BY <3>2, <5>1 DEF QueueInv
        <5>3. deaf' = deaf /\ (failed => failed')
          BY <5>2 DEF Event
        <5> QED
          BY <1>4, <3>2, <5>2, <5>3, EventKeeps
      <4>2. CASE ~hkey
        BY <1>2, <3>2, <4>2 DEF NoEvent, Types, watchVars
      <4> QED
        BY <4>1, <4>2
    <3> QED
      BY <2>5, <3>1, <3>2 DEF DeleteHealer
  <2>6. CASE Rebalance
    BY <1>2, <2>0, <2>6 DEF Rebalance, etcdVars, watchVars
  <2>7. CASE HandOver \/ SaveHealer
    <3>1. ASSUME PutHealer PROVE QueueInv'
      <4>1. Put /\ cloud' = cloud /\ QueueOK("healer", hkey)
        BY <3>1 DEF PutHealer, QueueInv
      <4>2. deaf' = deaf /\ (failed => failed')
        BY <4>1 DEF Put, NoEvent, watchVars, Event
      <4> QED
        BY <1>4, <4>1, <4>2, PutKeeps
    <3> QED
      BY <2>0, <2>7, <3>1 DEF HandOver, SaveHealer
  <2> QED
    BY <1>11, <2>1, <2>3, <2>4, <2>5, <2>6, <2>7 DEF Asks
<1> QED
  BY <1>2, <1>7, <1>8, <1>9, <1>10, <1>11 DEF etcdVars, watchVars

-----------------------------------------------------------------------------
(* The end of the process.                                                 *)

\* What is left when the process has ended.
LEMMA PanicKeeps ==
  ASSUME Types, \A t \in Threads : Stands(t), RunInv, OthersInv, QueueInv,
         NEW why \in {"nil", "closed", "cloud", "race"}, Panics(why)
  PROVE  /\ Types' /\ (\A t \in Threads : Stands(t)') /\ ListenInv' /\ RunInv' /\ OthersInv' /\ QueueInv'
         /\ ~Alone' /\ ChanInv'
<1>1. Idle \in Goroutine /\ Off \in [at: {"off", "get", "recv", "send"}, ch: Identities]
  <2>1. "idle" \in Places
    BY PlaceNames, PlaceIsPlace
  <2> QED
    BY <2>1 DEF Idle, Off, Goroutine, Identities
<1>2. thr' = [t \in Threads |-> Idle] /\ thr' \in [Threads -> Goroutine]
  BY <1>1 DEF Panics
<1>3. \A t \in Threads : thr'[t].at = "idle" /\ thr'[t].then = "idle"
  BY <1>2 DEF Idle
<1>4. NodeTypes'
  BY <1>1, TypesSplit DEF Panics, NodeTypes, NoWorker
<1>5. EtcdTypes' /\ RingTypes'
  BY TypesSplit DEF Panics, EtcdTypes, RingTypes, etcdVars, watchVars, apiVars, ringVars
<1>6. Types'
  BY <1>2, <1>4, <1>5, TypesSplitNext
<1>7. \A t \in Threads : Stands(t)'
  BY <1>3, PlaceNames DEF Stands
<1>8. ListenInv'
  BY DEF Panics, ListenInv
<1>9. RunInv'
  BY <1>3, PlaceNames DEF RunInv, LoadPlaces, EventPlaces
<1>10. OthersInv'
  BY <1>3, PlaceNames DEF OthersInv, Panics, ringVars
<1>11. QueueInv'
  BY DEF Panics, QueueInv, QueueOK, etcdVars, watchVars
<1>12. ~Alone' /\ ChanInv'
  <2>1. crash' # "no" /\ rqt'.nr = None
    BY DEF Panics, NoWorker
  <2> QED
    BY <2>1 DEF Alone, Up, ChanInv
<1> QED
  BY <1>6, <1>7, <1>8, <1>9, <1>10, <1>11, <1>12

-----------------------------------------------------------------------------
(* Alone, run keeps the registry.                                          *)

\* While the ring stands still and nobody stops the manager, only run moves.
LEMMA SoloSteps ==
  ASSUME Types, \A t \in Threads : Stands(t), RunInv, OthersInv, Next, Alone'
  PROVE  /\ Alone /\ mine' = mine
         /\ (Around /\ ~RingMoves /\ ~Stopped) \/ Wanders("run") \/ Asks("run") \/ Handles("run")
<1>1. ASSUME NEW why \in {"nil", "closed", "cloud", "race"}, Panics(why)
      PROVE  FALSE
  BY <1>1 DEF Panics, Alone, Up
<1>2. Around \/ Stop \/ (\E t \in Threads : Wanders(t) \/ Asks(t) \/ Handles(t))
  BY <1>1, Roles
<1>3. crash' = crash
  BY <1>2, AroundFrame, NodeStays, HandlesFrame DEF Stop
<1>4. Alone
  BY <1>2, <1>3, Courses DEF Alone, Up
<1>5. ~Stop /\ ~RingMoves /\ ~Stopped
  BY DEF Stop, RingMoves, Stopped, Alone
<1>6. ASSUME NEW t \in Threads, t # "run", Wanders(t) \/ Asks(t) \/ Handles(t)
      PROVE  FALSE
  <2>1. thr[t].at = "idle" /\ ~pending
    BY <1>4, <1>6, PlaceNames DEF Alone, OthersInv
  <2> QED
    BY <1>6, <2>1, IdleRests DEF Rebalance
<1>7. (Around /\ ~RingMoves /\ ~Stopped) \/ Wanders("run") \/ Asks("run") \/ Handles("run")
  BY <1>2, <1>5, <1>6
<1>8. mine' = mine
  <2>1. ASSUME NEW p \in Pubs,
               \/ PubTurns(p)
               \/ \E r \in Resolvers : PubReceives(p, r)
               \/ \E h \in Healers : UpdateNodes(p, h)
        PROVE  UNCHANGED mine
    BY <2>1, PubTypes, TypesSplit DEF ringVars
  <2>2. CASE Around
    BY <1>5, <2>1, <2>2 DEF Around, WriteCloud, Meanwhile, CreateHealer, RemoveHealer, AskCloud,
       CountHealers, TryQuery, CreateGoes, WatchFails, HealerEnds, ResolverEnds, ringVars
  <2>3. CASE Wanders("run") \/ Asks("run")
    BY <2>3 DEF Wanders, LoadResolver, LoadHealer, Reads, CheckResolver, CheckHealer, CheckCloud, RunStops,
       Look, LookUp, AskRing, GetHealer, LeaveHealer, Steps, Asks, LoadFails, StartFails, CloudCreated,
       CloudGone, HealerCreated, HealerGone, Take, DeleteResolver, PutResolver, DeleteHealer, Rebalance,
       HandOver, SaveHealer, ringVars
  <2>4. CASE Handles("run")
    BY <2>4, HandlesFrame, PlaceNames
  <2> QED
    BY <1>7, <2>2, <2>3, <2>4
<1> QED
  BY <1>4, <1>7, <1>8

\* The workers as a step around the manager leaves them.
LEMMA AroundWorkers ==
  ASSUME Types, Around
  PROVE  /\ \A h \in Healers : /\ heal'[h] = "live" => heal[h] = "live"
                               /\ heal'[h] = "made" <=> heal[h] = "made"
                               /\ heal[h] \notin {"made", "live"} => heal'[h] \notin {"made", "live"}
         /\ \A r \in Resolvers : res[r] = "up" => res'[r] = "up"
         /\ early' = early
<1>1. CASE UNCHANGED <<heal, res, early>>
  BY <1>1
<1>2. ASSUME NEW p \in Pubs,
             \/ PubTurns(p)
             \/ \E r \in Resolvers : PubReceives(p, r)
             \/ \E h \in Healers : UpdateNodes(p, h)
      PROVE  UNCHANGED <<heal, res, early>>
  BY <1>2, PubTypes, TypesSplit DEF workers
<1>3. CASE WriteCloud \/ Meanwhile \/ RingMoves \/ Stopped
  BY <1>1, <1>3 DEF WriteCloud, Meanwhile, CreateHealer, RemoveHealer, AskCloud,
       CountHealers, TryQuery, CreateGoes, WatchFails, RingMoves, Stopped, Node, chanVars, workers
<1>4. ASSUME NEW h \in Healers, HealerEnds(h)
      PROVE  heal[h] = "stopping" /\ heal' = [heal EXCEPT ![h] = "off"] /\ UNCHANGED <<res, early>>
  BY <1>4 DEF HealerEnds, chanVars
<1>5. ASSUME NEW r \in Resolvers, ResolverEnds(r)
      PROVE  res[r] = "done" /\ res' = [res EXCEPT ![r] = "off"] /\ UNCHANGED <<heal, early>>
  BY <1>5 DEF ResolverEnds, chanVars
<1>6. CASE \E h \in Healers : HealerEnds(h)
  BY <1>4, <1>6 DEF Types
<1>7. CASE \E r \in Resolvers : ResolverEnds(r)
  BY <1>5, <1>7 DEF Types
<1> QED
  BY <1>1, <1>2, <1>3, <1>6, <1>7 DEF Around

\* Run comes to a place that asks nothing of the registry.
LEMMA SoloPlain ==
  ASSUME Types, SoloInv, Alone, UNCHANGED <<rqt, res, heal, ncout>>,
         NEW l \in PlacesOf["run"], NEW i \in Identities, Goes("run", l, i),
         l \notin {"stopN", "get", "ask", "chan", "go"}, thr.run.at # "forgetN"
  PROVE  SoloInv'
<1>1. thr'["run"].at = l
  BY Goings, PlaceNames
<1> QED
  BY <1>1 DEF SoloInv

\* So it does where startWorker and stopWorker return.
LEMMA SoloReturns ==
  ASSUME Types, Stands("run"), SoloInv, Alone, UNCHANGED <<rqt, res, heal, ncout>>,
         Returns("run"), thr.run.at # "forgetN"
  PROVE  SoloInv'
<1>1. thr.run.then \in PlacesOf["run"] /\ thr.run.then \notin {"stopN", "get", "ask", "chan", "go"}
      /\ None \in Identities
  BY Ways, PlaceNames DEF Types, Goroutine, Identities
<1> QED
  BY <1>1, SoloPlain DEF Returns

\* What run does leaves SoloInv, if it decides or asks.
LEMMA SoloAsks ==
  ASSUME Types, \A t \in Threads : Stands(t), SoloInv, Alone, Wanders("run") \/ Asks("run")
  PROVE  SoloInv'
<1> USE PlaceNames
<1>0. None \in Identities /\ Stands("run") /\ UNCHANGED <<rqt, res, heal, ncout>>
  BY NodeStays DEF Identities
<1>1. ASSUME NEW l \in PlacesOf["run"], Goes("run", l, None),
             l \notin {"stopN", "get", "ask", "chan", "go"}, thr.run.at # "forgetN"
      PROVE  SoloInv'
  BY <1>0, <1>1, SoloPlain
<1>2. ASSUME Returns("run"), thr.run.at # "forgetN" PROVE SoloInv'
  BY <1>0, <1>2, SoloReturns
<1>3. CASE Wanders("run")
  <2>1. CASE LoadResolver
    <3>1. thr'["run"].at \in {"checkN", "loadH"} /\ thr.run.at = "loadN"
      BY <2>1 DEF LoadResolver, Reads, Types, At
    <3> QED
      BY <1>0, <3>1 DEF SoloInv
  <2>2. CASE LoadHealer
    <3>1. thr'["run"].at \in {"checkH", "watch"} /\ thr.run.at = "loadH"
      BY <2>2 DEF LoadHealer, Reads, Types, At
    <3> QED
      BY <1>0, <3>1 DEF SoloInv
  <2>3. CASE CheckResolver \/ CheckHealer
    BY <1>1, <1>2, <2>3 DEF CheckResolver, CheckHealer, CheckCloud, Steps, Returns, At
  <2>4. CASE RunStops
    BY <1>1, <2>4 DEF RunStops, Steps, At
  <2>5. CASE AskRing("run")
    BY <1>1, <1>2, <2>5 DEF AskRing, Steps, Returns, At
  <2>6. CASE LeaveHealer("run")
    BY <1>2, <2>6 DEF LeaveHealer, Steps, Returns, At
  <2>7. CASE GetHealer("run")
    <3>1. rqt.healer # None /\ rqt.healer \in Identities /\ thr.run.at = "get"
      BY <2>7 DEF GetHealer, At, SoloInv, Types, Identities
    <3>2. thr'["run"].at = "ask" /\ thr'["run"].id = rqt.healer
      BY <2>7, <3>1, Goings DEF GetHealer, Steps
    <3> QED
      BY <1>0, <3>1, <3>2 DEF SoloInv
  <2> QED
    BY <1>3, <2>1, <2>2, <2>3, <2>4, <2>5, <2>6, <2>7 DEF Wanders
<1>4. CASE Asks("run")
  <2>1. CASE LoadFails
    BY <1>1, <2>1 DEF LoadFails, At
  <2>2. CASE CloudCreated \/ HealerCreated
    BY <1>1, <2>2 DEF CloudCreated, HealerCreated, Take, At
  <2>3. CASE CloudGone
    <3>1. thr.run.at = "select" /\ Goes("run", IF rqt.nr # None THEN "stopN" ELSE "dropH", None)
      BY <2>3 DEF CloudGone, Take, At
    <3>2. CASE rqt.nr # None
      <4>1. thr'["run"].at = "stopN"
        BY <1>0, <3>1, <3>2, Goings
      <4> QED
        BY <1>0, <3>1, <3>2, <4>1 DEF SoloInv
    <3> QED
      BY <1>1, <3>1, <3>2
  <2>4. CASE HealerGone
    <3>1. thr.run.at = "select" /\ Goes("run", IF rqt.healer # None THEN "get" ELSE "select", None)
      BY <2>4 DEF HealerGone, Take, At
    <3>2. CASE rqt.healer # None
      <4>1. thr'["run"].at = "get"
        BY <1>0, <3>1, <3>2, Goings
      <4> QED
        BY <1>0, <3>1, <3>2, <4>1 DEF SoloInv
    <3> QED
      BY <1>1, <3>1, <3>2
  <2>5. CASE DeleteResolver
    BY <1>1, <2>5 DEF DeleteResolver, At
  <2>6. CASE DeleteHealer
    BY <1>2, <2>6 DEF DeleteHealer, At
  <2>7. CASE PutResolver("run")
    BY <1>1, <2>7 DEF PutResolver, At
  <2>8. CASE StartFails("run")
    BY <1>2, <2>8 DEF StartFails, At
  <2> QED
    BY <1>4, <2>1, <2>2, <2>3, <2>4, <2>5, <2>6, <2>7, <2>8 DEF Asks
<1> QED
  BY <1>3, <1>4

\* And if it handles a worker.
LEMMA SoloHandles ==
  ASSUME Types, \A t \in Threads : Stands(t), SoloInv, Alone, Handles("run")
  PROVE  SoloInv'
<1> USE PlaceNames
<1>0. None \in Identities /\ Stands("run") /\ None \notin Resolvers
  BY HealerManagerAssumption DEF Identities
<1>1. CASE OpenWatches
  <2>1. thr'["run"].at = "select" /\ thr.run.at = "watch"
    BY <1>1 DEF OpenWatches, Types, At
  <2> QED
    BY <1>1, <2>1 DEF OpenWatches, SoloInv, workers, chanVars
<1>2. CASE StartResolver
  <2>1. thr'["run"].at = thr.run.then /\ thr.run.then \notin {"stopN", "get", "ask", "chan", "go"}
    BY <1>0, <1>2, Ways, Goings DEF StartResolver, Returns, Types, Goroutine
  <2>2. PICK r \in Resolvers : rqt' = [rqt EXCEPT !.nr = r] /\ res' = [res EXCEPT ![r] = "up"]
    BY <1>2, FreshResolver
  <2>3. rqt'.nr = r /\ res'[r] = "up"
    BY <2>2 DEF Types
  <2> QED
    BY <2>1, <2>3 DEF SoloInv
<1>3. CASE SetHealer("run")
  <2>1. PICK h \in Healers : /\ rqt' = [rqt EXCEPT !.healer = h] /\ heal' = [heal EXCEPT ![h] = "made"]
                             /\ Goes("run", "chan", h)
    BY <1>3, FreshHealer DEF SetHealer
  <2>2. res' = res /\ thr.run.at = "backend"
    BY <1>3 DEF SetHealer, Registers, At
  <2>3. rqt'.healer = h /\ rqt'.nr = rqt.nr /\ heal'[h] = "made"
    BY <2>1 DEF Types
  <2>4. thr'["run"].at = "chan" /\ thr'["run"].id = h
    BY <2>1, Goings DEF Identities
  <2> QED
    BY <2>2, <2>3, <2>4 DEF SoloInv
<1>4. CASE MakeChan("run")
  <2>1. thr.run.id \in Identities /\ Goes("run", "go", thr.run.id) /\ thr.run.at = "chan"
        /\ ncout' = thr.run.id /\ UNCHANGED <<rqt, res, heal>>
    BY <1>4 DEF MakeChan, Types, Goroutine, At, workers
  <2>2. thr'["run"].at = "go" /\ thr'["run"].id = thr.run.id
    BY <2>1, Goings
  <2> QED
    BY <2>1, <2>2 DEF SoloInv
<1>5. CASE GoHealer("run")
  <2>1. thr'["run"].at = thr.run.then /\ thr.run.then \notin {"stopN", "get", "ask", "chan", "go"}
    BY <1>0, <1>5, Ways, Goings DEF GoHealer, Returns, Types, Goroutine
  <2>2. UNCHANGED <<rqt, res>> /\ thr.run.at = "go"
    BY <1>5 DEF GoHealer, At
  <2> QED
    BY <2>1, <2>2 DEF SoloInv
<1>6. CASE StopResolver("run")
  <2>1. thr'["run"].at = "forgetN"
    BY <1>0, <1>6, Goings DEF StopResolver
  <2> QED
    BY <2>1 DEF SoloInv
<1>7. CASE ForgetResolver("run")
  <2>1. thr'["run"].at = "delN"
    BY <1>0, <1>7, Goings DEF ForgetResolver
  <2>2. rqt'.nr = None
    BY <1>7 DEF ForgetResolver, Types
  <2> QED
    BY <2>1, <2>2 DEF SoloInv
<1>8. CASE StopHealer("run")
  <2>1. thr.run.id \in Identities /\ Goes("run", "wait", thr.run.id) /\ thr.run.at = "ask"
        /\ UNCHANGED <<rqt, res>>
    BY <1>0, <1>8 DEF StopHealer, Types, Goroutine, At, Stands
  <2>2. thr'["run"].at = "wait"
    BY <2>1, Goings
  <2> QED
    BY <2>1, <2>2 DEF SoloInv
<1>9. CASE ForgetHealer("run")
  <2>1. thr'["run"].at = thr.run.then /\ thr.run.then \notin {"stopN", "get", "ask", "chan", "go"}
    BY <1>0, <1>9, Ways, Goings DEF ForgetHealer, Returns, Types, Goroutine
  <2>2. res' = res /\ rqt'.nr = rqt.nr /\ thr.run.at = "wait"
    BY <1>9 DEF ForgetHealer, At, Types
  <2> QED
    BY <2>1, <2>2 DEF SoloInv
<1> QED
  BY <1>1, <1>2, <1>3, <1>4, <1>5, <1>6, <1>7, <1>8, <1>9 DEF Handles

\* Alone, every step keeps what run relies on.
LEMMA SoloStep ==
  ASSUME Types, \A t \in Threads : Stands(t), RunInv, OthersInv, SoloInv, Next
  PROVE  SoloInv'
<1> SUFFICES ASSUME Alone' PROVE SoloInv'
  BY DEF SoloInv
<1>1. /\ Alone
      /\ Around \/ Wanders("run") \/ Asks("run") \/ Handles("run")
  BY SoloSteps
<1>2. CASE Around
  <2>1. UNCHANGED <<thr, rqt, ncout>>
    BY <1>2, AroundFrame
  <2>2. rqt.nr # None => rqt.nr \in Resolvers
    BY DEF Types
  <2>3. thr.run.at \in {"chan", "go"} => thr.run.id \in Healers
    BY PlaceNames DEF Stands
  <2>4. /\ \A h \in Healers : heal'[h] = "made" <=> heal[h] = "made"
        /\ \A r \in Resolvers : res[r] = "up" => res'[r] = "up"
    BY <1>2, AroundWorkers
  <2> QED
    BY <1>1, <2>1, <2>2, <2>3, <2>4 DEF SoloInv
<1> QED
  BY <1>1, <1>2, SoloAsks, SoloHandles

-----------------------------------------------------------------------------
(* Names find their way.                                                   *)

\* The channel of the resolvers is that of the one registered.
LEMMA NcinStep ==
  ASSUME Types, \A t \in Threads : Stands(t), rqt.nr # None => ncin = rqt.nr,
         Around \/ Stop \/ (\E t \in Threads : Wanders(t) \/ Asks(t) \/ Handles(t))
  PROVE  rqt'.nr # None => ncin' = rqt'.nr
<1>0. ASSUME UNCHANGED <<rqt, ncin>> PROVE rqt'.nr # None => ncin' = rqt'.nr
  BY <1>0
<1>1. CASE Around
  BY <1>0, <1>1, AroundFrame
<1>2. CASE Stop
  BY <1>0, <1>2 DEF Stop, chanVars, workers
<1>3. ASSUME NEW t \in Threads, Wanders(t) \/ Asks(t) PROVE UNCHANGED <<rqt, ncin>>
  BY <1>3, NodeStays
<1>4. ASSUME NEW t \in Threads, Handles(t) PROVE rqt'.nr # None => ncin' = rqt'.nr
  <2>1. CASE StartResolver
    BY <2>1, FreshResolver DEF Types
  <2>2. CASE SetHealer(t)
    <3>1. PICK h \in Healers : rqt' = [rqt EXCEPT !.healer = h]
      BY <2>2, FreshHealer DEF SetHealer
    <3>2. ncin' = ncin
      BY <2>2 DEF SetHealer, Registers, chanVars
    <3> QED
      BY <3>1, <3>2 DEF Types
  <2>3. CASE ForgetResolver(t) \/ ForgetHealer(t)
    BY <2>3 DEF ForgetResolver, ForgetHealer, chanVars, Types
  <2>4. CASE OpenWatches \/ MakeChan(t) \/ GoHealer(t) \/ StopResolver(t) \/ StopHealer(t)
    BY <1>0, <2>4 DEF OpenWatches, MakeChan, GoHealer, StopResolver, StopHealer, chanVars, workers
  <2> QED
    BY <1>4, <2>1, <2>2, <2>3, <2>4 DEF Handles
<1> QED
  BY <1>1, <1>2, <1>3, <1>4

\* What run does to a registered healer that is up, alone.
LEMMA HandlesSolo ==
  ASSUME Types, \A t \in Threads : Stands(t), SoloInv, Alone, Handles("run"),
         rqt'.healer # None, heal'[rqt'.healer] = "live"
  PROVE  /\ rqt'.healer = rqt.healer /\ ncout' = ncout
         /\ \/ /\ heal[rqt.healer] = "live" /\ hch' = hch
               /\ StartResolver \/ (UNCHANGED <<early, pub>> /\ rqt'.nr \in {rqt.nr, None})
            \/ GoHealer("run") /\ hch'[rqt'.healer] = ncout'
<1> USE PlaceNames
<1>0. rqt.healer \in Healers \union {None} /\ heal \in [Healers -> {"off", "made", "live", "stopping"}]
  BY DEF Types
<1>1. CASE OpenWatches
  BY <1>1 DEF OpenWatches, workers, chanVars
<1>2. CASE StartResolver
  <2>1. rqt'.healer = rqt.healer
    BY <1>2, FreshResolver DEF Types
  <2>2. UNCHANGED <<ncout, heal, hch>>
    BY <1>2 DEF StartResolver
  <2> QED
    BY <1>2, <2>1, <2>2
<1>3. CASE SetHealer("run")
  <2>1. PICK h \in Healers : /\ rqt' = [rqt EXCEPT !.healer = h] /\ heal' = [heal EXCEPT ![h] = "made"]
    BY <1>3, FreshHealer DEF SetHealer
  <2>2. rqt'.healer = h /\ heal'[h] = "made"
    BY <2>1 DEF Types
  <2> QED
    BY <2>2
<1>4. CASE MakeChan("run")
  <2>1. thr.run.id = rqt.healer /\ heal[thr.run.id] = "made" /\ UNCHANGED <<rqt, heal>>
    BY <1>4 DEF MakeChan, At, SoloInv, workers
  <2> QED
    BY <2>1
<1>5. CASE GoHealer("run")
  <2>1. thr.run.id = rqt.healer /\ thr.run.id \in Healers /\ UNCHANGED <<rqt, ncout>>
        /\ hch' = [hch EXCEPT ![thr.run.id] = ncout]
    BY <1>5 DEF GoHealer, At, SoloInv, Stands
  <2> QED
    BY <1>5, <2>1 DEF Types
<1>6. CASE StopResolver("run")
  BY <1>6 DEF StopResolver, chanVars
<1>7. CASE ForgetResolver("run")
  <2>1. rqt'.healer = rqt.healer /\ rqt'.nr = None
    BY <1>7 DEF ForgetResolver, Types
  <2> QED
    BY <1>7, <2>1 DEF ForgetResolver, chanVars
<1>8. CASE StopHealer("run")
  <2>1. thr.run.id \in Healers /\ rqt' = rqt /\ UNCHANGED chanVars
        /\ heal' = [heal EXCEPT ![thr.run.id] = IF heal[thr.run.id] \in {"made", "live"} THEN "stopping" ELSE heal[thr.run.id]]
    BY <1>8 DEF StopHealer, At, Stands
  <2>2. heal[rqt.healer] = "live"
    BY <1>0, <2>1
  <2> QED
    BY <2>1, <2>2 DEF chanVars
<1>9. CASE ForgetHealer("run")
  <2>1. rqt'.healer = None
    BY <1>9 DEF ForgetHealer, Types
  <2> QED
    BY <2>1
<1> QED
  BY <1>1, <1>2, <1>3, <1>4, <1>5, <1>6, <1>7, <1>8, <1>9 DEF Handles

\* The channels stay those of the registered workers.
LEMMA ChanStep ==
  ASSUME Types, \A t \in Threads : Stands(t), RunInv, OthersInv, SoloInv, ChanInv, Next
  PROVE  ChanInv'
<1>1. rqt'.nr # None => ncin' = rqt'.nr
  <2>1. ASSUME NEW why \in {"nil", "closed", "cloud", "race"}, Panics(why)
        PROVE  rqt'.nr = None
    BY <2>1 DEF Panics, NoWorker
  <2> QED
    BY <2>1, NcinStep, Roles DEF ChanInv
<1>2. ASSUME Alone', rqt'.healer # None, heal'[rqt'.healer] = "live"
      PROVE  ncout' = hch'[rqt'.healer]
  <2>1. Alone /\ (Around \/ Wanders("run") \/ Asks("run") \/ Handles("run"))
    BY <1>2, SoloSteps
  <2>2. CASE Around
    <3>1. UNCHANGED <<rqt, ncout, hch>>
      BY <2>2, AroundFrame
    <3>2. heal[rqt.healer] = "live"
      BY <1>2, <2>2, <3>1, AroundWorkers DEF Types
    <3> QED
      BY <1>2, <2>1, <3>1, <3>2 DEF ChanInv
  <2>3. CASE Wanders("run") \/ Asks("run")
    BY <1>2, <2>1, <2>3, NodeStays, PlaceNames DEF ChanInv
  <2>4. CASE Handles("run")
    BY <1>2, <2>1, <2>4, HandlesSolo DEF ChanInv
  <2> QED
    BY <2>1, <2>2, <2>3, <2>4
<1> QED
  BY <1>1, <1>2 DEF ChanInv

\* A goroutine of pubSubNodes that serves the registered pair goes on to.
LEMMA PubServes ==
  ASSUME Types, Alone, ChanInv, rqt.nr # None, rqt.healer # None, heal[rqt.healer] = "live",
         NEW p \in Pubs,
         \/ PubTurns(p)
         \/ \E r \in Resolvers : PubReceives(p, r)
         \/ \E h \in Healers : UpdateNodes(p, h),
         NEW q \in Pubs, Serves(q, rqt.nr, hch[rqt.healer])
  PROVE  Serves(q, rqt.nr, hch[rqt.healer])'
<1>1. UNCHANGED <<rqt, hch>> /\ \A u \in Pubs : u # p => pub'[u] = pub[u]
  BY PubTypes, TypesSplit DEF workers
<1>2. CASE q # p
  BY <1>1, <1>2 DEF Serves
<1>3. CASE q = p
  <2>1. ncin = rqt.nr /\ ncout = hch[rqt.healer]
    BY DEF ChanInv
  <2>2. ASSUME NEW s, PubGoes(p, s) PROVE pub'[p] = s
    BY <2>2 DEF PubGoes, Types
  <2>3. CASE PubTurns(p)
    <3>1. pub'[p] = [at |-> "recv", ch |-> ncin]
      BY <2>2, <2>3 DEF PubTurns, Alone
    <3> QED
      BY <1>1, <1>3, <2>1, <3>1 DEF Serves
  <2>4. CASE \E r \in Resolvers : PubReceives(p, r)
    <3>1. pub'[p] = Turn \/ pub'[p] = [at |-> "send", ch |-> ncout]
      BY <2>2, <2>4 DEF PubReceives
    <3> QED
      BY <1>1, <1>3, <2>1, <3>1 DEF Serves, Turn
  <2>5. CASE \E h \in Healers : UpdateNodes(p, h)
    <3>1. pub'[p] = Turn
      BY <2>2, <2>5 DEF UpdateNodes
    <3> QED
      BY <1>1, <1>3, <3>1 DEF Serves, Turn
  <2> QED
    BY <2>3, <2>4, <2>5
<1> QED
  BY <1>2, <1>3

\* The goroutine that serves the registered pair stays, or its successor does.
LEMMA FedStep ==
  ASSUME Types, \A t \in Threads : Stands(t), RunInv, OthersInv, SoloInv, ChanInv, FedInv, Next
  PROVE  FedInv'
<1> SUFFICES ASSUME Alone', rqt'.nr # None, rqt'.healer # None,
                    rqt'.healer \notin early', heal'[rqt'.healer] = "live"
             PROVE  \E p \in Pubs : Serves(p, rqt.nr, hch[rqt.healer])'
  BY DEF FedInv
<1>1. Alone /\ (Around \/ Wanders("run") \/ Asks("run") \/ Handles("run"))
  BY SoloSteps
<1>2. ASSUME UNCHANGED <<rqt, hch, pub>>, rqt.healer \notin early, heal[rqt.healer] = "live"
      PROVE  \E p \in Pubs : Serves(p, rqt.nr, hch[rqt.healer])'
  BY <1>1, <1>2 DEF FedInv, Serves
<1>3. CASE Around
  <2>1. UNCHANGED <<rqt, hch>>
    BY <1>3, AroundFrame
  <2>2. rqt.healer \notin early /\ heal[rqt.healer] = "live"
    BY <1>3, <2>1, AroundWorkers DEF Types
  <2>3. PICK q \in Pubs : Serves(q, rqt.nr, hch[rqt.healer])
    BY <1>1, <2>1, <2>2 DEF FedInv
  <2>4. ASSUME NEW p \in Pubs,
               \/ PubTurns(p)
               \/ \E r \in Resolvers : PubReceives(p, r)
               \/ \E h \in Healers : UpdateNodes(p, h)
        PROVE  \E u \in Pubs : Serves(u, rqt.nr, hch[rqt.healer])'
    BY <1>1, <2>1, <2>2, <2>3, <2>4, PubServes
  <2>5. CASE WriteCloud \/ Meanwhile \/ RingMoves \/ Stopped \/ (\E h \in Healers : HealerEnds(h))
             \/ \E r \in Resolvers : ResolverEnds(r)
    <3>1. pub' = pub
      BY <2>5 DEF WriteCloud, Meanwhile, CreateHealer, RemoveHealer, AskCloud,
       CountHealers, TryQuery, CreateGoes, WatchFails, RingMoves, Stopped, HealerEnds, ResolverEnds, Node, chanVars
    <3> QED
      BY <1>2, <2>1, <2>2, <3>1
  <2> QED
    BY <1>3, <2>4, <2>5 DEF Around
<1>4. CASE Wanders("run") \/ Asks("run")
  BY <1>2, <1>4, NodeStays, PlaceNames
<1>5. CASE Handles("run")
  <2>0. rqt'.healer = rqt.healer /\ rqt.healer \in Healers
    BY <1>1, <1>5, HandlesSolo DEF Types
  <2>1. CASE GoHealer("run")
    BY <2>1, FreshPub DEF Serves, Types
  <2>2. CASE StartResolver
    <3>1. early' = {h \in Healers : heal[h] # "off"} /\ heal' = heal
      BY <2>2 DEF StartResolver
    <3> QED
      BY <2>0, <3>1
  <2>3. CASE ~GoHealer("run") /\ ~StartResolver
    <3>1. heal[rqt.healer] = "live" /\ hch' = hch /\ UNCHANGED <<early, pub>> /\ rqt'.nr = rqt.nr
      BY <1>1, <1>5, <2>3, HandlesSolo
    <3> QED
      BY <1>1, <2>0, <3>1 DEF FedInv, Serves
  <2> QED
    BY <2>1, <2>2, <2>3
<1> QED
  BY <1>1, <1>3, <1>4, <1>5

-----------------------------------------------------------------------------
(* Without a failure, run makes the registry what etcd says.               *)

\* The parts of ExactInv.
OneHealer == \A h \in Healers : heal[h] \in {"made", "live"} => h = rqt.healer

CloudDone == ResolverDone(thr.run.at, Seen("cloud", cloud))
KeyDone == HealerDone(thr.run.at, Seen("healer", hkey))

\* The places that have nothing to do with the resolver, or with the healer.
ResolverPlaces == {"loadN", "checkN", "putN", "backendN", "stopN", "forgetN", "delN"}
HealerPlaces == {"loadN", "checkN", "loadH", "checkH", "ring", "backend", "chan", "go", "get", "ask", "wait"}

\* ExactInv by its parts.
LEMMA ExactParts ==
  ExactInv <=> (Alone /\ ~failed /\ ~late => CloudDone /\ KeyDone /\ OneHealer /\ OrphanOK)
BY DEF ExactInv, CloudDone, KeyDone, OneHealer

\* The same after a step.
LEMMA ExactPartsNext ==
  ExactInv' <=> (Alone' /\ ~failed' /\ ~late' => CloudDone' /\ KeyDone' /\ OneHealer' /\ OrphanOK')
BY DEF ExactInv, CloudDone, KeyDone, OneHealer

\* What has been made of the cloud's events stays while run is at other things.
LEMMA CloudStays ==
  ASSUME CloudDone, rqt'.nr = rqt.nr, nrkey' = nrkey,
         Seen("cloud", cloud)' = Seen("cloud", cloud),
         \/ thr'["run"].at = thr["run"].at
         \/ thr["run"].at \notin ResolverPlaces /\ thr'["run"].at \notin ResolverPlaces
  PROVE  CloudDone'
<1>1. PICK a, b, c, d : a = thr["run"].at /\ b = thr'["run"].at /\ c = Seen("cloud", cloud) /\ d = Seen("cloud", cloud)'
  OBVIOUS
<1>2. CASE a = b
  BY <1>1, <1>2 DEF CloudDone, ResolverDone
<1>3. CASE a \notin ResolverPlaces /\ b \notin ResolverPlaces
  BY <1>1, <1>3 DEF CloudDone, ResolverDone, ResolverPlaces
<1> QED
  BY <1>1, <1>2, <1>3

\* So does what has been made of the healer's.
LEMMA KeyStays ==
  ASSUME KeyDone, rqt'.healer = rqt.healer, mine' = mine,
         Seen("healer", hkey)' = Seen("healer", hkey),
         thr["run"].at \notin HealerPlaces /\ thr'["run"].at \notin HealerPlaces,
         mgr # "loading" \/ "backendN" \notin {thr["run"].at, thr'["run"].at},
         mgr' = mgr \/ "backendN" \notin {thr["run"].at, thr'["run"].at}
  PROVE  KeyDone'
BY DEF KeyDone, HealerDone, HealerPlaces

\* While the manager loads, etcd is as it was read.
LEMMA SeenLoading ==
  ASSUME QueueInv, mgr = "loading"
  PROVE  Seen("cloud", cloud) = cloud /\ Seen("healer", hkey) = hkey /\ todo["cloud"] = << >>
BY DEF QueueInv, QueueOK, Seen, SeenBefore

\* Run decides where to go on.
LEMMA ExactWanders ==
  ASSUME IInv, Alone, ~failed, ~late, Wanders("run")
  PROVE  CloudDone' /\ KeyDone' /\ OneHealer' /\ OrphanOK'
<1> USE PlaceNames
<1>0. /\ Types /\ Stands("run") /\ RunInv /\ QueueInv /\ SoloInv
      /\ CloudDone /\ KeyDone /\ OneHealer /\ OrphanOK
      /\ None \in Identities /\ rqt.healer \in Identities
  BY ExactParts DEF IInv, Identities, Types
<1>1. UNCHANGED <<todo, cloud, hkey, nrkey, mine, rqt, heal, mgr>>
  BY NodeStays DEF Wanders, LoadResolver, LoadHealer, Reads, CheckResolver, CheckHealer, CheckCloud,
     RunStops, Look, LookUp, AskRing, GetHealer, LeaveHealer, Steps, etcdVars, watchVars, ringVars
<1>2. Seen("cloud", cloud)' = Seen("cloud", cloud) /\ Seen("healer", hkey)' = Seen("healer", hkey)
  BY <1>1 DEF Seen
<1>3. OneHealer'
  BY <1>0, <1>1 DEF OneHealer
<1>4. thr.run.at \notin {"stopN", "forgetN", "delN", "dropH"} => OrphanOK'
  BY <1>0, <1>1 DEF OrphanOK
<1>5. CASE LoadResolver
  <2>1. thr.run.at = "loadN" /\ thr'["run"].at = IF nrkey THEN "checkN" ELSE "loadH"
    BY <1>0, <1>5 DEF LoadResolver, Reads, At, Types
  <2>2. rqt.nr = None /\ nrkey = Seen("cloud", cloud) /\ rqt.healer = None
    BY <1>0, <2>1 DEF CloudDone, ResolverDone, KeyDone, HealerDone
  <2>3. CloudDone'
    <3>1. CASE nrkey
      BY <1>1, <1>2, <2>1, <2>2, <3>1 DEF CloudDone, ResolverDone
    <3>2. CASE ~nrkey
      BY <1>0, <1>1, <1>2, <2>1, <2>2, <3>2 DEF CloudDone, ResolverDone, Types
    <3> QED
      BY <3>1, <3>2
  <2>4. KeyDone'
    BY <1>1, <2>1, <2>2 DEF KeyDone, HealerDone
  <2> QED
    BY <1>3, <1>4, <2>1, <2>3, <2>4
<1>6. CASE LoadHealer
  <2>1. thr.run.at = "loadH" /\ thr'["run"].at = IF hkey THEN "checkH" ELSE "watch"
    BY <1>0, <1>6 DEF LoadHealer, Reads, At, Types
  <2>2. rqt.healer = None /\ Seen("healer", hkey) = hkey
    BY <1>0, <2>1, SeenLoading DEF KeyDone, HealerDone, RunInv, LoadPlaces
  <2>3. CloudDone'
    BY <1>0, <1>1, <1>2, <2>1, CloudStays DEF ResolverPlaces
  <2>4. KeyDone'
    BY <1>0, <1>1, <1>2, <2>1, <2>2 DEF KeyDone, HealerDone, Types
  <2> QED
    BY <1>3, <1>4, <2>1, <2>3, <2>4
<1>7. CASE CheckResolver
  <2>1. thr.run.at = "checkN" /\ mgr = "loading"
    BY <1>0, <1>7 DEF CheckResolver, CheckCloud, At, RunInv, LoadPlaces
  <2>2. Seen("cloud", cloud) /\ Seen("cloud", cloud) = cloud /\ rqt.nr = None /\ nrkey /\ rqt.healer = None
    BY <1>0, <2>1, SeenLoading DEF CloudDone, ResolverDone, KeyDone, HealerDone
  <2>3. thr'["run"].at = "backendN"
    BY <1>0, <1>7, <2>2, Goings DEF CheckResolver, CheckCloud, Steps
  <2>4. CloudDone' /\ KeyDone'
    BY <1>1, <1>2, <2>1, <2>2, <2>3 DEF CloudDone, ResolverDone, KeyDone, HealerDone
  <2> QED
    BY <1>3, <1>4, <2>1, <2>4
<1>8. CASE CheckHealer
  <2>1. thr.run.at = "checkH" /\ mgr = "loading"
    BY <1>0, <1>8 DEF CheckHealer, CheckCloud, At, RunInv, LoadPlaces
  <2>2. Seen("healer", hkey) /\ Seen("healer", hkey) = hkey /\ rqt.healer = None /\ todo["cloud"] = << >>
    BY <1>0, <2>1, SeenLoading DEF KeyDone, HealerDone
  <2>3. cloud
    BY <1>0, <2>1, <2>2 DEF OrphanOK
  <2>4. thr'["run"].at = "ring"
    BY <1>0, <1>8, <2>3, Goings DEF CheckHealer, CheckCloud, Steps
  <2>5. CloudDone'
    BY <1>0, <1>1, <1>2, <2>1, <2>4, CloudStays DEF ResolverPlaces
  <2>6. KeyDone'
    BY <1>1, <1>2, <2>2, <2>4 DEF KeyDone, HealerDone
  <2> QED
    BY <1>3, <1>4, <2>1, <2>5, <2>6
<1>9. ~RunStops
  BY <1>0 DEF RunStops, At, RunInv, EventPlaces, Alone
<1>10. CASE AskRing("run")
  <2>1. thr.run.at = "ring" /\ Goes("run", IF mine THEN "backend" ELSE thr["run"].then, None)
    BY <1>10 DEF AskRing, At, Steps
  <2>2. Seen("healer", hkey) /\ rqt.healer = None
    BY <1>0, <2>1 DEF KeyDone, HealerDone
  <2>3. thr["run"].then \in {"watch", "select"}
    BY <1>0, <2>1 DEF RunInv, LoadPlaces
  <2>4. CASE mine
    <3>1. thr'["run"].at = "backend"
      BY <1>0, <2>1, <2>4, Goings
    <3>2. CloudDone'
      BY <1>0, <1>1, <1>2, <2>1, <3>1, CloudStays DEF ResolverPlaces
    <3>3. KeyDone'
      BY <1>1, <1>2, <2>2, <2>4, <3>1 DEF KeyDone, HealerDone
    <3> QED
      BY <1>3, <1>4, <2>1, <3>2, <3>3
  <2>5. CASE ~mine
    <3>1. thr'["run"].at \in {"watch", "select"}
      BY <1>0, <2>1, <2>3, <2>5, Goings
    <3>2. CloudDone'
      BY <1>0, <1>1, <1>2, <2>1, <3>1, CloudStays DEF ResolverPlaces
    <3>3. KeyDone'
      BY <1>1, <1>2, <2>2, <2>5, <3>1 DEF KeyDone, HealerDone
    <3> QED
      BY <1>3, <1>4, <2>1, <3>2, <3>3
  <2> QED
    BY <2>4, <2>5
<1>11. CASE GetHealer("run")
  <2>1. thr.run.at = "get" /\ thr'["run"].at = "ask" /\ thr'["run"].id = rqt.healer
    BY <1>0, <1>11, Goings DEF GetHealer, At, Steps
  <2>2. CloudDone'
    BY <1>0, <1>1, <1>2, <2>1, CloudStays DEF ResolverPlaces
  <2>3. KeyDone'
    BY <1>0, <1>1, <1>2, <2>1 DEF KeyDone, HealerDone
  <2> QED
    BY <1>3, <1>4, <2>1, <2>2, <2>3
<1>12. ~LeaveHealer("run")
  BY <1>0 DEF LeaveHealer, At, KeyDone, HealerDone
<1> QED
  BY <1>5, <1>6, <1>7, <1>8, <1>9, <1>10, <1>11, <1>12 DEF Wanders

\* Run asks etcd.
LEMMA ExactAsks ==
  ASSUME IInv, Alone, ~failed', mine' = mine, ~failed, ~late, Asks("run")
  PROVE  CloudDone' /\ KeyDone' /\ OneHealer' /\ OrphanOK'
<1> USE PlaceNames
<1>0. /\ Types /\ Stands("run") /\ RunInv /\ QueueInv
      /\ CloudDone /\ KeyDone /\ OneHealer /\ OrphanOK /\ None \in Identities
  BY ExactParts DEF IInv, Identities
<1>1. UNCHANGED <<rqt, heal, mgr>>
  BY NodeStays
<1>2. OneHealer'
  BY <1>0, <1>1 DEF OneHealer
<1>3. ~RequestFails
  BY DEF RequestFails
<1>4. ~LoadFails /\ ~StartFails("run")
  BY <1>3 DEF LoadFails, StartFails
<1>5. /\ cloud \in BOOLEAN /\ hkey \in BOOLEAN
      /\ QueueOK("cloud", cloud) /\ QueueOK("healer", hkey) /\ deaf = {}
  BY <1>0 DEF QueueInv, Types
<1>6. ASSUME NEW type, NEW stage, Take("cloud", type, stage)
      PROVE  /\ Seen("cloud", cloud) = (type = "delete") /\ Seen("cloud", cloud)' = (type = "create")
             /\ Seen("healer", hkey)' = Seen("healer", hkey)
             /\ UNCHANGED <<cloud, hkey, nrkey>>
             /\ thr.run.at = "select" /\ Goes("run", stage, None)
  <2>1. PICK s \in BOOLEAN : s = cloud
    BY <1>5
  <2>2. QueueOK("cloud", s)
    BY <1>5, <2>1
  <2>3. /\ SeenBefore(todo["cloud"], s) = (type = "delete") /\ SeenBefore(todo'["cloud"], s) = (type = "create")
        /\ todo'["healer"] = todo["healer"]
    BY <1>0, <1>6, <2>2, TakenQueue
  <2>4. UNCHANGED <<cloud, hkey, nrkey>>
    BY <1>6 DEF Take
  <2> QED
    BY <1>6, <2>1, <2>3, <2>4 DEF Seen, Take, At
<1>7. ASSUME NEW type, NEW stage, Take("healer", type, stage)
      PROVE  /\ Seen("healer", hkey) = (type = "delete") /\ Seen("healer", hkey)' = (type = "create")
             /\ Seen("cloud", cloud)' = Seen("cloud", cloud)
             /\ UNCHANGED <<cloud, hkey, nrkey>> /\ todo'["cloud"] = todo["cloud"]
             /\ thr.run.at = "select" /\ Goes("run", stage, None)
  <2>1. PICK s \in BOOLEAN : s = hkey
    BY <1>5
  <2>2. QueueOK("healer", s)
    BY <1>5, <2>1
  <2>3. /\ SeenBefore(todo["healer"], s) = (type = "delete") /\ SeenBefore(todo'["healer"], s) = (type = "create")
        /\ todo'["cloud"] = todo["cloud"]
    BY <1>0, <1>7, <2>2, TakenQueue
  <2>4. UNCHANGED <<cloud, hkey, nrkey>>
    BY <1>7 DEF Take
  <2> QED
    BY <1>7, <2>1, <2>3, <2>4 DEF Seen, Take, At
<1>8. thr.run.at = "select" =>
        /\ mgr # "loading"
        /\ (rqt.nr # None) = Seen("cloud", cloud) /\ nrkey = Seen("cloud", cloud)
        /\ (rqt.healer # None) = (Seen("healer", hkey) /\ mine)
  BY <1>0 DEF CloudDone, ResolverDone, KeyDone, HealerDone, RunInv, EventPlaces
<1>9. CASE CloudCreated
  <2>1. /\ ~Seen("cloud", cloud) /\ Seen("cloud", cloud)' /\ Seen("healer", hkey)' = Seen("healer", hkey)
        /\ UNCHANGED <<cloud, hkey, nrkey>>
        /\ thr.run.at = "select" /\ Goes("run", "putN", None)
    BY <1>6, <1>9 DEF CloudCreated
  <2>2. thr'["run"].at = "putN"
    BY <1>0, <2>1, Goings
  <2>3. CloudDone'
    BY <1>1, <1>8, <2>1, <2>2 DEF CloudDone, ResolverDone
  <2>4. KeyDone'
    BY <1>0, <1>1, <1>8, <2>1, <2>2, KeyStays DEF HealerPlaces
  <2>5. OrphanOK'
    BY <2>1 DEF OrphanOK, Seen, SeenBefore
  <2> QED
    BY <1>2, <2>3, <2>4, <2>5
<1>10. CASE CloudGone
  <2>1. /\ Seen("cloud", cloud) /\ ~Seen("cloud", cloud)' /\ Seen("healer", hkey)' = Seen("healer", hkey)
        /\ thr.run.at = "select" /\ Goes("run", IF rqt.nr # None THEN "stopN" ELSE "dropH", None)
    BY <1>6, <1>10 DEF CloudGone
  <2>2. rqt.nr # None
    BY <1>8, <2>1
  <2>3. thr'["run"].at = "stopN"
    BY <1>0, <2>1, <2>2, Goings
  <2>4. CloudDone'
    BY <1>1, <2>1, <2>2, <2>3 DEF CloudDone, ResolverDone
  <2>5. KeyDone'
    BY <1>0, <1>1, <1>8, <2>1, <2>3, KeyStays DEF HealerPlaces
  <2>6. OrphanOK'
    BY <2>3 DEF OrphanOK
  <2> QED
    BY <1>2, <2>4, <2>5, <2>6
<1>11. CASE HealerCreated
  <2>1. /\ ~Seen("healer", hkey) /\ Seen("healer", hkey)' /\ Seen("cloud", cloud)' = Seen("cloud", cloud)
        /\ UNCHANGED <<cloud, hkey, nrkey>> /\ todo'["cloud"] = todo["cloud"]
        /\ thr.run.at = "select" /\ Goes("run", "ring", None)
    BY <1>7, <1>11 DEF HealerCreated
  <2>2. thr'["run"].at = "ring"
    BY <1>0, <2>1, Goings
  <2>3. CloudDone'
    BY <1>0, <1>1, <2>1, <2>2, CloudStays DEF ResolverPlaces
  <2>4. KeyDone'
    BY <1>1, <1>8, <2>1, <2>2 DEF KeyDone, HealerDone
  <2>5. OrphanOK'
    BY <1>0, <2>1 DEF OrphanOK
  <2> QED
    BY <1>2, <2>3, <2>4, <2>5
<1>12. CASE HealerGone
  <2>1. /\ Seen("healer", hkey) /\ ~Seen("healer", hkey)' /\ Seen("cloud", cloud)' = Seen("cloud", cloud)
        /\ UNCHANGED <<cloud, hkey, nrkey>> /\ todo'["cloud"] = todo["cloud"]
        /\ thr.run.at = "select" /\ Goes("run", IF rqt.healer # None THEN "get" ELSE "select", None)
    BY <1>7, <1>12 DEF HealerGone
  <2>2. thr'["run"].at = IF rqt.healer # None THEN "get" ELSE "select"
    BY <1>0, <2>1, Goings
  <2>3. CloudDone'
    BY <1>0, <1>1, <2>1, <2>2, CloudStays DEF ResolverPlaces
  <2>4. KeyDone'
    BY <1>1, <1>8, <2>1, <2>2 DEF KeyDone, HealerDone
  <2>5. OrphanOK'
    BY <1>0, <2>1 DEF OrphanOK
  <2> QED
    BY <1>2, <2>3, <2>4, <2>5
<1>13. CASE PutResolver("run")
  <2>1. /\ nrkey' = TRUE /\ UNCHANGED <<cloud, hkey, todo>>
        /\ thr.run.at = "putN" /\ Goes("run", "backendN", None)
    BY <1>3, <1>13 DEF PutResolver, At, watchVars
  <2>2. thr'["run"].at = "backendN" /\ mgr # "loading"
    BY <1>0, <2>1, Goings DEF RunInv, EventPlaces
  <2>3. Seen("cloud", cloud)' = Seen("cloud", cloud) /\ Seen("healer", hkey)' = Seen("healer", hkey)
    BY <2>1 DEF Seen
  <2>4. CloudDone'
    BY <1>0, <1>1, <2>1, <2>2, <2>3 DEF CloudDone, ResolverDone
  <2>5. KeyDone'
    BY <1>0, <1>1, <2>1, <2>2, <2>3, KeyStays DEF HealerPlaces
  <2>6. OrphanOK'
    BY <1>0, <2>1 DEF OrphanOK
  <2> QED
    BY <1>2, <2>4, <2>5, <2>6
<1>14. CASE DeleteResolver
  <2>1. /\ nrkey' = FALSE /\ UNCHANGED <<cloud, hkey, todo>>
        /\ thr.run.at = "delN" /\ Goes("run", "dropH", None)
    BY <1>3, <1>14 DEF DeleteResolver, At, watchVars
  <2>2. thr'["run"].at = "dropH"
    BY <1>0, <2>1, Goings
  <2>3. Seen("cloud", cloud)' = Seen("cloud", cloud) /\ Seen("healer", hkey)' = Seen("healer", hkey)
    BY <2>1 DEF Seen
  <2>4. Seen("cloud", cloud) = FALSE
    <3>1. Seen("cloud", cloud) \in BOOLEAN
      BY <1>5 DEF Seen, SeenBefore
    <3> QED
      BY <1>0, <2>1, <3>1 DEF CloudDone, ResolverDone
  <2>5. CloudDone'
    BY <1>0, <1>1, <2>1, <2>2, <2>3, <2>4 DEF CloudDone, ResolverDone
  <2>6. KeyDone'
    BY <1>0, <1>1, <2>1, <2>2, <2>3, KeyStays DEF HealerPlaces
  <2>7. OrphanOK'
    BY <2>2 DEF OrphanOK
  <2> QED
    BY <1>2, <2>5, <2>6, <2>7
<1>15. CASE DeleteHealer
  <2>1. /\ hkey' = FALSE /\ UNCHANGED <<cloud, nrkey>> /\ IF hkey THEN Event("healer", "delete") ELSE NoEvent
        /\ thr.run.at = "dropH" /\ Returns("run")
    BY <1>3, <1>15 DEF DeleteHealer, At
  <2>2. mgr # "loading" /\ thr["run"].then = "select"
    BY <1>0, <2>1 DEF RunInv, EventPlaces, LoadPlaces
  <2>3. thr'["run"].at = "select"
    <3>1. Goes("run", "select", None)
      BY <2>1, <2>2 DEF Returns
    <3> QED
      BY <1>0, <3>1, Goings
  <2>4. Seen("healer", hkey)' = Seen("healer", hkey) /\ todo'["cloud"] = todo["cloud"]
    <3>1. CASE hkey
      <4>1. hkey = TRUE
        BY <1>5, <3>1
      <4>2. QueueOK("healer", TRUE) /\ Event("healer", IF TRUE THEN "delete" ELSE "create")
        BY <1>5, <2>1, <4>1
      <4>3. SeenBefore(todo'["healer"], ~TRUE) = SeenBefore(todo["healer"], TRUE) /\ todo'["cloud"] = todo["cloud"]
        BY <1>0, <1>5, <2>2, <4>2, WrittenQueue
      <4> QED
        BY <2>1, <4>1, <4>3 DEF Seen
    <3>2. CASE ~hkey
      BY <1>5, <2>1, <3>2 DEF NoEvent, watchVars, Seen
    <3> QED
      BY <3>1, <3>2
  <2>5. Seen("cloud", cloud)' = Seen("cloud", cloud)
    BY <2>1, <2>4 DEF Seen
  <2>6. CloudDone'
    BY <1>0, <1>1, <2>1, <2>3, <2>5, CloudStays DEF ResolverPlaces
  <2>7. KeyDone'
    BY <1>0, <1>1, <2>1, <2>3, <2>4, KeyStays DEF HealerPlaces
  <2>8. OrphanOK'
    BY <2>1 DEF OrphanOK
  <2> QED
    BY <1>2, <2>6, <2>7, <2>8
<1> QED
  BY <1>4, <1>9, <1>10, <1>11, <1>12, <1>13, <1>14, <1>15 DEF Asks

\* Run handles a worker.
LEMMA ExactHandles ==
  ASSUME IInv, Alone, ~failed, ~late, Handles("run")
  PROVE  CloudDone' /\ KeyDone' /\ OneHealer' /\ OrphanOK'
<1> USE PlaceNames
<1>0. /\ Types /\ Stands("run") /\ RunInv /\ QueueInv /\ SoloInv
      /\ CloudDone /\ KeyDone /\ OneHealer /\ OrphanOK
      /\ None \in Identities /\ thr.run.id \in Identities /\ None \notin Healers /\ None \notin Resolvers
      /\ rqt.healer \in Healers \union {None}
  BY ExactParts, HealerManagerAssumption DEF IInv, Identities, Types, Goroutine
<1>1. UNCHANGED <<todo, cloud, hkey, nrkey, mine>>
  BY HandlesFrame
<1>2. Seen("cloud", cloud)' = Seen("cloud", cloud) /\ Seen("healer", hkey)' = Seen("healer", hkey)
  BY <1>1 DEF Seen
<1>3. \/ thr.run.at \notin {"stopN", "forgetN", "delN", "dropH"}
      \/ thr'["run"].at \in {"stopN", "forgetN", "delN", "dropH"}
      => OrphanOK'
  BY <1>0, <1>1 DEF OrphanOK
<1>4. CASE OpenWatches
  <2>1. thr.run.at = "watch" /\ thr'["run"].at = "select" /\ UNCHANGED <<rqt, heal>>
    BY <1>0, <1>4 DEF OpenWatches, At, Types, workers
  <2>2. CloudDone'
    BY <1>0, <1>1, <1>2, <2>1, CloudStays DEF ResolverPlaces
  <2>3. KeyDone'
    BY <1>0, <1>1, <1>2, <2>1, KeyStays DEF HealerPlaces
  <2>4. OneHealer'
    BY <1>0, <2>1 DEF OneHealer
  <2> QED
    BY <1>3, <2>1, <2>2, <2>3, <2>4
<1>5. CASE StartResolver
  <2>1. thr.run.at = "backendN" /\ thr'["run"].at = thr["run"].then /\ UNCHANGED <<heal, mgr>>
    BY <1>0, <1>5, Ways, Goings DEF StartResolver, At, Returns
  <2>2. mgr = "loading" => thr["run"].then = "loadH"
    BY <1>0, <2>1 DEF RunInv
  <2>3. mgr # "loading" => thr["run"].then = "select"
    BY <1>0, <2>1 DEF RunInv, LoadPlaces
  <2>4. Seen("cloud", cloud) /\ nrkey
    BY <1>0, <2>1 DEF CloudDone, ResolverDone
  <2>5. PICK r \in Resolvers : rqt' = [rqt EXCEPT !.nr = r]
    BY <1>5, FreshResolver
  <2>6. rqt'.nr = r /\ rqt'.healer = rqt.healer
    BY <1>0, <2>5 DEF Types
  <2>7. CloudDone'
    <3>1. Seen("cloud", cloud) = TRUE /\ nrkey = TRUE
      BY <1>0, <2>4 DEF Types, Seen, SeenBefore
    <3> QED
      BY <1>0, <1>1, <1>2, <2>1, <2>2, <2>3, <2>6, <3>1 DEF CloudDone, ResolverDone
  <2>8. KeyDone'
    <3>1. CASE mgr = "loading"
      BY <1>0, <2>1, <2>2, <2>6, <3>1 DEF KeyDone, HealerDone
    <3>2. CASE mgr # "loading"
      BY <1>0, <1>1, <1>2, <2>1, <2>3, <2>6, <3>2, KeyStays DEF HealerPlaces
    <3> QED
      BY <3>1, <3>2
  <2>9. OneHealer'
    BY <1>0, <2>1, <2>6 DEF OneHealer
  <2> QED
    BY <1>3, <2>1, <2>7, <2>8, <2>9
<1>6. CASE SetHealer("run")
  <2>1. PICK h \in Healers : /\ rqt' = [rqt EXCEPT !.healer = h] /\ heal' = [heal EXCEPT ![h] = "made"]
                             /\ Goes("run", "chan", h)
    BY <1>6, FreshHealer DEF SetHealer
  <2>2. thr.run.at = "backend" /\ thr'["run"].at = "chan"
    BY <1>0, <1>6, <2>1, Goings DEF SetHealer, Registers, At, Identities
  <2>3. rqt'.healer = h /\ rqt'.nr = rqt.nr
    BY <1>0, <2>1 DEF Types
  <2>4. Seen("healer", hkey) /\ mine /\ rqt.healer = None
    BY <1>0, <2>2 DEF KeyDone, HealerDone
  <2>5. CloudDone'
    BY <1>0, <1>1, <1>2, <2>2, <2>3, CloudStays DEF ResolverPlaces
  <2>6. KeyDone'
    BY <1>1, <1>2, <2>2, <2>4 DEF KeyDone, HealerDone
  <2>7. OneHealer'
    BY <1>0, <2>1, <2>3, <2>4 DEF OneHealer, Types
  <2> QED
    BY <1>3, <2>2, <2>5, <2>6, <2>7
<1>7. CASE MakeChan("run")
  <2>1. thr.run.at = "chan" /\ thr'["run"].at = "go" /\ UNCHANGED <<rqt, heal>>
    BY <1>0, <1>7, Goings DEF MakeChan, At, workers
  <2>2. CloudDone'
    BY <1>0, <1>1, <1>2, <2>1, CloudStays DEF ResolverPlaces
  <2>3. KeyDone'
    BY <1>0, <1>1, <1>2, <2>1 DEF KeyDone, HealerDone
  <2>4. OneHealer'
    BY <1>0, <2>1 DEF OneHealer
  <2> QED
    BY <1>3, <2>1, <2>2, <2>3, <2>4
<1>8. CASE GoHealer("run")
  <2>1. /\ thr.run.at = "go" /\ thr'["run"].at = thr["run"].then /\ rqt' = rqt
        /\ heal' = [heal EXCEPT ![thr.run.id] = IF heal[thr.run.id] = "made" THEN "live" ELSE heal[thr.run.id]]
    BY <1>0, <1>8, Ways, Goings DEF GoHealer, At, Returns
  <2>2. thr["run"].then \in {"watch", "select"}
    BY <1>0, <2>1 DEF RunInv, LoadPlaces
  <2>3. rqt.healer # None /\ thr.run.id = rqt.healer /\ rqt.healer \in Healers
    BY <1>0, <2>1 DEF SoloInv, Stands
  <2>4. Seen("healer", hkey) /\ mine
    BY <1>0, <2>1 DEF KeyDone, HealerDone
  <2>5. CloudDone'
    BY <1>0, <1>1, <1>2, <2>1, <2>2, CloudStays DEF ResolverPlaces
  <2>6. KeyDone'
    BY <1>1, <1>2, <2>1, <2>2, <2>3, <2>4 DEF KeyDone, HealerDone
  <2>7. OneHealer'
    BY <1>0, <2>1, <2>3 DEF OneHealer, Types
  <2> QED
    BY <1>3, <2>1, <2>5, <2>6, <2>7
<1>9. CASE StopResolver("run")
  <2>1. thr.run.at = "stopN" /\ thr'["run"].at = "forgetN" /\ UNCHANGED <<rqt, heal>>
    BY <1>0, <1>9, Goings DEF StopResolver, At
  <2>2. CloudDone'
    BY <1>0, <1>1, <1>2, <2>1 DEF CloudDone, ResolverDone
  <2>3. KeyDone'
    BY <1>0, <1>1, <1>2, <2>1, KeyStays DEF HealerPlaces
  <2>4. OneHealer'
    BY <1>0, <2>1 DEF OneHealer
  <2> QED
    BY <1>3, <2>1, <2>2, <2>3, <2>4
<1>10. CASE ForgetResolver("run")
  <2>1. thr.run.at = "forgetN" /\ thr'["run"].at = "delN" /\ heal' = heal
    BY <1>0, <1>10, Goings DEF ForgetResolver, At
  <2>2. rqt'.nr = None /\ rqt'.healer = rqt.healer
    BY <1>0, <1>10 DEF ForgetResolver, Types
  <2>3. CloudDone'
    BY <1>0, <1>1, <1>2, <2>1, <2>2 DEF CloudDone, ResolverDone
  <2>4. KeyDone'
    BY <1>0, <1>1, <1>2, <2>1, <2>2, KeyStays DEF HealerPlaces
  <2>5. OneHealer'
    BY <1>0, <2>1, <2>2 DEF OneHealer
  <2> QED
    BY <1>3, <2>1, <2>3, <2>4, <2>5
<1>11. CASE StopHealer("run")
  <2>1. /\ thr.run.at = "ask" /\ thr'["run"].at = "wait" /\ thr'["run"].id = thr.run.id /\ rqt' = rqt
        /\ heal' = [heal EXCEPT ![thr.run.id] = IF heal[thr.run.id] \in {"made", "live"} THEN "stopping" ELSE heal[thr.run.id]]
    BY <1>0, <1>11, Goings DEF StopHealer, At, Stands
  <2>2. ~Seen("healer", hkey) /\ mine /\ rqt.healer # None /\ thr.run.id = rqt.healer
    BY <1>0, <2>1 DEF KeyDone, HealerDone
  <2>3. CloudDone'
    BY <1>0, <1>1, <1>2, <2>1, CloudStays DEF ResolverPlaces
  <2>4. heal'[rqt.healer] \notin {"made", "live"} /\ \A h \in Healers : heal'[h] \in {"made", "live"} => heal[h] \in {"made", "live"}
    BY <1>0, <2>1, <2>2 DEF Types
  <2>5. KeyDone'
    BY <1>1, <1>2, <2>1, <2>2, <2>4 DEF KeyDone, HealerDone
  <2>6. OneHealer'
    BY <1>0, <2>1, <2>4 DEF OneHealer
  <2> QED
    BY <1>3, <2>1, <2>3, <2>5, <2>6
<1>12. CASE ForgetHealer("run")
  <2>1. thr.run.at = "wait" /\ thr'["run"].at = thr["run"].then /\ heal' = heal
    BY <1>0, <1>12, Ways, Goings DEF ForgetHealer, At, Returns
  <2>2. thr["run"].then = "select"
    BY <1>0, <2>1 DEF RunInv, EventPlaces, LoadPlaces
  <2>3. rqt'.healer = None /\ rqt'.nr = rqt.nr
    BY <1>0, <1>12 DEF ForgetHealer, Types
  <2>4. ~Seen("healer", hkey) /\ rqt.healer # None /\ heal[rqt.healer] \notin {"made", "live"}
    BY <1>0, <2>1 DEF KeyDone, HealerDone
  <2>5. CloudDone'
    BY <1>0, <1>1, <1>2, <2>1, <2>2, <2>3, CloudStays DEF ResolverPlaces
  <2>6. KeyDone'
    BY <1>1, <1>2, <2>1, <2>2, <2>3, <2>4 DEF KeyDone, HealerDone
  <2>7. OneHealer'
    BY <1>0, <2>1, <2>4 DEF OneHealer
  <2> QED
    BY <1>3, <2>1, <2>5, <2>6, <2>7
<1> QED
  BY <1>4, <1>5, <1>6, <1>7, <1>8, <1>9, <1>10, <1>11, <1>12 DEF Handles

\* What happens around the manager is an event to come, or nothing to it.
LEMMA ExactAround ==
  ASSUME IInv, Alone, ~failed', ~failed, ~late, ~late', mine' = mine, Around, ~RingMoves, ~Stopped
  PROVE  CloudDone' /\ KeyDone' /\ OneHealer' /\ OrphanOK'
<1>0. /\ Types /\ QueueInv /\ CloudDone /\ KeyDone /\ OneHealer /\ OrphanOK /\ UNCHANGED <<thr, rqt, nrkey>>
      /\ \A h \in Healers : heal[h] \notin {"made", "live"} => heal'[h] \notin {"made", "live"}
      /\ rqt.healer \in Healers \union {None} /\ cloud \in BOOLEAN /\ hkey \in BOOLEAN
      /\ QueueOK("cloud", cloud) /\ QueueOK("healer", hkey) /\ deaf = {}
  BY ExactParts, AroundFrame, AroundWorkers DEF IInv, QueueInv, Types
<1>1. OneHealer'
  BY <1>0 DEF OneHealer
<1>2. ASSUME Seen("cloud", cloud)' = Seen("cloud", cloud), Seen("healer", hkey)' = Seen("healer", hkey), mgr' = mgr
      PROVE  CloudDone' /\ KeyDone'
  <2>1. CloudDone'
    BY <1>0, <1>2 DEF CloudDone, ResolverDone
  <2>2. KeyDone'
    BY <1>0, <1>2 DEF KeyDone, HealerDone
  <2> QED
    BY <2>1, <2>2
<1>3. CASE WriteCloud
  <2>1. PICK s \in BOOLEAN : s = cloud
    BY <1>0
  <2>2. /\ Event("cloud", IF s THEN "delete" ELSE "create") /\ mgr # "loading" /\ QueueOK("cloud", s)
        /\ cloud' = ~s /\ hkey' = hkey /\ mgr' = mgr
    BY <1>0, <1>3, <2>1 DEF WriteCloud, Event, Node
  <2>3. SeenBefore(todo'["cloud"], ~s) = SeenBefore(todo["cloud"], s) /\ todo'["healer"] = todo["healer"]
        /\ Alternates(todo'["cloud"], ~s)
    BY <1>0, <2>2, WrittenQueue
  <2>4. Seen("cloud", cloud)' = Seen("cloud", cloud) /\ Seen("healer", hkey)' = Seen("healer", hkey)
    BY <2>1, <2>2, <2>3 DEF Seen
  <2>5. todo'["cloud"] # << >>
    <3>1. todo' = [todo EXCEPT !["cloud"] = Append(todo["cloud"], IF s THEN "delete" ELSE "create")]
      BY <1>0, <2>2 DEF Event
    <3>2. todo["cloud"] \in Seq({"create", "delete"}) /\ (IF s THEN "delete" ELSE "create") \in {"create", "delete"}
      BY <1>0 DEF Types
    <3>3. todo'["cloud"] = Append(todo["cloud"], IF s THEN "delete" ELSE "create")
      BY <1>0, <3>1 DEF Types
    <3>4. \A q \in Seq({"create", "delete"}), e \in {"create", "delete"} : Append(q, e) # << >>
      OBVIOUS
    <3> QED
      BY <3>2, <3>3, <3>4
  <2> QED
    BY <1>1, <1>2, <2>2, <2>4, <2>5 DEF OrphanOK
<1>4. ASSUME NEW s \in BOOLEAN, s = hkey, hkey' = ~s, cloud' = cloud, UNCHANGED Node, s \/ cloud,
             Event("healer", IF s THEN "delete" ELSE "create")
      PROVE  CloudDone' /\ KeyDone' /\ OrphanOK'
  <2>2. mgr # "loading" /\ QueueOK("healer", s) /\ mgr' = mgr
    BY <1>0, <1>4 DEF Event, Node
  <2>3. SeenBefore(todo'["healer"], ~s) = SeenBefore(todo["healer"], s) /\ todo'["cloud"] = todo["cloud"]
    BY <1>0, <1>4, <2>2, WrittenQueue
  <2>4. Seen("cloud", cloud)' = Seen("cloud", cloud) /\ Seen("healer", hkey)' = Seen("healer", hkey)
    BY <1>4, <2>3 DEF Seen
  <2>5. OrphanOK'
    BY <1>4 DEF OrphanOK
  <2> QED
    BY <1>2, <2>2, <2>4, <2>5
<1>5. ASSUME UNCHANGED <<etcdVars, mgr>> PROVE CloudDone' /\ KeyDone' /\ OrphanOK'
  BY <1>0, <1>2, <1>5 DEF etcdVars, watchVars, Seen, OrphanOK
<1>8. ASSUME UNCHANGED <<cloud, hkey, nrkey, todo, mgr>> PROVE CloudDone' /\ KeyDone' /\ OrphanOK'
  BY <1>0, <1>2, <1>8 DEF Seen, OrphanOK
<1>9. CASE Meanwhile
  <2>1. CASE AskCloud \/ CountHealers \/ TryQuery
    BY <1>1, <1>8, <2>1 DEF AskCloud, CountHealers, TryQuery, CreateGoes, watchVars, Node
  <2>2. CASE CreateHealer
    <3>1. cloud
      BY <2>2 DEF CreateHealer
    <3>2. CASE hkey
      <4>1. UNCHANGED <<cloud, hkey, nrkey, todo, mgr>>
        BY <1>0, <2>2, <3>2 DEF CreateHealer, Put, NoEvent, watchVars, Node
      <4> QED
        BY <1>1, <1>8, <4>1
    <3>3. CASE ~hkey
      <4>1. hkey = FALSE /\ hkey' = ~FALSE /\ Event("healer", IF FALSE THEN "delete" ELSE "create")
            /\ cloud' = cloud /\ UNCHANGED Node
        BY <1>0, <2>2, <3>3 DEF CreateHealer, Put
      <4> QED
        BY <1>1, <1>4, <3>1, <4>1
    <3> QED
      BY <3>2, <3>3
  <2>3. CASE RemoveHealer
    <3>1. hkey = TRUE /\ hkey' = ~TRUE /\ Event("healer", IF TRUE THEN "delete" ELSE "create")
          /\ cloud' = cloud /\ UNCHANGED Node
      BY <1>0, <2>3 DEF RemoveHealer
    <3> QED
      BY <1>1, <1>4, <3>1
  <2>4. ASSUME NEW w \in Watches, WatchFails(w) PROVE FALSE
    BY <2>4 DEF WatchFails
  <2> QED
    BY <1>9, <2>1, <2>2, <2>3, <2>4 DEF Meanwhile
<1>6. ASSUME NEW p \in Pubs,
             \/ PubTurns(p)
             \/ \E r \in Resolvers : PubReceives(p, r)
             \/ \E h \in Healers : UpdateNodes(p, h)
      PROVE  UNCHANGED <<etcdVars, mgr>>
  BY <1>0, <1>6, PubTypes, TypesSplit
<1>7. CASE (\E h \in Healers : HealerEnds(h)) \/ \E r \in Resolvers : ResolverEnds(r)
  BY <1>5, <1>1, <1>7 DEF HealerEnds, ResolverEnds
<1> QED
  BY <1>1, <1>3, <1>5, <1>6, <1>7, <1>9 DEF Around

\* A failure is never forgotten, nor a healer that came late.
LEMMA FailedStays ==
  ASSUME Types, Around \/ Stop \/ (\E t \in Threads : Wanders(t) \/ Asks(t) \/ Handles(t))
  PROVE  (failed => failed') /\ (late => late')
<1>1. ASSUME NEW w, NEW type, Event(w, type) PROVE failed => failed'
  BY <1>1 DEF Event
<1>2. ASSUME RequestFails PROVE failed' /\ late' = late
  BY <1>2 DEF RequestFails, apiVars
<1>3. ASSUME Put PROVE failed => failed'
  BY <1>1, <1>3 DEF Put, NoEvent, watchVars
<1>8. ASSUME PutHealer PROVE (failed => failed') /\ late' = late
  BY <1>3, <1>8 DEF PutHealer, apiVars
<1>4. CASE Around
  <2>1. ASSUME NEW p \in Pubs,
               \/ PubTurns(p)
               \/ \E r \in Resolvers : PubReceives(p, r)
               \/ \E h \in Healers : UpdateNodes(p, h)
        PROVE  UNCHANGED etcdVars
    BY <2>1, PubTypes, TypesSplit
  <2> QED
    BY <1>1, <1>3, <1>4, <2>1 DEF Around, WriteCloud, Meanwhile, CreateHealer, RemoveHealer, AskCloud,
       CountHealers, TryQuery, CreateGoes, WatchFails, RingMoves, Stopped, HealerEnds, ResolverEnds,
       etcdVars, watchVars, apiVars
<1>5. CASE Stop
  BY <1>5 DEF Stop, watchVars, apiVars
<1>6. ASSUME NEW t \in Threads, Wanders(t) PROVE failed' = failed /\ late' = late
  BY <1>6 DEF Wanders, LoadResolver, LoadHealer, Reads, CheckResolver, CheckHealer, CheckCloud, RunStops,
       Look, LookUp, AskRing, GetHealer, LeaveHealer, Steps, etcdVars, watchVars, apiVars
<1>7. ASSUME NEW t \in Threads, Asks(t) PROVE (failed => failed') /\ (late => late')
  BY <1>1, <1>2, <1>8, <1>7 DEF Asks, LoadFails, StartFails, CloudCreated, CloudGone, HealerCreated,
     HealerGone, Take, DeleteResolver, PutResolver, DeleteHealer, NoEvent, Rebalance, HandOver, SaveHealer,
     etcdVars, watchVars, apiVars
<1> QED
  BY <1>4, <1>5, <1>6, <1>7, HandlesFrame

\* A step of a manager that is alone and without failure keeps every part.
LEMMA ExactStep ==
  ASSUME IInv, Next
  PROVE  ExactInv'
<1> SUFFICES ASSUME Alone', ~failed', ~late' PROVE CloudDone' /\ KeyDone' /\ OneHealer' /\ OrphanOK'
  BY ExactPartsNext
<1>1. /\ Alone /\ mine' = mine
      /\ (Around /\ ~RingMoves /\ ~Stopped) \/ Wanders("run") \/ Asks("run") \/ Handles("run")
  BY SoloSteps DEF IInv
<1>2. ~failed /\ ~late
  BY <1>1, FailedStays, PlaceNames DEF IInv
<1> QED
  BY <1>1, <1>2, ExactAround, ExactWanders, ExactAsks, ExactHandles

-----------------------------------------------------------------------------
(* What ends the process.                                                  *)

\* Nothing happens after the end.
LEMMA OnlyUp ==
  ASSUME Next
  PROVE  Up
<1>1. ASSUME NEW t \in Threads,
             \/ AskRing(t) \/ CloudMissing(t) \/ StartFails(t)
             \/ SetHealer(t) \/ MakeChan(t) \/ GoHealer(t)
             \/ PutResolver(t) \/ StopResolver(t) \/ ClosedTwice(t) \/ NilWorker(t)
             \/ ForgetResolver(t) \/ GetHealer(t) \/ LeaveHealer(t) \/ StopHealer(t)
             \/ ForgetHealer(t)
      PROVE  Up
  BY <1>1 DEF AskRing, CloudMissing, StartFails, SetHealer, Registers, MakeChan, GoHealer, PutResolver,
     StopResolver, ClosedTwice, NilWorker, ForgetResolver, GetHealer, LeaveHealer, StopHealer, ForgetHealer, At
<1>2. CASE LoadResolver \/ LoadHealer \/ CheckResolver \/ CheckHealer \/ LoadFails \/ OpenWatches
           \/ CloudCreated \/ CloudGone \/ HealerCreated \/ HealerGone
           \/ StartResolver \/ DeleteResolver \/ DeleteHealer \/ RunStops
  BY <1>2 DEF LoadResolver, LoadHealer, Reads, CheckResolver, CheckHealer, CheckCloud, LoadFails, OpenWatches,
     CloudCreated, CloudGone, HealerCreated, HealerGone, Take, StartResolver, DeleteResolver, DeleteHealer,
     RunStops, At
<1>3. CASE Rebalance \/ Look \/ LookUp \/ HandOver \/ SaveHealer \/ Stopped \/ MapRace
  BY <1>3 DEF Rebalance, Look, LookUp, HandOver, SaveHealer, Stopped, MapRace, At
<1>4. CASE WriteCloud \/ Meanwhile \/ RingMoves \/ Stop
  BY <1>4 DEF WriteCloud, Meanwhile, CreateHealer, RemoveHealer, AskCloud,
       CountHealers, TryQuery, CreateGoes, WatchFails, RingMoves, Stop, Change, Open
<1>5. CASE (\E h \in Healers : HealerEnds(h)) \/ \E r \in Resolvers : ResolverEnds(r)
  BY <1>5 DEF HealerEnds, ResolverEnds
<1>6. CASE \E p \in Pubs :
             \/ PubTurns(p)
             \/ \E r \in Resolvers : PubReceives(p, r)
             \/ \E h \in Healers : UpdateNodes(p, h)
  BY <1>6 DEF PubTurns, PubReceives, UpdateNodes
<1> QED
  BY <1>1, <1>2, <1>3, <1>4, <1>5, <1>6 DEF Next, Meanwhile

\* Who ends the process by a worker that is not there, or a second close.
LEMMA Culprits ==
  ASSUME Types, Next
  PROVE  \/ crash' \in {crash, "cloud", "race"}
         \/ \E t \in Threads : ClosedTwice(t) \/ NilWorker(t)
<1>1. ASSUME Around \/ Stop \/ (\E t \in Threads : Wanders(t) \/ Asks(t) \/ Handles(t))
      PROVE  crash' = crash
  BY <1>1, AroundFrame, NodeStays, HandlesFrame DEF Stop
<1>2. ASSUME MapRace \/ \E t \in Threads : CloudMissing(t)
      PROVE  crash' \in {"cloud", "race"}
  BY <1>2 DEF MapRace, CloudMissing, Panics
<1>3. "run" \in Threads /\ "reload" \in Threads /\ "saveH" \in Threads
  BY PlaceNames
<1>4. CASE WriteCloud \/ Meanwhile \/ RingMoves \/ Stopped \/ (\E h \in Healers : HealerEnds(h))
           \/ (\E r \in Resolvers : ResolverEnds(r))
           \/ (\E p \in Pubs : \/ PubTurns(p)
                               \/ \E r \in Resolvers : PubReceives(p, r)
                               \/ \E h \in Healers : UpdateNodes(p, h))
  BY <1>1, <1>4 DEF Around
<1>5. CASE LoadResolver \/ LoadHealer \/ CheckResolver \/ CheckHealer \/ LoadFails \/ OpenWatches
           \/ CloudCreated \/ CloudGone \/ HealerCreated \/ HealerGone
           \/ StartResolver \/ DeleteResolver \/ DeleteHealer \/ RunStops
           \/ Rebalance \/ Look \/ LookUp \/ HandOver \/ Stop \/ SaveHealer
  BY <1>1, <1>3, <1>5 DEF Wanders, Asks, Handles
<1>6. ASSUME NEW t \in Threads,
             \/ AskRing(t) \/ StartFails(t) \/ SetHealer(t) \/ MakeChan(t) \/ GoHealer(t)
             \/ PutResolver(t) \/ StopResolver(t) \/ ForgetResolver(t) \/ GetHealer(t) \/ LeaveHealer(t)
             \/ StopHealer(t) \/ ForgetHealer(t)
      PROVE  crash' = crash
  BY <1>1, <1>6 DEF Wanders, Asks, Handles
<1> QED
  BY <1>1, <1>2, <1>4, <1>5, <1>6 DEF Next, Meanwhile

\* Alone, no step stops what is not there or closes what is closed.
LEMMA StopsStep ==
  ASSUME IInv, Next
  PROVE  StopsOnce'
<1>0. Types /\ Up /\ crash = "no" /\ OthersInv /\ SoloInv
  BY OnlyUp DEF IInv, Up
<1>1. ASSUME NEW t \in Threads, ClosedTwice(t) \/ NilWorker(t)
      PROVE  mgr' = mgr /\ churned' = churned /\ (mgr # "active" \/ churned)
  <2>1. UNCHANGED <<mgr, churned>>
    BY <1>1 DEF ClosedTwice, NilWorker, Panics, ringVars
  <2>2. ASSUME mgr = "active", ~churned PROVE FALSE
    <3>1. Alone
      BY <1>0, <2>2 DEF Alone
    <3>2. t = "run"
      <4>1. thr[t].at # "idle"
        BY <1>1 DEF ClosedTwice, NilWorker, At
      <4> QED
        BY <1>0, <2>2, <4>1, PlaceNames DEF OthersInv
    <3> QED
      BY <1>0, <1>1, <3>1, <3>2 DEF SoloInv, ClosedTwice, NilWorker, At
  <2> QED
    BY <2>1, <2>2
<1> QED
  BY <1>0, <1>1, Culprits DEF StopsOnce

-----------------------------------------------------------------------------

\* All of it holds before load.
LEMMA InitIInv == Init => IInv
<1> SUFFICES ASSUME Init PROVE IInv
  OBVIOUS
<1> USE PlaceNames
<1>0. "loadN" \in Places /\ "idle" \in Places /\ None \in Identities
  BY PlaceIsPlace DEF Identities
<1>1. /\ Idle \in Goroutine /\ [Idle EXCEPT !.at = "loadN"] \in Goroutine
      /\ Off \in [at: {"off", "get", "recv", "send"}, ch: Identities]
  BY <1>0 DEF Idle, Off, Goroutine
<1>2. thr = [t \in Threads |-> IF t = "run" THEN [Idle EXCEPT !.at = "loadN"] ELSE Idle]
  BY DEF Init
<1>3. /\ thr \in [Threads -> Goroutine]
      /\ thr["run"].at = "loadN" /\ \A t \in Threads : t # "run" => thr[t].at = "idle" /\ thr[t].then = "idle"
  BY <1>1, <1>2 DEF Idle
<1>4. /\ todo["cloud"] = << >> /\ todo["healer"] = << >>
      /\ todo \in [{"cloud", "healer"} -> Seq({"create", "delete"})]
  BY DEF Init, Watches
<1>5. Types
  BY <1>1, <1>3, <1>4 DEF Init, Types, NoWorker
<1>6. \A t \in Threads : Stands(t)
  BY <1>3 DEF Stands
<1>7. ListenInv /\ ~churned /\ ~pending /\ mgr = "loading" /\ Up /\ rqt = NoWorker /\ nrkey = cloud
      /\ (~late => (hkey => cloud)) /\ (\A h \in Healers : heal[h] = "off")
  BY DEF Init, ListenInv, Up
<1>8. RunInv
  BY <1>3, <1>7 DEF RunInv, LoadPlaces, EventPlaces
<1>9. OthersInv
  BY <1>3, <1>7 DEF OthersInv
<1>10. QueueInv
  BY <1>4 DEF QueueInv, QueueOK, Alternates, Init
<1>11. SoloInv /\ ChanInv /\ FedInv /\ StopsOnce
  BY <1>3, <1>7 DEF SoloInv, ChanInv, FedInv, StopsOnce, NoWorker, Up
<1>12. ExactInv
  <2>1. Seen("cloud", cloud) = cloud
    BY <1>4 DEF Seen, SeenBefore
  <2>2. CloudDone /\ KeyDone
    BY <1>3, <1>7, <2>1 DEF CloudDone, ResolverDone, KeyDone, HealerDone, NoWorker
  <2>3. OneHealer /\ (~late => OrphanOK)
    BY <1>7 DEF OneHealer, OrphanOK
  <2> QED
    BY <2>2, <2>3, ExactParts
<1> QED
  BY <1>5, <1>6, <1>7, <1>8, <1>9, <1>10, <1>11, <1>12 DEF IInv

\* Every step keeps the invariant.
LEMMA NextIInv == IInv /\ [Next]_vars => IInv'
<1> SUFFICES ASSUME IInv, [Next]_vars PROVE IInv'
  OBVIOUS
<1>1. CASE Next
  <2>1. CASE \E why \in {"nil", "closed", "cloud", "race"} : Panics(why)
    <3>1. /\ Types' /\ (\A t \in Threads : Stands(t)') /\ ListenInv' /\ RunInv' /\ OthersInv' /\ QueueInv'
          /\ ~Alone' /\ ChanInv'
      BY <2>1, PanicKeeps DEF IInv
    <3> QED
      BY <1>1, <3>1, StopsStep DEF IInv, SoloInv, FedInv, ExactInv
  <2>2. CASE Around \/ Stop \/ (\E t \in Threads : Wanders(t) \/ Asks(t) \/ Handles(t))
    <3>0. Types /\ (\A t \in Threads : Stands(t)) /\ ListenInv /\ RunInv /\ OthersInv /\ QueueInv
          /\ SoloInv /\ ChanInv /\ FedInv
      BY DEF IInv
    <3>1. Types' /\ \A t \in Threads : Stands(t)'
      BY <2>2, <3>0, TypesStep, StandsStep
    <3>2. ListenInv' /\ RunInv' /\ OthersInv' /\ QueueInv'
      BY <2>2, <3>0, ListenStep, RunStep, OthersStep, QueueStep
    <3>3. SoloInv' /\ ChanInv' /\ FedInv'
      BY <1>1, <3>0, SoloStep, ChanStep, FedStep
    <3> QED
      BY <1>1, <3>1, <3>2, <3>3, ExactStep, StopsStep DEF IInv
  <2> QED
    BY <1>1, <2>1, <2>2, Roles
<1>2. CASE UNCHANGED vars
  <2>1. UNCHANGED <<cloud, nrkey, hkey, todo, deaf, create, late, changes, failed, mine, pending, churned, ncin, ncout, hch, pub,
                    early, rqt, res, heal, mgr, crash, thr>>
    BY <1>2 DEF vars, etcdVars, watchVars, apiVars, ringVars, Node, chanVars, workers
  <2>2. Types' /\ ListenInv' /\ RunInv' /\ OthersInv' /\ StopsOnce' /\ \A t \in Threads : Stands(t)'
    BY <2>1 DEF IInv, Types, ListenInv, RunInv, OthersInv, StopsOnce, Stands
  <2>3. QueueInv' /\ SoloInv' /\ ChanInv' /\ FedInv'
    BY <2>1 DEF IInv, QueueInv, QueueOK, SoloInv, ChanInv, FedInv, Serves, Alone, Up
  <2>4. ExactInv'
    BY <2>1 DEF IInv, ExactInv, ResolverDone, HealerDone, Seen, OrphanOK, Alone, Up
  <2> QED
    BY <2>2, <2>3, <2>4 DEF IInv
<1> QED
  BY <1>1, <1>2

\* All of it always holds.
LEMMA Inductive == Spec => []IInv
BY InitIInv, NextIInv, PTL DEF Spec

\* Every variable has its type, and a healer that runs listens to a channel.
THEOREM TypeCorrect == Spec => []TypeOK
<1>1. IInv => TypeOK
  BY DEF IInv, Types, ListenInv, TypeOK, Identities
<1> QED
  BY Inductive, <1>1, PTL

\* When all is handled, and no request or watch failed, the ring did not move and no
\* healer was put after its cloud was removed, the node runs exactly the workers that
\* etcd and the ring give it.
THEOREM RunsExactlyItsWorkers == Spec => []ExactWhenQuiet
<1>1. ASSUME IInv, Quiet, ~failed, ~churned, ~late
      PROVE  /\ (rqt.nr # None) = cloud
             /\ nrkey = cloud
             /\ hkey => cloud
             /\ (rqt.healer # None) = (hkey /\ mine)
             /\ \A h \in Healers : heal[h] = "live" => h = rqt.healer
  <2>1. CloudDone /\ KeyDone /\ OneHealer /\ OrphanOK
    BY <1>1, ExactParts DEF IInv, Alone, Quiet
  <2>2. /\ thr.run.at = "select" /\ todo["cloud"] = << >>
        /\ Seen("cloud", cloud) = cloud /\ Seen("healer", hkey) = hkey
    BY <1>1 DEF Quiet, Seen, SeenBefore
  <2> QED
    BY <2>1, <2>2 DEF CloudDone, ResolverDone, KeyDone, HealerDone, OneHealer, OrphanOK
<1>2. IInv => ExactWhenQuiet
  BY <1>1 DEF ExactWhenQuiet
<1> QED
  BY Inductive, <1>2, PTL

\* A worker that is not there is stopped, or one stopped twice, only after a Stop of the
\* manager or a move of the ring.
THEOREM StopsWhatItHas == Spec => []StopsOnce
<1>1. IInv => StopsOnce
  BY DEF IInv
<1> QED
  BY Inductive, <1>1, PTL

\* A healer that was started after its resolver gets the names as long as both run.
THEOREM NamesArrive == Spec => []HealerIsFed
<1>1. IInv => HealerIsFed
  BY DEF IInv, HealerIsFed, FedInv, ChanInv, Serves, Alone
<1> QED
  BY Inductive, <1>1, PTL
=============================================================================
