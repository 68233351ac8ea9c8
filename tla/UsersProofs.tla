---------------------------- MODULE UsersProofs -----------------------------
(***************************************************************************)
(* Proofs about Users for any number of nodes, handlers, requests and      *)
(* failures.                                                               *)
(***************************************************************************)
EXTENDS Users, TLAPS

\* Which requests come to which step, for the record r of a handler.
Staged(r) ==
  /\ r.at = "idle" => r.kind = "other"
  /\ r.at = "enforce" => r.kind # "start"
  /\ r.at = "check" => r.kind \in Writes \ {"start"}
  /\ r.at = "put" => r.kind \in {"addUser", "changePassword"}
  /\ r.at \in {"delete", "filter"} => r.kind = "removeUser"
  /\ r.at \in {"grant", "write"} => r.kind \in {"start", "addUser", "addPolicies"}
  /\ r.at \in {"revoke", "unwrite"} => r.kind \in {"removeUser", "removePolicies"}
  /\ r.at \in {"destroy", "save"} => r.kind \in {"addPolicies", "removePolicies"}

StageInv == \A h \in Handlers : Staged(req[h])

\* Requests that did not cross have an engine each, and one of them writes.
Apart(g, h) ==
  g # h /\ ~At(g, "idle") /\ ~At(h, "idle") =>
    req[g].node # req[h].node /\ ~(req[g].kind \in Writes /\ req[h].kind \in Writes)

ApartInv == ~crossed => \A g, h \in Handlers : Apart(g, h)

\* What etcd is to hold between two writing requests.
Follows == policies \intersect OfUser = IF user THEN due ELSE {}
Orderly == Follows /\ "admin" \in policies

\* Where the one writing request is, and what it has made of etcd and its engine.
GrantProgress(h) ==
  LET p == req[h].todo IN
  /\ "admin" \in policies
  /\ Kind(h, "start") => At(h, "grant") /\ p = {"admin"} /\ Follows
  /\ Kind(h, "addUser") => p \subseteq {"view"} /\ due = {"view"}
  /\ Kind(h, "addUser") /\ At(h, "grant") => p = {"view"} /\ policies \intersect OfUser = {}
  /\ Kind(h, "addPolicies") => p \subseteq OfUser
  /\ Kind(h, "addPolicies") /\ At(h, "grant") => Follows
  /\ ~Kind(h, "start") => user
  /\ At(h, "write") => /\ Mem(h) = policies \union p /\ policies \intersect p = {}
                       /\ (policies \union p) \intersect OfUser = due

RevokeProgress(h) ==
  LET p == req[h].todo IN
  /\ "admin" \in policies
  /\ At(h, "unwrite") => "admin" \in Mem(h)
  /\ Kind(h, "removeUser") => ~user /\ policies \intersect OfUser \subseteq p
  /\ Kind(h, "removeUser") /\ At(h, "revoke") => p \subseteq Mem(h)
  /\ Kind(h, "removePolicies") => user
  /\ Kind(h, "removePolicies") /\ At(h, "revoke") => Follows
  /\ Kind(h, "removePolicies") /\ At(h, "unwrite") =>
       /\ Mem(h) = policies \ p /\ p \subseteq policies /\ due \intersect p = {}
       /\ policies \intersect OfUser = due \union p

Progress(h) ==
  /\ req[h].at \in {"clear", "load", "enforce", "check", "put", "delete"} => Orderly
  /\ At(h, "load") => Mem(h) = {}
  /\ At(h, "enforce") => Mem(h) = {} \/ Mem(h) = policies
  /\ req[h].at \in {"check", "put", "delete", "filter", "grant", "revoke"} => Mem(h) = policies
  /\ At(h, "put") => user = Kind(h, "changePassword")
  /\ At(h, "delete") => user
  /\ At(h, "filter") => ~user /\ "admin" \in policies
  /\ At(h, "grant") \/ At(h, "write") => GrantProgress(h)
  /\ At(h, "revoke") \/ At(h, "unwrite") => RevokeProgress(h)
  /\ At(h, "destroy") => user /\ Mem(h) = policies /\ Orderly
  /\ At(h, "save") => /\ user /\ "admin" \in policies \union req[h].todo
                      /\ (policies \union req[h].todo) \intersect OfUser = due

OrderInv ==
  ~crossed /\ ~broken =>
    /\ \A h \in Handlers : req[h].kind \in Writes => Progress(h)
    /\ (\A h \in Handlers : req[h].kind \notin Writes) => Orderly

IInv == TypeOK /\ StageInv /\ ApartInv /\ OrderInv

-----------------------------------------------------------------------------
LEMMA InitIInv == Init => IInv
<1> SUFFICES ASSUME Init PROVE IInv
  OBVIOUS
<1>1. req \in [Handlers -> Serving] /\ \A h \in Handlers : req[h] = Nothing
  BY DEF Init, Serving, Nothing, Kinds, Places
<1>2. policies \subseteq Policies /\ mem \in [Nodes -> SUBSET Policies]
  BY DEF Init, Policies
<1>3. TypeOK
  <2>1. \A h \in Handlers :
          /\ At(h, "idle") <=> req[h].node = None
          /\ At(h, "revoke") \/ At(h, "unwrite") => req[h].todo \subseteq OfUser
    BY <1>1 DEF Nothing, At
  <2>2. requests \in 0 .. MaxRequests /\ fails \in 0 .. MaxFails
    BY UsersAssumption DEF Init
  <2>3. user \in BOOLEAN /\ crossed \in BOOLEAN /\ broken \in BOOLEAN /\ due \subseteq Policies
    BY DEF Init, Policies
  <2> QED
    BY <1>1, <1>2, <2>1, <2>2, <2>3 DEF TypeOK
<1>4. StageInv /\ ApartInv
  BY <1>1 DEF StageInv, Staged, ApartInv, Apart, At, Nothing, Kind
<1>5. Orderly
  BY DEF Init, Orderly, Follows, OfUser
<1>6. \A h \in Handlers : req[h].kind \notin Writes
  BY <1>1 DEF Nothing, Writes
<1> QED
  BY <1>3, <1>4, <1>5, <1>6 DEF IInv, OrderInv

-----------------------------------------------------------------------------
(* What a step of one handler leaves alone.                                *)

\* A handler at work does not come nearer to the others.
LEMMA StaysApart ==
  ASSUME ApartInv, NEW h \in Handlers, ~At(h, "idle"), NEW r \in Serving,
         req \in [Handlers -> Serving], req' = [req EXCEPT ![h] = r],
         \/ r.at = "idle"
         \/ r.node = req[h].node /\ (r.kind \in Writes => req[h].kind \in Writes),
         crossed' = crossed
  PROVE  ApartInv'
<1> SUFFICES ASSUME ~crossed, NEW f \in Handlers, NEW g \in Handlers PROVE Apart(f, g)'
  BY DEF ApartInv
<1>1. Apart(f, g)
  BY DEF ApartInv
<1>2. \A k \in Handlers \ {h} : req'[k] = req[k]
  OBVIOUS
<1>3. req'[h] = r
  OBVIOUS
<1> QED
  BY <1>1, <1>2, <1>3 DEF Apart, At

\* It leaves the engines of the others, and etcd to the one that writes.
LEMMA OthersGoOn ==
  ASSUME ApartInv, ~crossed, NEW h \in Handlers, ~At(h, "idle"),
         req \in [Handlers -> Serving], req' \in [Handlers -> Serving],
         \A g \in Handlers : StageInv /\ (g # h => req'[g] = req[g]),
         mem \in [Nodes -> SUBSET Policies],
         mem' = mem \/ \E x : mem' = [mem EXCEPT ![req[h].node] = x],
         req[h].kind \notin Writes => UNCHANGED <<etcd, due>>,
         NEW g \in Handlers, g # h, req[g].kind \in Writes, Progress(g),
         ~At(g, "idle") => req[g].node \in Nodes
  PROVE  Progress(g)'
<1>1. ~At(g, "idle")
  BY DEF StageInv, Staged, At, Writes
<1>2. req[g].node # req[h].node /\ req[h].kind \notin Writes
  BY <1>1 DEF ApartInv, Apart
<1>3. user' = user /\ policies' = policies /\ due' = due
  BY <1>2 DEF etcd
<1>4. Mem(g)' = Mem(g)
  BY <1>1, <1>2 DEF Mem
<1>5. req'[g] = req[g]
  OBVIOUS
<1> QED
  BY <1>3, <1>4, <1>5 DEF Progress, GrantProgress, RevokeProgress, Orderly, Follows, At, Kind, Mem

\* A failure is never forgotten.
LEMMA StaysBroken ==
  ASSUME IInv, broken' \in {broken, TRUE}
  PROVE  broken' \in BOOLEAN /\ (~broken' => ~broken)
<1>1. broken \in BOOLEAN
  BY DEF IInv, TypeOK
<1>2. CASE broken' = broken
  BY <1>1, <1>2
<1>3. CASE broken' = TRUE
  BY <1>3
<1> QED
  BY <1>2, <1>3

\* So for every step of a handler it is enough to look at that handler.
LEMMA OneStep ==
  ASSUME IInv, NEW h \in Handlers, ~At(h, "idle"), NEW r \in Serving,
         req' = [req EXCEPT ![h] = r],
         \/ r = Nothing
         \/ /\ r.node = req[h].node /\ r.at # "idle"
            /\ r.kind \in Writes => req[h].kind \in Writes,
         Staged(r), r.at \in {"revoke", "unwrite"} => r.todo \subseteq OfUser,
         user' \in BOOLEAN, policies' \in SUBSET Policies, due' \in SUBSET Policies,
         mem' = mem \/ \E x \in SUBSET Policies : mem' = [mem EXCEPT ![req[h].node] = x],
         req[h].kind \notin Writes => UNCHANGED <<etcd, due>>,
         requests' \in 0 .. MaxRequests, fails' \in 0 .. MaxFails,
         crossed' = crossed, broken' \in {broken, TRUE},
         ~crossed /\ ~broken' =>
           IF r.kind \in Writes THEN Progress(h)' ELSE req[h].kind \in Writes => Orderly'
  PROVE  IInv'
<1>1. req' \in [Handlers -> Serving] /\ req'[h] = r /\ \A g \in Handlers \ {h} : req'[g] = req[g]
  BY DEF IInv, TypeOK
<1>2. r.at = "idle" <=> r.node = None
  BY DEF IInv, TypeOK, At, Nothing
<1>3. TypeOK'
  <2>1. mem' \in [Nodes -> SUBSET Policies]
    BY DEF IInv, TypeOK
  <2>2. \A g \in Handlers :
          /\ At(g, "idle")' <=> (req[g].node = None)'
          /\ At(g, "revoke")' \/ At(g, "unwrite")' => (req[g].todo \subseteq OfUser)'
    <3> TAKE g \in Handlers
    <3>1. CASE g = h
      BY <3>1, <1>1, <1>2 DEF At, OfUser
    <3>2. CASE g # h
      BY <3>2, <1>1 DEF IInv, TypeOK, At, OfUser
    <3> QED
      BY <3>1, <3>2
  <2>3. crossed' \in BOOLEAN
    BY DEF IInv, TypeOK
  <2>4. broken' \in BOOLEAN
    BY StaysBroken
  <2> QED
    BY <1>1, <2>1, <2>2, <2>3, <2>4 DEF TypeOK
<1>4. StageInv'
  BY <1>1 DEF IInv, StageInv, Staged
<1>5. ApartInv'
  <2>1. ApartInv /\ req \in [Handlers -> Serving]
    BY DEF IInv, TypeOK
  <2>2. r = Nothing => r.at = "idle"
    BY DEF Nothing
  <2> QED
    BY <2>1, <2>2, StaysApart
<1>6. OrderInv'
  <2> SUFFICES ASSUME ~crossed, ~broken'
               PROVE  /\ \A g \in Handlers : req'[g].kind \in Writes => Progress(g)'
                      /\ (\A g \in Handlers : req'[g].kind \notin Writes) => Orderly'
    BY DEF OrderInv
  <2>0. ~broken
    BY StaysBroken
  <2>1. ASSUME NEW g \in Handlers, g # h, req[g].kind \in Writes PROVE Progress(g)'
    <3>1. Progress(g)
      BY <2>0, <2>1 DEF IInv, OrderInv
    <3>2. ~At(g, "idle") => req[g].node \in Nodes
      BY <2>1 DEF IInv, TypeOK, Serving
    <3>3. req'[g] = req[g]
      BY <1>1, <2>1
    <3>4. mem \in [Nodes -> SUBSET Policies] /\ req \in [Handlers -> Serving]
      BY DEF IInv, TypeOK
    <3> QED
      BY <1>1, <2>1, <3>1, <3>2, <3>3, <3>4, OthersGoOn DEF IInv
  <2>2. \A g \in Handlers : req'[g].kind \in Writes => Progress(g)'
    BY <1>1, <2>1
  <2>3. ASSUME \A g \in Handlers : req'[g].kind \notin Writes PROVE Orderly'
    <3>1. \A g \in Handlers \ {h} : req[g].kind \notin Writes
      BY <1>1, <2>3
    <3>2. CASE req[h].kind \in Writes
      BY <1>1, <2>3, <3>2
    <3>3. CASE req[h].kind \notin Writes
      <4>1. Orderly
        BY <2>0, <3>1, <3>3 DEF IInv, OrderInv
      <4> QED
        BY <3>3, <4>1 DEF etcd, Orderly, Follows
    <3> QED
      BY <3>2, <3>3
  <2> QED
    BY <2>2, <2>3
<1> QED
  BY <1>3, <1>4, <1>5, <1>6 DEF IInv

\* A step that stays in its request: where it goes, and what it has yet to do.
LEMMA StepFacts ==
  ASSUME IInv, NEW h \in Handlers, NEW l \in Places, NEW p \in SUBSET Policies,
         (Goes(h, l) /\ p = req[h].todo) \/ GoesWith(h, l, p)
  PROVE  /\ req' = [req EXCEPT ![h] = [kind |-> req[h].kind, node |-> req[h].node, at |-> l, todo |-> p]]
         /\ req'[h] = [kind |-> req[h].kind, node |-> req[h].node, at |-> l, todo |-> p]
         /\ [kind |-> req[h].kind, node |-> req[h].node, at |-> l, todo |-> p] \in Serving
<1>1. req \in [Handlers -> Serving] /\ req[h] \in Serving
  BY DEF IInv, TypeOK
<1>2. req[h] \in [kind: Kinds, node: Nodes \union {None}, at: Places, todo: SUBSET Policies]
  BY <1>1 DEF Serving
<1>3. [req[h] EXCEPT !.at = l, !.todo = p]
        = [kind |-> req[h].kind, node |-> req[h].node, at |-> l, todo |-> p]
  <2> DEFINE y == [req[h] EXCEPT !.at = l, !.todo = p]
  <2>1. y \in [kind: Kinds, node: Nodes \union {None}, at: Places, todo: SUBSET Policies]
    BY <1>2
  <2>2. y.kind = req[h].kind /\ y.node = req[h].node /\ y.at = l /\ y.todo = p
    BY <1>2
  <2> HIDE DEF y
  <2>3. y = [kind |-> y.kind, node |-> y.node, at |-> y.at, todo |-> y.todo]
    BY <2>1
  <2>4. y = [kind |-> req[h].kind, node |-> req[h].node, at |-> l, todo |-> p]
    BY <2>2, <2>3
  <2> QED
    BY <2>4 DEF y
<1>4. p = req[h].todo => [req[h] EXCEPT !.at = l]
        = [kind |-> req[h].kind, node |-> req[h].node, at |-> l, todo |-> p]
  BY <1>2
<1>5. req' = [req EXCEPT ![h] = [kind |-> req[h].kind, node |-> req[h].node, at |-> l, todo |-> p]]
  BY <1>1, <1>3, <1>4 DEF Goes, GoesWith
<1>6. [kind |-> req[h].kind, node |-> req[h].node, at |-> l, todo |-> p] \in Serving
  BY <1>1 DEF Serving
<1> QED
  BY <1>1, <1>5, <1>6

LEMMA GoesOn ==
  ASSUME IInv, NEW h \in Handlers, ~At(h, "idle"),
         NEW l \in Places \ {"idle"}, NEW p \in SUBSET Policies,
         (Goes(h, l) /\ p = req[h].todo) \/ GoesWith(h, l, p),
         Staged([kind |-> req[h].kind, node |-> req[h].node, at |-> l, todo |-> p]),
         l \in {"revoke", "unwrite"} => p \subseteq OfUser,
         user' \in BOOLEAN, policies' \in SUBSET Policies, due' \in SUBSET Policies,
         mem' = mem \/ \E x \in SUBSET Policies : SetMem(h, x),
         req[h].kind \notin Writes => UNCHANGED <<etcd, due>>,
         requests' = requests, fails' \in 0 .. MaxFails,
         crossed' = crossed, broken' \in {broken, TRUE},
         (/\ ~crossed /\ ~broken /\ ~broken' /\ req[h].kind \in Writes /\ Progress(h)
          /\ req'[h] = [kind |-> req[h].kind, node |-> req[h].node, at |-> l, todo |-> p])
           => Progress(h)'
  PROVE  IInv'
<1> DEFINE r == [kind |-> req[h].kind, node |-> req[h].node, at |-> l, todo |-> p]
<1>1. req' = [req EXCEPT ![h] = r] /\ req'[h] = r /\ r \in Serving
  BY StepFacts
<1>2. r.node = req[h].node /\ r.at = l /\ r.kind = req[h].kind /\ r.todo = p
  OBVIOUS
<1>3. Staged(r)
  OBVIOUS
<1>4. ~crossed /\ ~broken' /\ req[h].kind \in Writes => Progress(h)'
  BY <1>1, StaysBroken DEF IInv, OrderInv
<1>5. ~crossed /\ ~broken' =>
        IF r.kind \in Writes THEN Progress(h)' ELSE req[h].kind \in Writes => Orderly'
  BY <1>2, <1>4
<1>6. mem' = mem \/ \E x \in SUBSET Policies : mem' = [mem EXCEPT ![req[h].node] = x]
  BY DEF SetMem
<1>7. requests' \in 0 .. MaxRequests
  BY DEF IInv, TypeOK
<1>8. r.at \in {"revoke", "unwrite"} => r.todo \subseteq OfUser
  BY <1>2
<1>9. \/ r = Nothing
      \/ /\ r.node = req[h].node /\ r.at # "idle"
         /\ r.kind \in Writes => req[h].kind \in Writes
  BY <1>2
<1> HIDE DEF r
<1> QED
  BY <1>1, <1>3, <1>5, <1>6, <1>7, <1>8, <1>9, OneStep

LEMMA ComesToEnd ==
  ASSUME IInv, NEW h \in Handlers, ~At(h, "idle"), Ends(h),
         user' \in BOOLEAN, policies' \in SUBSET Policies, due' \in SUBSET Policies, mem' = mem,
         req[h].kind \notin Writes => UNCHANGED <<etcd, due>>,
         requests' = requests, fails' \in 0 .. MaxFails,
         crossed' = crossed, broken' \in {broken, TRUE},
         ~crossed /\ ~broken /\ ~broken' /\ req[h].kind \in Writes /\ Progress(h) => Orderly'
  PROVE  IInv'
<1>1. req' = [req EXCEPT ![h] = Nothing]
  BY DEF Ends
<1>2. Nothing \in Serving /\ Staged(Nothing) /\ Nothing.at \notin {"revoke", "unwrite"}
      /\ Nothing.kind \notin Writes
  BY DEF Nothing, Serving, Kinds, Places, Staged, Writes
<1>3. ~crossed /\ ~broken' => (req[h].kind \in Writes => Orderly')
  BY StaysBroken DEF IInv, OrderInv
<1>4. requests' \in 0 .. MaxRequests
  BY DEF IInv, TypeOK
<1> QED
  BY <1>1, <1>2, <1>3, <1>4, OneStep
-----------------------------------------------------------------------------
(* The steps.                                                              *)

\* What is known of a handler at work.
LEMMA AtWork ==
  ASSUME IInv, NEW h \in Handlers, ~At(h, "idle")
  PROVE  /\ req[h] \in Serving /\ Staged(req[h]) /\ req[h].kind \in Kinds /\ req[h].at \in Places
         /\ req[h].node \in Nodes /\ req[h].todo \in SUBSET Policies
         /\ At(h, "revoke") \/ At(h, "unwrite") => req[h].todo \subseteq OfUser
         /\ mem \in [Nodes -> SUBSET Policies] /\ Mem(h) \in SUBSET Policies
         /\ policies \in SUBSET Policies /\ due \in SUBSET Policies /\ user \in BOOLEAN
         /\ broken \in BOOLEAN /\ fails \in 0 .. MaxFails
<1>1. req[h] \in Serving
  BY DEF IInv, TypeOK
<1>2. req[h].node # None
  BY DEF IInv, TypeOK
<1>3. req[h].node \in Nodes /\ req[h].kind \in Kinds /\ req[h].at \in Places
      /\ req[h].todo \in SUBSET Policies
  BY <1>1, <1>2 DEF Serving
<1>4. Staged(req[h])
  BY DEF IInv, StageInv
<1>5. mem \in [Nodes -> SUBSET Policies] /\ policies \in SUBSET Policies
      /\ due \in SUBSET Policies
  BY DEF IInv, TypeOK
<1>6. Mem(h) \in SUBSET Policies
  BY <1>3, <1>5 DEF Mem
<1>7. user \in BOOLEAN /\ broken \in BOOLEAN /\ fails \in 0 .. MaxFails
  BY DEF IInv, TypeOK
<1>8. At(h, "revoke") \/ At(h, "unwrite") => req[h].todo \subseteq OfUser
  BY DEF IInv, TypeOK
<1> QED
  BY <1>1, <1>3, <1>4, <1>5, <1>6, <1>7, <1>8

LEMMA ArriveStep ==
  ASSUME IInv, NEW h \in Handlers, NEW k \in Kinds, NEW n \in Nodes, Arrive(h, k, n)
  PROVE  IInv'
<1> DEFINE r == [kind |-> k, node |-> n, at |-> "clear", todo |-> {}]
<1>1. r \in Serving
  BY DEF Serving, Places
<1>2. req' = [req EXCEPT ![h] = r] /\ req \in [Handlers -> Serving]
  BY DEF Arrive, IInv, TypeOK
<1>3. req' \in [Handlers -> Serving] /\ req'[h] = r /\ \A g \in Handlers \ {h} : req'[g] = req[g]
  BY <1>1, <1>2
<1>4. req[h].at = "idle" /\ req[h].kind \notin Writes
  BY DEF Arrive, At, IInv, StageInv, Staged, Writes
<1>5. TypeOK'
  <2>1. \A g \in Handlers :
          /\ At(g, "idle")' <=> (req[g].node = None)'
          /\ At(g, "revoke")' \/ At(g, "unwrite")' => (req[g].todo \subseteq OfUser)'
    <3> TAKE g \in Handlers
    <3>1. CASE g = h
      BY <3>1, <1>3, UsersAssumption DEF At
    <3>2. CASE g # h
      BY <3>2, <1>3 DEF IInv, TypeOK, At, OfUser
    <3> QED
      BY <3>1, <3>2
  <2>2. requests' \in 0 .. MaxRequests /\ fails' \in 0 .. MaxFails
    BY UsersAssumption DEF Arrive, IInv, TypeOK
  <2>3. crossed' \in BOOLEAN
    BY DEF Arrive
  <2>4. user' \in BOOLEAN /\ policies' \subseteq Policies /\ mem' \in [Nodes -> SUBSET Policies]
        /\ broken' \in BOOLEAN /\ due' \subseteq Policies
    BY DEF Arrive, IInv, TypeOK, etcd
  <2> QED
    BY <1>3, <2>1, <2>2, <2>3, <2>4 DEF TypeOK
<1>6. StageInv'
  <2>1. Staged(r)
    BY DEF Staged
  <2> QED
    BY <1>3, <2>1 DEF IInv, StageInv, Staged
<1>7. ~crossed' => ~crossed /\ \A g \in Handlers :
        ~At(g, "idle") => req[g].node # n /\ ~(k \in Writes /\ req[g].kind \in Writes)
  BY DEF Arrive, Disturbs
<1>8. ApartInv'
  <2> SUFFICES ASSUME ~crossed', NEW f \in Handlers, NEW g \in Handlers, f # g PROVE Apart(f, g)'
    BY DEF ApartInv, Apart
  <2>1. Apart(f, g)
    BY <1>7 DEF IInv, ApartInv
  <2>2. CASE f = h
    BY <2>2, <1>3, <1>7 DEF Apart, At
  <2>3. CASE g = h
    BY <2>3, <1>3, <1>7 DEF Apart, At
  <2>4. CASE f # h /\ g # h
    BY <2>1, <2>4, <1>3 DEF Apart, At
  <2> QED
    BY <2>2, <2>3, <2>4
<1>9. OrderInv'
  <2> SUFFICES ASSUME ~crossed', ~broken'
               PROVE  /\ \A g \in Handlers : req'[g].kind \in Writes => Progress(g)'
                      /\ (\A g \in Handlers : req'[g].kind \notin Writes) => Orderly'
    BY DEF OrderInv
  <2>1. /\ ~crossed /\ ~broken /\ user' = user /\ policies' = policies /\ mem' = mem
        /\ due' = due
    BY <1>7 DEF Arrive, etcd
  <2>2. ASSUME NEW g \in Handlers, g # h, req[g].kind \in Writes PROVE Progress(g)'
    <3>1. Progress(g) /\ req'[g] = req[g]
      BY <1>3, <2>1, <2>2 DEF IInv, OrderInv
    <3> QED
      BY <2>1, <3>1 DEF Progress, GrantProgress, RevokeProgress, Orderly, Follows, At, Kind, Mem
  <2>3. ASSUME k \in Writes PROVE Progress(h)'
    <3>1. \A g \in Handlers : req[g].kind \notin Writes
      BY <1>7, <2>3 DEF At, IInv, StageInv, Staged, Writes
    <3>2. Orderly
      BY <2>1, <3>1 DEF IInv, OrderInv
    <3> QED
      BY <1>3, <2>1, <3>2 DEF Progress, Orderly, Follows, At
  <2>4. ASSUME \A g \in Handlers : req'[g].kind \notin Writes PROVE Orderly'
    <3>1. \A g \in Handlers : req[g].kind \notin Writes
      BY <1>3, <1>4, <2>4
    <3> QED
      BY <2>1, <3>1 DEF IInv, OrderInv, Orderly, Follows
  <2>5. \A g \in Handlers : req'[g].kind \in Writes => Progress(g)'
    BY <1>3, <2>2, <2>3
  <2> QED
    BY <2>4, <2>5
<1> QED
  BY <1>5, <1>6, <1>8, <1>9 DEF IInv

LEMMA ClearStep ==
  ASSUME IInv, NEW h \in Handlers, Clear(h)
  PROVE  IInv'
<1>1. ~At(h, "idle") /\ Goes(h, "load") /\ req[h].todo = req[h].todo
  BY DEF Clear, At
<1>2. SetMem(h, {}) /\ {} \in SUBSET Policies /\ mem'[req[h].node] = {}
  BY <1>1, AtWork DEF Clear, SetMem
<1>3. UNCHANGED <<etcd, counts, observers>>
  BY DEF Clear
<1>4. ASSUME Progress(h),
             req'[h] = [kind |-> req[h].kind, node |-> req[h].node, at |-> "load", todo |-> req[h].todo]
      PROVE  Progress(h)'
  BY <1>2, <1>3, <1>4 DEF Progress, Orderly, Follows, At, Mem, Clear, etcd, observers
<1>5. Staged([kind |-> req[h].kind, node |-> req[h].node, at |-> "load", todo |-> req[h].todo])
  BY DEF Staged
<1> QED
  BY <1>1, <1>2, <1>3, <1>4, <1>5, AtWork, GoesOn DEF Places, etcd, counts, observers

LEMMA LoadStep ==
  ASSUME IInv, NEW h \in Handlers, Load(h)
  PROVE  IInv'
<1> DEFINE l == IF Kind(h, "start") THEN "grant" ELSE "enforce"
           p == IF Kind(h, "start") THEN {"admin"} ELSE req[h].todo
<1>1. ~At(h, "idle") /\ ((Goes(h, l) /\ p = req[h].todo) \/ GoesWith(h, l, p))
  BY DEF Load, At
<1>2. SetMem(h, Mem(h) \union policies) /\ Mem(h) \union policies \in SUBSET Policies
      /\ mem'[req[h].node] = Mem(h) \union policies
  BY <1>1, AtWork DEF Load, SetMem
<1>3. UNCHANGED <<etcd, counts, observers>>
  BY DEF Load
<1>4. ASSUME Progress(h),
             req'[h] = [kind |-> req[h].kind, node |-> req[h].node, at |-> l, todo |-> p]
      PROVE  Progress(h)'
  <2>1. Orderly /\ Mem(h) = {}
    BY <1>4 DEF Load, Progress, At
  <2>2. user' = user /\ policies' = policies /\ due' = due /\ Orderly'
    BY <1>3, <2>1 DEF etcd, observers, Orderly, Follows
  <2>3. Mem(h)' = policies
    BY <1>2, <1>4, <2>1 DEF Mem
  <2>4. CASE Kind(h, "start")
    <3>1. GrantProgress(h)'
      BY <1>4, <2>2, <2>4 DEF GrantProgress, Orderly, Follows, At, Kind
    <3> QED
      BY <1>4, <2>2, <2>3, <2>4, <3>1 DEF Progress, At
  <2>5. CASE ~Kind(h, "start")
    BY <1>4, <2>2, <2>3, <2>5 DEF Progress, At
  <2> QED
    BY <2>4, <2>5
<1>5. Staged([kind |-> req[h].kind, node |-> req[h].node, at |-> l, todo |-> p])
  BY DEF Staged, Kind
<1>6. l \in Places \ {"idle"} /\ l \notin {"revoke", "unwrite"} /\ p \in SUBSET Policies
  BY <1>1, AtWork DEF Places, Policies
<1> HIDE DEF l, p
<1> QED
  BY <1>1, <1>2, <1>3, <1>4, <1>5, <1>6, AtWork, GoesOn DEF etcd, counts, observers

LEMMA EnforceStep ==
  ASSUME IInv, NEW h \in Handlers, Enforce(h)
  PROVE  IInv'
<1>1. ~At(h, "idle")
  BY DEF Enforce, At
<1>2. UNCHANGED <<etcd, mem, counts, observers>>
  BY DEF Enforce
<1>3. CASE "admin" \notin Mem(h) \/ Kind(h, "other")
  <2>1. Ends(h)
    BY <1>3 DEF Enforce
  <2>2. Progress(h) => Orderly'
    BY <1>2 DEF Enforce, Progress, Orderly, Follows, At, etcd, observers
  <2> QED
    BY <1>1, <1>2, <2>1, <2>2, AtWork, ComesToEnd DEF etcd, counts, observers
<1>4. CASE "admin" \in Mem(h) /\ Kind(h, "listUsers")
  <2> DEFINE r == [req[h] EXCEPT !.at = "clear", !.kind = "other"]
  <2>1. req \in [Handlers -> Serving] /\ req[h] \in Serving
    BY <1>1, AtWork DEF IInv, TypeOK
  <2>2. r \in Serving /\ r.node = req[h].node /\ r.at = "clear" /\ r.kind = "other"
    BY <2>1 DEF Serving, Kinds, Places
  <2>3. req' = [req EXCEPT ![h] = r]
    BY <1>4, <2>1 DEF Enforce, Kind
  <2>4. Staged(r) /\ r.kind \notin Writes /\ req[h].kind \notin Writes
    BY <1>4, <2>2 DEF Staged, Writes, Kind
  <2> HIDE DEF r
  <2>5. user' \in BOOLEAN /\ policies' \in SUBSET Policies /\ mem' = mem
        /\ requests' \in 0 .. MaxRequests /\ fails' \in 0 .. MaxFails /\ broken' \in BOOLEAN
        /\ due' = due /\ due \in SUBSET Policies
        /\ crossed' = crossed /\ broken' = broken
    BY <1>2 DEF etcd, counts, observers, IInv, TypeOK
  <2> QED
    BY <1>1, <1>2, <2>2, <2>3, <2>4, <2>5, OneStep
<1>5. CASE "admin" \in Mem(h) /\ ~Kind(h, "other") /\ ~Kind(h, "listUsers")
  <2>1. Goes(h, "check")
    BY <1>5 DEF Enforce
  <2>2. ASSUME Progress(h),
               req'[h] = [kind |-> req[h].kind, node |-> req[h].node, at |-> "check", todo |-> req[h].todo]
        PROVE  Progress(h)'
    BY <1>2, <1>5, <2>2 DEF Enforce, Progress, Orderly, Follows, At, Mem, etcd, observers
  <2>3. req[h].kind # "start"
    BY <1>1, AtWork DEF Enforce, Staged, At
  <2>4. Staged([kind |-> req[h].kind, node |-> req[h].node, at |-> "check", todo |-> req[h].todo])
    BY <1>1, <1>5, <2>3, AtWork DEF Staged, Kind, Writes
  <2> QED
    BY <1>1, <1>2, <2>1, <2>2, <2>4, AtWork, GoesOn DEF Places, etcd, counts, observers
<1> QED
  BY <1>3, <1>4, <1>5

LEMMA CheckStep ==
  ASSUME IInv, NEW h \in Handlers, Check(h)
  PROVE  IInv'
<1>1. ~At(h, "idle") /\ req[h].kind \in Writes \ {"start"} /\ user \in BOOLEAN
  <2>1. ~At(h, "idle")
    BY DEF Check, At
  <2> QED
    BY <2>1, AtWork DEF Check, At, Staged
<1>2. UNCHANGED <<etcd, mem, counts, observers>>
  BY DEF Check
<1>3. CASE user = Kind(h, "addUser")
  <2>1. Ends(h)
    BY <1>3 DEF Check
  <2>2. Progress(h) => Orderly'
    BY <1>2 DEF Check, Progress, Orderly, Follows, At, etcd, observers
  <2> QED
    BY <1>1, <1>2, <2>1, <2>2, AtWork, ComesToEnd DEF etcd, counts, observers
<1>4. CASE user # Kind(h, "addUser") /\ req[h].kind \in {"addPolicies", "removePolicies"}
  <2> DEFINE l == IF Kind(h, "addPolicies") THEN "grant" ELSE "revoke"
  <2>1. PICK p \in SUBSET OfUser : GoesWith(h, l, p)
    BY <1>4 DEF Check, Kind
  <2>2. p \in SUBSET Policies
    BY DEF Policies, OfUser
  <2>3. ASSUME Progress(h),
               req'[h] = [kind |-> req[h].kind, node |-> req[h].node, at |-> l, todo |-> p]
        PROVE  Progress(h)'
    <3>1. Orderly /\ Mem(h) = policies
      BY <2>3 DEF Check, Progress, At
    <3>2. user' = user /\ policies' = policies /\ due' = due /\ Mem(h)' = Mem(h)
      BY <1>2, <2>3 DEF etcd, observers, Mem
    <3>3. user
      BY <1>1, <1>4 DEF Kind
    <3>4. CASE Kind(h, "addPolicies")
      BY <2>3, <3>1, <3>2, <3>3, <3>4 DEF Progress, GrantProgress, Orderly, Follows, At, Kind
    <3>5. CASE Kind(h, "removePolicies")
      BY <2>3, <3>1, <3>2, <3>3, <3>5 DEF Progress, RevokeProgress, Orderly, Follows, At, Kind
    <3> QED
      BY <1>4, <3>4, <3>5 DEF Kind
  <2>4. Staged([kind |-> req[h].kind, node |-> req[h].node, at |-> l, todo |-> p])
    BY <1>4 DEF Staged, Kind
  <2>5. l \in Places \ {"idle"}
    BY DEF Places
  <2> HIDE DEF l
  <2> QED
    BY <1>1, <1>2, <2>1, <2>2, <2>3, <2>4, <2>5, AtWork, GoesOn DEF etcd, counts, observers
<1>5. CASE user # Kind(h, "addUser") /\ req[h].kind \in {"addUser", "changePassword", "removeUser"}
  <2> DEFINE l == IF Kind(h, "removeUser") THEN "delete" ELSE "put"
  <2>1. Goes(h, l)
    BY <1>5 DEF Check, Kind
  <2>2. ASSUME Progress(h),
               req'[h] = [kind |-> req[h].kind, node |-> req[h].node, at |-> l, todo |-> req[h].todo]
        PROVE  Progress(h)'
    <3>1. Orderly /\ Mem(h) = policies
      BY <2>2 DEF Check, Progress, At
    <3>2. user' = user /\ policies' = policies /\ due' = due /\ Mem(h)' = Mem(h)
      BY <1>2, <2>2 DEF etcd, observers, Mem
    <3> QED
      BY <1>1, <1>5, <2>2, <3>1, <3>2 DEF Progress, Orderly, Follows, At, Kind
  <2>3. Staged([kind |-> req[h].kind, node |-> req[h].node, at |-> l, todo |-> req[h].todo])
    BY <1>5 DEF Staged, Kind
  <2>4. l \in Places \ {"idle"} /\ l \notin {"revoke", "unwrite"}
    BY DEF Places
  <2> HIDE DEF l
  <2> QED
    BY <1>1, <1>2, <2>1, <2>2, <2>3, <2>4, AtWork, GoesOn DEF etcd, counts, observers
<1> QED
  BY <1>1, <1>3, <1>4, <1>5 DEF Writes, Kinds

LEMMA PutUserStep ==
  ASSUME IInv, NEW h \in Handlers, PutUser(h)
  PROVE  IInv'
<1>1. ~At(h, "idle") /\ req[h].kind \in {"addUser", "changePassword"} /\ req[h].kind \in Writes
  <2>1. ~At(h, "idle")
    BY DEF PutUser, At
  <2> QED
    BY <2>1, AtWork DEF PutUser, At, Staged, Writes, Kinds
<1>2. user' = TRUE /\ UNCHANGED <<policies, mem, counts, crossed, broken>>
  BY DEF PutUser
<1>3. CASE Kind(h, "addUser")
  <2>1. GoesWith(h, "grant", {"view"}) /\ due' = {"view"} /\ {"view"} \in SUBSET Policies
    BY <1>3 DEF PutUser, GoesWith, Policies
  <2>2. ASSUME Progress(h),
               req'[h] = [kind |-> req[h].kind, node |-> req[h].node, at |-> "grant", todo |-> {"view"}]
        PROVE  Progress(h)'
    <3>1. Orderly /\ Mem(h) = policies /\ ~user
      BY <1>3, <2>2 DEF PutUser, Progress, At, Kind
    <3>2. policies \intersect OfUser = {} /\ "admin" \in policies
      BY <3>1 DEF Orderly, Follows
    <3>3. user' /\ policies' = policies /\ mem' = mem /\ due' = {"view"}
      BY <1>2, <2>1
    <3>4. GrantProgress(h)'
      BY <1>3, <2>2, <3>2, <3>3 DEF GrantProgress, At, Kind, Mem
    <3> QED
      BY <2>2, <3>1, <3>3, <3>4 DEF Progress, At, Mem
  <2>3. Staged([kind |-> req[h].kind, node |-> req[h].node, at |-> "grant", todo |-> {"view"}])
    BY <1>3 DEF Staged, Kind
  <2>4. user' \in BOOLEAN /\ policies' \in SUBSET Policies /\ due' \in SUBSET Policies /\ mem' = mem
    BY <1>1, <1>2, <2>1, AtWork
  <2>5. requests' = requests /\ fails' \in 0 .. MaxFails /\ crossed' = crossed /\ broken' = broken
    BY <1>1, <1>2, AtWork DEF counts
  <2>6. "grant" \in Places \ {"idle"} /\ "grant" \notin {"revoke", "unwrite"}
    BY DEF Places
  <2> QED
    BY <1>1, <2>1, <2>2, <2>3, <2>4, <2>5, <2>6, GoesOn
<1>4. CASE Kind(h, "changePassword")
  <2>1. Ends(h) /\ due' = due
    BY <1>4 DEF PutUser, Kind
  <2>2. Progress(h) => Orderly'
    <3> SUFFICES ASSUME Progress(h) PROVE Orderly'
      OBVIOUS
    <3>1. Orderly /\ user
      BY <1>4 DEF PutUser, Progress, At, Kind
    <3> QED
      BY <1>2, <2>1, <3>1 DEF Orderly, Follows
  <2> QED
    BY <1>1, <1>2, <2>1, <2>2, AtWork, ComesToEnd DEF counts, observers
<1> QED
  BY <1>1, <1>3, <1>4 DEF Kind

LEMMA DeleteUserStep ==
  ASSUME IInv, NEW h \in Handlers, DeleteUser(h)
  PROVE  IInv'
<1>1. ~At(h, "idle") /\ Goes(h, "filter")
  BY DEF DeleteUser, At
<1>2. req[h].kind = "removeUser" /\ req[h].kind \in Writes
  BY <1>1, AtWork DEF DeleteUser, At, Staged, Writes, Kinds
<1>3. user' = FALSE /\ due' = {} /\ UNCHANGED <<policies, mem, counts, crossed, broken>>
  BY DEF DeleteUser
<1>4. ASSUME Progress(h),
             req'[h] = [kind |-> req[h].kind, node |-> req[h].node, at |-> "filter", todo |-> req[h].todo]
      PROVE  Progress(h)'
  BY <1>3, <1>4 DEF DeleteUser, Progress, Orderly, Follows, At, Mem
<1>5. Staged([kind |-> req[h].kind, node |-> req[h].node, at |-> "filter", todo |-> req[h].todo])
  BY <1>2 DEF Staged
<1>6. /\ user' \in BOOLEAN /\ policies' \in SUBSET Policies /\ fails' \in 0 .. MaxFails
      /\ broken \in BOOLEAN /\ broken' = broken
      /\ mem' = mem /\ requests' = requests /\ crossed' = crossed /\ due' \in SUBSET Policies
      /\ req[h].todo \in SUBSET Policies
  BY <1>1, <1>3, AtWork DEF counts, observers
<1> QED
  BY <1>1, <1>2, <1>4, <1>5, <1>6, GoesOn DEF Places

LEMMA FilterStep ==
  ASSUME IInv, NEW h \in Handlers, Filter(h)
  PROVE  IInv'
<1> DEFINE p == Mem(h) \intersect OfUser
<1>1. ~At(h, "idle") /\ GoesWith(h, "revoke", p)
  BY DEF Filter, At
<1>2. req[h].kind = "removeUser" /\ p \in SUBSET Policies /\ p \subseteq OfUser
  BY <1>1, AtWork DEF Filter, At, Staged
<1>3. UNCHANGED <<etcd, mem, counts, observers>>
  BY DEF Filter
<1>4. ASSUME Progress(h),
             req'[h] = [kind |-> req[h].kind, node |-> req[h].node, at |-> "revoke", todo |-> p]
      PROVE  Progress(h)'
  BY <1>2, <1>3, <1>4 DEF Filter, Progress, RevokeProgress, Orderly, Follows, At, Mem, Kind, etcd, observers, OfUser
<1>5. Staged([kind |-> req[h].kind, node |-> req[h].node, at |-> "revoke", todo |-> p])
  BY <1>2 DEF Staged
<1> HIDE DEF p
<1> QED
  BY <1>1, <1>2, <1>3, <1>4, <1>5, AtWork, GoesOn DEF Places, etcd, counts, observers

\* A request that has nothing more to grant or to revoke.
LEMMA ClosesStep ==
  ASSUME IInv, NEW h \in Handlers, Closes(h), req[h].kind \in Writes, ~At(h, "idle"),
         UNCHANGED <<etcd, mem, counts, observers>>,
         Progress(h) =>
           IF req[h].kind \in {"addPolicies", "removePolicies"}
           THEN user /\ Mem(h) = policies /\ Orderly ELSE Orderly
  PROVE  IInv'
<1>1. CASE req[h].kind \in {"addPolicies", "removePolicies"}
  <2>1. Goes(h, "destroy")
    BY <1>1 DEF Closes
  <2>2. ASSUME Progress(h),
               req'[h] = [kind |-> req[h].kind, node |-> req[h].node, at |-> "destroy", todo |-> req[h].todo]
        PROVE  Progress(h)'
    BY <1>1, <2>2 DEF Progress, Orderly, Follows, At, Mem, etcd, observers
  <2>3. Staged([kind |-> req[h].kind, node |-> req[h].node, at |-> "destroy", todo |-> req[h].todo])
    BY <1>1 DEF Staged
  <2> QED
    BY <1>1, <2>1, <2>2, <2>3, AtWork, GoesOn DEF Places, etcd, counts, observers
<1>2. CASE req[h].kind \notin {"addPolicies", "removePolicies"}
  <2>1. Ends(h)
    BY <1>2 DEF Closes
  <2>2. Progress(h) => Orderly'
    BY <1>2 DEF Orderly, Follows, etcd, observers
  <2> QED
    BY <1>2, <2>1, <2>2, AtWork, ComesToEnd DEF etcd, counts, observers
<1> QED
  BY <1>1, <1>2

LEMMA GrantStep ==
  ASSUME IInv, NEW h \in Handlers, Grant(h)
  PROVE  IInv'
<1> DEFINE p == req[h].todo
<1>1. ~At(h, "idle") /\ At(h, "grant")
  BY DEF Grant, At
<1>2. req[h].kind \in {"start", "addUser", "addPolicies"} /\ req[h].kind \in Writes
  BY <1>1, AtWork DEF At, Staged, Writes, Kinds
<1>3. UNCHANGED <<etcd, counts, crossed, broken>>
  BY DEF Grant
<1>4. CASE p \intersect Mem(h) = {}
  <2> DEFINE m == Mem(h) \union p
  <2>1. Goes(h, "write") /\ SetMem(h, m)
        /\ due' = IF Kind(h, "addPolicies") THEN due \union p ELSE due
    BY <1>4 DEF Grant
  <2>2. m \in SUBSET Policies /\ mem'[req[h].node] = m /\ due' \in SUBSET Policies
    BY <1>1, <2>1, AtWork DEF SetMem
  <2>3. ASSUME Progress(h),
               req'[h] = [kind |-> req[h].kind, node |-> req[h].node, at |-> "write", todo |-> p]
        PROVE  Progress(h)'
    <3>1. Mem(h)' = m /\ Mem(h) = policies /\ GrantProgress(h)
      BY <1>1, <2>2, <2>3 DEF Mem, Progress, At
    <3>2. ~Kind(h, "start")
      BY <1>1, <1>4, <3>1 DEF GrantProgress
    <3>3. user' = user /\ policies' = policies
      BY <1>3 DEF etcd
    <3>4. CASE Kind(h, "addUser")
      <4>1. p = {"view"} /\ policies \intersect OfUser = {} /\ due' = {"view"} /\ user
        BY <1>1, <2>1, <3>1, <3>4 DEF GrantProgress, Kind
      <4> QED
        BY <1>1, <1>4, <2>3, <3>1, <3>3, <3>4, <4>1
           DEF Progress, GrantProgress, At, Kind, Mem, OfUser
    <3>5. CASE Kind(h, "addPolicies")
      <4>1. p \subseteq OfUser /\ policies \intersect OfUser = due /\ due' = due \union p /\ user
        BY <1>1, <2>1, <3>1, <3>5 DEF GrantProgress, Kind, Follows
      <4> QED
        BY <1>1, <1>4, <2>3, <3>1, <3>3, <3>5, <4>1 DEF Progress, GrantProgress, At, Kind, Mem
    <3> QED
      BY <1>2, <3>2, <3>4, <3>5 DEF Kind
  <2>4. Staged([kind |-> req[h].kind, node |-> req[h].node, at |-> "write", todo |-> p])
    BY <1>2 DEF Staged
  <2>5. p \in SUBSET Policies
    BY <1>1, AtWork
  <2> HIDE DEF m
  <2> QED
    BY <1>1, <1>2, <1>3, <2>1, <2>2, <2>3, <2>4, <2>5, AtWork, GoesOn DEF Places, etcd, counts, observers
<1>5. CASE p \intersect Mem(h) # {}
  <2>1. Closes(h) /\ mem' = mem /\ due' = due
    BY <1>5 DEF Grant
  <2>2. ASSUME Progress(h)
        PROVE  IF req[h].kind \in {"addPolicies", "removePolicies"}
               THEN user /\ Mem(h) = policies /\ Orderly ELSE Orderly
    <3>1. Mem(h) = policies /\ GrantProgress(h)
      BY <1>1, <2>2 DEF Progress, At
    <3>2. ~Kind(h, "addUser")
      BY <1>1, <1>5, <3>1 DEF GrantProgress, OfUser
    <3> QED
      BY <1>1, <1>2, <3>1, <3>2 DEF GrantProgress, Orderly, Kind
  <2> QED
    BY <1>1, <1>2, <1>3, <2>1, <2>2, ClosesStep DEF etcd, counts, observers
<1> QED
  BY <1>4, <1>5

LEMMA WriteGrantStep ==
  ASSUME IInv, NEW h \in Handlers, WriteGrant(h)
  PROVE  IInv'
<1>1. ~At(h, "idle") /\ At(h, "write")
  BY DEF WriteGrant, At
<1>2. req[h].kind \in {"start", "addUser", "addPolicies"} /\ req[h].kind \in Writes
  BY <1>1, AtWork DEF At, Staged, Writes, Kinds
<1>3. UNCHANGED <<user, mem, counts, observers>>
  BY DEF WriteGrant
<1>4. CASE req[h].todo = {}
  <2>1. Closes(h) /\ policies' = policies
    BY <1>4 DEF WriteGrant
  <2>2. ASSUME Progress(h)
        PROVE  IF req[h].kind \in {"addPolicies", "removePolicies"}
               THEN user /\ Mem(h) = policies /\ Orderly ELSE Orderly
    <3>1. GrantProgress(h)
      BY <1>1, <2>2 DEF Progress, At
    <3>2. user /\ Mem(h) = policies /\ "admin" \in policies /\ policies \intersect OfUser = due
      BY <1>1, <1>4, <3>1 DEF GrantProgress, At
    <3> QED
      BY <3>2 DEF Orderly, Follows
  <2> QED
    BY <1>1, <1>2, <1>3, <2>1, <2>2, ClosesStep DEF etcd
<1>5. CASE req[h].todo # {}
  <2>1. PICK p \in req[h].todo :
          policies' = policies \union {p} /\ GoesWith(h, "write", req[h].todo \ {p})
    BY <1>5 DEF WriteGrant
  <2> DEFINE t == req[h].todo \ {p}
  <2>2. t \in SUBSET Policies /\ policies' \in SUBSET Policies /\ GoesWith(h, "write", t)
    BY <1>1, <2>1, AtWork
  <2>3. ASSUME Progress(h),
               req'[h] = [kind |-> req[h].kind, node |-> req[h].node, at |-> "write", todo |-> t]
        PROVE  Progress(h)'
    <3>1. Mem(h)' = Mem(h) /\ due' = due /\ user' = user /\ GrantProgress(h)
      BY <1>1, <1>3, <2>3 DEF Mem, observers, Progress, At
    <3>2. policies' \union t = policies \union req[h].todo /\ policies' \intersect t = {}
      BY <1>1, <2>1, <3>1 DEF GrantProgress
    <3>3. GrantProgress(h)'
      BY <1>1, <1>2, <2>1, <2>3, <3>1, <3>2 DEF GrantProgress, At, Kind, Mem
    <3> QED
      BY <2>3, <3>3 DEF Progress, At
  <2>4. Staged([kind |-> req[h].kind, node |-> req[h].node, at |-> "write", todo |-> t])
    BY <1>2 DEF Staged
  <2> HIDE DEF t
  <2> QED
    BY <1>1, <1>2, <1>3, <2>2, <2>3, <2>4, AtWork, GoesOn DEF Places, counts, observers
<1> QED
  BY <1>4, <1>5

LEMMA RevokeStep ==
  ASSUME IInv, NEW h \in Handlers, Revoke(h)
  PROVE  IInv'
<1> DEFINE p == req[h].todo
<1>1. ~At(h, "idle") /\ At(h, "revoke")
  BY DEF Revoke, At
<1>2. req[h].kind \in {"removeUser", "removePolicies"} /\ req[h].kind \in Writes
  BY <1>1, AtWork DEF At, Staged, Writes, Kinds
<1>3. UNCHANGED <<etcd, counts, crossed, broken>>
  BY DEF Revoke
<1>4. p \subseteq OfUser /\ p \in SUBSET Policies
  BY <1>1, AtWork
<1>5. CASE p \subseteq Mem(h)
  <2> DEFINE m == Mem(h) \ p
  <2>1. Goes(h, "unwrite") /\ SetMem(h, m)
        /\ due' = IF Kind(h, "removePolicies") THEN due \ p ELSE due
    BY <1>5 DEF Revoke
  <2>2. m \in SUBSET Policies /\ mem'[req[h].node] = m /\ due' \in SUBSET Policies
    BY <1>1, <2>1, AtWork DEF SetMem
  <2>3. ASSUME Progress(h),
               req'[h] = [kind |-> req[h].kind, node |-> req[h].node, at |-> "unwrite", todo |-> p]
        PROVE  Progress(h)'
    <3>1. Mem(h)' = m /\ Mem(h) = policies /\ RevokeProgress(h) /\ "admin" \notin p
      BY <1>1, <1>4, <2>2, <2>3 DEF Mem, Progress, At, OfUser
    <3>2. user' = user /\ policies' = policies
      BY <1>3 DEF etcd
    <3>3. CASE Kind(h, "removeUser")
      <4>1. ~user /\ policies \intersect OfUser \subseteq p /\ "admin" \in policies
        BY <3>1, <3>3 DEF RevokeProgress
      <4> QED
        BY <2>3, <3>1, <3>2, <3>3, <4>1 DEF Progress, RevokeProgress, At, Kind, Mem
    <3>4. CASE Kind(h, "removePolicies")
      <4>1. user /\ policies \intersect OfUser = due /\ due' = due \ p /\ "admin" \in policies
        BY <1>1, <2>1, <3>1, <3>4 DEF RevokeProgress, Follows
      <4>2. policies' \intersect OfUser = due' \union p /\ due' \intersect p = {}
        BY <1>4, <1>5, <3>1, <3>2, <4>1
      <4> QED
        BY <1>5, <2>3, <3>1, <3>2, <3>4, <4>1, <4>2 DEF Progress, RevokeProgress, At, Kind, Mem
    <3> QED
      BY <1>2, <3>3, <3>4 DEF Kind
  <2>4. Staged([kind |-> req[h].kind, node |-> req[h].node, at |-> "unwrite", todo |-> p])
    BY <1>2 DEF Staged
  <2> HIDE DEF m
  <2> QED
    BY <1>1, <1>2, <1>3, <1>4, <2>1, <2>2, <2>3, <2>4, AtWork, GoesOn DEF Places, etcd, counts, observers
<1>6. CASE ~(p \subseteq Mem(h))
  <2>1. Closes(h) /\ mem' = mem /\ due' = due
    BY <1>6 DEF Revoke
  <2>2. ASSUME Progress(h)
        PROVE  IF req[h].kind \in {"addPolicies", "removePolicies"}
               THEN user /\ Mem(h) = policies /\ Orderly ELSE Orderly
    <3>1. Mem(h) = policies /\ RevokeProgress(h)
      BY <1>1, <2>2 DEF Progress, At
    <3>2. Kind(h, "removePolicies")
      BY <1>1, <1>2, <1>6, <3>1 DEF RevokeProgress, Kind
    <3> QED
      BY <1>1, <3>1, <3>2 DEF RevokeProgress, Orderly, Kind
  <2> QED
    BY <1>1, <1>2, <1>3, <2>1, <2>2, ClosesStep DEF etcd, counts, observers
<1> QED
  BY <1>5, <1>6

LEMMA WriteRevokeStep ==
  ASSUME IInv, NEW h \in Handlers, WriteRevoke(h)
  PROVE  IInv'
<1>1. ~At(h, "idle") /\ At(h, "unwrite")
  BY DEF WriteRevoke, At
<1>2. req[h].kind \in {"removeUser", "removePolicies"} /\ req[h].kind \in Writes
  BY <1>1, AtWork DEF At, Staged, Writes, Kinds
<1>3. UNCHANGED <<user, mem, counts, observers>>
  BY DEF WriteRevoke
<1>4. req[h].todo \subseteq OfUser
  BY <1>1, AtWork
<1>5. CASE req[h].todo = {}
  <2>1. Closes(h) /\ policies' = policies
    BY <1>5 DEF WriteRevoke
  <2>2. ASSUME Progress(h)
        PROVE  IF req[h].kind \in {"addPolicies", "removePolicies"}
               THEN user /\ Mem(h) = policies /\ Orderly ELSE Orderly
    <3>1. RevokeProgress(h)
      BY <1>1, <2>2 DEF Progress, At
    <3>2. CASE Kind(h, "removeUser")
      BY <1>5, <3>1, <3>2 DEF RevokeProgress, Orderly, Follows, Kind
    <3>3. CASE Kind(h, "removePolicies")
      <4>1. user /\ Mem(h) = policies /\ "admin" \in policies /\ policies \intersect OfUser = due
        BY <1>1, <1>5, <3>1, <3>3 DEF RevokeProgress
      <4> QED
        BY <4>1 DEF Orderly, Follows
    <3> QED
      BY <1>2, <3>2, <3>3 DEF Kind
  <2> QED
    BY <1>1, <1>2, <1>3, <2>1, <2>2, ClosesStep DEF etcd
<1>7. CASE req[h].todo # {}
  <2>1. PICK p \in req[h].todo :
          policies' = policies \ {p} /\ GoesWith(h, "unwrite", req[h].todo \ {p})
    BY <1>7 DEF WriteRevoke
  <2> DEFINE t == req[h].todo \ {p}
  <2>2. t \in SUBSET Policies /\ t \subseteq OfUser /\ policies' \in SUBSET Policies
        /\ GoesWith(h, "unwrite", t)
    BY <1>1, <1>4, <2>1, AtWork
  <2>3. ASSUME Progress(h),
               req'[h] = [kind |-> req[h].kind, node |-> req[h].node, at |-> "unwrite", todo |-> t]
        PROVE  Progress(h)'
    <3>1. p # "admin" /\ Mem(h)' = Mem(h) /\ due' = due /\ user' = user /\ RevokeProgress(h)
      BY <1>1, <1>3, <1>4, <2>1, <2>3 DEF OfUser, Mem, observers, Progress, At
    <3>2. CASE Kind(h, "removeUser")
      BY <1>1, <1>2, <2>1, <2>3, <3>1, <3>2 DEF Progress, RevokeProgress, At, Kind, Mem
    <3>3. CASE Kind(h, "removePolicies")
      <4>1. /\ Mem(h) = policies \ req[h].todo /\ req[h].todo \subseteq policies /\ user
            /\ due \intersect req[h].todo = {} /\ policies \intersect OfUser = due \union req[h].todo
            /\ "admin" \in policies /\ "admin" \in Mem(h)
        BY <1>1, <3>1, <3>3 DEF RevokeProgress
      <4>2. /\ policies' \intersect OfUser = due \union t /\ due \intersect t = {}
            /\ t \subseteq policies' /\ Mem(h) = policies' \ t /\ "admin" \in policies'
        BY <1>4, <2>1, <3>1, <4>1
      <4> QED
        BY <2>3, <3>1, <3>3, <4>1, <4>2 DEF Progress, RevokeProgress, At, Kind, Mem
    <3> QED
      BY <1>2, <3>2, <3>3 DEF Kind
  <2>4. Staged([kind |-> req[h].kind, node |-> req[h].node, at |-> "unwrite", todo |-> t])
    BY <1>2 DEF Staged
  <2> HIDE DEF t
  <2> QED
    BY <1>1, <1>2, <1>3, <2>2, <2>3, <2>4, AtWork, GoesOn DEF Places, counts, observers
<1> QED
  BY <1>5, <1>7

LEMMA DestroyStep ==
  ASSUME IInv, NEW h \in Handlers, Destroy(h)
  PROVE  IInv'
<1>1. ~At(h, "idle") /\ At(h, "destroy") /\ GoesWith(h, "save", Mem(h))
  BY DEF Destroy, At
<1>2. req[h].kind \in {"addPolicies", "removePolicies"} /\ req[h].kind \in Writes
  BY <1>1, AtWork DEF At, Staged, Writes, Kinds
<1>3. policies' = {} /\ UNCHANGED <<user, mem, counts, observers>>
  BY DEF Destroy
<1>4. ASSUME Progress(h),
             req'[h] = [kind |-> req[h].kind, node |-> req[h].node, at |-> "save", todo |-> Mem(h)]
      PROVE  Progress(h)'
  BY <1>1, <1>3, <1>4 DEF Progress, Orderly, Follows, At, observers
<1>5. Staged([kind |-> req[h].kind, node |-> req[h].node, at |-> "save", todo |-> Mem(h)])
  BY <1>2 DEF Staged
<1> QED
  BY <1>1, <1>2, <1>3, <1>4, <1>5, AtWork, GoesOn DEF Places, counts, observers

LEMMA SaveStep ==
  ASSUME IInv, NEW h \in Handlers, Save(h)
  PROVE  IInv'
<1>1. ~At(h, "idle") /\ At(h, "save")
  BY DEF Save, At
<1>2. req[h].kind \in {"addPolicies", "removePolicies"} /\ req[h].kind \in Writes
  BY <1>1, AtWork DEF At, Staged, Writes, Kinds
<1>3. UNCHANGED <<user, mem, counts, observers>>
  BY DEF Save
<1>4. CASE req[h].todo = {}
  <2>1. Ends(h) /\ policies' = policies
    BY <1>4 DEF Save
  <2>2. Progress(h) => Orderly'
    BY <1>1, <1>3, <1>4, <2>1 DEF Progress, Orderly, Follows, At, observers
  <2> QED
    BY <1>1, <1>2, <1>3, <2>1, <2>2, AtWork, ComesToEnd DEF counts, observers
<1>5. CASE req[h].todo # {}
  <2>1. PICK p \in req[h].todo :
          policies' = policies \union {p} /\ GoesWith(h, "save", req[h].todo \ {p})
    BY <1>5 DEF Save
  <2> DEFINE t == req[h].todo \ {p}
  <2>2. t \in SUBSET Policies /\ policies' \in SUBSET Policies /\ GoesWith(h, "save", t)
    BY <1>1, <2>1, AtWork
  <2>3. ASSUME Progress(h),
               req'[h] = [kind |-> req[h].kind, node |-> req[h].node, at |-> "save", todo |-> t]
        PROVE  Progress(h)'
    <3>1. policies' \union t = policies \union req[h].todo
      BY <2>1
    <3> QED
      BY <1>1, <1>3, <2>3, <3>1 DEF Progress, At, observers
  <2>4. Staged([kind |-> req[h].kind, node |-> req[h].node, at |-> "save", todo |-> t])
    BY <1>2 DEF Staged
  <2> HIDE DEF t
  <2> QED
    BY <1>1, <1>2, <1>3, <2>2, <2>3, <2>4, AtWork, GoesOn DEF Places, counts, observers
<1> QED
  BY <1>4, <1>5

LEMMA FailStep ==
  ASSUME IInv, NEW h \in Handlers, Fail(h)
  PROVE  IInv'
<1>1. ~At(h, "idle")
  BY DEF Fail, At
<1>2. /\ UNCHANGED <<etcd, mem, requests, crossed>>
      /\ fails' \in 0 .. MaxFails /\ broken' \in {broken, TRUE} /\ due' \in SUBSET Policies
      /\ ~broken' => /\ ~(At(h, "write") /\ Kind(h, "addUser"))
                     /\ ~(At(h, "unwrite") /\ Kind(h, "removeUser")) /\ ~At(h, "save")
      /\ ~At(h, "write") /\ ~At(h, "unwrite") => due' = due
      /\ At(h, "write") => due' = IF Kind(h, "addPolicies") THEN due \ req[h].todo ELSE due
      /\ At(h, "unwrite") => due' = IF Kind(h, "removePolicies") THEN due \union req[h].todo ELSE due
  <2>1. fails' \in 0 .. MaxFails
    BY <1>1, AtWork, UsersAssumption DEF Fail
  <2>2. broken' \in {broken, TRUE}
    BY <1>1, AtWork DEF Fail
  <2>3. /\ ~At(h, "write") /\ ~At(h, "unwrite") => due' = due
        /\ At(h, "write") => due' = IF Kind(h, "addPolicies") THEN due \ req[h].todo ELSE due
        /\ At(h, "unwrite") => due' = IF Kind(h, "removePolicies") THEN due \union req[h].todo ELSE due
    BY DEF Fail, At, Kind
  <2>4. due' \in SUBSET Policies
    BY <1>1, <2>3, AtWork
  <2> QED
    BY <2>1, <2>2, <2>3, <2>4 DEF Fail, At
<1>3. CASE At(h, "destroy") /\ GoesWith(h, "save", Mem(h))
  <2>1. req[h].kind \in {"addPolicies", "removePolicies"} /\ req[h].kind \in Writes
    BY <1>1, <1>3, AtWork DEF At, Staged, Writes, Kinds
  <2>2. ASSUME Progress(h),
               req'[h] = [kind |-> req[h].kind, node |-> req[h].node, at |-> "save", todo |-> Mem(h)]
        PROVE  Progress(h)'
    <3>1. due' = due
      BY <1>2, <1>3 DEF At
    <3> QED
      BY <1>2, <1>3, <2>2, <3>1 DEF Progress, Orderly, Follows, At, etcd
  <2>3. Staged([kind |-> req[h].kind, node |-> req[h].node, at |-> "save", todo |-> Mem(h)])
    BY <2>1 DEF Staged
  <2> QED
    BY <1>1, <1>2, <1>3, <2>1, <2>2, <2>3, AtWork, GoesOn DEF Places, etcd
<1>4. CASE At(h, "load") /\ Goes(h, "enforce") /\ ~Kind(h, "start")
  <2>0. due' = due
    BY <1>2, <1>4 DEF At
  <2>1. ASSUME Progress(h),
               req'[h] = [kind |-> req[h].kind, node |-> req[h].node, at |-> "enforce", todo |-> req[h].todo]
        PROVE  Progress(h)'
    BY <1>2, <1>4, <2>0, <2>1 DEF Progress, Orderly, Follows, At, Mem, etcd
  <2>2. Staged([kind |-> req[h].kind, node |-> req[h].node, at |-> "enforce", todo |-> req[h].todo])
    BY <1>4 DEF Staged, Kind
  <2>3. req[h].todo \in SUBSET Policies /\ user' \in BOOLEAN /\ policies' \in SUBSET Policies
    BY <1>1, <1>2, AtWork DEF etcd
  <2>4. "enforce" \in Places \ {"idle"}
    BY DEF Places
  <2> QED
    BY <1>1, <1>2, <1>4, <2>0, <2>1, <2>2, <2>3, <2>4, GoesOn
<1>5. CASE Ends(h) /\ req[h].at \in {"load", "check", "put", "delete", "write", "unwrite", "save"}
  <2>0. req[h].kind \notin Writes => due' = due
    BY <1>1, <1>2, AtWork DEF Staged, At, Kind, Writes, Kinds
  <2>1. ASSUME Progress(h), ~broken' PROVE Orderly'
    <3>1. CASE At(h, "write")
      <4>1. req[h].kind \in {"start", "addPolicies"} /\ GrantProgress(h)
        BY <1>1, <1>2, <2>1, <3>1, AtWork DEF Staged, At, Kind, Progress
      <4>2. /\ Kind(h, "addPolicies") /\ user /\ "admin" \in policies
            /\ policies \intersect req[h].todo = {} /\ req[h].todo \subseteq OfUser
            /\ (policies \union req[h].todo) \intersect OfUser = due
        BY <3>1, <4>1 DEF GrantProgress, Kind, At
      <4>3. due' = due \ req[h].todo
        BY <1>2, <3>1, <4>2
      <4>4. policies \intersect OfUser = due'
        BY <4>2, <4>3
      <4> QED
        BY <1>2, <4>2, <4>4 DEF Orderly, Follows, etcd
    <3>2. CASE At(h, "unwrite")
      <4>1. Kind(h, "removePolicies") /\ RevokeProgress(h)
        BY <1>1, <1>2, <2>1, <3>2, AtWork DEF Staged, At, Kind, Progress
      <4>2. user /\ "admin" \in policies /\ policies \intersect OfUser = due \union req[h].todo
        BY <3>2, <4>1 DEF RevokeProgress
      <4>3. due' = due \union req[h].todo
        BY <1>2, <3>2, <4>1
      <4> QED
        BY <1>2, <4>2, <4>3 DEF Orderly, Follows, etcd
    <3>3. CASE req[h].at \in {"load", "check", "put", "delete"}
      <4>1. due' = due
        BY <1>2, <3>3 DEF At
      <4> QED
        BY <1>2, <2>1, <3>3, <4>1 DEF Progress, Orderly, Follows, At, etcd
    <3> QED
      BY <1>2, <1>5, <2>1, <3>1, <3>2, <3>3 DEF At
  <2> QED
    BY <1>1, <1>2, <1>5, <2>0, <2>1, AtWork, ComesToEnd DEF etcd
<1> QED
  BY <1>3, <1>4, <1>5 DEF Fail, At

LEMMA ServeStep ==
  ASSUME IInv, NEW h \in Handlers, Serve(h)
  PROVE  IInv'
<1>1. CASE Authorizes(h)
  BY <1>1, ClearStep, LoadStep, EnforceStep DEF Authorizes
<1>2. CASE AddsUser(h)
  BY <1>2, CheckStep, PutUserStep, GrantStep, WriteGrantStep DEF AddsUser
<1>3. CASE RemovesUser(h)
  BY <1>3, CheckStep, DeleteUserStep, FilterStep, RevokeStep, WriteRevokeStep DEF RemovesUser
<1>4. CASE ChangesPassword(h)
  BY <1>4, CheckStep, PutUserStep DEF ChangesPassword
<1>5. CASE AddsPolicies(h)
  BY <1>5, CheckStep, GrantStep, WriteGrantStep, DestroyStep, SaveStep DEF AddsPolicies
<1>6. CASE RemovesPolicies(h)
  BY <1>6, CheckStep, RevokeStep, WriteRevokeStep, DestroyStep, SaveStep DEF RemovesPolicies
<1>7. CASE GrantsAdmin(h)
  BY <1>7, GrantStep, WriteGrantStep DEF GrantsAdmin
<1> QED
  BY <1>1, <1>2, <1>3, <1>4, <1>5, <1>6, <1>7 DEF Serve

LEMMA NextIInv == IInv /\ [Next]_vars => IInv'
<1> SUFFICES ASSUME IInv, [Next]_vars PROVE IInv'
  OBVIOUS
<1>1. CASE Next
  <2>1. PICK h \in Handlers :
          Serve(h) \/ Fail(h) \/ \E k \in Kinds, n \in Nodes : Arrive(h, k, n)
    BY <1>1 DEF Next
  <2> QED
    BY <2>1, ServeStep, FailStep, ArriveStep
<1>2. CASE UNCHANGED vars
  <2>1. UNCHANGED <<user, policies, mem, req, requests, fails, due, crossed, broken>>
    BY <1>2 DEF vars, etcd, counts, observers
  <2>2. TypeOK'
    BY <2>1 DEF IInv, TypeOK, At
  <2>3. StageInv' /\ ApartInv'
    BY <2>1 DEF IInv, StageInv, ApartInv, Apart, At
  <2>4. OrderInv'
    BY <2>1 DEF IInv, OrderInv, Progress, GrantProgress, RevokeProgress, Orderly, Follows, At, Kind, Mem
  <2> QED
    BY <2>2, <2>3, <2>4 DEF IInv
<1> QED
  BY <1>1, <1>2

LEMMA Invariant == Spec => []IInv
  BY InitIInv, NextIInv, PTL DEF Spec

-----------------------------------------------------------------------------
\* The types hold; and whatever requests meet, removeUser and removePolicies take
\* from an engine and from etcd only what is the user's own.
THEOREM TypeCorrect == Spec => []TypeOK
<1>1. IInv => TypeOK
  BY DEF IInv
<1> QED
  BY <1>1, Invariant, PTL

\* On any number of nodes and whatever failed, requests one after the other (and
\* reading ones beside them on other nodes) never lose the administrator's policy,
\* but for a save that failed half-way.
THEOREM AdminIsKept == Spec => []AdminKeepsPolicy
<1>1. IInv => AdminKeepsPolicy
  <2> SUFFICES ASSUME IInv, ~crossed, ~broken, \A h \in Handlers : ~At(h, "save")
               PROVE  "admin" \in policies
    BY DEF AdminKeepsPolicy
  <2>1. CASE \A h \in Handlers : req[h].kind \notin Writes
    BY <2>1 DEF IInv, OrderInv, Orderly
  <2>2. ASSUME NEW h \in Handlers, req[h].kind \in Writes PROVE "admin" \in policies
    <3>1. ~At(h, "idle") /\ Progress(h)
      BY <2>2 DEF IInv, OrderInv, StageInv, Staged, At, Writes
    <3>2. req[h].at \in Places \ {"idle", "save"}
      BY <3>1, AtWork DEF At
    <3> QED
      BY <3>1, <3>2 DEF Places, Progress, GrantProgress, RevokeProgress, Orderly, At
  <2> QED
    BY <2>1, <2>2
<1> QED
  BY <1>1, Invariant, PTL

\* What addUser, removeUser and the two handlers of policies write in several
\* requests to etcd comes out right, whichever rules of the user they name: the
\* policies are those granted to the user there is and not revoked.
THEOREM PoliciesAreOfUser == Spec => []PoliciesFollowUser
<1>1. IInv => PoliciesFollowUser
  BY DEF IInv, OrderInv, Orderly, Follows, PoliciesFollowUser
<1> QED
  BY <1>1, Invariant, PTL
=============================================================================
