------------------------- MODULE AutoscalerProofs --------------------------
(***************************************************************************)
(* Proofs about Cluster and about Autoscaler, which runs on it, for every  *)
(* set of nodes, workers and scaler keys, every ring, and every number of  *)
(* joins and of changes.  First the ring of Cluster alone; then that the   *)
(* managers only take steps Cluster allows, so that all of it holds on     *)
(* their nodes; then the managers themselves.                              *)
(***************************************************************************)
EXTENDS Autoscaler, TLAPS

-----------------------------------------------------------------------------
(* Cluster: the ring of every node.                                         *)

\* Every event leaves the members it says, and only puts an absent node.
HistInv ==
  \A i \in 1 .. Len(hist) : /\ hist[i].members = RingAfter(MembersAt(i - 1), hist[i])
                            /\ hist[i].type = "put" => hist[i].node \notin MembersAt(i - 1)

\* A node that is about to join has no key.
JoinInv ==
  \A n \in Nodes : pc[n] = "loaded" /\ ~Known(n) => n \notin Registered

\* How far a node has followed the history.
CursorInv ==
  \A n \in Nodes :
    /\ applied[n] <= batch[n] /\ batch[n] <= Len(hist)
    /\ phase[n] = "apply" <=> applied[n] < batch[n]

\* The ring at every stage of a process.
RingInv ==
  \A n \in Nodes :
    ~missed[n] => /\ pc[n] \in {"loaded", "joined"} => ring[n] = Registered
                  /\ pc[n] \in {"running", "leaving"} => ring[n] = MembersAt(applied[n])

IInv == Types /\ HistInv /\ JoinInv /\ CursorInv /\ RingInv

-----------------------------------------------------------------------------
\* An event at the end of the history changes nothing before it.
LEMMA Appended ==
  ASSUME hist \in Seq(Event), NEW e \in Event, hist' = Append(hist, e)
  PROVE  /\ hist' \in Seq(Event)
         /\ Len(hist') = Len(hist) + 1
         /\ \A i \in 1 .. Len(hist) : hist'[i] = hist[i]
         /\ hist'[Len(hist) + 1] = e
         /\ \A r \in 0 .. Len(hist) : MembersAt(r)' = MembersAt(r)
         /\ Registered' = e.members
<1>1. /\ hist' \in Seq(Event)
      /\ Len(hist') = Len(hist) + 1
      /\ \A i \in 1 .. Len(hist) : hist'[i] = hist[i]
      /\ hist'[Len(hist) + 1] = e
  OBVIOUS
<1>2. Len(hist) \in Nat
  OBVIOUS
<1>3. \A r \in 0 .. Len(hist) : MembersAt(r)' = MembersAt(r)
  BY <1>1, <1>2 DEF MembersAt
<1> QED
  BY <1>1, <1>2, <1>3 DEF Registered, MembersAt

\* The history before an event, as a set of members.
LEMMA MembersType ==
  ASSUME hist \in Seq(Event), NEW r \in 0 .. Len(hist)
  PROVE  MembersAt(r) \in SUBSET Nodes
<1>1. CASE r = 0
  BY <1>1 DEF MembersAt
<1>2. CASE r # 0
  <2>1. hist[r] \in Event
    BY <1>2
  <2> QED
    BY <1>2, <2>1 DEF MembersAt, Event
<1> QED
  BY <1>1, <1>2

\* The present members are nodes.
LEMMA RegisteredType ==
  ASSUME hist \in Seq(Event)
  PROVE  Len(hist) \in Nat /\ Registered \in SUBSET Nodes
<1>1. Len(hist) \in Nat /\ Len(hist) \in 0 .. Len(hist)
  OBVIOUS
<1> QED
  BY <1>1, MembersType DEF Registered

\* What a put and a delete do to the history.
LEMMA Added ==
  ASSUME Types, NEW n \in Nodes, AddMember(n)
  PROVE  \E e \in Event : /\ hist' = Append(hist, e) /\ e.type = "put" /\ e.node = n
                          /\ e.members = Registered \union {n}
<1> DEFINE e == [type |-> "put", node |-> n, members |-> Registered \union {n}]
<1>1. Registered \in SUBSET Nodes
  BY RegisteredType DEF Types
<1>2. e \in Event
  BY <1>1 DEF Event
<1>3. hist' = Append(hist, e)
  BY DEF AddMember
<1>4. e.type = "put" /\ e.node = n /\ e.members = Registered \union {n}
  OBVIOUS
<1> HIDE DEF e
<1> QED
  BY <1>2, <1>3, <1>4

\* A delete of a present key.
LEMMA Removed ==
  ASSUME Types, NEW n \in Nodes, RemoveMember(n), n \in Registered
  PROVE  \E e \in Event : /\ hist' = Append(hist, e) /\ e.type = "delete" /\ e.node = n
                          /\ e.members = Registered \ {n}
<1> DEFINE e == [type |-> "delete", node |-> n, members |-> Registered \ {n}]
<1>1. Registered \in SUBSET Nodes
  BY RegisteredType DEF Types
<1>2. e \in Event
  BY <1>1 DEF Event
<1>3. hist' = Append(hist, e)
  BY DEF RemoveMember
<1>4. e.type = "delete" /\ e.node = n /\ e.members = Registered \ {n}
  OBVIOUS
<1> HIDE DEF e
<1> QED
  BY <1>2, <1>3, <1>4

-----------------------------------------------------------------------------
\* The initial states satisfy the inductive invariant.
LEMMA InitIInv == ClusterInit => IInv
<1> SUFFICES ASSUME ClusterInit PROVE IInv
  OBVIOUS
<1> USE DEF ClusterInit
<1>1. hist \in Seq(Event) /\ Len(hist) = 0
  OBVIOUS
<1>2. Types
  BY <1>1 DEF Types
<1>3. HistInv
  BY <1>1 DEF HistInv
<1>4. JoinInv /\ CursorInv /\ RingInv
  BY <1>1 DEF JoinInv, CursorInv, RingInv
<1> QED
  BY <1>2, <1>3, <1>4 DEF IInv

\* Every step keeps the variables in their types.
LEMMA TypeStep == Types /\ CursorInv /\ [Next]_clusterVars => Types'
<1> SUFFICES ASSUME Types, CursorInv, [Next]_clusterVars PROVE Types'
  OBVIOUS
<1> USE DEF Types, etcdVars
<1>1. ASSUME NEW n \in Nodes, LeaseExpires(n) PROVE Types'
  <2>1. hist' \in Seq(Event)
    BY <1>1, Removed, Appended DEF LeaseExpires, RemoveMember
  <2> QED
    BY <1>1, <2>1 DEF LeaseExpires, RemoveMember, Miss
<1>2. ASSUME NEW n \in Nodes, Load(n) PROVE Types'
  <2>1. Registered \in SUBSET Nodes
    BY RegisteredType
  <2> QED
    BY <1>2, <2>1 DEF Load
<1>3. ASSUME NEW n \in Nodes, Join(n) PROVE Types'
  <2>1. PICK e \in Event : hist' = Append(hist, e)
    BY <1>3, Added DEF Join
  <2>2. hist' \in Seq(Event)
    BY <2>1, Appended
  <2> QED
    BY <1>3, <2>2 DEF Join, AddMember, Miss
<1>4. ASSUME NEW n \in Nodes, JoinFails(n) PROVE Types'
  BY <1>4 DEF JoinFails
<1>5. ASSUME NEW n \in Nodes, JoinHalfFails(n) PROVE Types'
  <2>1. PICK e \in Event : hist' = Append(hist, e)
    BY <1>5, Added DEF JoinHalfFails
  <2>2. hist' \in Seq(Event)
    BY <2>1, Appended
  <2> QED
    BY <1>5, <2>2 DEF JoinHalfFails, AddMember, Miss
<1>6. ASSUME NEW n \in Nodes, OpenWatch(n) PROVE Types'
  BY <1>6 DEF OpenWatch
<1>7. ASSUME NEW n \in Nodes, Receive(n) PROVE Types'
  BY <1>7 DEF Receive
<1>8. ASSUME NEW n \in Nodes, ApplyEvent(n) PROVE Types'
  <2>1. ring' \in [Nodes -> SUBSET Nodes]
    <3>1. \A S \in SUBSET Nodes : RingAfter(S, hist[applied[n] + 1]) \in SUBSET Nodes
      <4>1. applied[n] + 1 \in 1 .. Len(hist)
        BY <1>8 DEF ApplyEvent, CursorInv
      <4>2. hist[applied[n] + 1] \in Event
        BY <4>1
      <4> QED
        BY <4>2 DEF RingAfter, Event
    <3> QED
      BY <1>8, <3>1 DEF ApplyEvent
  <2> QED
    BY <1>8, <2>1 DEF ApplyEvent
<1>9. ASSUME NEW n \in Nodes, SendReload(n) PROVE Types'
  BY <1>9 DEF SendReload
<1>10. ASSUME NEW n \in Nodes, WatchFails(n) PROVE Types'
  BY <1>10 DEF WatchFails
<1>11. ASSUME NEW n \in Nodes, KeepAliveFails(n) PROVE Types'
  BY <1>11 DEF KeepAliveFails
<1>12. ASSUME NEW n \in Nodes, Stop(n) PROVE Types'
  BY <1>12 DEF Stop
<1>13. ASSUME NEW n \in Nodes, Leave(n) PROVE Types'
  <2>1. hist' \in Seq(Event)
    BY <1>13, Removed, Appended DEF Leave, RemoveMember
  <2> QED
    BY <1>13, <2>1 DEF Leave, RemoveMember, Miss, Gone
<1>14. ASSUME NEW n \in Nodes, Crash(n) PROVE Types'
  BY <1>14 DEF Crash, Gone
<1>15. ASSUME NEW n \in Nodes, FinishReload(n) PROVE Types'
  BY <1>15 DEF FinishReload
<1>16. CASE UNCHANGED clusterVars
  BY <1>16 DEF clusterVars
<1> QED
  BY <1>1, <1>2, <1>3, <1>4, <1>5, <1>6, <1>7, <1>8, <1>9, <1>10, <1>11, <1>12, <1>13, <1>14, <1>15, <1>16
     DEF Next, ClusterStep, RunStep

\* Every event is recorded with its effect, and nobody puts a key that is there.
LEMMA HistStep == IInv /\ [Next]_clusterVars => HistInv'
<1> SUFFICES ASSUME IInv, [Next]_clusterVars PROVE HistInv'
  OBVIOUS
<1> USE DEF IInv
<1>t. hist \in Seq(Event)
  BY DEF Types
<1>a. ASSUME hist' = hist PROVE HistInv'
  BY <1>a DEF HistInv, MembersAt
<1>b. ASSUME NEW e \in Event, hist' = Append(hist, e), e.members = RingAfter(Registered, e),
             e.type = "put" => e.node \notin Registered
      PROVE  HistInv'
  <2> SUFFICES ASSUME NEW i \in 1 .. Len(hist')
               PROVE  /\ hist'[i].members = RingAfter(MembersAt(i - 1)', hist'[i])
                      /\ hist'[i].type = "put" => hist'[i].node \notin MembersAt(i - 1)'
    BY DEF HistInv, RingAfter
  <2>1. Len(hist) \in Nat /\ Len(hist') = Len(hist) + 1
    BY <1>t, <1>b, Appended, RegisteredType
  <2>2. CASE i \in 1 .. Len(hist)
    <3>1. hist'[i] = hist[i] /\ i - 1 \in 0 .. Len(hist)
      BY <1>t, <1>b, <2>1, <2>2, Appended
    <3>2. MembersAt(i - 1)' = MembersAt(i - 1)
      BY <1>t, <1>b, <3>1, Appended
    <3> QED
      BY <2>2, <3>1, <3>2 DEF HistInv
  <2>3. CASE i = Len(hist) + 1
    <3>1. hist'[i] = e
      BY <1>t, <1>b, <2>3, Appended
    <3>2. MembersAt(i - 1)' = Registered
      <4>1. i - 1 = Len(hist) /\ i - 1 \in 0 .. Len(hist)
        BY <2>1, <2>3
      <4>2. MembersAt(i - 1)' = MembersAt(i - 1)
        BY <1>t, <1>b, <4>1, Appended
      <4> QED
        BY <4>1, <4>2 DEF Registered
    <3> QED
      BY <1>b, <3>1, <3>2
  <2> QED
    BY <2>1, <2>2, <2>3
<1>1. ASSUME NEW n \in Nodes, LeaseExpires(n) PROVE HistInv'
  <2>1. CASE n \in Registered
    <3>1. PICK e \in Event : /\ hist' = Append(hist, e) /\ e.type = "delete" /\ e.node = n
                             /\ e.members = Registered \ {n}
      BY <1>1, <2>1, Removed DEF LeaseExpires
    <3>2. e.members = RingAfter(Registered, e)
      BY <3>1 DEF RingAfter
    <3> QED
      BY <1>b, <3>1, <3>2
  <2>2. CASE n \notin Registered
    BY <1>1, <2>2, <1>a DEF LeaseExpires, RemoveMember
  <2> QED
    BY <2>1, <2>2
<1>2. ASSUME NEW n \in Nodes, Load(n) PROVE HistInv'
  BY <1>2, <1>a DEF Load, etcdVars
<1>3. ASSUME NEW n \in Nodes, Join(n) PROVE HistInv'
  <2>1. PICK e \in Event : /\ hist' = Append(hist, e) /\ e.type = "put" /\ e.node = n
                           /\ e.members = Registered \union {n}
    BY <1>3, Added DEF Join
  <2>2. n \notin Registered
    BY <1>3 DEF Join, JoinInv
  <2>3. e.members = RingAfter(Registered, e)
    BY <2>1 DEF RingAfter
  <2> QED
    BY <1>b, <2>1, <2>2, <2>3
<1>4. ASSUME NEW n \in Nodes, JoinFails(n) PROVE HistInv'
  BY <1>4, <1>a DEF JoinFails, etcdVars
<1>5. ASSUME NEW n \in Nodes, JoinHalfFails(n) PROVE HistInv'
  <2>1. PICK e \in Event : /\ hist' = Append(hist, e) /\ e.type = "put" /\ e.node = n
                           /\ e.members = Registered \union {n}
    BY <1>5, Added DEF JoinHalfFails
  <2>2. n \notin Registered
    BY <1>5 DEF JoinHalfFails, JoinInv
  <2>3. e.members = RingAfter(Registered, e)
    BY <2>1 DEF RingAfter
  <2> QED
    BY <1>b, <2>1, <2>2, <2>3
<1>6. ASSUME NEW n \in Nodes, OpenWatch(n) PROVE HistInv'
  BY <1>6, <1>a DEF OpenWatch, etcdVars
<1>7. ASSUME NEW n \in Nodes, Receive(n) PROVE HistInv'
  BY <1>7, <1>a DEF Receive, etcdVars
<1>8. ASSUME NEW n \in Nodes, ApplyEvent(n) PROVE HistInv'
  BY <1>8, <1>a DEF ApplyEvent, etcdVars
<1>9. ASSUME NEW n \in Nodes, SendReload(n) PROVE HistInv'
  BY <1>9, <1>a DEF SendReload, etcdVars
<1>10. ASSUME NEW n \in Nodes, WatchFails(n) PROVE HistInv'
  BY <1>10, <1>a DEF WatchFails, etcdVars
<1>11. ASSUME NEW n \in Nodes, KeepAliveFails(n) PROVE HistInv'
  BY <1>11, <1>a DEF KeepAliveFails, etcdVars
<1>12. ASSUME NEW n \in Nodes, Stop(n) PROVE HistInv'
  BY <1>12, <1>a DEF Stop, etcdVars
<1>13. ASSUME NEW n \in Nodes, Leave(n) PROVE HistInv'
  <2>1. CASE n \in Registered
    <3>1. PICK e \in Event : /\ hist' = Append(hist, e) /\ e.type = "delete" /\ e.node = n
                             /\ e.members = Registered \ {n}
      BY <1>13, <2>1, Removed DEF Leave
    <3>2. e.members = RingAfter(Registered, e)
      BY <3>1 DEF RingAfter
    <3> QED
      BY <1>b, <3>1, <3>2
  <2>2. CASE n \notin Registered
    BY <1>13, <2>2, <1>a DEF Leave, RemoveMember
  <2> QED
    BY <2>1, <2>2
<1>14. ASSUME NEW n \in Nodes, Crash(n) PROVE HistInv'
  BY <1>14, <1>a DEF Crash, etcdVars
<1>15. ASSUME NEW n \in Nodes, FinishReload(n) PROVE HistInv'
  BY <1>15, <1>a DEF FinishReload, etcdVars
<1>16. CASE UNCHANGED clusterVars
  BY <1>16, <1>a DEF clusterVars
<1> QED
  BY <1>1, <1>2, <1>3, <1>4, <1>5, <1>6, <1>7, <1>8, <1>9, <1>10, <1>11, <1>12, <1>13, <1>14, <1>15, <1>16
     DEF Next, ClusterStep, RunStep

\* The history only grows: what it held it holds.
LEMMA HistGrows ==
  ASSUME Types, [Next]_clusterVars
  PROVE  /\ Len(hist') \in Nat /\ Len(hist) \in Nat /\ Len(hist) <= Len(hist')
         /\ \A r \in 0 .. Len(hist) : MembersAt(r)' = MembersAt(r)
<1> DEFINE Grows == /\ Len(hist') \in Nat /\ Len(hist) <= Len(hist')
                    /\ \A r \in 0 .. Len(hist) : MembersAt(r)' = MembersAt(r)
<1>t. hist \in Seq(Event) /\ Len(hist) \in Nat
  BY RegisteredType DEF Types
<1>a. ASSUME hist' = hist PROVE Grows
  BY <1>a, <1>t DEF MembersAt
<1>b. ASSUME NEW e \in Event, hist' = Append(hist, e) PROVE Grows
  BY <1>t, <1>b, Appended
<1> HIDE DEF Grows
<1>c. Grows
  <2>1. ASSUME NEW n \in Nodes, LeaseExpires(n) PROVE Grows
    <3>1. CASE n \in Registered
      BY <2>1, <3>1, <1>b, Removed DEF LeaseExpires
    <3>2. CASE n \notin Registered
      BY <2>1, <3>2, <1>a DEF LeaseExpires, RemoveMember
    <3> QED
      BY <3>1, <3>2
  <2>2. ASSUME NEW n \in Nodes, Load(n) PROVE Grows
    BY <2>2, <1>a DEF Load, etcdVars
  <2>3. ASSUME NEW n \in Nodes, Join(n) PROVE Grows
    BY <2>3, <1>b, Added DEF Join
  <2>4. ASSUME NEW n \in Nodes, JoinFails(n) PROVE Grows
    BY <2>4, <1>a DEF JoinFails, etcdVars
  <2>5. ASSUME NEW n \in Nodes, JoinHalfFails(n) PROVE Grows
    BY <2>5, <1>b, Added DEF JoinHalfFails
  <2>6. ASSUME NEW n \in Nodes, OpenWatch(n) PROVE Grows
    BY <2>6, <1>a DEF OpenWatch, etcdVars
  <2>7. ASSUME NEW n \in Nodes, Receive(n) PROVE Grows
    BY <2>7, <1>a DEF Receive, etcdVars
  <2>8. ASSUME NEW n \in Nodes, ApplyEvent(n) PROVE Grows
    BY <2>8, <1>a DEF ApplyEvent, etcdVars
  <2>9. ASSUME NEW n \in Nodes, SendReload(n) PROVE Grows
    BY <2>9, <1>a DEF SendReload, etcdVars
  <2>10. ASSUME NEW n \in Nodes, WatchFails(n) PROVE Grows
    BY <2>10, <1>a DEF WatchFails, etcdVars
  <2>11. ASSUME NEW n \in Nodes, KeepAliveFails(n) PROVE Grows
    BY <2>11, <1>a DEF KeepAliveFails, etcdVars
  <2>12. ASSUME NEW n \in Nodes, Stop(n) PROVE Grows
    BY <2>12, <1>a DEF Stop, etcdVars
  <2>13. ASSUME NEW n \in Nodes, Leave(n) PROVE Grows
    <3>1. CASE n \in Registered
      BY <2>13, <3>1, <1>b, Removed DEF Leave
    <3>2. CASE n \notin Registered
      BY <2>13, <3>2, <1>a DEF Leave, RemoveMember
    <3> QED
      BY <3>1, <3>2
  <2>14. ASSUME NEW n \in Nodes, Crash(n) PROVE Grows
    BY <2>14, <1>a DEF Crash, etcdVars
  <2>15. ASSUME NEW n \in Nodes, FinishReload(n) PROVE Grows
    BY <2>15, <1>a DEF FinishReload, etcdVars
  <2>16. CASE UNCHANGED clusterVars
    BY <2>16, <1>a DEF clusterVars
  <2> QED
    BY <2>1, <2>2, <2>3, <2>4, <2>5, <2>6, <2>7, <2>8, <2>9, <2>10, <2>11, <2>12, <2>13, <2>14, <2>15, <2>16
       DEF Next, ClusterStep, RunStep
<1> QED
  BY <1>c, <1>t DEF Grows

\* Every step keeps the cursors in order.
LEMMA CursorStep == IInv /\ [Next]_clusterVars => CursorInv'
<1> SUFFICES ASSUME IInv, [Next]_clusterVars PROVE CursorInv'
  OBVIOUS
<1>a. Len(hist') \in Nat /\ Len(hist) \in Nat /\ Len(hist) <= Len(hist')
  BY HistGrows DEF IInv
<1> USE <1>a DEF IInv, Types, CursorInv, etcdVars
<1>1. ASSUME NEW n \in Nodes, LeaseExpires(n) PROVE CursorInv'
  BY <1>1 DEF LeaseExpires
<1>2. ASSUME NEW n \in Nodes, Load(n) PROVE CursorInv'
  BY <1>2 DEF Load
<1>3. ASSUME NEW n \in Nodes, Join(n) PROVE CursorInv'
  BY <1>3 DEF Join
<1>4. ASSUME NEW n \in Nodes, JoinFails(n) PROVE CursorInv'
  BY <1>4 DEF JoinFails
<1>5. ASSUME NEW n \in Nodes, JoinHalfFails(n) PROVE CursorInv'
  BY <1>5 DEF JoinHalfFails
<1>6. ASSUME NEW n \in Nodes, OpenWatch(n) PROVE CursorInv'
  BY <1>6 DEF OpenWatch
<1>7. ASSUME NEW n \in Nodes, Receive(n) PROVE CursorInv'
  BY <1>7 DEF Receive
<1>8. ASSUME NEW n \in Nodes, ApplyEvent(n) PROVE CursorInv'
  BY <1>8 DEF ApplyEvent
<1>9. ASSUME NEW n \in Nodes, SendReload(n) PROVE CursorInv'
  BY <1>9 DEF SendReload
<1>10. ASSUME NEW n \in Nodes, WatchFails(n) PROVE CursorInv'
  BY <1>10 DEF WatchFails
<1>11. ASSUME NEW n \in Nodes, KeepAliveFails(n) PROVE CursorInv'
  BY <1>11 DEF KeepAliveFails
<1>12. ASSUME NEW n \in Nodes, Stop(n) PROVE CursorInv'
  BY <1>12 DEF Stop
<1>13. ASSUME NEW n \in Nodes, Leave(n) PROVE CursorInv'
  BY <1>13 DEF Leave, Gone
<1>14. ASSUME NEW n \in Nodes, Crash(n) PROVE CursorInv'
  BY <1>14 DEF Crash, Gone
<1>15. ASSUME NEW n \in Nodes, FinishReload(n) PROVE CursorInv'
  BY <1>15 DEF FinishReload
<1>16. CASE UNCHANGED clusterVars
  BY <1>16 DEF clusterVars
<1> QED
  BY <1>1, <1>2, <1>3, <1>4, <1>5, <1>6, <1>7, <1>8, <1>9, <1>10, <1>11, <1>12, <1>13, <1>14, <1>15, <1>16
     DEF Next, ClusterStep, RunStep

\* Every step keeps joining nodes off the members.
LEMMA JoinStep == IInv /\ [Next]_clusterVars => JoinInv'
<1> SUFFICES ASSUME IInv, [Next]_clusterVars PROVE JoinInv'
  OBVIOUS
<1> USE DEF IInv, Types, etcdVars
<1>b. ASSUME NEW n \in Nodes, RemoveMember(n) PROVE Registered' \subseteq Registered
  <2>1. CASE n \in Registered
    BY <1>b, <2>1, Removed, Appended
  <2>2. CASE n \notin Registered
    BY <1>b, <2>2 DEF RemoveMember, Registered, MembersAt
  <2> QED
    BY <2>1, <2>2
<1>1. ASSUME NEW n \in Nodes, LeaseExpires(n) PROVE JoinInv'
  <2>1. Registered' \subseteq Registered
    BY <1>1, <1>b DEF LeaseExpires
  <2>2. \A m \in Nodes : pc'[m] = "loaded" => pc[m] = "loaded" /\ ring'[m] = ring[m]
    BY <1>1 DEF LeaseExpires, Gone
  <2> QED
    BY <2>1, <2>2 DEF JoinInv, Known
<1>2. ASSUME NEW n \in Nodes, Load(n) PROVE JoinInv'
  BY <1>2 DEF JoinInv, Known, Load, Registered, MembersAt
<1>3. ASSUME NEW n \in Nodes, Join(n) PROVE JoinInv'
  <2>1. Registered' = Registered \union {n} /\ n \notin Registered
    BY <1>3, Added, Appended DEF Join, JoinInv
  <2>2. pc'[n] # "loaded" /\ \A m \in Nodes \ {n} : pc'[m] = pc[m] /\ ring'[m] = ring[m]
    BY <1>3 DEF Join
  <2> QED
    BY <2>1, <2>2 DEF JoinInv, Known
<1>4. ASSUME NEW n \in Nodes, JoinFails(n) PROVE JoinInv'
  BY <1>4 DEF JoinInv, Known, JoinFails, Registered, MembersAt
<1>5. ASSUME NEW n \in Nodes, JoinHalfFails(n) PROVE JoinInv'
  <2>1. Registered' = Registered \union {n} /\ n \notin Registered
    BY <1>5, Added, Appended DEF JoinHalfFails, JoinInv
  <2>2. pc'[n] # "loaded" /\ \A m \in Nodes \ {n} : pc'[m] = pc[m] /\ ring'[m] = ring[m]
    BY <1>5 DEF JoinHalfFails
  <2> QED
    BY <2>1, <2>2 DEF JoinInv, Known
<1>6. ASSUME NEW n \in Nodes, OpenWatch(n) PROVE JoinInv'
  BY <1>6 DEF JoinInv, Known, OpenWatch, Registered, MembersAt
<1>7. ASSUME NEW n \in Nodes, Receive(n) PROVE JoinInv'
  BY <1>7 DEF JoinInv, Known, Receive, Registered, MembersAt
<1>8. ASSUME NEW n \in Nodes, ApplyEvent(n) PROVE JoinInv'
  BY <1>8 DEF JoinInv, Known, ApplyEvent, Registered, MembersAt
<1>9. ASSUME NEW n \in Nodes, SendReload(n) PROVE JoinInv'
  BY <1>9 DEF JoinInv, Known, SendReload, Registered, MembersAt
<1>10. ASSUME NEW n \in Nodes, WatchFails(n) PROVE JoinInv'
  BY <1>10 DEF JoinInv, Known, WatchFails, Registered, MembersAt
<1>11. ASSUME NEW n \in Nodes, KeepAliveFails(n) PROVE JoinInv'
  BY <1>11 DEF JoinInv, Known, KeepAliveFails, Registered, MembersAt
<1>12. ASSUME NEW n \in Nodes, Stop(n) PROVE JoinInv'
  BY <1>12 DEF JoinInv, Known, Stop, Registered, MembersAt
<1>13. ASSUME NEW n \in Nodes, Leave(n) PROVE JoinInv'
  <2>1. Registered' \subseteq Registered
    BY <1>13, <1>b DEF Leave
  <2>2. \A m \in Nodes : pc'[m] = "loaded" => pc[m] = "loaded" /\ ring'[m] = ring[m]
    BY <1>13 DEF Leave, Gone
  <2> QED
    BY <2>1, <2>2 DEF JoinInv, Known
<1>14. ASSUME NEW n \in Nodes, Crash(n) PROVE JoinInv'
  BY <1>14 DEF JoinInv, Known, Crash, Registered, MembersAt, Gone
<1>15. ASSUME NEW n \in Nodes, FinishReload(n) PROVE JoinInv'
  BY <1>15 DEF JoinInv, Known, FinishReload, Registered, MembersAt
<1>16. CASE UNCHANGED clusterVars
  BY <1>16 DEF clusterVars, JoinInv, Known, Registered, MembersAt
<1> QED
  BY <1>1, <1>2, <1>3, <1>4, <1>5, <1>6, <1>7, <1>8, <1>9, <1>10, <1>11, <1>12, <1>13, <1>14, <1>15, <1>16
     DEF Next, ClusterStep, RunStep

\* Every step keeps the rings in line with the history.
LEMMA RingStep == IInv /\ [Next]_clusterVars => RingInv'
<1> SUFFICES ASSUME IInv, [Next]_clusterVars PROVE RingInv'
  OBVIOUS
<1> USE DEF IInv, Types, etcdVars
<1>a. Len(hist) \in Nat /\ \A i \in 0 .. Len(hist) : MembersAt(i)' = MembersAt(i)
  BY HistGrows
<1>b. \A m \in Nodes : applied[m] \in 0 .. Len(hist)
  BY <1>a DEF CursorInv
<1>c. \A m \in Nodes : applied'[m] = applied[m] => MembersAt(applied[m])' = MembersAt(applied[m])
  <2> TAKE m \in Nodes
  <2> HAVE applied'[m] = applied[m]
  <2>1. PICK i \in 0 .. Len(hist) : i = applied[m]
    BY <1>b
  <2>2. MembersAt(i)' = MembersAt(i)
    BY <1>a
  <2> QED
    BY <2>1, <2>2 DEF MembersAt
<1>d. hist' = hist => Registered' = Registered
  BY DEF Registered, MembersAt
<1>1. ASSUME NEW n \in Nodes, LeaseExpires(n) PROVE RingInv'
  <2>1. CASE n \in Registered
    <3>1. \A m \in Nodes : pc'[m] # "down" => /\ pc'[m] = pc[m] /\ ring'[m] = ring[m]
                                             /\ applied'[m] = applied[m]
      BY <1>1 DEF LeaseExpires, Gone
    <3>2. \A m \in Nodes : ~missed'[m] => ~missed[m] /\ pc[m] \notin {"loaded", "joined"}
      BY <1>1, <2>1 DEF LeaseExpires, RemoveMember, Miss
    <3> QED
      BY <1>c, <3>1, <3>2 DEF RingInv
  <2>2. CASE n \notin Registered
    <3>1. hist' = hist /\ missed' = missed
      BY <1>1, <2>2 DEF LeaseExpires, RemoveMember
    <3>2. Registered' = Registered
      BY <3>1 DEF Registered, MembersAt
    <3> QED
      BY <1>1, <1>c, <3>1, <3>2 DEF RingInv, LeaseExpires, Gone
  <2> QED
    BY <2>1, <2>2
<1>2. ASSUME NEW n \in Nodes, Load(n) PROVE RingInv'
  <2>1. Registered' = Registered
    BY <1>2 DEF Load, Registered, MembersAt
  <2> QED
    BY <1>2, <1>c, <2>1 DEF RingInv, Load
<1>3. ASSUME NEW n \in Nodes, Join(n) PROVE RingInv'
  <2>1. Registered' = Registered \union {n}
    BY <1>3, Added, Appended DEF Join
  <2>2. \A m \in Nodes \ {n} : pc'[m] = pc[m] /\ ring'[m] = ring[m] /\ applied'[m] = applied[m]
    BY <1>3 DEF Join
  <2>m. \A m \in Nodes : m # n /\ ~missed'[m] => ~missed[m] /\ pc[m] \notin {"loaded", "joined"}
    BY <1>3 DEF Join, AddMember, Miss
  <2>3. missed'[n] = missed[n]
    BY <1>3 DEF Join, AddMember, Miss
  <2>4. pc[n] = "loaded" /\ pc'[n] \notin {"loaded", "running", "leaving"}
        /\ (pc'[n] = "joined" => ring'[n] = ring[n] \union {n})
    BY <1>3 DEF Join
  <2> SUFFICES ASSUME NEW m \in Nodes, ~missed'[m]
               PROVE  /\ pc'[m] \in {"loaded", "joined"} => ring'[m] = Registered'
                      /\ pc'[m] \in {"running", "leaving"} => ring'[m] = MembersAt(applied[m])'
    BY DEF RingInv
  <2>5. CASE m = n
    <3>1. ~missed[n] /\ ring[n] = Registered
      BY <2>3, <2>4, <2>5 DEF RingInv
    <3> QED
      BY <2>1, <2>4, <2>5, <3>1
  <2>6. CASE m # n
    <3>1. pc'[m] = pc[m] /\ ring'[m] = ring[m] /\ applied'[m] = applied[m]
      BY <2>2, <2>6
    <3>2. ~missed[m] /\ pc[m] \notin {"loaded", "joined"}
      BY <2>m, <2>6
    <3>3. MembersAt(applied[m])' = MembersAt(applied[m])
      BY <1>c, <3>1
    <3> QED
      BY <3>1, <3>2, <3>3 DEF RingInv
  <2> QED
    BY <2>5, <2>6
<1>4. ASSUME NEW n \in Nodes, JoinFails(n) PROVE RingInv'
  BY <1>4, <1>c, <1>d DEF RingInv, JoinFails
<1>5. ASSUME NEW n \in Nodes, JoinHalfFails(n) PROVE RingInv'
  <2>1. Registered' = Registered \union {n}
    BY <1>5, Added, Appended DEF JoinHalfFails
  <2>2. \A m \in Nodes \ {n} : pc'[m] = pc[m] /\ ring'[m] = ring[m] /\ applied'[m] = applied[m]
    BY <1>5 DEF JoinHalfFails
  <2>m. \A m \in Nodes : m # n /\ ~missed'[m] => ~missed[m] /\ pc[m] \notin {"loaded", "joined"}
    BY <1>5 DEF JoinHalfFails, AddMember, Miss
  <2>3. missed'[n] = missed[n]
    BY <1>5 DEF JoinHalfFails, AddMember, Miss
  <2>4. pc[n] = "loaded" /\ pc'[n] \notin {"loaded", "running", "leaving"}
        /\ (pc'[n] = "joined" => ring'[n] = ring[n] \union {n})
    BY <1>5 DEF JoinHalfFails
  <2> SUFFICES ASSUME NEW m \in Nodes, ~missed'[m]
               PROVE  /\ pc'[m] \in {"loaded", "joined"} => ring'[m] = Registered'
                      /\ pc'[m] \in {"running", "leaving"} => ring'[m] = MembersAt(applied[m])'
    BY DEF RingInv
  <2>5. CASE m = n
    <3>1. ~missed[n] /\ ring[n] = Registered
      BY <2>3, <2>4, <2>5 DEF RingInv
    <3> QED
      BY <2>1, <2>4, <2>5, <3>1
  <2>6. CASE m # n
    <3>1. pc'[m] = pc[m] /\ ring'[m] = ring[m] /\ applied'[m] = applied[m]
      BY <2>2, <2>6
    <3>2. ~missed[m] /\ pc[m] \notin {"loaded", "joined"}
      BY <2>m, <2>6
    <3>3. MembersAt(applied[m])' = MembersAt(applied[m])
      BY <1>c, <3>1
    <3> QED
      BY <3>1, <3>2, <3>3 DEF RingInv
  <2> QED
    BY <2>5, <2>6
<1>6. ASSUME NEW n \in Nodes, OpenWatch(n) PROVE RingInv'
  <2>1. MembersAt(Len(hist)) = Registered
    BY DEF Registered
  <2>2. applied'[n] = Len(hist) /\ pc[n] = "joined" /\ ring' = ring /\ missed' = missed /\ hist' = hist
    BY <1>6 DEF OpenWatch
  <2>3. MembersAt(applied[n])' = Registered
    BY <2>1, <2>2 DEF MembersAt
  <2> QED
    BY <1>6, <1>c, <1>d, <2>1, <2>2, <2>3 DEF RingInv, OpenWatch
<1>7. ASSUME NEW n \in Nodes, Receive(n) PROVE RingInv'
  BY <1>7, <1>c, <1>d DEF RingInv, Receive
<1>8. ASSUME NEW n \in Nodes, ApplyEvent(n) PROVE RingInv'
  <2>1. applied[n] + 1 \in 1 .. Len(hist) /\ applied[n] \in Nat
    BY <1>8 DEF ApplyEvent, CursorInv
  <2>2. MembersAt(applied[n] + 1) = hist[applied[n] + 1].members
    BY <2>1 DEF MembersAt
  <2>3. hist[applied[n] + 1].members = RingAfter(MembersAt(applied[n]), hist[applied[n] + 1])
    BY <2>1 DEF HistInv
  <2>4. MembersAt(applied[n])' = MembersAt(applied[n] + 1)
    BY <1>8, <2>1 DEF ApplyEvent, MembersAt
  <2>5. ~missed'[n] => ring'[n] = MembersAt(applied[n])'
    <3>1. pc[n] \in {"running", "leaving"} /\ missed' = missed
          /\ ring'[n] = RingAfter(ring[n], hist[applied[n] + 1]) /\ applied'[n] = applied[n] + 1
      BY <1>8 DEF ApplyEvent
    <3> QED
      BY <2>2, <2>3, <2>4, <3>1 DEF RingInv
  <2>6. \A m \in Nodes \ {n} : ring'[m] = ring[m] /\ applied'[m] = applied[m]
    BY <1>8 DEF ApplyEvent
  <2>7. hist' = hist /\ pc' = pc /\ missed' = missed /\ pc[n] \in {"running", "leaving"}
    BY <1>8 DEF ApplyEvent
  <2>8. Registered' = Registered
    BY <2>7 DEF Registered, MembersAt
  <2> QED
    BY <1>c, <2>5, <2>6, <2>7, <2>8 DEF RingInv
<1>9. ASSUME NEW n \in Nodes, SendReload(n) PROVE RingInv'
  BY <1>9, <1>c, <1>d DEF RingInv, SendReload
<1>10. ASSUME NEW n \in Nodes, WatchFails(n) PROVE RingInv'
  BY <1>10, <1>c, <1>d DEF RingInv, WatchFails
<1>11. ASSUME NEW n \in Nodes, KeepAliveFails(n) PROVE RingInv'
  BY <1>11, <1>c, <1>d DEF RingInv, KeepAliveFails
<1>12. ASSUME NEW n \in Nodes, Stop(n) PROVE RingInv'
  BY <1>12, <1>c, <1>d DEF RingInv, Stop
<1>13. ASSUME NEW n \in Nodes, Leave(n) PROVE RingInv'
  <2>1. CASE n \in Registered
    <3>1. \A m \in Nodes : pc'[m] # "down" => /\ pc'[m] = pc[m] /\ ring'[m] = ring[m]
                                             /\ applied'[m] = applied[m]
      BY <1>13 DEF Leave, Gone
    <3>2. \A m \in Nodes : ~missed'[m] => ~missed[m] /\ pc[m] \notin {"loaded", "joined"}
      BY <1>13, <2>1 DEF Leave, RemoveMember, Miss
    <3> QED
      BY <1>c, <3>1, <3>2 DEF RingInv
  <2>2. CASE n \notin Registered
    <3>1. hist' = hist /\ missed' = missed
      BY <1>13, <2>2 DEF Leave, RemoveMember
    <3>2. Registered' = Registered
      BY <3>1 DEF Registered, MembersAt
    <3> QED
      BY <1>13, <1>c, <3>1, <3>2 DEF RingInv, Leave, Gone
  <2> QED
    BY <2>1, <2>2
<1>14. ASSUME NEW n \in Nodes, Crash(n) PROVE RingInv'
  BY <1>14, <1>c, <1>d DEF RingInv, Crash, Gone
<1>15. ASSUME NEW n \in Nodes, FinishReload(n) PROVE RingInv'
  BY <1>15, <1>c, <1>d DEF RingInv, FinishReload
<1>16. CASE UNCHANGED clusterVars
  BY <1>16, <1>c, <1>d DEF clusterVars, RingInv
<1> QED
  BY <1>1, <1>2, <1>3, <1>4, <1>5, <1>6, <1>7, <1>8, <1>9, <1>10, <1>11, <1>12, <1>13, <1>14, <1>15, <1>16
     DEF Next, ClusterStep, RunStep

-----------------------------------------------------------------------------
\* IInv is inductive.
LEMMA Inductive == Spec => []IInv
<1>1. IInv /\ [Next]_clusterVars => IInv'
  BY TypeStep, HistStep, JoinStep, CursorStep, RingStep DEF IInv
<1> QED
  BY InitIInv, <1>1, PTL DEF Spec

\* Every reachable state is well typed.
THEOREM TypeCorrect == Spec => []TypeOK
<1>1. IInv => TypeOK
  BY DEF IInv, CursorInv, TypeOK
<1> QED
  BY Inductive, <1>1, PTL

\* The ring follows the membership history exactly, however joins, crashes,
\* expiries and watch batches interleave, for a node that missed nothing at
\* its start.
THEOREM RingIsExact == Spec => []RingTracksMembership
<1>1. IInv => RingTracksMembership
  BY DEF IInv, RingInv, RingTracksMembership
<1> QED
  BY Inductive, <1>1, PTL

\* A node joins only when no key of an earlier life of it is left.
THEOREM JoinsAreFresh == Spec => []JoinsOnlyAfresh
<1>1. IInv => JoinsOnlyAfresh
  BY DEF IInv, HistInv, JoinsOnlyAfresh
<1> QED
  BY Inductive, <1>1, PTL

\* When all members run, have settled and missed nothing, each worker belongs
\* to exactly one of them.
THEOREM WorkersArePartitioned == Spec => []OneWorkerPerKey
<1>1. IInv => OneWorkerPerKey
  <2> SUFFICES ASSUME IInv, Registered # {}, \A n \in Registered : Settled(n) /\ ~missed[n],
                      NEW k \in Keys
               PROVE  \E n \in Registered : \A m \in Registered : LocalIsWorker(m, k) <=> m = n
    BY DEF OneWorkerPerKey
  <2>1. Registered \in SUBSET Nodes
    BY RegisteredType DEF IInv, Types
  <2>2. \A m \in Registered : ring[m] = Registered
    <3> TAKE m \in Registered
    <3>1. ring[m] = MembersAt(applied[m]) /\ applied[m] = Len(hist)
      BY <2>1 DEF IInv, RingInv, Settled
    <3> QED
      BY <3>1 DEF Registered
  <2>3. Owner[Registered][k] \in Registered
    BY <2>1, OwnerAssumption
  <2>4. \A m \in Registered : LocalIsWorker(m, k) <=> Owner[Registered][k] = m
    BY <2>2 DEF LocalIsWorker
  <2> QED
    BY <2>3, <2>4
<1> QED
  BY Inductive, <1>1, PTL

-----------------------------------------------------------------------------
(* What the managers keep, for one node and one key each.                   *)

Places == {"idle", "check", "backend", "get", "stop", "remove", "put", "ring", "own", "foreign", "ended"}

Stages == {"none", "loading", "loaded", "running", "stopping", "stopped"}

ScalerEvent == [type: {"create", "modify", "delete"}, key: Keys]

ATypes ==
  /\ present \in SUBSET Keys /\ changes \in Nat
  /\ mgr \in [Nodes -> Stages]
  /\ todo \in [Nodes -> Seq(ScalerEvent)]
  /\ rgt \in [Nodes -> [Keys -> Ids \union {NoId}]]
  /\ live \in [Nodes -> [Keys -> SUBSET Ids]]
  /\ thr \in [Nodes -> [Threads -> Thread]]
  /\ rl \in [Nodes -> {"idle", "get", "wait"}]
  /\ smissed \in [Nodes -> BOOLEAN] /\ churned \in [Nodes -> BOOLEAN]

\* What node n runs of key k is its registered scaler, or nothing.
Runs(n, k) == rgt[n][k] # NoId /\ live[n][k] = {rgt[n][k]}
RunsNot(n, k) == rgt[n][k] = NoId /\ live[n][k] = {}

\* Where a manager can be, by the stage of its process.
Shape(n) ==
  /\ pc[n] \in {"down", "loaded"} => mgr[n] = "none"
  /\ pc[n] \notin {"running", "leaving"} => phase[n] = "select" /\ ~reloading[n]
  /\ reloading[n] <=> rl[n] # "idle"
  /\ mgr[n] \in {"none", "loading"} => rl[n] = "idle"
  /\ mgr[n] \in {"none", "loading", "loaded"} => todo[n] = << >>
  /\ mgr[n] = "none" => \A k \in Keys : RunsNot(n, k)

\* Which goroutine of node n stands where, at which stage of its manager.
Stands(n, t) ==
  /\ At(n, t, "stop") => thr[n][t].id # NoId
  /\ t = Watch => /\ mgr[n] \in {"none", "loading", "loaded"} => At(n, t, "idle")
                  /\ thr[n][t].at \notin {"put", "ring", "own", "foreign"}
  /\ \A k \in Keys : t = <<"reload", k>> /\ ~At(n, t, "idle") =>
       thr[n][t].key = k /\ (mgr[n] = "loading" \/ rl[n] = "wait")
  /\ \A k \in Keys : t = <<"save", k>> /\ ~At(n, t, "idle") =>
       thr[n][t].key = k /\ mgr[n] = "stopping"

\* A registered scaler that does not run is about to be removed.
Live(n, k) ==
  rgt[n][k] # NoId /\ rgt[n][k] \notin live[n][k] =>
    \E t \in Threads : At(n, t, "remove") /\ thr[n][t].key = k

Creates(n, k, i) == todo[n][i] = [type |-> "create", key |-> k]

\* A create event of key k is on its way to node n.
Coming(n, k) == \E i \in DOMAIN todo[n] : Creates(n, k, i)

\* The watch loop is about to remove k and does not start it again.
Dropping(n, k) ==
  thr[n][Watch].at \in {"get", "stop", "remove"} /\ thr[n][Watch].key = k /\ thr[n][Watch].then = "idle"

\* A delete of a key that is stored again is followed by its create.
Deletes(n, k) ==
  k \in present /\ mgr[n] # "stopped" =>
    /\ \A i \in DOMAIN todo[n] : todo[n][i] = [type |-> "delete", key |-> k] =>
         \E j \in DOMAIN todo[n] : j > i /\ Creates(n, k, j)
    /\ Dropping(n, k) => Coming(n, k)

\* A reload of node n is due that has not read the keys yet.
Due(n) == phase[n] # "select" \/ rl[n] = "get"

\* Rebalance hands over a key of the node only while another reload is due.
HandsOver(n, k) ==
  thr[n][<<"reload", k>>].at \in {"foreign", "put", "get", "stop", "remove"} /\ LocalIsWorker(n, k) =>
    phase[n] # "select"

\* Some goroutine of node n is about to start k.
Starting(n, k) ==
  \/ thr[n][<<"reload", k>>].at \in {"ring", "own", "check", "backend"}
  \/ /\ thr[n][Watch].key = k
     /\ \/ thr[n][Watch].at \in {"check", "backend"}
        \/ thr[n][Watch].at \in {"get", "stop", "remove"} /\ thr[n][Watch].then = "check"

\* Every stored key of a node is registered there or on the way.
Owned(n, k) ==
  /\ mgr[n] \in {"loading", "loaded", "running"} /\ ~smissed[n]
  /\ k \in present /\ LocalIsWorker(n, k)
  => rgt[n][k] # NoId \/ Coming(n, k) \/ Due(n) \/ Starting(n, k)

\* Whether k is stored before the events of node n from i on.
StoredAt(n, k, i) ==
  \/ \E j \in DOMAIN todo[n] : /\ j >= i /\ todo[n][j].key = k /\ todo[n][j].type # "create"
                               /\ \A h \in i .. j - 1 : todo[n][h].key # k
  \/ k \in present /\ \A j \in DOMAIN todo[n] : j >= i => todo[n][j].key # k

\* An event leaves its key stored just if the next one of that key finds it so.
Queued(n) ==
  mgr[n] # "stopped" =>
    \A k \in Keys : \A i \in DOMAIN todo[n] :
      todo[n][i].key = k => (todo[n][i].type # "delete" <=> StoredAt(n, k, i + 1))

\* Without a change of the ring: what goroutine w has made of its key.
Handled(n, k, w, stored) ==
  CASE w.at = "idle" -> IF stored /\ LocalIsWorker(n, k) THEN Runs(n, k) ELSE RunsNot(n, k)
    [] w.at = "check" -> stored /\ RunsNot(n, k)
    [] w.at = "backend" -> stored /\ LocalIsWorker(n, k) /\ RunsNot(n, k)
    [] OTHER -> /\ LocalIsWorker(n, k) /\ (w.then = "check" <=> stored)
                /\ rgt[n][k] # NoId
                /\ w.at \in {"get", "stop", "remove"}
                /\ w.at = "get" => Runs(n, k)
                /\ w.at = "stop" => Runs(n, k) /\ w.id = rgt[n][k]
                /\ w.at = "remove" => live[n][k] = {}

\* The goroutine that handles k while no reload is due: load's, or the watch loop.
Handler(n, k) ==
  IF mgr[n] = "loading" THEN thr[n][<<"reload", k>>]
  ELSE IF thr[n][Watch].key = k THEN thr[n][Watch] ELSE Idle

Exact(n) ==
  mgr[n] \in {"loading", "loaded", "running"} /\ ~churned[n] =>
    /\ phase[n] # "send" /\ rl[n] = "idle"
    /\ ~smissed[n] => \A k \in Keys : Handled(n, k, Handler(n, k), StoredAt(n, k, 1))

NodeInv(n) ==
  /\ Shape(n) /\ Queued(n) /\ Exact(n)
  /\ \A t \in Threads : Stands(n, t)
  /\ \A k \in Keys : Live(n, k) /\ Deletes(n, k) /\ HandsOver(n, k) /\ Owned(n, k)

AIInv == ATypes /\ \A n \in Nodes : NodeInv(n)

-----------------------------------------------------------------------------
(* What a step does to one node.                                            *)

\* The steps of a goroutine that the process survives.
Works(n, t) ==
  \/ StartCheck(n, t) \/ StartSet(n, t) \/ StartFails(n, t)
  \/ StopGet(n, t) \/ StopWaits(n, t) \/ Remove(n, t)
  \/ PutScaler(n, t) \/ PutScalerFails(n, t)
  \/ AskRing(n, t) \/ AskRegistry(n, t) \/ WatchScalersFail(n, t)

\* Goroutine t of node n moves to l, and no other moves.
Moves(n, t, l) ==
  /\ thr'[n][t].at = l
  /\ l # "idle" => thr'[n][t].key = thr[n][t].key /\ thr'[n][t].then = thr[n][t].then
  /\ \A m \in Nodes, u \in Threads : m # n \/ u # t => thr'[m][u] = thr[m][u]

\* All that node n keeps to itself stays as it is.
Stays(n) ==
  /\ pc'[n] = pc[n] /\ ring'[n] = ring[n] /\ phase'[n] = phase[n] /\ reloading'[n] = reloading[n]
  /\ mgr'[n] = mgr[n] /\ rgt'[n] = rgt[n] /\ live'[n] = live[n] /\ thr'[n] = thr[n]
  /\ rl'[n] = rl[n] /\ churned'[n] = churned[n]

\* Node n sees nothing of the scaler keys change.
SeesNothing(n) == present' = present /\ todo'[n] = todo[n] /\ smissed'[n] = smissed[n]

\* Node n is told of one change of the scaler keys, or is not listening.
Sees(n, e) ==
  /\ \/ e.type = "create" /\ e.key \notin present /\ present' = present \union {e.key}
     \/ e.type = "modify" /\ e.key \in present /\ present' = present
     \/ e.type = "delete" /\ e.key \in present /\ present' = present \ {e.key}
  /\ todo'[n] = IF mgr[n] \in {"running", "stopping"} THEN Append(todo[n], e) ELSE todo[n]
  /\ smissed'[n] = (smissed[n] \/ mgr[n] \in {"loading", "loaded"})

SeesSome(n) == \E e \in ScalerEvent : Sees(n, e)

\* The steps of the manager as a whole.
ManagerStep(n) ==
  \/ RingMoves(n) \/ LoadScalers(n) \/ LoadScalersFails(n) \/ LoadDone(n)
  \/ WatchScalers(n) \/ TakeEvent(n)
  \/ TakeReload(n) \/ Rebalance(n) \/ RebalanceFails(n) \/ RebalanceDone(n)
  \/ StopManager(n) \/ ManagerStopped(n)

\* The end of the process.
Ends(n) == (Leave(n) \/ Crash(n)) /\ ManagerGone(n)

\* A manager that does not exist.
Blank(n) ==
  /\ mgr[n] = "none" /\ todo[n] = << >>
  /\ \A t \in Threads : At(n, t, "idle")
  /\ \A k \in Keys : RunsNot(n, k)

\* Node n's ring stays, and no reload it was due for is forgotten.
Calm(n) ==
  /\ ring'[n] = ring[n] /\ pc'[n] \notin {"down", "loaded"}
  /\ phase'[n] = phase[n] \/ (phase[n] = "select" /\ phase'[n] = "apply")

-----------------------------------------------------------------------------
\* Every step of the managers is a step of the cluster or leaves it alone, so
\* the managers only ever restrict what their cluster does.
LEMMA ClusterSimulated == ANext => [Next]_clusterVars
<1> SUFFICES ASSUME ANext PROVE [Next]_clusterVars
  OBVIOUS
<1>1. ASSUME NEW k \in Keys, CreateScaler(k) \/ DeleteScaler(k) PROVE UNCHANGED clusterVars
  BY <1>1 DEF CreateScaler, DeleteScaler
<1>2. ASSUME NEW n \in Nodes, ClusterOnly(n) PROVE Next
  BY <1>2 DEF ClusterOnly, Next, ClusterStep, RunStep
<1>3. ASSUME NEW n \in Nodes, RingMoves(n) PROVE Next
  BY <1>3 DEF RingMoves, Next, ClusterStep, RunStep
<1>4. ASSUME NEW n \in Nodes,
             \/ LoadScalers(n) \/ LoadScalersFails(n) \/ LoadDone(n) \/ WatchScalers(n)
             \/ TakeEvent(n) \/ Rebalance(n) \/ StopManager(n)
      PROVE  UNCHANGED clusterVars
  BY <1>4 DEF LoadScalers, LoadScalersFails, LoadDone, WatchScalers, TakeEvent, Rebalance, StopManager
<1>5. ASSUME NEW n \in Nodes,
             \/ TakeReload(n) \/ RebalanceFails(n) \/ RebalanceDone(n)
             \/ ManagerStopped(n) \/ ProcessEnds(n)
      PROVE  Next
  BY <1>5 DEF TakeReload, RebalanceFails, RebalanceDone, ManagerStopped, ProcessEnds, Next, ClusterStep, RunStep
<1>6. ASSUME NEW n \in Nodes, NEW t \in Threads, Works(n, t) PROVE UNCHANGED clusterVars
  BY <1>6 DEF Works, WatchScalersFail, StartCheck, StartSet, StartFails, StopGet, StopWaits, Remove, PutScaler,
              PutScalerFails, AskRing, AskRegistry
<1>7. ASSUME NEW n \in Nodes, NEW t \in Threads, StopNilPanics(n, t) PROVE Next
  BY <1>7 DEF StopNilPanics, Next, ClusterStep
<1> QED
  BY <1>1, <1>2, <1>3, <1>4, <1>5, <1>6, <1>7 DEF ANext, NodeStep, ThreadStep, Works

\* The managers refine the cluster they run on: what module Cluster promises
\* holds with all their goroutines at work.
THEOREM RunsOnCluster == ASpec => Spec
<1>1. AInit => ClusterInit
  BY DEF AInit
<1>2. [ANext]_vars => [Next]_clusterVars
  BY ClusterSimulated DEF vars, clusterVars
<1> QED
  BY <1>1, <1>2, PTL DEF ASpec, Spec

-----------------------------------------------------------------------------
\* The goroutine nobody uses is well typed.
LEMMA IdleType == Idle \in Thread /\ Idle.at = "idle" /\ Idle.then = "idle" /\ Idle.id = NoId
<1>1. (CHOOSE k \in Keys : TRUE) \in Keys
  BY AutoscalerAssumption
<1> QED
  BY <1>1 DEF Idle, Thread

\* One goroutine moves to place l with scaler i in hand; it keeps its key and
\* what it does next, and all others stay where they are.
LEMMA Going ==
  ASSUME thr \in [Nodes -> [Threads -> Thread]], NEW n \in Nodes, NEW t \in Threads,
         NEW l \in Places, NEW i \in Ids \union {NoId}, Goes(n, t, l, i)
  PROVE  /\ thr' \in [Nodes -> [Threads -> Thread]]
         /\ Moves(n, t, l) /\ (l # "idle" => thr'[n][t].id = i)
<1> DEFINE w == IF l = "idle" THEN Idle ELSE [thr[n][t] EXCEPT !.at = l, !.id = i]
<1>1. thr' = [thr EXCEPT ![n] = [thr[n] EXCEPT ![t] = w]]
  BY DEF Goes
<1>2. thr[n] \in [Threads -> Thread] /\ thr[n][t] \in Thread
  OBVIOUS
<1>3. w \in Thread
  <2>1. CASE l = "idle"
    BY <2>1, IdleType
  <2>2. CASE l # "idle"
    BY <2>2, <1>2 DEF Thread, Places
  <2> QED
    BY <2>1, <2>2
<1>4. /\ w.at = l
      /\ l = "idle" => w = Idle
      /\ l # "idle" => w.key = thr[n][t].key /\ w.then = thr[n][t].then /\ w.id = i
  <2>1. CASE l = "idle"
    BY <2>1, IdleType
  <2>2. CASE l # "idle"
    BY <2>2, <1>2 DEF Thread
  <2> QED
    BY <2>1, <2>2
<1> HIDE DEF w
<1>5. [thr[n] EXCEPT ![t] = w] \in [Threads -> Thread]
  BY <1>2, <1>3
<1>6. thr' \in [Nodes -> [Threads -> Thread]]
  BY <1>1, <1>5
<1>7. thr'[n][t] = w /\ \A m \in Nodes, u \in Threads : m # n \/ u # t => thr'[m][u] = thr[m][u]
  BY <1>1, <1>2
<1> QED
  BY <1>4, <1>6, <1>7 DEF Moves

\* A put tells every node the same event.
LEMMA PutSeen ==
  ASSUME ATypes, NEW k \in Keys, PutKey(k), NEW m \in Nodes
  PROVE  SeesSome(m)
<1> DEFINE e == [type |-> IF k \in present THEN "modify" ELSE "create", key |-> k]
<1>1. e \in ScalerEvent /\ e.key = k /\ e.type = IF k \in present THEN "modify" ELSE "create"
  BY DEF ScalerEvent
<1>2. todo'[m] = IF mgr[m] \in {"running", "stopping"} THEN Append(todo[m], e) ELSE todo[m]
  BY DEF PutKey, Notify
<1>3. smissed'[m] = (smissed[m] \/ mgr[m] \in {"loading", "loaded"})
  BY DEF PutKey, Notify
<1>4. present' = present \union {k} /\ (k \in present => present' = present)
  BY DEF PutKey
<1> HIDE DEF e
<1>5. Sees(m, e)
  BY <1>1, <1>2, <1>3, <1>4 DEF Sees
<1> QED
  BY <1>1, <1>5 DEF SeesSome

\* A delete tells every node the same event.
LEMMA DeleteSeen ==
  ASSUME ATypes, NEW k \in Keys, DeleteScaler(k), NEW m \in Nodes
  PROVE  SeesSome(m)
<1> DEFINE e == [type |-> "delete", key |-> k]
<1>1. e \in ScalerEvent /\ e.key = k /\ e.type = "delete"
  BY DEF ScalerEvent
<1>2. todo'[m] = IF mgr[m] \in {"running", "stopping"} THEN Append(todo[m], e) ELSE todo[m]
  BY DEF DeleteScaler, Notify
<1>3. smissed'[m] = (smissed[m] \/ mgr[m] \in {"loading", "loaded"})
  BY DEF DeleteScaler, Notify
<1>4. present' = present \ {k} /\ k \in present
  BY DEF DeleteScaler
<1> HIDE DEF e
<1>5. Sees(m, e)
  BY <1>1, <1>2, <1>3, <1>4 DEF Sees
<1> QED
  BY <1>1, <1>5 DEF SeesSome

\* To any one node a step is its own, or shows it at most one change in etcd.
LEMMA Roles ==
  ASSUME ATypes, Types, [ANext]_vars, NEW m \in Nodes
  PROVE  \/ Stays(m) /\ (SeesNothing(m) \/ SeesSome(m))
         \/ ClusterOnly(m) \/ ManagerStep(m) \/ Ends(m)
         \/ \E t \in Threads : Works(m, t)
<1> DEFINE Other == Stays(m) /\ (SeesNothing(m) \/ SeesSome(m))
<1>1. CASE UNCHANGED vars
  BY <1>1 DEF vars, clusterVars, scalerVars, Stays, SeesNothing
<1>2. ASSUME NEW k \in Keys, CreateScaler(k) PROVE Other
  <2>1. SeesSome(m)
    BY <1>2, PutSeen DEF CreateScaler
  <2>2. Stays(m)
    BY <1>2 DEF CreateScaler, clusterVars, Stays
  <2> QED
    BY <2>1, <2>2
<1>3. ASSUME NEW k \in Keys, DeleteScaler(k) PROVE Other
  <2>1. SeesSome(m)
    BY <1>3, DeleteSeen
  <2>2. Stays(m)
    BY <1>3 DEF DeleteScaler, clusterVars, Stays
  <2> QED
    BY <2>1, <2>2
<1>4. ASSUME NEW n \in Nodes, n # m, NodeStep(n) PROVE Other
  <2> USE <1>4 DEF Types, ATypes
  <2>1. CASE ClusterOnly(n)
    <3>1. SeesNothing(m) /\ UNCHANGED <<mgr, rgt, live, thr, rl, churned>>
      BY <2>1 DEF ClusterOnly, scalerVars, SeesNothing
    <3>2. pc'[m] = pc[m] /\ ring'[m] = ring[m] /\ phase'[m] = phase[m] /\ reloading'[m] = reloading[m]
      BY <2>1 DEF ClusterOnly, LeaseExpires, Load, Join, JoinFails, OpenWatch, Receive
    <3> QED
      BY <3>1, <3>2 DEF Stays
  <2>2. CASE RingMoves(n)
    BY <2>2 DEF RingMoves, ApplyEvent, etcdScalers, Stays, SeesNothing
  <2>3. CASE LoadScalers(n)
    BY <2>3 DEF LoadScalers, clusterVars, Stays, SeesNothing
  <2>4. CASE LoadScalersFails(n) \/ LoadDone(n)
    BY <2>4 DEF LoadScalersFails, LoadDone, RequestFails, clusterVars, etcdScalers, Stays, SeesNothing
  <2>5. CASE WatchScalers(n) \/ TakeEvent(n)
    BY <2>5 DEF WatchScalers, TakeEvent, clusterVars, etcdScalers, Stays, SeesNothing
  <2>6. CASE TakeReload(n)
    BY <2>6 DEF TakeReload, SendReload, Stays, SeesNothing
  <2>7. CASE Rebalance(n)
    BY <2>7 DEF Rebalance, clusterVars, etcdScalers, Stays, SeesNothing
  <2>8. CASE RebalanceFails(n) \/ RebalanceDone(n)
    BY <2>8 DEF RebalanceFails, RebalanceDone, FinishReload, RequestFails, Stays, SeesNothing
  <2>9. CASE StopManager(n)
    BY <2>9 DEF StopManager, clusterVars, Stays, SeesNothing
  <2>10. CASE ManagerStopped(n)
    BY <2>10 DEF ManagerStopped, Stop, etcdScalers, Stays, SeesNothing
  <2>11. CASE Ends(n)
    <3>1. pc'[m] = pc[m] /\ ring'[m] = ring[m] /\ phase'[m] = phase[m] /\ reloading'[m] = reloading[m]
      BY <2>11 DEF Ends, Leave, Crash, Gone
    <3>2. /\ SeesNothing(m)
          /\ mgr'[m] = mgr[m] /\ rgt'[m] = rgt[m] /\ live'[m] = live[m] /\ thr'[m] = thr[m]
          /\ rl'[m] = rl[m] /\ churned'[m] = churned[m]
      BY <2>11 DEF Ends, ManagerGone, SeesNothing
    <3> QED
      BY <3>1, <3>2 DEF Stays
  <2>12. ASSUME NEW t \in Threads, Works(n, t), ~PutScaler(n, t) PROVE Other
    <3>1. SeesNothing(m)
      BY <2>12 DEF Works, WatchScalersFail, StartCheck, StartSet, StartFails, StopGet, StopWaits, Remove,
                   PutScalerFails, AskRing, AskRegistry, RequestFails, etcdScalers, SeesNothing
    <3>2. UNCHANGED <<pc, ring, phase, reloading, mgr, rl, churned>>
      BY <2>12 DEF Works, WatchScalersFail, StartCheck, StartSet, StartFails, StopGet, StopWaits, Remove,
                   PutScalerFails, AskRing, AskRegistry, clusterVars
    <3>3. thr'[m] = thr[m]
      BY <2>12 DEF Works, WatchScalersFail, StartCheck, StartSet, StartFails, StopGet, StopWaits, Remove,
                   PutScalerFails, AskRing, AskRegistry, Goes
    <3>4. rgt'[m] = rgt[m] /\ live'[m] = live[m]
      BY <2>12 DEF Works, WatchScalersFail, StartCheck, StartSet, StartFails, StopGet, StopWaits, Remove,
                   PutScalerFails, AskRing, AskRegistry
    <3> QED
      BY <3>1, <3>2, <3>3, <3>4 DEF Stays
  <2>13. ASSUME NEW t \in Threads, PutScaler(n, t) PROVE Other
    <3>1. thr[n][t].key \in Keys
      BY DEF Thread
    <3>2. SeesSome(m)
      BY <2>13, <3>1, PutSeen DEF PutScaler
    <3>3. Stays(m)
      BY <2>13 DEF PutScaler, Goes, clusterVars, Stays
    <3> QED
      BY <3>2, <3>3
  <2>14. ASSUME NEW t \in Threads, StopNilPanics(n, t) PROVE Ends(n)
    BY <2>14 DEF StopNilPanics, Ends
  <2> QED
    BY <2>1, <2>2, <2>3, <2>4, <2>5, <2>6, <2>7, <2>8, <2>9, <2>10, <2>11, <2>12, <2>13, <2>14
       DEF NodeStep, ThreadStep, Works, ProcessEnds, Ends
<1>5. NodeStep(m) => \/ ClusterOnly(m) \/ ManagerStep(m) \/ Ends(m)
                     \/ \E t \in Threads : Works(m, t)
  BY DEF NodeStep, ThreadStep, Works, ManagerStep, ProcessEnds, Ends, StopNilPanics
<1> QED
  BY <1>1, <1>2, <1>3, <1>4, <1>5 DEF ANext

-----------------------------------------------------------------------------
\* A put or a delete keeps etcd and the watches well typed.
LEMMA NotifyType ==
  ASSUME ATypes, NEW k \in Keys, NEW type \in {"create", "modify", "delete"}, Notify(type, k)
  PROVE  todo' \in [Nodes -> Seq(ScalerEvent)] /\ smissed' \in [Nodes -> BOOLEAN]
<1> DEFINE e == [type |-> type, key |-> k]
<1>1. e \in ScalerEvent
  BY DEF ScalerEvent
<1>2. todo' = [n \in Nodes |-> IF mgr[n] \in {"running", "stopping"} THEN Append(todo[n], e) ELSE todo[n]]
  BY DEF Notify
<1> HIDE DEF e
<1>3. \A n \in Nodes : todo[n] \in Seq(ScalerEvent) /\ Append(todo[n], e) \in Seq(ScalerEvent)
  BY <1>1 DEF ATypes
<1>4. \A n \in Nodes : (smissed[n] \/ mgr[n] \in {"loading", "loaded"}) \in BOOLEAN
  OBVIOUS
<1> QED
  BY <1>2, <1>3, <1>4 DEF Notify

\* What the watch loop does first with an event is well typed.
LEMMA HandlingType ==
  ASSUME ATypes, NEW n \in Nodes, NEW e \in ScalerEvent
  PROVE  Handling(n, e) \in Thread
<1>1. e.key \in Keys
  BY DEF ScalerEvent
<1> QED
  BY <1>1, IdleType DEF Handling, Thread

\* The goroutines that load and rebalance start with are well typed.
LEMMA FreshType ==
  ASSUME NEW k \in Keys, NEW l \in Places
  PROVE  /\ [Idle EXCEPT !.at = l, !.key = k] \in Thread
         /\ [Idle EXCEPT !.at = l, !.key = k].at = l
         /\ [Idle EXCEPT !.at = l, !.key = k].key = k
         /\ [Idle EXCEPT !.at = l, !.key = k].then = "idle"
<1>1. Idle \in Thread /\ Idle.then = "idle"
  BY IdleType
<1> QED
  BY <1>1 DEF Thread, Places

\* A goroutine is the watch loop or works for one key.
LEMMA ThreadKinds ==
  /\ Watch \in Threads
  /\ \A k \in Keys : <<"reload", k>> \in Threads /\ <<"save", k>> \in Threads
                     /\ <<"reload", k>> # Watch /\ <<"save", k>> # Watch
                     /\ \A j \in Keys : /\ <<"reload", k>> # <<"save", j>>
                                          /\ <<"reload", k>> = <<"reload", j>> => k = j
  /\ \A t \in Threads : t = Watch \/ \E k \in Keys : t = <<"reload", k>> \/ t = <<"save", k>>
<1>1. Watch = <<"watch">>
  BY DEF Watch
<1>2. \A k \in Keys : <<"reload", k>> # Watch /\ <<"save", k>> # Watch
  BY <1>1
<1>3. \A t \in {"reload", "save"} \X Keys : \E k \in Keys : t = <<"reload", k>> \/ t = <<"save", k>>
  OBVIOUS
<1>4. Watch \in Threads /\ \A k \in Keys : <<"reload", k>> \in Threads /\ <<"save", k>> \in Threads
  BY DEF Threads
<1> QED
  BY <1>2, <1>3, <1>4 DEF Threads

\* Where load's goroutines are after it has read the keys.
LEMMA Loading ==
  ASSUME ATypes, NEW n \in Nodes, LoadScalers(n)
  PROVE  /\ thr' \in [Nodes -> [Threads -> Thread]]
         /\ \A t \in Threads : thr'[n][t] = Idle
                \/ \E k \in present : t = <<"reload", k>> /\ thr'[n][t].at = "check" /\ thr'[n][t].key = k
                                      /\ thr'[n][t].then = "idle"
         /\ \A k \in present : thr'[n][<<"reload", k>>].at = "check"
<1> DEFINE f == [t \in Threads |-> IF t \in {"reload"} \X present
                                   THEN [Idle EXCEPT !.at = "check", !.key = t[2]] ELSE Idle]
<1>0. present \in SUBSET Keys
  BY DEF ATypes
<1>1. \A k \in present : <<"reload", k>> \in Threads /\ <<"reload", k>> \in {"reload"} \X present
                         /\ <<"reload", k>>[2] = k
  BY <1>0, ThreadKinds
<1>2. \A t \in {"reload"} \X present : \E k \in present : t = <<"reload", k>> /\ t[2] = k
  OBVIOUS
<1>3. \A k \in present : /\ [Idle EXCEPT !.at = "check", !.key = k] \in Thread
                         /\ [Idle EXCEPT !.at = "check", !.key = k].at = "check"
                         /\ [Idle EXCEPT !.at = "check", !.key = k].key = k
                         /\ [Idle EXCEPT !.at = "check", !.key = k].then = "idle"
  <2>1. "check" \in Places
    BY DEF Places
  <2> TAKE k \in present
  <2>2. k \in Keys
    BY <1>0
  <2> QED
    BY <2>1, <2>2, FreshType
<1>4. ASSUME NEW t \in Threads
      PROVE  /\ f[t] \in Thread
             /\ f[t] = Idle
                  \/ \E k \in present : t = <<"reload", k>> /\ f[t].at = "check" /\ f[t].key = k
                                        /\ f[t].then = "idle"
  <2>1. CASE t \in {"reload"} \X present
    <3>1. PICK k \in present : t = <<"reload", k>> /\ t[2] = k
      BY <2>1, <1>2
    <3>2. f[t] = [Idle EXCEPT !.at = "check", !.key = k]
      BY <2>1, <3>1
    <3> QED
      BY <3>1, <3>2, <1>3
  <2>2. CASE t \notin {"reload"} \X present
    BY <2>2, IdleType
  <2> QED
    BY <2>1, <2>2
<1>5. thr' = [thr EXCEPT ![n] = f]
  BY DEF LoadScalers
<1>6. thr \in [Nodes -> [Threads -> Thread]]
  BY DEF ATypes
<1>8. \A k \in present : f[<<"reload", k>>].at = "check"
  BY <1>1, <1>3
<1>9. f \in [Threads -> Thread]
  BY <1>4
<1> HIDE DEF f
<1>10. thr'[n] = f /\ thr' \in [Nodes -> [Threads -> Thread]]
  BY <1>5, <1>6, <1>9
<1> QED
  BY <1>4, <1>8, <1>10

\* Where rebalance's goroutines are after it has read the keys.
LEMMA Rebalancing ==
  ASSUME ATypes, NEW n \in Nodes, Rebalance(n)
  PROVE  /\ thr' \in [Nodes -> [Threads -> Thread]]
         /\ \A t \in Threads : thr'[n][t] = thr[n][t]
                \/ \E k \in present : t = <<"reload", k>> /\ thr'[n][t].at = "ring" /\ thr'[n][t].key = k
         /\ \A k \in present : thr'[n][<<"reload", k>>].at = "ring"
<1> DEFINE f == [t \in Threads |-> IF t \in {"reload"} \X present
                                   THEN [Idle EXCEPT !.at = "ring", !.key = t[2]] ELSE thr[n][t]]
<1>0. present \in SUBSET Keys
  BY DEF ATypes
<1>1. \A k \in present : <<"reload", k>> \in Threads /\ <<"reload", k>> \in {"reload"} \X present
                         /\ <<"reload", k>>[2] = k
  BY <1>0, ThreadKinds
<1>2. \A t \in {"reload"} \X present : \E k \in present : t = <<"reload", k>> /\ t[2] = k
  OBVIOUS
<1>3. \A k \in present : /\ [Idle EXCEPT !.at = "ring", !.key = k] \in Thread
                         /\ [Idle EXCEPT !.at = "ring", !.key = k].at = "ring"
                         /\ [Idle EXCEPT !.at = "ring", !.key = k].key = k
  <2>1. "ring" \in Places
    BY DEF Places
  <2> TAKE k \in present
  <2>2. k \in Keys
    BY <1>0
  <2> QED
    BY <2>1, <2>2, FreshType
<1>4. ASSUME NEW t \in Threads
      PROVE  /\ f[t] \in Thread
             /\ f[t] = thr[n][t]
                  \/ \E k \in present : t = <<"reload", k>> /\ f[t].at = "ring" /\ f[t].key = k
  <2>1. CASE t \in {"reload"} \X present
    <3>1. PICK k \in present : t = <<"reload", k>> /\ t[2] = k
      BY <2>1, <1>2
    <3>2. f[t] = [Idle EXCEPT !.at = "ring", !.key = k]
      BY <2>1, <3>1
    <3> QED
      BY <3>1, <3>2, <1>3
  <2>2. CASE t \notin {"reload"} \X present
    BY <2>2 DEF ATypes
  <2> QED
    BY <2>1, <2>2
<1>5. thr' = [thr EXCEPT ![n] = f]
  BY DEF Rebalance
<1>6. thr \in [Nodes -> [Threads -> Thread]]
  BY DEF ATypes
<1>8. \A k \in present : f[<<"reload", k>>].at = "ring"
  BY <1>1, <1>3
<1>9. f \in [Threads -> Thread]
  BY <1>4
<1> HIDE DEF f
<1>10. thr'[n] = f /\ thr' \in [Nodes -> [Threads -> Thread]]
  BY <1>5, <1>6, <1>9
<1> QED
  BY <1>4, <1>8, <1>10

\* Where save's goroutines start.
LEMMA Saving ==
  ASSUME ATypes, NEW n \in Nodes, StopManager(n)
  PROVE  /\ thr' \in [Nodes -> [Threads -> Thread]]
         /\ \A t \in Threads : thr'[n][t] = thr[n][t]
                \/ \E k \in Keys : t = <<"save", k>> /\ thr'[n][t].at = "put" /\ thr'[n][t].key = k
<1> DEFINE f == [t \in Threads |-> IF \E k \in Keys : t = <<"save", k>> /\ rgt[n][k] # NoId
                                   THEN [Idle EXCEPT !.at = "put", !.key = t[2]] ELSE thr[n][t]]
<1>2. \A k \in Keys : <<"save", k>>[2] = k
  OBVIOUS
<1>3. \A k \in Keys : /\ [Idle EXCEPT !.at = "put", !.key = k] \in Thread
                      /\ [Idle EXCEPT !.at = "put", !.key = k].at = "put"
                      /\ [Idle EXCEPT !.at = "put", !.key = k].key = k
  <2>1. "put" \in Places
    BY DEF Places
  <2> TAKE k \in Keys
  <2>2. k \in Keys
    OBVIOUS
  <2> QED
    BY <2>1, <2>2, FreshType
<1>4. ASSUME NEW t \in Threads
      PROVE  /\ f[t] \in Thread
             /\ f[t] = thr[n][t]
                  \/ \E k \in Keys : t = <<"save", k>> /\ f[t].at = "put" /\ f[t].key = k
  <2>1. CASE \E k \in Keys : t = <<"save", k>> /\ rgt[n][k] # NoId
    <3>1. PICK k \in Keys : t = <<"save", k>> /\ rgt[n][k] # NoId
      BY <2>1
    <3>2. f[t] = [Idle EXCEPT !.at = "put", !.key = k]
      BY <2>1, <3>1
    <3> QED
      BY <3>1, <3>2, <1>3
  <2>2. CASE ~\E k \in Keys : t = <<"save", k>> /\ rgt[n][k] # NoId
    BY <2>2 DEF ATypes
  <2> QED
    BY <2>1, <2>2
<1>5. thr' = [thr EXCEPT ![n] = f]
  BY DEF StopManager
<1>6. thr \in [Nodes -> [Threads -> Thread]]
  BY DEF ATypes
<1>9. f \in [Threads -> Thread]
  BY <1>4
<1> HIDE DEF f
<1>10. thr'[n] = f /\ thr' \in [Nodes -> [Threads -> Thread]]
  BY <1>5, <1>6, <1>9
<1> QED
  BY <1>4, <1>10

\* Where each step of a goroutine takes it.
LEMMA Turns ==
  ASSUME ATypes, NEW n \in Nodes, NEW t \in Threads, Works(n, t)
  PROVE  /\ thr' \in [Nodes -> [Threads -> Thread]]
         /\ StartCheck(n, t) => Moves(n, t, IF LocalIsWorker(n, thr[n][t].key) THEN "backend" ELSE "idle")
         /\ StartSet(n, t) \/ StartFails(n, t) => Moves(n, t, "idle")
         /\ StopGet(n, t) => IF LocalIsWorker(n, thr[n][t].key)
                             THEN Moves(n, t, "stop") /\ thr'[n][t].id = rgt[n][thr[n][t].key]
                             ELSE Moves(n, t, thr[n][t].then)
         /\ StopWaits(n, t) => Moves(n, t, "remove")
         /\ Remove(n, t) => Moves(n, t, thr[n][t].then)
         /\ PutScaler(n, t) => IF thr[n][t].id = NoId THEN Moves(n, t, "get")
                               ELSE Moves(n, t, "stop") /\ thr'[n][t].id = thr[n][t].id
         /\ PutScalerFails(n, t) => Moves(n, t, IF thr[n][t].id = NoId THEN "get" ELSE "idle")
         /\ AskRing(n, t) => Moves(n, t, IF LocalIsWorker(n, thr[n][t].key) THEN "own" ELSE "foreign")
         /\ AskRegistry(n, t) =>
              \/ At(n, t, "own") /\ Moves(n, t, IF rgt[n][thr[n][t].key] = NoId THEN "check" ELSE "idle")
              \/ At(n, t, "foreign") /\ Moves(n, t, IF rgt[n][thr[n][t].key] = NoId THEN "idle" ELSE "put")
         /\ WatchScalersFail(n, t) => Moves(n, t, "ended")
<1>0. /\ thr \in [Nodes -> [Threads -> Thread]] /\ thr[n][t] \in Thread
      /\ rgt \in [Nodes -> [Keys -> Ids \union {NoId}]]
  BY DEF ATypes
<1>1. /\ thr[n][t].key \in Keys /\ thr[n][t].id \in Ids \union {NoId} /\ thr[n][t].then \in Places
      /\ rgt[n][thr[n][t].key] \in Ids \union {NoId} /\ NoId \in Ids \union {NoId}
  BY <1>0 DEF Thread, Places
<1>p. {"idle", "check", "backend", "get", "stop", "remove", "put", "own", "foreign", "ended"} \subseteq Places
  BY DEF Places
<1> DEFINE G(l, i) == Goes(n, t, l, i)
           T == thr' \in [Nodes -> [Threads -> Thread]]
<1>2. ASSUME NEW l \in Places, NEW i \in Ids \union {NoId}, Goes(n, t, l, i)
      PROVE  T /\ Moves(n, t, l) /\ (l # "idle" => thr'[n][t].id = i)
  BY <1>0, <1>2, Going
<1> HIDE DEF T
<1>3. ASSUME StartCheck(n, t)
      PROVE  T /\ Moves(n, t, IF LocalIsWorker(n, thr[n][t].key) THEN "backend" ELSE "idle")
  BY <1>1, <1>p, <1>2, <1>3 DEF StartCheck
<1>4. ASSUME StartSet(n, t) PROVE T /\ Moves(n, t, "idle")
  BY <1>1, <1>p, <1>2, <1>4 DEF StartSet
<1>5. ASSUME StartFails(n, t) PROVE T /\ Moves(n, t, "idle")
  BY <1>1, <1>p, <1>2, <1>5 DEF StartFails
<1>6. ASSUME StopGet(n, t)
      PROVE  T /\ IF LocalIsWorker(n, thr[n][t].key)
                  THEN Moves(n, t, "stop") /\ thr'[n][t].id = rgt[n][thr[n][t].key]
                  ELSE Moves(n, t, thr[n][t].then)
  BY <1>1, <1>p, <1>2, <1>6 DEF StopGet
<1>7. ASSUME StopWaits(n, t) PROVE T /\ Moves(n, t, "remove")
  BY <1>1, <1>p, <1>2, <1>7 DEF StopWaits
<1>8. ASSUME Remove(n, t) PROVE T /\ Moves(n, t, thr[n][t].then)
  BY <1>1, <1>p, <1>2, <1>8 DEF Remove
<1>9. ASSUME PutScaler(n, t)
      PROVE  T /\ IF thr[n][t].id = NoId THEN Moves(n, t, "get")
                  ELSE Moves(n, t, "stop") /\ thr'[n][t].id = thr[n][t].id
  BY <1>1, <1>p, <1>2, <1>9 DEF PutScaler
<1>10. ASSUME PutScalerFails(n, t)
       PROVE  T /\ Moves(n, t, IF thr[n][t].id = NoId THEN "get" ELSE "idle")
  BY <1>1, <1>p, <1>2, <1>10 DEF PutScalerFails
<1>11. ASSUME AskRing(n, t)
       PROVE  T /\ Moves(n, t, IF LocalIsWorker(n, thr[n][t].key) THEN "own" ELSE "foreign")
  BY <1>1, <1>p, <1>2, <1>11 DEF AskRing
<1>12. ASSUME AskRegistry(n, t)
       PROVE  /\ T
              /\ \/ At(n, t, "own") /\ Moves(n, t, IF rgt[n][thr[n][t].key] = NoId THEN "check" ELSE "idle")
                 \/ At(n, t, "foreign")
                    /\ Moves(n, t, IF rgt[n][thr[n][t].key] = NoId THEN "idle" ELSE "put")
  BY <1>1, <1>p, <1>2, <1>12 DEF AskRegistry
<1>13. ASSUME WatchScalersFail(n, t) PROVE T /\ Moves(n, t, "ended")
  BY <1>1, <1>p, <1>2, <1>13 DEF WatchScalersFail
<1> QED
  BY <1>3, <1>4, <1>5, <1>6, <1>7, <1>8, <1>9, <1>10, <1>11, <1>12, <1>13 DEF Works, T

\* Every step keeps the managers' variables in their types.
LEMMA ManagerTypes == ATypes /\ [ANext]_vars => ATypes'
<1> SUFFICES ASSUME ATypes, [ANext]_vars PROVE ATypes'
  OBVIOUS
<1>1. CASE UNCHANGED vars
  BY <1>1 DEF vars, scalerVars, ATypes
<1>c. Change => changes' \in Nat
  BY DEF Change, ATypes
<1>2. ASSUME NEW k \in Keys, CreateScaler(k) PROVE ATypes'
  <2>1. todo' \in [Nodes -> Seq(ScalerEvent)] /\ smissed' \in [Nodes -> BOOLEAN]
    BY <1>2, NotifyType DEF CreateScaler, PutKey
  <2> QED
    BY <1>2, <1>c, <2>1 DEF CreateScaler, PutKey, ATypes
<1>3. ASSUME NEW k \in Keys, DeleteScaler(k) PROVE ATypes'
  <2>1. todo' \in [Nodes -> Seq(ScalerEvent)] /\ smissed' \in [Nodes -> BOOLEAN]
    BY <1>3, NotifyType DEF DeleteScaler
  <2> QED
    BY <1>3, <1>c, <2>1 DEF DeleteScaler, ATypes
<1>4. ASSUME NEW n \in Nodes, RequestFails(n)
      PROVE  present' \in SUBSET Keys /\ changes' \in Nat /\ smissed' \in [Nodes -> BOOLEAN]
  BY <1>4, <1>c DEF RequestFails, ATypes
<1>5. ASSUME NEW n \in Nodes, ClusterOnly(n) PROVE ATypes'
  BY <1>5 DEF ClusterOnly, scalerVars, ATypes
<1>6. ASSUME NEW n \in Nodes, RingMoves(n) PROVE ATypes'
  BY <1>6 DEF RingMoves, etcdScalers, ATypes
<1>7. ASSUME NEW n \in Nodes, LoadScalers(n) PROVE ATypes'
  <2>1. thr' \in [Nodes -> [Threads -> Thread]]
    BY <1>7, Loading
  <2> QED
    BY <1>7, <2>1 DEF LoadScalers, ATypes, Stages
<1>8. ASSUME NEW n \in Nodes, LoadScalersFails(n) PROVE ATypes'
  BY <1>8, <1>4 DEF LoadScalersFails, ATypes, Stages
<1>9. ASSUME NEW n \in Nodes, LoadDone(n) PROVE ATypes'
  BY <1>9 DEF LoadDone, etcdScalers, ATypes, Stages
<1>10. ASSUME NEW n \in Nodes, WatchScalers(n) PROVE ATypes'
  <2>1. << >> \in Seq(ScalerEvent)
    OBVIOUS
  <2> QED
    BY <1>10, <2>1 DEF WatchScalers, etcdScalers, ATypes, Stages
<1>11. ASSUME NEW n \in Nodes, TakeEvent(n) PROVE ATypes'
  <2>1. todo[n] \in Seq(ScalerEvent) /\ todo[n] # << >>
    BY <1>11 DEF TakeEvent, ATypes
  <2>2. Head(todo[n]) \in ScalerEvent /\ Tail(todo[n]) \in Seq(ScalerEvent)
    BY <2>1
  <2>3. Handling(n, Head(todo[n])) \in Thread
    BY <2>2, HandlingType
  <2>4. todo' \in [Nodes -> Seq(ScalerEvent)]
    BY <1>11, <2>2 DEF TakeEvent, ATypes
  <2>5. thr' \in [Nodes -> [Threads -> Thread]]
    BY <1>11, <2>3 DEF TakeEvent, ATypes
  <2> QED
    BY <1>11, <2>4, <2>5 DEF TakeEvent, etcdScalers, ATypes
<1>12. ASSUME NEW n \in Nodes, TakeReload(n) PROVE ATypes'
  BY <1>12 DEF TakeReload, ATypes
<1>13. ASSUME NEW n \in Nodes, Rebalance(n) PROVE ATypes'
  <2>1. thr' \in [Nodes -> [Threads -> Thread]]
    BY <1>13, Rebalancing
  <2> QED
    BY <1>13, <2>1 DEF Rebalance, etcdScalers, ATypes
<1>14. ASSUME NEW n \in Nodes, RebalanceFails(n) PROVE ATypes'
  BY <1>14, <1>4 DEF RebalanceFails, ATypes
<1>15. ASSUME NEW n \in Nodes, RebalanceDone(n) PROVE ATypes'
  BY <1>15 DEF RebalanceDone, ATypes
<1>16. ASSUME NEW n \in Nodes, StopManager(n) PROVE ATypes'
  <2>1. thr' \in [Nodes -> [Threads -> Thread]]
    BY <1>16, Saving
  <2> QED
    BY <1>16, <1>c, <2>1 DEF StopManager, ATypes, Stages
<1>17. ASSUME NEW n \in Nodes, ManagerStopped(n) PROVE ATypes'
  BY <1>17 DEF ManagerStopped, etcdScalers, ATypes, Stages
<1>18. ASSUME NEW n \in Nodes, ManagerGone(n) PROVE ATypes'
  <2>1. [k \in Keys |-> NoId] \in [Keys -> Ids \union {NoId}] /\ [k \in Keys |-> {}] \in [Keys -> SUBSET Ids]
    OBVIOUS
  <2>2. [t \in Threads |-> Idle] \in [Threads -> Thread]
    BY IdleType
  <2>3. << >> \in Seq(ScalerEvent)
    OBVIOUS
  <2>4. rgt' \in [Nodes -> [Keys -> Ids \union {NoId}]] /\ live' \in [Nodes -> [Keys -> SUBSET Ids]]
    BY <1>18, <2>1 DEF ManagerGone, ATypes
  <2>5. thr' \in [Nodes -> [Threads -> Thread]]
    BY <1>18, <2>2 DEF ManagerGone, ATypes
  <2>6. todo' \in [Nodes -> Seq(ScalerEvent)]
    BY <1>18, <2>3 DEF ManagerGone, ATypes
  <2> QED
    BY <1>18, <2>4, <2>5, <2>6 DEF ManagerGone, ATypes, Stages
<1>19. ASSUME NEW n \in Nodes, NEW t \in Threads, Works(n, t) PROVE ATypes'
  <2>1. thr' \in [Nodes -> [Threads -> Thread]]
    BY <1>19, Turns
  <2>k. thr[n][t].key \in Keys
    BY DEF ATypes, Thread
  <2>2. CASE StartCheck(n, t) \/ StopGet(n, t) \/ AskRing(n, t) \/ AskRegistry(n, t)
    BY <2>1, <2>2 DEF StartCheck, StopGet, AskRing, AskRegistry, etcdScalers, ATypes
  <2>3. CASE StartSet(n, t)
    <3> DEFINE k == thr[n][t].key
               used == live[n][k] \union {rgt[n][k]} \union {thr[n][u].id : u \in Threads}
               i == CHOOSE j \in Ids \ used : TRUE
    <3>1. i \in Ids
      BY <2>3 DEF StartSet
    <3>2. rgt' = [rgt EXCEPT ![n][k] = i] /\ live' = [live EXCEPT ![n][k] = @ \union {i}]
      BY <2>3 DEF StartSet
    <3> HIDE DEF i
    <3>3. rgt' \in [Nodes -> [Keys -> Ids \union {NoId}]]
      BY <2>k, <3>1, <3>2 DEF ATypes
    <3>4. live' \in [Nodes -> [Keys -> SUBSET Ids]]
      BY <2>k, <3>1, <3>2 DEF ATypes
    <3> QED
      BY <2>1, <2>3, <3>3, <3>4 DEF StartSet, etcdScalers, ATypes
  <2>4. CASE StartFails(n, t) \/ PutScalerFails(n, t) \/ WatchScalersFail(n, t)
    BY <1>4, <2>1, <2>4 DEF StartFails, PutScalerFails, WatchScalersFail, ATypes
  <2>5. CASE StopWaits(n, t)
    <3>1. live' \in [Nodes -> [Keys -> SUBSET Ids]]
      BY <2>k, <2>5 DEF StopWaits, ATypes
    <3> QED
      BY <2>1, <2>5, <3>1 DEF StopWaits, etcdScalers, ATypes
  <2>6. CASE Remove(n, t)
    <3>1. rgt' \in [Nodes -> [Keys -> Ids \union {NoId}]]
      BY <2>k, <2>6 DEF Remove, ATypes
    <3> QED
      BY <2>1, <2>6, <3>1 DEF Remove, etcdScalers, ATypes
  <2>7. CASE PutScaler(n, t)
    <3>1. todo' \in [Nodes -> Seq(ScalerEvent)] /\ smissed' \in [Nodes -> BOOLEAN]
      BY <2>k, <2>7, NotifyType DEF PutScaler, PutKey
    <3> QED
      BY <2>k, <2>1, <2>7, <3>1 DEF PutScaler, PutKey, ATypes
  <2> QED
    BY <1>19, <2>2, <2>3, <2>4, <2>5, <2>6, <2>7 DEF Works
<1> QED
  BY <1>1, <1>2, <1>3, <1>5, <1>6, <1>7, <1>8, <1>9, <1>10, <1>11, <1>12, <1>13, <1>14, <1>15, <1>16,
     <1>17, <1>18, <1>19
     DEF ANext, NodeStep, ThreadStep, Works, ProcessEnds, StopNilPanics

-----------------------------------------------------------------------------
\* A manager that does not exist satisfies all that is asked of one.
LEMMA BlankHolds ==
  ASSUME NEW m \in Nodes, Blank(m)'
  PROVE  /\ Queued(m)' /\ Exact(m)'
         /\ \A t \in Threads : Stands(m, t)'
         /\ \A k \in Keys : Live(m, k)' /\ Deletes(m, k)' /\ HandsOver(m, k)' /\ Owned(m, k)'
<1>1. Queued(m)' /\ Exact(m)'
  BY DEF Blank, Queued, Exact
<1>2. ASSUME NEW t \in Threads PROVE Stands(m, t)'
  BY DEF Blank, Stands, At
<1>3. ASSUME NEW k \in Keys PROVE Live(m, k)' /\ Deletes(m, k)' /\ HandsOver(m, k)' /\ Owned(m, k)'
  <2>1. Live(m, k)'
    BY DEF Blank, Live, RunsNot
  <2>2. Deletes(m, k)'
    <3>1. DOMAIN todo'[m] = {}
      BY DEF Blank
    <3>2. ~Dropping(m, k)'
      BY ThreadKinds DEF Blank, Dropping, At
    <3> QED
      BY <3>1, <3>2 DEF Deletes
  <2>3. HandsOver(m, k)'
    BY ThreadKinds DEF Blank, HandsOver, At
  <2>4. Owned(m, k)'
    BY DEF Blank, Owned
  <2> QED
    BY <2>1, <2>2, <2>3, <2>4
<1> QED
  BY <1>1, <1>2, <1>3

\* Nothing of a manager outlives its process.
LEMMA EndsBlank ==
  ASSUME ATypes, NEW m \in Nodes, Ends(m)
  PROVE  Blank(m)'
<1>1. mgr'[m] = "none" /\ todo'[m] = << >> /\ rgt'[m] = [k \in Keys |-> NoId]
      /\ live'[m] = [k \in Keys |-> {}] /\ thr'[m] = [t \in Threads |-> Idle]
  BY DEF Ends, ManagerGone, ATypes
<1>2. Idle.at = "idle"
  BY IdleType
<1> QED
  BY <1>1, <1>2 DEF Blank, At, RunsNot

\* A goroutine is at work only where there is a manager.
LEMMA Awake ==
  ASSUME NEW m \in Nodes, NodeInv(m), NEW t \in Threads, ~At(m, t, "idle")
  PROVE  mgr[m] # "none"
<1>1. Stands(m, t) /\ Shape(m)
  BY DEF NodeInv
<1>2. CASE t = Watch
  BY <1>1, <1>2 DEF Stands
<1>3. ASSUME NEW k \in Keys, t = <<"reload", k>> \/ t = <<"save", k>> PROVE mgr[m] # "none"
  BY <1>1, <1>3 DEF Stands, Shape
<1> QED
  BY <1>2, <1>3, ThreadKinds

\* The cluster's own steps on a node come before its manager, or leave its
\* ring alone and forget no reload.
LEMMA Aside ==
  ASSUME Types, NEW m \in Nodes, NodeInv(m), ClusterOnly(m)
  PROVE  UNCHANGED scalerVars /\ (Blank(m)' \/ Calm(m))
<1>1. UNCHANGED scalerVars
  BY DEF ClusterOnly
<1>2. CASE Load(m) \/ Join(m) \/ JoinFails(m)
  <2>1. mgr[m] = "none"
    BY <1>2 DEF Load, Join, JoinFails, NodeInv, Shape
  <2>2. \A t \in Threads : At(m, t, "idle")
    BY <2>1, Awake
  <2>3. todo[m] = << >> /\ \A k \in Keys : RunsNot(m, k)
    BY <2>1 DEF NodeInv, Shape
  <2>4. Blank(m)'
    BY <1>1, <2>1, <2>2, <2>3 DEF Blank, scalerVars, At, RunsNot
  <2> QED
    BY <1>1, <2>4
<1>3. CASE LeaseExpires(m) \/ OpenWatch(m) \/ Receive(m)
  <2>1. CASE mgr[m] = "none"
    <3>2. \A t \in Threads : At(m, t, "idle")
      BY <2>1, Awake
    <3>3. todo[m] = << >> /\ \A k \in Keys : RunsNot(m, k)
      BY <2>1 DEF NodeInv, Shape
    <3>4. Blank(m)'
      BY <1>1, <2>1, <3>2, <3>3 DEF Blank, scalerVars, At, RunsNot
    <3> QED
      BY <1>1, <3>4
  <2>2. CASE mgr[m] # "none"
    <3>1. pc[m] \notin {"down", "loaded"}
      BY <2>2 DEF NodeInv, Shape
    <3>2. pc[m] = "joined" => phase[m] = "select"
      BY DEF NodeInv, Shape
    <3>3. Calm(m)
      BY <1>3, <3>1, <3>2 DEF LeaseExpires, OpenWatch, Receive, Calm, Types
    <3> QED
      BY <1>1, <3>3
  <2> QED
    BY <2>1, <2>2
<1> QED
  BY <1>2, <1>3 DEF ClusterOnly

-----------------------------------------------------------------------------
\* Every step keeps the stages of manager, process and reload in line.
LEMMA ShapeStep ==
  ASSUME AIInv, Types, Types', [ANext]_vars, NEW m \in Nodes
  PROVE  Shape(m)'
<1> USE DEF AIInv
<1>0. NodeInv(m) /\ Shape(m)
  BY DEF NodeInv
<1>t. mgr[m] \in Stages /\ pc \in [Nodes -> {"down", "loaded", "joined", "running", "leaving"}]
  BY DEF ATypes, Types
<1>1. CASE Stays(m) /\ (SeesNothing(m) \/ SeesSome(m))
  <2>1. todo'[m] = todo[m] \/ mgr[m] \in {"running", "stopping"}
    BY <1>1 DEF SeesNothing, SeesSome, Sees
  <2> QED
    BY <1>0, <1>1, <2>1 DEF Stays, Shape, RunsNot
<1>2. CASE ClusterOnly(m)
  <2>1. UNCHANGED <<mgr, todo, rgt, live, rl>>
    BY <1>2 DEF ClusterOnly, scalerVars
  <2>2. CASE Load(m)
    BY <1>0, <2>1, <2>2 DEF Load, Shape, RunsNot, Types
  <2>3. CASE Join(m)
    BY <1>0, <2>1, <2>3 DEF Join, Shape, RunsNot, Types
  <2>4. CASE JoinFails(m)
    BY <1>0, <2>1, <2>4 DEF JoinFails, Shape, RunsNot, Types
  <2>5. CASE LeaseExpires(m)
    BY <1>0, <2>1, <2>5 DEF LeaseExpires, Shape, RunsNot, Types
  <2>6. CASE OpenWatch(m)
    BY <1>0, <2>1, <2>6 DEF OpenWatch, Shape, RunsNot, Types
  <2>7. CASE Receive(m)
    BY <1>0, <2>1, <2>7 DEF Receive, Shape, RunsNot, Types
  <2> QED
    BY <1>2, <2>2, <2>3, <2>4, <2>5, <2>6, <2>7 DEF ClusterOnly
<1>3. CASE Ends(m)
  <2>1. Blank(m)' /\ rl'[m] = "idle"
    BY <1>3, EndsBlank DEF Ends, ManagerGone, ATypes
  <2>2. phase'[m] = "select" /\ ~reloading'[m]
    BY <1>3 DEF Ends, Leave, Crash, Gone, Types
  <2> QED
    BY <2>1, <2>2 DEF Shape, Blank
<1>4. CASE ManagerStep(m)
  <2> USE <1>0, <1>t DEF Shape, RunsNot
  <2>1. CASE RingMoves(m)
    BY <2>1 DEF RingMoves, ApplyEvent, Types
  <2>2. CASE LoadScalers(m)
    BY <2>2 DEF LoadScalers, clusterVars, ATypes
  <2>3. CASE LoadScalersFails(m)
    BY <2>3 DEF LoadScalersFails, clusterVars, ATypes
  <2>4. CASE LoadDone(m)
    BY <2>4 DEF LoadDone, clusterVars, ATypes
  <2>5. CASE WatchScalers(m)
    BY <2>5 DEF WatchScalers, clusterVars, ATypes
  <2>6. CASE TakeEvent(m)
    BY <2>6 DEF TakeEvent, clusterVars, ATypes
  <2>7. CASE TakeReload(m)
    BY <2>7 DEF TakeReload, SendReload, ATypes, Types
  <2>8. CASE Rebalance(m)
    BY <2>8 DEF Rebalance, clusterVars, ATypes
  <2>9. CASE RebalanceFails(m)
    BY <2>9 DEF RebalanceFails, FinishReload, ATypes, Types
  <2>10. CASE RebalanceDone(m)
    BY <2>10 DEF RebalanceDone, FinishReload, ATypes, Types
  <2>11. CASE StopManager(m)
    BY <2>11 DEF StopManager, clusterVars, ATypes
  <2>12. CASE ManagerStopped(m)
    BY <2>12 DEF ManagerStopped, Stop, ATypes, Types
  <2> QED
    BY <1>4, <2>1, <2>2, <2>3, <2>4, <2>5, <2>6, <2>7, <2>8, <2>9, <2>10, <2>11, <2>12 DEF ManagerStep
<1>5. ASSUME NEW t \in Threads, Works(m, t) PROVE Shape(m)'
  <2>1. mgr[m] # "none"
    BY <1>0, <1>5, Awake DEF Works, WatchScalersFail, StartCheck, StartSet, StartFails, StopGet, StopWaits, Remove,
       PutScaler, PutScalerFails, AskRing, AskRegistry, At
  <2>2. UNCHANGED <<pc, phase, reloading, mgr, rl>>
    BY <1>5 DEF Works, WatchScalersFail, StartCheck, StartSet, StartFails, StopGet, StopWaits, Remove,
       PutScaler, PutScalerFails, AskRing, AskRegistry, clusterVars
  <2>3. todo'[m] = todo[m] \/ mgr[m] \in {"running", "stopping"}
    <3>1. CASE PutScaler(m, t)
      <4>1. thr[m][t].key \in Keys
        BY DEF ATypes, Thread
      <4> QED
        BY <3>1, <4>1, PutSeen DEF PutScaler, SeesSome, Sees
    <3>2. CASE ~PutScaler(m, t)
      BY <1>5, <3>2 DEF Works, WatchScalersFail, StartCheck, StartSet, StartFails, StopGet, StopWaits, Remove,
       PutScalerFails, AskRing, AskRegistry
    <3> QED
      BY <3>1, <3>2
  <2> QED
    BY <1>0, <2>1, <2>2, <2>3 DEF Shape
<1> QED
  BY <1>1, <1>2, <1>3, <1>4, <1>5, Roles

\* A goroutine's step leaves the ring, the stages and, unless it puts, etcd alone.
LEMMA WorkFrame ==
  ASSUME ATypes, NEW m \in Nodes, NEW t \in Threads, Works(m, t)
  PROVE  /\ UNCHANGED <<pc, ring, phase, reloading, mgr, rl, churned>>
         /\ ~At(m, t, "idle") \/ WatchScalersFail(m, t)
         /\ PutScaler(m, t) => SeesSome(m)
         /\ ~PutScaler(m, t) => present' = present /\ todo' = todo /\ (smissed[m] => smissed'[m])
<1>1. UNCHANGED <<pc, ring, phase, reloading, mgr, rl, churned>>
  BY DEF Works, WatchScalersFail, StartCheck, StartSet, StartFails, StopGet, StopWaits, Remove,
       PutScaler, PutScalerFails, AskRing, AskRegistry, clusterVars
<1>2. ~At(m, t, "idle") \/ WatchScalersFail(m, t)
  BY DEF Works, StartCheck, StartSet, StartFails, StopGet, StopWaits, Remove,
       PutScaler, PutScalerFails, AskRing, AskRegistry, At
<1>3. ASSUME PutScaler(m, t) PROVE SeesSome(m)
  <2>1. thr[m][t].key \in Keys
    BY DEF ATypes, Thread
  <2> QED
    BY <1>3, <2>1, PutSeen DEF PutScaler
<1>4. ASSUME ~PutScaler(m, t) PROVE present' = present /\ todo' = todo /\ (smissed[m] => smissed'[m])
  <2>1. CASE StartFails(m, t) \/ PutScalerFails(m, t) \/ WatchScalersFail(m, t)
    BY <2>1 DEF StartFails, PutScalerFails, WatchScalersFail, RequestFails, ATypes
  <2>2. CASE ~(StartFails(m, t) \/ PutScalerFails(m, t) \/ WatchScalersFail(m, t))
    BY <1>4, <2>2 DEF Works, StartCheck, StartSet, StopGet, StopWaits, Remove, AskRing, AskRegistry, etcdScalers
  <2> QED
    BY <2>1, <2>2
<1> QED
  BY <1>1, <1>2, <1>3, <1>4

\* A goroutine that has just moved stands where it may.
LEMMA MovedStands ==
  ASSUME ATypes, NEW m \in Nodes, NEW u \in Threads, Stands(m, u), ~At(m, u, "idle"),
         NEW l \in Places, Moves(m, u, l), mgr' = mgr, rl' = rl,
         l = "stop" => thr'[m][u].id # NoId,
         u = Watch => l \notin {"put", "ring", "own", "foreign"}
  PROVE  Stands(m, u)'
<1>1. thr'[m][u].at = l /\ (l # "idle" => thr'[m][u].key = thr[m][u].key)
  BY DEF Moves
<1>2. l = "stop" => thr'[m][u].id # NoId
  OBVIOUS
<1>3. u = Watch => /\ mgr'[m] \notin {"none", "loading", "loaded"}
                   /\ thr'[m][u].at \notin {"put", "ring", "own", "foreign"}
  BY <1>1 DEF Stands
<1> QED
  BY <1>1, <1>2, <1>3 DEF Stands, At

\* Every step keeps every goroutine where its manager's stage allows it.
LEMMA StandsStep ==
  ASSUME AIInv, Types, [ANext]_vars, NEW m \in Nodes, NEW u \in Threads
  PROVE  Stands(m, u)'
<1> USE DEF AIInv
<1>0. NodeInv(m) /\ Shape(m) /\ \A t \in Threads : Stands(m, t)
  BY DEF NodeInv
<1>1. CASE Stays(m)
  BY <1>0, <1>1 DEF Stays, Stands, At
<1>2. CASE ClusterOnly(m)
  BY <1>0, <1>2 DEF ClusterOnly, scalerVars, Stands, At
<1>3. CASE Ends(m)
  BY <1>3, EndsBlank, BlankHolds
<1>4. CASE ManagerStep(m)
  <2>1. CASE RingMoves(m)
    BY <1>0, <2>1 DEF RingMoves, Stands, At
  <2>2. CASE LoadScalers(m)
    <3>1. mgr'[m] = "loading"
      BY <2>2 DEF LoadScalers, ATypes
    <3>2. CASE thr'[m][u] = Idle
      BY <3>1, <3>2, IdleType DEF Stands, At
    <3>3. ASSUME NEW k \in present, u = <<"reload", k>>, thr'[m][u].at = "check", thr'[m][u].key = k
          PROVE  Stands(m, u)'
      <4>1. k \in Keys
        BY DEF ATypes
      <4> QED
        BY <3>1, <3>3, <4>1, ThreadKinds DEF Stands, At
    <3> QED
      BY <2>2, <3>2, <3>3, Loading
  <2>3. CASE LoadScalersFails(m) \/ LoadDone(m) \/ WatchScalers(m)
    <3>1. mgr[m] = "loading" => At(m, u, "idle")
      BY <2>3 DEF LoadScalersFails, LoadDone, WatchScalers, AllIdle
    <3>2. mgr[m] = "none" => At(m, u, "idle")
      BY <1>0, Awake
    <3>3. thr' = thr /\ rl' = rl /\ mgr[m] \in {"none", "loading", "loaded"} /\ mgr'[m] \in {"loaded", "running"}
      BY <2>3 DEF LoadScalersFails, LoadDone, WatchScalers, ATypes
    <3> QED
      BY <1>0, <3>1, <3>2, <3>3 DEF Stands, At
  <2>4. CASE TakeEvent(m)
    <3>1. mgr' = mgr /\ rl' = rl /\ mgr[m] \in {"running", "stopping"}
      BY <2>4 DEF TakeEvent
    <3>2. CASE u # Watch
      <4>1. thr'[m][u] = thr[m][u]
        BY <2>4, <3>2, ThreadKinds DEF TakeEvent, ATypes
      <4> QED
        BY <1>0, <3>1, <3>2, <4>1 DEF Stands, At
    <3>3. CASE u = Watch
      <4>1. thr'[m][u] = Handling(m, Head(todo[m]))
        BY <2>4, <3>3 DEF TakeEvent, ATypes
      <4>2. Handling(m, Head(todo[m])).at \in {"idle", "check", "get"}
        BY IdleType DEF Handling
      <4> QED
        BY <3>1, <3>3, <4>1, <4>2, ThreadKinds DEF Stands, At
    <3> QED
      BY <3>2, <3>3
  <2>5. CASE TakeReload(m) \/ RebalanceFails(m)
    <3>1. thr' = thr /\ mgr' = mgr /\ rl[m] # "wait"
      <4>1. CASE TakeReload(m)
        BY <1>0, <4>1 DEF TakeReload, SendReload, Shape
      <4>2. CASE RebalanceFails(m)
        BY <4>2 DEF RebalanceFails
      <4> QED
        BY <2>5, <4>1, <4>2
    <3> QED
      BY <1>0, <3>1 DEF Stands, At
  <2>6. CASE Rebalance(m)
    <3>1. mgr' = mgr /\ rl'[m] = "wait"
      BY <2>6 DEF Rebalance, ATypes
    <3>2. CASE thr'[m][u] = thr[m][u]
      BY <1>0, <3>1, <3>2 DEF Stands, At
    <3>3. ASSUME NEW k \in present, u = <<"reload", k>>, thr'[m][u].at = "ring", thr'[m][u].key = k
          PROVE  Stands(m, u)'
      <4>1. k \in Keys
        BY DEF ATypes
      <4> QED
        BY <3>1, <3>3, <4>1, ThreadKinds DEF Stands, At
    <3> QED
      BY <2>6, <3>2, <3>3, Rebalancing
  <2>7. CASE RebalanceDone(m)
    <3>1. thr' = thr /\ mgr' = mgr
      BY <2>7 DEF RebalanceDone
    <3>2. \A k \in Keys : u = <<"reload", k>> => At(m, u, "idle")
      BY <2>7 DEF RebalanceDone, AllIdle
    <3> QED
      BY <1>0, <3>1, <3>2 DEF Stands, At
  <2>8. CASE StopManager(m)
    <3>1. mgr'[m] = "stopping" /\ mgr[m] = "running" /\ rl' = rl
      BY <2>8 DEF StopManager, ATypes
    <3>2. CASE thr'[m][u] = thr[m][u]
      BY <1>0, <3>1, <3>2 DEF Stands, At
    <3>3. ASSUME NEW k \in Keys, u = <<"save", k>>, thr'[m][u].at = "put", thr'[m][u].key = k
          PROVE  Stands(m, u)'
      BY <3>1, <3>3, ThreadKinds DEF Stands, At
    <3> QED
      BY <2>8, <3>2, <3>3, Saving
  <2>9. CASE ManagerStopped(m)
    <3>1. thr' = thr /\ rl' = rl /\ mgr'[m] = "stopped" /\ mgr[m] = "stopping"
      BY <2>9 DEF ManagerStopped, ATypes
    <3>2. \A k \in Keys : u = <<"save", k>> => At(m, u, "idle")
      BY <2>9 DEF ManagerStopped, AllIdle
    <3> QED
      BY <1>0, <3>1, <3>2 DEF Stands, At
  <2> QED
    BY <1>4, <2>1, <2>2, <2>3, <2>4, <2>5, <2>6, <2>7, <2>8, <2>9 DEF ManagerStep
<1>5. ASSUME NEW t \in Threads, Works(m, t) PROVE Stands(m, u)'
  <2>0. mgr' = mgr /\ rl' = rl /\ (~At(m, t, "idle") \/ WatchScalersFail(m, t))
    BY <1>5, WorkFrame
  <2>1. CASE u # t
    <3>1. thr'[m][u] = thr[m][u]
      BY <1>5, <2>1, Turns DEF Moves, Works
    <3> QED
      BY <1>0, <2>0, <3>1 DEF Stands, At
  <2>3. CASE u = t /\ WatchScalersFail(m, t)
    <3>1. t = Watch /\ mgr[m] \in {"running", "stopping"}
      BY <2>3 DEF WatchScalersFail
    <3>2. thr'[m][u].at = "ended"
      BY <1>5, <2>3, Turns DEF Moves
    <3> QED
      BY <2>0, <2>3, <3>1, <3>2, ThreadKinds DEF Stands, At
  <2>2. CASE u = t /\ ~WatchScalersFail(m, t)
    <3> DEFINE Lands(l) == Moves(m, u, l) /\ (l = "stop" => thr'[m][u].id # NoId)
                           /\ (u = Watch => l \notin {"put", "ring", "own", "foreign"})
    <3>1. \E l \in Places : Lands(l)
      <4>0. thr[m][t].then \in {"idle", "check"} /\ thr[m][t].key \in Keys
        BY DEF ATypes, Thread
      <4> USE <2>2, Turns DEF Places
      <4>1. CASE StartCheck(m, t)
        BY <1>5, <4>1
      <4>2. CASE StartSet(m, t) \/ StartFails(m, t)
        BY <1>5, <4>2
      <4>3. CASE StopGet(m, t)
        <5>1. LocalIsWorker(m, thr[m][t].key) => rgt[m][thr[m][t].key] # NoId
          BY <4>3 DEF StopGet
        <5> QED
          BY <1>5, <4>0, <4>3, <5>1
      <4>4. CASE StopWaits(m, t)
        BY <1>5, <4>4
      <4>5. CASE Remove(m, t)
        BY <1>5, <4>0, <4>5
      <4>6. CASE PutScaler(m, t)
        BY <1>5, <4>6
      <4>7. CASE PutScalerFails(m, t)
        BY <1>5, <4>7
      <4>8. CASE AskRing(m, t)
        BY <1>0, <1>5, <4>8 DEF AskRing, Stands, At
      <4>9. CASE AskRegistry(m, t)
        BY <1>0, <1>5, <4>9 DEF AskRegistry, Stands, At
      <4> QED
        BY <1>5, <4>1, <4>2, <4>3, <4>4, <4>5, <4>6, <4>7, <4>8, <4>9 DEF Works
    <3> QED
      BY <1>0, <2>0, <2>2, <3>1, MovedStands
  <2> QED
    BY <2>1, <2>2, <2>3
<1> QED
  BY <1>1, <1>2, <1>3, <1>4, <1>5, Roles

-----------------------------------------------------------------------------
\* A scaler that has ended stays in the registry no longer than it takes the
\* goroutine that stopped it to remove it.
LEMMA LiveStep ==
  ASSUME AIInv, Types, [ANext]_vars, NEW m \in Nodes, NEW k \in Keys
  PROVE  Live(m, k)'
<1> USE DEF AIInv
<1>0. NodeInv(m) /\ Shape(m) /\ Live(m, k) /\ \A t \in Threads : Stands(m, t)
  BY DEF NodeInv
<1>a. ASSUME rgt'[m] = rgt[m], live'[m] = live[m],
             \A t \in Threads : At(m, t, "remove") => thr'[m][t] = thr[m][t]
      PROVE  Live(m, k)'
  BY <1>0, <1>a DEF Live, At
<1>1. CASE Stays(m)
  BY <1>1, <1>a DEF Stays
<1>2. CASE ClusterOnly(m)
  BY <1>2, <1>a DEF ClusterOnly, scalerVars
<1>3. CASE Ends(m)
  BY <1>3, EndsBlank, BlankHolds
<1>4. CASE ManagerStep(m)
  <2>1. rgt' = rgt /\ live' = live
    BY <1>4 DEF ManagerStep, RingMoves, LoadScalers, LoadScalersFails, LoadDone, WatchScalers, TakeEvent,
       TakeReload, Rebalance, RebalanceFails, RebalanceDone, StopManager, ManagerStopped
  <2>2. CASE LoadScalers(m)
    <3>1. RunsNot(m, k)
      BY <1>0, <2>2 DEF LoadScalers, Shape
    <3> QED
      BY <2>1, <3>1 DEF Live, RunsNot
  <2>3. CASE TakeEvent(m)
    <3>1. \A t \in Threads : At(m, t, "remove") => thr'[m][t] = thr[m][t]
      BY <2>3 DEF TakeEvent, At, ATypes
    <3> QED
      BY <1>a, <2>1, <3>1
  <2>4. CASE Rebalance(m)
    <3>1. \A j \in Keys : At(m, <<"reload", j>>, "idle")
      BY <1>0, <2>4, ThreadKinds DEF Rebalance, Shape, Stands
    <3>2. \A t \in Threads : At(m, t, "remove") => thr'[m][t] = thr[m][t]
      BY <2>4, <3>1, Rebalancing DEF At, ATypes
    <3> QED
      BY <1>a, <2>1, <3>2
  <2>5. CASE StopManager(m)
    <3>1. \A j \in Keys : At(m, <<"save", j>>, "idle")
      BY <1>0, <2>5, ThreadKinds DEF StopManager, Stands
    <3>2. \A t \in Threads : At(m, t, "remove") => thr'[m][t] = thr[m][t]
      BY <2>5, <3>1, Saving DEF At
    <3> QED
      BY <1>a, <2>1, <3>2
  <2>6. CASE ~(LoadScalers(m) \/ TakeEvent(m) \/ Rebalance(m) \/ StopManager(m))
    <3>1. thr' = thr
      BY <1>4, <2>6 DEF ManagerStep, RingMoves, LoadScalersFails, LoadDone, WatchScalers,
         TakeReload, RebalanceFails, RebalanceDone, ManagerStopped
    <3> QED
      BY <1>a, <2>1, <3>1
  <2> QED
    BY <2>2, <2>3, <2>4, <2>5, <2>6
<1>5. ASSUME NEW t \in Threads, Works(m, t) PROVE Live(m, k)'
  <2>m. \A u \in Threads : u # t => thr'[m][u] = thr[m][u]
    BY <1>5, Turns DEF Moves, Works
  <2>k. thr[m][t].key \in Keys
    BY DEF ATypes, Thread
  <2>1. CASE StartSet(m, t)
    <3> DEFINE j == thr[m][t].key
               used == live[m][j] \union {rgt[m][j]} \union {thr[m][u].id : u \in Threads}
               i == CHOOSE x \in Ids \ used : TRUE
    <3>1. rgt' = [rgt EXCEPT ![m][j] = i] /\ live' = [live EXCEPT ![m][j] = @ \union {i}]
      BY <2>1 DEF StartSet
    <3> HIDE DEF i
    <3>2. CASE k = j
      BY <2>k, <3>1, <3>2 DEF Live, ATypes
    <3>3. CASE k # j
      <4>1. rgt'[m][k] = rgt[m][k] /\ live'[m][k] = live[m][k]
        BY <2>k, <3>1, <3>3 DEF ATypes
      <4>2. At(m, t, "backend")
        BY <2>1 DEF StartSet
      <4> QED
        BY <1>0, <2>m, <4>1, <4>2 DEF Live, At
    <3> QED
      BY <3>2, <3>3
  <2>2. CASE StopWaits(m, t)
    <3>1. thr'[m][t].at = "remove" /\ thr'[m][t].key = thr[m][t].key
      BY <1>5, <2>2, Turns DEF Moves
    <3>2. CASE k = thr[m][t].key
      BY <3>1, <3>2 DEF Live, At
    <3>3. CASE k # thr[m][t].key
      <4>1. rgt'[m][k] = rgt[m][k] /\ live'[m][k] = live[m][k]
        BY <2>2, <2>k, <3>3 DEF StopWaits, ATypes
      <4>2. At(m, t, "stop")
        BY <2>2 DEF StopWaits
      <4> QED
        BY <1>0, <2>m, <4>1, <4>2 DEF Live, At
    <3> QED
      BY <3>2, <3>3
  <2>3. CASE Remove(m, t)
    <3>1. CASE k = thr[m][t].key
      <4>1. rgt'[m][k] = NoId
        BY <2>3, <2>k, <3>1 DEF Remove, ATypes
      <4> QED
        BY <4>1 DEF Live
    <3>2. CASE k # thr[m][t].key
      <4>1. rgt'[m][k] = rgt[m][k] /\ live'[m][k] = live[m][k]
        BY <2>3, <2>k, <3>2 DEF Remove, ATypes
      <4> QED
        BY <1>0, <2>m, <3>2, <4>1 DEF Live, At
    <3> QED
      BY <3>1, <3>2
  <2>4. CASE ~(StartSet(m, t) \/ StopWaits(m, t) \/ Remove(m, t))
    <3>1. rgt' = rgt /\ live' = live
      BY <1>5, <2>4 DEF Works, WatchScalersFail, StartCheck, StartFails, StopGet, PutScaler, PutScalerFails, AskRing, AskRegistry
    <3>2. ~At(m, t, "remove")
      BY <1>5, <2>4 DEF Works, WatchScalersFail, StartCheck, StartFails, StopGet, PutScaler, PutScalerFails, AskRing, AskRegistry, At
    <3> QED
      BY <1>a, <2>m, <3>1, <3>2
  <2> QED
    BY <2>1, <2>2, <2>3, <2>4
<1> QED
  BY <1>1, <1>2, <1>3, <1>4, <1>5, Roles

\* Rebalance gives a key away only while the ring says so; if the ring has
\* changed its mind since, another reload is due.
LEMMA HandsOverStep ==
  ASSUME AIInv, Types, [ANext]_vars, NEW m \in Nodes, NEW k \in Keys
  PROVE  HandsOver(m, k)'
<1> DEFINE r == <<"reload", k>>
           Away == {"foreign", "put", "get", "stop", "remove"}
<1> USE DEF AIInv
<1>0. /\ NodeInv(m) /\ Shape(m) /\ HandsOver(m, k) /\ \A t \in Threads : Stands(m, t)
      /\ r \in Threads /\ r # Watch
  BY ThreadKinds DEF NodeInv
<1>a. ASSUME ring'[m] = ring[m], phase'[m] = phase[m] \/ phase'[m] # "select",
             thr'[m][r].at \in Away => thr[m][r].at \in Away
      PROVE  HandsOver(m, k)'
  BY <1>0, <1>a DEF HandsOver, LocalIsWorker
<1>1. CASE Stays(m)
  BY <1>1, <1>a DEF Stays
<1>2. CASE ClusterOnly(m)
  <2>1. CASE Blank(m)'
    BY <2>1, BlankHolds
  <2>2. CASE Calm(m)
    BY <1>2, <2>2, <1>a DEF Calm, ClusterOnly, scalerVars
  <2> QED
    BY <1>0, <1>2, <2>1, <2>2, Aside
<1>3. CASE Ends(m)
  BY <1>3, EndsBlank, BlankHolds
<1>4. CASE ManagerStep(m)
  <2>1. CASE RingMoves(m)
    <3>1. phase'[m] # "select"
      BY <2>1 DEF RingMoves, ApplyEvent, Types
    <3> QED
      BY <3>1 DEF HandsOver
  <2>2. CASE LoadScalers(m)
    <3>1. thr'[m][r].at \notin Away
      BY <1>0, <2>2, Loading, IdleType
    <3> QED
      BY <3>1 DEF HandsOver
  <2>3. CASE TakeEvent(m)
    <3>1. thr'[m][r] = thr[m][r]
      BY <1>0, <2>3 DEF TakeEvent, ATypes
    <3> QED
      BY <1>a, <2>3, <3>1 DEF TakeEvent, clusterVars
  <2>4. CASE Rebalance(m)
    <3>1. thr'[m][r].at \in Away => thr[m][r].at \in Away
      BY <1>0, <2>4, Rebalancing
    <3> QED
      BY <1>a, <2>4, <3>1 DEF Rebalance, clusterVars
  <2>5. CASE StopManager(m)
    <3>1. thr'[m][r] = thr[m][r]
      BY <1>0, <2>5, Saving, ThreadKinds
    <3> QED
      BY <1>a, <2>5, <3>1 DEF StopManager, clusterVars
  <2>6. CASE TakeReload(m)
    <3>1. rl[m] = "idle" /\ mgr[m] # "loading"
      BY <1>0, <2>6 DEF TakeReload, SendReload, Shape
    <3>2. At(m, r, "idle")
      BY <1>0, <3>1 DEF Stands
    <3>3. thr'[m][r].at \notin Away
      BY <2>6, <3>2 DEF TakeReload, At
    <3> QED
      BY <3>3 DEF HandsOver
  <2>7. CASE ManagerStopped(m) \/ RebalanceFails(m) \/ RebalanceDone(m)
    BY <1>a, <2>7 DEF ManagerStopped, RebalanceFails, RebalanceDone, Stop, FinishReload
  <2>8. CASE LoadScalersFails(m) \/ LoadDone(m) \/ WatchScalers(m)
    BY <1>a, <2>8 DEF LoadScalersFails, LoadDone, WatchScalers, clusterVars
  <2> QED
    BY <1>4, <2>1, <2>2, <2>3, <2>4, <2>5, <2>6, <2>7, <2>8 DEF ManagerStep
<1>5. ASSUME NEW t \in Threads, Works(m, t) PROVE HandsOver(m, k)'
  <2>0. ring' = ring /\ phase' = phase
    BY <1>5, WorkFrame
  <2>1. CASE t # r
    <3>1. thr'[m][r] = thr[m][r]
      BY <1>0, <1>5, <2>1, Turns DEF Moves, Works
    <3> QED
      BY <1>a, <2>0, <3>1
  <2>2. CASE t = r
    <3>n. ~WatchScalersFail(m, t)
      BY <1>0, <2>2 DEF WatchScalersFail
    <3>0. thr[m][r].key = k /\ thr[m][r].then \in {"idle", "check"}
      BY <1>0, <1>5, <2>2, <3>n, WorkFrame DEF Stands, ATypes, Thread
    <3>1. CASE AskRing(m, r)
      <4>1. ~LocalIsWorker(m, k) \/ thr'[m][r].at = "own"
        BY <1>5, <2>2, <3>0, <3>1, Turns DEF Moves
      <4> QED
        BY <2>0, <4>1 DEF HandsOver, LocalIsWorker
    <3>2. thr'[m][r].at \in Away /\ ~AskRing(m, r) => thr[m][r].at \in Away
      <4>1. CASE StartCheck(m, r) \/ StartSet(m, r) \/ StartFails(m, r)
        BY <1>5, <2>2, <4>1, Turns DEF Moves
      <4>2. CASE StopGet(m, r) \/ StopWaits(m, r) \/ Remove(m, r) \/ PutScaler(m, r) \/ PutScalerFails(m, r)
        BY <4>2 DEF StopGet, StopWaits, Remove, PutScaler, PutScalerFails, At
      <4>3. CASE AskRegistry(m, r)
        BY <1>5, <2>2, <4>3, Turns DEF Moves, At
      <4> QED
        BY <1>5, <2>2, <3>n, <4>1, <4>2, <4>3 DEF Works
    <3> QED
      BY <1>a, <2>0, <3>1, <3>2
  <2> QED
    BY <2>1, <2>2
<1> QED
  BY <1>1, <1>2, <1>3, <1>4, <1>5, Roles

-----------------------------------------------------------------------------
\* A new event comes last.
LEMMA AtTheEnd ==
  ASSUME NEW s \in Seq(ScalerEvent), NEW e \in ScalerEvent
  PROVE  /\ Len(s) \in Nat /\ DOMAIN s = 1 .. Len(s)
         /\ Append(s, e) \in Seq(ScalerEvent)
         /\ Len(Append(s, e)) = Len(s) + 1 /\ DOMAIN Append(s, e) = 1 .. Len(s) + 1
         /\ \A i \in 1 .. Len(s) : Append(s, e)[i] = s[i] /\ s[i] \in ScalerEvent
         /\ Append(s, e)[Len(s) + 1] = e
  OBVIOUS

\* Taking the first event moves up all others.
LEMMA MovedUp ==
  ASSUME NEW s \in Seq(ScalerEvent), s # << >>
  PROVE  /\ Len(s) \in Nat /\ Len(s) >= 1 /\ DOMAIN s = 1 .. Len(s)
         /\ Head(s) = s[1] /\ s[1] \in ScalerEvent
         /\ DOMAIN Tail(s) = 1 .. Len(s) - 1
         /\ \A i \in 1 .. Len(s) - 1 : Tail(s)[i] = s[i + 1] /\ s[i + 1] \in ScalerEvent
  OBVIOUS

\* What a new event says of its key agrees with what was stored before, so for
\* every earlier event nothing changes.
LEMMA StoredBefore ==
  ASSUME ATypes, NEW m \in Nodes, NEW e \in ScalerEvent, Sees(m, e), mgr[m] \in {"running", "stopping"},
         NEW k \in Keys, NEW i \in 1 .. Len(todo[m]) + 1
  PROVE  StoredAt(m, k, i)' <=> StoredAt(m, k, i)
<1> DEFINE L == Len(todo[m])
<1>1. todo[m] \in Seq(ScalerEvent) /\ todo'[m] = Append(todo[m], e)
  BY DEF ATypes, Sees
<1>2. /\ L \in Nat /\ DOMAIN todo[m] = 1 .. L /\ DOMAIN todo'[m] = 1 .. L + 1
      /\ \A j \in 1 .. L : todo'[m][j] = todo[m][j]
      /\ todo'[m][L + 1] = e
  BY <1>1, AtTheEnd
<1>3. /\ k # e.key => (k \in present' <=> k \in present)
      /\ k = e.key => (e.type # "create" <=> k \in present)
  BY DEF Sees, ScalerEvent
<1> HIDE DEF L
<1>i. i \in 1 .. L + 1
  BY DEF L
<1>4. ASSUME StoredAt(m, k, i) PROVE StoredAt(m, k, i)'
  <2>1. CASE \E j \in 1 .. L : /\ j >= i /\ todo[m][j].key = k /\ todo[m][j].type # "create"
                               /\ \A h \in i .. j - 1 : todo[m][h].key # k
    <3>1. PICK j \in 1 .. L : /\ j >= i /\ todo[m][j].key = k /\ todo[m][j].type # "create"
                              /\ \A h \in i .. j - 1 : todo[m][h].key # k
      BY <2>1
    <3>2. \A h \in i .. j - 1 : h \in 1 .. L
      BY <3>1, <1>2, <1>i
    <3>3. j \in 1 .. L + 1
      BY <3>1, <1>2
    <3> QED
      BY <3>1, <3>2, <3>3, <1>2 DEF StoredAt
  <2>2. CASE k \in present /\ \A j \in 1 .. L : j >= i => todo[m][j].key # k
    <3>1. CASE k = e.key
      <4>1. L + 1 \in 1 .. L + 1 /\ L + 1 >= i
        BY <1>2, <1>i
      <4>2. \A h \in i .. (L + 1) - 1 : h \in 1 .. L /\ h >= i
        BY <1>2, <1>i
      <4>3. \A h \in i .. (L + 1) - 1 : todo'[m][h].key # k
        BY <4>2, <2>2, <1>2
      <4>4. todo'[m][L + 1].key = k /\ todo'[m][L + 1].type # "create"
        BY <1>2, <1>3, <2>2, <3>1
      <4> QED
        BY <4>1, <4>3, <4>4, <1>2 DEF StoredAt
    <3>2. CASE k # e.key
      <4>1. k \in present'
        BY <1>3, <2>2, <3>2
      <4>2. \A j \in 1 .. L + 1 : j >= i => todo'[m][j].key # k
        <5> TAKE j \in 1 .. L + 1
        <5>1. j \in 1 .. L \/ j = L + 1
          BY <1>2
        <5> QED
          BY <5>1, <1>2, <2>2, <3>2
      <4> QED
        BY <4>1, <4>2, <1>2 DEF StoredAt
    <3> QED
      BY <3>1, <3>2
  <2> QED
    BY <1>2, <1>4, <2>1, <2>2 DEF StoredAt
<1>5. ASSUME StoredAt(m, k, i)' PROVE StoredAt(m, k, i)
  <2>1. CASE \E j \in 1 .. L + 1 : /\ j >= i /\ todo'[m][j].key = k /\ todo'[m][j].type # "create"
                                   /\ \A h \in i .. j - 1 : todo'[m][h].key # k
    <3>1. PICK j \in 1 .. L + 1 : /\ j >= i /\ todo'[m][j].key = k /\ todo'[m][j].type # "create"
                                  /\ \A h \in i .. j - 1 : todo'[m][h].key # k
      BY <2>1
    <3>2. CASE j = L + 1
      <4>1. k \in present
        BY <1>2, <1>3, <3>1, <3>2
      <4>2. \A h \in 1 .. L : h >= i => h \in i .. j - 1
        BY <1>2, <1>i, <3>2
      <4>3. \A h \in 1 .. L : h >= i => todo[m][h].key # k
        BY <4>2, <3>1, <1>2
      <4> QED
        BY <4>1, <4>3, <1>2 DEF StoredAt
    <3>3. CASE j # L + 1
      <4>1. j \in 1 .. L
        BY <1>2, <3>1, <3>3
      <4>2. \A h \in i .. j - 1 : h \in 1 .. L
        BY <4>1, <1>2, <1>i
      <4>3. /\ j >= i /\ todo[m][j].key = k /\ todo[m][j].type # "create"
            /\ \A h \in i .. j - 1 : todo[m][h].key # k
        BY <4>1, <4>2, <3>1, <1>2
      <4> QED
        BY <4>1, <4>3, <1>2 DEF StoredAt
    <3> QED
      BY <3>2, <3>3
  <2>2. CASE k \in present' /\ \A j \in 1 .. L + 1 : j >= i => todo'[m][j].key # k
    <3>0. L + 1 \in 1 .. L + 1 /\ L + 1 >= i
      BY <1>2, <1>i
    <3>1. k # e.key
      BY <3>0, <1>2, <2>2
    <3>2. k \in present
      BY <3>1, <1>3, <2>2
    <3>3. \A j \in 1 .. L : j \in 1 .. L + 1
      BY <1>2
    <3>4. \A j \in 1 .. L : j >= i => todo[m][j].key # k
      BY <3>3, <2>2, <1>2
    <3> QED
      BY <3>2, <3>4, <1>2 DEF StoredAt
  <2> QED
    BY <1>2, <1>5, <2>1, <2>2 DEF StoredAt
<1> QED
  BY <1>4, <1>5

\* Taking an event changes nothing for the ones behind it.
LEMMA StoredBehind ==
  ASSUME ATypes, NEW m \in Nodes, TakeEvent(m), NEW k \in Keys, NEW i \in Nat, i >= 1
  PROVE  StoredAt(m, k, i)' <=> StoredAt(m, k, i + 1)
<1> DEFINE L == Len(todo[m])
<1>1. todo[m] \in Seq(ScalerEvent) /\ todo[m] # << >> /\ todo'[m] = Tail(todo[m]) /\ present' = present
  BY DEF ATypes, TakeEvent, etcdScalers
<1>2. /\ L \in Nat /\ L >= 1 /\ DOMAIN todo[m] = 1 .. L /\ DOMAIN todo'[m] = 1 .. L - 1
      /\ \A j \in 1 .. L - 1 : todo'[m][j] = todo[m][j + 1]
  BY <1>1, MovedUp
<1> HIDE DEF L
<1>3. \A j \in 1 .. L : j >= i + 1 => j - 1 \in 1 .. L - 1 /\ j - 1 >= i /\ todo'[m][j - 1] = todo[m][j]
  <2> TAKE j \in 1 .. L
  <2> HAVE j >= i + 1
  <2>1. j - 1 \in 1 .. L - 1 /\ j - 1 >= i /\ (j - 1) + 1 = j
    BY <1>2
  <2> QED
    BY <2>1, <1>2
<1>4. \A j \in 1 .. L - 1 : j >= i => j + 1 \in 1 .. L /\ j + 1 >= i + 1 /\ todo'[m][j] = todo[m][j + 1]
  BY <1>2
<1>5. ASSUME StoredAt(m, k, i + 1) PROVE StoredAt(m, k, i)'
  <2>1. CASE \E j \in 1 .. L : /\ j >= i + 1 /\ todo[m][j].key = k /\ todo[m][j].type # "create"
                               /\ \A h \in i + 1 .. j - 1 : todo[m][h].key # k
    <3>1. PICK j \in 1 .. L : /\ j >= i + 1 /\ todo[m][j].key = k /\ todo[m][j].type # "create"
                              /\ \A h \in i + 1 .. j - 1 : todo[m][h].key # k
      BY <2>1
    <3>2. j - 1 \in 1 .. L - 1 /\ j - 1 >= i /\ todo'[m][j - 1] = todo[m][j]
      BY <1>3, <3>1
    <3>3. \A h \in i .. (j - 1) - 1 : todo'[m][h].key # k
      <4> TAKE h \in i .. (j - 1) - 1
      <4>1. h + 1 \in i + 1 .. j - 1 /\ h \in 1 .. L - 1 /\ h >= i
        BY <1>2, <3>1
      <4>2. todo'[m][h] = todo[m][h + 1]
        BY <4>1, <1>4
      <4> QED
        BY <4>1, <4>2, <3>1
    <3> QED
      BY <3>1, <3>2, <3>3, <1>2 DEF StoredAt
  <2>2. CASE k \in present /\ \A j \in 1 .. L : j >= i + 1 => todo[m][j].key # k
    <3>1. \A j \in 1 .. L - 1 : j >= i => todo'[m][j].key # k
      BY <1>4, <2>2
    <3> QED
      BY <3>1, <2>2, <1>1, <1>2 DEF StoredAt
  <2> QED
    BY <1>2, <1>5, <2>1, <2>2 DEF StoredAt
<1>6. ASSUME StoredAt(m, k, i)' PROVE StoredAt(m, k, i + 1)
  <2>1. CASE \E j \in 1 .. L - 1 : /\ j >= i /\ todo'[m][j].key = k /\ todo'[m][j].type # "create"
                                   /\ \A h \in i .. j - 1 : todo'[m][h].key # k
    <3>1. PICK j \in 1 .. L - 1 : /\ j >= i /\ todo'[m][j].key = k /\ todo'[m][j].type # "create"
                                  /\ \A h \in i .. j - 1 : todo'[m][h].key # k
      BY <2>1
    <3>2. j + 1 \in 1 .. L /\ j + 1 >= i + 1 /\ todo'[m][j] = todo[m][j + 1]
      BY <1>4, <3>1
    <3>3. \A h \in i + 1 .. (j + 1) - 1 : todo[m][h].key # k
      <4> TAKE h \in i + 1 .. (j + 1) - 1
      <4>1. h - 1 \in i .. j - 1 /\ h \in 1 .. L /\ h >= i + 1
        BY <1>2, <3>1
      <4>2. todo'[m][h - 1] = todo[m][h]
        BY <4>1, <1>3
      <4> QED
        BY <4>1, <4>2, <3>1
    <3> QED
      BY <3>1, <3>2, <3>3, <1>2 DEF StoredAt
  <2>2. CASE k \in present' /\ \A j \in 1 .. L - 1 : j >= i => todo'[m][j].key # k
    <3>1. \A j \in 1 .. L : j >= i + 1 => todo[m][j].key # k
      BY <1>3, <2>2
    <3> QED
      BY <3>1, <2>2, <1>1, <1>2 DEF StoredAt
  <2> QED
    BY <1>2, <1>6, <2>1, <2>2 DEF StoredAt
<1> QED
  BY <1>5, <1>6

\* A change in etcd keeps the events of a watch in the order of its effects.
LEMMA QueuedSees ==
  ASSUME ATypes, NEW m \in Nodes, Shape(m), Queued(m), SeesSome(m), mgr'[m] = mgr[m]
  PROVE  Queued(m)'
<1>0. PICK e \in ScalerEvent : Sees(m, e)
  BY DEF SeesSome
<1> DEFINE L == Len(todo[m])
<1>1. CASE mgr[m] \in {"running", "stopping"}
  <2>1. todo[m] \in Seq(ScalerEvent) /\ todo'[m] = Append(todo[m], e)
    BY <1>0, <1>1 DEF ATypes, Sees
  <2>2. /\ L \in Nat /\ DOMAIN todo[m] = 1 .. L /\ DOMAIN todo'[m] = 1 .. L + 1
        /\ \A j \in 1 .. L : todo'[m][j] = todo[m][j]
        /\ todo'[m][L + 1] = e
    BY <2>1, AtTheEnd
  <2> SUFFICES ASSUME NEW k \in Keys, NEW i \in 1 .. L + 1, todo'[m][i].key = k
               PROVE  todo'[m][i].type # "delete" <=> StoredAt(m, k, i + 1)'
    BY <2>2 DEF Queued
  <2>3. CASE i \in 1 .. L
    <3>1. todo[m][i].key = k /\ todo'[m][i] = todo[m][i]
      BY <2>2, <2>3
    <3>2. todo[m][i].type # "delete" <=> StoredAt(m, k, i + 1)
      BY <1>1, <2>2, <2>3, <3>1 DEF Queued
    <3>3. i + 1 \in 1 .. L + 1
      BY <2>2, <2>3
    <3>4. StoredAt(m, k, i + 1)' <=> StoredAt(m, k, i + 1)
      BY <1>0, <1>1, <3>3, StoredBefore
    <3> QED
      BY <3>1, <3>2, <3>4
  <2>4. CASE i = L + 1
    <3>1. e.key = k /\ todo'[m][i] = e
      BY <2>2, <2>4
    <3>2. \A j \in 1 .. L + 1 : ~(j >= i + 1)
      BY <2>2, <2>4
    <3>3. StoredAt(m, k, i + 1)' <=> k \in present'
      BY <2>2, <3>2 DEF StoredAt
    <3>4. e.type # "delete" <=> k \in present'
      BY <1>0, <3>1 DEF Sees
    <3> QED
      BY <3>1, <3>3, <3>4
  <2> QED
    BY <2>2, <2>3, <2>4
<1>2. CASE mgr[m] \notin {"running", "stopping"}
  <2>1. mgr[m] # "stopped" => todo'[m] = << >>
    BY <1>0, <1>2 DEF Sees, Shape, ATypes, Stages
  <2> QED
    BY <2>1 DEF Queued
<1> QED
  BY <1>1, <1>2

\* Every step keeps the events of a watch in the order of their effects.
LEMMA QueuedStep ==
  ASSUME AIInv, Types, [ANext]_vars, NEW m \in Nodes
  PROVE  Queued(m)'
<1> USE DEF AIInv
<1>0. NodeInv(m) /\ Shape(m) /\ Queued(m)
  BY DEF NodeInv
<1>a. ASSUME present' = present, todo'[m] = todo[m], mgr[m] = "stopped" => mgr'[m] = "stopped"
      PROVE  Queued(m)'
  BY <1>0, <1>a DEF Queued, StoredAt
<1>1. CASE Stays(m) /\ SeesNothing(m)
  BY <1>1, <1>a DEF Stays, SeesNothing
<1>2. CASE Stays(m) /\ SeesSome(m)
  BY <1>0, <1>2, QueuedSees DEF Stays
<1>3. CASE ClusterOnly(m)
  BY <1>3, <1>a DEF ClusterOnly, scalerVars
<1>4. CASE Ends(m)
  BY <1>4, EndsBlank, BlankHolds
<1>5. CASE ManagerStep(m)
  <2>1. CASE TakeEvent(m)
    <3>1. /\ Len(todo[m]) \in Nat /\ Len(todo[m]) >= 1 /\ DOMAIN todo[m] = 1 .. Len(todo[m])
          /\ DOMAIN todo'[m] = 1 .. Len(todo[m]) - 1
          /\ \A i \in 1 .. Len(todo[m]) - 1 : todo'[m][i] = todo[m][i + 1]
      BY <2>1, MovedUp DEF TakeEvent, ATypes
    <3> SUFFICES ASSUME NEW k \in Keys, NEW i \in 1 .. Len(todo[m]) - 1, todo'[m][i].key = k,
                        mgr'[m] # "stopped"
                 PROVE  todo'[m][i].type # "delete" <=> StoredAt(m, k, i + 1)'
      BY <3>1 DEF Queued
    <3>2. todo'[m][i] = todo[m][i + 1] /\ i + 1 \in 1 .. Len(todo[m]) /\ i + 1 \in Nat /\ i + 1 >= 1
      BY <3>1
    <3>3. mgr[m] # "stopped"
      BY <2>1 DEF TakeEvent
    <3>4. todo[m][i + 1].type # "delete" <=> StoredAt(m, k, (i + 1) + 1)
      BY <1>0, <3>1, <3>2, <3>3 DEF Queued
    <3>5. StoredAt(m, k, i + 1)' <=> StoredAt(m, k, (i + 1) + 1)
      BY <2>1, <3>2, StoredBehind
    <3> QED
      BY <3>2, <3>4, <3>5
  <2>2. CASE WatchScalers(m)
    <3>1. todo'[m] = << >>
      BY <2>2 DEF WatchScalers, ATypes
    <3> QED
      BY <3>1 DEF Queued
  <2>3. CASE ManagerStopped(m)
    <3>1. mgr'[m] = "stopped"
      BY <2>3 DEF ManagerStopped, ATypes
    <3> QED
      BY <3>1 DEF Queued
  <2>4. CASE LoadScalers(m) \/ LoadScalersFails(m) \/ LoadDone(m) \/ StopManager(m)
    <3>1. present' = present /\ todo' = todo /\ mgr[m] # "stopped"
      BY <2>4 DEF LoadScalers, LoadScalersFails, LoadDone, StopManager, RequestFails, etcdScalers
    <3> QED
      BY <1>a, <3>1
  <2>5. CASE RingMoves(m) \/ TakeReload(m) \/ Rebalance(m) \/ RebalanceFails(m) \/ RebalanceDone(m)
    <3>1. present' = present /\ todo' = todo /\ mgr' = mgr
      BY <2>5 DEF RingMoves, TakeReload, Rebalance, RebalanceFails, RebalanceDone, RequestFails, etcdScalers
    <3> QED
      BY <1>a, <3>1
  <2> QED
    BY <1>5, <2>1, <2>2, <2>3, <2>4, <2>5 DEF ManagerStep
<1>6. ASSUME NEW t \in Threads, Works(m, t) PROVE Queued(m)'
  BY <1>0, <1>6, <1>a, WorkFrame, QueuedSees
<1> QED
  BY <1>1, <1>2, <1>3, <1>4, <1>5, <1>6, Roles

\* A create event stays on its way while others follow it.
LEMMA ComingSees ==
  ASSUME ATypes, NEW m \in Nodes, NEW k \in Keys, SeesSome(m), Coming(m, k)
  PROVE  Coming(m, k)'
<1>0. PICK e \in ScalerEvent : Sees(m, e)
  BY DEF SeesSome
<1>1. CASE mgr[m] \in {"running", "stopping"}
  <2>1. todo[m] \in Seq(ScalerEvent) /\ todo'[m] = Append(todo[m], e)
    BY <1>0, <1>1 DEF ATypes, Sees
  <2>2. /\ Len(todo[m]) \in Nat /\ DOMAIN todo[m] = 1 .. Len(todo[m])
        /\ DOMAIN todo'[m] = 1 .. Len(todo[m]) + 1
        /\ \A j \in 1 .. Len(todo[m]) : todo'[m][j] = todo[m][j]
    BY <2>1, AtTheEnd
  <2>3. PICK i \in 1 .. Len(todo[m]) : Creates(m, k, i)
    BY <2>2 DEF Coming
  <2>4. i \in DOMAIN todo'[m] /\ Creates(m, k, i)'
    BY <2>2, <2>3 DEF Creates
  <2> QED
    BY <2>4 DEF Coming
<1>2. CASE mgr[m] \notin {"running", "stopping"}
  BY <1>0, <1>2 DEF Sees, Coming, Creates
<1> QED
  BY <1>1, <1>2

\* A key that the change at hand has stored anew is on its way to a watch.
LEMMA ComesToWatch ==
  ASSUME ATypes, NEW m \in Nodes, NEW k \in Keys, SeesSome(m), k \in present', k \notin present,
         mgr[m] \in {"running", "stopping"}
  PROVE  \E i \in DOMAIN todo'[m] : Creates(m, k, i)' /\ \A j \in DOMAIN todo'[m] : j # i => j < i
<1>0. PICK e \in ScalerEvent : Sees(m, e)
  BY DEF SeesSome
<1>1. todo[m] \in Seq(ScalerEvent) /\ todo'[m] = Append(todo[m], e)
  BY <1>0 DEF ATypes, Sees
<1>2. /\ Len(todo[m]) \in Nat /\ DOMAIN todo'[m] = 1 .. Len(todo[m]) + 1
      /\ todo'[m][Len(todo[m]) + 1] = e
  BY <1>1, AtTheEnd
<1>3. e = [type |-> "create", key |-> k]
  BY <1>0 DEF Sees, ScalerEvent
<1> DEFINE i == Len(todo[m]) + 1
<1>4. i \in DOMAIN todo'[m] /\ \A j \in DOMAIN todo'[m] : j # i => j < i
  BY <1>2
<1>5. todo'[m][i] = [type |-> "create", key |-> k]
  BY <1>2, <1>3
<1> HIDE DEF i
<1>6. \E j \in DOMAIN todo'[m] : todo'[m][j] = [type |-> "create", key |-> k]
                                 /\ \A h \in DOMAIN todo'[m] : h # j => h < j
  BY <1>4, <1>5
<1> QED
  BY <1>6 DEF Creates

\* A change in etcd keeps every delete that no longer counts before its create.
LEMMA DeletesSees ==
  ASSUME ATypes, NEW m \in Nodes, NodeInv(m), NEW k \in Keys, SeesSome(m), mgr'[m] = mgr[m],
         thr'[m][Watch] = thr[m][Watch]
  PROVE  Deletes(m, k)'
<1>0. PICK e \in ScalerEvent : Sees(m, e)
  BY DEF SeesSome
<1>a. Shape(m) /\ Stands(m, Watch) /\ Deletes(m, k)
  BY ThreadKinds DEF NodeInv
<1> DEFINE L == Len(todo[m])
<1> SUFFICES ASSUME k \in present', mgr[m] # "stopped"
             PROVE  /\ \A i \in DOMAIN todo'[m] : todo'[m][i] = [type |-> "delete", key |-> k] =>
                         \E j \in DOMAIN todo'[m] : j > i /\ Creates(m, k, j)'
                    /\ Dropping(m, k) => Coming(m, k)'
  BY DEF Deletes, Dropping
<1>1. CASE mgr[m] \in {"running", "stopping"}
  <2>1. todo[m] \in Seq(ScalerEvent) /\ todo'[m] = Append(todo[m], e)
    BY <1>0, <1>1 DEF ATypes, Sees
  <2>2. /\ L \in Nat /\ DOMAIN todo[m] = 1 .. L /\ DOMAIN todo'[m] = 1 .. L + 1
        /\ \A j \in 1 .. L : todo'[m][j] = todo[m][j]
        /\ todo'[m][L + 1] = e
    BY <2>1, AtTheEnd
  <2>3. CASE k \in present
    <3>1. Dropping(m, k) => Coming(m, k)'
      BY <1>a, <2>3, ComingSees DEF Deletes
    <3>2. ASSUME NEW i \in 1 .. L + 1, todo'[m][i] = [type |-> "delete", key |-> k]
          PROVE  \E j \in 1 .. L + 1 : j > i /\ Creates(m, k, j)'
      <4>1. i # L + 1
        <5>1. e # [type |-> "delete", key |-> k]
          BY <1>0 DEF Sees
        <5> QED
          BY <5>1, <2>2, <3>2
      <4>2. i \in 1 .. L /\ todo[m][i] = [type |-> "delete", key |-> k]
        BY <2>2, <3>2, <4>1
      <4>3. PICK j \in 1 .. L : j > i /\ Creates(m, k, j)
        BY <1>a, <2>2, <2>3, <4>2 DEF Deletes
      <4>4. j \in 1 .. L + 1 /\ Creates(m, k, j)'
        BY <2>2, <4>3 DEF Creates
      <4> QED
        BY <4>3, <4>4
    <3> QED
      BY <2>2, <3>1, <3>2
  <2>4. CASE k \notin present
    <3>1. PICK i \in DOMAIN todo'[m] : Creates(m, k, i)' /\ \A j \in DOMAIN todo'[m] : j # i => j < i
      BY <1>1, <2>4, ComesToWatch
    <3>2. Coming(m, k)'
      BY <3>1 DEF Coming
    <3>3. todo'[m][i].type = "create"
      BY <3>1 DEF Creates
    <3>4. \A j \in DOMAIN todo'[m] : todo'[m][j] = [type |-> "delete", key |-> k] => i > j
      <4> TAKE j \in DOMAIN todo'[m]
      <4> HAVE todo'[m][j] = [type |-> "delete", key |-> k]
      <4>1. j # i
        BY <3>3
      <4> QED
        BY <2>2, <3>1, <4>1
    <3> QED
      BY <3>1, <3>2, <3>4
  <2> QED
    BY <2>3, <2>4
<1>2. CASE mgr[m] \notin {"running", "stopping"}
  <2>1. todo'[m] = << >>
    BY <1>0, <1>2, <1>a DEF Sees, Shape, ATypes, Stages
  <2>2. ~Dropping(m, k)
    BY <1>2, <1>a, ThreadKinds DEF Stands, Dropping, At, ATypes, Stages
  <2> QED
    BY <2>1, <2>2
<1> QED
  BY <1>1, <1>2

\* Every step keeps deletes that no longer count before their creates.
LEMMA DeletesStep ==
  ASSUME AIInv, Types, [ANext]_vars, NEW m \in Nodes, NEW k \in Keys
  PROVE  Deletes(m, k)'
<1> USE DEF AIInv
<1>0. NodeInv(m) /\ Shape(m) /\ Deletes(m, k) /\ \A t \in Threads : Stands(m, t)
  BY DEF NodeInv
<1>a. ASSUME present' = present, todo'[m] = todo[m], mgr[m] = "stopped" => mgr'[m] = "stopped",
             Dropping(m, k)' => Dropping(m, k)
      PROVE  Deletes(m, k)'
  BY <1>0, <1>a DEF Deletes, Coming, Creates
<1>b. thr'[m][Watch] = thr[m][Watch] => (Dropping(m, k)' => Dropping(m, k))
  BY DEF Dropping
<1>1. CASE Stays(m) /\ SeesNothing(m)
  BY <1>1, <1>a, <1>b DEF Stays, SeesNothing
<1>2. CASE Stays(m) /\ SeesSome(m)
  BY <1>0, <1>2, DeletesSees DEF Stays
<1>3. CASE ClusterOnly(m)
  BY <1>3, <1>a, <1>b DEF ClusterOnly, scalerVars
<1>4. CASE Ends(m)
  BY <1>4, EndsBlank, BlankHolds
<1>5. CASE ManagerStep(m)
  <2>1. CASE TakeEvent(m)
    <3>1. /\ Len(todo[m]) \in Nat /\ Len(todo[m]) >= 1 /\ DOMAIN todo[m] = 1 .. Len(todo[m])
          /\ DOMAIN todo'[m] = 1 .. Len(todo[m]) - 1
          /\ \A i \in 1 .. Len(todo[m]) - 1 : todo'[m][i] = todo[m][i + 1]
          /\ Head(todo[m]) = todo[m][1] /\ todo[m][1] \in ScalerEvent
      BY <2>1, MovedUp DEF TakeEvent, ATypes
    <3>2. present' = present /\ mgr' = mgr /\ mgr[m] # "stopped"
          /\ thr'[m][Watch] = Handling(m, todo[m][1])
      BY <2>1, <3>1, ThreadKinds DEF TakeEvent, etcdScalers, ATypes
    <3>3. ASSUME NEW j \in 1 .. Len(todo[m]), j > 1, Creates(m, k, j)
          PROVE  j - 1 \in DOMAIN todo'[m] /\ Creates(m, k, j - 1)'
      <4>1. j - 1 \in 1 .. Len(todo[m]) - 1 /\ (j - 1) + 1 = j
        BY <3>1, <3>3
      <4> QED
        BY <4>1, <3>1, <3>3 DEF Creates
    <3> SUFFICES ASSUME k \in present
                 PROVE  /\ \A i \in DOMAIN todo'[m] : todo'[m][i] = [type |-> "delete", key |-> k] =>
                             \E j \in DOMAIN todo'[m] : j > i /\ Creates(m, k, j)'
                        /\ Dropping(m, k)' => Coming(m, k)'
      BY <3>2 DEF Deletes
    <3>4. ASSUME NEW i \in DOMAIN todo'[m], todo'[m][i] = [type |-> "delete", key |-> k]
          PROVE  \E j \in DOMAIN todo'[m] : j > i /\ Creates(m, k, j)'
      <4>1. i + 1 \in DOMAIN todo[m] /\ todo[m][i + 1] = [type |-> "delete", key |-> k] /\ i \in Nat
        BY <3>1, <3>4
      <4>2. PICK j \in DOMAIN todo[m] : j > i + 1 /\ Creates(m, k, j)
        BY <1>0, <3>2, <4>1 DEF Deletes
      <4>3. j \in 1 .. Len(todo[m]) /\ j > 1 /\ j - 1 > i
        BY <3>1, <4>1, <4>2
      <4> QED
        BY <3>3, <4>2, <4>3
    <3>5. ASSUME Dropping(m, k)' PROVE Coming(m, k)'
      <4>1. todo[m][1].type = "delete" /\ todo[m][1].key = k
        <5>1. Handling(m, todo[m][1]).at = "get" /\ Handling(m, todo[m][1]).key = k
              /\ Handling(m, todo[m][1]).then = "idle"
          BY <3>2, <3>5, IdleType DEF Dropping, Handling
        <5>2. todo[m][1].type # "create"
          BY <5>1 DEF Handling
        <5>3. rgt[m][todo[m][1].key] # NoId
          BY <5>1, <5>2, IdleType DEF Handling
        <5>4. Handling(m, todo[m][1]).key = todo[m][1].key
              /\ (todo[m][1].type = "modify" => Handling(m, todo[m][1]).then = "check")
          BY <5>2, <5>3 DEF Handling
        <5> QED
          BY <3>1, <5>1, <5>2, <5>4 DEF ScalerEvent
      <4>2. todo[m][1] = [type |-> "delete", key |-> k] /\ 1 \in DOMAIN todo[m]
        BY <3>1, <4>1 DEF ScalerEvent
      <4>3. PICK j \in DOMAIN todo[m] : j > 1 /\ Creates(m, k, j)
        BY <1>0, <3>2, <4>2 DEF Deletes
      <4> QED
        BY <3>1, <3>3, <4>3 DEF Coming
    <3> QED
      BY <3>4, <3>5
  <2>2. CASE WatchScalers(m)
    <3>1. todo'[m] = todo[m] /\ present' = present /\ thr' = thr /\ mgr[m] # "stopped"
      BY <1>0, <2>2 DEF WatchScalers, etcdScalers, Shape, ATypes
    <3> QED
      BY <1>a, <1>b, <3>1
  <2>3. CASE ManagerStopped(m)
    <3>1. mgr'[m] = "stopped"
      BY <2>3 DEF ManagerStopped, ATypes
    <3> QED
      BY <3>1 DEF Deletes
  <2>4. CASE LoadScalers(m)
    <3>1. present' = present /\ todo' = todo /\ mgr[m] # "stopped"
      BY <2>4 DEF LoadScalers
    <3>2. thr'[m][Watch] = Idle
      <4>1. Watch \in Threads /\ \A j \in Keys : <<"reload", j>> # Watch
        BY ThreadKinds
      <4>2. \A j \in present : <<"reload", j>> # Watch
        BY <4>1 DEF ATypes
      <4> QED
        BY <2>4, <4>1, <4>2, Loading
    <3>3. ~Dropping(m, k)'
      BY <3>2, IdleType DEF Dropping
    <3> QED
      BY <1>a, <3>1, <3>3
  <2>5. CASE Rebalance(m)
    <3>1. present' = present /\ todo' = todo /\ mgr' = mgr
      BY <2>5 DEF Rebalance, etcdScalers
    <3>2. thr'[m][Watch] = thr[m][Watch]
      <4>1. Watch \in Threads /\ \A j \in Keys : <<"reload", j>> # Watch
        BY ThreadKinds
      <4>2. \A j \in present : <<"reload", j>> # Watch
        BY <4>1 DEF ATypes
      <4> QED
        BY <2>5, <4>1, <4>2, Rebalancing
    <3> QED
      BY <1>a, <1>b, <3>1, <3>2
  <2>6. CASE StopManager(m)
    <3>1. present' = present /\ todo' = todo /\ mgr[m] # "stopped"
      BY <2>6 DEF StopManager
    <3>2. thr'[m][Watch] = thr[m][Watch]
      <4>1. Watch \in Threads /\ \A j \in Keys : <<"save", j>> # Watch
        BY ThreadKinds
      <4> QED
        BY <2>6, <4>1, Saving
    <3> QED
      BY <1>a, <1>b, <3>1, <3>2
  <2>7. CASE \/ LoadScalersFails(m) \/ LoadDone(m)
             \/ RingMoves(m) \/ TakeReload(m) \/ RebalanceFails(m) \/ RebalanceDone(m)
    <3>1. present' = present /\ todo' = todo /\ thr' = thr /\ (mgr[m] # "stopped" \/ mgr' = mgr)
      BY <2>7 DEF LoadScalersFails, LoadDone, RingMoves, TakeReload, RebalanceFails, RebalanceDone,
         RequestFails, etcdScalers
    <3> QED
      BY <1>a, <1>b, <3>1
  <2> QED
    BY <1>5, <2>1, <2>2, <2>3, <2>4, <2>5, <2>6, <2>7 DEF ManagerStep
<1>6. ASSUME NEW t \in Threads, Works(m, t) PROVE Deletes(m, k)'
  <2>0. mgr' = mgr
    BY <1>6, WorkFrame
  <2>1. CASE PutScaler(m, t)
    <3>1. t # Watch
      BY <1>0, <2>1 DEF PutScaler, Stands, At
    <3>2. thr'[m][Watch] = thr[m][Watch]
      BY <1>6, <3>1, Turns, ThreadKinds DEF Moves, Works
    <3> QED
      BY <1>0, <1>6, <2>0, <2>1, <3>2, WorkFrame, DeletesSees
  <2>2. CASE ~PutScaler(m, t)
    <3>1. CASE t # Watch
      <4>1. thr'[m][Watch] = thr[m][Watch]
        BY <1>6, <3>1, Turns, ThreadKinds DEF Moves, Works
      <4> QED
        BY <1>6, <1>a, <1>b, <2>0, <2>2, <4>1, WorkFrame
    <3>2. CASE t = Watch
      <4>1. Dropping(m, k)' => Dropping(m, k)
        <5>0. thr[m][t].then \in {"idle", "check"}
          BY DEF ATypes, Thread
        <5>1. CASE StopGet(m, t) \/ StopWaits(m, t) \/ Remove(m, t)
          <6>1. At(m, t, "get") \/ At(m, t, "stop") \/ At(m, t, "remove")
            BY <5>1 DEF StopGet, StopWaits, Remove
          <6>2. \E l \in Places : Moves(m, t, l) /\ l \in {"idle", "check", "stop", "remove"}
            BY <1>6, <5>0, <5>1, Turns DEF Places
          <6> QED
            BY <3>2, <6>1, <6>2 DEF Moves, Dropping, At
        <5>2. CASE StartCheck(m, t) \/ StartSet(m, t) \/ StartFails(m, t)
          <6>1. thr'[m][t].at \in {"idle", "backend"}
            BY <1>6, <5>2, Turns DEF Moves
          <6> QED
            BY <3>2, <6>1 DEF Dropping
        <5>3. CASE PutScalerFails(m, t) \/ AskRing(m, t) \/ AskRegistry(m, t)
          BY <1>0, <3>2, <5>3 DEF PutScalerFails, AskRing, AskRegistry, Stands, At
        <5>4. CASE WatchScalersFail(m, t)
          BY <1>6, <3>2, <5>4, Turns DEF Moves, Dropping
        <5> QED
          BY <1>6, <2>2, <5>1, <5>2, <5>3, <5>4 DEF Works
      <4> QED
        BY <1>6, <1>a, <2>0, <2>2, <4>1, WorkFrame
    <3> QED
      BY <3>1, <3>2
  <2> QED
    BY <2>1, <2>2
<1> QED
  BY <1>1, <1>2, <1>3, <1>4, <1>5, <1>6, Roles

-----------------------------------------------------------------------------
\* Where a scaler of the node's own key is, if it is anywhere.
Found(n, k) == rgt[n][k] # NoId \/ Coming(n, k) \/ Due(n) \/ Starting(n, k)

\* That node n has to see to k.
Concerns(n, k) ==
  /\ mgr[n] \in {"loading", "loaded", "running"} /\ ~smissed[n]
  /\ k \in present /\ LocalIsWorker(n, k)

\* A step that leaves the goroutines and the registry alone loses no scaler.
LEMMA OwnedKept ==
  ASSUME ATypes, NEW m \in Nodes, NEW k \in Keys, Owned(m, k),
         Concerns(m, k)' => Concerns(m, k) /\ phase'[m] = phase[m] /\ (rl[m] = "get" => rl'[m] = "get"),
         rgt'[m] = rgt[m], Coming(m, k) => Coming(m, k)', Starting(m, k) => Starting(m, k)'
  PROVE  Owned(m, k)'
<1> SUFFICES ASSUME Concerns(m, k)' PROVE Found(m, k)'
  BY DEF Owned, Concerns, Found
<1>1. Concerns(m, k) /\ phase'[m] = phase[m] /\ (rl[m] = "get" => rl'[m] = "get")
  OBVIOUS
<1>2. Found(m, k)
  BY <1>1 DEF Owned, Concerns, Found
<1>3. Due(m) => Due(m)'
  BY <1>1 DEF Due
<1> QED
  BY <1>2, <1>3 DEF Found

\* A change in etcd that stores a key of the node is on its way to the watch, or
\* the node knows that it missed one.
LEMMA OwnedSees ==
  ASSUME ATypes, NEW m \in Nodes, NEW k \in Keys, Owned(m, k), SeesSome(m),
         ring'[m] = ring[m], phase'[m] = phase[m], mgr'[m] = mgr[m], rl'[m] = rl[m], rgt'[m] = rgt[m],
         Starting(m, k) => Starting(m, k)'
  PROVE  Owned(m, k)'
<1>1. Coming(m, k) => Coming(m, k)'
  BY ComingSees
<1>2. smissed'[m] = (smissed[m] \/ mgr[m] \in {"loading", "loaded"})
  BY DEF SeesSome, Sees
<1>3. CASE k \in present' /\ k \notin present /\ mgr[m] = "running"
  <2>1. Coming(m, k)'
    BY <1>3, ComesToWatch DEF Coming
  <2> QED
    BY <2>1 DEF Owned
<1>4. CASE ~(k \in present' /\ k \notin present /\ mgr[m] = "running")
  <2>1. Concerns(m, k)' => Concerns(m, k)
    BY <1>2, <1>4 DEF Concerns, LocalIsWorker
  <2> QED
    BY <1>1, <2>1, OwnedKept
<1> QED
  BY <1>3, <1>4

\* Every step keeps a stored key of a node registered there or on the way.
LEMMA OwnedStep ==
  ASSUME AIInv, Types, [ANext]_vars, NEW m \in Nodes, NEW k \in Keys
  PROVE  Owned(m, k)'
<1> DEFINE r == <<"reload", k>>
<1> USE DEF AIInv
<1>0. /\ NodeInv(m) /\ Shape(m) /\ Owned(m, k) /\ HandsOver(m, k) /\ Deletes(m, k)
      /\ \A t \in Threads : Stands(m, t)
  BY DEF NodeInv
<1>t. r \in Threads /\ Watch \in Threads /\ r # Watch
  BY ThreadKinds
<1>l. ring'[m] = ring[m] => (LocalIsWorker(m, k)' <=> LocalIsWorker(m, k))
  BY DEF LocalIsWorker
<1>c. todo'[m] = todo[m] /\ Coming(m, k) => Coming(m, k)'
  BY DEF Coming, Creates
<1>s. thr'[m][r] = thr[m][r] /\ thr'[m][Watch] = thr[m][Watch] /\ Starting(m, k) => Starting(m, k)'
  BY DEF Starting
<1>f. ASSUME Found(m, k)' PROVE Owned(m, k)'
  BY <1>f DEF Owned, Found
<1>n. ASSUME ~Concerns(m, k)' PROVE Owned(m, k)'
  BY <1>n DEF Owned, Concerns
<1>1. CASE Stays(m) /\ SeesNothing(m)
  BY <1>0, <1>1, <1>c, <1>s, <1>l, OwnedKept DEF Stays, SeesNothing, Concerns
<1>2. CASE Stays(m) /\ SeesSome(m)
  BY <1>0, <1>2, <1>s, OwnedSees DEF Stays
<1>3. CASE ClusterOnly(m)
  <2>1. CASE Blank(m)'
    BY <2>1, BlankHolds
  <2>2. CASE Calm(m) /\ phase'[m] = phase[m]
    BY <1>0, <1>3, <1>c, <1>s, <1>l, <2>2, OwnedKept DEF Calm, ClusterOnly, scalerVars, Concerns
  <2>3. CASE Calm(m) /\ phase'[m] = "apply"
    BY <1>f, <2>3 DEF Found, Due
  <2> QED
    BY <1>0, <1>3, <2>1, <2>2, <2>3, Aside DEF Calm
<1>4. CASE Ends(m)
  BY <1>4, EndsBlank, BlankHolds
<1>5. CASE ManagerStep(m)
  <2>1. CASE TakeEvent(m)
    <3>1. /\ Len(todo[m]) \in Nat /\ Len(todo[m]) >= 1 /\ DOMAIN todo[m] = 1 .. Len(todo[m])
          /\ DOMAIN todo'[m] = 1 .. Len(todo[m]) - 1
          /\ \A i \in 1 .. Len(todo[m]) - 1 : todo'[m][i] = todo[m][i + 1]
          /\ Head(todo[m]) = todo[m][1] /\ todo[m][1] \in ScalerEvent
      BY <2>1, MovedUp DEF TakeEvent, ATypes
    <3>2. UNCHANGED <<present, smissed, mgr, ring, phase, rl, rgt>>
      BY <2>1 DEF TakeEvent, etcdScalers, clusterVars
    <3>3. thr'[m][Watch] = Handling(m, todo[m][1]) /\ thr'[m][r] = thr[m][r] /\ thr[m][Watch].at = "idle"
      BY <2>1, <1>t, <3>1 DEF TakeEvent, ATypes, At
    <3>4. Starting(m, k) => Starting(m, k)'
      BY <3>3 DEF Starting
    <3>5. CASE Coming(m, k)
      <4>1. PICK i \in 1 .. Len(todo[m]) : Creates(m, k, i)
        BY <3>1, <3>5 DEF Coming
      <4>2. CASE i = 1
        <5>1. todo[m][1].type = "create" /\ todo[m][1].key = k
          BY <4>1, <4>2 DEF Creates
        <5>2. Handling(m, todo[m][1]).at = "check" /\ Handling(m, todo[m][1]).key = k
          BY <5>1 DEF Handling
        <5>3. Starting(m, k)'
          BY <3>3, <5>2 DEF Starting
        <5> QED
          BY <1>f, <5>3 DEF Found
      <4>3. CASE i # 1
        <5>1. i - 1 \in 1 .. Len(todo[m]) - 1 /\ (i - 1) + 1 = i
          BY <3>1, <4>1, <4>3
        <5>2. i - 1 \in DOMAIN todo'[m] /\ Creates(m, k, i - 1)'
          BY <3>1, <4>1, <5>1 DEF Creates
        <5> QED
          BY <1>f, <5>2 DEF Found, Coming
      <4> QED
        BY <4>2, <4>3
    <3>6. CASE ~Coming(m, k)
      BY <1>0, <1>l, <3>2, <3>4, <3>6, OwnedKept DEF Concerns
    <3> QED
      BY <3>5, <3>6
  <2>2. CASE RingMoves(m)
    <3>1. phase'[m] # "select"
      BY <2>2 DEF RingMoves, ApplyEvent, Types
    <3> QED
      BY <1>f, <3>1 DEF Found, Due
  <2>3. CASE LoadScalers(m)
    <3>1. present' = present
      BY <2>3 DEF LoadScalers
    <3>2. CASE k \in present
      <4>1. thr'[m][r].at = "check"
        BY <2>3, <3>2, Loading
      <4> QED
        BY <1>f, <4>1 DEF Found, Starting
    <3>3. CASE k \notin present
      BY <1>n, <3>1, <3>3 DEF Concerns
    <3> QED
      BY <3>2, <3>3
  <2>4. CASE LoadScalersFails(m) \/ RebalanceFails(m)
    <3>1. smissed'[m]
      BY <2>4 DEF LoadScalersFails, RebalanceFails, RequestFails, ATypes
    <3> QED
      BY <1>n, <3>1 DEF Concerns
  <2>5. CASE LoadDone(m) \/ WatchScalers(m)
    <3>1. UNCHANGED <<present, smissed, ring, phase, rl, rgt, thr>>
      BY <2>5 DEF LoadDone, WatchScalers, etcdScalers, clusterVars
    <3>2. mgr[m] \in {"loading", "loaded"} /\ todo'[m] = todo[m]
      BY <1>0, <2>5 DEF LoadDone, WatchScalers, Shape, ATypes
    <3> QED
      BY <1>0, <1>c, <1>s, <1>l, <3>1, <3>2, OwnedKept DEF Concerns
  <2>6. CASE TakeReload(m)
    <3>1. rl'[m] = "get"
      BY <2>6 DEF TakeReload, ATypes
    <3> QED
      BY <1>f, <3>1 DEF Found, Due
  <2>7. CASE Rebalance(m)
    <3>1. present' = present
      BY <2>7 DEF Rebalance, etcdScalers
    <3>2. CASE k \in present
      <4>1. thr'[m][r].at = "ring"
        BY <2>7, <3>2, Rebalancing
      <4> QED
        BY <1>f, <4>1 DEF Found, Starting
    <3>3. CASE k \notin present
      BY <1>n, <3>1, <3>3 DEF Concerns
    <3> QED
      BY <3>2, <3>3
  <2>8. CASE RebalanceDone(m)
    <3>1. UNCHANGED <<present, smissed, ring, phase, mgr, todo, rgt, thr>> /\ rl[m] = "wait"
      BY <2>8 DEF RebalanceDone, FinishReload
    <3> QED
      BY <1>0, <1>c, <1>s, <1>l, <3>1, OwnedKept DEF Concerns
  <2>9. CASE StopManager(m) \/ ManagerStopped(m)
    <3>1. mgr'[m] \in {"stopping", "stopped"}
      BY <2>9 DEF StopManager, ManagerStopped, ATypes
    <3> QED
      BY <1>n, <3>1 DEF Concerns
  <2> QED
    BY <1>5, <2>1, <2>2, <2>3, <2>4, <2>5, <2>6, <2>7, <2>8, <2>9 DEF ManagerStep
<1>6. ASSUME NEW t \in Threads, Works(m, t) PROVE Owned(m, k)'
  <2>0. UNCHANGED <<ring, phase, mgr, rl>> /\ (~At(m, t, "idle") \/ WatchScalersFail(m, t))
    BY <1>6, WorkFrame
  <2>m. \A u \in Threads : u # t => thr'[m][u] = thr[m][u]
    BY <1>6, Turns DEF Moves, Works
  <2>k. /\ thr[m][t].key \in Keys /\ thr[m][t].then \in {"idle", "check"}
        /\ t = r => thr[m][t].key = k
    BY <1>0, <1>t, <2>0 DEF ATypes, Thread, Stands, WatchScalersFail
  <2>e. ~PutScaler(m, t) => present' = present /\ todo' = todo /\ (smissed[m] => smissed'[m])
    BY <1>6, WorkFrame
  <2>a. ASSUME ~PutScaler(m, t), rgt'[m] = rgt[m], Starting(m, k) => Starting(m, k)'
        PROVE  Owned(m, k)'
    BY <1>0, <1>c, <1>l, <2>0, <2>a, <2>e, OwnedKept DEF Concerns
  <2>s. thr[m][t].at \in {"put", "foreign"} \/ (t # r /\ t # Watch) \/ (t = Watch /\ thr[m][t].key # k)
          => (Starting(m, k) => Starting(m, k)')
    <3>1. CASE t # r /\ t # Watch
      BY <1>s, <1>t, <2>m, <3>1
    <3>2. CASE t = r /\ thr[m][t].at \in {"put", "foreign"}
      <4>1. thr'[m][Watch] = thr[m][Watch]
        BY <1>t, <2>m, <3>2
      <4> QED
        BY <3>2, <4>1 DEF Starting
    <3>3. CASE t = Watch /\ (thr[m][t].at \in {"put", "foreign"} \/ thr[m][t].key # k)
      <4>1. thr'[m][r] = thr[m][r]
        BY <1>t, <2>m, <3>3
      <4> QED
        BY <3>3, <4>1 DEF Starting
    <3> QED
      BY <3>1, <3>2, <3>3
  <2>p. ASSUME t = r \/ (t = Watch /\ thr[m][t].key = k),
               NEW l \in {"check", "backend", "own"}, Moves(m, t, l), t = Watch => l # "own"
        PROVE  Starting(m, k)'
    BY <2>p, <2>k DEF Moves, Starting
  <2>1. CASE StartCheck(m, t)
    <3>0. rgt' = rgt /\ ~PutScaler(m, t)
      BY <2>1 DEF StartCheck, PutScaler, At
    <3>1. CASE t = r \/ (t = Watch /\ thr[m][t].key = k)
      <4>1. CASE LocalIsWorker(m, k)
        <5>1. Moves(m, t, "backend")
          BY <1>6, <2>1, <2>k, <3>1, <4>1, Turns
        <5> QED
          BY <1>f, <2>p, <3>1, <5>1 DEF Found
      <4>2. CASE ~LocalIsWorker(m, k)
        BY <1>l, <1>n, <2>0, <4>2 DEF Concerns
      <4> QED
        BY <4>1, <4>2
    <3>2. CASE ~(t = r \/ (t = Watch /\ thr[m][t].key = k))
      BY <2>a, <2>s, <3>0, <3>2
    <3> QED
      BY <3>1, <3>2
  <2>2. CASE StartSet(m, t)
    <3> DEFINE j == thr[m][t].key
               used == live[m][j] \union {rgt[m][j]} \union {thr[m][u].id : u \in Threads}
               i == CHOOSE x \in Ids \ used : TRUE
    <3>0. ~PutScaler(m, t)
      BY <2>2 DEF StartSet, PutScaler, At
    <3>1. i \in Ids /\ rgt' = [rgt EXCEPT ![m][j] = i]
      BY <2>2 DEF StartSet
    <3>2. i # NoId
      BY <3>1, AutoscalerAssumption
    <3> HIDE DEF i
    <3>3. CASE j = k
      <4>1. rgt'[m][k] # NoId
        BY <2>k, <3>1, <3>2, <3>3 DEF ATypes
      <4> QED
        BY <1>f, <4>1 DEF Found
    <3>4. CASE j # k
      <4>1. rgt'[m][k] = rgt[m][k]
        BY <2>k, <3>1, <3>4 DEF ATypes
      <4>2. Starting(m, k) => Starting(m, k)'
        BY <2>k, <2>s, <3>4
      <4>3. Concerns(m, k)' => Concerns(m, k)
        BY <1>l, <2>0, <2>e, <3>0 DEF Concerns
      <4>4. Coming(m, k) => Coming(m, k)'
        BY <1>c, <2>e, <3>0
      <4>5. Due(m) => Due(m)'
        BY <2>0 DEF Due
      <4> QED
        BY <1>0, <1>f, <1>n, <4>1, <4>2, <4>3, <4>4, <4>5 DEF Owned, Concerns, Found
    <3> QED
      BY <3>3, <3>4
  <2>3. CASE StartFails(m, t) \/ PutScalerFails(m, t)
    <3>1. smissed'[m]
      BY <2>3 DEF StartFails, PutScalerFails, RequestFails, ATypes
    <3> QED
      BY <1>n, <3>1 DEF Concerns
  <2>4. CASE StopGet(m, t)
    <3>0. rgt' = rgt /\ ~PutScaler(m, t) /\ thr[m][t].at = "get"
      BY <2>4 DEF StopGet, PutScaler, At
    <3>1. CASE t = Watch /\ thr[m][t].key = k /\ thr[m][t].then = "check"
      <4>1. \E l \in {"stop", "check"} : Moves(m, t, l)
        BY <1>6, <2>4, <3>1, Turns
      <4>2. Starting(m, k)'
        BY <3>1, <4>1 DEF Moves, Starting
      <4> QED
        BY <1>f, <4>2 DEF Found
    <3>2. CASE t = Watch /\ thr[m][t].key = k /\ thr[m][t].then # "check"
      <4>1. thr'[m][r] = thr[m][r]
        BY <1>t, <2>m, <3>2
      <4>2. Starting(m, k) => Starting(m, k)'
        BY <3>0, <3>2, <4>1 DEF Starting
      <4> QED
        BY <2>a, <3>0, <4>2
    <3>3. CASE t = r
      <4>1. thr'[m][Watch] = thr[m][Watch]
        BY <1>t, <2>m, <3>3
      <4>2. Starting(m, k) => Starting(m, k)'
        BY <3>0, <3>3, <4>1 DEF Starting
      <4> QED
        BY <2>a, <3>0, <4>2
    <3>4. CASE t # r /\ (t # Watch \/ thr[m][t].key # k)
      BY <2>a, <2>s, <3>0, <3>4
    <3> QED
      BY <3>1, <3>2, <3>3, <3>4
  <2>5. CASE StopWaits(m, t)
    <3>0. rgt' = rgt /\ ~PutScaler(m, t) /\ thr[m][t].at = "stop" /\ Moves(m, t, "remove")
      BY <1>6, <2>5, Turns DEF StopWaits, PutScaler, At
    <3>1. CASE t = Watch
      <4>1. thr'[m][r] = thr[m][r]
        BY <1>t, <2>m, <3>1
      <4>2. Starting(m, k) => Starting(m, k)'
        BY <3>0, <3>1, <4>1 DEF Moves, Starting
      <4> QED
        BY <2>a, <3>0, <4>2
    <3>2. CASE t = r
      <4>1. thr'[m][Watch] = thr[m][Watch]
        BY <1>t, <2>m, <3>2
      <4>2. Starting(m, k) => Starting(m, k)'
        BY <3>0, <3>2, <4>1 DEF Starting
      <4> QED
        BY <2>a, <3>0, <4>2
    <3>3. CASE t # r /\ t # Watch
      BY <2>a, <2>s, <3>0, <3>3
    <3> QED
      BY <3>1, <3>2, <3>3
  <2>6. CASE Remove(m, t)
    <3>0. /\ ~PutScaler(m, t) /\ thr[m][t].at = "remove" /\ Moves(m, t, thr[m][t].then)
          /\ rgt' = [rgt EXCEPT ![m][thr[m][t].key] = NoId]
      BY <1>6, <2>6, Turns DEF Remove, PutScaler, At
    <3>1. CASE thr[m][t].key = k
      <4>1. CASE t = Watch /\ thr[m][t].then = "check"
        <5>1. Starting(m, k)'
          BY <2>p, <3>0, <3>1, <4>1
        <5> QED
          BY <1>f, <5>1 DEF Found
      <4>2. CASE t = Watch /\ thr[m][t].then = "idle"
        <5>1. Dropping(m, k)
          BY <3>0, <3>1, <4>2 DEF Dropping
        <5>2. Concerns(m, k)' => Coming(m, k)
          BY <1>0, <2>0, <2>e, <3>0, <5>1 DEF Concerns, Deletes
        <5> QED
          BY <1>c, <1>f, <1>n, <2>e, <3>0, <5>2 DEF Found
      <4>3. CASE t = r
        <5>1. LocalIsWorker(m, k) => phase[m] # "select"
          BY <1>0, <3>0, <4>3 DEF HandsOver
        <5>2. Concerns(m, k)' => Due(m)'
          BY <1>l, <2>0, <5>1 DEF Concerns, Due
        <5> QED
          BY <1>f, <1>n, <5>2 DEF Found
      <4>4. CASE t # Watch /\ t # r
        <5>1. PICK j \in Keys : t = <<"reload", j>> \/ t = <<"save", j>>
          BY <4>4, ThreadKinds
        <5>0. ~At(m, t, "idle")
          BY <2>0, <4>4 DEF WatchScalersFail
        <5>2. thr[m][t].key = j /\ (t = <<"save", j>> => mgr[m] = "stopping")
          BY <1>0, <5>0, <5>1 DEF Stands
        <5>3. mgr[m] = "stopping"
          BY <3>1, <4>4, <5>1, <5>2
        <5> QED
          BY <1>n, <2>0, <5>3 DEF Concerns
      <4> QED
        BY <2>k, <4>1, <4>2, <4>3, <4>4
    <3>2. CASE thr[m][t].key # k
      <4>1. rgt'[m][k] = rgt[m][k]
        BY <2>k, <3>0, <3>2 DEF ATypes
      <4>2. Starting(m, k) => Starting(m, k)'
        BY <2>k, <2>s, <3>2
      <4>3. Concerns(m, k)' => Concerns(m, k)
        BY <1>l, <2>0, <2>e, <3>0 DEF Concerns
      <4>4. Coming(m, k) => Coming(m, k)'
        BY <1>c, <2>e, <3>0
      <4>5. Due(m) => Due(m)'
        BY <2>0 DEF Due
      <4> QED
        BY <1>0, <1>f, <1>n, <4>1, <4>2, <4>3, <4>4, <4>5 DEF Owned, Concerns, Found
    <3> QED
      BY <3>1, <3>2
  <2>7. CASE PutScaler(m, t)
    <3>1. rgt' = rgt /\ thr[m][t].at = "put"
      BY <2>7 DEF PutScaler, At
    <3>2. Starting(m, k) => Starting(m, k)'
      BY <2>s, <3>1
    <3>3. SeesSome(m)
      BY <1>6, <2>7, WorkFrame
    <3> QED
      BY <1>0, <2>0, <3>1, <3>2, <3>3, OwnedSees
  <2>8. CASE AskRing(m, t)
    <3>0. rgt' = rgt /\ ~PutScaler(m, t) /\ thr[m][t].at = "ring"
      BY <2>8 DEF AskRing, PutScaler, At
    <3>1. CASE t = r
      <4>1. CASE LocalIsWorker(m, k)
        <5>1. Moves(m, t, "own")
          BY <1>6, <2>8, <2>k, <3>1, <4>1, Turns
        <5> QED
          BY <1>f, <1>t, <2>p, <3>1, <5>1 DEF Found
      <4>2. CASE ~LocalIsWorker(m, k)
        BY <1>l, <1>n, <2>0, <4>2 DEF Concerns
      <4> QED
        BY <4>1, <4>2
    <3>2. CASE t # r
      <4>1. t # Watch
        BY <1>0, <3>0 DEF Stands
      <4> QED
        BY <2>a, <2>s, <3>0, <3>2, <4>1
    <3> QED
      BY <3>1, <3>2
  <2>9. CASE AskRegistry(m, t)
    <3>0. rgt' = rgt /\ ~PutScaler(m, t) /\ thr[m][t].at \in {"own", "foreign"}
      BY <2>9 DEF AskRegistry, PutScaler, At
    <3>1. t # Watch
      BY <1>0, <3>0 DEF Stands
    <3>2. CASE t = r /\ thr[m][t].at = "own"
      <4>1. CASE rgt[m][k] = NoId
        <5>1. Moves(m, t, "check")
          BY <1>6, <2>9, <2>k, <3>2, <4>1, Turns DEF At
        <5> QED
          BY <1>f, <2>p, <3>1, <3>2, <5>1 DEF Found
      <4>2. CASE rgt[m][k] # NoId
        BY <1>f, <3>0, <4>2 DEF Found
      <4> QED
        BY <4>1, <4>2
    <3>3. CASE t # r \/ thr[m][t].at # "own"
      BY <2>a, <2>s, <3>0, <3>1, <3>3
    <3> QED
      BY <3>2, <3>3
  <2>10. CASE WatchScalersFail(m, t)
    <3>1. smissed'[m]
      BY <2>10 DEF WatchScalersFail, RequestFails, ATypes
    <3> QED
      BY <3>1 DEF Owned
  <2> QED
    BY <1>6, <2>1, <2>2, <2>3, <2>4, <2>5, <2>6, <2>7, <2>8, <2>9, <2>10 DEF Works
<1> QED
  BY <1>1, <1>2, <1>3, <1>4, <1>5, <1>6, Roles

-----------------------------------------------------------------------------
\* That node n's ring has not changed under its manager.
Unchurned(n) == mgr[n] \in {"loading", "loaded", "running"} /\ ~churned[n]

\* That every key's goroutine has made of it what it should.
AllHandled(n) == \A k \in Keys : Handled(n, k, Handler(n, k), StoredAt(n, k, 1))

\* A step that leaves a key, its goroutine and its registration alone.
LEMMA HandledKept ==
  ASSUME NEW m \in Nodes, NEW k \in Keys, Handled(m, k, Handler(m, k), StoredAt(m, k, 1)),
         ring'[m] = ring[m], rgt'[m][k] = rgt[m][k], live'[m][k] = live[m][k],
         \/ Handler(m, k)' = Handler(m, k)
         \/ Handler(m, k).at = "idle" /\ Handler(m, k)'.at = "idle",
         StoredAt(m, k, 1)' <=> StoredAt(m, k, 1)
  PROVE  Handled(m, k, Handler(m, k), StoredAt(m, k, 1))'
<1>1. LocalIsWorker(m, k)' <=> LocalIsWorker(m, k)
  BY DEF LocalIsWorker
<1>2. (Runs(m, k)' <=> Runs(m, k)) /\ (RunsNot(m, k)' <=> RunsNot(m, k))
  BY DEF Runs, RunsNot
<1>3. CASE Handler(m, k)' = Handler(m, k)
  BY <1>1, <1>2, <1>3 DEF Handled
<1>4. CASE Handler(m, k).at = "idle" /\ Handler(m, k)'.at = "idle"
  BY <1>1, <1>2, <1>4 DEF Handled
<1> QED
  BY <1>3, <1>4

\* While the ring does not change, only one kind of goroutine is at work: load's,
\* and then the watch loop.
LEMMA OneAtWork ==
  ASSUME ATypes, NEW m \in Nodes, NodeInv(m), Unchurned(m), NEW t \in Threads, ~At(m, t, "idle")
  PROVE  /\ thr[m][t].key \in Keys /\ Handler(m, thr[m][t].key) = thr[m][t]
         /\ mgr[m] = "loading" => t = <<"reload", thr[m][t].key>>
         /\ mgr[m] # "loading" => t = Watch
<1>0. Shape(m) /\ Exact(m) /\ Stands(m, t)
  BY DEF NodeInv
<1>1. rl[m] = "idle" /\ mgr[m] # "stopping"
  BY <1>0 DEF Exact, Unchurned
<1>2. thr[m][t].key \in Keys
  BY DEF ATypes, Thread
<1>3. CASE t = Watch
  <2>1. mgr[m] # "loading"
    BY <1>0, <1>3 DEF Stands
  <2> QED
    BY <1>2, <1>3, <2>1 DEF Handler
<1>4. CASE t # Watch
  <2>1. PICK k \in Keys : t = <<"reload", k>> \/ t = <<"save", k>>
    BY <1>4, ThreadKinds
  <2>2. t = <<"reload", k>> /\ mgr[m] = "loading" /\ thr[m][t].key = k
    BY <1>0, <1>1, <2>1 DEF Stands
  <2> QED
    BY <1>2, <1>4, <2>2 DEF Handler
<1> QED
  BY <1>3, <1>4

\* A step of a goroutine hands its key on, and no other key.
LEMMA OneHandsOn ==
  ASSUME ATypes, NEW m \in Nodes, NodeInv(m), Unchurned(m), NEW t \in Threads, ~At(m, t, "idle"),
         mgr' = mgr, NEW l \in Places, Moves(m, t, l), NEW j \in Keys, j = thr[m][t].key
  PROVE  /\ l # "idle" => Handler(m, j)' = thr'[m][t]
         /\ l = "idle" => Handler(m, j)'.at = "idle"
         /\ \A k \in Keys : k # j =>
              \/ Handler(m, k)' = Handler(m, k)
              \/ Handler(m, k).at = "idle" /\ Handler(m, k)'.at = "idle"
<1>1. /\ mgr[m] = "loading" => t = <<"reload", j>>
      /\ mgr[m] # "loading" => t = Watch
      /\ thr[m][t].key = j
  BY OneAtWork
<1>2. /\ thr'[m][t].at = l /\ (l # "idle" => thr'[m][t].key = j)
      /\ \A u \in Threads : u # t => thr'[m][u] = thr[m][u]
  BY DEF Moves
<1>3. Idle.at = "idle"
  BY IdleType
<1>4. CASE mgr[m] = "loading"
  <2>1. Handler(m, j)' = thr'[m][t]
    BY <1>1, <1>4 DEF Handler
  <2>2. ASSUME NEW k \in Keys, k # j PROVE Handler(m, k)' = Handler(m, k)
    <3>1. <<"reload", k>> # t /\ <<"reload", k>> \in Threads
      BY <1>1, <1>4, <2>2, ThreadKinds
    <3> QED
      BY <1>2, <1>4, <3>1 DEF Handler
  <2> QED
    BY <1>2, <2>1, <2>2
<1>5. CASE mgr[m] # "loading"
  <2>1. l # "idle" => Handler(m, j)' = thr'[m][t]
    BY <1>1, <1>2, <1>5 DEF Handler
  <2>2. l = "idle" => Handler(m, j)'.at = "idle"
    BY <1>1, <1>2, <1>3, <1>5 DEF Handler
  <2>3. ASSUME NEW k \in Keys, k # j
        PROVE  Handler(m, k).at = "idle" /\ Handler(m, k)'.at = "idle"
    BY <1>1, <1>2, <1>3, <1>5, <2>3 DEF Handler
  <2> QED
    BY <2>1, <2>2, <2>3
<1> QED
  BY <1>4, <1>5

\* What the step of a goroutine makes of its key.
LEMMA HandledStep ==
  ASSUME ATypes, NEW m \in Nodes, NodeInv(m), Unchurned(m), ~smissed[m], ~smissed'[m],
         NEW t \in Threads, Works(m, t)
  PROVE  AllHandled(m)'
<1>j. PICK j \in Keys : j = thr[m][t].key
  BY DEF ATypes, Thread
<1> DEFINE w == thr[m][t]
           s == StoredAt(m, j, 1)
<1>w. ~WatchScalersFail(m, t)
  BY DEF WatchScalersFail, RequestFails, ATypes
<1>0. /\ UNCHANGED <<ring, mgr>> /\ ~At(m, t, "idle")
      /\ ~PutScaler(m, t) => present' = present /\ todo' = todo
  BY <1>w, WorkFrame
<1>1. /\ j \in Keys /\ Handler(m, j) = w
      /\ mgr[m] = "loading" => t = <<"reload", j>>
      /\ mgr[m] # "loading" => t = Watch
  BY <1>0, <1>j, OneAtWork
<1>2. AllHandled(m)
  BY DEF NodeInv, Exact, Unchurned, AllHandled
<1>3. Handled(m, j, w, s)
  BY <1>1, <1>2 DEF AllHandled
<1>4. w.at \in {"check", "backend", "get", "stop", "remove"}
  BY <1>0, <1>3 DEF Handled, At
<1>5. ~PutScaler(m, t) /\ ~PutScalerFails(m, t) /\ ~AskRing(m, t) /\ ~AskRegistry(m, t)
  BY <1>4 DEF PutScaler, PutScalerFails, AskRing, AskRegistry, At
<1>6. \A k \in Keys : StoredAt(m, k, 1)' <=> StoredAt(m, k, 1)
  BY <1>0, <1>5 DEF StoredAt
<1>7. LocalIsWorker(m, j)' <=> LocalIsWorker(m, j)
  BY <1>0 DEF LocalIsWorker
<1>8. w.then \in {"idle", "check"}
  BY DEF ATypes, Thread
<1>l. thr[m][t].then \in Places /\ {"idle", "check", "backend", "stop", "remove"} \subseteq Places
  BY <1>8 DEF Places
<1>h. ASSUME NEW l \in Places, Moves(m, t, l)
      PROVE  /\ Handler(m, j)'.at = l
             /\ l # "idle" => Handler(m, j)' = thr'[m][t] /\ thr'[m][t].then = w.then
  <2>1. /\ l # "idle" => Handler(m, j)' = thr'[m][t]
        /\ l = "idle" => Handler(m, j)'.at = "idle"
    BY <1>0, <1>h, <1>j, OneHandsOn
  <2> QED
    BY <1>h, <2>1 DEF Moves
<1>a. ASSUME \A k \in Keys : k # j => rgt'[m][k] = rgt[m][k] /\ live'[m][k] = live[m][k],
             NEW l \in Places, Moves(m, t, l), Handled(m, j, Handler(m, j), StoredAt(m, j, 1))'
      PROVE  AllHandled(m)'
  <2> SUFFICES ASSUME NEW k \in Keys, k # j
               PROVE  Handled(m, k, Handler(m, k), StoredAt(m, k, 1))'
    BY <1>a DEF AllHandled
  <2>1. \/ Handler(m, k)' = Handler(m, k)
        \/ Handler(m, k).at = "idle" /\ Handler(m, k)'.at = "idle"
    BY <1>0, <1>a, <1>j, OneHandsOn
  <2>2. Handled(m, k, Handler(m, k), StoredAt(m, k, 1))
    BY <1>2 DEF AllHandled
  <2> QED
    BY <1>0, <1>6, <1>a, <2>1, <2>2, HandledKept
<1> DEFINE After == Handled(m, j, Handler(m, j), StoredAt(m, j, 1))'
<1>9. CASE StartCheck(m, t)
  <2>1. rgt' = rgt /\ live' = live /\ w.at = "check"
    BY <1>9 DEF StartCheck, At
  <2>2. PICK l \in Places : Moves(m, t, l) /\ l = IF LocalIsWorker(m, j) THEN "backend" ELSE "idle"
    BY <1>9, <1>l, <1>j, Turns
  <2>3. After
    BY <1>1, <1>3, <1>6, <1>7, <1>h, <2>1, <2>2 DEF Handled, Runs, RunsNot
  <2> QED
    BY <1>a, <2>1, <2>2, <2>3
<1>10. CASE StartSet(m, t)
  <2> DEFINE used == live[m][j] \union {rgt[m][j]} \union {thr[m][u].id : u \in Threads}
             i == CHOOSE x \in Ids \ used : TRUE
  <2>1. /\ i \in Ids /\ w.at = "backend"
        /\ rgt' = [rgt EXCEPT ![m][j] = i] /\ live' = [live EXCEPT ![m][j] = @ \union {i}]
    BY <1>10, <1>j DEF StartSet, At
  <2>2. i # NoId
    BY <2>1, AutoscalerAssumption
  <2> HIDE DEF i
  <2>3. /\ rgt'[m][j] = i /\ live'[m][j] = live[m][j] \union {i}
        /\ \A k \in Keys : k # j => rgt'[m][k] = rgt[m][k] /\ live'[m][k] = live[m][k]
    BY <1>1, <2>1 DEF ATypes
  <2>4. Moves(m, t, "idle")
    BY <1>10, <1>j, Turns
  <2>5. live[m][j] = {} /\ LocalIsWorker(m, j) /\ s
    BY <1>3, <2>1 DEF Handled, RunsNot
  <2>6. Runs(m, j)'
    BY <2>2, <2>3, <2>5 DEF Runs
  <2>7. After
    BY <1>1, <1>6, <1>7, <1>h, <1>l, <2>4, <2>5, <2>6 DEF Handled
  <2> QED
    BY <1>a, <1>l, <2>3, <2>4, <2>7
<1>11. CASE StartFails(m, t)
  BY <1>11 DEF StartFails, RequestFails, ATypes
<1>12. CASE StopGet(m, t)
  <2>1. rgt' = rgt /\ live' = live /\ w.at = "get"
    BY <1>12 DEF StopGet, At
  <2>2. LocalIsWorker(m, j) /\ Runs(m, j) /\ (w.then = "check" <=> s)
    BY <1>3, <2>1 DEF Handled
  <2>3. Moves(m, t, "stop") /\ thr'[m][t].id = rgt[m][j]
    BY <1>12, <2>2, <1>j, Turns
  <2>4. Handler(m, j)'.at = "stop" /\ Handler(m, j)'.then = w.then /\ Handler(m, j)'.id = rgt[m][j]
    BY <1>h, <1>l, <2>3
  <2>5. After
    BY <1>1, <1>6, <1>7, <2>1, <2>2, <2>4 DEF Handled, Runs
  <2> QED
    BY <1>a, <1>l, <2>1, <2>3, <2>5
<1>13. CASE StopWaits(m, t)
  <2>1. /\ rgt' = rgt /\ w.at = "stop"
        /\ live' = [live EXCEPT ![m][j] = @ \ {w.id}]
    BY <1>13, <1>j DEF StopWaits, At
  <2>2. /\ live'[m][j] = live[m][j] \ {w.id}
        /\ \A k \in Keys : k # j => live'[m][k] = live[m][k]
    BY <1>1, <2>1 DEF ATypes
  <2>3. LocalIsWorker(m, j) /\ Runs(m, j) /\ w.id = rgt[m][j] /\ (w.then = "check" <=> s)
    BY <1>3, <2>1 DEF Handled
  <2>4. live'[m][j] = {} /\ rgt'[m][j] # NoId
    BY <2>1, <2>2, <2>3 DEF Runs
  <2>5. Moves(m, t, "remove")
    BY <1>13, <1>j, Turns
  <2>6. Handler(m, j)'.at = "remove" /\ Handler(m, j)'.then = w.then
    BY <1>h, <1>l, <2>5
  <2>7. After
    BY <1>1, <1>6, <1>7, <2>3, <2>4, <2>6 DEF Handled
  <2> QED
    BY <1>a, <1>l, <2>1, <2>2, <2>5, <2>7
<1>14. CASE Remove(m, t)
  <2>1. /\ live' = live /\ w.at = "remove"
        /\ rgt' = [rgt EXCEPT ![m][j] = NoId]
    BY <1>14, <1>j DEF Remove, At
  <2>2. /\ rgt'[m][j] = NoId
        /\ \A k \in Keys : k # j => rgt'[m][k] = rgt[m][k]
    BY <1>1, <2>1 DEF ATypes
  <2>3. live[m][j] = {} /\ (w.then = "check" <=> s)
    BY <1>3, <2>1 DEF Handled
  <2>4. RunsNot(m, j)'
    BY <2>1, <2>2, <2>3 DEF RunsNot
  <2>5. Moves(m, t, w.then)
    BY <1>14, <1>j, Turns
  <2>6. Handler(m, j)'.at = w.then
    BY <1>h, <1>l, <2>5
  <2>7. After
    BY <1>1, <1>6, <1>7, <1>8, <2>3, <2>4, <2>6 DEF Handled
  <2> QED
    BY <1>a, <1>l, <2>1, <2>2, <2>5, <2>7
<1> QED
  BY <1>5, <1>w, <1>9, <1>10, <1>11, <1>12, <1>13, <1>14 DEF Works

\* Taking an event hands its key to the watch loop.
LEMMA HandledTake ==
  ASSUME ATypes, NEW m \in Nodes, NodeInv(m), Unchurned(m), ~smissed[m], TakeEvent(m)
  PROVE  AllHandled(m)'
<1>e. PICK e \in ScalerEvent : e = todo[m][1]
  BY MovedUp DEF TakeEvent, ATypes
<1>1. /\ Len(todo[m]) \in Nat /\ Len(todo[m]) >= 1 /\ DOMAIN todo[m] = 1 .. Len(todo[m])
      /\ Head(todo[m]) = e
  BY <1>e, MovedUp DEF TakeEvent, ATypes
<1>2. UNCHANGED <<present, mgr, ring, rgt, live>> /\ mgr[m] = "running" /\ thr[m][Watch].at = "idle"
  BY DEF TakeEvent, etcdScalers, clusterVars, Unchurned, At
<1>3. thr'[m][Watch] = Handling(m, e)
  BY <1>1, ThreadKinds DEF TakeEvent, ATypes
<1>j. PICK j \in Keys : j = e.key
  BY DEF ScalerEvent
<1>4. e.type \in {"create", "modify", "delete"}
  BY DEF ScalerEvent
<1>5. AllHandled(m) /\ Queued(m)
  BY DEF NodeInv, Exact, Unchurned, AllHandled
<1>6. \A k \in Keys : Handler(m, k).at = "idle"
  BY <1>2, IdleType DEF Handler
<1>7. \A k \in Keys : StoredAt(m, k, 1)' <=> StoredAt(m, k, 2)
  <2> TAKE k \in Keys
  <2>1. StoredAt(m, k, 1)' <=> StoredAt(m, k, 1 + 1)
    BY StoredBehind
  <2> QED
    BY <2>1
<1>8. ASSUME NEW k \in Keys, k # j PROVE Handled(m, k, Handler(m, k), StoredAt(m, k, 1))'
  <2>1. Handler(m, k)'.at = "idle"
    <3>1. Handling(m, e) = Idle \/ Handling(m, e).key = j
      BY <1>j DEF Handling
    <3> QED
      BY <1>2, <1>3, <1>8, <3>1, IdleType DEF Handler
  <2>2. StoredAt(m, k, 1) <=> StoredAt(m, k, 2)
    <3>1. todo[m][1].key # k
      BY <1>8, <1>e, <1>j, <1>e, <1>j
    <3>2. ASSUME StoredAt(m, k, 1) PROVE StoredAt(m, k, 2)
      <4>1. CASE \E i \in DOMAIN todo[m] : /\ i >= 1 /\ todo[m][i].key = k /\ todo[m][i].type # "create"
                                           /\ \A h \in 1 .. i - 1 : todo[m][h].key # k
        <5>1. PICK i \in DOMAIN todo[m] : /\ i >= 1 /\ todo[m][i].key = k /\ todo[m][i].type # "create"
                                          /\ \A h \in 1 .. i - 1 : todo[m][h].key # k
          BY <4>1
        <5>2. i >= 2 /\ \A h \in 2 .. i - 1 : h \in 1 .. i - 1
          BY <1>1, <3>1, <5>1
        <5> QED
          BY <5>1, <5>2 DEF StoredAt
      <4>2. CASE k \in present /\ \A i \in DOMAIN todo[m] : i >= 1 => todo[m][i].key # k
        BY <1>1, <4>2 DEF StoredAt
      <4> QED
        BY <3>2, <4>1, <4>2 DEF StoredAt
    <3>3. ASSUME StoredAt(m, k, 2) PROVE StoredAt(m, k, 1)
      <4>1. CASE \E i \in DOMAIN todo[m] : /\ i >= 2 /\ todo[m][i].key = k /\ todo[m][i].type # "create"
                                           /\ \A h \in 2 .. i - 1 : todo[m][h].key # k
        <5>1. PICK i \in DOMAIN todo[m] : /\ i >= 2 /\ todo[m][i].key = k /\ todo[m][i].type # "create"
                                          /\ \A h \in 2 .. i - 1 : todo[m][h].key # k
          BY <4>1
        <5>2. i >= 1 /\ \A h \in 1 .. i - 1 : h = 1 \/ h \in 2 .. i - 1
          BY <1>1, <5>1
        <5>3. \A h \in 1 .. i - 1 : todo[m][h].key # k
          BY <3>1, <5>1, <5>2
        <5> QED
          BY <5>1, <5>2, <5>3 DEF StoredAt
      <4>2. CASE k \in present /\ \A i \in DOMAIN todo[m] : i >= 2 => todo[m][i].key # k
        <5>1. \A i \in DOMAIN todo[m] : i >= 1 => i = 1 \/ i >= 2
          BY <1>1
        <5> QED
          BY <3>1, <4>2, <5>1 DEF StoredAt
      <4> QED
        BY <3>3, <4>1, <4>2 DEF StoredAt
    <3> QED
      BY <3>2, <3>3
  <2>3. Handled(m, k, Handler(m, k), StoredAt(m, k, 1))
    BY <1>5 DEF AllHandled
  <2> QED
    BY <1>2, <1>6, <1>7, <2>1, <2>2, <2>3, HandledKept
<1>9. Handled(m, j, Handler(m, j), StoredAt(m, j, 1))'
  <2>1. e.type # "create" <=> StoredAt(m, j, 1)
    <3>1. 1 \in DOMAIN todo[m] /\ todo[m][1] = e
      BY <1>1, <1>e
    <3>2. ASSUME e.type # "create" PROVE StoredAt(m, j, 1)
      <4>1. 1 \in DOMAIN todo[m] /\ 1 >= 1 /\ todo[m][1].key = j /\ todo[m][1].type # "create"
            /\ \A h \in 1 .. 1 - 1 : todo[m][h].key # j
        BY <1>j, <3>1, <3>2
      <4> QED
        BY <4>1 DEF StoredAt
    <3>3. ASSUME StoredAt(m, j, 1) PROVE e.type # "create"
      <4>1. CASE \E i \in DOMAIN todo[m] : /\ i >= 1 /\ todo[m][i].key = j /\ todo[m][i].type # "create"
                                           /\ \A h \in 1 .. i - 1 : todo[m][h].key # j
        <5>1. PICK i \in DOMAIN todo[m] : /\ i >= 1 /\ todo[m][i].key = j /\ todo[m][i].type # "create"
                                          /\ \A h \in 1 .. i - 1 : todo[m][h].key # j
          BY <4>1
        <5>2. i # 1 => 1 \in 1 .. i - 1
          BY <1>1, <5>1
        <5> QED
          BY <1>j, <3>1, <5>1, <5>2
      <4>2. CASE j \in present /\ \A i \in DOMAIN todo[m] : i >= 1 => todo[m][i].key # j
        BY <1>j, <3>1, <4>2
      <4> QED
        BY <3>3, <4>1, <4>2 DEF StoredAt
    <3> QED
      BY <3>2, <3>3
  <2>2. e.type # "delete" <=> StoredAt(m, j, 2)
    <3>1. 1 \in DOMAIN todo[m] /\ todo[m][1] = e /\ 1 + 1 = 2 /\ mgr[m] # "stopped"
      BY <1>1, <1>2, <1>e
    <3>2. e.type # "delete" <=> StoredAt(m, j, 1 + 1)
      BY <1>5, <1>j, <3>1 DEF Queued
    <3> QED
      BY <3>1, <3>2
  <2>3. IF StoredAt(m, j, 1) /\ LocalIsWorker(m, j) THEN Runs(m, j) ELSE RunsNot(m, j)
    BY <1>5, <1>6 DEF AllHandled, Handled
  <2>4. /\ LocalIsWorker(m, j)' <=> LocalIsWorker(m, j)
        /\ Runs(m, j)' <=> Runs(m, j)
        /\ RunsNot(m, j)' <=> RunsNot(m, j)
        /\ rgt'[m][j] = rgt[m][j]
    BY <1>2 DEF LocalIsWorker, Runs, RunsNot
  <2>5. StoredAt(m, j, 1)' <=> e.type # "delete"
    BY <1>7, <2>2
  <2>6. CASE e.type = "create"
    <3>1. Handling(m, e).at = "check" /\ Handling(m, e).key = j
      BY <1>j, <2>6 DEF Handling
    <3>2. Handler(m, j)' = Handling(m, e)
      BY <1>2, <1>3, <3>1 DEF Handler
    <3>3. RunsNot(m, j)
      BY <2>1, <2>3, <2>6
    <3> QED
      BY <2>4, <2>5, <2>6, <3>1, <3>2, <3>3 DEF Handled
  <2>7. CASE e.type # "create" /\ rgt[m][j] # NoId
    <3>1. /\ Handling(m, e).at = "get" /\ Handling(m, e).key = j
          /\ Handling(m, e).then = IF e.type = "modify" THEN "check" ELSE "idle"
      BY <1>j, <2>7 DEF Handling
    <3>2. Handler(m, j)' = Handling(m, e)
      BY <1>2, <1>3, <3>1 DEF Handler
    <3>3. LocalIsWorker(m, j) /\ Runs(m, j)
      BY <2>3, <2>7 DEF RunsNot
    <3>4. e.type = "modify" <=> e.type # "delete"
      BY <1>4, <2>7
    <3> QED
      BY <2>4, <2>5, <2>7, <3>1, <3>2, <3>3, <3>4 DEF Handled
  <2>8. CASE e.type # "create" /\ rgt[m][j] = NoId
    <3>1. Handling(m, e) = Idle
      BY <1>j, <2>8 DEF Handling
    <3>2. Handler(m, j)'.at = "idle"
      BY <1>2, <1>3, <3>1, IdleType DEF Handler
    <3>3. ~LocalIsWorker(m, j) /\ RunsNot(m, j)
      BY <2>1, <2>3, <2>8 DEF Runs
    <3> QED
      BY <2>4, <3>2, <3>3 DEF Handled
  <2> QED
    BY <2>6, <2>7, <2>8
<1> QED
  BY <1>8, <1>9 DEF AllHandled


\* A step that leaves the goroutines, the registry and the ring alone, and every
\* key as stored as it was.
LEMMA AllKept ==
  ASSUME NEW m \in Nodes, AllHandled(m), ring'[m] = ring[m], rgt'[m] = rgt[m], live'[m] = live[m],
         thr'[m] = thr[m], mgr'[m] = mgr[m] \/ \A t \in Threads : At(m, t, "idle"),
         \A k \in Keys : StoredAt(m, k, 1)' <=> StoredAt(m, k, 1)
  PROVE  AllHandled(m)'
<1> SUFFICES ASSUME NEW k \in Keys PROVE Handled(m, k, Handler(m, k), StoredAt(m, k, 1))'
  BY DEF AllHandled
<1>1. CASE mgr'[m] = mgr[m]
  <2>1. Handler(m, k)' = Handler(m, k)
    BY <1>1, IdleType DEF Handler, Idle
  <2> QED
    BY <2>1, HandledKept DEF AllHandled
<1>2. CASE \A t \in Threads : At(m, t, "idle")
  <2>1. thr[m][Watch].at = "idle" /\ thr[m][<<"reload", k>>].at = "idle"
    BY <1>2, ThreadKinds DEF At
  <2>2. Handler(m, k).at = "idle" /\ Handler(m, k)'.at = "idle"
    BY <2>1, IdleType DEF Handler
  <2> QED
    BY <2>2, HandledKept DEF AllHandled
<1> QED
  BY <1>1, <1>2

\* What load finds: nothing runs, and what is stored is to be looked at.
LEMMA HandledLoad ==
  ASSUME ATypes, NEW m \in Nodes, NodeInv(m), LoadScalers(m)
  PROVE  AllHandled(m)'
<1> SUFFICES ASSUME NEW k \in Keys PROVE Handled(m, k, Handler(m, k), StoredAt(m, k, 1))'
  BY DEF AllHandled
<1>1. /\ mgr'[m] = "loading" /\ present' = present /\ todo' = todo /\ rgt' = rgt /\ live' = live
      /\ mgr[m] = "none"
  BY DEF LoadScalers, ATypes
<1>2. todo[m] = << >> /\ RunsNot(m, k)
  BY <1>1 DEF NodeInv, Shape
<1>3. StoredAt(m, k, 1)' <=> k \in present
  BY <1>1, <1>2 DEF StoredAt
<1>4. RunsNot(m, k)'
  BY <1>1, <1>2 DEF RunsNot
<1>5. Handler(m, k)' = thr'[m][<<"reload", k>>]
  BY <1>1 DEF Handler
<1>6. CASE k \in present
  <2>1. Handler(m, k)'.at = "check"
    BY <1>5, <1>6, Loading
  <2> QED
    BY <1>3, <1>4, <1>6, <2>1 DEF Handled
<1>7. CASE k \notin present
  <2>1. <<"reload", k>> \in Threads /\ \A j \in present : <<"reload", j>> # <<"reload", k>>
    BY <1>7, ThreadKinds DEF ATypes
  <2>2. Handler(m, k)' = Idle
    BY <1>5, <2>1, Loading
  <2>3. Handler(m, k)'.at = "idle"
    BY <2>2, IdleType
  <2> QED
    BY <1>3, <1>4, <1>7, <2>3 DEF Handled
<1> QED
  BY <1>6, <1>7

\* Every step keeps a node whose ring does not change running exactly its keys.
LEMMA ExactStep ==
  ASSUME AIInv, Types, [ANext]_vars, NEW m \in Nodes
  PROVE  Exact(m)'
<1> USE DEF AIInv
<1>0. NodeInv(m) /\ Shape(m) /\ \A t \in Threads : Stands(m, t)
  BY DEF NodeInv
<1>e. Unchurned(m) => phase[m] # "send" /\ rl[m] = "idle" /\ (~smissed[m] => AllHandled(m))
  BY DEF NodeInv, Exact, Unchurned, AllHandled
<1>p. (Unchurned(m)' => phase'[m] # "send" /\ rl'[m] = "idle" /\ (~smissed'[m] => AllHandled(m)')) => Exact(m)'
  BY DEF Exact, Unchurned, AllHandled
<1>s. present' = present /\ todo'[m] = todo[m] => \A k \in Keys : StoredAt(m, k, 1)' <=> StoredAt(m, k, 1)
  BY DEF StoredAt
<1>1. CASE Stays(m) /\ SeesNothing(m)
  <2>1. AllHandled(m) => AllHandled(m)'
    BY <1>1, <1>s, AllKept DEF Stays, SeesNothing
  <2> QED
    BY <1>1, <1>e, <1>p, <2>1 DEF Stays, SeesNothing, Unchurned
<1>2. CASE Stays(m) /\ SeesSome(m)
  <2>1. PICK e \in ScalerEvent : Sees(m, e)
    BY <1>2 DEF SeesSome
  <2>2. CASE mgr[m] = "running"
    <3>1. 1 \in 1 .. Len(todo[m]) + 1
      BY AtTheEnd, <2>1 DEF ATypes
    <3>2. \A k \in Keys : StoredAt(m, k, 1)' <=> StoredAt(m, k, 1)
      BY <2>1, <2>2, <3>1, StoredBefore
    <3>3. AllHandled(m) => AllHandled(m)'
      BY <1>2, <3>2, AllKept DEF Stays
    <3>4. smissed'[m] = smissed[m]
      BY <2>1, <2>2 DEF Sees, ATypes
    <3> QED
      BY <1>2, <1>e, <1>p, <3>3, <3>4 DEF Stays, Unchurned
  <2>3. CASE mgr[m] # "running"
    <3>1. Unchurned(m) => smissed'[m]
      BY <2>1, <2>3 DEF Sees, Unchurned
    <3> QED
      BY <1>2, <1>e, <1>p, <3>1 DEF Stays, Unchurned
  <2> QED
    BY <2>2, <2>3
<1>3. CASE ClusterOnly(m)
  <2>1. CASE Blank(m)'
    BY <2>1, BlankHolds
  <2>2. CASE Calm(m)
    <3>1. AllHandled(m) => AllHandled(m)'
      BY <1>3, <1>s, <2>2, AllKept DEF ClusterOnly, scalerVars, Calm
    <3> QED
      BY <1>3, <1>e, <1>p, <2>2, <3>1 DEF ClusterOnly, scalerVars, Calm, Unchurned
  <2> QED
    BY <1>0, <1>3, <2>1, <2>2, Aside
<1>4. CASE Ends(m)
  BY <1>4, EndsBlank, BlankHolds
<1>5. CASE ManagerStep(m)
  <2>1. CASE RingMoves(m)
    <3>1. churned'[m]
      BY <2>1 DEF RingMoves, ATypes
    <3> QED
      BY <1>p, <3>1 DEF Unchurned
  <2>2. CASE LoadScalers(m)
    <3>1. AllHandled(m)'
      BY <1>0, <2>2, HandledLoad
    <3>2. rl'[m] = "idle" /\ phase' = phase /\ churned'[m] = (phase[m] # "select")
      BY <1>0, <2>2 DEF LoadScalers, Shape, clusterVars, ATypes
    <3> QED
      BY <1>p, <3>1, <3>2 DEF Unchurned
  <2>3. CASE LoadScalersFails(m)
    <3>1. smissed'[m]
      BY <2>3 DEF LoadScalersFails, RequestFails, ATypes
    <3>2. rl'[m] = "idle" /\ phase' = phase /\ churned'[m] = (phase[m] # "select")
      BY <1>0, <2>3 DEF LoadScalersFails, Shape, clusterVars, ATypes
    <3> QED
      BY <1>p, <3>1, <3>2 DEF Unchurned
  <2>4. CASE LoadDone(m) \/ WatchScalers(m)
    <3>1. /\ UNCHANGED <<present, smissed, churned, rgt, live, thr, rl, ring, phase>>
          /\ mgr[m] \in {"loading", "loaded"}
      BY <2>4 DEF LoadDone, WatchScalers, etcdScalers, clusterVars
    <3>2. todo'[m] = todo[m]
      BY <1>0, <2>4 DEF LoadDone, WatchScalers, Shape, ATypes
    <3>3. Unchurned(m) => \A t \in Threads : At(m, t, "idle")
      <4>1. CASE LoadDone(m)
        BY <4>1 DEF LoadDone, AllIdle
      <4>2. CASE WatchScalers(m)
        BY <1>0, <4>2, OneAtWork DEF WatchScalers, Stands
      <4> QED
        BY <2>4, <4>1, <4>2
    <3>4. Unchurned(m) /\ AllHandled(m) => AllHandled(m)'
      BY <1>s, <3>1, <3>2, <3>3, AllKept
    <3> QED
      BY <1>e, <1>p, <3>1, <3>4 DEF Unchurned
  <2>5. CASE TakeEvent(m)
    <3>1. UNCHANGED <<smissed, mgr, churned, phase, rl>>
      BY <2>5 DEF TakeEvent, etcdScalers, clusterVars
    <3>2. Unchurned(m) /\ ~smissed[m] => AllHandled(m)'
      BY <1>0, <2>5, HandledTake
    <3> QED
      BY <1>e, <1>p, <3>1, <3>2 DEF Unchurned
  <2>6. CASE TakeReload(m)
    <3>1. UNCHANGED <<mgr, churned>> /\ phase[m] = "send"
      BY <2>6 DEF TakeReload, SendReload
    <3> QED
      BY <1>e, <1>p, <3>1 DEF Unchurned
  <2>7. CASE Rebalance(m) \/ RebalanceFails(m) \/ RebalanceDone(m)
    <3>1. UNCHANGED <<mgr, churned>> /\ rl[m] # "idle"
      BY <2>7 DEF Rebalance, RebalanceFails, RebalanceDone
    <3> QED
      BY <1>e, <1>p, <3>1 DEF Unchurned
  <2>8. CASE StopManager(m) \/ ManagerStopped(m)
    <3>1. mgr'[m] \in {"stopping", "stopped"}
      BY <2>8 DEF StopManager, ManagerStopped, ATypes
    <3> QED
      BY <1>p, <3>1 DEF Unchurned
  <2> QED
    BY <1>5, <2>1, <2>2, <2>3, <2>4, <2>5, <2>6, <2>7, <2>8 DEF ManagerStep
<1>6. ASSUME NEW t \in Threads, Works(m, t) PROVE Exact(m)'
  <2>1. UNCHANGED <<phase, mgr, rl, churned>>
    BY <1>6, WorkFrame
  <2>2. smissed[m] => smissed'[m]
    BY <1>6, WorkFrame DEF SeesSome, Sees
  <2>3. Unchurned(m) /\ ~smissed[m] /\ ~smissed'[m] => AllHandled(m)'
    BY <1>0, <1>6, HandledStep
  <2> QED
    BY <1>e, <1>p, <2>1, <2>2, <2>3 DEF Unchurned
<1> QED
  BY <1>1, <1>2, <1>3, <1>4, <1>5, <1>6, Roles

-----------------------------------------------------------------------------
\* At the start no manager exists.
LEMMA InitAIInv == AInit => AIInv
<1> SUFFICES ASSUME AInit PROVE AIInv
  OBVIOUS
<1>1. ATypes
  <2>1. [k \in Keys |-> NoId] \in [Keys -> Ids \union {NoId}] /\ [k \in Keys |-> {}] \in [Keys -> SUBSET Ids]
    OBVIOUS
  <2>2. [t \in Threads |-> Idle] \in [Threads -> Thread]
    BY IdleType
  <2>3. << >> \in Seq(ScalerEvent)
    OBVIOUS
  <2>4. /\ rgt \in [Nodes -> [Keys -> Ids \union {NoId}]] /\ live \in [Nodes -> [Keys -> SUBSET Ids]]
        /\ todo \in [Nodes -> Seq(ScalerEvent)]
    BY <2>1, <2>3 DEF AInit
  <2>5. thr \in [Nodes -> [Threads -> Thread]]
    BY <2>2 DEF AInit
  <2> QED
    BY <2>4, <2>5 DEF AInit, ATypes, Stages
<1>2. ASSUME NEW m \in Nodes PROVE NodeInv(m)
  <2>1. /\ pc[m] = "down" /\ phase[m] = "select" /\ ~reloading[m]
        /\ mgr[m] = "none" /\ todo[m] = << >> /\ rgt[m] = [k \in Keys |-> NoId]
        /\ live[m] = [k \in Keys |-> {}] /\ thr[m] = [t \in Threads |-> Idle] /\ rl[m] = "idle"
    BY DEF AInit, ClusterInit
  <2>2. \A t \in Threads : At(m, t, "idle")
    BY <2>1, IdleType DEF At
  <2>3. Shape(m) /\ Queued(m) /\ Exact(m)
    BY <2>1 DEF Shape, Queued, Exact, RunsNot
  <2>4. \A t \in Threads : Stands(m, t)
    BY <2>2 DEF Stands, At
  <2>5. ASSUME NEW k \in Keys PROVE Live(m, k) /\ Deletes(m, k) /\ HandsOver(m, k) /\ Owned(m, k)
    <3>1. thr[m][Watch].at = "idle" /\ thr[m][<<"reload", k>>].at = "idle"
      BY <2>2, ThreadKinds DEF At
    <3>2. Live(m, k) /\ Owned(m, k) /\ HandsOver(m, k)
      BY <2>1, <3>1 DEF Live, Owned, HandsOver
    <3>3. Deletes(m, k)
      BY <2>1, <3>1 DEF Deletes, Dropping
    <3> QED
      BY <3>2, <3>3
  <2> QED
    BY <2>3, <2>4, <2>5 DEF NodeInv
<1> QED
  BY <1>1, <1>2 DEF AIInv

\* AIInv is inductive, given what the cluster guarantees.
LEMMA AInductive == ASpec => [](AIInv /\ IInv)
<1>1. IInv => Types
  BY DEF IInv
<1>2. AIInv /\ Types /\ Types' /\ [ANext]_vars => AIInv'
  <2> SUFFICES ASSUME AIInv, Types, Types', [ANext]_vars PROVE AIInv'
    OBVIOUS
  <2>1. ATypes'
    BY ManagerTypes DEF AIInv
  <2>2. ASSUME NEW m \in Nodes PROVE NodeInv(m)'
    <3>1. Shape(m)' /\ Queued(m)' /\ Exact(m)'
      BY ShapeStep, QueuedStep, ExactStep
    <3>2. \A t \in Threads : Stands(m, t)'
      BY StandsStep
    <3>3. \A k \in Keys : Live(m, k)' /\ Deletes(m, k)' /\ HandsOver(m, k)' /\ Owned(m, k)'
      BY LiveStep, DeletesStep, HandsOverStep, OwnedStep
    <3> QED
      BY <3>1, <3>2, <3>3 DEF NodeInv
  <2> QED
    BY <2>1, <2>2 DEF AIInv
<1> QED
  BY InitAIInv, <1>1, <1>2, RunsOnCluster, Inductive, PTL DEF ASpec

\* The managers and the cluster under them are well typed in every reachable
\* state, and no goroutine stops a scaler it does not have.
THEOREM ATypeCorrect == ASpec => []ATypeOK
<1>1. AIInv /\ IInv => ATypeOK
  <2> SUFFICES ASSUME AIInv, IInv PROVE ATypeOK
    OBVIOUS
  <2>1. TypeOK
    BY DEF IInv, CursorInv, TypeOK
  <2>2. \A n \in Nodes, t \in Threads : At(n, t, "stop") => thr[n][t].id # NoId
    BY DEF AIInv, NodeInv, Stands
  <2> QED
    BY <2>1, <2>2 DEF AIInv, ATypes, ATypeOK, ScalerEvent, Stages
<1> QED
  BY AInductive, <1>1, PTL

\* A goroutine at rest has nothing to start, stop or remove.
LEMMA Resting ==
  ASSUME NEW n \in Nodes, AtRest(n)
  PROVE  /\ mgr[n] = "running" /\ todo[n] = << >> /\ rl[n] = "idle" /\ phase[n] = "select"
         /\ \A t \in Threads : thr[n][t].at = "idle"
  BY DEF AtRest, AllIdle, At, Settled

\* The registry of a manager at rest names only running scalers, whatever creates,
\* updates, deletes, rebalances and failures came before.
THEOREM RegistryIsLive == ASpec => []RegisteredIsLive
<1>1. AIInv => RegisteredIsLive
  <2> SUFFICES ASSUME AIInv, NEW n \in Nodes, NEW k \in Keys, AtRest(n), rgt[n][k] # NoId
               PROVE  rgt[n][k] \in live[n][k]
    BY DEF RegisteredIsLive
  <2>1. Live(n, k)
    BY DEF AIInv, NodeInv
  <2> QED
    BY <2>1, Resting DEF Live, At
<1> QED
  BY AInductive, <1>1, PTL

\* No scaler is lost: when every member is at rest and missed nothing, the worker
\* of each stored key has it registered and running.
THEOREM NoScalerLost == ASpec => []OwnerRunsKey
<1>1. AIInv /\ IInv => OwnerRunsKey
  <2> SUFFICES ASSUME AIInv, IInv, Quiescent, NEW k \in present, NEW n \in Registered, LocalIsWorker(n, k)
               PROVE  rgt[n][k] # NoId /\ rgt[n][k] \in live[n][k]
    BY DEF OwnerRunsKey
  <2>1. n \in Nodes /\ k \in Keys
    BY RegisteredType DEF IInv, Types, AIInv, ATypes
  <2>2. AtRest(n) /\ ~smissed[n]
    BY DEF Quiescent
  <2>3. /\ mgr[n] = "running" /\ todo[n] = << >> /\ rl[n] = "idle" /\ phase[n] = "select"
        /\ \A t \in Threads : thr[n][t].at = "idle"
    BY <2>1, <2>2, Resting
  <2>4. Live(n, k) /\ Owned(n, k)
    BY <2>1 DEF AIInv, NodeInv
  <2>5. ~Coming(n, k) /\ ~Due(n)
    BY <2>3 DEF Coming, Due
  <2>6. ~Starting(n, k)
    BY <2>1, <2>3, ThreadKinds DEF Starting
  <2>7. rgt[n][k] # NoId
    BY <2>2, <2>3, <2>4, <2>5, <2>6 DEF Owned
  <2> QED
    BY <2>3, <2>4, <2>7 DEF Live, At
<1> QED
  BY AInductive, <1>1, PTL

\* A manager at rest whose ring has not changed since load runs each stored key
\* it is the worker of exactly once, and no other key.
THEOREM RunsExactlyItsKeys == ASpec => []ExactWithoutChurn
<1>1. AIInv => ExactWithoutChurn
  <2> SUFFICES ASSUME AIInv, NEW n \in Nodes, NEW k \in Keys, AtRest(n), ~churned[n], ~smissed[n]
               PROVE  live[n][k] = IF k \in present /\ LocalIsWorker(n, k) THEN {rgt[n][k]} ELSE {}
    BY DEF ExactWithoutChurn
  <2>1. /\ mgr[n] = "running" /\ todo[n] = << >>
        /\ \A t \in Threads : thr[n][t].at = "idle"
    BY Resting
  <2>2. Handled(n, k, Handler(n, k), StoredAt(n, k, 1))
    BY <2>1 DEF AIInv, NodeInv, Exact
  <2>3. Handler(n, k).at = "idle"
    BY <2>1, ThreadKinds, IdleType DEF Handler
  <2>4. StoredAt(n, k, 1) <=> k \in present
    BY <2>1 DEF StoredAt
  <2> QED
    BY <2>2, <2>3, <2>4 DEF Handled, Runs, RunsNot
<1> QED
  BY AInductive, <1>1, PTL
=============================================================================
