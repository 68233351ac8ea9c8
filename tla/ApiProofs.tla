------------------------------ MODULE ApiProofs ------------------------------
(***************************************************************************)
(* Proofs about Api for any handlers, IDs and lists of workers, and any    *)
(* number of requests and failures.                                        *)
(***************************************************************************)
EXTENDS Api, FiniteSetTheorems, TLAPS

\* Which requests come to which step, for the record r of a handler.
Staged(r) ==
  /\ r.kind \in {"none", "register", "unregister", "act"} => r.items = << >>
  /\ r.at = "idle" => r.kind = "none"
  /\ r.at \in {"cloud", "item", "exists", "remove", "backend", "put"} =>
       r.kind \in {"create", "update", "delete", "healer"}
  /\ r.at \in {"register", "regput"} => r.kind = "register"
  /\ r.at \in {"unregister", "drop", "unscale"} => r.kind = "unregister"
  /\ r.at \in {"lock", "get"} => r.kind \in {"act", "healer"}
  /\ r.at \in {"remove", "exists", "backend", "put"} =>
       r.k \in 1 .. Len(r.items) /\ r.items[r.k].type \in Types

StageInv == \A h \in Handlers : Staged(req[h])

\* Who writes to the store for another reason than a registration still holds its
\* lock for reading.
SetInv == \A h \in Handlers : At(h, "set") => req[h].kind = "register" \/ h \in readers

\* The worker of the healers is one for all of them.
HealerInv == \A key \in work : key[1] = "healer" => key = <<"healer", CHOOSE i \in Ids : TRUE>>

\* Without a cloud nobody is about to put a scaler, and none is left, unless its
\* unregistration is under way.
OrphanInv ==
  ~cloud /\ ~raced =>
    /\ \A h \in Handlers : At(h, "put") => Item(h).type # "scaler"
    /\ (\A h \in Handlers : req[h].at \notin {"drop", "unscale"}) => OfType("scaler") = {}

\* The workers of the list that come before the one the handler is at were put, or
\* the request is answered with an error; success is answered at the end only.
Loop(r) ==
  /\ r.kind # "delete" /\ r.answer = "none" =>
       \A n \in 1 .. r.k - 1 : Key(r.items[n]) \in r.wrote
  /\ r.at # "done" => r.answer \in {"none", "error"}
  /\ r.at = "done" /\ r.answer = "ok" /\ r.kind # "delete" =>
       \A n \in DOMAIN r.items : Key(r.items[n]) \in r.wrote

LoopInv == \A h \in Handlers : Loop(req[h])

IInv == TypeOK /\ StageInv /\ SetInv /\ HealerInv /\ OrphanInv /\ LoopInv

-----------------------------------------------------------------------------
(* Workers and requests.                                                   *)

\* A worker of a known type has a key.
LEMMA KeyType ==
  ASSUME NEW w \in Workers, w.type \in Types
  PROVE  /\ Key(w) \in Keys /\ Key(w)[1] = w.type
         /\ w.type = "healer" => Key(w) = <<"healer", CHOOSE i \in Ids : TRUE>>
  BY ApiAssumption DEF Key, Keys, HealerId, Workers

\* What a request is when it arrives.
LEMMA RequestType ==
  ASSUME NEW q \in Requests
  PROVE  LET r == [q EXCEPT !.at = Begin(q)]
         IN  /\ r \in Serving /\ r.k = 1 /\ r.answer = "none" /\ r.wrote = {}
             /\ r.at \in {"cloud", "item", "lock", "register", "unregister"}
             /\ Staged(r)
<1>1. /\ q \in RequestsOf(Kinds \ {"none"}, BOOLEAN, BOOLEAN, BOOLEAN, Seq(Workers))
      /\ q.kind \in {"register", "unregister", "act"} => q.items = << >>
      /\ q.bulk => q.kind \in {"create", "update", "delete"}
  <2>1. << >> \in Seq(Workers)
    OBVIOUS
  <2>2. \A i \in Ids : <<Worker("healer", i, TRUE)>> \in Seq(Workers)
    BY DEF Worker, Workers, Types
  <2>3. CASE q \in RequestsOf({"create", "update", "delete"}, BOOLEAN, BOOLEAN, {TRUE}, Lists)
    BY <2>3, ApiAssumption DEF RequestsOf, Kinds
  <2>4. CASE q \in RequestsOf({"healer"}, {FALSE}, {FALSE}, BOOLEAN,
                              {<<Worker("healer", i, TRUE)>> : i \in Ids})
    <3> DEFINE P == {<<Worker("healer", i, TRUE)>> : i \in Ids}
    <3>1. P \subseteq Seq(Workers)
      BY <2>2
    <3>2. q \in RequestsOf({"healer"}, {FALSE}, {FALSE}, BOOLEAN, P)
      BY <2>4
    <3> HIDE DEF P
    <3> QED
      BY <3>1, <3>2 DEF RequestsOf, Kinds
  <2>5. CASE \/ q \in RequestsOf({"register"}, {FALSE}, BOOLEAN, BOOLEAN, {<< >>})
             \/ q \in RequestsOf({"unregister"}, {FALSE}, {FALSE}, BOOLEAN, {<< >>})
             \/ q \in RequestsOf({"act"}, {FALSE}, {FALSE}, {TRUE}, {<< >>})
    BY <2>1, <2>5 DEF RequestsOf, Kinds
  <2> QED
    BY <2>3, <2>4, <2>5 DEF Requests
<1> QED
  BY <1>1 DEF RequestsOf, Begin, Serving, Staged, Places, Kinds

-----------------------------------------------------------------------------
(* The steps.                                                              *)

\* Every step is one handler's, at a place of its request.
LEMMA Steps ==
  ASSUME Next
  PROVE  \E h \in Handlers :
           \/ \E q \in Requests : Arrive(h, q)
           \/ CheckCloud(h) \/ TakeItem(h) \/ Exists(h) \/ Remove(h) \/ Backend(h) \/ Put(h)
           \/ Register(h) \/ PutCloud(h) \/ Unregister(h) \/ Unscale(h)
           \/ GetLock(h) \/ Get(h) \/ Lock(h) \/ Fail(h)
  BY DEF Next, Serve, CreatesWorkers, UpdatesWorkers, DeletesWorkers, CreatesHealer,
         RegistersCloud, UnregistersCloud, AsksStore

\* The requests of the other handlers stay as they are.
LEMMA OthersStay ==
  ASSUME TypeOK, NEW h \in Handlers, NEW r, req' = [req EXCEPT ![h] = r]
  PROVE  req'[h] = r /\ \A g \in Handlers \ {h} : req'[g] = req[g]
  BY DEF TypeOK

-----------------------------------------------------------------------------
(* Types and the places of requests.                                       *)

\* The initial states satisfy the inductive invariant.
LEMMA InitIInv == Init => IInv
<1> SUFFICES ASSUME Init PROVE IInv
  OBVIOUS
<1>1. \A h \in Handlers : /\ req[h] \in Serving /\ req[h].kind = "none" /\ req[h].at = "idle"
                          /\ req[h].items = << >> /\ req[h].k = 1 /\ req[h].answer = "none"
  <2>1. << >> \in Seq(Workers)
    OBVIOUS
  <2>2. "none" \in Kinds /\ "idle" \in Places
    BY DEF Kinds, Places
  <2>3. \A h \in Handlers :
          req[h] \in RequestsOf({"none"}, {FALSE}, {FALSE}, {FALSE}, {<< >>})
    BY DEF Init
  <2> QED
    <3> SUFFICES ASSUME NEW h \in Handlers
                 PROVE  /\ req[h] \in Serving /\ req[h].kind = "none" /\ req[h].at = "idle"
                        /\ req[h].items = << >> /\ req[h].k = 1 /\ req[h].answer = "none"
      OBVIOUS
    <3>1. req[h] \in [kind : {"none"}, bulk : {FALSE}, force : {FALSE}, local : {FALSE},
                      items : {<< >>}, at : {"idle"}, k : {1}, answer : {"none"}, wrote : {{}}]
      BY <2>3 DEF RequestsOf
    <3>2. req[h] = [kind |-> "none", bulk |-> FALSE, force |-> FALSE, local |-> FALSE,
                    items |-> << >>, at |-> "idle", k |-> 1, answer |-> "none", wrote |-> {}]
      BY <3>1
    <3> QED
      BY <2>1, <2>2, <3>2 DEF Serving
<1>2. /\ work \subseteq Keys /\ HealerInv
      /\ ~cloud => OfType("scaler") = {}
  <2>1. \A key \in work : \E w \in Workers : w.type \in Types /\ key = Key(w)
    BY ApiAssumption DEF Init
  <2>2. work \subseteq Keys /\ HealerInv
    BY <2>1, KeyType DEF HealerInv, Types
  <2> QED
    BY <2>2 DEF Init, OfType
<1>3. TypeOK
  <2>1. req \in [Handlers -> Serving]
    BY <1>1 DEF Init
  <2>2. \A h \in Handlers : req[h].k \in 1 .. Len(req[h].items) + 1
    BY <1>1
  <2>3. requests \in 0 .. MaxRequests /\ fails \in 0 .. MaxFails
    BY ApiAssumption DEF Init
  <2> QED
    BY <1>1, <1>2, <2>1, <2>2, <2>3 DEF TypeOK, Init, At
<1>4. StageInv /\ SetInv /\ LoopInv
  BY <1>1 DEF StageInv, Staged, SetInv, LoopInv, Loop, At
<1>5. OrphanInv
  BY <1>1, <1>2 DEF OrphanInv, At
<1> QED
  BY <1>2, <1>3, <1>4, <1>5 DEF IInv

\* The record r of a request is one that a handler may have.
Fair(r) ==
  /\ r \in Serving /\ r.k \in 1 .. Len(r.items) + 1 /\ Staged(r)
  /\ r.at = "done" => r.answer # "none"

\* The other requests stay as they are, and so does what the client gave.
Keeps(h) ==
  /\ req' \in [Handlers -> Serving]
  /\ \A g \in Handlers \ {h} : req'[g] = req[g]
  /\ req'[h].kind = req[h].kind /\ req'[h].items = req[h].items

\* A handler that only goes on.
LEMMA Going ==
  ASSUME req \in [Handlers -> Serving], NEW h \in Handlers, NEW l \in Places, Goes(h, l)
  PROVE  /\ Keeps(h) /\ req'[h].at = l /\ req'[h].k = req[h].k
         /\ req'[h].answer = req[h].answer /\ req'[h].wrote = req[h].wrote
  BY DEF Goes, Keeps, Serving

\* A handler that is done.
LEMMA Ending ==
  ASSUME req \in [Handlers -> Serving], NEW h \in Handlers,
         NEW a \in {"ok", "error", "panic"}, Ends(h, a)
  PROVE  /\ Keeps(h) /\ req'[h].at = "done" /\ req'[h].k = req[h].k
         /\ req'[h].answer = Answer(h, a) /\ req'[h].wrote = req[h].wrote
<1>1. "done" \in Places /\ Answer(h, a) \in {"none", "ok", "error", "panic"}
  BY DEF Places, Answer, Serving
<1> QED
  BY <1>1 DEF Ends, Keeps, Serving

\* A handler that goes to the next worker.
LEMMA Continuing ==
  ASSUME req \in [Handlers -> Serving], NEW h \in Handlers, NextItem(h)
  PROVE  /\ Keeps(h) /\ req'[h].at = "item" /\ req'[h].k = req[h].k + 1
         /\ req'[h].answer = req[h].answer /\ req'[h].wrote = req[h].wrote
<1>1. "item" \in Places
  BY DEF Places
<1> QED
  BY <1>1 DEF NextItem, Keeps, Serving

\* A handler that leaves out a worker of a type it does not know.
LEMMA LeavingOut ==
  ASSUME req \in [Handlers -> Serving], NEW h \in Handlers,
         req' = [req EXCEPT ![h].k = @ + 1, ![h].answer = Answer(h, "error")]
  PROVE  /\ Keeps(h) /\ req'[h].at = req[h].at /\ req'[h].k = req[h].k + 1
         /\ req'[h].answer = Answer(h, "error") /\ req'[h].wrote = req[h].wrote
<1>1. Answer(h, "error") \in {"none", "ok", "error", "panic"}
  BY DEF Answer, Serving
<1> DEFINE s == [req[h] EXCEPT !.k = @ + 1, !.answer = Answer(h, "error")]
<1>2. s \in Serving
  <2>1. req[h] \in Serving /\ req[h].k + 1 \in Nat
    BY DEF Serving
  <2> QED
    BY <1>1, <2>1 DEF Serving
<1>3. req' = [req EXCEPT ![h] = s]
  OBVIOUS
<1>4. /\ s.kind = req[h].kind /\ s.items = req[h].items /\ s.at = req[h].at
      /\ s.k = req[h].k + 1 /\ s.answer = Answer(h, "error") /\ s.wrote = req[h].wrote
  BY DEF Serving
<1> HIDE DEF s
<1> QED
  BY <1>2, <1>3, <1>4 DEF Keeps

\* A handler that has put its worker.
LEMMA Putting ==
  ASSUME req \in [Handlers -> Serving], NEW h \in Handlers, Fair(req[h]), Put(h)
  PROVE  /\ Keeps(h) /\ req'[h].at = "item" /\ req'[h].k = req[h].k + 1
         /\ req'[h].answer = req[h].answer
         /\ req'[h].wrote = req[h].wrote \union {Key(Item(h))}
         /\ req[h].k \in 1 .. Len(req[h].items)
         /\ Item(h) \in Workers /\ Item(h).type \in Types /\ Key(Item(h)) \in Keys
<1>1. "item" \in Places
  BY DEF Places
<1>2. req[h].k \in 1 .. Len(req[h].items) /\ req[h].items \in Seq(Workers) /\ Item(h).type \in Types
  BY DEF Put, At, Fair, Staged, Serving, Item
<1>3. Item(h) \in Workers
  BY <1>2 DEF Item
<1>4. Key(Item(h)) \in Keys
  BY <1>2, <1>3, KeyType
<1> QED
  BY <1>1, <1>2, <1>3, <1>4 DEF Put, Keeps, Serving

\* A step leaves its handler with such a record.
LEMMA RecordStep ==
  ASSUME IInv, NEW h \in Handlers,
         \/ CheckCloud(h) \/ TakeItem(h) \/ Exists(h) \/ Remove(h) \/ Backend(h) \/ Put(h)
         \/ Register(h) \/ PutCloud(h) \/ Unregister(h) \/ Unscale(h)
         \/ GetLock(h) \/ Get(h) \/ Lock(h) \/ Fail(h)
  PROVE  Keeps(h) /\ Fair(req'[h])
<1>1. Fair(req[h]) /\ req \in [Handlers -> Serving]
  BY DEF IInv, TypeOK, StageInv, At, Fair
<1>2. /\ Types \union {"unknown"} = {"scaler", "scheduler", "healer", "unknown"}
      /\ \A n \in 1 .. Len(req[h].items) : req[h].items[n] \in Workers
  BY <1>1 DEF Fair, Serving, Types
<1>3. /\ req[h].k \in 1 .. Len(req[h].items) + 1 /\ Len(req[h].items) \in Nat
      /\ Staged(req[h]) /\ (At(h, "done") => req[h].answer # "none")
      /\ h \in writers <=> req[h].at \in {"set", "drop"}
  BY <1>1 DEF Fair, At, Serving, IInv, TypeOK
<1>4. ASSUME Keeps(h), req'[h].k \in 1 .. Len(req[h].items) + 1, Staged(req'[h]),
             req'[h].at = "done" => req'[h].answer # "none"
      PROVE  Fair(req'[h])
  BY <1>4 DEF Keeps, Fair
<1>5. {"item", "exists", "remove", "backend", "put", "regput", "set", "drop", "unscale",
       "lock", "get", "done"} \subseteq Places
  BY DEF Places
<1> USE <1>1, <1>3, <1>5 DEF At
<1>6. CASE CheckCloud(h)
  BY <1>4, <1>6, Going, Ending DEF CheckCloud, Keeps, Staged, Answer
<1>7. CASE TakeItem(h)
  BY <1>2, <1>4, <1>7, Going, Ending, LeavingOut DEF TakeItem, Keeps, Staged, Item, Answer, Workers
<1>8. CASE Exists(h)
  BY <1>4, <1>8, Going, Ending, Continuing DEF Exists, Prepare, Keeps, Staged, Answer
<1>9. CASE Remove(h)
  BY <1>4, <1>9, Going, Ending, Continuing DEF Remove, Prepare, Keeps, Staged, Answer
<1>10. CASE Backend(h)
  BY <1>4, <1>10, Going, Ending DEF Backend, Keeps, Staged, Answer
<1>11. CASE Put(h)
  <2>1. /\ Keeps(h) /\ req'[h].at = "item" /\ req'[h].k = req[h].k + 1
        /\ req'[h].answer = req[h].answer /\ req[h].k \in 1 .. Len(req[h].items)
    BY <1>11, Putting
  <2>2. At(h, "put")
    BY <1>11 DEF Put
  <2>3. Staged(req'[h])
    BY <2>1, <2>2 DEF Staged, Keeps
  <2> QED
    BY <1>4, <2>1, <2>2, <2>3
<1>12. CASE Register(h)
  BY <1>4, <1>12, Going, Ending DEF Register, Keeps, Staged, Answer
<1>13. CASE PutCloud(h)
  BY <1>4, <1>13, Going, Ending DEF PutCloud, Keeps, Staged, Answer
<1>14. CASE Unregister(h)
  BY <1>4, <1>14, Going, Ending DEF Unregister, Keeps, Staged, Answer
<1>15. CASE Unscale(h)
  BY <1>4, <1>15, Going, Ending DEF Unscale, Keeps, Staged, Answer
<1>16. CASE GetLock(h)
  BY <1>4, <1>16, Going, Ending DEF GetLock, Keeps, Staged, Answer
<1>17. CASE Get(h)
  BY <1>4, <1>17, Going, Ending DEF Get, Keeps, Staged, Answer, Found
<1>18. CASE Lock(h)
  BY <1>4, <1>18, Going, Ending DEF Lock, Keeps, Staged, Answer
<1>19. CASE Fail(h)
  BY <1>4, <1>19, Going, Ending DEF Fail, Keeps, Staged, Answer
<1> QED
  BY <1>6, <1>7, <1>8, <1>9, <1>10, <1>11, <1>12, <1>13, <1>14, <1>15, <1>16, <1>17, <1>18, <1>19

-----------------------------------------------------------------------------
(* Every step preserves the inductive invariant.                           *)

\* A handler that takes a request.
LEMMA Arriving ==
  ASSUME IInv, NEW h \in Handlers, NEW q \in Requests, Arrive(h, q)
  PROVE  /\ req' \in [Handlers -> Serving] /\ \A g \in Handlers \ {h} : req'[g] = req[g]
         /\ Fair(req'[h]) /\ Loop(req'[h])
         /\ req'[h].at \in {"cloud", "item", "lock", "register", "unregister"}
         /\ req[h].at \in {"idle", "done"}
<1> DEFINE r == [q EXCEPT !.at = Begin(q)]
<1>1. /\ r \in Serving /\ r.k = 1 /\ r.answer = "none" /\ Staged(r)
      /\ r.at \in {"cloud", "item", "lock", "register", "unregister"}
  BY RequestType
<1> HIDE DEF r
<1>2. req' = [req EXCEPT ![h] = r] /\ req[h].at \in {"idle", "done"}
  BY DEF Arrive, r
<1>3. req \in [Handlers -> Serving] /\ req'[h] = r
  BY <1>2 DEF IInv, TypeOK
<1>4. r.items \in Seq(Workers) /\ 1 \in 1 .. Len(r.items) + 1
  BY <1>1 DEF Serving
<1>5. Fair(r) /\ Loop(r)
  BY <1>1, <1>4 DEF Fair, Loop
<1> QED
  BY <1>1, <1>2, <1>3, <1>5

\* Who holds the lock of the store, and for what.
LEMMA LockStep ==
  ASSUME IInv, NEW h \in Handlers,
         \/ CheckCloud(h) \/ TakeItem(h) \/ Exists(h) \/ Remove(h) \/ Backend(h) \/ Put(h)
         \/ Register(h) \/ PutCloud(h) \/ Unregister(h) \/ Unscale(h)
         \/ GetLock(h) \/ Get(h) \/ Lock(h) \/ Fail(h)
  PROVE  /\ readers' \subseteq Handlers /\ writers' \subseteq Handlers
         /\ \A g \in Handlers :
              /\ At(g, "get")' => g \in readers'
              /\ req'[g].at \in {"set", "drop"} <=> g \in writers'
              /\ At(g, "set")' => req'[g].kind = "register" \/ g \in readers'
<1>1. /\ readers \subseteq Handlers /\ writers \subseteq Handlers
      /\ req \in [Handlers -> Serving] /\ Fair(req[h])
  BY DEF IInv, TypeOK, StageInv, Fair, At
<1>2. \A g \in Handlers :
        /\ req[g].at = "get" => g \in readers
        /\ req[g].at \in {"set", "drop"} <=> g \in writers
        /\ req[g].at = "set" => req[g].kind = "register" \/ g \in readers
  BY DEF IInv, TypeOK, SetInv, At
<1>3. Keeps(h)
  BY RecordStep
<1>4. {"item", "exists", "remove", "backend", "put", "regput", "set", "drop", "unscale",
       "lock", "get", "done"} \subseteq Places
  BY DEF Places
<1>5. Staged(req[h])
  BY <1>1 DEF Fair
<1>6. CASE GetLock(h) \/ Get(h) \/ Lock(h)
  BY <1>1, <1>2, <1>3, <1>4, <1>5, <1>6, Going, Ending DEF GetLock, Get, Lock, Found, At, Keeps, Staged
<1>7. CASE PutCloud(h) \/ Unregister(h)
  BY <1>1, <1>2, <1>3, <1>4, <1>5, <1>7, Going, Ending DEF PutCloud, Unregister, At, Keeps, Staged
<1>8. CASE \/ CheckCloud(h) \/ TakeItem(h) \/ Exists(h) \/ Remove(h) \/ Backend(h) \/ Put(h)
           \/ Register(h) \/ Unscale(h) \/ Fail(h)
  <2>1. UNCHANGED <<readers, writers>>
    BY <1>8 DEF CheckCloud, TakeItem, Exists, Remove, Backend, Put, Register, Unscale, Fail, store
  <2>2. req[h].at \notin {"get", "set", "drop"}
    BY <1>8 DEF CheckCloud, TakeItem, Exists, Remove, Backend, Put, Register, Unscale, Fail, At
  <2>3. req'[h].at \notin {"get", "set", "drop"}
    <3>1. CASE CheckCloud(h)
      BY <3>1, <1>1, <1>4, Going, Ending, Continuing DEF CheckCloud
    <3>2. CASE TakeItem(h)
      BY <3>2, <1>1, <1>4, Going, Ending, LeavingOut DEF TakeItem, At
    <3>3. CASE Exists(h)
      BY <3>3, <1>1, <1>4, Going, Ending, Continuing DEF Exists, Prepare
    <3>4. CASE Remove(h)
      BY <3>4, <1>1, <1>4, Going, Ending, Continuing DEF Remove, Prepare
    <3>5. CASE Backend(h)
      BY <3>5, <1>1, <1>4, Going, Ending, Continuing DEF Backend
    <3>6. CASE Put(h)
      BY <3>6, <1>1, Putting DEF Put
    <3>7. CASE Register(h)
      BY <3>7, <1>1, <1>4, Going, Ending, Continuing DEF Register
    <3>8. CASE Unscale(h)
      BY <3>8, <1>1, <1>4, Going, Ending, Continuing DEF Unscale
    <3>9. CASE Fail(h)
      BY <3>9, <1>1, <1>4, Going, Ending, Continuing DEF Fail
    <3> QED
      BY <1>8, <3>1, <3>2, <3>3, <3>4, <3>5, <3>6, <3>7, <3>8, <3>9
  <2> QED
    BY <1>1, <1>2, <1>3, <2>1, <2>2, <2>3 DEF At, Keeps
<1> QED
  BY <1>6, <1>7, <1>8

\* Types and places.
LEMMA TypeStep ==
  ASSUME IInv, Next
  PROVE  TypeOK' /\ StageInv' /\ SetInv'
<1>1. PICK h \in Handlers :
           \/ \E q \in Requests : Arrive(h, q)
           \/ CheckCloud(h) \/ TakeItem(h) \/ Exists(h) \/ Remove(h) \/ Backend(h) \/ Put(h)
           \/ Register(h) \/ PutCloud(h) \/ Unregister(h) \/ Unscale(h)
           \/ GetLock(h) \/ Get(h) \/ Lock(h) \/ Fail(h)
  BY Steps
<1>2. \A g \in Handlers : Fair(req[g])
  BY DEF IInv, TypeOK, StageInv, Fair, At
<1>3. /\ req' \in [Handlers -> Serving] /\ \A g \in Handlers \ {h} : req'[g] = req[g]
      /\ Fair(req'[h])
  BY <1>1, Arriving, RecordStep DEF Keeps
<1>4. \A g \in Handlers : Fair(req'[g])
  BY <1>2, <1>3
<1>5. StageInv'
  BY <1>4 DEF StageInv, Fair
<1>6. /\ readers' \subseteq Handlers /\ writers' \subseteq Handlers /\ SetInv'
      /\ \A g \in Handlers :
           /\ At(g, "get")' => g \in readers'
           /\ req'[g].at \in {"set", "drop"} <=> g \in writers'
  <2>1. CASE \E q \in Requests : Arrive(h, q)
    <3>1. UNCHANGED store
      BY <2>1 DEF Arrive
    <3>2. /\ req[h].at \in {"idle", "done"}
          /\ req'[h].at \in {"cloud", "item", "lock", "register", "unregister"}
      BY <2>1, Arriving
    <3> QED
      BY <1>3, <3>1, <3>2 DEF IInv, TypeOK, SetInv, At, store
  <2>2. CASE
           \/ CheckCloud(h) \/ TakeItem(h) \/ Exists(h) \/ Remove(h) \/ Backend(h) \/ Put(h)
           \/ Register(h) \/ PutCloud(h) \/ Unregister(h) \/ Unscale(h)
           \/ GetLock(h) \/ Get(h) \/ Lock(h) \/ Fail(h)
    BY <2>2, LockStep DEF SetInv
  <2> QED
    BY <1>1, <2>1, <2>2
<1>7. {cloud', cached', raced'} \subseteq BOOLEAN
  <2>1. {cloud, cached, raced} \subseteq BOOLEAN
    BY DEF IInv, TypeOK
  <2> QED
    BY <1>1, <2>1 DEF At, etcd, store, Arrive, CheckCloud, TakeItem, Exists, Remove, Backend, Put, Register, PutCloud, Unregister, Unscale, GetLock, Get, Lock, Fail
<1>8. work' \subseteq Keys
  <2>1. work \subseteq Keys
    BY DEF IInv, TypeOK
  <2>2. CASE Put(h)
    <3>1. req \in [Handlers -> Serving] /\ Fair(req[h])
      BY <1>2 DEF IInv, TypeOK
    <3>2. Key(Item(h)) \in Keys
      BY <2>2, <3>1, Putting
    <3> QED
      BY <2>1, <2>2, <3>2 DEF Put
  <2>3. CASE ~Put(h)
    BY <1>1, <2>1, <2>3 DEF etcd, Arrive, CheckCloud, TakeItem, Exists, Remove, Backend, Register, PutCloud, Unregister, Unscale, GetLock, Get, Lock, Fail
  <2> QED
    BY <2>2, <2>3
<1>9. requests' \in 0 .. MaxRequests /\ fails' \in 0 .. MaxFails
  <2>1. requests \in 0 .. MaxRequests /\ fails \in 0 .. MaxFails
    BY DEF IInv, TypeOK
  <2>2. CASE \E q \in Requests : Arrive(h, q)
    BY <2>1, <2>2, ApiAssumption DEF Arrive
  <2>3. CASE Fail(h)
    BY <2>1, <2>3, ApiAssumption DEF Fail
  <2>4. CASE Get(h)
    <3>1. requests' = requests
      BY <2>4 DEF Get
    <3>2. CASE ~cached /\ cloud /\ req'[h].at = "done"
      <4>1. fails < MaxFails
        BY <2>4, <3>2, Going DEF Get, IInv, TypeOK, Places
      <4> QED
        BY <2>1, <2>4, <3>1, <3>2, <4>1, ApiAssumption DEF Get
    <3>3. CASE ~(~cached /\ cloud /\ req'[h].at = "done")
      BY <2>1, <2>4, <3>1, <3>3 DEF Get
    <3> QED
      BY <3>2, <3>3
  <2>5. CASE UNCHANGED counts
    BY <2>1, <2>5 DEF counts
  <2> QED
    BY <1>1, <2>2, <2>3, <2>4, <2>5 DEF CheckCloud, TakeItem, Exists, Remove, Backend, Put, Register, PutCloud, Unregister, Unscale, GetLock, Lock
<1> QED
  BY <1>3, <1>4, <1>5, <1>6, <1>7, <1>8, <1>9 DEF TypeOK, Fair, At

\* Only a put makes a key, of a worker in the list.
LEMMA HealerStep ==
  ASSUME IInv, Next
  PROVE  HealerInv'
<1>1. PICK h \in Handlers :
           \/ \E q \in Requests : Arrive(h, q)
           \/ CheckCloud(h) \/ TakeItem(h) \/ Exists(h) \/ Remove(h) \/ Backend(h) \/ Put(h)
           \/ Register(h) \/ PutCloud(h) \/ Unregister(h) \/ Unscale(h)
           \/ GetLock(h) \/ Get(h) \/ Lock(h) \/ Fail(h)
  BY Steps
<1>2. req \in [Handlers -> Serving] /\ Fair(req[h])
  BY DEF IInv, TypeOK, StageInv, Fair, At
<1>3. HealerInv
  BY DEF IInv
<1>4. CASE Put(h)
  <2>1. Item(h) \in Workers /\ Item(h).type \in Types
    BY <1>2, <1>4, Putting
  <2>2. Key(Item(h))[1] = "healer" => Key(Item(h)) = <<"healer", CHOOSE i \in Ids : TRUE>>
    BY <2>1, KeyType
  <2>3. work' = work \union {Key(Item(h))}
    BY <1>4 DEF Put
  <2> QED
    BY <1>3, <2>2, <2>3 DEF HealerInv
<1>5. CASE ~Put(h)
  <2>1. work' \subseteq work
    BY <1>1, <1>5 DEF etcd, Arrive, CheckCloud, TakeItem, Exists, Remove, Backend, Register, PutCloud, Unregister, Unscale, GetLock, Get, Lock, Fail
  <2> QED
    BY <1>3, <2>1 DEF HealerInv
<1> QED
  BY <1>4, <1>5

\* An unregistration finds no scaler under way or is observed, and takes the scalers
\* with it; then a scaler does not get past its backend.
LEMMA OrphanStep ==
  ASSUME IInv, Next
  PROVE  OrphanInv'
<1>1. PICK h \in Handlers :
           \/ \E q \in Requests : Arrive(h, q)
           \/ CheckCloud(h) \/ TakeItem(h) \/ Exists(h) \/ Remove(h) \/ Backend(h) \/ Put(h)
           \/ Register(h) \/ PutCloud(h) \/ Unregister(h) \/ Unscale(h)
           \/ GetLock(h) \/ Get(h) \/ Lock(h) \/ Fail(h)
  BY Steps
<1>2. req \in [Handlers -> Serving] /\ Fair(req[h])
  BY DEF IInv, TypeOK, StageInv, Fair, At
<1> SUFFICES ASSUME ~cloud', ~raced'
             PROVE  /\ \A g \in Handlers : At(g, "put")' => Item(g)'.type # "scaler"
                    /\ (\A g \in Handlers : req'[g].at \notin {"drop", "unscale"}) =>
                         OfType("scaler")' = {}
  BY DEF OrphanInv
<1>3. ~raced
  BY <1>1 DEF Arrive, CheckCloud, TakeItem, Exists, Remove, Backend, Put, Register, PutCloud, Unregister, Unscale, GetLock, Get, Lock, Fail
<1>4. /\ req' \in [Handlers -> Serving] /\ \A g \in Handlers \ {h} : req'[g] = req[g]
      /\ Fair(req'[h])
  BY <1>1, Arriving, RecordStep DEF Keeps
<1>5. CASE Unregister(h)
  <2>1. UnderWay = {}
    BY <1>5 DEF Unregister
  <2>2. req'[h].at \in {"drop", "unscale"}
    BY <1>2, <1>5, Going DEF Unregister, Places
  <2> QED
    BY <1>4, <2>1, <2>2 DEF UnderWay, At, Item
<1>6. CASE ~Unregister(h)
  <2>1. ~cloud
    BY <1>1, <1>6 DEF etcd, Arrive, CheckCloud, TakeItem, Exists, Remove, Backend, Put, Register, PutCloud, Unscale, GetLock, Get, Lock, Fail
  <2>2. /\ \A g \in Handlers : At(g, "put") => Item(g).type # "scaler"
        /\ (\A g \in Handlers : req[g].at \notin {"drop", "unscale"}) => OfType("scaler") = {}
    BY <1>3, <2>1 DEF OrphanInv, IInv
  <2>3. At(h, "put")' => Item(h)'.type # "scaler"
    <3>1. CASE \E q \in Requests : Arrive(h, q)
      BY <3>1, Arriving DEF At
    <3>2. CASE Exists(h) \/ Remove(h)
      BY <1>2, <1>4, <3>2, Going, Ending, Continuing
      DEF Exists, Remove, Prepare, At, Item, Places, Keeps
    <3>3. CASE TakeItem(h)
      BY <1>2, <3>3, Going, Ending, LeavingOut DEF TakeItem, At, Places
    <3>4. CASE Put(h)
      BY <1>2, <3>4, Putting DEF At
    <3>5. CASE PutCloud(h)
      BY <3>5 DEF PutCloud
    <3>6. CASE Get(h) \/ Lock(h) \/ GetLock(h)
      BY <1>2, <3>6, Going, Ending DEF Get, Found, Lock, GetLock, At, Places
    <3>7. CASE CheckCloud(h) \/ Backend(h) \/ Register(h) \/ Unscale(h) \/ Fail(h)
      BY <1>2, <2>1, <3>7, Going, Ending
      DEF CheckCloud, Backend, Register, Unscale, Fail, At, Places
    <3> QED
      BY <1>1, <1>6, <3>1, <3>2, <3>3, <3>4, <3>5, <3>6, <3>7
  <2>4. ASSUME \A g \in Handlers : req'[g].at \notin {"drop", "unscale"}
        PROVE  OfType("scaler")' = {}
    <3>1. CASE Unscale(h)
      BY <3>1 DEF Unscale, OfType
    <3>2. CASE Put(h)
      <4>1. req[h].at = "put" /\ Key(Item(h))[1] # "scaler"
        BY <1>2, <2>2, <3>2, Putting, KeyType DEF Put, At
      <4>2. OfType("scaler") = {}
        BY <1>4, <2>2, <2>4, <4>1
      <4> QED
        BY <3>2, <4>1, <4>2 DEF Put, OfType
    <3>3. CASE ~Unscale(h) /\ ~Put(h)
      <4>1. work' \subseteq work
        BY <1>1, <3>3 DEF etcd, Arrive, CheckCloud, TakeItem, Exists, Remove, Backend, Register, PutCloud, Unregister, GetLock, Get, Lock, Fail
      <4>2. req[h].at \notin {"drop", "unscale"}
        <5>1. CASE Lock(h)
          BY <1>2, <2>4, <5>1, Going DEF Lock, At, Places, IInv, TypeOK
        <5>2. CASE Fail(h)
          BY <1>2, <5>2 DEF Fail, At, Fair, Serving
        <5>3. CASE ~Lock(h) /\ ~Fail(h)
          BY <1>1, <1>6, <3>3, <5>3 DEF At, Arrive, CheckCloud, TakeItem, Exists, Remove, Backend, Register, PutCloud, GetLock, Get
        <5> QED
          BY <5>1, <5>2, <5>3
      <4> QED
        BY <1>4, <2>2, <2>4, <4>1, <4>2 DEF OfType
    <3> QED
      BY <3>1, <3>2, <3>3
  <2>5. \A g \in Handlers : At(g, "put")' => Item(g)'.type # "scaler"
    BY <1>4, <2>2, <2>3 DEF At, Item
  <2> QED
    BY <2>4, <2>5
<1> QED
  BY <1>5, <1>6

\* A handler gets past a worker by putting it, unless it answers with an error.
LEMMA LoopStep ==
  ASSUME IInv, Next
  PROVE  LoopInv'
<1>1. PICK h \in Handlers :
           \/ \E q \in Requests : Arrive(h, q)
           \/ CheckCloud(h) \/ TakeItem(h) \/ Exists(h) \/ Remove(h) \/ Backend(h) \/ Put(h)
           \/ Register(h) \/ PutCloud(h) \/ Unregister(h) \/ Unscale(h)
           \/ GetLock(h) \/ Get(h) \/ Lock(h) \/ Fail(h)
  BY Steps
<1>2. req \in [Handlers -> Serving] /\ Fair(req[h])
  BY DEF IInv, TypeOK, StageInv, Fair, At
<1>3. Loop(req[h]) /\ \A g \in Handlers : Loop(req[g])
  BY DEF IInv, LoopInv
<1>4. /\ req' \in [Handlers -> Serving] /\ \A g \in Handlers \ {h} : req'[g] = req[g]
  BY <1>1, Arriving, RecordStep DEF Keeps
<1> SUFFICES Loop(req'[h])
  BY <1>3, <1>4 DEF LoopInv
<1>5. CASE \E q \in Requests : Arrive(h, q)
  BY <1>5, Arriving
<1>6. ASSUME At(h, "done") => FALSE, NEW a \in {"error", "panic"}, Ends(h, a)
      PROVE  Loop(req'[h])
  BY <1>2, <1>3, <1>6, Ending DEF Loop, Keeps, Answer, At
<1>7. ASSUME At(h, "done") => FALSE, NEW l \in Places \ {"done"}, Goes(h, l)
      PROVE  Loop(req'[h])
  BY <1>2, <1>3, <1>7, Going DEF Loop, Keeps, At
<1>8. ASSUME At(h, "done") => FALSE, Ends(h, "ok"),
             req[h].items = << >> \/ req[h].k = Len(req[h].items) + 1
      PROVE  Loop(req'[h])
  <2>1. req[h].items \in Seq(Workers) /\ req[h].k \in 1 .. Len(req[h].items) + 1
    BY <1>2 DEF Fair, Serving
  <2>2. DOMAIN req[h].items = 1 .. req[h].k - 1
    BY <1>8, <2>1
  <2> QED
    BY <1>2, <1>3, <1>8, <2>2, Ending DEF Loop, Keeps, Answer, At
<1>9. CASE CheckCloud(h) \/ Exists(h) \/ Backend(h) \/ Register(h) \/ Unregister(h) \/ GetLock(h)
           \/ Fail(h)
  BY <1>6, <1>7, <1>9
  DEF CheckCloud, Exists, Backend, Register, Unregister, GetLock, Fail, Prepare, At, Places
<1>10. CASE Put(h)
  <2>1. /\ req'[h].kind = req[h].kind /\ req'[h].items = req[h].items
        /\ req'[h].at = "item" /\ req'[h].k = req[h].k + 1 /\ req'[h].answer = req[h].answer
        /\ req'[h].wrote = req[h].wrote \union {Key(req[h].items[req[h].k])}
        /\ req[h].at = "put" /\ req[h].k \in 1 .. Len(req[h].items)
    BY <1>2, <1>10, Putting DEF Put, At, Keeps, Item
  <2>2. 1 .. req'[h].k - 1 = (1 .. req[h].k - 1) \union {req[h].k}
    BY <2>1
  <2> QED
    BY <1>3, <2>1, <2>2 DEF Loop
<1>11. CASE TakeItem(h)
  <2>1. At(h, "item")
    BY <1>11 DEF TakeItem
  <2>2. CASE req[h].k > Len(req[h].items)
    <3>1. req[h].k = Len(req[h].items) + 1
      BY <1>2, <2>2 DEF Fair, Serving
    <3> QED
      BY <1>8, <1>11, <2>1, <2>2, <3>1 DEF TakeItem, At
  <2>3. CASE ~(req[h].k > Len(req[h].items)) /\ Item(h).type = "unknown"
    <3>1. req' = [req EXCEPT ![h].k = @ + 1, ![h].answer = Answer(h, "error")]
      BY <1>11, <2>3 DEF TakeItem
    <3> QED
      <4>1. req'[h].at = "item" /\ req'[h].answer = Answer(h, "error")
        BY <1>2, <2>1, <3>1, LeavingOut DEF At
      <4>2. req'[h].answer = "error"
        BY <1>3, <2>1, <4>1 DEF Answer, Loop, At
      <4> QED
        BY <4>1, <4>2 DEF Loop
  <2>4. CASE ~(req[h].k > Len(req[h].items)) /\ Item(h).type # "unknown"
    BY <1>6, <1>7, <1>11, <2>1, <2>4 DEF TakeItem, At, Places
  <2> QED
    BY <2>2, <2>3, <2>4
<1>12. CASE Remove(h)
  <2>1. At(h, "remove")
    BY <1>12 DEF Remove
  <2>2. CASE req[h].kind = "delete"
    BY <1>2, <1>3, <1>12, <2>1, <2>2, Continuing DEF Remove, Loop, Keeps, At
  <2>3. CASE req[h].kind # "delete"
    BY <1>6, <1>7, <1>12, <2>1, <2>3 DEF Remove, Prepare, At, Places
  <2> QED
    BY <2>2, <2>3
<1>13. CASE PutCloud(h) \/ Unscale(h)
  <2>1. req[h].items = << >> /\ req[h].at \in {"regput", "unscale"}
    BY <1>2, <1>13 DEF PutCloud, Unscale, At, Fair, Staged
  <2> QED
    BY <1>7, <1>8, <1>13, <2>1 DEF PutCloud, Unscale, At, Places
<1>14. CASE Get(h)
  <2>1. At(h, "get") /\ (req[h].kind = "act" => req[h].items = << >>)
    BY <1>2, <1>14 DEF Get, Fair, Staged
  <2> QED
    BY <1>6, <1>7, <1>8, <1>14, <2>1 DEF Get, Found, At, Places
<1>15. CASE Lock(h)
  <2>1. /\ req[h].at \in {"set", "drop"}
        /\ req[h].at = "set" => req[h].kind = "register"
    BY <1>15 DEF Lock, IInv, TypeOK, SetInv, At
  <2>2. req[h].at = "set" => req[h].items = << >>
    BY <1>2, <2>1 DEF Fair, Staged
  <2> QED
    BY <1>7, <1>8, <1>15, <2>1, <2>2 DEF Lock, At, Places
<1> QED
  BY <1>1, <1>5, <1>9, <1>10, <1>11, <1>12, <1>13, <1>14, <1>15

\* The invariant is inductive.
LEMMA StepIInv == IInv /\ [Next]_vars => IInv'
<1> SUFFICES ASSUME IInv, [Next]_vars PROVE IInv'
  OBVIOUS
<1>1. CASE Next
  BY <1>1, TypeStep, HealerStep, OrphanStep, LoopStep DEF IInv
<1>2. CASE UNCHANGED vars
  BY <1>2 DEF IInv, TypeOK, StageInv, SetInv, HealerInv, OrphanInv, LoopInv, vars, etcd, store,
              counts, At, Item, OfType
<1> QED
  BY <1>1, <1>2

\* IInv holds throughout.
LEMMA Invariance == Spec => []IInv
  BY InitIInv, StepIInv, PTL DEF Spec

-----------------------------------------------------------------------------
(* The theorems.                                                           *)

\* Every request that is over was answered, and only those that wait for the lock of
\* the store or hold it for reading stand where the store has it.
THEOREM TypeCorrect == Spec => []TypeOK
<1>1. IInv => TypeOK
  BY DEF IInv
<1> QED
  BY <1>1, Invariance, PTL

\* However requests to create the healer cross, a cloud has one at most (api/healer.go).
THEOREM HealerIsAlone == Spec => []OneHealer
<1>1. IInv => OneHealer
  <2> SUFFICES ASSUME IInv PROVE OneHealer
    OBVIOUS
  <2> DEFINE one == {<<"healer", CHOOSE i \in Ids : TRUE>>}
  <2>1. OfType("healer") \subseteq one
    BY DEF IInv, HealerInv, OfType
  <2>2. IsFiniteSet(one) /\ Cardinality(one) = 1
    BY FS_Singleton
  <2>3. Cardinality(OfType("healer")) <= Cardinality(one)
    BY <2>1, <2>2, FS_Subset
  <2> QED
    BY <2>2, <2>3 DEF OneHealer
<1> QED
  BY <1>1, Invariance, PTL

\* A cloud whose unregistration is over, and met no scaler under way and no failure,
\* leaves no scaler behind, whatever other requests ran beside it (api/cloud.go).
THEOREM ScalersGoWithCloud == Spec => []NoOrphanScalers
<1>1. IInv => NoOrphanScalers
  BY DEF IInv, OrphanInv, NoOrphanScalers
<1> QED
  BY <1>1, Invariance, PTL

\* A request that is answered with success has put every worker it gave (api/bulk_worker.go).
THEOREM SuccessIsStored == Spec => []AcceptedIsStored
<1>1. IInv => AcceptedIsStored
  BY DEF IInv, LoopInv, Loop, AcceptedIsStored, At
<1> QED
  BY <1>1, Invariance, PTL
=============================================================================
