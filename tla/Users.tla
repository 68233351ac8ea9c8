------------------------------- MODULE Users --------------------------------
(***************************************************************************)
(* Users and their policies (api/users.go, policy.go) on the nodes of a    *)
(* cluster, the check that precedes every request (middleware.Authorizer), *)
(* and the policy engine of each node, casbin with its adapter for etcd    *)
(* (vendored).  The engine keeps the policies in memory, shared by all     *)
(* handlers of the node, and nothing locks it.                             *)
(*                                                                         *)
(* The administrator makes every request.  There is one other user.        *)
(***************************************************************************)
EXTENDS Integers, FiniteSets

CONSTANTS
  Nodes,
  Handlers,     \* bound: goroutines that serve a request at a time
  None,
  MaxRequests,  \* bound: requests and starts of nodes
  MaxFails      \* bound: requests to etcd that fail

ASSUME UsersAssumption == None \notin Nodes /\ MaxRequests \in Nat /\ MaxFails \in Nat

\* "/*" of the administrator; of the user, "/clouds", which addUser grants, and one more.
Policies == {"admin", "view", "extra"}
OfUser == {"view", "extra"}

VARIABLES
  user,      \* etcd: the user's key
  policies,  \* etcd: the policies
  mem,       \* the policies in a node's engine
  req,       \* the request each handler serves: its kind, its node, where it is, and
             \* the policies it is yet to write or delete
  requests, fails,
  (* Observers. *)
  due,       \* the policies the user was granted and that were not revoked
  crossed,   \* requests met that disturb each other, see Disturbs
  broken     \* addUser, removeUser or a save failed after it had written

etcd == <<user, policies>>
counts == <<requests, fails>>
observers == <<due, crossed, broken>>
vars == <<etcd, mem, req, counts, observers>>

Kinds == {"addUser", "removeUser", "changePassword", "addPolicies", "removePolicies",
          "listUsers", "other", "start"}
Writes == Kinds \ {"listUsers", "other"}

Nothing == [kind |-> "other", node |-> None, at |-> "idle", todo |-> {}]

Init ==
  /\ user \in BOOLEAN
  /\ due = IF user THEN {"view"} ELSE {}
  /\ policies = {"admin"} \union due
  /\ mem \in [Nodes -> {{}, policies}]
  /\ req = [h \in Handlers |-> Nothing]
  /\ requests = 0 /\ fails = 0 /\ crossed = FALSE /\ broken = FALSE

At(h, l) == req[h].at = l
Kind(h, k) == req[h].kind = k
Mem(h) == mem[req[h].node]
SetMem(h, p) == mem' = [mem EXCEPT ![req[h].node] = p]
Goes(h, l) == req' = [req EXCEPT ![h].at = l]
GoesWith(h, l, p) == req' = [req EXCEPT ![h].at = l, ![h].todo = p]
Ends(h) == req' = [req EXCEPT ![h] = Nothing]

-----------------------------------------------------------------------------
\* Two requests disturb each other when they share an engine, which each of them
\* empties and fills again, or when both write.
Disturbs(k, n, h) ==
  ~At(h, "idle") /\ (req[h].node = n \/ {k, req[h].kind} \subseteq Writes)

\* A node serves requests once it has started.
Arrive(h, k, n) ==
  /\ At(h, "idle") /\ requests < MaxRequests
  /\ \A g \in Handlers : req[g].node = n => "start" \notin {k, req[g].kind}
  /\ requests' = requests + 1
  /\ req' = [req EXCEPT ![h] = [kind |-> k, node |-> n, at |-> "clear", todo |-> {}]]
  /\ crossed' = (crossed \/ \E g \in Handlers : Disturbs(k, n, g))
  /\ UNCHANGED <<etcd, mem, fails, due, broken>>

\* LoadPolicy empties the engine ...
Clear(h) ==
  /\ At(h, "clear")
  /\ SetMem(h, {}) /\ Goes(h, "load")
  /\ UNCHANGED <<etcd, counts, observers>>

\* ... and fills it from etcd; its error is not looked at.
Load(h) ==
  /\ At(h, "load")
  /\ SetMem(h, Mem(h) \union policies)
  /\ IF Kind(h, "start") THEN GoesWith(h, "grant", {"admin"}) ELSE Goes(h, "enforce")
  /\ UNCHANGED <<etcd, counts, observers>>

\* The administrator is denied what the engine does not allow.
Enforce(h) ==
  /\ At(h, "enforce")
  /\ IF "admin" \notin Mem(h) \/ Kind(h, "other") THEN Ends(h)
     ELSE IF Kind(h, "listUsers") THEN req' = [req EXCEPT ![h].at = "clear", ![h].kind = "other"]
     ELSE Goes(h, "check")
  /\ UNCHANGED <<etcd, mem, counts, observers>>

\* The user must be there, or for addUser must not.  The two handlers of policies
\* take a list of any rules of the user.
Check(h) ==
  /\ At(h, "check")
  /\ IF user = Kind(h, "addUser") THEN Ends(h)
     ELSE CASE req[h].kind \in {"addUser", "changePassword"} -> Goes(h, "put")
            [] Kind(h, "removeUser") -> Goes(h, "delete")
            [] Kind(h, "addPolicies") -> \E p \in SUBSET OfUser : GoesWith(h, "grant", p)
            [] Kind(h, "removePolicies") -> \E p \in SUBSET OfUser : GoesWith(h, "revoke", p)
  /\ UNCHANGED <<etcd, mem, counts, observers>>

PutUser(h) ==
  /\ At(h, "put")
  /\ user' = TRUE
  /\ IF Kind(h, "addUser") THEN GoesWith(h, "grant", {"view"}) /\ due' = {"view"}
       ELSE Ends(h) /\ UNCHANGED due
  /\ UNCHANGED <<policies, mem, counts, crossed, broken>>

DeleteUser(h) ==
  /\ At(h, "delete")
  /\ user' = FALSE /\ due' = {}
  /\ Goes(h, "filter")
  /\ UNCHANGED <<policies, mem, counts, crossed, broken>>

\* Fault: the rules are not filtered.
FilterNothing(h) ==
  /\ At(h, "filter")
  /\ GoesWith(h, "revoke", Mem(h))
  /\ UNCHANGED <<etcd, mem, counts, observers>>

\* GetFilteredPolicy.
Filter(h) ==
  /\ At(h, "filter")
  /\ GoesWith(h, "revoke", Mem(h) \intersect OfUser)
  /\ UNCHANGED <<etcd, mem, counts, observers>>

\* A handler of policies saves the whole engine in the end, also if nothing changed.
Closes(h) ==
  IF req[h].kind \in {"addPolicies", "removePolicies"} THEN Goes(h, "destroy") ELSE Ends(h)

\* AddPolicies, AddPolicy: nothing is added if the engine has one of them, which only
\* addUser and a start take for an error.
Grant(h) ==
  LET p == req[h].todo IN
  /\ At(h, "grant")
  /\ IF p \intersect Mem(h) # {} THEN Closes(h) /\ UNCHANGED <<mem, due>>
     ELSE /\ SetMem(h, Mem(h) \union p) /\ Goes(h, "write")
          /\ due' = IF Kind(h, "addPolicies") THEN due \union p ELSE due
  /\ UNCHANGED <<etcd, counts, crossed, broken>>

\* Each is written through to etcd.
WriteGrant(h) ==
  /\ At(h, "write")
  /\ IF req[h].todo = {} THEN Closes(h) /\ UNCHANGED policies
     ELSE \E p \in req[h].todo :
            /\ policies' = policies \union {p}
            /\ GoesWith(h, "write", req[h].todo \ {p})
  /\ UNCHANGED <<user, mem, counts, observers>>

\* RemovePolicies: nothing is removed unless the engine has them all; only removeUser
\* takes that for an error.
Revoke(h) ==
  LET p == req[h].todo IN
  /\ At(h, "revoke")
  /\ IF ~(p \subseteq Mem(h)) THEN Closes(h) /\ UNCHANGED <<mem, due>>
     ELSE /\ SetMem(h, Mem(h) \ p) /\ Goes(h, "unwrite")
          /\ due' = IF Kind(h, "removePolicies") THEN due \ p ELSE due
  /\ UNCHANGED <<etcd, counts, crossed, broken>>

\* Fault: only the engine forgets them.
WriteRevokeNothing(h) ==
  /\ At(h, "unwrite") /\ Closes(h)
  /\ UNCHANGED <<etcd, mem, counts, observers>>

WriteRevoke(h) ==
  /\ At(h, "unwrite")
  /\ IF req[h].todo = {}
     THEN Closes(h) /\ UNCHANGED policies
     ELSE \E p \in req[h].todo :
            /\ policies' = policies \ {p}
            /\ GoesWith(h, "unwrite", req[h].todo \ {p})
  /\ UNCHANGED <<user, mem, counts, observers>>

\* Fault: only the rules of the user are put back.
DestroyAll(h) ==
  /\ At(h, "destroy")
  /\ policies' = {}
  /\ GoesWith(h, "save", Mem(h) \intersect OfUser)
  /\ UNCHANGED <<user, mem, counts, observers>>

\* SavePolicy deletes every policy in etcd, then puts those of the engine one by one.
\* That the delete failed is not looked at.
Destroy(h) ==
  /\ At(h, "destroy")
  /\ policies' = {}
  /\ GoesWith(h, "save", Mem(h))
  /\ UNCHANGED <<user, mem, counts, observers>>

Save(h) ==
  /\ At(h, "save")
  /\ IF req[h].todo = {} THEN Ends(h) /\ UNCHANGED policies
     ELSE \E p \in req[h].todo :
            /\ policies' = policies \union {p}
            /\ GoesWith(h, "save", req[h].todo \ {p})
  /\ UNCHANGED <<user, mem, counts, observers>>

\* What addPolicies and removePolicies had yet to write when they failed stays as it was.
Fail(h) ==
  /\ fails < MaxFails
  /\ fails' = fails + 1
  /\ \/ At(h, "load") /\ (IF Kind(h, "start") THEN Ends(h) ELSE Goes(h, "enforce"))
     \/ At(h, "destroy") /\ GoesWith(h, "save", Mem(h))
     \/ req[h].at \in {"check", "put", "delete", "save"} /\ Ends(h)
     \/ req[h].at \in {"write", "unwrite"} /\ req[h].todo # {} /\ Ends(h)
  /\ due' = CASE At(h, "write") /\ Kind(h, "addPolicies") -> due \ req[h].todo
              [] At(h, "unwrite") /\ Kind(h, "removePolicies") -> due \union req[h].todo
              [] OTHER -> due
  /\ broken' = (broken \/ (At(h, "write") /\ Kind(h, "addUser"))
                       \/ (At(h, "unwrite") /\ Kind(h, "removeUser"))
                       \/ At(h, "save"))
  /\ UNCHANGED <<etcd, mem, requests, crossed>>

-----------------------------------------------------------------------------
(* The handlers, each with the steps it may be at once it is let in.       *)

Authorizes(h) == Clear(h) \/ Load(h) \/ Enforce(h)

AddsUser(h) ==
  Kind(h, "addUser") /\ (Check(h) \/ PutUser(h) \/ Grant(h) \/ WriteGrant(h))

RemovesUser(h) ==
  /\ Kind(h, "removeUser")
  /\ Check(h) \/ DeleteUser(h) \/ Filter(h) \/ Revoke(h) \/ WriteRevoke(h)

ChangesPassword(h) == Kind(h, "changePassword") /\ (Check(h) \/ PutUser(h))

AddsPolicies(h) ==
  /\ Kind(h, "addPolicies")
  /\ Check(h) \/ Grant(h) \/ WriteGrant(h) \/ Destroy(h) \/ Save(h)

RemovesPolicies(h) ==
  /\ Kind(h, "removePolicies")
  /\ Check(h) \/ Revoke(h) \/ WriteRevoke(h) \/ Destroy(h) \/ Save(h)

\* createAdminUser, when the API of a node is made.
GrantsAdmin(h) == Kind(h, "start") /\ (Grant(h) \/ WriteGrant(h))

Serve(h) ==
  \/ Authorizes(h) \/ AddsUser(h) \/ RemovesUser(h) \/ ChangesPassword(h)
  \/ AddsPolicies(h) \/ RemovesPolicies(h) \/ GrantsAdmin(h)

Next ==
  \E h \in Handlers :
    Serve(h) \/ Fail(h) \/ \E k \in Kinds, n \in Nodes : Arrive(h, k, n)

Spec == Init /\ [][Next]_vars

-----------------------------------------------------------------------------
(* Properties.                                                             *)

Places == {"idle", "clear", "load", "enforce", "check", "put", "delete", "filter", "grant",
           "write", "revoke", "unwrite", "destroy", "save"}
Serving == [kind: Kinds, node: Nodes \union {None}, at: Places, todo: SUBSET Policies]

\* Types; and what a removal is about to take from the engine and from etcd is the
\* user's own.
TypeOK ==
  /\ user \in BOOLEAN /\ policies \subseteq Policies
  /\ mem \in [Nodes -> SUBSET Policies]
  /\ req \in [Handlers -> Serving]
  /\ \A h \in Handlers :
       /\ At(h, "idle") <=> req[h].node = None
       /\ At(h, "revoke") \/ At(h, "unwrite") => req[h].todo \subseteq OfUser
  /\ requests \in 0 .. MaxRequests /\ fails \in 0 .. MaxFails
  /\ due \subseteq Policies /\ crossed \in BOOLEAN /\ broken \in BOOLEAN

\* The administrator keeps the policy that lets it in, which no request is to take:
\* unless requests crossed, or the puts of a save failed half-way, it is in etcd
\* whenever no save is under way.
AdminKeepsPolicy ==
  ~crossed /\ ~broken /\ (\A h \in Handlers : ~At(h, "save")) => "admin" \in policies

\* With no request under way that writes, the policies of a user that is there are
\* those it was granted, by addUser or addPolicies, and not deprived of since, and one
\* that is not there has none left, which the next user of that name would inherit:
\* unless requests crossed, or addUser, removeUser or a save failed after its first
\* write.  However the engine was emptied and filled and etcd emptied and put again.
PoliciesFollowUser ==
  ~crossed /\ ~broken /\ (\A h \in Handlers : req[h].kind \notin Writes) =>
    policies \intersect OfUser = IF user THEN due ELSE {}
=============================================================================
