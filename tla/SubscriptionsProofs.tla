------------------------ MODULE SubscriptionsProofs -------------------------
(***************************************************************************)
(* Proofs about Subscriptions: what is exceeded, doubled or shared because *)
(* no creation locks what it has read is bounded by the number of requests *)
(* that can overlap, for any packages, limits, subscriptions and workers.  *)
(***************************************************************************)
EXTENDS Subscriptions, FiniteSetTheorems, TLAPS

R == Cardinality(Workers)

(* Requests of kind k that subscription s has admitted.                    *)
InFlight(s, k) ==
    {w \in Workers : /\ worker[w].pc \in {"admitted", "coded"}
                     /\ worker[w].kind = k /\ worker[w].by = s}

(* Requests that will give the code n to a small office.                   *)
Coding(n) ==
    {w \in Workers : worker[w].pc = "coded" /\ worker[w].kind = "small" /\ worker[w].code = n}

SubsInv ==
    /\ \A s \in Subs : sub[s].status = "none" \/ sub[s].package \in Packages
    /\ \A s \in Subs, k \in Kinds :
          granted[s][k] <= used[s][k] /\ (s \notin InForce => granted[s][k] = 0)
    /\ \A w \in Workers :
          /\ worker[w].pc = "activating" => sub[worker[w].sub].status # "none"
          /\ worker[w].pc \in {"admitted", "coded"} /\ worker[w].by \in Subs =>
                sub[worker[w].by].status \notin {"none", "pending"}
    /\ \A s \in task : sub[s].status # "none"

OverInv ==
    \A s \in Subs, k \in Kinds :
        sub[s].status # "none" =>
            granted[s][k] + Cardinality(InFlight(s, k)) <= Limit[sub[s].package][k] + R - 1

CodesInv ==
    /\ \A k \in Kinds : \E t \in 0 .. MaxRows[k] : Taken(k) = 1 .. t
    /\ \A w \in Workers : worker[w].pc = "coded" =>
          /\ worker[w].code \in Codes(worker[w].kind)
          /\ worker[w].code = 1 \/ worker[w].code - 1 \in Taken(worker[w].kind)
    /\ \A k \in Unique : \A n \in Codes(k) : holders[k][n] <= 1
    /\ \A n \in Codes("small") : holders["small"][n] + Cardinality(Coding(n)) <= R

IInv == TypeOK /\ SubsInv /\ PendingBounded /\ OverInv /\ CodesInv

-----------------------------------------------------------------------------
(* Finite sets and requests.                                               *)

LEMMA WorkerSets ==
    /\ R \in Nat
    /\ \A S \in SUBSET Workers :
          IsFiniteSet(S) /\ Cardinality(S) \in Nat /\ Cardinality(S) <= R
    /\ \A S \in SUBSET Workers : \A w \in Workers : w \notin S =>
          Cardinality(S) <= R - 1 /\ Cardinality(S \cup {w}) = Cardinality(S) + 1
    /\ \A S \in SUBSET Workers : \A w \in S :
          Cardinality(S \ {w}) = Cardinality(S) - 1
    /\ \A S, T \in SUBSET Workers : S \subseteq T => Cardinality(S) <= Cardinality(T)
  <1>1. R \in Nat
    BY WorkersAssumption, FS_CardinalityType DEF R
  <1>2. \A S, T \in SUBSET Workers : S \subseteq T =>
           /\ IsFiniteSet(S) /\ IsFiniteSet(T)
           /\ Cardinality(S) \in Nat /\ Cardinality(S) <= Cardinality(T)
    BY WorkersAssumption, FS_Subset, FS_CardinalityType
  <1>3. \A S \in SUBSET Workers :
           IsFiniteSet(S) /\ Cardinality(S) \in Nat /\ Cardinality(S) <= R
    BY <1>2 DEF R
  <1>4. ASSUME NEW S \in SUBSET Workers, NEW w \in Workers, w \notin S
        PROVE  Cardinality(S) <= R - 1 /\ Cardinality(S \cup {w}) = Cardinality(S) + 1
    <2>1. Cardinality(S \cup {w}) = Cardinality(S) + 1
      BY <1>3, <1>4, FS_AddElement
    <2>2. Cardinality(S \cup {w}) <= R /\ Cardinality(S) \in Nat
      BY <1>3
    <2> QED BY <1>1, <2>1, <2>2
  <1>5. ASSUME NEW S \in SUBSET Workers, NEW w \in S
        PROVE  Cardinality(S \ {w}) = Cardinality(S) - 1
    BY <1>3, FS_RemoveElement
  <1> QED BY <1>1, <1>2, <1>3, <1>4, <1>5

LEMMA SubSets ==
    /\ \A S \in SUBSET Subs : IsFiniteSet(S) /\ Cardinality(S) \in Nat
    /\ \A S, T \in SUBSET Subs : S \subseteq T => Cardinality(S) <= Cardinality(T)
    /\ \A S \in SUBSET Subs : \A s \in Subs : s \notin S =>
          Cardinality(S \cup {s}) = Cardinality(S) + 1
  BY WorkersAssumption, FS_Subset, FS_CardinalityType, FS_AddElement

LEMMA Increment ==
    ASSUME NEW C, NEW f \in [C -> Nat], NEW n
    PROVE  [f EXCEPT ![n] = @ + 1] \in [C -> Nat]
  <1>1. [f EXCEPT ![n] = @ + 1] = [c \in C |-> IF c = n THEN f[c] + 1 ELSE f[c]]
    OBVIOUS
  <1>2. \A c \in C : (IF c = n THEN f[c] + 1 ELSE f[c]) \in Nat
    OBVIOUS
  <1> QED BY <1>1, <1>2

LEMMA RequestFields ==
    ASSUME NEW r \in Request
    PROVE  /\ r.pc \in {"idle", "requesting", "activating", "admitted", "coded"}
           /\ r.pc = "idle" <=> r = Idle
           /\ r.pc = "requesting" => r.package \in Packages
           /\ r.pc = "activating" => r.sub \in Subs
           /\ r.pc = "admitted" => r.kind \in Kinds /\ r.by \in Subs \cup {None}
           /\ r.pc = "coded" => /\ r.kind \in Kinds /\ r.by \in Subs \cup {None}
                                /\ r.code \in Nat /\ r.stale \subseteq Subs
  BY DEF Request, Idle

(* Two requests that differ in what is stale at most.                      *)
Same(r, q) ==
    /\ r.pc = q.pc
    /\ r.pc = "activating" => r.sub = q.sub
    /\ r.pc \in {"admitted", "coded"} => r.kind = q.kind /\ r.by = q.by
    /\ r.pc = "coded" => r.code = q.code

LEMMA StampedSame ==
    ASSUME NEW r \in Request, NEW s \in Subs
    PROVE  Stamped(r, s) \in Request /\ Same(Stamped(r, s), r)
  <1>1. CASE r.pc = "coded" /\ r.kind = "small"
    <2>1. r \in [pc : {"coded"}, kind : Kinds, by : Subs \cup {None}, code : Nat,
                 stale : SUBSET Subs]
      BY <1>1 DEF Request, Idle
    <2> DEFINE q == [r EXCEPT !.stale = @ \cup {s}]
    <2>2. /\ q \in Request /\ q.pc = "coded" /\ q.kind = r.kind /\ q.by = r.by
          /\ q.code = r.code
      BY <2>1 DEF Request
    <2> QED BY <1>1, <2>2 DEF Stamped, Same
  <1>2. CASE ~ (r.pc = "coded" /\ r.kind = "small")
    BY <1>2 DEF Stamped, Same
  <1> QED BY <1>1, <1>2

-----------------------------------------------------------------------------
(* Types.                                                                  *)

LEMMA InitType == Init => TypeOK
  BY BoundAssumption DEF Init, TypeOK, Subscription, NoSub, Request, Zero

LEMMA LeaveType ==
    ASSUME TypeOK, NEW S \in SUBSET Subs, NEW status \in {"overdue", "expired", "rejected"},
           Leave(S, status)
    PROVE  /\ sub' \in [Subs -> Subscription] /\ later' \subseteq Subs \X Subs
           /\ used' \in [Subs -> [Kinds -> Nat]] /\ granted' \in [Subs -> [Kinds -> Nat]]
  <1>1. Zero \in [Kinds -> Nat]
    BY DEF Zero
  <1>2. \A s \in Subs : [sub[s] EXCEPT !.status = status] \in Subscription
    BY DEF TypeOK, Subscription
  <1> QED BY <1>1, <1>2 DEF TypeOK, Leave

LEMMA TypeStep == ASSUME TypeOK, [Next]_vars PROVE TypeOK'
  <1>0. \A w \in Workers : worker[w] \in Request
    BY DEF TypeOK
  <1>1. ASSUME SetFreeMode \/ WakeUp \/ Die \/ UNCHANGED vars PROVE TypeOK'
    <2>1. Overdue \subseteq Subs
      BY DEF Overdue
    <2> QED BY <1>1, <2>1 DEF TypeOK, SetFreeMode, WakeUp, Die, subVars, rowVars, vars
  <1>2. ASSUME NEW s \in Subs, TermEnds(s) \/ Reject(s) \/ SaveExpired(s) PROVE TypeOK'
    <2>1. PICK status \in {"overdue", "expired", "rejected"} : Leave({s}, status)
      BY <1>2 DEF TermEnds, Reject, SaveExpired
    <2>2. /\ sub' \in [Subs -> Subscription] /\ later' \subseteq Subs \X Subs
          /\ used' \in [Subs -> [Kinds -> Nat]] /\ granted' \in [Subs -> [Kinds -> Nat]]
      BY <2>1, LeaveType
    <2> QED BY <1>2, <2>2 DEF TypeOK, TermEnds, Reject, SaveExpired
  <1>3. ASSUME NEW w \in Workers, NEW r \in Request, Becomes(w, r),
               UNCHANGED <<free_mode, subVars, rowVars, task>>
        PROVE  TypeOK'
    BY <1>3 DEF TypeOK, Becomes, subVars, rowVars
  <1>4. Idle \in Request
    BY DEF Request
  <1>5. ASSUME NEW w \in Workers, NEW p \in Packages, AskPackage(w, p) PROVE TypeOK'
    <2>1. [pc |-> "requesting", package |-> p] \in Request
      BY DEF Request
    <2> QED BY <1>3, <1>5, <2>1 DEF AskPackage
  <1>6. ASSUME NEW w \in Workers, NEW s \in Subs, InsertSubscription(w, s) PROVE TypeOK'
    <2>1. worker[w].package \in Packages
      BY <1>0, <1>6, RequestFields DEF InsertSubscription, IsAt
    <2>2. [NoSub EXCEPT !.status = "pending", !.package = worker[w].package] \in Subscription
      BY <2>1 DEF NoSub, Subscription
    <2> QED BY <1>4, <1>6, <2>2 DEF TypeOK, InsertSubscription, Becomes, rowVars
  <1>7. ASSUME NEW w \in Workers, NEW s \in Subs, LoadPending(w, s) PROVE TypeOK'
    <2>1. [pc |-> "activating", sub |-> s] \in Request
      BY DEF Request
    <2> QED BY <1>3, <1>7, <2>1 DEF LoadPending
  <1>8. ASSUME NEW w \in Workers, activate_subscription(w) PROVE TypeOK'
    <2> DEFINE s == worker[w].sub
    <2>1. s \in Subs
      BY <1>0, <1>8, RequestFields DEF activate_subscription, IsAt
    <2>2. /\ sub' = [sub EXCEPT ![s].status = "active"]
          /\ later' = {rs \in later : rs[1] # s} \cup {<<r, s>> : r \in InForce \ {s}}
          /\ used' = [used EXCEPT ![s] = Zero] /\ granted' = [granted EXCEPT ![s] = Zero]
          /\ worker' = [v \in Workers |-> IF v = w THEN Idle ELSE Stamped(worker[v], s)]
          /\ UNCHANGED <<free_mode, holders, task>>
      BY <1>8 DEF activate_subscription
    <2> HIDE DEF s
    <2>3. sub' \in [Subs -> Subscription]
      BY <2>1, <2>2 DEF TypeOK, Subscription
    <2>4. InForce \subseteq Subs /\ Zero \in [Kinds -> Nat]
      BY DEF InForce, Zero
    <2>5. later' \subseteq Subs \X Subs
      BY <2>1, <2>2, <2>4 DEF TypeOK
    <2>6. used' \in [Subs -> [Kinds -> Nat]] /\ granted' \in [Subs -> [Kinds -> Nat]]
      BY <2>1, <2>2, <2>4 DEF TypeOK
    <2>7. worker' \in [Workers -> Request]
      BY <1>0, <1>4, <2>1, <2>2, StampedSame
    <2> QED BY <2>2, <2>3, <2>5, <2>6, <2>7 DEF TypeOK
  <1>9. ASSUME NEW w \in Workers, NEW k \in Kinds, CheckLimit(w, k) PROVE TypeOK'
    <2>1. PICK by \in Subs \cup {None} : Admitted(w, k, by)
      BY <1>9 DEF CheckLimit, get_active_subscription, InForce
    <2>2. [pc |-> "admitted", kind |-> k, by |-> by] \in Request
      BY DEF Request
    <2> QED BY <1>3, <2>1, <2>2 DEF Admitted
  <1>10. ASSUME NEW w \in Workers, ChooseCode(w) PROVE TypeOK'
    <2>1. worker[w].kind \in Kinds /\ worker[w].by \in Subs \cup {None}
      BY <1>0, <1>10, RequestFields DEF ChooseCode, IsAt
    <2>2. PICK n \in NextCode(worker[w].kind) :
             Becomes(w, [pc |-> "coded", kind |-> worker[w].kind, by |-> worker[w].by,
                         code |-> n, stale |-> {}])
      BY <1>10 DEF ChooseCode
    <2>3. n \in Nat
      BY <2>1, BoundAssumption DEF NextCode, AfterCount, AfterLast, Codes
    <2>4. [pc |-> "coded", kind |-> worker[w].kind, by |-> worker[w].by,
           code |-> n, stale |-> {}] \in Request
      BY <2>1, <2>3 DEF Request
    <2> QED BY <1>3, <1>10, <2>2, <2>4 DEF ChooseCode
  <1>11. ASSUME NEW w \in Workers, Fail(w) PROVE TypeOK'
    BY <1>3, <1>4, <1>11 DEF Fail
  <1>12. ASSUME NEW w \in Workers, Insert(w) PROVE TypeOK'
    <2>1. worker[w].kind \in Kinds
      BY <1>0, <1>12, RequestFields DEF Insert, IsAt
    <2> DEFINE k == worker[w].kind  n == worker[w].code
    <2>2. /\ holders' = [holders EXCEPT ![k][n] = @ + 1]
          /\ used' = [r \in Subs |-> IF r \in InForce \ worker[w].stale
                                      THEN [used[r] EXCEPT ![k] = @ + 1] ELSE used[r]]
          /\ granted' = [granted EXCEPT ![worker[w].by][k] = @ + 1] \/ granted' = granted
          /\ Becomes(w, Idle) /\ UNCHANGED <<free_mode, subVars, task>>
      BY <1>12 DEF Insert
    <2> HIDE DEF k, n
    <2>6. k \in Kinds
      BY <2>1 DEF k
    <2>3. DOMAIN holders' = Kinds /\ \A j \in Kinds : holders'[j] \in [Codes(j) -> Nat]
      <3>1. /\ DOMAIN holders' = Kinds
            /\ \A j \in Kinds : holders'[j] = IF j = k THEN [holders[k] EXCEPT ![n] = @ + 1]
                                                         ELSE holders[j]
        BY <2>2, <2>6 DEF TypeOK
      <3>2. holders[k] \in [Codes(k) -> Nat]
        BY <2>6 DEF TypeOK
      <3>3. [holders[k] EXCEPT ![n] = @ + 1] \in [Codes(k) -> Nat]
        BY <3>2, Increment
      <3> QED BY <3>1, <3>3 DEF TypeOK
    <2>4. used' \in [Subs -> [Kinds -> Nat]]
      BY <2>2, <2>6 DEF TypeOK
    <2>5. granted' \in [Subs -> [Kinds -> Nat]]
      <3>1. CASE granted' = granted
        BY <3>1 DEF TypeOK
      <3>2. CASE granted' = [granted EXCEPT ![worker[w].by][k] = @ + 1]
        <4>1. PICK s : s = worker[w].by
          OBVIOUS
        <4>2. s \in Subs => [granted[s] EXCEPT ![k] = @ + 1] \in [Kinds -> Nat]
          BY <2>6 DEF TypeOK
        <4>3. granted' = [granted EXCEPT ![s] = [granted[s] EXCEPT ![k] = @ + 1]]
          BY <3>2, <4>1
        <4> QED BY <4>2, <4>3 DEF TypeOK
      <3> QED BY <2>2, <3>1, <3>2
    <2> QED BY <1>4, <2>2, <2>3, <2>4, <2>5 DEF TypeOK, Becomes, subVars
  <1> QED BY <1>1, <1>2, <1>5, <1>6, <1>7, <1>8, <1>9, <1>10, <1>11, <1>12
          DEF Next, Platform, RequestStep

-----------------------------------------------------------------------------
(* Steps of one request that leave the rows alone.                         *)

(* r is what request w goes on with; codes are taken by their own rule.    *)
LEMMA WorkerStep ==
    ASSUME IInv, NEW w \in Workers, NEW r \in Request, Becomes(w, r),
           UNCHANGED <<sub, used, granted, holders, task>>,
           r.pc = "requesting" => Pending = {} \/ worker[w].pc = "requesting",
           r.pc = "activating" => sub[r.sub].status # "none",
           r.pc \in {"admitted", "coded"} =>
              \/ worker[w].pc = "admitted" /\ r.kind = worker[w].kind /\ r.by = worker[w].by
              \/ r.pc = "admitted" /\ r.by \notin Subs
              \/ r.pc = "admitted" /\ r.by \in InForce /\ has_room(r.by, r.kind),
           r.pc = "coded" =>
              /\ r.code \in Codes(r.kind) /\ (r.code = 1 \/ r.code - 1 \in Taken(r.kind))
              /\ r.kind = "small" => r.code \notin Taken("small")
    PROVE  SubsInv' /\ PendingBounded' /\ OverInv' /\ CodesInv'
  <1>1. TypeOK /\ SubsInv /\ PendingBounded /\ OverInv /\ CodesInv
    BY DEF IInv
  <1>2. \A v \in Workers : worker'[v] = IF v = w THEN r ELSE worker[v]
    BY <1>1 DEF Becomes, TypeOK
  <1>3. /\ Pending' = Pending /\ InForce' = InForce
        /\ \A k : Taken(k)' = Taken(k) /\ Codes(k)' = Codes(k)
    BY DEF Pending, InForce, Taken, Codes
  <1>4. SubsInv'
    <2>1. ASSUME NEW v \in Workers
          PROVE  /\ worker'[v].pc = "activating" => sub[worker'[v].sub].status # "none"
                 /\ worker'[v].pc \in {"admitted", "coded"} /\ worker'[v].by \in Subs =>
                       sub[worker'[v].by].status \notin {"none", "pending"}
      BY <1>1, <1>2 DEF SubsInv, InForce
    <2> QED BY <1>1, <1>3, <2>1 DEF SubsInv
  <1>5. PendingBounded'
    <2>1. CASE r.pc = "requesting" /\ Pending = {}
      <3>1. Requesting' \in SUBSET Workers
        BY DEF Requesting
      <3>2. Cardinality(Pending) = 0
        BY <2>1, FS_EmptySet
      <3>3. Cardinality(Requesting') <= R /\ Cardinality(Requesting') \in Nat
        BY <3>1, WorkerSets
      <3> QED BY <1>3, <3>2, <3>3 DEF PendingBounded, R
    <2>2. CASE ~ (r.pc = "requesting" /\ Pending = {})
      <3>1. Requesting' \subseteq Requesting /\ Requesting \in SUBSET Workers
        BY <1>2, <2>2 DEF Requesting, IsAt
      <3>2. /\ Cardinality(Requesting') <= Cardinality(Requesting)
            /\ Cardinality(Requesting') \in Nat /\ Cardinality(Requesting) \in Nat
        BY <3>1, WorkerSets
      <3>3. Cardinality(Pending) \in Nat /\ R \in Nat
        BY SubSets, WorkerSets DEF Pending
      <3> QED BY <1>1, <1>3, <3>2, <3>3 DEF PendingBounded, R
    <2> QED BY <2>1, <2>2
  <1>6. ASSUME NEW s \in Subs, NEW k \in Kinds, sub[s].status # "none"
        PROVE  granted[s][k] + Cardinality(InFlight(s, k)') <= Limit[sub[s].package][k] + R - 1
    <2>1. /\ InFlight(s, k) \in SUBSET Workers /\ InFlight(s, k)' \in SUBSET Workers
          /\ granted[s][k] \in Nat /\ used[s][k] \in Nat
          /\ Limit[sub[s].package][k] \in Nat
      BY <1>1, <1>6, LimitAssumption DEF InFlight, TypeOK, SubsInv
    <2>2. granted[s][k] + Cardinality(InFlight(s, k)) <= Limit[sub[s].package][k] + R - 1
      BY <1>1, <1>6 DEF OverInv
    <2>3. CASE InFlight(s, k)' \subseteq InFlight(s, k)
      <3>1. /\ Cardinality(InFlight(s, k)') <= Cardinality(InFlight(s, k))
            /\ Cardinality(InFlight(s, k)') \in Nat /\ Cardinality(InFlight(s, k)) \in Nat
        BY <2>1, <2>3, WorkerSets
      <3> QED BY <2>1, <2>2, <3>1, WorkerSets
    <2>4. CASE ~ (InFlight(s, k)' \subseteq InFlight(s, k))
      <3>1. r.pc \in {"admitted", "coded"} /\ r.kind = k /\ r.by = s
        BY <1>2, <2>4 DEF InFlight
      <3>2. ~ (worker[w].pc = "admitted" /\ r.kind = worker[w].kind /\ r.by = worker[w].by)
        BY <1>2, <2>4, <3>1 DEF InFlight
      <3>3. has_room(s, k)
        BY <3>1, <3>2
      <3>4. granted[s][k] <= Limit[sub[s].package][k] - 1
        BY <1>1, <2>1, <3>3 DEF has_room, SubsInv
      <3>5. Cardinality(InFlight(s, k)') <= R /\ Cardinality(InFlight(s, k)') \in Nat
        BY <2>1, WorkerSets
      <3> QED BY <2>1, <3>4, <3>5, WorkerSets
    <2> QED BY <2>3, <2>4
  <1>7. OverInv'
    BY <1>6 DEF OverInv, R
  <1>8. ASSUME NEW n \in Codes("small")
        PROVE  holders["small"][n] + Cardinality(Coding(n)') <= R
    <2>1. /\ Coding(n) \in SUBSET Workers /\ Coding(n)' \in SUBSET Workers
          /\ holders["small"][n] \in Nat
      BY <1>1 DEF Coding, TypeOK, Kinds
    <2>2. holders["small"][n] + Cardinality(Coding(n)) <= R
      BY <1>1 DEF CodesInv
    <2>3. CASE Coding(n)' \subseteq Coding(n)
      <3>1. /\ Cardinality(Coding(n)') <= Cardinality(Coding(n))
            /\ Cardinality(Coding(n)') \in Nat /\ Cardinality(Coding(n)) \in Nat
        BY <2>1, <2>3, WorkerSets
      <3> QED BY <2>1, <2>2, <3>1, WorkerSets
    <2>4. CASE ~ (Coding(n)' \subseteq Coding(n))
      <3>1. r.pc = "coded" /\ r.kind = "small" /\ r.code = n
        BY <1>2, <2>4 DEF Coding
      <3>2. holders["small"][n] = 0
        BY <2>1, <3>1 DEF Taken
      <3>3. Cardinality(Coding(n)') <= R /\ Cardinality(Coding(n)') \in Nat
        BY <2>1, WorkerSets
      <3> QED BY <3>2, <3>3
    <2> QED BY <2>3, <2>4
  <1>9. CodesInv'
    <2>1. ASSUME NEW v \in Workers, worker'[v].pc = "coded"
          PROVE  /\ worker'[v].code \in Codes(worker'[v].kind)
                 /\ worker'[v].code = 1 \/ worker'[v].code - 1 \in Taken(worker'[v].kind)
      BY <1>1, <1>2, <2>1 DEF CodesInv
    <2>2. \A k \in Kinds : \E t \in 0 .. MaxRows[k] : Taken(k)' = 1 .. t
      BY <1>1, <1>3 DEF CodesInv
    <2> QED BY <1>1, <1>3, <1>8, <2>1, <2>2 DEF CodesInv, R, Taken, Codes
  <1> QED BY <1>4, <1>5, <1>7, <1>9

-----------------------------------------------------------------------------
(* Steps that end or expire subscriptions, and steps of the platform.      *)

LEMMA LeaveStep ==
    ASSUME IInv, NEW s \in Subs, NEW status \in {"overdue", "expired", "rejected"},
           sub[s].status # "none", Leave({s}, status), task' \subseteq task,
           UNCHANGED <<holders, worker>>
    PROVE  SubsInv' /\ PendingBounded' /\ OverInv' /\ CodesInv'
  <1>1. TypeOK /\ SubsInv /\ PendingBounded /\ OverInv /\ CodesInv
    BY DEF IInv
  <1>2. \A r \in Subs : /\ sub'[r].status = IF r = s THEN status ELSE sub[r].status
                        /\ sub'[r].package = sub[r].package
                        /\ granted'[r] = IF r = s THEN Zero ELSE granted[r]
                        /\ used'[r] = IF r = s THEN Zero ELSE used[r]
    BY <1>1 DEF Leave, TypeOK, Subscription
  <1>3. /\ Pending' \subseteq Pending /\ InForce' = InForce \ {s}
        /\ Requesting' = Requesting
        /\ \A k : Taken(k)' = Taken(k)
    BY <1>2 DEF Pending, InForce, Requesting, IsAt, Taken, Codes
  <1>4. SubsInv'
    <2>1. \A r \in Subs : sub'[r].status = "none" \/ sub'[r].package \in Packages
      BY <1>1, <1>2 DEF SubsInv
    <2>2. ASSUME NEW r \in Subs, NEW k \in Kinds
          PROVE  granted'[r][k] <= used'[r][k] /\ (r \notin InForce' => granted'[r][k] = 0)
      BY <1>1, <1>2, <1>3 DEF SubsInv, Zero
    <2>3. ASSUME NEW v \in Workers
          PROVE  /\ worker[v].pc = "activating" => sub'[worker[v].sub].status # "none"
                 /\ worker[v].pc \in {"admitted", "coded"} /\ worker[v].by \in Subs =>
                       sub'[worker[v].by].status \notin {"none", "pending"}
      <3>1. worker[v].pc = "activating" => worker[v].sub \in Subs
        BY <1>1, RequestFields DEF TypeOK
      <3> QED BY <1>1, <1>2, <3>1 DEF SubsInv
    <2>4. \A r \in task' : sub'[r].status # "none"
      BY <1>1, <1>2 DEF SubsInv, TypeOK
    <2> QED BY <2>1, <2>2, <2>3, <2>4 DEF SubsInv
  <1>5. PendingBounded'
    <2>1. Cardinality(Pending') <= Cardinality(Pending) /\ Cardinality(Pending') \in Nat
          /\ Cardinality(Pending) \in Nat
      BY <1>3, SubSets DEF Pending
    <2>2. Cardinality(Requesting) \in Nat /\ R \in Nat
      BY WorkerSets DEF Requesting
    <2> QED BY <1>1, <1>3, <2>1, <2>2 DEF PendingBounded, R
  <1>6. ASSUME NEW r \in Subs, NEW k \in Kinds, sub'[r].status # "none"
        PROVE  granted'[r][k] + Cardinality(InFlight(r, k)) <= Limit[sub'[r].package][k] + R - 1
    <2>1. /\ InFlight(r, k) \in SUBSET Workers /\ granted[r][k] \in Nat
          /\ sub[r].status # "none"
      BY <1>1, <1>2, <1>6 DEF InFlight, TypeOK
    <2>2. Limit[sub[r].package][k] \in Nat
      BY <1>1, <2>1, LimitAssumption DEF SubsInv
    <2>3. granted[r][k] + Cardinality(InFlight(r, k)) <= Limit[sub[r].package][k] + R - 1
      BY <1>1, <2>1 DEF OverInv
    <2>4. granted'[r][k] <= granted[r][k] /\ granted'[r][k] \in Nat
      BY <1>2, <2>1 DEF Zero
    <2> QED BY <1>2, <2>1, <2>2, <2>3, <2>4, WorkerSets
  <1>7. OverInv'
    BY <1>6 DEF OverInv, InFlight, R
  <1>8. CodesInv'
    BY <1>1 DEF CodesInv, Taken, Codes, Coding, R
  <1> QED BY <1>4, <1>5, <1>7, <1>8

LEMMA QuietStep ==
    ASSUME IInv, UNCHANGED <<sub, used, granted, holders, worker>>,
           task' \subseteq task \cup Overdue
    PROVE  SubsInv' /\ PendingBounded' /\ OverInv' /\ CodesInv'
  <1>1. SubsInv'
    BY DEF IInv, SubsInv, Overdue, InForce
  <1>2. PendingBounded'
    BY DEF IInv, PendingBounded, Pending, Requesting, IsAt
  <1>3. OverInv'
    BY DEF IInv, OverInv, InFlight, R
  <1>4. CodesInv'
    BY DEF IInv, CodesInv, Taken, Codes, Coding, R
  <1> QED BY <1>1, <1>2, <1>3, <1>4

-----------------------------------------------------------------------------
(* Inserting a subscription.                                               *)

LEMMA AskedStep ==
    ASSUME IInv, NEW w \in Workers, NEW s \in Subs, InsertSubscription(w, s)
    PROVE  SubsInv' /\ PendingBounded' /\ OverInv' /\ CodesInv'
  <1>1. TypeOK /\ SubsInv /\ PendingBounded /\ OverInv /\ CodesInv
    BY DEF IInv
  <1>2. worker[w].pc = "requesting" /\ worker[w].package \in Packages /\ sub[s].status = "none"
    BY <1>1, RequestFields DEF InsertSubscription, IsAt, TypeOK, NoSub
  <1>3. /\ \A r \in Subs : /\ sub'[r].status = IF r = s THEN "pending" ELSE sub[r].status
                           /\ sub'[r].package = IF r = s THEN worker[w].package
                                                         ELSE sub[r].package
        /\ \A v \in Workers : worker'[v] = IF v = w THEN Idle ELSE worker[v]
        /\ UNCHANGED <<used, granted, holders, task>>
    BY <1>1 DEF InsertSubscription, TypeOK, Becomes, NoSub, rowVars
  <1>4. /\ Pending' = Pending \cup {s} /\ s \notin Pending /\ InForce' = InForce
        /\ Requesting' = Requesting \ {w} /\ w \in Requesting
        /\ \A k : Taken(k)' = Taken(k)
    BY <1>2, <1>3 DEF Pending, InForce, Requesting, IsAt, Taken, Codes, Idle
  <1>5. \A v \in Workers : worker[v].pc \in {"admitted", "coded"} => worker[v].by # s
    BY <1>1, <1>2 DEF SubsInv
  <1>6. SubsInv'
    <2>1. \A r \in Subs : sub'[r].status = "none" \/ sub'[r].package \in Packages
      BY <1>1, <1>2, <1>3 DEF SubsInv
    <2>2. ASSUME NEW v \in Workers
          PROVE  /\ worker'[v].pc = "activating" => sub'[worker'[v].sub].status # "none"
                 /\ worker'[v].pc \in {"admitted", "coded"} /\ worker'[v].by \in Subs =>
                       sub'[worker'[v].by].status \notin {"none", "pending"}
      <3>1. worker[v].pc = "activating" => worker[v].sub \in Subs
        BY <1>1, RequestFields DEF TypeOK
      <3> QED BY <1>1, <1>3, <1>5, <3>1 DEF SubsInv, Idle
    <2>3. \A r \in task' : sub'[r].status # "none"
      BY <1>1, <1>3 DEF SubsInv, TypeOK
    <2> QED BY <1>1, <1>3, <1>4, <2>1, <2>2, <2>3 DEF SubsInv
  <1>7. PendingBounded'
    <2>1. Cardinality(Pending') = Cardinality(Pending) + 1 /\ Cardinality(Pending) \in Nat
      BY <1>4, SubSets DEF Pending
    <2>2. /\ Cardinality(Requesting') = Cardinality(Requesting) - 1
          /\ Cardinality(Requesting) \in Nat
      BY <1>4, WorkerSets DEF Requesting
    <2> QED BY <1>1, <2>1, <2>2, WorkerSets DEF PendingBounded, R
  <1>8. ASSUME NEW r \in Subs, NEW k \in Kinds, sub'[r].status # "none"
        PROVE  granted[r][k] + Cardinality(InFlight(r, k)') <= Limit[sub'[r].package][k] + R - 1
    <2>1. InFlight(r, k)' = InFlight(r, k)
      BY <1>2, <1>3 DEF InFlight, Idle
    <2>2. CASE r # s
      BY <1>1, <1>3, <1>8, <2>1, <2>2 DEF OverInv
    <2>3. CASE r = s
      <3>1. InFlight(r, k) = {} /\ s \notin InForce
        BY <1>2, <1>5, <2>3 DEF InFlight, InForce
      <3>2. granted[r][k] = 0 /\ Cardinality(InFlight(r, k)) = 0
        BY <1>1, <2>3, <3>1, FS_EmptySet DEF SubsInv
      <3>3. Limit[sub'[r].package][k] \in Nat
        BY <1>2, <1>3, <2>3, LimitAssumption
      <3>4. {} \in SUBSET Workers /\ Cardinality({}) = 0 /\ R \in Nat
        BY FS_EmptySet, WorkerSets
      <3>5. R >= 1
        <4>1. w \notin {} => Cardinality({}) <= R - 1
          BY <3>4, WorkerSets
        <4> QED BY <3>4, <4>1
      <3> QED BY <2>1, <3>2, <3>3, <3>4, <3>5
    <2> QED BY <2>2, <2>3
  <1>9. OverInv'
    BY <1>3, <1>8 DEF OverInv, R
  <1>10. CodesInv'
    <2>1. \A n : Coding(n)' = Coding(n)
      BY <1>2, <1>3 DEF Coding, Idle
    <2>2. ASSUME NEW v \in Workers, worker'[v].pc = "coded"
          PROVE  /\ worker'[v].code \in Codes(worker'[v].kind)
                 /\ worker'[v].code = 1 \/ worker'[v].code - 1 \in Taken(worker'[v].kind)
      BY <1>1, <1>3, <2>2 DEF CodesInv, Idle
    <2> QED BY <1>1, <1>3, <1>4, <2>1, <2>2 DEF CodesInv, R, Taken, Codes
  <1> QED BY <1>6, <1>7, <1>9, <1>10

-----------------------------------------------------------------------------
(* Activating a subscription.                                              *)

LEMMA ActivateStep ==
    ASSUME IInv, NEW w \in Workers, activate_subscription(w)
    PROVE  SubsInv' /\ PendingBounded' /\ OverInv' /\ CodesInv'
  <1>1. TypeOK /\ SubsInv /\ PendingBounded /\ OverInv /\ CodesInv
    BY DEF IInv
  <1>2. PICK s \in Subs : s = worker[w].sub /\ sub[s].status # "none"
    BY <1>1, RequestFields DEF activate_subscription, IsAt, TypeOK, SubsInv
  <1>3. worker[w].pc = "activating"
    BY DEF activate_subscription, IsAt
  <1>4. \A r \in Subs : /\ sub'[r].status = IF r = s THEN "active" ELSE sub[r].status
                        /\ sub'[r].package = sub[r].package
                        /\ granted'[r] = IF r = s THEN Zero ELSE granted[r]
                        /\ used'[r] = IF r = s THEN Zero ELSE used[r]
    BY <1>1, <1>2 DEF activate_subscription, TypeOK, Subscription
  <1>5. UNCHANGED <<holders, task>>
    BY DEF activate_subscription
  <1>6. \A v \in Workers : IF v = w THEN worker'[v] = Idle ELSE Same(worker'[v], worker[v])
    <2>1. \A v \in Workers : worker'[v] = IF v = w THEN Idle ELSE Stamped(worker[v], s)
      BY <1>2 DEF activate_subscription
    <2>2. \A v \in Workers : Same(Stamped(worker[v], s), worker[v])
      BY <1>1, StampedSame DEF TypeOK
    <2> QED BY <2>1, <2>2
  <1>7. /\ Pending' \subseteq Pending /\ InForce' = InForce \cup {s}
        /\ Requesting' = Requesting
        /\ \A k : Taken(k)' = Taken(k)
        /\ \A n : Coding(n)' = Coding(n)
        /\ \A r, k : InFlight(r, k)' = InFlight(r, k)
    <2>1. Pending' \subseteq Pending /\ InForce' = InForce \cup {s}
      BY <1>4 DEF Pending, InForce
    <2>2. Requesting' = Requesting
      BY <1>3, <1>6 DEF Requesting, IsAt, Idle, Same
    <2>3. \A k : Taken(k)' = Taken(k)
      BY <1>5 DEF Taken, Codes
    <2>4. \A n : Coding(n)' = Coding(n)
      BY <1>3, <1>6 DEF Coding, Idle, Same
    <2>5. \A r, k : InFlight(r, k)' = InFlight(r, k)
      BY <1>3, <1>6 DEF InFlight, Idle, Same
    <2> QED BY <2>1, <2>2, <2>3, <2>4, <2>5
  <1>8. SubsInv'
    <2>1. \A r \in Subs : sub'[r].status = "none" \/ sub'[r].package \in Packages
      BY <1>1, <1>2, <1>4 DEF SubsInv
    <2>2. ASSUME NEW r \in Subs, NEW k \in Kinds
          PROVE  granted'[r][k] <= used'[r][k] /\ (r \notin InForce' => granted'[r][k] = 0)
      BY <1>1, <1>4, <1>7 DEF SubsInv, Zero
    <2>3. ASSUME NEW v \in Workers
          PROVE  /\ worker'[v].pc = "activating" => sub'[worker'[v].sub].status # "none"
                 /\ worker'[v].pc \in {"admitted", "coded"} /\ worker'[v].by \in Subs =>
                       sub'[worker'[v].by].status \notin {"none", "pending"}
      <3>1. worker[v].pc = "activating" => worker[v].sub \in Subs
        BY <1>1, RequestFields DEF TypeOK
      <3>2. CASE v = w
        BY <1>6, <3>2 DEF Idle
      <3>3. CASE v # w
        BY <1>1, <1>4, <1>6, <3>1, <3>3 DEF SubsInv, Same
      <3> QED BY <3>2, <3>3
    <2>4. \A r \in task' : sub'[r].status # "none"
      BY <1>1, <1>4, <1>5 DEF SubsInv, TypeOK
    <2> QED BY <2>1, <2>2, <2>3, <2>4 DEF SubsInv
  <1>9. PendingBounded'
    <2>1. Cardinality(Pending') <= Cardinality(Pending) /\ Cardinality(Pending') \in Nat
          /\ Cardinality(Pending) \in Nat
      BY <1>7, SubSets DEF Pending
    <2>2. Cardinality(Requesting) \in Nat /\ R \in Nat
      BY WorkerSets DEF Requesting
    <2> QED BY <1>1, <1>7, <2>1, <2>2 DEF PendingBounded, R
  <1>10. ASSUME NEW r \in Subs, NEW k \in Kinds, sub'[r].status # "none"
         PROVE  granted'[r][k] + Cardinality(InFlight(r, k)) <= Limit[sub'[r].package][k] + R - 1
    <2>1. sub[r].status # "none"
      BY <1>2, <1>4, <1>10
    <2>2. CASE r # s
      BY <1>1, <1>4, <2>1, <2>2 DEF OverInv
    <2>3. CASE r = s
      <3>1. InFlight(r, k) \in SUBSET Workers /\ w \notin InFlight(r, k)
        BY <1>3 DEF InFlight
      <3>2. Cardinality(InFlight(r, k)) <= R - 1 /\ Cardinality(InFlight(r, k)) \in Nat
        BY <3>1, WorkerSets
      <3>3. Limit[sub[r].package][k] \in Nat
        BY <1>1, <2>1, LimitAssumption DEF SubsInv
      <3>4. granted'[r][k] = 0
        BY <1>4, <2>3 DEF Zero
      <3> QED BY <1>4, <3>2, <3>3, <3>4, WorkerSets
    <2> QED BY <2>2, <2>3
  <1>11. OverInv'
    BY <1>7, <1>10 DEF OverInv, R
  <1>12. CodesInv'
    <2>1. ASSUME NEW v \in Workers, worker'[v].pc = "coded"
          PROVE  /\ worker'[v].code \in Codes(worker'[v].kind)
                 /\ worker'[v].code = 1 \/ worker'[v].code - 1 \in Taken(worker'[v].kind)
      <3>1. v # w
        BY <1>6, <2>1 DEF Idle
      <3> QED BY <1>1, <1>6, <2>1, <3>1 DEF CodesInv, Same
    <2> QED BY <1>1, <1>5, <1>7, <2>1 DEF CodesInv, R, Taken, Codes
  <1> QED BY <1>8, <1>9, <1>11, <1>12

-----------------------------------------------------------------------------
(* Inserting a row.                                                        *)

LEMMA InsertStep ==
    ASSUME IInv, NEW w \in Workers, Insert(w)
    PROVE  SubsInv' /\ PendingBounded' /\ OverInv' /\ CodesInv'
  <1>1. TypeOK /\ SubsInv /\ PendingBounded /\ OverInv /\ CodesInv
    BY DEF IInv
  <1>2. PICK k \in Kinds, n \in Codes(worker[w].kind), by \in Subs \cup {None} :
           /\ k = worker[w].kind /\ n = worker[w].code /\ by = worker[w].by
           /\ worker[w].pc = "coded"
           /\ n = 1 \/ n - 1 \in Taken(k)
    BY <1>1, RequestFields DEF Insert, IsAt, TypeOK, CodesInv
  <1>3. /\ k \in Unique => n \notin Taken(k)
        /\ holders' = [holders EXCEPT ![k][n] = @ + 1]
        /\ used' = [r \in Subs |-> IF r \in InForce \ worker[w].stale
                                    THEN [used[r] EXCEPT ![k] = @ + 1] ELSE used[r]]
        /\ granted' = IF by \in InForce \ worker[w].stale
                       THEN [granted EXCEPT ![by][k] = @ + 1] ELSE granted
        /\ UNCHANGED <<sub, task>>
        /\ \A v \in Workers : worker'[v] = IF v = w THEN Idle ELSE worker[v]
    BY <1>1, <1>2 DEF Insert, Becomes, TypeOK, subVars
  <1>4. \A r \in Subs, j \in Kinds :
           /\ granted[r][j] \in Nat /\ used[r][j] \in Nat
           /\ used'[r][j] = IF r \in InForce \ worker[w].stale /\ j = k
                               THEN used[r][j] + 1 ELSE used[r][j]
           /\ granted'[r][j] = IF r = by /\ r \in InForce \ worker[w].stale /\ j = k
                               THEN granted[r][j] + 1 ELSE granted[r][j]
    <2>1. ASSUME NEW r \in Subs, NEW j \in Kinds
          PROVE  /\ granted[r][j] \in Nat /\ used[r][j] \in Nat
                 /\ used'[r][j] = IF r \in InForce \ worker[w].stale /\ j = k
                                     THEN used[r][j] + 1 ELSE used[r][j]
      BY <1>1, <1>3 DEF TypeOK
    <2>2. ASSUME NEW r \in Subs, NEW j \in Kinds
          PROVE  granted'[r][j] = IF r = by /\ r \in InForce \ worker[w].stale /\ j = k
                                    THEN granted[r][j] + 1 ELSE granted[r][j]
      <3>1. CASE by \in InForce \ worker[w].stale
        <4>1. granted' = [granted EXCEPT ![by][k] = @ + 1] /\ by \in Subs
          BY <1>3, <3>1 DEF InForce
        <4> QED BY <1>1, <3>1, <4>1 DEF TypeOK
      <3>2. CASE by \notin InForce \ worker[w].stale
        BY <1>3, <3>2
      <3> QED BY <3>1, <3>2
    <2> QED BY <2>1, <2>2
  <1>5. \A j \in Kinds : \A m \in Codes(j) :
           /\ holders[j][m] \in Nat
           /\ holders'[j][m] = IF j = k /\ m = n THEN holders[j][m] + 1 ELSE holders[j][m]
    BY <1>1, <1>2, <1>3 DEF TypeOK
  <1>6. /\ \A j \in Kinds : Taken(j)' = IF j = k THEN Taken(j) \cup {n} ELSE Taken(j)
        /\ \A j : Codes(j)' = Codes(j)
    BY <1>2, <1>5 DEF Taken, Codes
  <1>7. Pending' = Pending /\ InForce' = InForce /\ Requesting' = Requesting
    BY <1>2, <1>3 DEF Pending, InForce, Requesting, IsAt, Idle
  <1>8. SubsInv'
    <2>1. ASSUME NEW r \in Subs, NEW j \in Kinds
          PROVE  granted'[r][j] <= used'[r][j] /\ (r \notin InForce' => granted'[r][j] = 0)
      <3>1. granted[r][j] <= used[r][j] /\ (r \notin InForce => granted[r][j] = 0)
        BY <1>1 DEF SubsInv
      <3> QED BY <1>4, <1>7, <3>1
    <2>2. ASSUME NEW v \in Workers
          PROVE  /\ worker'[v].pc = "activating" => sub[worker'[v].sub].status # "none"
                 /\ worker'[v].pc \in {"admitted", "coded"} /\ worker'[v].by \in Subs =>
                       sub[worker'[v].by].status \notin {"none", "pending"}
      BY <1>1, <1>3 DEF SubsInv, Idle
    <2> QED BY <1>1, <1>3, <2>1, <2>2 DEF SubsInv
  <1>9. PendingBounded'
    BY <1>1, <1>7 DEF PendingBounded
  <1>10. ASSUME NEW r \in Subs, NEW j \in Kinds, sub[r].status # "none"
         PROVE  granted'[r][j] + Cardinality(InFlight(r, j)') <= Limit[sub[r].package][j] + R - 1
    <2>1. granted[r][j] + Cardinality(InFlight(r, j)) <= Limit[sub[r].package][j] + R - 1
      BY <1>1, <1>10 DEF OverInv
    <2>2. Limit[sub[r].package][j] \in Nat /\ R \in Nat
      BY <1>1, <1>10, LimitAssumption, WorkerSets DEF SubsInv
    <2>3. InFlight(r, j) \in SUBSET Workers /\ InFlight(r, j)' = InFlight(r, j) \ {w}
      BY <1>3 DEF InFlight, Idle
    <2>4. CASE r = by /\ j = k
      <3>1. w \in InFlight(r, j)
        BY <1>2, <2>4 DEF InFlight
      <3>2. /\ Cardinality(InFlight(r, j)') = Cardinality(InFlight(r, j)) - 1
            /\ Cardinality(InFlight(r, j)) \in Nat
        BY <2>3, <3>1, WorkerSets
      <3>3. granted'[r][j] <= granted[r][j] + 1 /\ granted'[r][j] \in Nat
            /\ granted[r][j] \in Nat
        BY <1>4
      <3> QED BY <2>1, <2>2, <3>2, <3>3
    <2>5. CASE ~ (r = by /\ j = k)
      <3>1. granted'[r][j] = granted[r][j]
        BY <1>4, <2>5
      <3>2. w \notin InFlight(r, j)
        BY <1>2, <2>5 DEF InFlight
      <3> QED BY <2>1, <2>3, <3>1, <3>2
    <2> QED BY <2>4, <2>5
  <1>11. OverInv'
    BY <1>3, <1>10 DEF OverInv, R
  <1>12. ASSUME NEW j \in Kinds PROVE \E t \in 0 .. MaxRows[j] : Taken(j)' = 1 .. t
    <2>1. PICK t \in 0 .. MaxRows[j] : Taken(j) = 1 .. t
      BY <1>1 DEF CodesInv
    <2>2. CASE j # k
      BY <1>6, <2>1, <2>2
    <2>3. CASE j = k
      <3>1. n \in 1 .. MaxRows[j] /\ MaxRows[j] \in Nat
        BY <1>2, <2>3, BoundAssumption DEF Codes
      <3>2. n <= t + 1
        BY <1>2, <2>1, <2>3, <3>1
      <3>5. Taken(j)' = (1 .. t) \cup {n}
        BY <1>6, <2>1, <2>3
      <3>3. CASE n <= t
        <4>1. Taken(j)' = 1 .. t
          BY <2>1, <3>1, <3>3, <3>5
        <4> QED BY <4>1
      <3>4. CASE n = t + 1
        <4>1. Taken(j)' = 1 .. (t + 1) /\ t + 1 \in 0 .. MaxRows[j]
          BY <2>1, <3>1, <3>4, <3>5
        <4> QED BY <4>1
      <3> QED BY <2>1, <3>1, <3>2, <3>3, <3>4
    <2> QED BY <2>2, <2>3
  <1>13. CodesInv'
    <2>1. ASSUME NEW v \in Workers, NEW j, worker'[v].pc = "coded", j = worker'[v].kind
          PROVE  /\ worker'[v].code \in Codes(j)
                 /\ worker'[v].code = 1 \/ worker'[v].code - 1 \in Taken(j)'
      <3>1. v # w /\ worker'[v] = worker[v]
        BY <1>3, <2>1 DEF Idle
      <3>2. j \in Kinds
        BY <1>1, <2>1, <3>1, RequestFields DEF TypeOK
      <3>3. worker[v].code \in Codes(j) /\ (worker[v].code = 1 \/ worker[v].code - 1 \in Taken(j))
        BY <1>1, <2>1, <3>1 DEF CodesInv
      <3>4. Taken(j) \subseteq Taken(j)'
        BY <1>6, <3>2
      <3> QED BY <3>1, <3>3, <3>4
    <2>2. ASSUME NEW j \in Unique, NEW m \in Codes(j) PROVE holders'[j][m] <= 1
      <3>1. j \in Kinds /\ holders[j][m] <= 1
        BY <1>1, <2>2 DEF CodesInv, Unique, Kinds
      <3>2. CASE j = k /\ m = n
        <4>1. holders[j][m] \in Nat /\ ~ (holders[j][m] > 0)
          BY <1>3, <1>5, <2>2, <3>1, <3>2 DEF Taken
        <4> QED BY <1>5, <2>2, <3>1, <4>1
      <3> QED BY <1>5, <2>2, <3>1, <3>2
    <2>3. ASSUME NEW m \in Codes("small")
          PROVE  holders'["small"][m] + Cardinality(Coding(m)') <= R
      <3>1. holders["small"][m] + Cardinality(Coding(m)) <= R /\ "small" \in Kinds
        BY <1>1, <2>3 DEF CodesInv, Kinds
      <3>2. Coding(m) \in SUBSET Workers /\ Coding(m)' = Coding(m) \ {w}
        BY <1>3 DEF Coding, Idle
      <3>3. CASE k = "small" /\ m = n
        <4>1. w \in Coding(m)
          BY <1>2, <3>3 DEF Coding
        <4>2. /\ Cardinality(Coding(m)') = Cardinality(Coding(m)) - 1
              /\ Cardinality(Coding(m)) \in Nat
          BY <3>2, <4>1, WorkerSets
        <4>3. holders'["small"][m] = holders["small"][m] + 1 /\ holders["small"][m] \in Nat
          BY <1>5, <2>3, <3>1, <3>3
        <4> QED BY <3>1, <4>2, <4>3, WorkerSets
      <3>4. CASE ~ (k = "small" /\ m = n)
        <4>1. w \notin Coding(m)
          BY <1>2, <3>4 DEF Coding
        <4>2. holders'["small"][m] = holders["small"][m]
          BY <1>5, <2>3, <3>1, <3>4
        <4> QED BY <3>1, <3>2, <4>1, <4>2
      <3> QED BY <3>3, <3>4
    <2>4. \A v \in Workers : \A j \in {worker'[v].kind} : worker'[v].pc = "coded" =>
             /\ worker'[v].code \in Codes(j)
             /\ worker'[v].code = 1 \/ worker'[v].code - 1 \in Taken(j)'
      BY <2>1
    <2> QED BY <1>6, <1>12, <2>2, <2>3, <2>4 DEF CodesInv, R, Codes, Taken
  <1> QED BY <1>8, <1>9, <1>11, <1>13

-----------------------------------------------------------------------------
(* Choosing a code.                                                        *)

(* The codes taken are 1 .. t: both rules can choose t + 1 only.           *)
LEMMA CodeRule ==
    ASSUME CodesInv, NEW k \in Kinds, NEW n \in NextCode(k)
    PROVE  /\ n \in Codes(k) /\ n \notin Taken(k)
           /\ n = 1 \/ n - 1 \in Taken(k)
  <1>1. PICK t \in 0 .. MaxRows[k] : Taken(k) = 1 .. t
    BY DEF CodesInv
  <1>2. MaxRows[k] \in Nat /\ t \in Nat
    BY BoundAssumption
  <1>3. CASE k = "hawala"
    <2>1. /\ n \in Codes(k) /\ n \notin Taken(k) /\ n > Cardinality(Taken(k))
          /\ \A m \in Codes(k) : Cardinality(Taken(k)) < m /\ m < n => m \in Taken(k)
      BY <1>3 DEF NextCode, AfterCount
    <2>2. Cardinality(Taken(k)) = t
      BY <1>1, <1>2, FS_Interval
    <2>3. n \in Nat /\ n > t
      BY <1>2, <2>1, <2>2 DEF Codes
    <2>4. CASE n = t + 1
      BY <1>1, <1>2, <2>1, <2>3, <2>4
    <2>5. CASE n > t + 1
      <3>1. t + 1 \in Codes(k)
        BY <1>2, <2>1, <2>3, <2>5 DEF Codes
      <3>2. t + 1 \in 1 .. t
        BY <1>1, <1>2, <2>1, <2>2, <2>5, <3>1
      <3> QED BY <1>2, <3>2
    <2> QED BY <1>2, <2>3, <2>4, <2>5
  <1>4. CASE k # "hawala"
    <2>1. n \in Codes(k) /\ (\A m \in Taken(k) : m < n) /\ (n = 1 \/ n - 1 \in Taken(k))
      BY <1>4 DEF NextCode, AfterLast
    <2>2. n \notin Taken(k)
      BY <1>2, <2>1 DEF Codes
    <2> QED BY <2>1, <2>2
  <1> QED BY <1>3, <1>4

-----------------------------------------------------------------------------
(* The invariant.                                                          *)

LEMMA InitInv == Init => IInv
  <1> SUFFICES ASSUME Init PROVE IInv
    OBVIOUS
  <1>1. TypeOK
    BY InitType
  <1>2. \A w \in Workers : worker[w].pc = "idle"
    BY DEF Init, Idle
  <1>3. \A s \in Subs : /\ sub[s].status = "none"
                        /\ \A k \in Kinds : granted[s][k] = 0 /\ used[s][k] = 0
    BY DEF Init, NoSub, Zero
  <1>4. SubsInv
    BY <1>2, <1>3 DEF SubsInv, Init
  <1>5. PendingBounded
    <2>1. Pending = {} /\ Requesting = {}
      BY <1>2, <1>3 DEF Pending, Requesting, IsAt
    <2>2. Cardinality({}) = 0 /\ R \in Nat
      BY FS_EmptySet, WorkerSets
    <2> QED BY <2>1, <2>2 DEF PendingBounded, R
  <1>6. OverInv
    BY <1>3 DEF OverInv
  <1>7. CodesInv
    <2>1. ASSUME NEW k \in Kinds
          PROVE  /\ \A n \in Codes(k) : holders[k][n] = 0
                 /\ \E t \in 0 .. MaxRows[k] : Taken(k) = 1 .. t
      <3>1. \A n \in Codes(k) : holders[k][n] = 0
        BY DEF Init
      <3>2. Taken(k) = 1 .. 0 /\ 0 \in 0 .. MaxRows[k]
        BY <3>1, BoundAssumption DEF Taken
      <3> QED BY <3>1, <3>2
    <2>2. \A n : Coding(n) = {}
      BY <1>2 DEF Coding
    <2>3. Cardinality({}) = 0 /\ R \in Nat
      BY FS_EmptySet, WorkerSets
    <2>4. Unique \subseteq Kinds /\ "small" \in Kinds
      BY DEF Unique, Kinds
    <2>5. \A n \in Codes("small") : holders["small"][n] = 0
      BY <2>1, <2>4
    <2>6. \A k \in Unique : \A n \in Codes(k) : holders[k][n] <= 1
      BY <2>1, <2>4
    <2>7. \A n \in Codes("small") : holders["small"][n] + Cardinality(Coding(n)) <= R
      BY <2>2, <2>3, <2>5
    <2> QED BY <1>2, <2>1, <2>6, <2>7 DEF CodesInv
  <1> QED BY <1>1, <1>4, <1>5, <1>6, <1>7 DEF IInv

LEMMA NextInv == IInv /\ [Next]_vars => IInv'
  <1> SUFFICES ASSUME IInv, [Next]_vars PROVE IInv'
    OBVIOUS
  <1> DEFINE Goal == SubsInv' /\ PendingBounded' /\ OverInv' /\ CodesInv'
  <1>1. TypeOK /\ SubsInv /\ CodesInv
    BY DEF IInv
  <1>2. TypeOK'
    BY <1>1, TypeStep
  <1>3. \A w \in Workers : worker[w] \in Request
    BY <1>1 DEF TypeOK
  <1>4. ASSUME SetFreeMode \/ WakeUp \/ Die \/ UNCHANGED vars PROVE Goal
    <2>1. /\ UNCHANGED <<sub, used, granted, holders, worker>>
          /\ task' \subseteq task \cup Overdue
      BY <1>4 DEF SetFreeMode, WakeUp, Die, subVars, rowVars, vars
    <2> QED BY <2>1, QuietStep
  <1>5. ASSUME NEW s \in Subs, TermEnds(s) \/ Reject(s) \/ SaveExpired(s) PROVE Goal
    <2>1. /\ sub[s].status # "none" /\ task' \subseteq task
          /\ UNCHANGED <<holders, worker>>
      BY <1>1, <1>5 DEF TermEnds, Reject, SaveExpired, SubsInv
    <2>2. PICK status \in {"overdue", "expired", "rejected"} : Leave({s}, status)
      BY <1>5 DEF TermEnds, Reject, SaveExpired
    <2> QED BY <2>1, <2>2, LeaveStep
  <1>6. ASSUME NEW w \in Workers, NEW p \in Packages, AskPackage(w, p) PROVE Goal
    <2> DEFINE r == [pc |-> "requesting", package |-> p]
    <2>1. r \in Request /\ r.pc = "requesting"
      BY DEF Request
    <2>2. Pending = {} /\ Becomes(w, r) /\ UNCHANGED <<sub, used, granted, holders, task>>
      BY <1>6 DEF AskPackage, subVars, rowVars
    <2> HIDE DEF r
    <2> QED BY <2>1, <2>2, WorkerStep
  <1>7. ASSUME NEW w \in Workers, NEW s \in Subs, LoadPending(w, s) PROVE Goal
    <2> DEFINE r == [pc |-> "activating", sub |-> s]
    <2>1. r \in Request /\ r.pc = "activating" /\ r.sub = s
      BY DEF Request
    <2>2. /\ sub[s].status # "none" /\ Becomes(w, r)
          /\ UNCHANGED <<sub, used, granted, holders, task>>
      BY <1>7 DEF LoadPending, subVars, rowVars
    <2> HIDE DEF r
    <2> QED BY <2>1, <2>2, WorkerStep
  <1>8. ASSUME NEW w \in Workers, NEW k \in Kinds, CheckLimit(w, k) PROVE Goal
    <2>1. PICK by \in Subs \cup {None} :
             Admitted(w, k, by) /\ (by = None \/ (by \in InForce /\ has_room(by, k)))
      BY <1>8 DEF CheckLimit, get_active_subscription, InForce
    <2> DEFINE r == [pc |-> "admitted", kind |-> k, by |-> by]
    <2>2. r \in Request /\ r.pc = "admitted" /\ r.kind = k /\ r.by = by
      BY DEF Request
    <2>3. Becomes(w, r) /\ UNCHANGED <<sub, used, granted, holders, task>>
      BY <2>1 DEF Admitted, subVars, rowVars
    <2> HIDE DEF r
    <2>4. r.by \notin Subs \/ (r.by \in InForce /\ has_room(r.by, r.kind))
      BY <2>1, <2>2, NoneAssumption
    <2> QED BY <2>2, <2>3, <2>4, WorkerStep
  <1>9. ASSUME NEW w \in Workers, ChooseCode(w) PROVE Goal
    <2>1. PICK k \in Kinds : k = worker[w].kind /\ worker[w].pc = "admitted"
      BY <1>3, <1>9, RequestFields DEF ChooseCode, IsAt
    <2>2. worker[w].by \in Subs \cup {None}
      BY <1>3, <2>1, RequestFields
    <2>3. PICK n \in NextCode(k) :
             Becomes(w, [pc |-> "coded", kind |-> k, by |-> worker[w].by,
                         code |-> n, stale |-> {}])
      BY <1>9, <2>1 DEF ChooseCode
    <2>4. /\ n \in Codes(k) /\ n \notin Taken(k) /\ (n = 1 \/ n - 1 \in Taken(k))
      BY <1>1, CodeRule
    <2>5. n \in Nat
      BY <2>4, BoundAssumption DEF Codes
    <2>6. PICK r : r = [pc |-> "coded", kind |-> k, by |-> worker[w].by,
                        code |-> n, stale |-> {}]
      OBVIOUS
    <2>7. /\ r \in Request /\ r.pc = "coded" /\ r.kind = k /\ r.by = worker[w].by
          /\ r.code = n
      BY <2>2, <2>5, <2>6 DEF Request
    <2>8. Becomes(w, r) /\ UNCHANGED <<sub, used, granted, holders, task>>
      BY <1>9, <2>3, <2>6 DEF ChooseCode, subVars, rowVars
    <2>9. /\ r.code \in Codes(r.kind) /\ (r.code = 1 \/ r.code - 1 \in Taken(r.kind))
          /\ r.kind = "small" => r.code \notin Taken("small")
      BY <2>4, <2>7
    <2> QED BY <2>1, <2>7, <2>8, <2>9, WorkerStep
  <1>10. ASSUME NEW w \in Workers, Fail(w) PROVE Goal
    <2>1. Idle \in Request /\ Idle.pc = "idle"
      BY DEF Request, Idle
    <2>2. Becomes(w, Idle) /\ UNCHANGED <<sub, used, granted, holders, task>>
      BY <1>10 DEF Fail, subVars, rowVars
    <2> QED BY <2>1, <2>2, WorkerStep
  <1>11. ASSUME NEW w \in Workers, NEW s \in Subs, InsertSubscription(w, s) PROVE Goal
    BY <1>11, AskedStep
  <1>12. ASSUME NEW w \in Workers, activate_subscription(w) PROVE Goal
    BY <1>12, ActivateStep
  <1>13. ASSUME NEW w \in Workers, Insert(w) PROVE Goal
    BY <1>13, InsertStep
  <1>14. Goal
    BY <1>4, <1>5, <1>6, <1>7, <1>8, <1>9, <1>10, <1>11, <1>12, <1>13
       DEF Next, Platform, RequestStep
  <1> QED BY <1>2, <1>14 DEF IInv

(* The invariant holds in every state that can be reached.                 *)
THEOREM Invariance == Spec => []IInv
  <1> QED BY InitInv, NextInv, PTL DEF Spec

(* Every variable keeps its type.                                          *)
THEOREM TypeCorrect == Spec => []TypeOK
  <1>1. IInv => TypeOK
    BY DEF IInv
  <1> QED BY Invariance, <1>1, PTL

(* What waits for its activation and what is about to wait are together    *)
(* never more than the requests that can overlap (RequestSubscriptionView  *)
(* checks before it creates, and locks nothing in between).                *)
THEOREM PendingNeverPiles == Spec => []PendingBounded
  <1>1. IInv => PendingBounded
    BY DEF IInv
  <1> QED BY Invariance, <1>1, PTL

(* can_create_small_office and check_transactions_limit count without a    *)
(* lock; a limit is still exceeded by no more rows than there are other    *)
(* requests in flight.                                                     *)
THEOREM LimitsOvershootBounded == Spec => []OvershootBounded
  <1>1. IInv => OvershootBounded
    <2> SUFFICES ASSUME IInv, NEW s \in Subs, NEW k \in Kinds, granted[s][k] # 0
                 PROVE  granted[s][k] <= Limit[sub[s].package][k] + Cardinality(Workers) - 1
      BY DEF OvershootBounded
    <2>1. TypeOK /\ SubsInv /\ OverInv
      BY DEF IInv
    <2>2. sub[s].status # "none"
      BY <2>1 DEF SubsInv, InForce
    <2>3. granted[s][k] + Cardinality(InFlight(s, k)) <= Limit[sub[s].package][k] + R - 1
      BY <2>1, <2>2 DEF OverInv
    <2>4. /\ Cardinality(InFlight(s, k)) \in Nat /\ R \in Nat
          /\ granted[s][k] \in Nat /\ Limit[sub[s].package][k] \in Nat
      <3>1. InFlight(s, k) \in SUBSET Workers
        BY DEF InFlight
      <3> QED BY <2>1, <2>2, <3>1, WorkerSets, LimitAssumption DEF TypeOK, SubsInv
    <2> QED BY <2>3, <2>4 DEF R
  <1> QED BY Invariance, <1>1, PTL

(* The references of transactions are given out once each and without      *)
(* gaps, and no code of a small office is shared by more offices than      *)
(* requests can overlap (generate_small_office_code, _generate_reference). *)
THEOREM CodesStayDense == Spec => []CodesDense
  <1>1. IInv => CodesDense
    <2> SUFFICES ASSUME IInv PROVE CodesDense
      OBVIOUS
    <2>1. TypeOK /\ CodesInv
      BY DEF IInv
    <2>2. ASSUME NEW k \in Kinds, NEW n \in Taken(k), NEW m \in Codes(k), m < n
          PROVE  m \in Taken(k)
      <3>1. PICK t \in 0 .. MaxRows[k] : Taken(k) = 1 .. t
        BY <2>1 DEF CodesInv
      <3>2. MaxRows[k] \in Nat
        BY BoundAssumption
      <3> QED BY <2>2, <3>1, <3>2 DEF Codes
    <2>3. ASSUME NEW n \in Codes("small")
          PROVE  holders["small"][n] <= Cardinality(Workers)
      <3>1. holders["small"][n] + Cardinality(Coding(n)) <= R
        BY <2>1 DEF CodesInv
      <3>2. Cardinality(Coding(n)) \in Nat /\ R \in Nat /\ holders["small"][n] \in Nat
        <4>1. Coding(n) \in SUBSET Workers
          BY DEF Coding
        <4> QED BY <2>1, <4>1, WorkerSets DEF TypeOK, Kinds
      <3> QED BY <3>1, <3>2 DEF R
    <2> QED BY <2>1, <2>2, <2>3 DEF CodesDense, CodesInv
  <1> QED BY Invariance, <1>1, PTL
=============================================================================
