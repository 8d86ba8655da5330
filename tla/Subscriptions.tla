--------------------------- MODULE Subscriptions ----------------------------
(***************************************************************************)
(* Packages, subscriptions and the limits they put on one big office       *)
(* (backend/apps/admin_panel), together with the creations that consult    *)
(* them and the codes these choose: small offices and transactions.        *)
(*                                                                         *)
(* No creation locks what it has read: the limit, the last code and the    *)
(* insert are separate steps of a request.  Time is abstracted to what the *)
(* code compares: which activation is later, whether a term is over (the   *)
(* row is then called overdue: ACTIVE, with expires_at in the past), and   *)
(* how many rows were created since an activation.  Activation and count   *)
(* are asked of an active subscription only, and kept for no other.        *)
(***************************************************************************)
EXTENDS Integers, FiniteSets

CONSTANTS
    Subs,       \* identities of the rows of Subscription of the office
    Packages,
    Limit,      \* Limit[p][k]: max_small_offices or max_transactions of a package
    Workers,    \* request threads
    None,       \* no subscription, no package
    MaxRows     \* MaxRows[k]: bound on the codes given out

Kinds == {"small", "hawala"}

(* Kinds whose code the database keeps unique: the reference of a          *)
(* transaction; User.office_code has no such constraint.                   *)
Unique == {"hawala"}

ASSUME LimitAssumption == Limit \in [Packages -> [Kinds -> Nat]]
ASSUME NoneAssumption == None \notin Subs \cup Packages
ASSUME BoundAssumption == MaxRows \in [Kinds -> Nat]
ASSUME WorkersAssumption == IsFiniteSet(Workers) /\ IsFiniteSet(Subs)

VARIABLES
    free_mode,  \* PlatformSettings.free_mode
    sub,        \* the subscriptions
    used,       \* rows created since the activation of each subscription
    granted,    \* ghost: those of them that its limit was asked for
    holders,    \* holders[k][n]: how many rows of kind k have the code n
    worker,     \* the requests
    task,       \* what the daily expire_subscriptions task has still to save
    later       \* <<r, s>>: s was activated after r

vars == <<free_mode, sub, used, granted, holders, worker, task, later>>

Codes(k) == 1 .. MaxRows[k]

Subscription ==
    [status : {"none", "pending", "active", "overdue", "expired", "rejected"},
     package : Packages \cup {None}]

NoSub == [status |-> "none", package |-> None]

Idle == [pc |-> "idle"]

Request ==
         {Idle}
    \cup [pc : {"requesting"}, package : Packages]
    \cup [pc : {"activating"}, sub : Subs]
    \cup [pc : {"admitted"}, kind : Kinds, by : Subs \cup {None}]
    \cup [pc : {"coded"}, kind : Kinds, by : Subs \cup {None}, code : Nat,
           stale : SUBSET Subs]    \* activated after the row was stamped

TypeOK ==
    /\ free_mode \in BOOLEAN
    /\ sub \in [Subs -> Subscription]
    /\ used \in [Subs -> [Kinds -> Nat]]
    /\ granted \in [Subs -> [Kinds -> Nat]]
    /\ DOMAIN holders = Kinds /\ \A k \in Kinds : holders[k] \in [Codes(k) -> Nat]
    /\ worker \in [Workers -> Request]
    /\ task \subseteq Subs
    /\ later \subseteq Subs \X Subs

Zero == [k \in Kinds |-> 0]

Init ==
    /\ free_mode = TRUE
    /\ sub = [s \in Subs |-> NoSub]
    /\ used = [s \in Subs |-> Zero] /\ granted = [s \in Subs |-> Zero]
    /\ holders = [k \in Kinds |-> [n \in Codes(k) |-> 0]]
    /\ worker = [w \in Workers |-> Idle]
    /\ task = {} /\ later = {}

subVars == <<sub, later>>
rowVars == <<used, granted, holders>>

Becomes(w, r) == worker' = [worker EXCEPT ![w] = r]
IsAt(w, pc) == worker[w].pc = pc

-----------------------------------------------------------------------------
(* The platform: free mode, the end of a term (expires_at passes).         *)
SetFreeMode ==
    /\ free_mode' = ~ free_mode
    /\ UNCHANGED <<subVars, rowVars, worker, task>>

(* The subscriptions in S get a status in which nothing is asked of them.  *)
Leave(S, status) ==
    /\ sub' = [s \in Subs |-> IF s \in S THEN [sub[s] EXCEPT !.status = status] ELSE sub[s]]
    /\ later' = {rs \in later : rs[1] \notin S /\ rs[2] \notin S}
    /\ used' = [s \in Subs |-> IF s \in S THEN Zero ELSE used[s]]
    /\ granted' = [s \in Subs |-> IF s \in S THEN Zero ELSE granted[s]]

TermEnds(s) ==
    /\ sub[s].status = "active"
    /\ Leave({s}, "overdue")
    /\ UNCHANGED <<free_mode, holders, worker, task>>

-----------------------------------------------------------------------------
(* Requesting, activating and rejecting a subscription.                    *)

Pending == {s \in Subs : sub[s].status = "pending"}
InForce == {s \in Subs : sub[s].status = "active"}
Overdue == {s \in Subs : sub[s].status = "overdue"}

(* (Bug: a request that waits for its activation does not stop another.)   *)
AskAgain(w, p) ==
    /\ IsAt(w, "idle")
    /\ Becomes(w, [pc |-> "requesting", package |-> p])
    /\ UNCHANGED <<free_mode, subVars, rowVars, task>>

AskPackage(w, p) ==
    /\ IsAt(w, "idle")
    /\ Pending = {}
    /\ Becomes(w, [pc |-> "requesting", package |-> p])
    /\ UNCHANGED <<free_mode, subVars, rowVars, task>>

InsertSubscription(w, s) ==
    /\ IsAt(w, "requesting") /\ sub[s] = NoSub
    /\ sub' = [sub EXCEPT ![s] = [NoSub EXCEPT !.status = "pending",
                                               !.package = worker[w].package]]
    /\ Becomes(w, Idle)
    /\ UNCHANGED <<free_mode, later, rowVars, task>>

LoadPending(w, s) ==
    /\ IsAt(w, "idle") /\ sub[s].status = "pending"
    /\ Becomes(w, [pc |-> "activating", sub |-> s])
    /\ UNCHANGED <<free_mode, subVars, rowVars, task>>

(* date_joined is set when the user is built, before its password is       *)
(* hashed and its row inserted: a subscription activated in between does   *)
(* not count the row.  created_at of a transaction is set by the insert.   *)
Stamped(r, s) ==
    IF r.pc = "coded" /\ r.kind = "small" THEN [r EXCEPT !.stale = @ \cup {s}] ELSE r

activate_subscription(w) ==
    LET s == worker[w].sub
    IN  /\ IsAt(w, "activating")
        /\ sub' = [sub EXCEPT ![s].status = "active"]
        /\ later' = {rs \in later : rs[1] # s} \cup {<<r, s>> : r \in InForce \ {s}}
        /\ used' = [used EXCEPT ![s] = Zero]
        /\ granted' = [granted EXCEPT ![s] = Zero]
        /\ worker' = [v \in Workers |-> IF v = w THEN Idle ELSE Stamped(worker[v], s)]
        /\ UNCHANGED <<free_mode, holders, task>>

(* Whatever its status is.                                                 *)
Reject(s) ==
    /\ sub[s].status # "none"
    /\ Leave({s}, "rejected")
    /\ UNCHANGED <<free_mode, holders, worker, task>>

-----------------------------------------------------------------------------
(* Creations.                                                              *)

get_active_subscription ==
    {s \in InForce : \A r \in InForce \ {s} : <<r, s>> \in later}

(* (Bug: the limit is compared with a strict inequality.)                  *)
has_room_off_by_one(s, k) == used[s][k] <= Limit[sub[s].package][k]

has_room(s, k) == used[s][k] < Limit[sub[s].package][k]

Admitted(w, k, by) ==
    /\ Becomes(w, [pc |-> "admitted", kind |-> k, by |-> by])
    /\ UNCHANGED <<free_mode, subVars, rowVars, task>>

(* can_create_small_office and check_transactions_limit.                   *)
CheckLimit(w, k) ==
    /\ IsAt(w, "idle")
    /\ \/ free_mode /\ Admitted(w, k, None)
       \/ /\ ~ free_mode
          /\ \E s \in get_active_subscription : has_room(s, k) /\ Admitted(w, k, s)

Taken(k) == {n \in Codes(k) : holders[k][n] > 0}

(* generate_small_office_code.                                             *)
(* (Bug: the last code is taken, not the one after it.)                    *)
SameCode(k) == {n \in Codes(k) : n = 1 \/ n \in Taken(k)}

AfterLast(k) == {n \in Codes(k) : (\A m \in Taken(k) : m < n)
                               /\ (n = 1 \/ n - 1 \in Taken(k))}

(* _generate_reference: the number of rows plus one, and on from there     *)
(* while the code exists.                                                  *)
AfterCount(k) ==
    {n \in Codes(k) : /\ n \notin Taken(k) /\ n > Cardinality(Taken(k))
                   /\ \A m \in Codes(k) : Cardinality(Taken(k)) < m /\ m < n => m \in Taken(k)}

NextCode(k) == IF k = "hawala" THEN AfterCount(k) ELSE AfterLast(k)

ChooseCode(w) ==
    /\ IsAt(w, "admitted")
    /\ \E n \in NextCode(worker[w].kind) :
          Becomes(w, [pc |-> "coded", kind |-> worker[w].kind, by |-> worker[w].by,
                      code |-> n, stale |-> {}])
    /\ UNCHANGED <<free_mode, subVars, rowVars, task>>

Insert(w) ==
    LET k == worker[w].kind  n == worker[w].code  s == worker[w].by
    IN  /\ IsAt(w, "coded")
        /\ k \in Unique => n \notin Taken(k)
        /\ holders' = [holders EXCEPT ![k][n] = @ + 1]
        /\ used' = [r \in Subs |-> IF r \in InForce \ worker[w].stale
                                     THEN [used[r] EXCEPT ![k] = @ + 1] ELSE used[r]]
        /\ granted' = IF s \in InForce \ worker[w].stale
                        THEN [granted EXCEPT ![s][k] = @ + 1] ELSE granted
        /\ Becomes(w, Idle)
        /\ UNCHANGED <<free_mode, subVars, task>>

(* Refused input, a code that is taken, a crash: nothing is left behind.   *)
Fail(w) ==
    /\ worker[w] # Idle
    /\ Becomes(w, Idle)
    /\ UNCHANGED <<free_mode, subVars, rowVars, task>>

-----------------------------------------------------------------------------
(* expire_subscriptions, once a day: the overdue rows are listed, then     *)
(* each is saved by its status column, whatever it has become, and its     *)
(* owner told.                                                             *)

(* (Bug: the task does nothing in free mode.)                              *)
WakeUpPaid ==
    /\ task = {} /\ Overdue # {} /\ ~ free_mode
    /\ task' = Overdue
    /\ UNCHANGED <<free_mode, subVars, rowVars, worker>>

WakeUp ==
    /\ task = {} /\ Overdue # {}
    /\ task' = Overdue
    /\ UNCHANGED <<free_mode, subVars, rowVars, worker>>

SaveExpired(s) ==
    /\ s \in task
    /\ Leave({s}, "expired")
    /\ task' = task \ {s}
    /\ UNCHANGED <<free_mode, holders, worker>>

(* The Celery worker dies; the next run lists what is left.                *)
Die ==
    /\ task # {} /\ task' = {}
    /\ UNCHANGED <<free_mode, subVars, rowVars, worker>>

Platform ==
    \/ SetFreeMode
    \/ \E s \in Subs : TermEnds(s) \/ Reject(s)

RequestStep(w) ==
    \/ \E p \in Packages : AskPackage(w, p)
    \/ \E s \in Subs : InsertSubscription(w, s) \/ LoadPending(w, s)
    \/ activate_subscription(w)
    \/ \E k \in Kinds : CheckLimit(w, k)
    \/ ChooseCode(w) \/ Insert(w) \/ Fail(w)

Next ==
    \/ Platform
    \/ \E w \in Workers : RequestStep(w)
    \/ WakeUp \/ Die
    \/ \E s \in Subs : SaveExpired(s)

(* Celery beat starts the task every day, and a run may die, but not all   *)
(* of them do before their first save.                                     *)
Fairness == WF_vars(WakeUp) /\ SF_vars(\E s \in Subs : SaveExpired(s))

Spec == Init /\ [][Next]_vars /\ Fairness

-----------------------------------------------------------------------------
(* Properties.                                                             *)

(* One request of the office at a time may wait for its activation:        *)
(* overlapping requests break this, but what waits and what is about to    *)
(* wait are never more than the requests that can overlap.                 *)
Requesting == {w \in Workers : IsAt(w, "requesting")}

PendingBounded ==
    Cardinality(Pending) + Cardinality(Requesting) <= Cardinality(Workers)

(* A limit is exceeded only by creations that overlap: since its           *)
(* activation a subscription has admitted at most its limit and one row    *)
(* for every other request in flight.                                      *)
OvershootBounded ==
    \A s \in Subs, k \in Kinds :
        granted[s][k] # 0 =>
            granted[s][k] <= Limit[sub[s].package][k] + Cardinality(Workers) - 1

(* References are given out once each and without gaps, although two       *)
(* requests may choose the same one: the database lets one of them         *)
(* through.  The codes of small offices leave no gap either, but one code  *)
(* may be shared by as many offices as requests overlap.                   *)
CodesDense ==
    /\ \A k \in Kinds : \A n \in Taken(k) : \A m \in Codes(k) : m < n => m \in Taken(k)
    /\ \A k \in Unique : \A n \in Codes(k) : holders[k][n] <= 1
    /\ \A n \in Codes("small") : holders["small"][n] <= Cardinality(Workers)

(* A subscription whose term is over does not stay active.                 *)
TermEndNoticed ==
    \A s \in Subs : s \in Overdue ~> s \notin Overdue
=============================================================================
