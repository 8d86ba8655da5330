------------------------------ MODULE Notices -------------------------------
(***************************************************************************)
(* Notifications (backend/apps/notifications) of one office: the tail of   *)
(* the requests that notify it, its socket, and the bell of its page       *)
(* (frontend/src/lib/ws.ts, NotificationBell.tsx).                         *)
(*                                                                         *)
(* Nothing of this is in a transaction.  The bell shows an unread count    *)
(* that was read some time ago: by the request that notified, by the       *)
(* socket when it opened, or by a load of the list.  What matters of a     *)
(* count is when it was read: a count is represented by its time, the      *)
(* number of changes of the table of notifications before it.  A bell just *)
(* mounted shows the count of time 0, which is 0.                          *)
(*                                                                         *)
(* The socket belongs to the script of the page, not to the bell: it stays *)
(* open when the bell is mounted again, and when the office logs out.      *)
(***************************************************************************)
EXTENDS Naturals, Sequences

CONSTANTS
    Requests,    \* threads of the server that serve what notifies the office
    Loads,       \* requests of the page for the list, or to mark it read
    MaxChanges   \* bound on the changes of the table

ASSUME MaxChangesAssumption == MaxChanges \in Nat

VARIABLES
    barred,    \* the office is blocked, or its tenant stopped (Accounts)
    unread,    \* unread[t]: the unread notifications after the t-th change
    request,   \* the requests that notify the office
    token,     \* what the session of its page is good for (Sessions)
    socket,    \* the consumer of its socket
    inbox,     \* channel layer: counts sent to the group, not yet forwarded
    wire,      \* counts on their way to the page
    load,      \* the requests of the page
    shown,     \* the count the bell shows
    causes     \* ghost: why it may not be the count of the table

pageVars == <<token, load, shown>>
vars == <<barred, unread, request, token, socket, inbox, wire, load, shown, causes>>

Now == Len(unread)
Times == 0 .. MaxChanges
Count(t) == IF t = 0 THEN 0 ELSE unread[t]

Idle == [pc |-> "idle"]
At(pcs) == [pc : pcs, at : Times]

Causes == {"reordered", "unsent", "unseen", "unloaded"}

TypeOK ==
    /\ barred \in BOOLEAN
    /\ unread \in Seq(Nat) /\ Now <= MaxChanges
    /\ request \in [Requests -> [pc : {"idle", "stored"}] \cup At({"counted"})]
    /\ token \in {"good", "expired", "dead", "none"}
    /\ socket \in [pc : {"closed", "admitted", "joined", "open"}] \cup At({"counted"})
    /\ inbox \in Seq(Times) /\ wire \in Seq([kind : {"hello", "notification"}, at : Times])
    /\ load \in [Loads -> [pc : {"idle", "reading", "list", "opening"}]
                         \cup At({"answered", "opened", "marked"})]
    /\ shown \in Times
    /\ causes \subseteq Causes

Init ==
    /\ barred = FALSE
    /\ unread = <<>>
    /\ request = [r \in Requests |-> Idle]
    /\ token = "none"
    /\ socket = [pc |-> "closed"]
    /\ inbox = <<>> /\ wire = <<>>
    /\ load = [l \in Loads |-> Idle]
    /\ shown = 0 /\ causes = {}

Change(n) == Now < MaxChanges /\ unread' = Append(unread, n)

Becomes(r, s) == request' = [request EXCEPT ![r] = s]

-----------------------------------------------------------------------------
(* The tail of a request whose act is committed: the notification is       *)
(* stored, the unread ones are counted, and the count is sent to the group *)
(* of the office.  (A request that dies before it stores the notification  *)
(* changes nothing here.)                                                  *)

Store(r) ==
    /\ request[r] = Idle
    /\ Change(Count(Now) + 1)
    /\ Becomes(r, [pc |-> "stored"])
    /\ UNCHANGED <<barred, socket, inbox, wire, pageVars, causes>>

(* (Bug: the notification just stored is counted as one that follows.)     *)
CountNext(r) ==
    /\ request[r].pc = "stored"
    /\ Becomes(r, [pc |-> "counted", at |-> Now + 1])
    /\ UNCHANGED <<barred, unread, socket, inbox, wire, pageVars, causes>>

CountUnread(r) ==
    /\ request[r].pc = "stored"
    /\ Becomes(r, [pc |-> "counted", at |-> Now])
    /\ UNCHANGED <<barred, unread, socket, inbox, wire, pageVars, causes>>

(* (Bug: the group is joined after the unread ones are counted.)           *)
JoinsLast == socket.pc = "open"

InGroup == socket.pc \in {"joined", "counted", "open"}

Send(r) ==
    /\ request[r].pc = "counted"
    /\ inbox' = IF InGroup THEN Append(inbox, request[r].at) ELSE inbox
    /\ Becomes(r, Idle)
    /\ UNCHANGED <<barred, unread, socket, wire, pageVars, causes>>

(* An error, a crash, or a channel layer that is away or full: the act and *)
(* the notification stand, and the answer is an error.                     *)
Fail(r) ==
    /\ request[r] # Idle
    /\ Becomes(r, Idle)
    /\ causes' = causes \cup {"unsent"}
    /\ UNCHANGED <<barred, unread, socket, inbox, wire, pageVars>>

-----------------------------------------------------------------------------
(* The socket.  The office is authenticated when it connects only: without *)
(* a good access token, or barred, it is refused, and tries again in three *)
(* seconds.  connectWs does nothing while there is a socket.               *)

Connect ==
    /\ socket.pc = "closed" /\ token = "good" /\ ~ barred
    /\ socket' = [pc |-> "admitted"]
    /\ UNCHANGED <<barred, unread, request, inbox, wire, pageVars, causes>>

(* group_add and accept.                                                   *)
Join ==
    /\ socket.pc = "admitted"
    /\ socket' = [pc |-> "joined"]
    /\ UNCHANGED <<barred, unread, request, inbox, wire, pageVars, causes>>

CountHello ==
    /\ socket.pc = "joined"
    /\ socket' = [pc |-> "counted", at |-> Now]
    /\ UNCHANGED <<barred, unread, request, inbox, wire, pageVars, causes>>

SendHello ==
    /\ socket.pc = "counted"
    /\ wire' = Append(wire, [kind |-> "hello", at |-> socket.at])
    /\ socket' = [pc |-> "open"]
    /\ UNCHANGED <<barred, unread, request, inbox, pageVars, causes>>

(* (Bug: the count of a notification is not forwarded.)                    *)
SwallowEvent ==
    /\ socket.pc = "open" /\ inbox # <<>>
    /\ inbox' = Tail(inbox)
    /\ UNCHANGED <<barred, unread, request, socket, wire, pageVars, causes>>

push_event ==
    /\ socket.pc = "open" /\ inbox # <<>>
    /\ wire' = Append(wire, [kind |-> "notification", at |-> Head(inbox)])
    /\ inbox' = Tail(inbox)
    /\ UNCHANGED <<barred, unread, request, socket, pageVars, causes>>

Disconnect ==
    /\ socket.pc # "closed"
    /\ socket' = [pc |-> "closed"] /\ inbox' = <<>> /\ wire' = <<>>
    /\ UNCHANGED <<barred, unread, request, pageVars, causes>>

-----------------------------------------------------------------------------
(* The page.                                                               *)

Mounted == token # "none"

Show(t) ==
    /\ shown' = t
    /\ causes' = IF t = Now THEN {} ELSE IF t < shown THEN causes \cup {"reordered"} ELSE causes

Free == {l \in Loads : load[l] = Idle}

LoadBecomes(l, s) == load' = [load EXCEPT ![l] = s]

TakeHello ==
    /\ Mounted /\ wire # <<>> /\ Head(wire).kind = "hello"
    /\ Show(Head(wire).at)
    /\ wire' = Tail(wire)
    /\ UNCHANGED <<barred, unread, request, token, socket, inbox, load>>

(* The count is shown and the list loaded again (or the load fails at      *)
(* once: with every request of Loads in flight, that is all it can do).    *)
TakeNotification ==
    /\ Mounted /\ wire # <<>> /\ Head(wire).kind = "notification"
    /\ Show(Head(wire).at)
    /\ wire' = Tail(wire)
    /\ \/ \E l \in Free : LoadBecomes(l, [pc |-> "list"])
       \/ Free = {} /\ UNCHANGED load
    /\ UNCHANGED <<barred, unread, request, token, socket, inbox>>

(* No bell listens while the office is logged out.                         *)
Unheard ==
    /\ ~ Mounted /\ wire # <<>>
    /\ wire' = Tail(wire)
    /\ UNCHANGED <<barred, unread, request, socket, inbox, pageVars, causes>>

(* A bell is mounted: it shows 0 until something tells it the count, and   *)
(* asks for the list; answers to the bell before it go to nobody.          *)
Mount(l) ==
    /\ shown' = 0
    /\ load' = [k \in Loads |-> IF k = l THEN [pc |-> "opening"] ELSE Idle]
    /\ causes' = {}
    /\ UNCHANGED <<barred, unread, request, socket, inbox, wire>>

(* The office logs in, or its page moves to another layout.                *)
LogIn(l)   == ~ barred /\ token' = "good" /\ Mount(l)
Remount(l) == Mounted /\ UNCHANGED token /\ Mount(l)

(* It logs out, or its session is given up; the socket is left as it is.   *)
LogOut ==
    /\ Mounted
    /\ token' = "none"
    /\ load' = [l \in Loads |-> Idle]
    /\ UNCHANGED <<barred, unread, request, socket, inbox, wire, shown, causes>>

(* The access token expires; the refresh token does, or was used or        *)
(* revoked, and the next renewal is refused.                               *)
Age ==
    /\ \/ token = "good" /\ token' \in {"expired", "dead"}
       \/ token = "expired" /\ token' = "dead"
    /\ UNCHANGED <<barred, unread, request, socket, inbox, wire, load, shown, causes>>

Renew ==
    /\ token = "expired" /\ token' = "good"
    /\ UNCHANGED <<barred, unread, request, socket, inbox, wire, load, shown, causes>>

(* "list" and "opening" ask for the list, "reading" marks everything read. *)
PressReadAll(l) ==
    /\ Mounted /\ load[l] = Idle /\ Count(shown) > 0
    /\ LoadBecomes(l, [pc |-> "reading"])
    /\ UNCHANGED <<barred, unread, request, token, socket, inbox, wire, shown, causes>>

Served == token = "good" /\ ~ barred

ServeList(l) ==
    /\ load[l].pc \in {"list", "opening"} /\ Served
    /\ LoadBecomes(l, [pc |-> IF load[l].pc = "list" THEN "answered" ELSE "opened", at |-> Now])
    /\ UNCHANGED <<barred, unread, request, token, socket, inbox, wire, shown, causes>>

(* MarkReadView updates and counts again in two statements; they are one   *)
(* step here, so that its answer never counts a notification in between.   *)
MarkRead(l) ==
    /\ load[l].pc = "reading" /\ Served
    /\ IF Count(Now) > 0 THEN Change(0) ELSE UNCHANGED unread
    /\ LoadBecomes(l, [pc |-> "marked", at |-> Len(unread')])
    /\ UNCHANGED <<barred, request, token, socket, inbox, wire, shown, causes>>

TakeList(l) ==
    /\ load[l].pc \in {"answered", "opened"}
    /\ Show(load[l].at)
    /\ LoadBecomes(l, Idle)
    /\ UNCHANGED <<barred, unread, request, token, socket, inbox, wire>>

(* The answer of read-all is shown and the list loaded again.              *)
TakeMarked(l) ==
    /\ load[l].pc = "marked"
    /\ Show(load[l].at)
    /\ LoadBecomes(l, [pc |-> "list"])
    /\ UNCHANGED <<barred, unread, request, token, socket, inbox, wire>>

(* A request of the page or its answer is lost, or refused; the page       *)
(* ignores it.                                                             *)
LoadFails(l) ==
    /\ load[l] # Idle
    /\ LoadBecomes(l, Idle)
    /\ causes' = causes \cup (CASE load[l].pc = "marked" -> {"unseen"}
                               [] load[l].pc \in {"opening", "opened"} -> {"unloaded"}
                               [] OTHER -> {})
    /\ UNCHANGED <<barred, unread, request, token, socket, inbox, wire, shown>>

(* Another page of the office marks everything read: nothing is sent.      *)
ReadElsewhere ==
    /\ Count(Now) > 0 /\ Change(0) /\ ~ barred
    /\ causes' = causes \cup {"unseen"}
    /\ UNCHANGED <<barred, request, socket, inbox, wire, pageVars>>

Bar ==
    /\ barred' = ~ barred
    /\ UNCHANGED <<unread, request, socket, inbox, wire, pageVars, causes>>

Next ==
    \/ \E r \in Requests : Store(r) \/ CountUnread(r) \/ Send(r) \/ Fail(r)
    \/ Connect \/ Join \/ CountHello \/ SendHello \/ push_event \/ Disconnect
    \/ TakeHello \/ TakeNotification \/ Unheard \/ LogOut \/ Age \/ Renew
    \/ \E l \in Loads :
          \/ LogIn(l) \/ Remount(l) \/ PressReadAll(l) \/ ServeList(l) \/ MarkRead(l)
          \/ TakeList(l) \/ TakeMarked(l) \/ LoadFails(l)
    \/ ReadElsewhere \/ Bar

(* The server goes on with what it has begun, the page with what it gets;  *)
(* it renews and connects again and again, and not every connection is cut *)
(* before the count arrives, nor every access token expired before it is   *)
(* used.  A load is answered or fails, and not every answer comes to a     *)
(* bell that has gone.                                                     *)
Fairness ==
    /\ \A r \in Requests : WF_vars(CountUnread(r) \/ Send(r))
    /\ WF_vars(Renew) /\ SF_vars(Connect)
    /\ SF_vars(Join) /\ SF_vars(CountHello) /\ SF_vars(SendHello)
    /\ SF_vars(TakeHello) /\ WF_vars(push_event) /\ SF_vars(TakeNotification)
    /\ \A l \in Loads : /\ WF_vars(ServeList(l) \/ LoadFails(l))
                        /\ SF_vars(TakeList(l) \/ LoadFails(l))
                        /\ WF_vars(TakeMarked(l))

Spec == Init /\ [][Next]_vars /\ Fairness

-----------------------------------------------------------------------------
(* Properties.                                                             *)

(* There is a bell, and nothing is on its way to it.                       *)
Quiet ==
    /\ Mounted /\ socket.pc = "open" /\ inbox = <<>> /\ wire = <<>>
    /\ \A l \in Loads : load[l] = Idle
    /\ \A r \in Requests : request[r] = Idle

(* When nothing is on its way, the bell shows the count of the table, or   *)
(* there is a cause since it was mounted or last showed the count: the     *)
(* requests that notify, the socket that joins its group and counts, and   *)
(* the loads of the page are in no order, and a bell mounted over an open  *)
(* socket depends on its first load.                                       *)
BadgeExplained == Quiet /\ causes = {} => Count(shown) = Count(Now)

(* Every change of the table is seen at the bell in the end, unless        *)
(* nothing was sent of it, an older count arrived after a newer one, the   *)
(* list could not be loaded when the bell was mounted, or the office is    *)
(* barred, logged out, or left with a session that cannot be renewed: its  *)
(* socket is then refused for ever, every three seconds.                   *)
BellCatchesUp ==
    \A t \in 1 .. MaxChanges :
        Now >= t ~> shown >= t \/ causes # {} \/ barred \/ token \in {"dead", "none"}
=============================================================================
