---------------------------- MODULE NoticesProofs ---------------------------
(***************************************************************************)
(* Why the bell is right when nothing is on its way: as long as there is   *)
(* no cause, the count of the last change is shown, or somebody carries it *)
(* - the request that stored it, the socket, a queue, the load that marked *)
(* everything read, or the first load of a bell just mounted.              *)
(***************************************************************************)
EXTENDS Notices, TLAPS

RequestCarries == \E r \in Requests : \/ request[r].pc = "stored"
                                      \/ request[r].pc = "counted" /\ request[r].at = Now

(* A socket that has not counted yet will count the last change.           *)
SocketCarries == \/ socket.pc \in {"closed", "admitted", "joined"}
                 \/ socket.pc = "counted" /\ socket.at = Now

InboxCarries == \E i \in 1 .. Len(inbox) : inbox[i] = Now

WireCarries == \E i \in 1 .. Len(wire) : wire[i].at = Now

LoadCarries == \E l \in Loads : \/ load[l].pc = "opening"
                                \/ load[l].pc \in {"opened", "marked"} /\ load[l].at = Now

(* Without a bell there is nothing to carry: the next one loads the list.  *)
Carried ==
    \/ shown = Now \/ ~ Mounted
    \/ RequestCarries \/ SocketCarries \/ InboxCarries \/ WireCarries \/ LoadCarries

(* No count is of the future.                                              *)
RequestsPast == \A r \in Requests : request[r].pc = "counted" => request[r].at <= Now
SocketPast == socket.pc = "counted" => socket.at <= Now
InboxPast == \A i \in 1 .. Len(inbox) : inbox[i] <= Now
WirePast == \A i \in 1 .. Len(wire) : wire[i].at <= Now
LoadsPast == \A l \in Loads : load[l].pc \in {"answered", "opened", "marked"} => load[l].at <= Now

Past == shown <= Now /\ RequestsPast /\ SocketPast /\ InboxPast /\ WirePast /\ LoadsPast

NInv ==
    /\ TypeOK
    /\ Past
    /\ causes = {} => Carried

Message == [kind : {"hello", "notification"}, at : Times]
RequestState == [pc : {"idle", "stored"}] \cup At({"counted"})
SocketState == [pc : {"closed", "admitted", "joined", "open"}] \cup At({"counted"})
LoadState == [pc : {"idle", "reading", "list", "opening"}] \cup At({"answered", "opened", "marked"})

-----------------------------------------------------------------------------
(* Times and counts.                                                       *)

LEMMA NowIsTime == TypeOK => Now \in Times /\ Now \in Nat
BY MaxChangesAssumption DEF TypeOK, Now, Times

LEMMA RequestTime ==
    ASSUME TypeOK, NEW r \in Requests, request[r].pc = "counted"
    PROVE  request[r].at \in Times
BY DEF TypeOK, At

LEMMA SocketTime ==
    ASSUME TypeOK, socket.pc = "counted"
    PROVE  socket.at \in Times
BY DEF TypeOK, At

LEMMA LoadTime ==
    ASSUME TypeOK, NEW l \in Loads, load[l].pc \in {"answered", "opened", "marked"}
    PROVE  load[l].at \in Times
BY DEF TypeOK, At

LEMMA QueueTimes ==
    ASSUME TypeOK
    PROVE  /\ Len(inbox) \in Nat /\ \A i \in 1 .. Len(inbox) : inbox[i] \in Nat
           /\ Len(wire) \in Nat /\ \A i \in 1 .. Len(wire) : wire[i].at \in Nat
<1>1. inbox \in Seq(Times) /\ wire \in Seq(Message)
  BY DEF TypeOK, Message
<1>2. Times \subseteq Nat
  BY DEF Times
<1>3. /\ Len(inbox) \in Nat /\ \A i \in 1 .. Len(inbox) : inbox[i] \in Times
      /\ Len(wire) \in Nat /\ \A i \in 1 .. Len(wire) : wire[i] \in Message
  BY <1>1
<1> QED BY <1>2, <1>3 DEF Message

LEMMA CountIsNat ==
    ASSUME TypeOK, NEW t \in Times, t <= Now
    PROVE  Count(t) \in Nat
BY MaxChangesAssumption DEF TypeOK, Now, Times, Count

LEMMA ChangeStep ==
    ASSUME TypeOK, NEW n \in Nat, Change(n)
    PROVE  /\ unread' \in Seq(Nat) /\ Now' = Now + 1 /\ Now' \in Times
           /\ Now' = Len(unread') /\ Now' <= MaxChanges
BY MaxChangesAssumption DEF TypeOK, Change, Now, Times

(* What is appended to a queue or taken from it.                           *)
LEMMA Appended ==
    ASSUME NEW S, NEW q \in Seq(S), NEW x \in S
    PROVE  /\ Append(q, x) \in Seq(S) /\ Len(Append(q, x)) = Len(q) + 1
           /\ Append(q, x)[Len(q) + 1] = x
           /\ \A i \in 1 .. Len(q) : Append(q, x)[i] = q[i]
OBVIOUS

LEMMA Taken ==
    ASSUME NEW S, NEW q \in Seq(S), q # <<>>
    PROVE  /\ Tail(q) \in Seq(S) /\ Len(Tail(q)) = Len(q) - 1 /\ Len(q) \in Nat \ {0}
           /\ Head(q) \in S /\ Head(q) = q[1]
           /\ \A i \in 1 .. Len(q) - 1 : Tail(q)[i] = q[i + 1]
OBVIOUS

-----------------------------------------------------------------------------
(* The requests that notify.                                               *)

LEMMA StoreStep ==
    ASSUME NInv, NEW r \in Requests, Store(r)
    PROVE  NInv'
<1>0. TypeOK /\ Now \in Times /\ Now \in Nat
  BY NowIsTime DEF NInv
<1>1. Count(Now) + 1 \in Nat
  BY <1>0, CountIsNat
<1>2. /\ unread' \in Seq(Nat) /\ Now' = Now + 1 /\ Now' \in Times
      /\ Now' = Len(unread') /\ Now' <= MaxChanges
  BY <1>0, <1>1, ChangeStep DEF Store
<1>3. /\ UNCHANGED <<barred, token, socket, inbox, wire, load, shown, causes>>
      /\ \A q \in Requests : request'[q] = IF q = r THEN [pc |-> "stored"] ELSE request[q]
  BY DEF NInv, TypeOK, Store, Becomes, pageVars
<1>4. TypeOK'
  BY <1>0, <1>2, <1>3 DEF TypeOK, Store, Becomes
<1>5. Past'
  <2>1. RequestsPast'
    BY <1>0, <1>2, <1>3, RequestTime DEF NInv, Past, RequestsPast, Times
  <2>2. SocketPast' /\ shown' <= Now'
    BY <1>0, <1>2, <1>3, SocketTime DEF NInv, TypeOK, Past, SocketPast, Times
  <2>3. InboxPast'
    BY <1>0, <1>2, <1>3, QueueTimes DEF NInv, Past, InboxPast
  <2>4. WirePast'
    BY <1>0, <1>2, <1>3, QueueTimes DEF NInv, Past, WirePast
  <2>5. LoadsPast'
    BY <1>0, <1>2, <1>3, LoadTime DEF NInv, Past, LoadsPast, Times
  <2> QED BY <2>1, <2>2, <2>3, <2>4, <2>5 DEF Past
<1>6. RequestCarries'
  BY <1>3 DEF RequestCarries
<1> QED BY <1>4, <1>5, <1>6 DEF NInv, Carried, Mounted

LEMMA CountStep ==
    ASSUME NInv, NEW r \in Requests, CountUnread(r)
    PROVE  NInv'
<1>0. TypeOK /\ Now \in Times /\ Now \in Nat
  BY NowIsTime DEF NInv
<1>1. /\ UNCHANGED <<barred, unread, token, socket, inbox, wire, load, shown, causes>>
      /\ \A q \in Requests :
            request'[q] = IF q = r THEN [pc |-> "counted", at |-> Now] ELSE request[q]
      /\ request' = [request EXCEPT ![r] = [pc |-> "counted", at |-> Now]]
  BY DEF NInv, TypeOK, CountUnread, Becomes, pageVars
<1>2. Now' = Now
  BY <1>1 DEF Now
<1>3. TypeOK'
  BY <1>0, <1>1, <1>2 DEF TypeOK, At
<1>4. Past'
  BY <1>0, <1>1, <1>2 DEF NInv, Past, RequestsPast, SocketPast, InboxPast, WirePast, LoadsPast
<1>5. RequestCarries'
  BY <1>1, <1>2 DEF RequestCarries
<1> QED BY <1>3, <1>4, <1>5 DEF NInv, Carried, Mounted

LEMMA SendStep ==
    ASSUME NInv, NEW r \in Requests, Send(r)
    PROVE  NInv'
<1>0. TypeOK /\ Now \in Times /\ Now \in Nat
  BY NowIsTime DEF NInv
<1>1. /\ UNCHANGED <<barred, unread, token, socket, wire, load, shown, causes>>
      /\ request[r].pc = "counted"
      /\ \A q \in Requests : request'[q] = IF q = r THEN Idle ELSE request[q]
      /\ inbox' = IF InGroup THEN Append(inbox, request[r].at) ELSE inbox
  BY DEF NInv, TypeOK, Send, Becomes, pageVars
<1>2. Now' = Now
  BY <1>1 DEF Now
<1>3. request[r].at \in Times /\ request[r].at <= Now
  BY <1>0, <1>1, RequestTime DEF NInv, Past, RequestsPast
<1>4. inbox \in Seq(Times)
  BY <1>0 DEF TypeOK
<1>5. /\ inbox' \in Seq(Times)
      /\ InboxPast'
      /\ InboxCarries => InboxCarries'
      /\ InGroup /\ request[r].at = Now => InboxCarries'
  <2>1. CASE InGroup
    <3>1. inbox' = Append(inbox, request[r].at)
      BY <1>1, <2>1
    <3>2. /\ inbox' \in Seq(Times) /\ Len(inbox') = Len(inbox) + 1
          /\ inbox'[Len(inbox) + 1] = request[r].at
          /\ \A i \in 1 .. Len(inbox) : inbox'[i] = inbox[i]
      BY <1>3, <1>4, <3>1, Appended
    <3>3. Len(inbox) \in Nat
      BY <1>4
    <3>4. InboxPast'
      BY <1>2, <1>3, <3>2, <3>3 DEF NInv, Past, InboxPast
    <3>5. InboxCarries => InboxCarries'
      BY <1>2, <3>2, <3>3 DEF InboxCarries
    <3>6. request[r].at = Now => InboxCarries'
      BY <1>2, <3>2, <3>3 DEF InboxCarries
    <3> QED BY <3>2, <3>4, <3>5, <3>6
  <2>2. CASE ~ InGroup
    BY <1>1, <1>2, <1>4, <2>2 DEF NInv, Past, InboxPast, InboxCarries
  <2> QED BY <2>1, <2>2
<1>6. TypeOK'
  BY <1>0, <1>1, <1>2, <1>5 DEF TypeOK, Send, Becomes, Idle
<1>7. Past'
  BY <1>1, <1>2, <1>5 DEF NInv, Past, RequestsPast, SocketPast, WirePast, LoadsPast, Idle
<1>8. ~ InGroup => SocketCarries
  BY <1>0 DEF TypeOK, InGroup, SocketCarries, At
<1>9. Carried => Carried'
  <2>1. CASE RequestCarries
    <3>1. PICK q \in Requests : \/ request[q].pc = "stored"
                                \/ request[q].pc = "counted" /\ request[q].at = Now
      BY <2>1 DEF RequestCarries
    <3>2. CASE q = r
      BY <3>1, <3>2, <1>1, <1>2, <1>5, <1>8 DEF Carried, Mounted, SocketCarries
    <3>3. CASE q # r
      BY <3>1, <3>3, <1>1, <1>2 DEF Carried, Mounted, RequestCarries
    <3> QED BY <3>2, <3>3
  <2>2. CASE shown = Now \/ ~ Mounted \/ SocketCarries \/ InboxCarries \/ WireCarries \/ LoadCarries
    BY <2>2, <1>1, <1>2, <1>5 DEF Carried, Mounted, SocketCarries, WireCarries, LoadCarries
  <2> QED BY <2>1, <2>2 DEF Carried, Mounted
<1> QED BY <1>1, <1>6, <1>7, <1>9 DEF NInv

LEMMA FailStep ==
    ASSUME NInv, NEW r \in Requests, Fail(r)
    PROVE  NInv'
<1>1. /\ UNCHANGED <<barred, unread, token, socket, inbox, wire, load, shown>>
      /\ \A q \in Requests : request'[q] = IF q = r THEN Idle ELSE request[q]
      /\ causes' = causes \cup {"unsent"}
  BY DEF NInv, TypeOK, Fail, Becomes, pageVars
<1>2. Now' = Now
  BY <1>1 DEF Now
<1>3. TypeOK'
  BY <1>1, <1>2 DEF NInv, TypeOK, Fail, Becomes, Idle, Causes
<1>4. Past'
  BY <1>1, <1>2 DEF NInv, Past, RequestsPast, SocketPast, InboxPast, WirePast, LoadsPast, Idle
<1> QED BY <1>1, <1>3, <1>4 DEF NInv

-----------------------------------------------------------------------------
(* The socket.                                                             *)

(* It connects, joins its group, counts, and is cut; the queues stay, or   *)
(* are emptied with it.                                                    *)
LEMMA SocketStep ==
    ASSUME NInv, Connect \/ Join \/ CountHello \/ Disconnect
    PROVE  NInv'
<1>0. TypeOK /\ Now \in Times /\ Now \in Nat
  BY NowIsTime DEF NInv
<1>1. /\ UNCHANGED <<barred, unread, request, token, load, shown, causes>>
      /\ socket' \in { [pc |-> "admitted"], [pc |-> "joined"], [pc |-> "closed"],
                       [pc |-> "counted", at |-> Now] }
      /\ \/ UNCHANGED <<inbox, wire>>
         \/ inbox' = <<>> /\ wire' = <<>>
  BY DEF Connect, Join, CountHello, Disconnect, pageVars
<1>2. Now' = Now
  BY <1>1 DEF Now
<1>3. TypeOK'
  <2>1. socket' \in SocketState
    BY <1>0, <1>1 DEF SocketState, At
  <2>2. inbox' \in Seq(Times) /\ wire' \in Seq(Message)
    <3>1. inbox \in Seq(Times) /\ wire \in Seq(Message)
      BY <1>0 DEF TypeOK, Message
    <3>2. <<>> \in Seq(Times) /\ <<>> \in Seq(Message)
      OBVIOUS
    <3> QED BY <3>1, <3>2, <1>1
  <2> QED BY <1>0, <1>1, <1>2, <2>1, <2>2 DEF TypeOK, SocketState, Message
<1>4. Past'
  <2>1. SocketPast' /\ shown' <= Now'
    BY <1>0, <1>1, <1>2 DEF NInv, Past, SocketPast
  <2>2. InboxPast' /\ WirePast'
    BY <1>1, <1>2 DEF NInv, Past, InboxPast, WirePast
  <2> QED BY <1>1, <1>2, <2>1, <2>2 DEF NInv, Past, RequestsPast, LoadsPast
<1>5. SocketCarries'
  BY <1>1, <1>2 DEF SocketCarries
<1> QED BY <1>3, <1>4, <1>5 DEF NInv, Carried, Mounted

(* A count goes on the wire: that of the socket, or the next of the inbox. *)
LEMMA WireStep ==
    ASSUME NInv, NEW m \in Message, m.at <= Now, wire' = Append(wire, m),
           inbox' \in Seq(Times), InboxPast',
           InboxCarries => InboxCarries' \/ m.at = Now,
           socket' = [pc |-> "open"],
           SocketCarries => m.at = Now,
           UNCHANGED <<barred, unread, request, token, load, shown, causes>>
    PROVE  NInv'
<1>1. Now' = Now
  BY DEF Now
<1>2. wire \in Seq(Message)
  BY DEF NInv, TypeOK, Message
<1>3. /\ wire' \in Seq(Message) /\ Len(wire') = Len(wire) + 1 /\ Len(wire) \in Nat
      /\ wire'[Len(wire) + 1] = m
      /\ \A i \in 1 .. Len(wire) : wire'[i] = wire[i]
  BY <1>2, Appended
<1>4. TypeOK'
  BY <1>1, <1>3 DEF NInv, TypeOK, Message
<1>5. WirePast'
  BY <1>1, <1>3 DEF NInv, Past, WirePast
<1>6. Past'
  BY <1>1, <1>5 DEF NInv, Past, RequestsPast, SocketPast, LoadsPast
<1>7. WireCarries => WireCarries'
  BY <1>1, <1>3 DEF WireCarries
<1>8. m.at = Now => WireCarries'
  BY <1>1, <1>3 DEF WireCarries
<1> QED
  BY <1>1, <1>4, <1>6, <1>7, <1>8 DEF NInv, Carried, Mounted, RequestCarries, LoadCarries

LEMMA HelloStep ==
    ASSUME NInv, SendHello
    PROVE  NInv'
<1>1. PICK m : m = [kind |-> "hello", at |-> socket.at]
  OBVIOUS
<1>2. /\ socket.pc = "counted" /\ wire' = Append(wire, m) /\ socket' = [pc |-> "open"]
      /\ UNCHANGED <<barred, unread, request, token, inbox, load, shown, causes>>
  BY <1>1 DEF SendHello, pageVars
<1>3. m \in Message /\ m.at = socket.at /\ m.at <= Now
  BY <1>1, <1>2, SocketTime DEF NInv, Past, SocketPast, Message
<1>4. inbox' \in Seq(Times) /\ InboxPast' /\ (InboxCarries => InboxCarries')
  BY <1>2 DEF NInv, TypeOK, Past, InboxPast, InboxCarries, Now
<1>5. SocketCarries => m.at = Now
  BY <1>2, <1>3 DEF SocketCarries
<1> QED BY <1>2, <1>3, <1>4, <1>5, WireStep

LEMMA ForwardStep ==
    ASSUME NInv, push_event
    PROVE  NInv'
<1>1. PICK m : m = [kind |-> "notification", at |-> Head(inbox)]
  OBVIOUS
<1>2. /\ socket.pc = "open" /\ inbox # <<>> /\ wire' = Append(wire, m)
      /\ inbox' = Tail(inbox)
      /\ UNCHANGED <<barred, unread, request, token, socket, load, shown, causes>>
  BY <1>1 DEF push_event, pageVars
<1>3. inbox \in Seq(Times)
  BY DEF NInv, TypeOK
<1>4. /\ inbox' \in Seq(Times) /\ Len(inbox') = Len(inbox) - 1 /\ Len(inbox) \in Nat \ {0}
      /\ Head(inbox) \in Times /\ Head(inbox) = inbox[1]
      /\ \A i \in 1 .. Len(inbox) - 1 : inbox'[i] = inbox[i + 1]
  BY <1>2, <1>3, Taken
<1>5. Now' = Now
  BY <1>2 DEF Now
<1>6. m \in Message /\ m.at = inbox[1] /\ m.at <= Now
  BY <1>1, <1>4 DEF NInv, Past, InboxPast, Message
<1>7. InboxPast'
  BY <1>4, <1>5 DEF NInv, Past, InboxPast
<1>8. ASSUME InboxCarries, m.at # Now
      PROVE  InboxCarries'
  <2>1. PICK i \in 1 .. Len(inbox) : inbox[i] = Now
    BY <1>8 DEF InboxCarries
  <2>2. i # 1
    BY <2>1, <1>6, <1>8
  <2>3. i - 1 \in 1 .. Len(inbox) - 1 /\ (i - 1) + 1 = i
    BY <2>1, <2>2, <1>4
  <2>4. inbox'[i - 1] = Now
    BY <2>1, <2>3, <1>4
  <2> QED BY <2>3, <2>4, <1>4, <1>5 DEF InboxCarries
<1>9. socket' = [pc |-> "open"]
  BY <1>2 DEF NInv, TypeOK, At
<1>10. ~ SocketCarries
  BY <1>2 DEF SocketCarries
<1> QED BY <1>2, <1>4, <1>6, <1>7, <1>8, <1>9, <1>10, WireStep

-----------------------------------------------------------------------------
(* The page.                                                               *)

(* What the bell shows next, and whether that is a cause.                  *)
LEMMA Shows ==
    ASSUME NInv, NEW t \in Times, t <= Now, Show(t), UNCHANGED unread
    PROVE  /\ Now' = Now /\ shown' \in Times /\ shown' <= Now'
           /\ causes' \subseteq Causes
           /\ t = Now => shown' = Now'
           /\ t # Now /\ causes' = {} => causes = {} /\ shown # Now
<1>1. Now' = Now /\ Now \in Nat /\ t \in Nat /\ shown \in Nat
  BY NowIsTime DEF NInv, TypeOK, Now, Times
<1>2. shown' = t
  BY DEF Show
<1>3. causes' \subseteq Causes
  BY DEF NInv, TypeOK, Show, Causes
<1>4. ASSUME t # Now, causes' = {}
      PROVE  causes = {} /\ shown # Now
  BY <1>1, <1>4 DEF Show
<1> QED BY <1>1, <1>2, <1>3, <1>4

LEMMA TakeWireStep ==
    ASSUME NInv, wire # <<>>, wire' = Tail(wire), Show(Head(wire).at),
           load' \in [Loads -> LoadState], LoadsPast', LoadCarries => LoadCarries',
           UNCHANGED <<barred, unread, request, token, socket, inbox>>
    PROVE  NInv'
<1>1. wire \in Seq(Message)
  BY DEF NInv, TypeOK, Message
<1>2. /\ wire' \in Seq(Message) /\ Len(wire') = Len(wire) - 1 /\ Len(wire) \in Nat \ {0}
      /\ Head(wire) \in Message /\ Head(wire) = wire[1]
      /\ \A i \in 1 .. Len(wire) - 1 : wire'[i] = wire[i + 1]
  BY <1>1, Taken
<1>3. PICK t \in Times : t = Head(wire).at
  BY <1>2 DEF Message
<1>4. t <= Now
  BY <1>2, <1>3 DEF NInv, Past, WirePast
<1>5. /\ Now' = Now /\ shown' \in Times /\ shown' <= Now'
      /\ causes' \subseteq Causes
      /\ t = Now => shown' = Now'
      /\ t # Now /\ causes' = {} => causes = {} /\ shown # Now
  BY <1>3, <1>4, Shows
<1>6. TypeOK'
  BY <1>2, <1>5 DEF NInv, TypeOK, Message, LoadState
<1>7. WirePast'
  BY <1>2, <1>5 DEF NInv, Past, WirePast
<1>8. Past'
  BY <1>5, <1>7 DEF NInv, Past, RequestsPast, SocketPast, InboxPast
<1>9. ASSUME WireCarries, t # Now
      PROVE  WireCarries'
  <2>1. PICK i \in 1 .. Len(wire) : wire[i].at = Now
    BY <1>9 DEF WireCarries
  <2>2. i # 1
    BY <2>1, <1>2, <1>3, <1>9
  <2>3. i - 1 \in 1 .. Len(wire) - 1 /\ (i - 1) + 1 = i
    BY <2>1, <2>2, <1>2
  <2>4. wire'[i - 1] = wire[i]
    BY <2>3, <1>2
  <2> QED BY <2>1, <2>3, <2>4, <1>2, <1>5 DEF WireCarries
<1>10. ASSUME causes' = {}
       PROVE  Carried'
  <2>1. CASE t = Now
    BY <2>1, <1>5 DEF Carried, Mounted
  <2>2. CASE t # Now
    <3>1. \/ ~ Mounted
          \/ RequestCarries \/ SocketCarries \/ InboxCarries \/ WireCarries \/ LoadCarries
      BY <2>2, <1>5, <1>10 DEF NInv, Carried, Mounted
    <3> QED BY <3>1, <2>2, <1>5, <1>9 DEF Carried, Mounted, RequestCarries, SocketCarries, InboxCarries
  <2> QED BY <2>1, <2>2
<1> QED BY <1>6, <1>8, <1>10 DEF NInv

LEMMA TakeStep ==
    ASSUME NInv, TakeHello \/ TakeNotification
    PROVE  NInv'
<1>1. /\ wire # <<>> /\ wire' = Tail(wire) /\ Show(Head(wire).at)
      /\ UNCHANGED <<barred, unread, request, token, socket, inbox>>
      /\ load' = load \/ \E l \in Free : load' = [load EXCEPT ![l] = [pc |-> "list"]]
  BY DEF TakeHello, TakeNotification, LoadBecomes
<1>2. Now' = Now
  BY <1>1 DEF Now
<1>3. load \in [Loads -> LoadState]
  BY DEF NInv, TypeOK, LoadState
<1>4. CASE load' = load
  <2>1. load' \in [Loads -> LoadState] /\ LoadsPast' /\ (LoadCarries => LoadCarries')
    BY <1>2, <1>3, <1>4 DEF NInv, Past, LoadsPast, LoadCarries
  <2> QED BY <1>1, <2>1, TakeWireStep
<1>5. ASSUME NEW l \in Free, load' = [load EXCEPT ![l] = [pc |-> "list"]]
      PROVE  NInv'
  <2>1. l \in Loads /\ load[l].pc = "idle"
    BY DEF Free, Idle
  <2>2. load' \in [Loads -> LoadState]
    BY <1>3, <1>5, <2>1 DEF LoadState
  <2>3. \A k \in Loads : load'[k] = IF k = l THEN [pc |-> "list"] ELSE load[k]
    BY <1>3, <1>5, <2>1
  <2>4. LoadsPast' /\ (LoadCarries => LoadCarries')
    BY <1>2, <2>1, <2>3 DEF NInv, Past, LoadsPast, LoadCarries
  <2> QED BY <1>1, <2>2, <2>4, TakeWireStep
<1> QED BY <1>1, <1>4, <1>5

(* A load goes on, and nothing else.                                       *)
LEMMA LoadStep ==
    ASSUME NInv, NEW l \in Loads, NEW s \in LoadState,
           s.pc \in {"answered", "opened", "marked"} => s.at <= Now,
           load[l].pc \in {"opening", "opened", "marked"} => s.pc = "opened" /\ s.at = Now,
           load' = [load EXCEPT ![l] = s],
           UNCHANGED <<barred, unread, request, token, socket, inbox, wire, shown, causes>>
    PROVE  NInv'
<1>1. Now' = Now
  BY DEF Now
<1>2. load \in [Loads -> LoadState]
  BY DEF NInv, TypeOK, LoadState
<1>3. /\ load' \in [Loads -> LoadState]
      /\ \A k \in Loads : load'[k] = IF k = l THEN s ELSE load[k]
  BY <1>2
<1>4. TypeOK'
  BY <1>1, <1>3 DEF NInv, TypeOK, LoadState
<1>5. Past'
  <2>1. LoadsPast'
    BY <1>1, <1>3 DEF NInv, Past, LoadsPast
  <2> QED BY <1>1, <2>1 DEF NInv, Past, RequestsPast, SocketPast, InboxPast, WirePast
<1>6. LoadCarries => LoadCarries'
  BY <1>1, <1>3 DEF LoadCarries
<1> QED
  BY <1>1, <1>4, <1>5, <1>6
  DEF NInv, Carried, Mounted, RequestCarries, SocketCarries, InboxCarries, WireCarries

LEMMA AskStep ==
    ASSUME NInv, NEW l \in Loads, PressReadAll(l) \/ ServeList(l)
    PROVE  NInv'
<1>1. Now \in Times /\ Now \in Nat
  BY NowIsTime DEF NInv
<1>2. PICK s \in { [pc |-> "reading"], [pc |-> "answered", at |-> Now], [pc |-> "opened", at |-> Now] } :
        /\ load' = [load EXCEPT ![l] = s]
        /\ load[l].pc \in {"opening", "opened", "marked"} => s = [pc |-> "opened", at |-> Now]
  BY DEF PressReadAll, ServeList, LoadBecomes, Idle
<1>3. UNCHANGED <<barred, unread, request, token, socket, inbox, wire, shown, causes>>
  BY DEF PressReadAll, ServeList
<1>4. s \in LoadState /\ (s.pc \in {"answered", "opened", "marked"} => s.at <= Now)
  BY <1>1, <1>2 DEF LoadState, At
<1> QED BY <1>2, <1>3, <1>4, LoadStep

LEMMA MarkStep ==
    ASSUME NInv, NEW l \in Loads, MarkRead(l)
    PROVE  NInv'
<1>0. TypeOK /\ Now \in Times /\ Now \in Nat
  BY NowIsTime DEF NInv
<1>1. /\ UNCHANGED <<barred, request, token, socket, inbox, wire, shown, causes>>
      /\ load' = [load EXCEPT ![l] = [pc |-> "marked", at |-> Len(unread')]]
      /\ Change(0) \/ UNCHANGED unread
  BY DEF MarkRead, LoadBecomes
<1>2. /\ unread' \in Seq(Nat) /\ Now' \in {Now, Now + 1} /\ Now' \in Times
      /\ Now' = Len(unread') /\ Now' <= MaxChanges
  <2>1. CASE Change(0)
    BY <1>0, <2>1, ChangeStep
  <2>2. CASE UNCHANGED unread
    BY <1>0, <2>2 DEF TypeOK, Now
  <2> QED BY <1>1, <2>1, <2>2
<1>3. /\ load' \in [Loads -> LoadState]
      /\ \A k \in Loads : load'[k] = IF k = l THEN [pc |-> "marked", at |-> Now'] ELSE load[k]
  <2>1. load \in [Loads -> LoadState]
    BY <1>0 DEF TypeOK, LoadState
  <2>2. PICK s : s = [pc |-> "marked", at |-> Len(unread')]
    OBVIOUS
  <2>3. s \in LoadState /\ s = [pc |-> "marked", at |-> Now']
    BY <1>2, <2>2 DEF LoadState, At
  <2>4. load' = [load EXCEPT ![l] = s]
    BY <1>1, <2>2
  <2> QED BY <2>1, <2>3, <2>4
<1>4. TypeOK'
  BY <1>0, <1>1, <1>2, <1>3 DEF TypeOK, LoadState
<1>5. Past'
  <2>1. RequestsPast'
    BY <1>0, <1>1, <1>2, RequestTime DEF NInv, Past, RequestsPast, Times
  <2>2. SocketPast' /\ shown' <= Now'
    BY <1>0, <1>1, <1>2, SocketTime DEF NInv, TypeOK, Past, SocketPast, Times
  <2>3. InboxPast'
    BY <1>0, <1>1, <1>2, QueueTimes, SMTT(30) DEF NInv, Past, InboxPast
  <2>4. WirePast'
    BY <1>0, <1>1, <1>2, QueueTimes DEF NInv, Past, WirePast
  <2>5. LoadsPast'
    BY <1>0, <1>2, <1>3, LoadTime DEF NInv, Past, LoadsPast, Times
  <2> QED BY <2>1, <2>2, <2>3, <2>4, <2>5 DEF Past
<1>6. LoadCarries'
  BY <1>3 DEF LoadCarries
<1> QED BY <1>4, <1>5, <1>6 DEF NInv, Carried, Mounted

LEMMA AnswerStep ==
    ASSUME NInv, NEW l \in Loads, TakeList(l) \/ TakeMarked(l)
    PROVE  NInv'
<1>1. /\ load[l].pc \in {"answered", "opened", "marked"} /\ Show(load[l].at)
      /\ UNCHANGED <<barred, unread, request, token, socket, inbox, wire>>
  BY DEF TakeList, TakeMarked
<1>2. PICK s \in {Idle, [pc |-> "list"]} : load' = [load EXCEPT ![l] = s]
  BY DEF TakeList, TakeMarked, LoadBecomes
<1>3. PICK t \in Times : t = load[l].at
  BY <1>1, LoadTime DEF NInv
<1>4. t <= Now
  BY <1>1, <1>3 DEF NInv, Past, LoadsPast
<1>5. /\ Now' = Now /\ shown' \in Times /\ shown' <= Now'
      /\ causes' \subseteq Causes
      /\ t = Now => shown' = Now'
      /\ t # Now /\ causes' = {} => causes = {} /\ shown # Now
  BY <1>1, <1>3, <1>4, Shows
<1>6. load \in [Loads -> LoadState]
  BY DEF NInv, TypeOK, LoadState
<1>7. /\ load' \in [Loads -> LoadState]
      /\ \A k \in Loads : load'[k] = IF k = l THEN s ELSE load[k]
  BY <1>2, <1>6 DEF LoadState, Idle
<1>8. TypeOK'
  BY <1>1, <1>5, <1>7 DEF NInv, TypeOK, LoadState
<1>9. LoadsPast'
  BY <1>2, <1>5, <1>7 DEF NInv, Past, LoadsPast, Idle
<1>10. Past'
  BY <1>1, <1>5, <1>9 DEF NInv, Past, RequestsPast, SocketPast, InboxPast, WirePast
<1>11. t # Now /\ LoadCarries => LoadCarries'
  BY <1>1, <1>3, <1>5, <1>7 DEF LoadCarries
<1>12. ASSUME causes' = {}
       PROVE  Carried'
  <2>1. CASE t = Now
    BY <2>1, <1>5 DEF Carried, Mounted
  <2>2. CASE t # Now
    <3>1. \/ ~ Mounted
          \/ RequestCarries \/ SocketCarries \/ InboxCarries \/ WireCarries \/ LoadCarries
      BY <2>2, <1>5, <1>12 DEF NInv, Carried, Mounted
    <3> QED
      BY <3>1, <2>2, <1>1, <1>5, <1>11
      DEF Carried, Mounted, RequestCarries, SocketCarries, InboxCarries, WireCarries
  <2> QED BY <2>1, <2>2
<1> QED BY <1>8, <1>10, <1>12 DEF NInv

LEMMA LoadFailsStep ==
    ASSUME NInv, NEW l \in Loads, LoadFails(l)
    PROVE  NInv'
<1>1. /\ load' = [load EXCEPT ![l] = Idle]
      /\ \E S \in SUBSET Causes :
            /\ causes' = causes \cup S
            /\ S = {} => load[l].pc \notin {"opening", "opened", "marked"}
            /\ load[l].pc \notin {"opening", "opened", "marked"} => S = {}
      /\ UNCHANGED <<barred, unread, request, token, socket, inbox, wire, shown>>
  BY DEF LoadFails, LoadBecomes, Causes
<1>2. Now' = Now
  BY <1>1 DEF Now
<1>3. CASE load[l].pc \notin {"opening", "opened", "marked"}
  <2>1. Idle \in LoadState /\ Idle.pc = "idle" /\ causes' = causes
    BY <1>1, <1>3 DEF LoadState, Idle
  <2> QED BY <1>1, <1>3, <2>1, LoadStep
<1>4. CASE load[l].pc \in {"opening", "opened", "marked"}
  <2>1. load \in [Loads -> LoadState] /\ Idle \in LoadState
    BY DEF NInv, TypeOK, LoadState, Idle
  <2>2. /\ load' \in [Loads -> LoadState]
        /\ \A k \in Loads : load'[k] = IF k = l THEN Idle ELSE load[k]
    BY <1>1, <2>1
  <2>3. TypeOK'
    BY <1>1, <1>2, <1>4, <2>2 DEF NInv, TypeOK, LoadState
  <2>4. LoadsPast'
    BY <1>2, <2>2 DEF NInv, Past, LoadsPast, Idle
  <2>5. Past'
    BY <1>1, <1>2, <2>4 DEF NInv, Past, RequestsPast, SocketPast, InboxPast, WirePast
  <2> QED BY <1>1, <1>4, <2>3, <2>5 DEF NInv
<1> QED BY <1>3, <1>4

(* The bell is mounted: its first load carries every change.               *)
LEMMA MountStep ==
    ASSUME NInv, NEW l \in Loads, LogIn(l) \/ Remount(l)
    PROVE  NInv'
<1>1. /\ UNCHANGED <<barred, unread, request, socket, inbox, wire>>
      /\ shown' = 0 /\ causes' = {} /\ token' \in {"good", token}
      /\ load' = [k \in Loads |-> IF k = l THEN [pc |-> "opening"] ELSE Idle]
  BY DEF LogIn, Remount, Mount
<1>2. Now' = Now /\ Now \in Nat /\ 0 \in Times /\ 0 <= Now
  BY <1>1, NowIsTime, MaxChangesAssumption DEF NInv, Now, Times
<1>3. load' \in [Loads -> LoadState]
  BY <1>1 DEF LoadState, Idle
<1>4. TypeOK'
  BY <1>1, <1>2, <1>3 DEF NInv, TypeOK, LoadState
<1>5. LoadsPast'
  BY <1>1 DEF LoadsPast, Idle
<1>6. Past'
  BY <1>1, <1>2, <1>5 DEF NInv, Past, RequestsPast, SocketPast, InboxPast, WirePast
<1>7. LoadCarries'
  BY <1>1 DEF LoadCarries
<1> QED BY <1>4, <1>6, <1>7 DEF NInv, Carried

(* Without a bell nothing is shown.                                        *)
LEMMA LogOutStep ==
    ASSUME NInv, LogOut
    PROVE  NInv'
<1>1. /\ UNCHANGED <<barred, unread, request, socket, inbox, wire, shown, causes>>
      /\ token' = "none" /\ load' = [l \in Loads |-> Idle]
  BY DEF LogOut
<1>2. Now' = Now
  BY <1>1 DEF Now
<1>3. load' \in [Loads -> LoadState] /\ LoadsPast'
  BY <1>1 DEF LoadState, LoadsPast, Idle
<1>4. TypeOK'
  BY <1>1, <1>2, <1>3 DEF NInv, TypeOK, LoadState
<1>5. Past'
  BY <1>1, <1>2, <1>3 DEF NInv, Past, RequestsPast, SocketPast, InboxPast, WirePast
<1> QED BY <1>1, <1>4, <1>5 DEF NInv, Carried, Mounted

LEMMA UnheardStep ==
    ASSUME NInv, Unheard
    PROVE  NInv'
<1>1. /\ UNCHANGED <<barred, unread, request, token, socket, inbox, load, shown, causes>>
      /\ ~ Mounted /\ wire # <<>> /\ wire' = Tail(wire)
  BY DEF Unheard, pageVars
<1>2. Now' = Now
  BY <1>1 DEF Now
<1>3. wire \in Seq(Message)
  BY DEF NInv, TypeOK, Message
<1>4. /\ wire' \in Seq(Message) /\ Len(wire') = Len(wire) - 1 /\ Len(wire) \in Nat \ {0}
      /\ \A i \in 1 .. Len(wire) - 1 : wire'[i] = wire[i + 1]
  BY <1>1, <1>3, Taken
<1>5. TypeOK'
  BY <1>1, <1>2, <1>4 DEF NInv, TypeOK, Message
<1>6. WirePast'
  BY <1>2, <1>4 DEF NInv, Past, WirePast
<1>7. Past'
  BY <1>1, <1>2, <1>6 DEF NInv, Past, RequestsPast, SocketPast, InboxPast, LoadsPast
<1> QED BY <1>1, <1>5, <1>7 DEF NInv, Carried, Mounted

LEMMA ElsewhereStep ==
    ASSUME NInv, ReadElsewhere
    PROVE  NInv'
<1>0. TypeOK /\ Now \in Times /\ Now \in Nat
  BY NowIsTime DEF NInv
<1>1. /\ UNCHANGED <<barred, request, token, socket, inbox, wire, load, shown>>
      /\ causes' = causes \cup {"unseen"}
      /\ unread' \in Seq(Nat) /\ Now' = Now + 1 /\ Now' \in Times
      /\ Now' = Len(unread') /\ Now' <= MaxChanges
  BY <1>0, ChangeStep DEF ReadElsewhere, pageVars
<1>2. TypeOK'
  BY <1>0, <1>1 DEF TypeOK, Causes
<1>3. Past'
  <2>1. RequestsPast' /\ LoadsPast'
    BY <1>0, <1>1, RequestTime, LoadTime DEF NInv, Past, RequestsPast, LoadsPast, Times
  <2>2. SocketPast' /\ shown' <= Now'
    BY <1>0, <1>1, SocketTime DEF NInv, TypeOK, Past, SocketPast, Times
  <2>3. InboxPast'
    BY <1>0, <1>1, QueueTimes DEF NInv, Past, InboxPast
  <2>4. WirePast'
    BY <1>0, <1>1, QueueTimes DEF NInv, Past, WirePast
  <2> QED BY <2>1, <2>2, <2>3, <2>4 DEF Past
<1> QED BY <1>1, <1>2, <1>3 DEF NInv

LEMMA StillStep ==
    ASSUME NInv, barred' \in BOOLEAN, token' \in {"good", "expired", "dead", "none"},
           token # "none" => token' = token \/ token' # "none",
           token = "none" => token' = "none",
           UNCHANGED <<unread, request, socket, inbox, wire, load, shown, causes>>
    PROVE  NInv'
<1>1. Now' = Now
  BY DEF Now
<1>2. TypeOK'
  BY <1>1 DEF NInv, TypeOK
<1>3. Past'
  BY <1>1 DEF NInv, Past, RequestsPast, SocketPast, InboxPast, WirePast, LoadsPast
<1>4. Carried => Carried'
  BY <1>1
  DEF Carried, Mounted, RequestCarries, SocketCarries, InboxCarries, WireCarries, LoadCarries
<1> QED BY <1>2, <1>3, <1>4 DEF NInv

-----------------------------------------------------------------------------
(* The theorems.                                                           *)

LEMMA InitInv == Init => NInv
<1> SUFFICES ASSUME Init
             PROVE  NInv
  OBVIOUS
<1>1. Now = 0 /\ shown = 0 /\ 0 \in Times
  BY MaxChangesAssumption DEF Init, Now, Times
<1>2. TypeOK
  <2>1. <<>> \in Seq(Nat) /\ <<>> \in Seq(Times) /\ <<>> \in Seq(Message)
    OBVIOUS
  <2>2. request \in [Requests -> RequestState] /\ load \in [Loads -> LoadState]
    BY DEF Init, Idle, RequestState, LoadState
  <2>3. socket \in SocketState
    BY DEF Init, SocketState
  <2>4. unread \in Seq(Nat) /\ inbox \in Seq(Times) /\ wire \in Seq(Message)
    BY <2>1 DEF Init
  <2>5. Now <= MaxChanges /\ shown \in Times /\ causes = {}
    BY <1>1, MaxChangesAssumption DEF Init
  <2>6. barred \in BOOLEAN /\ token \in {"good", "expired", "dead", "none"}
    BY DEF Init
  <2> QED
    BY <2>2, <2>3, <2>4, <2>5, <2>6
    DEF TypeOK, RequestState, LoadState, SocketState, Message
<1>3. Past
  BY <1>1 DEF Init, Idle, Past, RequestsPast, SocketPast, InboxPast, WirePast, LoadsPast
<1> QED BY <1>1, <1>2, <1>3 DEF NInv, Carried, Mounted

LEMMA NextInv == NInv /\ [Next]_vars => NInv'
<1> SUFFICES ASSUME NInv, [Next]_vars
             PROVE  NInv'
  OBVIOUS
<1>1. ASSUME NEW r \in Requests,
             Store(r) \/ CountUnread(r) \/ Send(r) \/ Fail(r)
      PROVE  NInv'
  BY <1>1, StoreStep, CountStep, SendStep, FailStep
<1>2. CASE Connect \/ Join \/ CountHello \/ SendHello \/ push_event \/ Disconnect
  BY <1>2, SocketStep, HelloStep, ForwardStep
<1>3. CASE TakeHello \/ TakeNotification \/ Unheard \/ LogOut
  BY <1>3, TakeStep, UnheardStep, LogOutStep
<1>4. ASSUME NEW l \in Loads,
             \/ LogIn(l) \/ Remount(l) \/ PressReadAll(l) \/ ServeList(l) \/ MarkRead(l)
             \/ TakeList(l) \/ TakeMarked(l) \/ LoadFails(l)
      PROVE  NInv'
  BY <1>4, MountStep, AskStep, MarkStep, AnswerStep, LoadFailsStep
<1>5. CASE ReadElsewhere
  BY <1>5, ElsewhereStep
<1>6. CASE Bar \/ Age \/ Renew \/ UNCHANGED vars
  <2>1. /\ barred' \in BOOLEAN /\ token' \in {"good", "expired", "dead", "none"}
        /\ token # "none" => token' = token \/ token' # "none"
        /\ token = "none" => token' = "none"
        /\ UNCHANGED <<unread, request, socket, inbox, wire, load, shown, causes>>
    BY <1>6 DEF Bar, Age, Renew, vars, pageVars, NInv, TypeOK
  <2> QED BY <2>1, StillStep
<1> QED BY <1>1, <1>2, <1>3, <1>4, <1>5, <1>6 DEF Next

(* The inductive invariant holds of every execution.                       *)
THEOREM Invariance == Spec => []NInv
BY InitInv, NextInv, PTL DEF Spec

(* Every variable has its type.                                            *)
THEOREM TypeCorrect == Spec => []TypeOK
<1>1. NInv => TypeOK
  BY DEF NInv
<1> QED BY <1>1, Invariance, PTL

(* notify, NotificationsConsumer, NotificationBell: when nothing is on its *)
(* way, the bell shows the count of the table, or there is a cause.        *)
THEOREM BadgesAreExplained == Spec => []BadgeExplained
<1>1. NInv => BadgeExplained
  <2> SUFFICES ASSUME NInv, Quiet, causes = {}
               PROVE  Count(shown) = Count(Now)
    BY DEF BadgeExplained
  <2>1. Carried /\ Mounted
    BY DEF NInv, Quiet
  <2>2. ~ RequestCarries /\ ~ SocketCarries /\ ~ LoadCarries
    BY DEF Quiet, RequestCarries, SocketCarries, LoadCarries, Idle
  <2>3. ~ InboxCarries /\ ~ WireCarries
    BY DEF Quiet, InboxCarries, WireCarries
  <2> QED BY <2>1, <2>2, <2>3 DEF Carried, Mounted
<1> QED BY <1>1, Invariance, PTL
=============================================================================
