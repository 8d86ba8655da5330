---------------------------- MODULE OutboxProofs ----------------------------
(***************************************************************************)
(* What holds of the outbox for any messages, members, groups and requests *)
(* of the link page.  The retry thread has two delays: with more attempts  *)
(* allowed than they give, a message would be left pending, and with one   *)
(* attempt the thread would call once too often.  The code has 3.          *)
(***************************************************************************)
EXTENDS Outbox, FiniteSetTheorems, TLAPS

(* The attempts allowed and the delays of the thread go together.          *)
Fits == MaxAttempts \in 2 .. Delays + 1

PageState == [pc : {"idle", "asked", "answered", "loggedout"},
              had : Numbers \cup {None}, seen : Numbers \cup {None}]

-----------------------------------------------------------------------------
(* The linked number.                                                      *)

(* After an unlinking that took place, WAHA has no session of a phone, and *)
(* no request is about to save a number - but for one in flight then.      *)
UnlinkInv ==
    /\ page \in [Offices -> PageState]
    /\ cut => session \notin Numbers
    /\ cut => number = None /\ \A o \in Offices : page[o].pc # "answered"

LEMMA UnlinkInit == Init => UnlinkInv
BY DEF Init, UnlinkInv, PageState, Idle

LEMMA UnlinkPage ==
    ASSUME UnlinkInv, number \in Numbers \cup {None}, session \in Numbers \cup {"absent", "scan"},
           NEW o \in Offices, LinkPage(o)
    PROVE  UnlinkInv'
<1>0. page[o] \in PageState
  BY DEF UnlinkInv
<1>1. CASE StartLink(o) \/ AskStatus(o)
  <2> DEFINE r == [pc |-> "asked", had |-> number, seen |-> None]
  <2>1. r \in PageState /\ r.pc = "asked"
    BY DEF PageState
  <2>2. page' = [page EXCEPT ![o] = r] /\ UNCHANGED <<number, cut>>
    BY <1>1 DEF StartLink, AskStatus, Become
  <2>3. session' \in {session, "scan"}
    BY <1>1 DEF StartLink, AskStatus, start_session
  <2>4. page' \in [Offices -> PageState] /\ \A p \in Offices : p # o => page'[p] = page[p]
    BY <2>1, <2>2 DEF UnlinkInv
  <2>5. page'[o].pc = "asked"
    BY <2>1, <2>2 DEF UnlinkInv
  <2> QED BY <2>2, <2>3, <2>4, <2>5, SessionAssumption DEF UnlinkInv
<1>2. CASE StatusAnswer(o)
  <2>1. UNCHANGED <<number, session, cut>>
    BY <1>2 DEF StatusAnswer
  <2>2. CASE session \in Numbers /\ page' = [page EXCEPT ![o] = [page[o] EXCEPT !.pc = "answered",
                                                                               !.seen = session]]
    <3>1. [page[o] EXCEPT !.pc = "answered", !.seen = session] \in PageState
      BY <1>0, <2>2 DEF PageState
    <3>2. page' \in [Offices -> PageState]
      BY <2>2, <3>1 DEF UnlinkInv
    <3> QED BY <2>1, <2>2, <3>2 DEF UnlinkInv
  <2>3. CASE page' = [page EXCEPT ![o] = Idle]
    <3>1. Idle \in PageState /\ Idle.pc = "idle"
      BY DEF Idle, PageState
    <3>2. page' \in [Offices -> PageState] /\ \A p \in Offices : page'[p] = IF p = o THEN Idle ELSE page[p]
      BY <2>3, <3>1 DEF UnlinkInv
    <3> QED BY <2>1, <3>1, <3>2 DEF UnlinkInv
  <2> QED BY <1>2, <2>2, <2>3 DEF StatusAnswer, Become
<1>3. CASE SaveNumber(o)
  <2>1. Idle \in PageState /\ Idle.pc = "idle"
    BY DEF Idle, PageState
  <2>2. /\ page' \in [Offices -> PageState]
        /\ page[o].pc = "answered"
        /\ UNCHANGED <<session, cut>>
    BY <1>3, <2>1 DEF SaveNumber, Become, UnlinkInv
  <2> QED BY <2>2 DEF UnlinkInv
<1>4. CASE Unlink(o)
  <2>1. [Idle EXCEPT !.pc = "loggedout"] \in PageState /\ [Idle EXCEPT !.pc = "loggedout"].pc = "loggedout"
    BY DEF Idle, PageState
  <2>2. PICK r \in PageState : r = [Idle EXCEPT !.pc = "loggedout"]
    BY <2>1
  <2>3. /\ page' = [page EXCEPT ![o] = r] /\ r.pc = "loggedout"
        /\ UNCHANGED <<number, cut>> /\ session' \in {session, "absent"}
    BY <1>4, <2>1, <2>2 DEF Unlink, Become, logout
  <2>4. page' \in [Offices -> PageState] /\ \A p \in Offices : page'[p] = IF p = o THEN r ELSE page[p]
    BY <2>3 DEF UnlinkInv
  <2> QED BY <2>3, <2>4, SessionAssumption DEF UnlinkInv
<1>5. CASE ClearNumber(o)
  <2>1. Idle \in PageState /\ Idle.pc = "idle"
    BY DEF Idle, PageState
  <2>2. /\ page' = [page EXCEPT ![o] = Idle]
        /\ number' = None /\ cut' = (session \notin Numbers /\ ~ HeldElsewhere(o))
        /\ UNCHANGED session
    BY <1>5 DEF ClearNumber, Become
  <2>3. page' \in [Offices -> PageState] /\ \A p \in Offices : page'[p] = IF p = o THEN Idle ELSE page[p]
    BY <2>1, <2>2 DEF UnlinkInv
  <2>4. cut' => \A p \in Offices : page'[p].pc # "answered"
    BY <2>1, <2>2, <2>3 DEF HeldElsewhere
  <2>5. cut' => session' \notin Numbers
    BY <2>2
  <2> QED BY <2>2, <2>3, <2>4, <2>5 DEF UnlinkInv
<1> QED BY <1>1, <1>2, <1>3, <1>4, <1>5 DEF LinkPage

LEMMA UnlinkOther ==
    ASSUME UnlinkInv, session \in Numbers \cup {"absent", "scan"},
           \/ World
           \/ UNCHANGED linkVars
    PROVE  UnlinkInv'
<1>1. CASE PhoneScans
  BY <1>1 DEF PhoneScans, UnlinkInv
<1>2. CASE PhoneLogsOut
  BY <1>2, SessionAssumption DEF PhoneLogsOut, UnlinkInv
<1>3. CASE Configure \/ UNCHANGED linkVars \/ \E c \in posted : Execute(c)
  BY <1>3 DEF Configure, Execute, linkVars, UnlinkInv
<1>4. CASE Crash
  <2>1. Idle \in PageState /\ Idle.pc = "idle"
    BY DEF Idle, PageState
  <2>2. page' = [o \in Offices |-> Idle] /\ UNCHANGED <<number, session, cut>>
    BY <1>4 DEF Crash
  <2> QED BY <2>1, <2>2 DEF UnlinkInv
<1> QED BY <1>1, <1>2, <1>3, <1>4 DEF World

(* The variables of the link page have their types.                        *)
LinkTypeOK == number \in Numbers \cup {None} /\ session \in Numbers \cup {"absent", "scan"}

LEMMA LinkTypes ==
    ASSUME LinkTypeOK, UnlinkInv, [Next]_vars
    PROVE  LinkTypeOK'
<1>1. CASE World
  BY <1>1 DEF World, PhoneScans, PhoneLogsOut, Configure, Crash, Execute, LinkTypeOK, linkVars
<1>2. ASSUME NEW o \in Offices, LinkPage(o)
      PROVE  LinkTypeOK'
  <2>1. page[o].seen \in Numbers \cup {None}
    BY DEF UnlinkInv, PageState
  <2> QED
    BY <1>2, <2>1
    DEF LinkPage, StartLink, AskStatus, StatusAnswer, SaveNumber, Unlink, ClearNumber,
        LinkTypeOK, start_session, logout
<1>3. CASE UNCHANGED linkVars
  BY <1>3 DEF linkVars, LinkTypeOK
<1>4. ASSUME NEW e \in Editors, Edit(e)
      PROVE  UNCHANGED linkVars
  BY <1>4 DEF Edit, LoadProfile, SaveProfile
<1>5. ASSUME NEW m \in Messages, Request(m) \/ Carry(m)
      PROVE  UNCHANGED linkVars
  BY <1>5
  DEF Request, Carry, Queue, AskGroup, GroupKnown, GroupUnknown, SentInline, FailInline, Wake,
      SentByRetry, FailRetry
<1>6. CASE UNCHANGED vars
  BY <1>6, <1>3 DEF vars, linkVars
<1> QED BY <1>1, <1>2, <1>3, <1>4, <1>5, <1>6 DEF Next

LEMMA UnlinkNext ==
    ASSUME LinkTypeOK, UnlinkInv, [Next]_vars
    PROVE  UnlinkInv'
<1>1. ASSUME NEW e \in Editors, Edit(e)
      PROVE  UNCHANGED linkVars
  BY <1>1 DEF Edit, LoadProfile, SaveProfile
<1>2. ASSUME NEW m \in Messages, Request(m) \/ Carry(m)
      PROVE  UNCHANGED linkVars
  BY <1>2
  DEF Request, Carry, Queue, AskGroup, GroupKnown, GroupUnknown, SentInline, FailInline, Wake,
      SentByRetry, FailRetry
<1>3. UNCHANGED vars => UNCHANGED linkVars
  BY DEF vars, linkVars
<1> QED BY <1>1, <1>2, <1>3, UnlinkPage, UnlinkOther DEF Next, LinkTypeOK

-----------------------------------------------------------------------------
(* The messages.                                                           *)

Calls == posted \cup delivered

Open(m) == {k \in Nat : <<m, k>> \in Calls \ failed}

(* A row, its carrier, and the calls made for it: the call in progress is  *)
(* the only one that no caller has recorded as a failure.                  *)
MessageInv(m) ==
    /\ msg[m] \in Row
    /\ at[m] \in Carrier
    /\ at[m] \in {"idle", "resolving"} => msg[m].status = "none" /\ msg[m].chat = None
    /\ at[m] \in {"sending", "sleeping", "retrying", "dead"} => msg[m].status = "pending"
    /\ at[m] = "resolving" => msg[m].to \in Members
    /\ at[m] = "sleeping" => msg[m].attempts \in 1 .. MaxAttempts - 1
    /\ at[m] = "retrying" => msg[m].attempts \in 1 .. MaxAttempts
    /\ at[m] = "done" => msg[m].status \in {"sent", "failed"}

CallsInv(m) ==
    /\ at[m] \in {"idle", "resolving"} => \A k \in Nat : <<m, k>> \notin Calls
    /\ at[m] = "sleeping" => Open(m) = {}
    /\ at[m] = "sending" => Open(m) \subseteq {1}
    /\ at[m] = "retrying" => Open(m) \subseteq {msg[m].attempts}
    /\ \A j, k \in Open(m) : j = k
    /\ msg[m].status = "sent" => Executed(m) # {}

MsgInv ==
    /\ msg \in [Messages -> Row]
    /\ at \in [Messages -> Carrier]
    /\ Calls \subseteq Messages \X (1 .. MaxAttempts)
    /\ \A m \in Messages : MessageInv(m) /\ CallsInv(m)

LEMMA RowTypes == NoRow \in Row /\ NoRow.status = "none" /\ NoRow.chat = None
BY MaxAttemptsAssumption DEF NoRow, Row, Status

LEMMA MsgInit == Init => MsgInv
<1> SUFFICES ASSUME Init
             PROVE  MsgInv
  OBVIOUS
<1>1. msg \in [Messages -> Row] /\ at \in [Messages -> Carrier]
  BY RowTypes DEF Init, Carrier
<1>2. Calls = {}
  BY DEF Init, Calls
<1>3. ASSUME NEW m \in Messages
      PROVE  MessageInv(m)
  BY <1>1, <1>3, RowTypes DEF Init, MessageInv
<1>4. ASSUME NEW m \in Messages
      PROVE  CallsInv(m)
  BY <1>2, <1>4, RowTypes DEF Init, CallsInv, Open
<1> QED BY <1>1, <1>2, <1>3, <1>4 DEF MsgInv

(* A message is left alone by whatever leaves its row and its carrier and  *)
(* adds no call to it that is not recorded as a failure.                   *)
LEMMA LeftAlone ==
    ASSUME NEW m \in Messages, MessageInv(m), CallsInv(m),
           msg'[m] = msg[m], at'[m] = at[m],
           \A k \in Nat : <<m, k>> \in Calls' => <<m, k>> \in Calls,
           failed \subseteq failed', delivered \subseteq delivered'
    PROVE  MessageInv(m)' /\ CallsInv(m)'
<1>1. MessageInv(m)'
  BY DEF MessageInv
<1>2. Open(m)' \subseteq Open(m)
  BY DEF Open
<1>3. Executed(m) \subseteq Executed(m)'
  BY DEF Executed
<1> QED BY <1>1, <1>2, <1>3 DEF CallsInv

(* A step that writes the row, the carrier and the calls of one message.   *)
LEMMA OneMessage ==
    ASSUME MsgInv, NEW m \in Messages, NEW r \in Row, NEW c \in Carrier,
           msg' = [msg EXCEPT ![m] = r], at' = [at EXCEPT ![m] = c],
           delivered' = delivered, failed \subseteq failed',
           NEW k \in 1 .. MaxAttempts, posted' \in {posted, posted \cup {<<m, k>>}},
           MessageInv(m)', CallsInv(m)'
    PROVE  MsgInv'
<1>1. msg' \in [Messages -> Row] /\ at' \in [Messages -> Carrier]
  BY DEF MsgInv
<1>2. Calls' \subseteq Calls \cup {<<m, k>>}
  BY DEF Calls
<1>3. Calls' \subseteq Messages \X (1 .. MaxAttempts)
  BY <1>2 DEF MsgInv
<1>4. ASSUME NEW n \in Messages, n # m
      PROVE  MessageInv(n)' /\ CallsInv(n)'
  <2>1. msg'[n] = msg[n] /\ at'[n] = at[n]
    BY <1>4 DEF MsgInv
  <2>2. \A j \in Nat : <<n, j>> \in Calls' => <<n, j>> \in Calls
    BY <1>2, <1>4
  <2>3. MessageInv(n) /\ CallsInv(n)
    BY DEF MsgInv
  <2> QED BY <2>1, <2>2, <2>3, LeftAlone
<1> QED BY <1>1, <1>3, <1>4 DEF MsgInv

(* The row is committed and the first call made.                           *)
LEMMA InsertStep ==
    ASSUME MsgInv, NEW m \in Messages, at[m] \in {"idle", "resolving"},
           NEW u \in Members, NEW chat \in Groups \cup {"phone", None}, NEW saw \in Groups \cup {None},
           Insert(m, u, chat, saw), UNCHANGED <<delivered, failed>>
    PROVE  MsgInv'
<1> DEFINE r == [status |-> "pending", attempts |-> 0, chat |-> chat, to |-> u, saw |-> saw]
<1>1. r \in Row /\ r.status = "pending"
  BY MaxAttemptsAssumption DEF Row, Status
<1>2. /\ msg' = [msg EXCEPT ![m] = r] /\ at' = [at EXCEPT ![m] = "sending"]
      /\ posted' = posted \cup {<<m, 1>>}
  BY DEF Insert
<1>3. msg'[m] = r /\ at'[m] = "sending"
  BY <1>2 DEF MsgInv
<1>4. MessageInv(m)'
  BY <1>1, <1>3 DEF MessageInv, Carrier
<1>5. Open(m)' \subseteq {1}
  BY <1>2 DEF MsgInv, CallsInv, Open, Calls
<1>6. CallsInv(m)'
  BY <1>1, <1>3, <1>5 DEF CallsInv
<1>7. 1 \in 1 .. MaxAttempts
  BY MaxAttemptsAssumption
<1> HIDE DEF r
<1> QED BY <1>1, <1>2, <1>4, <1>6, <1>7, OneMessage DEF Carrier

(* A step of one message that makes no call.                               *)
LEMMA QuietStep ==
    ASSUME MsgInv, NEW m \in Messages, NEW r \in Row, NEW c \in Carrier,
           msg' = [msg EXCEPT ![m] = r], at' = [at EXCEPT ![m] = c],
           UNCHANGED <<posted, delivered>>,
           NEW F, failed' = failed \cup F, MessageInv(m)',
           c \in {"idle", "resolving"} => at[m] \in {"idle", "resolving"},
           c = "sleeping" => \A k \in Open(m) : <<m, k>> \in F,
           c \notin {"sending", "retrying"},
           r.status = "sent" => Executed(m) # {}
    PROVE  MsgInv'
<1>1. msg'[m] = r /\ at'[m] = c
  BY DEF MsgInv
<1>2. Calls' = Calls /\ Open(m)' = {k \in Open(m) : <<m, k>> \notin F}
  BY DEF Calls, Open
<1>3. CallsInv(m)
  BY DEF MsgInv
<1>4. Executed(m)' = Executed(m)
  BY DEF Executed
<1>5. CallsInv(m)'
  BY <1>1, <1>2, <1>3, <1>4 DEF CallsInv
<1>6. 1 \in 1 .. MaxAttempts
  BY MaxAttemptsAssumption
<1> QED BY <1>5, <1>6, OneMessage

LEMMA RequestStep ==
    ASSUME MsgInv, link \in [Members -> Links], stored \in [Members -> Groups \cup {None}],
           NEW m \in Messages, Request(m)
    PROVE  MsgInv'
<1>0. msg[m] \in Row /\ MessageInv(m)
  BY DEF MsgInv
<1>1. ASSUME NEW u \in Members, Queue(m, u)
      PROVE  MsgInv'
  <2>1. stored[u] \in Groups \cup {"phone", None} /\ link[u] \in Groups \cup {None}
    BY LinksAssumption
  <2> QED BY <1>1, <2>1, InsertStep DEF Queue
<1>2. ASSUME NEW u \in Members, AskGroup(m, u)
      PROVE  MsgInv'
  <2>1. PICK r \in Row : r = [msg[m] EXCEPT !.to = u, !.saw = link[u]]
    BY <1>0, LinksAssumption DEF Row
  <2>2. /\ msg' = [msg EXCEPT ![m] = r] /\ at' = [at EXCEPT ![m] = "resolving"]
        /\ at[m] = "idle" /\ UNCHANGED <<posted, delivered, failed>>
    BY <1>2, <2>1 DEF AskGroup, MsgInv
  <2>3. r.status = msg[m].status /\ r.chat = msg[m].chat /\ r.to = u
    BY <1>0, <2>1 DEF Row
  <2>4. msg'[m] = r /\ at'[m] = "resolving"
    BY <2>2 DEF MsgInv
  <2>5. MessageInv(m)'
    BY <1>0, <2>2, <2>3, <2>4 DEF MessageInv, Carrier
  <2>6. r.status # "sent" /\ failed' = failed \cup {}
    BY <1>0, <2>2, <2>3 DEF MessageInv
  <2> QED BY <2>2, <2>5, <2>6, QuietStep DEF Carrier
<1>3. CASE GroupKnown(m)
  <2>1. msg[m].saw \in Groups \cup {"phone", None} /\ msg[m].saw \in Groups \cup {None}
    BY <1>0 DEF Row
  <2>2. msg[m].to \in Members /\ at[m] = "resolving"
    BY <1>0, <1>3 DEF GroupKnown, MessageInv
  <2>3. Insert(m, msg[m].to, msg[m].saw, msg[m].saw) /\ UNCHANGED <<delivered, failed>>
    BY <1>3 DEF GroupKnown
  <2> QED BY <2>1, <2>2, <2>3, InsertStep
<1>4. CASE GroupUnknown(m)
  <2>1. msg[m].to \in Members /\ at[m] = "resolving" /\ UNCHANGED <<delivered, failed>>
    BY <1>0, <1>4 DEF GroupUnknown, MessageInv
  <2>2. CASE msg[m].to \in Phoned
    <3>1. Insert(m, msg[m].to, "phone", None)
      BY <1>4, <2>2 DEF GroupUnknown
    <3> QED BY <2>1, <3>1, InsertStep
  <2>3. CASE msg[m].to \notin Phoned
    <3>1. /\ msg' = [msg EXCEPT ![m] = NoRow] /\ at' = [at EXCEPT ![m] = "idle"]
          /\ UNCHANGED posted
      BY <1>4, <2>3 DEF GroupUnknown
    <3>2. msg'[m] = NoRow /\ at'[m] = "idle"
      BY <3>1 DEF MsgInv
    <3>3. MessageInv(m)'
      BY <3>2, RowTypes DEF MessageInv, Carrier
    <3>4. failed' = failed \cup {} /\ NoRow.status # "sent"
      BY <2>1, RowTypes
    <3> QED BY <2>1, <3>1, <3>3, <3>4, RowTypes, QuietStep DEF Carrier
  <2> QED BY <2>2, <2>3
<1> QED BY <1>1, <1>2, <1>3, <1>4 DEF Request

LEMMA WakeStep ==
    ASSUME Fits, MsgInv, NEW m \in Messages, Wake(m)
    PROVE  MsgInv'
<1>0. /\ msg[m] \in Row /\ MessageInv(m) /\ CallsInv(m)
      /\ at[m] = "sleeping" /\ UNCHANGED <<delivered, failed>>
      /\ msg[m].status = "pending" /\ msg[m].attempts \in 1 .. MaxAttempts - 1
  BY DEF MsgInv, Wake, MessageInv
<1>1. CASE ~ is_ready
  <2>1. PICK r \in Row : r = [msg[m] EXCEPT !.status = "failed"]
    BY <1>0 DEF Row, Status
  <2>2. msg' = [msg EXCEPT ![m] = r] /\ at' = [at EXCEPT ![m] = "done"] /\ UNCHANGED posted
    BY <1>0, <1>1, <2>1 DEF Wake, MsgInv
  <2>3. msg'[m] = r /\ at'[m] = "done" /\ r.status = "failed"
    BY <1>0, <2>1, <2>2 DEF MsgInv, Row
  <2>4. MessageInv(m)'
    BY <2>3 DEF MessageInv, Carrier
  <2>5. failed' = failed \cup {}
    BY <1>0
  <2> QED BY <1>0, <2>2, <2>3, <2>4, <2>5, QuietStep DEF Carrier
<1>2. CASE is_ready
  <2> DEFINE k == msg[m].attempts + 1
  <2>0. k \in 1 .. MaxAttempts /\ k \in 0 .. MaxAttempts + 1
    BY <1>0, MaxAttemptsAssumption
  <2>1. PICK r \in Row : r = [msg[m] EXCEPT !.attempts = k]
    BY <1>0, <2>0 DEF Row
  <2>2. /\ msg' = [msg EXCEPT ![m] = r] /\ at' = [at EXCEPT ![m] = "retrying"]
        /\ posted' = posted \cup {<<m, k>>}
    BY <1>0, <1>2, <2>1 DEF Wake, MsgInv
  <2>3. msg'[m] = r /\ at'[m] = "retrying" /\ r.status = "pending" /\ r.attempts = k
    BY <1>0, <2>1, <2>2 DEF MsgInv, Row
  <2>4. MessageInv(m)'
    BY <2>0, <2>3 DEF MessageInv, Carrier
  <2>5. Open(m) = {}
    BY <1>0 DEF CallsInv
  <2>6. Open(m)' \subseteq {k}
    BY <1>0, <2>2, <2>5 DEF Open, Calls
  <2>7. CallsInv(m)'
    BY <2>3, <2>6 DEF CallsInv
  <2> HIDE DEF k
  <2> QED BY <1>0, <2>0, <2>2, <2>4, <2>7, OneMessage DEF Carrier
<1> QED BY <1>1, <1>2

LEMMA SentStep ==
    ASSUME MsgInv, NEW m \in Messages, SentInline(m) \/ SentByRetry(m)
    PROVE  MsgInv'
<1>0. msg[m] \in Row /\ MessageInv(m)
  BY DEF MsgInv
<1>1. PICK r \in Row : r = [msg[m] EXCEPT !.status = "sent"]
  BY <1>0 DEF Row, Status
<1>2. /\ msg' = [msg EXCEPT ![m] = r] /\ at' = [at EXCEPT ![m] = "done"]
      /\ UNCHANGED <<posted, delivered, failed>>
  BY <1>1 DEF SentInline, SentByRetry, MsgInv
<1>3. msg'[m] = r /\ at'[m] = "done" /\ r.status = "sent"
  BY <1>0, <1>1, <1>2 DEF MsgInv, Row
<1>4. MessageInv(m)'
  BY <1>3 DEF MessageInv, Carrier
<1>5. PICK k \in Nat : <<m, k>> \in delivered
  <2>1. CASE SentInline(m)
    BY <2>1 DEF SentInline, Answered
  <2>2. CASE SentByRetry(m)
    <3>1. msg[m].attempts \in Nat /\ <<m, msg[m].attempts>> \in delivered
      BY <1>0, <2>2, MaxAttemptsAssumption DEF SentByRetry, Answered, MessageInv
    <3> QED BY <3>1
  <2> QED BY <2>1, <2>2
<1>6. Executed(m) # {}
  BY <1>5 DEF MsgInv, Calls, Executed
<1>7. failed' = failed \cup {}
  BY <1>2
<1> QED BY <1>2, <1>4, <1>6, <1>7, QuietStep DEF Carrier

LEMMA FailStep ==
    ASSUME Fits, MsgInv, NEW m \in Messages, FailInline(m) \/ FailRetry(m)
    PROVE  MsgInv'
<1>0. msg[m] \in Row /\ MessageInv(m) /\ CallsInv(m) /\ msg[m].status = "pending"
  BY DEF MsgInv, MessageInv, FailInline, FailRetry
<1>1. CASE FailInline(m)
  <2>0. 1 \in 0 .. MaxAttempts + 1
    BY MaxAttemptsAssumption
  <2>1. PICK r \in Row : r = [msg[m] EXCEPT !.attempts = 1]
    BY <1>0, <2>0 DEF Row
  <2>2. /\ msg' = [msg EXCEPT ![m] = r] /\ at' = [at EXCEPT ![m] = "sleeping"]
        /\ UNCHANGED <<posted, delivered>> /\ failed' = failed \cup {<<m, 1>>}
    BY <1>1, <2>1 DEF FailInline, MsgInv
  <2>3. msg'[m] = r /\ at'[m] = "sleeping" /\ r.status = "pending" /\ r.attempts = 1
    BY <1>0, <2>1, <2>2 DEF MsgInv, Row
  <2>4. 1 \in 1 .. MaxAttempts - 1
    BY DEF Fits, Delays
  <2>5. MessageInv(m)'
    BY <2>3, <2>4 DEF MessageInv, Carrier
  <2>6. \A k \in Open(m) : <<m, k>> \in {<<m, 1>>}
    BY <1>0, <1>1 DEF FailInline, CallsInv
  <2> QED BY <2>2, <2>3, <2>5, <2>6, QuietStep DEF Carrier
<1>2. CASE FailRetry(m)
  <2> DEFINE k == msg[m].attempts
  <2>1. /\ k \in 1 .. MaxAttempts /\ at[m] = "retrying"
        /\ UNCHANGED <<posted, delivered>> /\ failed' = failed \cup {<<m, k>>}
    BY <1>0, <1>2 DEF FailRetry, MessageInv
  <2>2. \A j \in Open(m) : <<m, j>> \in {<<m, k>>}
    BY <1>0, <2>1 DEF CallsInv
  <2>3. CASE k >= MaxAttempts
    <3>1. PICK r \in Row : r = [msg[m] EXCEPT !.status = "failed"]
      BY <1>0 DEF Row, Status
    <3>2. msg' = [msg EXCEPT ![m] = r] /\ at' = [at EXCEPT ![m] = "done"]
      BY <1>2, <2>3, <3>1 DEF FailRetry, MsgInv
    <3>3. msg'[m] = r /\ at'[m] = "done" /\ r.status = "failed"
      BY <1>0, <3>1, <3>2 DEF MsgInv, Row
    <3>4. MessageInv(m)'
      BY <3>3 DEF MessageInv, Carrier
    <3> QED BY <2>1, <2>2, <3>2, <3>3, <3>4, QuietStep DEF Carrier
  <2>4. CASE ~ (k >= MaxAttempts)
    <3>1. k \in 1 .. MaxAttempts - 1 /\ AfterFailure(k) = "sleeping"
      BY <2>1, <2>4 DEF AfterFailure, Fits, Delays
    <3>2. at' = [at EXCEPT ![m] = "sleeping"] /\ msg' = msg
      BY <1>2, <2>4, <3>1 DEF FailRetry
    <3>3. msg' = [msg EXCEPT ![m] = msg[m]] /\ msg'[m] = msg[m] /\ at'[m] = "sleeping"
      BY <3>2 DEF MsgInv
    <3>4. MessageInv(m)'
      BY <1>0, <3>1, <3>3 DEF MessageInv, Carrier
    <3> HIDE DEF k
    <3> QED BY <1>0, <2>1, <2>2, <3>2, <3>3, <3>4, QuietStep DEF Carrier
  <2> QED BY <2>3, <2>4
<1> QED BY <1>1, <1>2

LEMMA ExecuteStep ==
    ASSUME MsgInv, NEW c \in posted, Execute(c)
    PROVE  MsgInv'
<1>1. Calls' \subseteq Calls /\ delivered \subseteq delivered' /\ UNCHANGED <<msg, at, failed>>
  BY DEF Execute, Calls
<1>2. ASSUME NEW m \in Messages
      PROVE  MessageInv(m)' /\ CallsInv(m)'
  <2>1. MessageInv(m) /\ CallsInv(m)
    BY DEF MsgInv
  <2> QED BY <1>1, <2>1, LeftAlone
<1> QED BY <1>1, <1>2 DEF MsgInv

LEMMA CrashStep ==
    ASSUME MsgInv, Crash
    PROVE  MsgInv'
<1>1. UNCHANGED <<posted, delivered, failed>> /\ Calls' = Calls
  BY DEF Crash, Calls
<1>2. ASSUME NEW m \in Messages
      PROVE  /\ msg'[m] \in Row /\ at'[m] \in Carrier
             /\ MessageInv(m)' /\ CallsInv(m)'
  <2>1. msg[m] \in Row /\ at[m] \in Carrier /\ MessageInv(m) /\ CallsInv(m)
    BY DEF MsgInv
  <2>2. Open(m)' = Open(m) /\ Executed(m)' = Executed(m)
    BY <1>1 DEF Open, Executed
  <2>3. CASE at[m] = "resolving"
    <3>1. msg'[m] = NoRow /\ at'[m] = "idle"
      BY <2>3 DEF Crash
    <3>2. MessageInv(m)'
      BY <3>1, RowTypes DEF MessageInv, Carrier
    <3>3. CallsInv(m)'
      BY <1>1, <2>1, <2>2, <2>3, <3>1, RowTypes DEF CallsInv
    <3> QED BY <3>1, <3>2, <3>3, RowTypes DEF Carrier
  <2>4. CASE at[m] \in {"sending", "sleeping", "retrying"}
    <3>1. msg'[m] = msg[m] /\ at'[m] = "dead"
      BY <2>4 DEF Crash
    <3>2. MessageInv(m)'
      BY <2>1, <2>4, <3>1 DEF MessageInv, Carrier
    <3>3. CallsInv(m)'
      BY <2>1, <2>2, <3>1 DEF CallsInv
    <3> QED BY <2>1, <3>1, <3>2, <3>3 DEF Carrier
  <2>5. CASE at[m] \notin {"resolving", "sending", "sleeping", "retrying"}
    <3>1. msg'[m] = msg[m] /\ at'[m] = at[m]
      BY <2>5 DEF Crash
    <3> QED BY <1>1, <2>1, <3>1, LeftAlone
  <2> QED BY <2>3, <2>4, <2>5
<1>3. msg' \in [Messages -> Row] /\ at' \in [Messages -> Carrier]
  BY <1>2 DEF Crash
<1>4. Calls' \subseteq Messages \X (1 .. MaxAttempts)
  BY <1>1 DEF MsgInv
<1> QED BY <1>2, <1>3, <1>4 DEF MsgInv

(* No step outside of the messages' own and of WAHA's touches them.        *)
LEMMA OtherStep ==
    ASSUME MsgInv, UNCHANGED sendVars
    PROVE  MsgInv'
<1>1. UNCHANGED <<msg, at, posted, delivered, failed>>
  BY DEF sendVars
<1>2. ASSUME NEW m \in Messages
      PROVE  MessageInv(m)' /\ CallsInv(m)'
  <2>1. MessageInv(m) /\ CallsInv(m)
    BY DEF MsgInv
  <2>2. Calls' = Calls
    BY <1>1 DEF Calls
  <2> QED BY <1>1, <2>1, <2>2, LeftAlone
<1> QED BY <1>1, <1>2 DEF MsgInv, Calls

-----------------------------------------------------------------------------
(* The members' groups.                                                    *)

(* A stored id is the group of the member's link, unless an edit or a late *)
(* answer brought the two together.                                        *)
GroupInv ==
    /\ link \in [Members -> Links]
    /\ stored \in [Members -> Groups \cup {None}]
    /\ profile \in [Editors -> Edits]
    /\ relinked \subseteq Members
    /\ \A u \in Members : stored[u] # None => stored[u] = link[u] \/ u \in relinked
    /\ AddressedToGroup

OInv == LinkTypeOK /\ UnlinkInv /\ GroupInv /\ MsgInv

LEMMA InitInv == Init => OInv
<1>1. Init => GroupInv
  BY RowTypes, NoneAssumption DEF Init, GroupInv, AddressedToGroup, Edits
<1>2. Init => LinkTypeOK
  BY DEF Init, LinkTypeOK
<1> QED BY <1>1, <1>2, UnlinkInit, MsgInit DEF OInv

LEMMA GroupRequest ==
    ASSUME GroupInv, MsgInv, NEW m \in Messages, Request(m)
    PROVE  GroupInv'
<1>0. msg[m] \in Row /\ MessageInv(m)
  BY DEF MsgInv
<1>1. ASSUME NEW u, NEW chat, NEW saw, Insert(m, u, chat, saw),
             relinked \subseteq relinked',
             chat \in Groups => chat = saw \/ u \in relinked'
      PROVE  AddressedToGroup'
  <2>1. PICK r : r = [status |-> "pending", attempts |-> 0, chat |-> chat, to |-> u, saw |-> saw]
    OBVIOUS
  <2>2. msg' = [msg EXCEPT ![m] = r] /\ r.chat = chat /\ r.to = u /\ r.saw = saw
    BY <1>1, <2>1 DEF Insert
  <2>3. \A n \in Messages : msg'[n] = IF n = m THEN r ELSE msg[n]
    BY <2>2 DEF MsgInv
  <2> QED BY <1>1, <2>2, <2>3 DEF GroupInv, AddressedToGroup
<1>2. ASSUME NEW u \in Members, Queue(m, u)
      PROVE  GroupInv'
  <2>1. Insert(m, u, stored[u], link[u]) /\ UNCHANGED <<link, stored, profile, relinked>>
    BY <1>2 DEF Queue, memberVars
  <2>2. stored[u] \in Groups => stored[u] = link[u] \/ u \in relinked'
    BY <2>1, NoneAssumption DEF GroupInv
  <2>3. AddressedToGroup'
    BY <1>1, <2>1, <2>2
  <2> QED BY <2>1, <2>3 DEF GroupInv
<1>3. ASSUME NEW u \in Members, AskGroup(m, u)
      PROVE  GroupInv'
  <2>1. UNCHANGED <<link, stored, profile, relinked>> /\ at[m] = "idle"
    BY <1>3 DEF AskGroup, memberVars
  <2>2. PICK r : r = [msg[m] EXCEPT !.to = u, !.saw = link[u]]
    OBVIOUS
  <2>3. msg' = [msg EXCEPT ![m] = r]
    BY <1>3, <2>2 DEF AskGroup, MsgInv
  <2>4. r.chat = None
    BY <1>0, <2>1, <2>2 DEF Row, MessageInv
  <2>5. \A n \in Messages : msg'[n] = IF n = m THEN r ELSE msg[n]
    BY <2>3 DEF MsgInv
  <2>6. AddressedToGroup'
    BY <2>1, <2>4, <2>5, NoneAssumption DEF GroupInv, AddressedToGroup
  <2> QED BY <2>1, <2>6 DEF GroupInv
<1>4. CASE GroupKnown(m)
  <2> DEFINE u == msg[m].to
             g == msg[m].saw
  <2>1. /\ u \in Members /\ g \in Groups /\ Insert(m, u, g, g)
        /\ stored' = [stored EXCEPT ![u] = g] /\ UNCHANGED <<link, profile>>
        /\ relinked' = IF link[u] # g THEN relinked \cup {u} ELSE relinked
    BY <1>0, <1>4 DEF GroupKnown, MessageInv, Row
  <2>2. AddressedToGroup'
    BY <1>1, <2>1
  <2> HIDE DEF u, g
  <2>3. \A v \in Members : stored'[v] = IF v = u THEN g ELSE stored[v]
    BY <2>1 DEF GroupInv
  <2>4. stored' \in [Members -> Groups \cup {None}] /\ relinked' \subseteq Members
    BY <2>1 DEF GroupInv
  <2>5. \A v \in Members : stored'[v] # None => stored'[v] = link[v] \/ v \in relinked'
    BY <2>1, <2>3 DEF GroupInv
  <2> QED BY <2>1, <2>2, <2>4, <2>5 DEF GroupInv
<1>5. CASE GroupUnknown(m)
  <2>1. UNCHANGED <<link, stored, profile, relinked>>
    BY <1>5 DEF GroupUnknown, memberVars
  <2>2. CASE msg[m].to \in Phoned
    <3>1. Insert(m, msg[m].to, "phone", None)
      BY <1>5, <2>2 DEF GroupUnknown
    <3>2. AddressedToGroup'
      BY <1>1, <2>1, <3>1, PhoneAssumption
    <3> QED BY <2>1, <3>2 DEF GroupInv
  <2>3. CASE msg[m].to \notin Phoned
    <3>1. msg' = [msg EXCEPT ![m] = NoRow]
      BY <1>5, <2>3 DEF GroupUnknown
    <3>2. \A n \in Messages : msg'[n] = IF n = m THEN NoRow ELSE msg[n]
      BY <3>1 DEF MsgInv
    <3>3. AddressedToGroup'
      BY <2>1, <3>2, RowTypes, NoneAssumption DEF GroupInv, AddressedToGroup
    <3> QED BY <2>1, <3>3 DEF GroupInv
  <2> QED BY <2>2, <2>3
<1> QED BY <1>2, <1>3, <1>4, <1>5 DEF Request

(* What is done with a row once it exists leaves its destination alone.    *)
Addressed(m) == <<msg[m].chat, msg[m].saw, msg[m].to>>

LEMMA GroupOther ==
    ASSUME GroupInv, UNCHANGED <<link, stored, relinked>>, profile' \in [Editors -> Edits],
           \A m \in Messages : Addressed(m)' = Addressed(m) \/ msg'[m].chat = None
    PROVE  GroupInv'
<1>1. AddressedToGroup'
  BY NoneAssumption DEF GroupInv, AddressedToGroup, Addressed
<1> QED BY <1>1 DEF GroupInv

LEMMA GroupCarry ==
    ASSUME GroupInv, MsgInv, NEW m \in Messages, Carry(m)
    PROVE  GroupInv'
<1>1. UNCHANGED <<link, stored, relinked, profile>>
  BY DEF Carry, SentInline, FailInline, Wake, SentByRetry, FailRetry, memberVars
<1>2. msg[m] \in Row /\ msg \in [Messages -> Row]
  BY DEF MsgInv
<1>3. \E s \in Status : \E k : msg' = [msg EXCEPT ![m] = [msg[m] EXCEPT !.status = s, !.attempts = k]]
  <2>1. CASE SentInline(m) \/ SentByRetry(m)
    <3>1. msg' = [msg EXCEPT ![m].status = "sent"]
      BY <2>1 DEF SentInline, SentByRetry
    <3>2. msg' = [msg EXCEPT ![m] = [msg[m] EXCEPT !.status = "sent", !.attempts = msg[m].attempts]]
      BY <1>2, <3>1 DEF Row
    <3> QED BY <3>2 DEF Status
  <2>2. CASE FailInline(m)
    <3>1. msg' = [msg EXCEPT ![m].attempts = 1]
      BY <2>2 DEF FailInline
    <3>2. msg' = [msg EXCEPT ![m] = [msg[m] EXCEPT !.status = msg[m].status, !.attempts = 1]]
      BY <1>2, <3>1 DEF Row
    <3>3. msg[m].status \in Status
      BY <1>2 DEF Row
    <3> QED BY <3>2, <3>3
  <2>3. CASE Wake(m) \/ FailRetry(m)
    <3>1. \/ msg' = msg
          \/ msg' = [msg EXCEPT ![m].status = "failed"]
          \/ msg' = [msg EXCEPT ![m].attempts = msg[m].attempts + 1]
      BY <1>2, <2>3 DEF Wake, FailRetry
    <3>2. msg[m].status \in Status
      BY <1>2 DEF Row
    <3>3. CASE msg' = msg
      <4>1. msg' = [msg EXCEPT ![m] = [msg[m] EXCEPT !.status = msg[m].status,
                                                     !.attempts = msg[m].attempts]]
        BY <1>2, <3>3 DEF Row
      <4> QED BY <3>2, <4>1
    <3>4. CASE msg' = [msg EXCEPT ![m].status = "failed"]
      <4>1. msg' = [msg EXCEPT ![m] = [msg[m] EXCEPT !.status = "failed",
                                                     !.attempts = msg[m].attempts]]
        BY <1>2, <3>4 DEF Row
      <4> QED BY <4>1 DEF Status
    <3>5. CASE msg' = [msg EXCEPT ![m].attempts = msg[m].attempts + 1]
      <4>1. msg' = [msg EXCEPT ![m] = [msg[m] EXCEPT !.status = msg[m].status,
                                                     !.attempts = msg[m].attempts + 1]]
        BY <1>2, <3>5 DEF Row
      <4> QED BY <3>2, <4>1
    <3> QED BY <3>1, <3>3, <3>4, <3>5
  <2> QED BY <2>1, <2>2, <2>3 DEF Carry
<1>4. \A n \in Messages : Addressed(n)' = Addressed(n)
  <2>1. PICK s \in Status : \E k : msg' = [msg EXCEPT ![m] = [msg[m] EXCEPT !.status = s, !.attempts = k]]
    BY <1>3
  <2>2. PICK k : msg' = [msg EXCEPT ![m] = [msg[m] EXCEPT !.status = s, !.attempts = k]]
    BY <2>1
  <2>3. PICK r : r = [msg[m] EXCEPT !.status = s, !.attempts = k]
    OBVIOUS
  <2>4. r.chat = msg[m].chat /\ r.saw = msg[m].saw /\ r.to = msg[m].to
    BY <1>2, <2>3 DEF Row
  <2>5. \A n \in Messages : msg'[n] = IF n = m THEN r ELSE msg[n]
    BY <1>2, <2>2, <2>3
  <2> QED BY <2>4, <2>5 DEF Addressed
<1> QED BY <1>1, <1>4, GroupOther DEF GroupInv

LEMMA GroupEdit ==
    ASSUME GroupInv, NEW e \in Editors, Edit(e)
    PROVE  GroupInv'
<1>0. profile[e] \in Edits /\ NoEdit \in Edits
  BY DEF GroupInv, Edits
<1>1. ASSUME NEW u \in Members, LoadProfile(e, u)
      PROVE  GroupInv'
  <2>1. /\ UNCHANGED <<link, stored, relinked, msg>>
        /\ profile' = [profile EXCEPT ![e] = [who |-> u, chat |-> stored[u]]]
    BY <1>1 DEF LoadProfile, sendVars
  <2>2. [who |-> u, chat |-> stored[u]] \in Edits
    BY DEF GroupInv, Edits
  <2>3. profile' \in [Editors -> Edits]
    BY <2>1, <2>2 DEF GroupInv
  <2>4. \A m \in Messages : Addressed(m)' = Addressed(m)
    BY <2>1 DEF Addressed
  <2> QED BY <2>1, <2>3, <2>4, GroupOther
<1>2. ASSUME NEW g \in Links, SaveProfile(e, g)
      PROVE  GroupInv'
  <2> DEFINE u == profile[e].who
             chat == profile[e].chat
  <2>1. /\ link' = [link EXCEPT ![u] = g] /\ stored' = [stored EXCEPT ![u] = chat]
        /\ relinked' = IF chat \notin {g, None} THEN relinked \cup {u} ELSE relinked
        /\ profile' = [profile EXCEPT ![e] = NoEdit] /\ UNCHANGED msg
    BY <1>2 DEF SaveProfile, sendVars
  <2>2. u \in Members /\ chat \in Groups \cup {None}
    BY <1>0, <1>2 DEF Edits, SaveProfile
  <2>3. profile' \in [Editors -> Edits]
    BY <1>0, <2>1 DEF GroupInv
  <2> HIDE DEF u, chat
  <2>4. link' \in [Members -> Links] /\ stored' \in [Members -> Groups \cup {None}]
    BY <2>1, <2>2 DEF GroupInv
  <2>5. \A v \in Members : v # u => link'[v] = link[v] /\ stored'[v] = stored[v]
    BY <2>1 DEF GroupInv
  <2>6. u \in Members => link'[u] = g /\ stored'[u] = chat
    BY <2>1 DEF GroupInv
  <2>7. relinked \subseteq relinked' /\ relinked' \subseteq Members
    BY <2>1, <2>2 DEF GroupInv
  <2>8. \A v \in Members : stored'[v] # None => stored'[v] = link'[v] \/ v \in relinked'
    BY <2>1, <2>5, <2>6, <2>7 DEF GroupInv
  <2>9. AddressedToGroup'
    BY <2>1, <2>7 DEF GroupInv, AddressedToGroup
  <2> QED BY <2>3, <2>4, <2>7, <2>8, <2>9 DEF GroupInv
<1> QED BY <1>1, <1>2 DEF Edit

-----------------------------------------------------------------------------
(* The invariant as a whole.                                               *)

LEMMA NextInv == Fits /\ OInv /\ [Next]_vars => OInv'
<1> SUFFICES ASSUME Fits, OInv, [Next]_vars
             PROVE  GroupInv' /\ MsgInv'
  BY LinkTypes, UnlinkNext DEF OInv
<1>0. LinkTypeOK /\ UnlinkInv /\ GroupInv /\ MsgInv
  BY DEF OInv
<1>1. ASSUME UNCHANGED <<memberVars, sendVars>>
      PROVE  GroupInv' /\ MsgInv'
  <2>1. UNCHANGED <<link, stored, profile, relinked, msg>>
    BY <1>1 DEF memberVars, sendVars
  <2>2. \A m \in Messages : Addressed(m)' = Addressed(m)
    BY <2>1 DEF Addressed
  <2> QED BY <1>0, <1>1, <2>1, <2>2, GroupOther, OtherStep DEF GroupInv
<1>2. CASE World
  <2>1. CASE PhoneScans \/ PhoneLogsOut \/ Configure
    BY <1>1, <2>1 DEF PhoneScans, PhoneLogsOut, Configure
  <2>2. CASE Crash
    <3>1. UNCHANGED <<link, stored, relinked>> /\ profile' \in [Editors -> Edits]
      BY <2>2 DEF Crash, Edits
    <3>2. \A m \in Messages : Addressed(m)' = Addressed(m) \/ msg'[m].chat = None
      BY <2>2, RowTypes DEF Crash, Addressed
    <3> QED BY <1>0, <2>2, <3>1, <3>2, GroupOther, CrashStep
  <2>3. ASSUME NEW c \in posted, Execute(c)
        PROVE  GroupInv' /\ MsgInv'
    <3>1. UNCHANGED <<link, stored, profile, relinked, msg>>
      BY <2>3 DEF Execute, memberVars
    <3>2. \A m \in Messages : Addressed(m)' = Addressed(m)
      BY <3>1 DEF Addressed
    <3> QED BY <1>0, <2>3, <3>1, <3>2, GroupOther, ExecuteStep DEF GroupInv
  <2> QED BY <1>2, <2>1, <2>2, <2>3 DEF World
<1>3. ASSUME NEW o \in Offices, LinkPage(o)
      PROVE  GroupInv' /\ MsgInv'
  BY <1>1, <1>3
  DEF LinkPage, StartLink, AskStatus, StatusAnswer, SaveNumber, Unlink, ClearNumber
<1>4. ASSUME NEW e \in Editors, Edit(e)
      PROVE  GroupInv' /\ MsgInv'
  <2>1. UNCHANGED sendVars
    BY <1>4 DEF Edit, LoadProfile, SaveProfile
  <2> QED BY <1>0, <1>4, <2>1, GroupEdit, OtherStep
<1>5. ASSUME NEW m \in Messages, Request(m)
      PROVE  GroupInv' /\ MsgInv'
  BY <1>0, <1>5, GroupRequest, RequestStep DEF GroupInv
<1>6. ASSUME NEW m \in Messages, Carry(m)
      PROVE  GroupInv' /\ MsgInv'
  BY <1>0, <1>6, GroupCarry, WakeStep, SentStep, FailStep DEF Carry
<1>7. CASE UNCHANGED vars
  BY <1>1, <1>7 DEF vars, memberVars, sendVars
<1> QED BY <1>2, <1>3, <1>4, <1>5, <1>6, <1>7 DEF Next

(* The inductive invariant holds of every execution.                       *)
THEOREM Invariance ==
    ASSUME Fits
    PROVE  Spec => []OInv
<1>1. OInv /\ [Next]_vars => OInv'
  BY NextInv
<1> QED BY <1>1, InitInv, PTL DEF Spec

(* WhatsAppLinkView: after an unlinking that WAHA carried out too, no      *)
(* number comes back before a phone scans, unless a request was in flight. *)
THEOREM UnlinksHold == Spec => []UnlinkHolds
<1>1. Init => LinkTypeOK /\ UnlinkInv
  BY UnlinkInit DEF Init, LinkTypeOK
<1>2. LinkTypeOK /\ UnlinkInv /\ [Next]_vars => (LinkTypeOK /\ UnlinkInv)'
  BY LinkTypes, UnlinkNext
<1>3. UnlinkInv => UnlinkHolds
  BY DEF UnlinkInv, UnlinkHolds
<1> QED BY <1>1, <1>2, <1>3, PTL DEF Spec


(* queue_message, deliver_once, retry_in_thread: while the server lives, a *)
(* pending message is carried by its request or its retry thread.          *)
THEOREM PendingAlwaysCarried ==
    ASSUME Fits
    PROVE  Spec => []PendingIsCarried
<1>1. OInv => PendingIsCarried
  BY DEF OInv, MsgInv, MessageInv, PendingIsCarried, Carrier
<1> QED BY <1>1, Invariance, PTL

(* deliver_once: of the calls WAHA has executed for a text all but one     *)
(* were recorded as failures, and a sent text was executed.                *)
THEOREM DuplicatesAreExplained ==
    ASSUME Fits
    PROVE  Spec => []DuplicatesExplained
<1>1. OInv => DuplicatesExplained
  <2> SUFFICES ASSUME OInv, NEW m \in Messages
               PROVE  /\ Cardinality({k \in Executed(m) : <<m, k>> \notin failed}) <= 1
                      /\ msg[m].status = "sent" => Executed(m) # {}
    BY DEF DuplicatesExplained
  <2>1. CallsInv(m)
    BY DEF OInv, MsgInv
  <2> DEFINE S == {k \in Executed(m) : <<m, k>> \notin failed}
  <2>2. S \subseteq Open(m)
    BY DEF Executed, Open, Calls
  <2>3. \A j, k \in S : j = k
    BY <2>1, <2>2 DEF CallsInv
  <2>4. CASE S = {}
    <3>1. Cardinality(S) = 0
      BY <2>4, FS_EmptySet
    <3> QED BY <2>1, <3>1 DEF CallsInv
  <2>5. CASE S # {}
    <3>1. PICK k : k \in S
      BY <2>5
    <3>2. S = {k}
      BY <2>3, <3>1
    <3>3. Cardinality(S) = 1
      BY <3>2, FS_Singleton
    <3> QED BY <2>1, <3>3 DEF CallsInv
  <2> QED BY <2>4, <2>5
<1> QED BY <1>1, Invariance, PTL

(* _resolve_group_chat_id: a text to a group goes to the group of the      *)
(* member's link, unless an edit of the member, or the answer to a text    *)
(* that had read an earlier link, left an id of another group.             *)
THEOREM GroupsAreAddressed ==
    ASSUME Fits
    PROVE  Spec => []AddressedToGroup
<1>1. OInv => AddressedToGroup
  BY DEF OInv, GroupInv
<1> QED BY <1>1, Invariance, PTL

-----------------------------------------------------------------------------
(* The outbox keeps the promise of Delivery: its steps are steps of that   *)
(* specification, or change nothing there.                                 *)

Outcome(m) == IF msg[m].status = "pending" /\ at[m] = "dead" THEN "orphan" ELSE msg[m].status

Reached == {m \in Messages : Executed(m) # {}}

Outcomes == [m \in Messages |-> Outcome(m)]

Becomes(m, from, to) == Outcomes[m] = from /\ Outcomes' = [Outcomes EXCEPT ![m] = to]

LEMMA PromiseMeans ==
    /\ Promise!Init <=> Outcomes = [m \in Messages |-> "none"] /\ Reached = {}
    /\ \A m \in Messages : Promise!Accept(m) <=> Becomes(m, "none", "pending") /\ Reached' = Reached
    /\ \A m \in Messages : Promise!Confirm(m) <=> m \in Reached /\ Becomes(m, "pending", "sent") /\ Reached' = Reached
    /\ \A m \in Messages : Promise!GiveUp(m) <=> Becomes(m, "pending", "failed") /\ Reached' = Reached
    /\ \A m \in Messages :
          Promise!Reach(m) <=> Outcomes[m] # "none" /\ Reached' = Reached \cup {m} /\ Outcomes' = Outcomes
    /\ Promise!Abandon <=>
          /\ Outcomes' = [m \in Messages |-> IF Outcomes[m] = "pending" THEN "orphan" ELSE Outcomes[m]]
          /\ Reached' = Reached
    /\ UNCHANGED Promise!vars <=> Outcomes' = Outcomes /\ Reached' = Reached
BY DEF Promise!Init, Promise!Accept, Promise!Confirm, Promise!GiveUp, Promise!Reach,
       Promise!Abandon, Promise!vars, Promise!Decide, Outcomes, Outcome, Reached, Becomes

(* A step of one message shows in its outcome alone.                       *)
LEMMA OneOutcome ==
    ASSUME MsgInv, MsgInv', NEW m \in Messages, UNCHANGED delivered,
           \A n \in Messages : n # m => msg'[n] = msg[n] /\ at'[n] = at[n]
    PROVE  /\ Outcomes' = [Outcomes EXCEPT ![m] = Outcome(m)']
           /\ Reached' = Reached
<1>1. Outcomes' = [Outcomes EXCEPT ![m] = Outcome(m)']
  BY DEF Outcomes, Outcome
<1>2. Reached' = Reached
  BY DEF Reached, Executed
<1> QED BY <1>1, <1>2

LEMMA PromiseRequest ==
    ASSUME MsgInv, MsgInv', NEW m \in Messages, Request(m)
    PROVE  Promise!Accept(m) \/ UNCHANGED Promise!vars
<1>1. /\ \A n \in Messages : n # m => msg'[n] = msg[n] /\ at'[n] = at[n]
      /\ UNCHANGED delivered /\ at[m] \in {"idle", "resolving"}
  BY DEF Request, Queue, AskGroup, GroupKnown, GroupUnknown, Insert, MsgInv
<1>2. msg[m].status = "none" /\ Outcome(m) = "none"
  BY <1>1 DEF MsgInv, MessageInv, Outcome
<1>3. msg'[m].status \in {"none", "pending"} /\ at'[m] \in {"idle", "resolving", "sending"}
  <2>1. ASSUME NEW u, NEW chat, NEW saw, Insert(m, u, chat, saw)
        PROVE  msg'[m].status = "pending" /\ at'[m] = "sending"
    BY <2>1 DEF Insert, MsgInv
  <2>2. CASE \E u \in Members : Queue(m, u)
    BY <2>1, <2>2 DEF Queue
  <2>3. CASE \E u \in Members : AskGroup(m, u)
    <3>1. at'[m] = "resolving"
      BY <2>3 DEF AskGroup, MsgInv
    <3> QED BY <3>1 DEF MsgInv, MessageInv
  <2>4. CASE GroupKnown(m)
    BY <2>1, <2>4 DEF GroupKnown
  <2>5. CASE GroupUnknown(m)
    <3>1. CASE msg[m].to \in Phoned
      BY <2>1, <2>5, <3>1 DEF GroupUnknown
    <3>2. CASE msg[m].to \notin Phoned
      BY <2>5, <3>2, RowTypes DEF GroupUnknown, MsgInv
    <3> QED BY <3>1, <3>2
  <2> QED BY <2>2, <2>3, <2>4, <2>5 DEF Request
<1>4. Outcome(m)' \in {"none", "pending"}
  BY <1>3 DEF Outcome
<1>5. Outcomes' = [Outcomes EXCEPT ![m] = Outcome(m)'] /\ Reached' = Reached
  BY <1>1, OneOutcome
<1>6. Outcomes[m] = "none" /\ Outcomes \in [Messages -> {Outcome(n) : n \in Messages}]
  BY <1>2 DEF Outcomes
<1>7. CASE Outcome(m)' = "none"
  <2>1. Outcomes' = Outcomes
    BY <1>5, <1>6, <1>7
  <2> QED BY <1>5, <2>1, PromiseMeans
<1>8. CASE Outcome(m)' = "pending"
  BY <1>5, <1>6, <1>8, PromiseMeans DEF Becomes
<1> QED BY <1>4, <1>7, <1>8

LEMMA PromiseCarry ==
    ASSUME MsgInv, MsgInv', NEW m \in Messages, Carry(m)
    PROVE  Promise!Confirm(m) \/ Promise!GiveUp(m) \/ UNCHANGED Promise!vars
<1>1. /\ \A n \in Messages : n # m => msg'[n] = msg[n] /\ at'[n] = at[n]
      /\ UNCHANGED delivered /\ at[m] \in {"sending", "sleeping", "retrying"}
  BY DEF Carry, SentInline, FailInline, Wake, SentByRetry, FailRetry, MsgInv
<1>2. msg[m].status = "pending" /\ Outcome(m) = "pending"
  BY <1>1 DEF MsgInv, MessageInv, Outcome
<1>3. at'[m] \in {"sleeping", "retrying", "done"}
  BY DEF Carry, SentInline, FailInline, Wake, SentByRetry, FailRetry, MsgInv, AfterFailure
<1>4. msg'[m].status \in {"pending", "sent", "failed"} /\ Outcome(m)' = msg'[m].status
  BY <1>3 DEF MsgInv, MessageInv, Outcome
<1>5. Outcomes' = [Outcomes EXCEPT ![m] = Outcome(m)'] /\ Reached' = Reached
  BY <1>1, OneOutcome
<1>6. Outcomes[m] = "pending" /\ Outcomes \in [Messages -> {Outcome(n) : n \in Messages}]
  BY <1>2 DEF Outcomes
<1>7. CASE Outcome(m)' = "pending"
  <2>1. Outcomes' = Outcomes
    BY <1>5, <1>6, <1>7
  <2> QED BY <1>5, <2>1, PromiseMeans
<1>8. CASE Outcome(m)' = "sent"
  <2>1. m \in Reached'
    BY <1>4, <1>8 DEF MsgInv, CallsInv, Reached
  <2> QED BY <1>5, <1>6, <1>8, <2>1, PromiseMeans DEF Becomes
<1>9. CASE Outcome(m)' = "failed"
  BY <1>5, <1>6, <1>9, PromiseMeans DEF Becomes
<1> QED BY <1>4, <1>7, <1>8, <1>9

LEMMA PromiseExecute ==
    ASSUME MsgInv, NEW c \in posted, Execute(c)
    PROVE  (\E m \in Messages : Promise!Reach(m)) \/ UNCHANGED Promise!vars
<1>1. PICK m \in Messages, k \in 1 .. MaxAttempts : c = <<m, k>>
  BY DEF MsgInv, Calls
<1>2. Outcomes' = Outcomes
  BY DEF Execute, Outcomes, Outcome
<1>3. CASE delivered' = delivered
  <2>1. Reached' = Reached
    BY <1>3 DEF Reached, Executed
  <2> QED BY <1>2, <2>1, PromiseMeans
<1>4. CASE delivered' = delivered \cup {c}
  <2>1. Reached' = Reached \cup {m}
    BY <1>1, <1>4 DEF Reached, Executed
  <2>2. Outcomes[m] # "none"
    <3>1. at[m] \notin {"idle", "resolving"}
      BY <1>1 DEF MsgInv, CallsInv, Calls
    <3> QED BY <3>1 DEF MsgInv, MessageInv, Carrier, Outcomes, Outcome
  <2> QED BY <1>2, <2>1, <2>2, PromiseMeans
<1> QED BY <1>3, <1>4 DEF Execute

LEMMA PromiseCrash ==
    ASSUME MsgInv, Crash
    PROVE  Promise!Abandon
<1>1. Reached' = Reached
  BY DEF Crash, Reached, Executed
<1>2. ASSUME NEW m \in Messages
      PROVE  Outcome(m)' = IF Outcome(m) = "pending" THEN "orphan" ELSE Outcome(m)
  <2>1. MessageInv(m)
    BY DEF MsgInv
  <2>2. CASE at[m] = "resolving"
    BY <2>1, <2>2, RowTypes DEF Crash, MessageInv, Outcome
  <2>3. CASE at[m] \in {"sending", "sleeping", "retrying"}
    BY <2>1, <2>3 DEF Crash, MessageInv, Outcome
  <2>4. CASE at[m] \in {"idle", "done", "dead"}
    BY <2>1, <2>4 DEF Crash, MessageInv, Outcome
  <2> QED BY <2>1, <2>2, <2>3, <2>4 DEF MessageInv, Carrier
<1>3. Outcomes' = [m \in Messages |-> IF Outcomes[m] = "pending" THEN "orphan" ELSE Outcomes[m]]
  BY <1>2 DEF Outcomes
<1> QED BY <1>1, <1>3, PromiseMeans

LEMMA PromiseStep == OInv /\ OInv' /\ [Next]_vars => [Promise!Next]_(Promise!vars)
<1> SUFFICES ASSUME MsgInv, MsgInv', [Next]_vars
             PROVE  Promise!Next \/ UNCHANGED Promise!vars
  BY DEF OInv
<1>1. ASSUME UNCHANGED sendVars
      PROVE  UNCHANGED Promise!vars
  <2>1. Outcomes' = Outcomes /\ Reached' = Reached
    BY <1>1 DEF sendVars, Outcomes, Outcome, Reached, Executed
  <2> QED BY <2>1, PromiseMeans
<1>2. CASE World
  <2>1. CASE PhoneScans \/ PhoneLogsOut \/ Configure
    BY <1>1, <2>1 DEF PhoneScans, PhoneLogsOut, Configure
  <2>2. CASE Crash
    BY <2>2, PromiseCrash DEF Promise!Next
  <2>3. ASSUME NEW c \in posted, Execute(c)
        PROVE  Promise!Next \/ UNCHANGED Promise!vars
    BY <2>3, PromiseExecute DEF Promise!Next
  <2> QED BY <1>2, <2>1, <2>2, <2>3 DEF World
<1>3. ASSUME NEW o \in Offices, LinkPage(o)
      PROVE  UNCHANGED Promise!vars
  BY <1>1, <1>3
  DEF LinkPage, StartLink, AskStatus, StatusAnswer, SaveNumber, Unlink, ClearNumber
<1>4. ASSUME NEW e \in Editors, Edit(e)
      PROVE  UNCHANGED Promise!vars
  BY <1>1, <1>4 DEF Edit, LoadProfile, SaveProfile
<1>5. ASSUME NEW m \in Messages, Request(m)
      PROVE  Promise!Next \/ UNCHANGED Promise!vars
  BY <1>5, PromiseRequest DEF Promise!Next
<1>6. ASSUME NEW m \in Messages, Carry(m)
      PROVE  Promise!Next \/ UNCHANGED Promise!vars
  BY <1>6, PromiseCarry DEF Promise!Next
<1>7. CASE UNCHANGED vars
  BY <1>1, <1>7 DEF vars, sendVars
<1> QED BY <1>2, <1>3, <1>4, <1>5, <1>6, <1>7 DEF Next

(* The safety part of DeliversAsPromised: a message is confirmed only when *)
(* it has reached the phone, and only a pending one is decided.            *)
THEOREM PromiseIsKept ==
    ASSUME Fits
    PROVE  Spec => Promise!Init /\ [][Promise!Next]_(Promise!vars)
<1>1. Init => Promise!Init
  <2> SUFFICES ASSUME Init
               PROVE  Outcomes = [m \in Messages |-> "none"] /\ Reached = {}
    BY PromiseMeans
  <2>1. \A m \in Messages : Outcome(m) = "none"
    BY RowTypes DEF Init, Outcome
  <2> QED BY <2>1 DEF Init, Outcomes, Reached, Executed
<1>2. OInv /\ OInv' /\ [Next]_vars => [Promise!Next]_(Promise!vars)
  BY PromiseStep
<1> QED BY <1>1, <1>2, Invariance, PTL DEF Spec
=============================================================================
