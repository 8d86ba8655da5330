------------------------------- MODULE Outbox -------------------------------
(***************************************************************************)
(* The WhatsApp outbox of one big office (backend/apps/whatsapp): linking  *)
(* the number of the office through a session of the WAHA server, and      *)
(* sending texts to members, inside the request first and by a thread of   *)
(* the server process when that fails.                                     *)
(*                                                                         *)
(* Calls to WAHA take up to 75 seconds and hold no database transaction:   *)
(* every read before a call and write after it are steps of their own, and *)
(* a call that timed out may still be executed later.                      *)
(***************************************************************************)
EXTENDS Integers, FiniteSets

CONSTANTS
    Messages,  \* identities of the rows of WhatsAppMessage
    Members,   \* the small offices that messages go to
    Groups,    \* WhatsApp groups, each with its invite link
    Links,     \* what the link field of a member may hold: groups, or None
    Phoned,    \* the members that have a phone number
    Numbers,   \* phone numbers the office may link
    Offices,   \* requests of the office's link page that may be in flight together
    Editors,   \* edits of a member's profile that may be in flight together
    None       \* an empty field

CONSTANT MaxAttempts   \* MAX_ATTEMPTS

ASSUME LinksAssumption == Links \subseteq Groups \cup {None}
ASSUME MaxAttemptsAssumption == MaxAttempts \in Nat \ {0}
ASSUME NoneAssumption == None \notin Groups \cup Numbers \cup {"phone"}
ASSUME PhoneAssumption == "phone" \notin Groups
ASSUME SessionAssumption == Numbers \cap {"absent", "scan"} = {}

VARIABLES
    configured,  \* PlatformSettings.waha_url is set
    number,      \* WhatsAppSettings.linked_number
    session,     \* WAHA: "absent", "scan" (waits for the QR scan), or the number it works as
    link,        \* User.whatsapp_group_link
    stored,      \* User.whatsapp_chat_id
    profile,     \* the member an edit has loaded, with the stored id of that moment
    msg,         \* the rows of WhatsAppMessage
    at,          \* what carries each message: the request, the retry thread, nobody
    posted,      \* sendText calls WAHA may still execute, by message and attempt
    delivered,   \* sendText calls WAHA has executed
    failed,      \* ghost: sendText calls whose caller recorded a failure
    page,        \* the requests of the link page
    cut,         \* ghost: the office has unlinked, WAHA too, with no number in flight, and
                 \* no phone has scanned since
    relinked     \* ghost: members that got a link and a stored id of different groups

linkVars   == <<configured, number, session, page, cut>>
memberVars == <<link, stored, profile, relinked>>
sendVars   == <<msg, at, posted, delivered, failed>>
vars == <<configured, number, session, link, stored, profile, msg, at, posted, delivered, failed,
          page, cut, relinked>>

Status == {"none", "pending", "sent", "failed"}
Carrier == {"idle", "resolving", "sending", "sleeping", "retrying", "done", "dead"}
Row == [status : Status, attempts : 0 .. MaxAttempts + 1, chat : Groups \cup {"phone", None},
        to : Members \cup {None}, saw : Groups \cup {None}]
NoRow == [status |-> "none", attempts |-> 0, chat |-> None, to |-> None, saw |-> None]
Idle == [pc |-> "idle", had |-> None, seen |-> None]
NoEdit == [who |-> None, chat |-> None]
Edits == [who : Members, chat : Groups \cup {None}] \cup {NoEdit}

TypeOK ==
    /\ configured \in BOOLEAN
    /\ number \in Numbers \cup {None}
    /\ session \in Numbers \cup {"absent", "scan"}
    /\ link \in [Members -> Links]
    /\ stored \in [Members -> Groups \cup {None}]
    /\ profile \in [Editors -> Edits]
    /\ msg \in [Messages -> Row]
    /\ at \in [Messages -> Carrier]
    /\ posted \subseteq Messages \X Nat
    /\ delivered \subseteq Messages \X Nat
    /\ failed \subseteq Messages \X Nat
    /\ page \in [Offices -> [pc : {"idle", "asked", "answered", "loggedout"},
                             had : Numbers \cup {None}, seen : Numbers \cup {None}]]
    /\ cut \in BOOLEAN
    /\ relinked \subseteq Members

(* Ids may have been stored for an earlier text, and links edited since.   *)
Init ==
    /\ configured \in BOOLEAN
    /\ number = None
    /\ session = "absent"
    /\ link \in [Members -> Links]
    /\ stored \in [Members -> Groups \cup {None}]
    /\ profile = [e \in Editors |-> NoEdit]
    /\ msg = [m \in Messages |-> NoRow]
    /\ at = [m \in Messages |-> "idle"]
    /\ posted = {} /\ delivered = {} /\ failed = {}
    /\ page = [o \in Offices |-> Idle]
    /\ cut = FALSE
    /\ relinked = {u \in Members : stored[u] \notin {link[u], None}}

is_ready == configured /\ number # None

-----------------------------------------------------------------------------
(* WAHA and the phones.  A session is scanned by the phone of the office   *)
(* and can be ended from that phone.                                       *)

PhoneScans ==
    /\ session = "scan"
    /\ session' \in Numbers
    /\ cut' = FALSE
    /\ UNCHANGED <<configured, number, page, memberVars, sendVars>>

PhoneLogsOut ==
    /\ session \in Numbers
    /\ session' = "scan"
    /\ UNCHANGED <<configured, number, page, cut, memberVars, sendVars>>

(* WAHA executes a posted call, maybe long after the caller gave it up, or *)
(* refuses it for want of a session.                                       *)
Execute(c) ==
    /\ c \in posted
    /\ posted' = posted \ {c}
    /\ delivered' = IF session \in Numbers THEN delivered \cup {c} ELSE delivered
    /\ UNCHANGED <<msg, at, failed, linkVars, memberVars>>

(* The administrator enters or clears the address of the WAHA server.      *)
Configure ==
    /\ configured' = ~ configured
    /\ UNCHANGED <<number, session, page, cut, memberVars, sendVars>>

-----------------------------------------------------------------------------
(* The link page of the office.                                            *)

Become(o, r) == page' = [page EXCEPT ![o] = r]

start_session == session' = IF session = "absent" THEN "scan" ELSE session

logout == configured /\ session' = "absent"

(* POST: start_session creates the session, or restarts it when it exists; *)
(* then, as for a GET, the settings row is loaded and WAHA asked.          *)
StartLink(o) ==
    /\ page[o].pc = "idle" /\ configured
    /\ start_session
    /\ Become(o, [pc |-> "asked", had |-> number, seen |-> None])
    /\ UNCHANGED <<configured, number, cut, memberVars, sendVars>>

AskStatus(o) ==
    /\ page[o].pc = "idle" /\ configured
    /\ Become(o, [pc |-> "asked", had |-> number, seen |-> None])
    /\ UNCHANGED <<configured, number, session, cut, memberVars, sendVars>>

(* No number to save unless the session is WORKING: offline, no session, a *)
(* session that waits for its scan.                                        *)
StatusAnswer(o) ==
    /\ page[o].pc = "asked"
    /\ \/ session \in Numbers /\ Become(o, [page[o] EXCEPT !.pc = "answered", !.seen = session])
       \/ Become(o, Idle)
    /\ UNCHANGED <<configured, number, session, cut, memberVars, sendVars>>

SaveNumber(o) ==
    /\ page[o].pc = "answered"
    /\ number' = IF page[o].had # page[o].seen THEN page[o].seen ELSE number
    /\ Become(o, Idle)
    /\ UNCHANGED <<configured, session, cut, memberVars, sendVars>>

(* DELETE: the logout may fail, and the number is cleared all the same.    *)
Unlink(o) ==
    /\ page[o].pc = "idle"
    /\ logout \/ UNCHANGED session
    /\ Become(o, [Idle EXCEPT !.pc = "loggedout"])
    /\ UNCHANGED <<configured, number, cut, memberVars, sendVars>>

(* Another request holds the number of the session that was logged out.    *)
HeldElsewhere(o) == \E p \in Offices \ {o} : page[p].pc = "answered"

(* (Bug: the row is saved with the number it was loaded with.)             *)
ClearNumberUnchanged(o) ==
    /\ page[o].pc = "loggedout"
    /\ number' = number
    /\ cut' = (session \notin Numbers /\ ~ HeldElsewhere(o))
    /\ Become(o, Idle)
    /\ UNCHANGED <<configured, session, memberVars, sendVars>>

ClearNumber(o) ==
    /\ page[o].pc = "loggedout"
    /\ number' = None
    /\ cut' = (session \notin Numbers /\ ~ HeldElsewhere(o))
    /\ Become(o, Idle)
    /\ UNCHANGED <<configured, session, memberVars, sendVars>>

-----------------------------------------------------------------------------
(* The member's profile.  The page sends the link and never the stored id, *)
(* but the row is loaded, changed and saved whole: a link, or any other    *)
(* field, that is edited while a text finds its group writes the stored id *)
(* of the load back.                                                       *)
LoadProfile(e, u) ==
    /\ profile[e] = NoEdit
    /\ profile' = [profile EXCEPT ![e] = [who |-> u, chat |-> stored[u]]]
    /\ UNCHANGED <<link, stored, relinked, linkVars, sendVars>>

SaveProfile(e, g) ==
    LET u == profile[e].who  chat == profile[e].chat
    IN  /\ profile[e] # NoEdit
        /\ link' = [link EXCEPT ![u] = g]
        /\ stored' = [stored EXCEPT ![u] = chat]
        /\ relinked' = IF chat \notin {g, None} THEN relinked \cup {u} ELSE relinked
        /\ profile' = [profile EXCEPT ![e] = NoEdit]
        /\ UNCHANGED <<linkVars, sendVars>>

-----------------------------------------------------------------------------
(* queue_message, inside the request: the number is linked, the            *)
(* destination is the stored id, else the group of the link, asked of WAHA *)
(* and stored, else the phone; the row is committed before the first call. *)

Insert(m, u, chat, saw) ==
    /\ msg' = [msg EXCEPT ![m] = [status |-> "pending", attempts |-> 0, chat |-> chat,
                                  to |-> u, saw |-> saw]]
    /\ at' = [at EXCEPT ![m] = "sending"]
    /\ posted' = posted \cup {<<m, 1>>}

Queue(m, u) ==
    /\ at[m] = "idle" /\ is_ready
    /\ stored[u] # None
    /\ Insert(m, u, stored[u], link[u])
    /\ UNCHANGED <<delivered, failed, linkVars, memberVars>>

AskGroup(m, u) ==
    /\ at[m] = "idle" /\ is_ready
    /\ stored[u] = None
    /\ msg' = [msg EXCEPT ![m].to = u, ![m].saw = link[u]]
    /\ at' = [at EXCEPT ![m] = "resolving"]
    /\ UNCHANGED <<posted, delivered, failed, linkVars, memberVars>>

(* (Bug: WAHA is asked without the invite code and answers for any group.) *)
GroupKnownAny(m) ==
    LET u == msg[m].to
    IN  /\ at[m] = "resolving"
        /\ msg[m].saw # None /\ session \in Numbers
        /\ \E g \in Groups : stored' = [stored EXCEPT ![u] = g] /\ Insert(m, u, g, msg[m].saw)
        /\ UNCHANGED <<link, profile, relinked, delivered, failed, linkVars>>

GroupKnown(m) ==
    LET u == msg[m].to  g == msg[m].saw
    IN  /\ at[m] = "resolving"
        /\ g # None /\ session \in Numbers
        /\ stored' = [stored EXCEPT ![u] = g]
        /\ relinked' = IF link[u] # g THEN relinked \cup {u} ELSE relinked
        /\ Insert(m, u, g, g)
        /\ UNCHANGED <<link, profile, delivered, failed, linkVars>>

(* No link, or WAHA has no answer: the phone, or 409 for want of one.      *)
GroupUnknown(m) ==
    LET u == msg[m].to
    IN  /\ at[m] = "resolving"
        /\ IF u \in Phoned
             THEN Insert(m, u, "phone", None)
             ELSE /\ at' = [at EXCEPT ![m] = "idle"]
                  /\ msg' = [msg EXCEPT ![m] = NoRow]
                  /\ UNCHANGED posted
        /\ UNCHANGED <<delivered, failed, linkVars, memberVars>>

(* The call of attempt k has been answered.                                *)
Answered(m, k) == <<m, k>> \in delivered

SentInline(m) ==
    /\ at[m] = "sending" /\ Answered(m, 1)
    /\ msg' = [msg EXCEPT ![m].status = "sent"]
    /\ at' = [at EXCEPT ![m] = "done"]
    /\ UNCHANGED <<posted, delivered, failed, linkVars, memberVars>>

(* An error, or 75 seconds without an answer, or an answer that got lost;  *)
(* the retry thread starts.                                                *)
FailInline(m) ==
    /\ at[m] = "sending"
    /\ msg' = [msg EXCEPT ![m].attempts = 1]
    /\ at' = [at EXCEPT ![m] = "sleeping"]
    /\ failed' = failed \cup {<<m, 1>>}
    /\ UNCHANGED <<posted, delivered, linkVars, memberVars>>

-----------------------------------------------------------------------------
(* retry_in_thread: deliver_once after 45 seconds and after 60 more.  The  *)
(* thread ends after its second delay whatever deliver_once answered.      *)

Delays == 2

AfterFailure(k) == IF k <= Delays THEN "sleeping" ELSE "done"

Wake(m) ==
    /\ at[m] = "sleeping"
    /\ \/ /\ msg[m].status = "sent"
          /\ at' = [at EXCEPT ![m] = "done"]
          /\ UNCHANGED <<msg, posted>>
       \/ /\ msg[m].status # "sent" /\ ~ is_ready
          /\ at' = [at EXCEPT ![m] = "done"]
          /\ msg' = [msg EXCEPT ![m].status = "failed"]
          /\ UNCHANGED posted
       \/ /\ msg[m].status # "sent" /\ is_ready
          /\ at' = [at EXCEPT ![m] = "retrying"]
          /\ msg' = [msg EXCEPT ![m].attempts = @ + 1]
          /\ posted' = posted \cup {<<m, msg[m].attempts + 1>>}
    /\ UNCHANGED <<delivered, failed, linkVars, memberVars>>

(* (Bug: deliver_once does not report a success as the end.)               *)
SentNotReported(m) ==
    /\ at[m] = "retrying" /\ Answered(m, msg[m].attempts)
    /\ at' = [at EXCEPT ![m] = AfterFailure(msg[m].attempts)]
    /\ UNCHANGED <<msg, failed, posted, delivered, linkVars, memberVars>>

SentByRetry(m) ==
    /\ at[m] = "retrying" /\ Answered(m, msg[m].attempts)
    /\ msg' = [msg EXCEPT ![m].status = "sent"]
    /\ at' = [at EXCEPT ![m] = "done"]
    /\ UNCHANGED <<posted, delivered, failed, linkVars, memberVars>>

(* (Bug: one attempt too many is allowed before giving up.)                *)
FailRetryLate(m) ==
    /\ at[m] = "retrying"
    /\ LET k == msg[m].attempts
       IN  IF k > MaxAttempts
             THEN /\ msg' = [msg EXCEPT ![m].status = "failed"]
                  /\ at' = [at EXCEPT ![m] = "done"]
             ELSE /\ at' = [at EXCEPT ![m] = AfterFailure(k)]
                  /\ UNCHANGED msg
    /\ failed' = failed \cup {<<m, msg[m].attempts>>}
    /\ UNCHANGED <<posted, delivered, linkVars, memberVars>>

FailRetry(m) ==
    /\ at[m] = "retrying"
    /\ LET k == msg[m].attempts
       IN  IF k >= MaxAttempts
             THEN /\ msg' = [msg EXCEPT ![m].status = "failed"]
                  /\ at' = [at EXCEPT ![m] = "done"]
             ELSE /\ at' = [at EXCEPT ![m] = AfterFailure(k)]
                  /\ UNCHANGED msg
    /\ failed' = failed \cup {<<m, msg[m].attempts>>}
    /\ UNCHANGED <<posted, delivered, linkVars, memberVars>>

-----------------------------------------------------------------------------
(* The server process dies and starts again: its requests and threads are  *)
(* gone, the rows stay.                                                    *)
Crash ==
    /\ at' = [m \in Messages |-> IF at[m] = "resolving" THEN "idle"
                                 ELSE IF at[m] \in {"sending", "sleeping", "retrying"}
                                 THEN "dead" ELSE at[m]]
    /\ msg' = [m \in Messages |-> IF at[m] = "resolving" THEN NoRow ELSE msg[m]]
    /\ page' = [o \in Offices |-> Idle]
    /\ profile' = [e \in Editors |-> NoEdit]
    /\ UNCHANGED <<configured, number, session, cut, posted, delivered, failed>>
    /\ UNCHANGED <<link, stored, relinked>>

World ==
    \/ PhoneScans \/ PhoneLogsOut \/ Configure \/ Crash
    \/ \E c \in posted : Execute(c)

LinkPage(o) ==
    \/ StartLink(o) \/ AskStatus(o) \/ StatusAnswer(o) \/ SaveNumber(o)
    \/ Unlink(o) \/ ClearNumber(o)

Edit(e) ==
    \/ \E u \in Members : LoadProfile(e, u)
    \/ \E g \in Links : SaveProfile(e, g)

Request(m) ==
    \/ \E u \in Members : Queue(m, u) \/ AskGroup(m, u)
    \/ GroupKnown(m) \/ GroupUnknown(m)

(* What a request or a thread does by itself once the row exists: every    *)
(* call ends, by its timeout at the latest, and every delay passes.        *)
Carry(m) ==
    \/ SentInline(m) \/ FailInline(m)
    \/ Wake(m) \/ SentByRetry(m) \/ FailRetry(m)

Next ==
    \/ World
    \/ \E o \in Offices : LinkPage(o)
    \/ \E e \in Editors : Edit(e)
    \/ \E m \in Messages : Request(m) \/ Carry(m)

Spec == Init /\ [][Next]_vars /\ \A m \in Messages : WF_vars(Carry(m))

-----------------------------------------------------------------------------
(* Properties.                                                             *)

(* A pending message is carried by the request or by the retry thread,     *)
(* unless the server died with its carrier: the delays of the thread and   *)
(* the limit of deliver_once agree.                                        *)
PendingIsCarried ==
    \A m \in Messages :
        msg[m].status = "pending" => at[m] \in {"sending", "sleeping", "retrying", "dead"}

(* Of the calls WAHA has executed for a text, all but one were recorded as *)
(* failures: a text reaches the phone twice only when an answer got lost   *)
(* or came too late.  A text is called sent only if it reached the phone.  *)
Executed(m) == {k \in 1 .. MaxAttempts : <<m, k>> \in delivered}

DuplicatesExplained ==
    \A m \in Messages :
        /\ Cardinality({k \in Executed(m) : <<m, k>> \notin failed}) <= 1
        /\ msg[m].status = "sent" => Executed(m) # {}

(* After the office unlinked its number, and WAHA with it, no number comes *)
(* back before a phone scans again, unless a request that had read the     *)
(* session as WORKING was in flight with its answer at that moment.        *)
UnlinkHolds == cut => number = None

(* A text that goes to a group goes to the group of the member's link,     *)
(* unless an edit of the link, or the answer to a text that had read an    *)
(* earlier link, left the member with the id of another group.             *)
AddressedToGroup ==
    \A m \in Messages :
        msg[m].chat \in Groups => msg[m].chat = msg[m].saw \/ msg[m].to \in relinked

(* The outbox keeps the promise of Delivery.                               *)
Promise == INSTANCE Delivery WITH
    outcome <- [m \in Messages |-> IF msg[m].status = "pending" /\ at[m] = "dead"
                                     THEN "orphan" ELSE msg[m].status],
    reached <- {m \in Messages : Executed(m) # {}}

DeliversAsPromised == Promise!Spec
=============================================================================
