------------------------------ MODULE Sessions ------------------------------
(***************************************************************************)
(* The session of an office in its browser (frontend/src/lib/auth.ts,      *)
(* authedApi.ts, ws.ts, RoleGuard.tsx) and the tokens of the server.       *)
(*                                                                         *)
(* A login gives out an access and a refresh token.  A refresh token is    *)
(* good for one renewal, which gives out the next pair.  A pair is kept in *)
(* the localStorage that all tabs of the browser share ("remember me") or  *)
(* in the sessionStorage of one tab, which is gone when the tab is closed; *)
(* a tab that finds a pair in both uses the shared one.  Calls that are    *)
(* answered 401 renew it on their own, and so does the socket before it    *)
(* connects again.  A pair is a number, for both its tokens.               *)
(***************************************************************************)
EXTENDS Accounts, Naturals

CONSTANTS
    Tabs,       \* tabs of the browser
    Calls,      \* calls of their pages, and sockets, that may be in flight
    MaxPairs    \* bound on the pairs given out

ASSUME MaxPairsAssumption == MaxPairs \in Nat

VARIABLES
    pair,      \* what has become of the refresh token of each pair
    fresh,     \* pairs whose access token has not expired
    local,     \* the pair in localStorage, 0: none
    own,       \* the pair in the sessionStorage of each tab, 0: none
    call,      \* the calls in flight
    leaving,   \* the pairs that logout requests on their way carry
    out,       \* ghost: tabs where the office has logged out, and not in since
    mishaps    \* ghost: what has gone wrong since the first login

tokenVars == <<pair, fresh>>
storeVars == <<local, own>>
sessionVars == <<tokenVars, storeVars, call, leaving, out, mishaps>>
vars == <<accountVars, sessionVars>>

Pairs == 1 .. MaxPairs

Idle == [pc |-> "idle"]

(* by: what renews, a call answered 401 or the socket.                     *)
Call ==
         {Idle}
    \cup [pc : {"sent", "unauthorized"}, tab : Tabs, with : Pairs]
    \cup [pc : {"renewing", "checked", "refused"}, tab : Tabs, with : Pairs,
          by : {"call", "socket"}]
    \cup [pc : {"renewed"}, tab : Tabs, with : Pairs, new : Pairs, by : {"call", "socket"}]

Mishap == {"renewal", "late", "unheard", "relogin", "closed"}

TypeOK ==
    /\ AccountsTypeOK
    /\ pair \in [Pairs -> {"none", "live", "used", "revoked", "expired"}]
    /\ fresh \subseteq Pairs
    /\ local \in {0} \cup Pairs
    /\ own \in [Tabs -> {0} \cup Pairs]
    /\ call \in [Calls -> Call]
    /\ leaving \subseteq Pairs
    /\ out \subseteq Tabs
    /\ mishaps \subseteq Mishap

Init ==
    /\ InitAccounts
    /\ pair = [p \in Pairs |-> "none"] /\ fresh = {}
    /\ local = 0 /\ own = [t \in Tabs |-> 0]
    /\ call = [c \in Calls |-> Idle]
    /\ leaving = {}
    /\ out = {} /\ mishaps = {}

(* The next pair to give out.                                              *)
New == {p \in Pairs : pair[p] = "none" /\ \A q \in Pairs : q < p => pair[q] # "none"}

Live == {p \in Pairs : pair[p] = "live"}

Renewals == {c \in Calls : call[c].pc \in {"renewing", "checked", "renewed", "refused"}}

RenewalsOf(t) == {c \in Renewals : call[c].tab = t}

Goes(c, r) == call' = [call EXCEPT ![c] = r]
Mishaps(S) == mishaps' = mishaps \cup S

-----------------------------------------------------------------------------
(* The stores.                                                             *)

getSession(t) == IF local # 0 THEN local ELSE own[t]

clearSession(t) == local' = 0 /\ own' = [own EXCEPT ![t] = 0]

(* One store is written, after both were cleared.                          *)
saveSession(t, p, remember) ==
    /\ local' = IF remember THEN p ELSE 0
    /\ own' = [own EXCEPT ![t] = IF remember THEN 0 ELSE p]

(* A tab is closed, with its sessionStorage and its calls.                 *)
CloseTab(t) ==
    /\ own' = [own EXCEPT ![t] = 0]
    /\ call' = [c \in Calls |-> IF call[c] # Idle /\ call[c].tab = t THEN Idle ELSE call[c]]
    /\ Mishaps(      (IF own[t] # 0 THEN {"closed"} ELSE {})
                \cup (IF RenewalsOf(t) # {} THEN {"renewal"} ELSE {}))
    /\ UNCHANGED <<tokenVars, local, leaving, out>>

-----------------------------------------------------------------------------
(* In and out.                                                             *)

(* The page of the login does not look for a session that is there, in its *)
(* own store or in another that the new one will hide.                     *)
Login(t, remember) ==
    /\ ~ Barred
    /\ \E n \in New :
          /\ pair' = [pair EXCEPT ![n] = "live"]
          /\ fresh' = fresh \cup {n}
          /\ saveSession(t, n, remember)
    /\ out' = IF remember THEN {} ELSE out \ {t}
    /\ Mishaps(IF getSession(t) # 0 \/ (remember /\ \E u \in Tabs : own[u] # 0)
                 THEN {"relogin"} ELSE {})
    /\ UNCHANGED <<call, leaving>>

(* The session is cleared without waiting for the answer: of this tab, and *)
(* of the tabs that shared it.                                             *)
Logout(t) ==
    /\ getSession(t) # 0
    /\ leaving' = leaving \cup {getSession(t)}
    /\ clearSession(t)
    /\ out' = {u \in Tabs : u = t \/ own[u] = 0}
    /\ Mishaps(IF \E u \in out' : RenewalsOf(u) # {} THEN {"late"} ELSE {})
    /\ UNCHANGED <<tokenVars, call>>

(* (Bug: the refresh token is not put on the black list.)                  *)
LogoutKeeps(p) ==
    /\ p \in leaving
    /\ leaving' = leaving \ {p}
    /\ UNCHANGED <<tokenVars, storeVars, call, out, mishaps>>

(* The view needs an access token as every other; a refresh token that is  *)
(* dead already is left as it is.                                          *)
LogoutServed(p) ==
    /\ p \in leaving
    /\ leaving' = leaving \ {p}
    /\ IF p \in fresh /\ ~ Barred
         THEN /\ pair' = [pair EXCEPT ![p] = IF @ = "live" THEN "revoked" ELSE @]
              /\ UNCHANGED mishaps
         ELSE /\ Mishaps({"unheard"})
              /\ UNCHANGED pair
    /\ UNCHANGED <<fresh, storeVars, call, out>>

LogoutLost(p) ==
    /\ p \in leaving
    /\ leaving' = leaving \ {p}
    /\ Mishaps({"unheard"})
    /\ UNCHANGED <<tokenVars, storeVars, call, out>>

(* Half an hour, and a day or a month, go by.                              *)
AccessExpires ==
    /\ fresh # {} /\ fresh' = {}
    /\ UNCHANGED <<pair, storeVars, call, leaving, out, mishaps>>

RefreshExpires(p) ==
    /\ pair[p] = "live" /\ p \notin fresh
    /\ pair' = [pair EXCEPT ![p] = "expired"]
    /\ UNCHANGED <<fresh, storeVars, call, leaving, out, mishaps>>

-----------------------------------------------------------------------------
(* A call, at the server.                                                  *)

(* (Bug: a call is sent although nothing is stored.)                       *)
SendAnyway(c, t) ==
    /\ call[c] = Idle
    /\ Goes(c, [pc |-> "sent", tab |-> t, with |-> getSession(t)])
    /\ UNCHANGED <<tokenVars, storeVars, leaving, out, mishaps>>

SendCall(c, t) ==
    /\ call[c] = Idle /\ getSession(t) # 0
    /\ Goes(c, [pc |-> "sent", tab |-> t, with |-> getSession(t)])
    /\ UNCHANGED <<tokenVars, storeVars, leaving, out, mishaps>>

(* BlockAwareJWTAuthentication: what the view then does is not the matter  *)
(* of this module.                                                         *)
Serve(c) ==
    /\ call[c].pc = "sent"
    /\ IF call[c].with \in fresh /\ ~ Barred
         THEN Goes(c, Idle)
         ELSE Goes(c, [call[c] EXCEPT !.pc = "unauthorized"])
    /\ UNCHANGED <<tokenVars, storeVars, leaving, out, mishaps>>

-----------------------------------------------------------------------------
(* refreshSession.                                                         *)

Shared(p) == \E c \in Renewals : call[c].with = p

StartRenewal(c, t, p, by) ==
    /\ Goes(c, [pc |-> "renewing", tab |-> t, with |-> p, by |-> by])
    /\ Mishaps(IF Shared(p) THEN {"renewal"} ELSE {})

(* (Bug: the pair the call was sent with is renewed, not the stored one.)  *)
RenewSent(c) ==
    /\ call[c].pc = "unauthorized"
    /\ StartRenewal(c, call[c].tab, call[c].with, "call")
    /\ UNCHANGED <<tokenVars, storeVars, leaving, out>>

(* A call that was answered 401 renews whatever is stored now.             *)
RenewForCall(c) ==
    LET t == call[c].tab IN
    /\ call[c].pc = "unauthorized"
    /\ IF getSession(t) # 0 THEN StartRenewal(c, t, getSession(t), "call")
                            ELSE Goes(c, Idle) /\ UNCHANGED mishaps
    /\ UNCHANGED <<tokenVars, storeVars, leaving, out>>

(* The socket renews three seconds after it was closed.                    *)
RenewForSocket(c, t) ==
    /\ call[c] = Idle /\ getSession(t) # 0
    /\ StartRenewal(c, t, getSession(t), "socket")
    /\ UNCHANGED <<tokenVars, storeVars, leaving, out>>

(* The server looks for the refresh token on the black list, and then puts *)
(* it there and gives out the next pair.  It does not ask Barred.          *)
CheckRefresh(c) ==
    /\ call[c].pc = "renewing"
    /\ Goes(c, [call[c] EXCEPT !.pc = IF pair[call[c].with] = "live" THEN "checked" ELSE "refused"])
    /\ UNCHANGED <<tokenVars, storeVars, leaving, out, mishaps>>

Rotate(c) ==
    /\ call[c].pc = "checked"
    /\ \E n \in New :
          /\ pair' = [pair EXCEPT ![n] = "live",
                                  ![call[c].with] = IF @ = "live" THEN "used" ELSE @]
          /\ fresh' = fresh \cup {n}
          /\ Goes(c, [pc |-> "renewed", tab |-> call[c].tab, with |-> call[c].with,
                      new |-> n, by |-> call[c].by])
    /\ UNCHANGED <<storeVars, leaving, out, mishaps>>

(* (Bug: the refresh token of the answer is not kept.)                     *)
TakeAccessOnly(c) ==
    /\ call[c].pc = "renewed"
    /\ saveSession(call[c].tab, call[c].with, local # 0)
    /\ Goes(c, Idle)
    /\ UNCHANGED <<tokenVars, leaving, out, mishaps>>

(* The new pair is stored where a session is stored by now, whichever it   *)
(* is: in localStorage if there is one there, else in the tab.  The call   *)
(* is sent once more; should it be refused again, that is an error of its  *)
(* page, and the session is kept.                                          *)
TakeRenewed(c) ==
    /\ call[c].pc = "renewed"
    /\ saveSession(call[c].tab, call[c].new, local # 0)
    /\ Goes(c, Idle)
    /\ UNCHANGED <<tokenVars, leaving, out, mishaps>>

(* A call that cannot renew clears the session, whatever is stored by now; *)
(* the socket tries the stored pair as it is.                              *)
GiveUp(c) ==
    /\ Goes(c, Idle)
    /\ IF call[c].by = "call" THEN clearSession(call[c].tab) ELSE UNCHANGED storeVars

TakeRefusal(c) ==
    /\ call[c].pc = "refused"
    /\ GiveUp(c)
    /\ UNCHANGED <<tokenVars, leaving, out, mishaps>>

(* The network fails between the browser and the server.                   *)
RenewalFails(c) ==
    /\ c \in Renewals
    /\ GiveUp(c)
    /\ Mishaps({"renewal"})
    /\ UNCHANGED <<tokenVars, leaving, out>>

(* The page is loaded anew, or a call that is not a renewal fails.         *)
Abandon(c) ==
    /\ call[c] # Idle
    /\ Goes(c, Idle)
    /\ Mishaps(IF c \in Renewals THEN {"renewal"} ELSE {})
    /\ UNCHANGED <<tokenVars, storeVars, leaving, out>>

SessionStep ==
    \/ AccessExpires
    \/ \E p \in Pairs : RefreshExpires(p) \/ LogoutServed(p) \/ LogoutLost(p)
    \/ \E t \in Tabs :
          \/ Logout(t) \/ CloseTab(t)
          \/ \E remember \in BOOLEAN : Login(t, remember)
          \/ \E c \in Calls : SendCall(c, t) \/ RenewForSocket(c, t)
    \/ \E c \in Calls :
          \/ Serve(c) \/ RenewForCall(c) \/ CheckRefresh(c) \/ Rotate(c)
          \/ TakeRenewed(c) \/ TakeRefusal(c) \/ RenewalFails(c) \/ Abandon(c)

Next ==
    \/ AccountStep /\ UNCHANGED sessionVars
    \/ SessionStep /\ UNCHANGED accountVars

Spec == Init /\ [][Next]_vars

-----------------------------------------------------------------------------
(* Properties.                                                             *)

(* A renewal is refused only for a refresh token that was revoked by a     *)
(* logout or has expired, unless two renewals of one pair have overlapped  *)
(* or the answer of one was lost: nobody is thrown out of a session that   *)
(* is good for any other reason.                                           *)
SessionKept ==
    \A c \in Calls :
        call[c].pc = "refused" =>
            \/ pair[call[c].with] \in {"revoked", "expired"}
            \/ "renewal" \in mishaps

(* As long as no renewal or logout has gone wrong, no tab was closed with  *)
(* its session and nobody logged in over a session, a refresh token that   *)
(* is still good is one the browser keeps, or a renewal or a logout has it *)
(* in hand.                                                                *)
Kept(p) == p = local \/ \E t \in Tabs : own[t] = p

NoStrayToken ==
    mishaps = {} =>
        \A p \in Live : \/ Kept(p) \/ p \in leaving
                        \/ \E c \in Calls : call[c].pc = "renewed" /\ call[c].new = p

(* A tab where the office has logged out has no session without a login,   *)
(* unless a renewal of that tab was in flight when it did.                 *)
LogoutHolds == "late" \notin mishaps => \A t \in out : getSession(t) = 0
=============================================================================
