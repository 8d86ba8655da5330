--------------------------- MODULE SessionsProofs ---------------------------
(***************************************************************************)
(* What holds of the sessions and of the blocks of an office for any       *)
(* number of tabs, calls, pairs and edits.                                 *)
(*                                                                         *)
(* The inductive invariant has one part for each thing that may have gone  *)
(* wrong: as long as no two renewals of one pair have overlapped and no    *)
(* answer was lost, every renewal in flight is of a pair of its own that   *)
(* nobody has used, and no pair is in two stores; as long as nothing at    *)
(* all has gone wrong, a renewal is of the session its tab has, and there  *)
(* is a shared session or there are sessions of tabs, not both.            *)
(***************************************************************************)
EXTENDS Sessions, TLAPS

InRenewal == {"renewing", "checked", "renewed", "refused"}

CallOK(r) ==
    /\ r.pc \in {"idle", "sent", "unauthorized"} \cup InRenewal
    /\ r.pc # "idle" => r.with \in Pairs /\ r.tab \in Tabs
    /\ r.pc = "renewed" => r.new \in Pairs
    /\ r.pc \in InRenewal => r.by \in {"call", "socket"}

Good(p) == pair[p] \in {"live", "revoked", "expired"}

(* Nobody is back after a logout, nor will be, unless it was late.         *)
LogoutInv ==
    \A t \in out : getSession(t) # 0 \/ RenewalsOf(t) # {} => "late" \in mishaps

(* Every renewal is of a pair of its own.                                  *)
OnePairEach ==
    \A c, d \in Renewals : c # d => call[c].with # call[d].with

(* A pair is in one store.                                                 *)
PlaceInv ==
    \A t \in Tabs : own[t] # 0 =>
        /\ own[t] # local
        /\ \A u \in Tabs : u # t => own[u] # own[t]

(* The pair of a tab is renewed by that tab.                               *)
TabInv == \A c \in Renewals : \A t \in Tabs : call[c].with = own[t] => call[c].tab = t

(* A pair in a store has been given out, and used only by a renewal whose  *)
(* answer is on its way.                                                   *)
KeptInv ==
    \A p \in Pairs : Kept(p) =>
        /\ pair[p] # "none"
        /\ pair[p] = "used" => \E c \in Calls : call[c].pc = "renewed" /\ call[c].with = p

RenewingInv ==
    \A c \in Calls : call[c].pc \in {"renewing", "checked"} => Good(call[c].with)

RefusedInv ==
    \A c \in Calls : call[c].pc = "refused" => pair[call[c].with] \in {"revoked", "expired"}

(* The pair of an answer on its way is known to nobody else.               *)
RenewedInv ==
    \A c \in Calls : call[c].pc = "renewed" =>
        /\ Good(call[c].new)
        /\ pair[call[c].with] \in {"used", "revoked", "expired"}
        /\ ~ Kept(call[c].new)

NewInv ==
    \A c, d \in Calls : call[c].pc = "renewed" =>
        /\ call[d].pc \in InRenewal => call[d].with # call[c].new
        /\ call[d].pc = "renewed" /\ d # c => call[d].new # call[c].new

RenewalInv ==
    /\ OnePairEach /\ PlaceInv /\ TabInv /\ KeptInv /\ RenewingInv
    /\ RefusedInv /\ RenewedInv /\ NewInv

OfSession == \A c \in Renewals : call[c].with = getSession(call[c].tab)

OneKind == local # 0 => \A t \in Tabs : own[t] = 0

(* An edit that has missed nothing holds the column as it is.              *)
EditInv ==
    \A e \in Editors :
        editing[e].pc = "loaded" /\ ~ editing[e].missed => editing[e].blocked = blocked

SInv ==
    /\ TypeOK
    /\ LogoutInv
    /\ "renewal" \notin mishaps => RenewalInv
    /\ mishaps = {} => OfSession /\ OneKind
    /\ NoStrayToken

-----------------------------------------------------------------------------
(* Calls and stores.                                                       *)

LEMMA CallFields ==
    ASSUME NEW r \in Call
    PROVE  CallOK(r)
BY DEF Call, CallOK, Idle, InRenewal

LEMMA CheckedIsCall ==
    ASSUME NEW r \in Call, r.pc = "renewing", NEW x \in {"checked", "refused"}
    PROVE  [r EXCEPT !.pc = x] \in
               [pc : {"renewing", "checked", "refused"}, tab : Tabs, with : Pairs,
                by : {"call", "socket"}]
BY DEF Call, Idle

LEMMA CallsOK ==
    ASSUME TypeOK
    PROVE  \A c \in Calls :
             /\ CallOK(call[c])
             /\ call[c].pc \in InRenewal => call[c].with \in Pairs /\ call[c].tab \in Tabs
             /\ call[c].pc = "renewed" => call[c].new \in Pairs
BY CallFields DEF TypeOK, CallOK, InRenewal

LEMMA RenewalCalls == Renewals = {c \in Calls : call[c].pc \in InRenewal}
BY DEF Renewals, InRenewal

LEMMA IdleIsCall == Idle \in Call /\ Idle.pc = "idle" /\ Idle.pc \notin InRenewal
BY DEF Call, Idle, InRenewal

(* A pair to give out is none that was given out.                          *)
LEMMA NewIsNone ==
    ASSUME NEW n \in New
    PROVE  n \in Pairs /\ pair[n] = "none"
BY DEF New

LEMMA PairsArePositive == \A p \in Pairs : p # 0
BY MaxPairsAssumption DEF Pairs

LEMMA SessionIsPair ==
    ASSUME TypeOK, NEW t \in Tabs, getSession(t) # 0
    PROVE  getSession(t) \in Pairs /\ Kept(getSession(t))
BY DEF TypeOK, getSession, Kept

(* The stores keep what they have or lose it, and renewals without an      *)
(* answer on its way may end: nothing is wrong with those that go on.      *)
LEMMA LessKept ==
    ASSUME TypeOK, RenewalInv, pair' = pair,
           local' \in {0, local}, \A t \in Tabs : own'[t] \in {0, own[t]},
           \A d \in Calls : \/ call'[d] = call[d]
                            \/ call'[d].pc \notin InRenewal /\ call[d].pc # "renewed"
    PROVE  RenewalInv'
<1>1. \A p \in Pairs : Kept(p)' => Kept(p)
  BY PairsArePositive DEF Kept
<1>2. /\ Renewals' \subseteq Renewals
      /\ \A d \in Renewals' : call'[d] = call[d]
  BY DEF Renewals, InRenewal
<1>3. \A d \in Calls : /\ call[d].pc = "renewed" => call'[d] = call[d]
                       /\ call'[d].pc \in InRenewal => call'[d] = call[d]
  OBVIOUS
<1>4. OnePairEach'
  BY <1>2 DEF RenewalInv, OnePairEach
<1>5. PlaceInv'
  BY DEF RenewalInv, PlaceInv
<1>6. TabInv'
  <2>1. \A d \in Renewals : call[d].with # 0
    BY CallsOK, RenewalCalls, PairsArePositive
  <2> QED BY <1>2, <2>1 DEF RenewalInv, TabInv
<1>7. KeptInv'
  BY <1>1, <1>3 DEF RenewalInv, KeptInv
<1>8. RenewingInv'
  BY <1>3 DEF RenewalInv, RenewingInv, InRenewal, Good
<1>9. RefusedInv'
  BY <1>3 DEF RenewalInv, RefusedInv, InRenewal
<1>10. RenewedInv'
  <2> SUFFICES ASSUME NEW d \in Calls, call'[d].pc = "renewed"
               PROVE  /\ pair[call'[d].new] \in {"live", "revoked", "expired"}
                      /\ pair[call'[d].with] \in {"used", "revoked", "expired"}
                      /\ call'[d].new # local'
                      /\ \A t \in Tabs : own'[t] # call'[d].new
    BY DEF RenewedInv, Good, Kept
  <2>1. call'[d] = call[d] /\ call[d].new \in Pairs /\ call[d].new # 0
    BY <1>3, CallsOK, PairsArePositive DEF InRenewal
  <2>2. Good(call[d].new) /\ pair[call[d].with] \in {"used", "revoked", "expired"}
        /\ ~ Kept(call[d].new)
    BY <2>1 DEF RenewalInv, RenewedInv
  <2> QED BY <2>1, <2>2 DEF Good, Kept
<1>11. NewInv'
  BY <1>3 DEF RenewalInv, NewInv, InRenewal
<1> QED BY <1>4, <1>5, <1>6, <1>7, <1>8, <1>9, <1>10, <1>11 DEF RenewalInv

(* A pair that is still good is kept, on its way out or in an answer.      *)
InHand(p) ==
    Kept(p) \/ p \in leaving \/ \E c \in Calls : call[c].pc = "renewed" /\ call[c].new = p

LEMMA StrayByHand == NoStrayToken <=> (mishaps = {} => \A p \in Live : InHand(p))
BY DEF NoStrayToken, InHand

-----------------------------------------------------------------------------
(* A call that does not renew goes on and does not renew.                  *)
LEMMA NoRenewalStep ==
    ASSUME SInv, NEW c \in Calls, NEW r \in Call,
           call[c].pc \notin InRenewal, r.pc \notin InRenewal,
           Goes(c, r), UNCHANGED <<tokenVars, storeVars, leaving, out, mishaps>>,
           AccountsTypeOK'
    PROVE  SInv'
<1>1. \A d \in Calls : d # c => call'[d] = call[d]
  BY DEF SInv, TypeOK, Goes
<1>2. call'[c] = r
  BY DEF SInv, TypeOK, Goes
<1>3. /\ Renewals' = Renewals
      /\ \A d \in Renewals : call'[d] = call[d]
      /\ \A t : RenewalsOf(t)' = RenewalsOf(t)
  BY <1>1, <1>2 DEF Renewals, InRenewal, RenewalsOf
<1>4. TypeOK'
  BY DEF SInv, TypeOK, Goes, tokenVars, storeVars
<1>5. RenewalInv => RenewalInv'
  BY <1>1, <1>2, LessKept DEF SInv, InRenewal, tokenVars, storeVars
<1>6. OfSession /\ OneKind => OfSession' /\ OneKind'
  BY <1>3 DEF OfSession, OneKind, getSession, storeVars
<1>7. \A p : InHand(p) => InHand(p)'
  BY <1>1 DEF InHand, Kept, InRenewal, storeVars
<1>8. LogoutInv'
  BY <1>3 DEF SInv, LogoutInv, getSession, storeVars
<1> QED
  BY <1>4, <1>5, <1>6, <1>7, <1>8, StrayByHand DEF SInv, NoStrayToken, InHand, Live, Kept, tokenVars

(* Where a renewal was lost, only what is left to show is shown.           *)
LEMMA LostRenewalStep ==
    ASSUME SInv, AccountsTypeOK',
           call' \in [Calls -> Call],
           \A d \in Calls : call'[d] = call[d] \/ call'[d] = Idle,
           \E S \in SUBSET Mishap : Mishaps(S) /\ "renewal" \in S,
           local' \in {0, local}, own' \in [Tabs -> {0} \cup Pairs],
           \A t \in Tabs : own'[t] \in {0, own[t]},
           UNCHANGED <<tokenVars, leaving, out>>
    PROVE  SInv'
<1>1. "renewal" \in mishaps' /\ mishaps \subseteq mishaps' /\ mishaps' \subseteq Mishap
  BY DEF Mishaps, SInv, TypeOK
<1>2. TypeOK'
  BY <1>1 DEF SInv, TypeOK, tokenVars
<1>3. \A t \in Tabs : /\ getSession(t)' # 0 => getSession(t) # 0
                      /\ RenewalsOf(t)' \subseteq RenewalsOf(t)
  BY IdleIsCall DEF getSession, RenewalsOf, Renewals, InRenewal
<1>4. LogoutInv'
  BY <1>1, <1>3 DEF SInv, LogoutInv, TypeOK
<1> QED BY <1>1, <1>2, <1>4 DEF SInv, NoStrayToken

(* refreshSession begins.                                                  *)
LEMMA StartStep ==
    ASSUME SInv, NEW c \in Calls, NEW t \in Tabs, NEW by \in {"call", "socket"},
           call[c].pc \notin InRenewal, getSession(t) # 0,
           StartRenewal(c, t, getSession(t), by),
           UNCHANGED <<tokenVars, storeVars, leaving, out>>,
           AccountsTypeOK'
    PROVE  SInv'
<1> DEFINE p == getSession(t)
           r == [pc |-> "renewing", tab |-> t, with |-> p, by |-> by]
<1>0. p \in Pairs /\ Kept(p)
  BY SessionIsPair DEF SInv
<1> HIDE DEF p
<1>1. \A d \in Calls : call'[d] = IF d = c THEN r ELSE call[d]
  BY DEF SInv, TypeOK, Goes, StartRenewal, p
<1>2. /\ Renewals' = Renewals \cup {c} /\ c \notin Renewals
      /\ Renewals \subseteq Calls
  BY <1>1 DEF Renewals, InRenewal
<1>3. mishaps' = IF Shared(p) THEN mishaps \cup {"renewal"} ELSE mishaps
  BY DEF Mishaps, StartRenewal, p
<1>4. TypeOK'
  <2>1. r \in Call
    BY <1>0 DEF Call
  <2>2. call' \in [Calls -> Call]
    BY <2>1 DEF SInv, TypeOK, Goes, StartRenewal, p
  <2>3. mishaps' \subseteq Mishap
    BY <1>3 DEF SInv, TypeOK, Mishap
  <2> QED BY <2>2, <2>3 DEF SInv, TypeOK, tokenVars, storeVars
<1>5. LogoutInv'
  <2> SUFFICES ASSUME NEW u \in out, getSession(u) # 0 \/ RenewalsOf(u)' # {}
               PROVE  "late" \in mishaps'
    BY DEF LogoutInv, getSession, storeVars
  <2>1. CASE getSession(u) # 0 \/ RenewalsOf(u) # {}
    BY <2>1, <1>3 DEF SInv, LogoutInv
  <2>2. CASE RenewalsOf(u) = {} /\ getSession(u) = 0
    <3>1. PICK d \in Renewals' : call'[d].tab = u
      BY <2>2 DEF RenewalsOf
    <3>2. d \notin RenewalsOf(u)
      BY <2>2
    <3>3. d = c /\ u = t
      BY <3>1, <3>2, <1>1, <1>2 DEF RenewalsOf
    <3> QED BY <3>3, <2>2
  <2> QED BY <2>1, <2>2
<1>6. ASSUME "renewal" \notin mishaps'
      PROVE  RenewalInv'
  <2>1. RenewalInv /\ ~ Shared(p)
    BY <1>3, <1>6 DEF SInv
  <2>2. \A d \in Renewals : call[d].with # p
    BY <2>1 DEF Shared
  <2>3. OnePairEach'
    BY <1>1, <1>2, <2>1, <2>2 DEF RenewalInv, OnePairEach
  <2>4. pair[p] # "none" /\ pair[p] # "used"
    BY <1>0, <2>1, <2>2 DEF RenewalInv, KeptInv, Renewals
  <2>5. Good(p)
    BY <2>4, <1>0 DEF SInv, TypeOK, Good
  <2>6. PlaceInv'
    BY <2>1 DEF RenewalInv, PlaceInv, storeVars
  <2>7. TabInv'
    <3> SUFFICES ASSUME NEW d \in Renewals', NEW u \in Tabs, call'[d].with = own[u]
                 PROVE  call'[d].tab = u
      BY DEF TabInv, storeVars
    <3>1. CASE d = c
      <4>1. p = own[u] /\ own[u] # 0
        BY <3>1, <1>0, <1>1, <1>2, PairsArePositive
      <4>2. local # own[u]
        BY <4>1, <2>1 DEF RenewalInv, PlaceInv
      <4>3. p = own[t]
        BY <4>1, <4>2 DEF p, getSession
      <4>4. u = t
        BY <4>1, <4>3, <2>1 DEF RenewalInv, PlaceInv
      <4> QED BY <4>4, <3>1, <1>1
    <3>2. CASE d # c
      BY <3>2, <1>1, <1>2, <2>1 DEF RenewalInv, TabInv
    <3> QED BY <3>1, <3>2
  <2>8. KeptInv'
    <3> SUFFICES ASSUME NEW q \in Pairs, Kept(q)
                 PROVE  /\ pair[q] # "none"
                        /\ pair[q] = "used" =>
                             \E d \in Calls : call'[d].pc = "renewed" /\ call'[d].with = q
      BY DEF KeptInv, Kept, storeVars, tokenVars
    <3> QED BY <1>1, <2>1 DEF RenewalInv, KeptInv, InRenewal
  <2>9. RenewingInv'
    BY <1>1, <2>1, <2>5 DEF RenewalInv, RenewingInv, Good, tokenVars
  <2>10. RefusedInv'
    BY <1>1, <2>1 DEF RenewalInv, RefusedInv, tokenVars
  <2>11. RenewedInv'
    BY <1>1, <2>1 DEF RenewalInv, RenewedInv, Good, Kept, tokenVars, storeVars
  <2>12. NewInv'
    <3>1. \A d \in Calls : call[d].pc = "renewed" => call[d].new # p
      BY <1>0, <2>1 DEF RenewalInv, RenewedInv
    <3> QED BY <1>1, <2>1, <3>1 DEF RenewalInv, NewInv
  <2> QED
    BY <2>3, <2>6, <2>7, <2>8, <2>9, <2>10, <2>11, <2>12 DEF RenewalInv
<1>7. ASSUME mishaps' = {}
      PROVE  OfSession' /\ OneKind'
  <2>1. OfSession /\ OneKind
    BY <1>3, <1>7 DEF SInv
  <2>2. OneKind'
    BY <2>1 DEF OneKind, storeVars
  <2>3. OfSession'
    <3> SUFFICES ASSUME NEW d \in Renewals'
                 PROVE  call'[d].with = getSession(call'[d].tab)
      BY DEF OfSession, getSession, storeVars
    <3> QED BY <1>1, <1>2, <2>1 DEF OfSession, p
  <2> QED BY <2>2, <2>3
<1>8. NoStrayToken'
  <2>1. \A q : InHand(q) => InHand(q)'
    BY <1>1 DEF InHand, Kept, InRenewal, storeVars
  <2>2. mishaps' = {} => mishaps = {}
    BY <1>3
  <2> QED BY <2>1, <2>2 DEF SInv, NoStrayToken, InHand, Live, Kept, tokenVars
<1> QED BY <1>4, <1>5, <1>6, <1>7, <1>8 DEF SInv

LEMMA CheckStep ==
    ASSUME SInv, NEW c \in Calls, CheckRefresh(c), AccountsTypeOK'
    PROVE  SInv'
<1>1. call[c] \in Call /\ CallOK(call[c]) /\ call[c].pc = "renewing" /\ call[c].with \in Pairs
  BY CallsOK DEF SInv, TypeOK, CheckRefresh, CallOK
<1>2. PICK x \in {"checked", "refused"} :
        /\ call' = [call EXCEPT ![c] = [call[c] EXCEPT !.pc = x]]
        /\ x = "refused" => pair[call[c].with] # "live"
  BY DEF CheckRefresh, Goes
<1>3. [call[c] EXCEPT !.pc = x] \in
        [pc : {"renewing", "checked", "refused"}, tab : Tabs, with : Pairs, by : {"call", "socket"}]
  BY <1>1, CheckedIsCall
<1>4. /\ [call[c] EXCEPT !.pc = x] \in Call
      /\ [call[c] EXCEPT !.pc = x].pc = x
      /\ [call[c] EXCEPT !.pc = x].with = call[c].with
      /\ [call[c] EXCEPT !.pc = x].tab = call[c].tab
  BY <1>1, <1>3 DEF Call, Idle
<1>5. /\ call' \in [Calls -> Call]
      /\ call'[c].pc = x /\ call'[c].with = call[c].with /\ call'[c].tab = call[c].tab
      /\ \A d \in Calls : d # c => call'[d] = call[d]
  BY <1>2, <1>4 DEF SInv, TypeOK
<1>6. Renewals' = Renewals /\ c \in Renewals /\ \A t : RenewalsOf(t)' = RenewalsOf(t)
  BY <1>1, <1>5 DEF Renewals, RenewalsOf
<1>7. TypeOK'
  BY <1>5 DEF SInv, TypeOK, CheckRefresh, tokenVars, storeVars
<1>8. RenewalInv => RenewalInv'
  <2>1. OnePairEach => OnePairEach'
    BY <1>5, <1>6 DEF OnePairEach, Renewals
  <2>2. PlaceInv /\ TabInv => PlaceInv' /\ TabInv'
    BY <1>5, <1>6 DEF PlaceInv, TabInv, Renewals, CheckRefresh, storeVars
  <2>3. KeptInv => KeptInv'
    <3> SUFFICES ASSUME KeptInv, NEW q \in Pairs, Kept(q)
                 PROVE  /\ pair[q] # "none"
                        /\ pair[q] = "used" =>
                             \E d \in Calls : call'[d].pc = "renewed" /\ call'[d].with = q
      BY DEF KeptInv, Kept, storeVars, tokenVars, CheckRefresh
    <3> QED BY <1>1, <1>5 DEF KeptInv
  <2>4. RenewingInv => RenewingInv'
    BY <1>1, <1>5 DEF RenewingInv, Good, tokenVars, CheckRefresh
  <2>5. RenewingInv /\ RefusedInv => RefusedInv'
    BY <1>1, <1>2, <1>5 DEF RenewingInv, RefusedInv, Good, tokenVars, CheckRefresh
  <2>6. RenewedInv => RenewedInv'
    BY <1>1, <1>5 DEF RenewedInv, Good, Kept, tokenVars, storeVars, CheckRefresh
  <2>7. NewInv => NewInv'
    BY <1>1, <1>5 DEF NewInv, InRenewal
  <2> QED BY <2>1, <2>2, <2>3, <2>4, <2>5, <2>6, <2>7 DEF RenewalInv
<1>9. OfSession /\ OneKind => OfSession' /\ OneKind'
  BY <1>5, <1>6 DEF OfSession, OneKind, getSession, Renewals, CheckRefresh, storeVars
<1>10. \A p : InHand(p) => InHand(p)'
  BY <1>1, <1>5 DEF InHand, Kept, CheckRefresh, storeVars
<1>11. LogoutInv'
  BY <1>6 DEF SInv, LogoutInv, getSession, CheckRefresh, storeVars
<1> QED
  BY <1>7, <1>8, <1>9, <1>10, <1>11
  DEF SInv, NoStrayToken, InHand, Live, Kept, CheckRefresh, tokenVars

LEMMA RotateStep ==
    ASSUME SInv, NEW c \in Calls, Rotate(c), AccountsTypeOK'
    PROVE  SInv'
<1>1. /\ CallOK(call[c]) /\ call[c].pc = "checked"
      /\ call[c].with \in Pairs /\ call[c].tab \in Tabs
  BY CallsOK DEF SInv, Rotate, CallOK
<1> DEFINE w == call[c].with
<1>2. PICK n \in New :
        /\ pair' = [pair EXCEPT ![n] = "live",
                                ![call[c].with] = IF @ = "live" THEN "used" ELSE @]
        /\ fresh' = fresh \cup {n}
        /\ Goes(c, [pc |-> "renewed", tab |-> call[c].tab, with |-> call[c].with,
                    new |-> n, by |-> call[c].by])
  BY DEF Rotate
<1>3. n \in Pairs /\ pair[n] = "none"
  BY NewIsNone
<1> DEFINE r == [pc |-> "renewed", tab |-> call[c].tab, with |-> call[c].with,
                 new |-> n, by |-> call[c].by]
<1>4. r \in Call
  BY <1>1, <1>3 DEF Call, CallOK, InRenewal
<1>5. \A d \in Calls : call'[d] = IF d = c THEN r ELSE call[d]
  BY <1>2 DEF SInv, TypeOK, Goes
<1>6. Renewals' = Renewals /\ c \in Renewals /\ \A t : RenewalsOf(t)' = RenewalsOf(t)
  BY <1>1, <1>5 DEF Renewals, RenewalsOf
<1>7. TypeOK'
  <2>1. call' \in [Calls -> Call]
    BY <1>2, <1>4 DEF SInv, TypeOK, Goes
  <2>2. pair' \in [Pairs -> {"none", "live", "used", "revoked", "expired"}]
    BY <1>1, <1>2, <1>3 DEF SInv, TypeOK
  <2>3. fresh' \subseteq Pairs
    BY <1>2, <1>3 DEF SInv, TypeOK
  <2> QED BY <2>1, <2>2, <2>3 DEF SInv, TypeOK, Rotate, storeVars
<1>8. ASSUME RenewalInv
      PROVE  /\ RenewalInv'
             /\ w # n /\ pair'[n] = "live" /\ pair'[w] # "live"
             /\ \A p \in Pairs : p # n /\ p # w => pair'[p] = pair[p]
  <2>1. Good(w) /\ w # n
    BY <1>1, <1>3, <1>8 DEF RenewalInv, RenewingInv, Good
  <2>2. /\ pair'[n] = "live"
        /\ pair'[w] \in {"used", "revoked", "expired"}
        /\ \A p \in Pairs : p # n /\ p # w => pair'[p] = pair[p]
    BY <1>1, <1>2, <1>3, <2>1 DEF SInv, TypeOK, Good
  <2>3. \A d \in Calls : d \in Renewals /\ d # c => call[d].with # w
    BY <1>6, <1>8 DEF RenewalInv, OnePairEach
  <2>4. \A d \in Calls : /\ call[d].pc \in InRenewal => call[d].with \in Pairs
                         /\ call[d].pc = "renewed" => call[d].new \in Pairs
    BY CallsOK DEF SInv
  <2>5. \A d \in Calls : call[d].pc \in InRenewal => call[d].with # n
    BY <1>3, <1>8 DEF RenewalInv, RenewingInv, RefusedInv, RenewedInv, Good, InRenewal
  <2>6. ~ Kept(n)
    BY <1>3, <1>8 DEF RenewalInv, KeptInv
  <2>7. OnePairEach'
    BY <1>5, <1>6, <1>8 DEF RenewalInv, OnePairEach, Renewals
  <2>8. PlaceInv' /\ TabInv'
    BY <1>5, <1>6, <1>8 DEF RenewalInv, PlaceInv, TabInv, Rotate, storeVars, Renewals
  <2>9. KeptInv'
    <3> SUFFICES ASSUME NEW q \in Pairs, Kept(q)
                 PROVE  /\ pair'[q] # "none"
                        /\ pair'[q] = "used" =>
                             \E d \in Calls : call'[d].pc = "renewed" /\ call'[d].with = q
      BY DEF KeptInv, Kept, Rotate, storeVars
    <3>1. CASE q = w
      BY <3>1, <2>2, <1>5
    <3>2. CASE q # w
      <4>1. pair'[q] = pair[q]
        BY <3>2, <2>2, <2>6
      <4>2. pair[q] # "none"
            /\ (pair[q] = "used" => \E d \in Calls : call[d].pc = "renewed" /\ call[d].with = q)
        BY <1>8 DEF RenewalInv, KeptInv
      <4> QED BY <4>1, <4>2, <1>1, <1>5
    <3> QED BY <3>1, <3>2
  <2>10. RenewingInv'
    <3> SUFFICES ASSUME NEW d \in Calls, call'[d].pc \in {"renewing", "checked"}
                 PROVE  pair'[call'[d].with] \in {"live", "revoked", "expired"}
      BY DEF RenewingInv, Good
    <3>1. d # c /\ call'[d] = call[d]
      BY <1>5
    <3>2. Good(call[d].with) /\ call[d].with \in Pairs /\ call[d].with # w
      BY <3>1, <1>8, <2>3, <2>4 DEF RenewalInv, RenewingInv, Renewals, InRenewal
    <3>3. call[d].with # n
      BY <3>1, <2>5 DEF InRenewal
    <3> QED BY <3>1, <3>2, <3>3, <2>2 DEF Good
  <2>11. RefusedInv'
    <3> SUFFICES ASSUME NEW d \in Calls, call'[d].pc = "refused"
                 PROVE  pair'[call'[d].with] \in {"revoked", "expired"}
      BY DEF RefusedInv
    <3>1. d # c /\ call'[d] = call[d]
      BY <1>5
    <3>2. /\ pair[call[d].with] \in {"revoked", "expired"}
          /\ call[d].with \in Pairs /\ call[d].with # w
      BY <3>1, <1>8, <2>3, <2>4 DEF RenewalInv, RefusedInv, Renewals, InRenewal
    <3>3. call[d].with # n
      BY <3>1, <2>5 DEF InRenewal
    <3> QED BY <3>1, <3>2, <3>3, <2>2
  <2>12. RenewedInv'
    <3> SUFFICES ASSUME NEW d \in Calls, call'[d].pc = "renewed"
                 PROVE  /\ pair'[call'[d].new] \in {"live", "revoked", "expired"}
                        /\ pair'[call'[d].with] \in {"used", "revoked", "expired"}
                        /\ call'[d].new # local
                        /\ \A t \in Tabs : own[t] # call'[d].new
      BY DEF RenewedInv, Good, Kept, Rotate, storeVars
    <3>1. CASE d = c
      BY <3>1, <2>6, <1>5, <2>2 DEF Kept
    <3>2. CASE d # c
      <4>1. /\ call[d].pc = "renewed" /\ call'[d] = call[d]
            /\ Good(call[d].new) /\ call[d].new \in Pairs
            /\ pair[call[d].with] \in {"used", "revoked", "expired"}
            /\ call[d].with \in Pairs /\ ~ Kept(call[d].new)
        BY <3>2, <1>5, <1>8, <2>4 DEF RenewalInv, RenewedInv, InRenewal
      <4>2. call[d].with # w /\ call[d].with # n
        BY <4>1, <3>2, <2>3, <2>5 DEF Renewals, InRenewal
      <4>3. call[d].new # w /\ call[d].new # n
        BY <4>1, <1>1, <1>3, <1>8 DEF RenewalInv, NewInv, Good, InRenewal
      <4> QED BY <4>1, <4>2, <4>3, <2>2 DEF Good, Kept
    <3> QED BY <3>1, <3>2
  <2>13. NewInv'
    <3>1. \A d \in Calls : call[d].pc = "renewed" => call[d].new # n
      BY <1>3, <1>8 DEF RenewalInv, RenewedInv, Good
    <3> QED BY <3>1, <2>5, <1>1, <1>5, <1>8 DEF RenewalInv, NewInv, InRenewal
  <2> QED
    BY <2>1, <2>2, <2>7, <2>8, <2>9, <2>10, <2>11, <2>12, <2>13 DEF RenewalInv
<1>9. OfSession /\ OneKind => OfSession' /\ OneKind'
  BY <1>5, <1>6 DEF OfSession, OneKind, getSession, Rotate, Renewals, storeVars
<1>10. ASSUME mishaps = {}, NEW p \in Pairs, pair'[p] = "live"
       PROVE  \/ Kept(p)' \/ p \in leaving'
              \/ \E d \in Calls : call'[d].pc = "renewed" /\ call'[d].new = p
  <2>1. CASE p = n
    BY <2>1, <1>5
  <2>2. CASE p # n
    <3>1. pair[p] = "live"
      BY <2>2, <1>8, <1>10 DEF SInv
    <3>2. InHand(p)
      BY <3>1, <1>10, StrayByHand DEF SInv, Live
    <3> QED BY <3>2, <1>1, <1>5 DEF InHand, Kept, Rotate, storeVars
  <2> QED BY <2>1, <2>2
<1>11. LogoutInv'
  BY <1>6 DEF SInv, LogoutInv, getSession, Rotate, storeVars
<1>12. NoStrayToken'
  BY <1>10 DEF NoStrayToken, Live, Rotate
<1> QED BY <1>7, <1>8, <1>9, <1>11, <1>12 DEF SInv, Rotate

(* With nothing wrong, the tab of a renewal has no other pair than the one *)
(* that is renewed.                                                        *)
LEMMA OnlyRenewed ==
    ASSUME SInv, mishaps = {}, NEW c \in Renewals
    PROVE  /\ call[c].tab \in Tabs /\ call[c].with = getSession(call[c].tab)
           /\ local \in {0, call[c].with} /\ own[call[c].tab] \in {0, call[c].with}
           /\ \A d \in Renewals : d # c =>
                 call[d].tab \in Tabs /\ call[d].tab # call[c].tab /\ local = 0
<1>1. OfSession /\ OneKind /\ OnePairEach
  BY DEF SInv, RenewalInv
<1>2. \A d \in Renewals : call[d].tab \in Tabs
  BY CallsOK, RenewalCalls DEF SInv
<1> QED BY <1>1, <1>2 DEF OfSession, OneKind, OnePairEach, getSession

(* A pair is stored that was in no store, where a session of the tab is or *)
(* in the tab; the tab loses what it had.                                  *)
LEMMA TakeStep ==
    ASSUME SInv, NEW c \in Calls, TakeRenewed(c), AccountsTypeOK'
    PROVE  SInv'
<1> DEFINE t == call[c].tab
           n == call[c].new
           w == call[c].with
<1>1. /\ call[c].pc = "renewed" /\ c \in Renewals
      /\ t \in Tabs /\ n \in Pairs /\ w \in Pairs /\ n # 0
  BY CallsOK, PairsArePositive DEF SInv, TakeRenewed, CallOK, Renewals
<1>2. /\ \A d \in Calls : call'[d] = IF d = c THEN Idle ELSE call[d]
      /\ call' \in [Calls -> Call]
  BY IdleIsCall DEF SInv, TypeOK, TakeRenewed, Goes
<1>3. Renewals' = Renewals \ {c} /\ Renewals \subseteq Calls
  BY <1>2, IdleIsCall DEF Renewals
<1>4. /\ local' = IF local # 0 THEN n ELSE 0
      /\ own' = [own EXCEPT ![t] = IF local # 0 THEN 0 ELSE n]
      /\ UNCHANGED <<pair, fresh, leaving, out, mishaps>>
  BY DEF TakeRenewed, saveSession, tokenVars
<1>5. /\ own'[t] = IF local # 0 THEN 0 ELSE n
      /\ \A u \in Tabs : u # t => own'[u] = own[u]
  BY <1>1, <1>4 DEF SInv, TypeOK
<1>6. TypeOK'
  BY <1>1, <1>2, <1>4 DEF SInv, TypeOK
<1>7. LogoutInv'
  <2> SUFFICES ASSUME NEW u \in out, "late" \notin mishaps,
                      getSession(u)' # 0 \/ RenewalsOf(u)' # {}
               PROVE  FALSE
    BY <1>4 DEF LogoutInv
  <2>1. u \in Tabs /\ getSession(u) = 0 /\ RenewalsOf(u) = {}
    BY DEF SInv, LogoutInv, TypeOK
  <2>2. u # t
    BY <2>1, <1>1 DEF RenewalsOf
  <2>3. local = 0 /\ own[u] = 0
    BY <2>1 DEF getSession
  <2>4. getSession(u)' = 0
    BY <2>1, <2>2, <2>3, <1>4, <1>5 DEF getSession
  <2>5. RenewalsOf(u)' = {}
    BY <2>1, <1>2, <1>3 DEF RenewalsOf
  <2> QED BY <2>4, <2>5
<1>8. RenewalInv => RenewalInv'
  <2> SUFFICES ASSUME RenewalInv
               PROVE  RenewalInv'
    OBVIOUS
  <2>1. \A p \in Pairs : Kept(p)' => p = n \/ (Kept(p) /\ p # w)
    <3> SUFFICES ASSUME NEW p \in Pairs, Kept(p)', p # n
                 PROVE  Kept(p) /\ p # w
      OBVIOUS
    <3>1. p # 0
      BY PairsArePositive
    <3>2. PICK u \in Tabs : u # t /\ own[u] = p
      BY <3>1, <1>4, <1>5 DEF Kept
    <3>3. p # w
      BY <3>2, <1>1 DEF RenewalInv, TabInv
    <3> QED BY <3>2, <3>3 DEF Kept
  <2>2. OnePairEach'
    BY <1>2, <1>3 DEF RenewalInv, OnePairEach
  <2>3. \A u \in Tabs : own[u] # n
    BY <1>1 DEF RenewalInv, RenewedInv, Kept
  <2>4. PlaceInv'
    BY <2>3, <1>1, <1>4, <1>5 DEF RenewalInv, PlaceInv
  <2>5. TabInv'
    <3> SUFFICES ASSUME NEW d \in Renewals, d # c, NEW u \in Tabs, call[d].with = own'[u]
                 PROVE  call[d].tab = u
      BY <1>2, <1>3 DEF TabInv
    <3>1. call[d].with # n /\ call[d].with # 0
      BY <1>1, <1>3, CallsOK, RenewalCalls, PairsArePositive DEF SInv, RenewalInv, NewInv
    <3>2. own'[u] = own[u]
      BY <3>1, <1>5
    <3> QED BY <3>2 DEF RenewalInv, TabInv
  <2>6. KeptInv'
    <3> SUFFICES ASSUME NEW p \in Pairs, Kept(p)'
                 PROVE  /\ pair[p] # "none"
                        /\ pair[p] = "used" =>
                             \E d \in Calls : call'[d].pc = "renewed" /\ call'[d].with = p
      BY <1>4 DEF KeptInv
    <3>1. CASE p = n
      BY <3>1, <1>1 DEF RenewalInv, RenewedInv, Good
    <3>2. CASE Kept(p) /\ p # w
      BY <3>2, <1>2 DEF RenewalInv, KeptInv
    <3> QED BY <3>1, <3>2, <2>1
  <2>7. RenewingInv'
    BY <1>2, <1>4, IdleIsCall DEF RenewalInv, RenewingInv, Good
  <2>8. RefusedInv'
    BY <1>2, <1>4, IdleIsCall DEF RenewalInv, RefusedInv
  <2>9. RenewedInv'
    <3> SUFFICES ASSUME NEW d \in Calls, d # c, call[d].pc = "renewed"
                 PROVE  /\ Good(call[d].new)
                        /\ pair[call[d].with] \in {"used", "revoked", "expired"}
                        /\ call[d].new # local' /\ \A u \in Tabs : own'[u] # call[d].new
      BY <1>2, <1>4, IdleIsCall DEF RenewedInv, Good, Kept
    <3>1. /\ Good(call[d].new) /\ ~ Kept(call[d].new)
          /\ pair[call[d].with] \in {"used", "revoked", "expired"}
      BY DEF RenewalInv, RenewedInv
    <3>2. call[d].new # n /\ call[d].new # 0 /\ call[d].new \in Pairs
      BY <1>1, CallsOK, PairsArePositive DEF SInv, RenewalInv, NewInv
    <3> QED BY <3>1, <3>2, <1>4, <1>5 DEF Kept
  <2>10. NewInv'
    BY <1>2, IdleIsCall DEF RenewalInv, NewInv
  <2> QED BY <2>2, <2>4, <2>5, <2>6, <2>7, <2>8, <2>9, <2>10 DEF RenewalInv
<1>9. ASSUME mishaps = {}
      PROVE  OfSession' /\ OneKind'
  <2>1. OfSession /\ OneKind
    BY <1>9 DEF SInv
  <2>2. OneKind'
    BY <2>1, <1>1, <1>4, <1>5 DEF OneKind
  <2>3. OfSession'
    <3> SUFFICES ASSUME NEW d \in Renewals, d # c
                 PROVE  call[d].with = getSession(call[d].tab)'
      BY <1>2, <1>3 DEF OfSession, getSession
    <3>1. call[d].tab \in Tabs /\ call[d].tab # t /\ local = 0
      BY <1>1, <1>9, OnlyRenewed
    <3>2. call'[d].tab = call[d].tab
      BY <1>2, <1>3
    <3> QED BY <3>1, <3>2, <2>1, <1>4, <1>5 DEF OfSession, getSession
  <2> QED BY <2>2, <2>3
<1>10. NoStrayToken'
  <2> SUFFICES ASSUME mishaps = {}, NEW p \in Pairs, pair[p] = "live", p \notin leaving
               PROVE  \/ p = local' \/ \E u \in Tabs : own'[u] = p
                      \/ \E d \in Calls : call'[d].pc = "renewed" /\ call'[d].new = p
    BY <1>4 DEF NoStrayToken, Live, Kept
  <2>1. /\ w = getSession(t) /\ local \in {0, w} /\ own[t] \in {0, w}
        /\ pair[w] # "live"
    BY <1>1, OnlyRenewed DEF SInv, RenewalInv, RenewedInv
  <2>2. CASE p = n
    BY <2>2, <1>1, <1>4, <1>5
  <2>3. CASE p # n
    <3>1. InHand(p)
      BY StrayByHand DEF SInv, Live
    <3>2. CASE Kept(p)
      <4>1. PICK u \in Tabs : own[u] = p /\ u # t
        BY <3>2, <2>1, PairsArePositive DEF Kept
      <4> QED BY <4>1, <1>5
    <3>3. CASE ~ Kept(p)
      <4>1. PICK d \in Calls : call[d].pc = "renewed" /\ call[d].new = p
        BY <3>1, <3>3 DEF InHand
      <4> QED BY <4>1, <2>3, <1>2
    <3> QED BY <3>2, <3>3
  <2> QED BY <2>2, <2>3
<1> QED BY <1>4, <1>6, <1>7, <1>8, <1>9, <1>10 DEF SInv

LEMMA RefusalStep ==
    ASSUME SInv, NEW c \in Calls, TakeRefusal(c), AccountsTypeOK'
    PROVE  SInv'
<1> DEFINE t == call[c].tab
           w == call[c].with
<1>1. call[c].pc = "refused" /\ c \in Renewals /\ t \in Tabs /\ w \in Pairs
  BY CallsOK DEF SInv, TakeRefusal, CallOK, Renewals
<1>2. /\ \A d \in Calls : call'[d] = IF d = c THEN Idle ELSE call[d]
      /\ call' \in [Calls -> Call]
  BY IdleIsCall DEF SInv, TypeOK, TakeRefusal, GiveUp, Goes
<1>3. Renewals' = Renewals \ {c} /\ Renewals \subseteq Calls
  BY <1>2, IdleIsCall DEF Renewals
<1>4. /\ \/ UNCHANGED <<local, own>>
         \/ local' = 0 /\ own' = [own EXCEPT ![t] = 0]
      /\ UNCHANGED <<pair, fresh, leaving, out, mishaps>>
  BY DEF TakeRefusal, GiveUp, clearSession, tokenVars, storeVars
<1>5. /\ local' \in {0, local}
      /\ \A u \in Tabs : own'[u] \in {0, own[u]} /\ (u # t => own'[u] = own[u])
  BY <1>1, <1>4 DEF SInv, TypeOK
<1>6. TypeOK'
  BY <1>1, <1>2, <1>4 DEF SInv, TypeOK
<1>7. LogoutInv'
  <2> SUFFICES ASSUME NEW u \in out, "late" \notin mishaps
               PROVE  getSession(u)' = 0 /\ RenewalsOf(u)' = {}
    BY <1>4 DEF LogoutInv
  <2>1. u \in Tabs /\ getSession(u) = 0 /\ RenewalsOf(u) = {}
    BY DEF SInv, LogoutInv, TypeOK
  <2> QED BY <2>1, <1>2, <1>3, <1>5 DEF getSession, RenewalsOf
<1>8. RenewalInv => RenewalInv'
  BY <1>1, <1>2, <1>4, <1>5, LessKept, IdleIsCall DEF SInv
<1>9. ASSUME mishaps = {}
      PROVE  OfSession' /\ OneKind'
  <2>1. OfSession /\ OneKind
    BY <1>9 DEF SInv
  <2>2. OneKind'
    BY <2>1, <1>5 DEF OneKind
  <2>3. OfSession'
    <3> SUFFICES ASSUME NEW d \in Renewals, d # c
                 PROVE  call[d].with = getSession(call[d].tab)'
      BY <1>2, <1>3 DEF OfSession, getSession
    <3>1. call[d].tab \in Tabs /\ call[d].tab # t /\ local = 0
      BY <1>1, <1>9, OnlyRenewed
    <3>2. call'[d].tab = call[d].tab
      BY <1>2, <1>3
    <3> QED BY <3>1, <3>2, <2>1, <1>5 DEF OfSession, getSession
  <2> QED BY <2>2, <2>3
<1>10. NoStrayToken'
  <2> SUFFICES ASSUME mishaps = {}, NEW p \in Pairs, pair[p] = "live", p \notin leaving
               PROVE  \/ p = local' \/ \E u \in Tabs : own'[u] = p
                      \/ \E d \in Calls : call'[d].pc = "renewed" /\ call'[d].new = p
    BY <1>4 DEF NoStrayToken, Live, Kept
  <2>1. local \in {0, w} /\ own[t] \in {0, w} /\ pair[w] # "live"
    BY <1>1, OnlyRenewed DEF SInv, RenewalInv, RefusedInv
  <2>2. InHand(p)
    BY StrayByHand DEF SInv, Live
  <2>3. CASE Kept(p)
    <3>1. PICK u \in Tabs : own[u] = p /\ u # t
      BY <2>3, <2>1, PairsArePositive DEF Kept
    <3> QED BY <3>1, <1>5
  <2>4. CASE ~ Kept(p)
    <3>1. PICK d \in Calls : call[d].pc = "renewed" /\ call[d].new = p
      BY <2>2, <2>4 DEF InHand
    <3> QED BY <3>1, <1>1, <1>2
  <2> QED BY <2>3, <2>4
<1> QED BY <1>4, <1>6, <1>7, <1>8, <1>9, <1>10 DEF SInv

-----------------------------------------------------------------------------
(* In and out.                                                             *)

LEMMA LoginStep ==
    ASSUME SInv, NEW t \in Tabs, NEW remember \in BOOLEAN, Login(t, remember), AccountsTypeOK'
    PROVE  SInv'
<1>1. PICK n \in New : /\ pair' = [pair EXCEPT ![n] = "live"]
                       /\ fresh' = fresh \cup {n}
                       /\ saveSession(t, n, remember)
  BY DEF Login
<1>2. n \in Pairs /\ pair[n] = "none" /\ n # 0
  BY NewIsNone, PairsArePositive
<1>3. /\ UNCHANGED <<call, leaving>>
      /\ out' = IF remember THEN {} ELSE out \ {t}
      /\ mishaps' = mishaps \cup
            (IF getSession(t) # 0 \/ (remember /\ \E u \in Tabs : own[u] # 0)
               THEN {"relogin"} ELSE {})
  BY DEF Login, Mishaps
<1>4. /\ local' = IF remember THEN n ELSE 0
      /\ own' = [own EXCEPT ![t] = IF remember THEN 0 ELSE n]
      /\ own'[t] = IF remember THEN 0 ELSE n
      /\ \A u \in Tabs : u # t => own'[u] = own[u]
  BY <1>1 DEF saveSession, SInv, TypeOK
<1>5. TypeOK'
  <2>1. mishaps' \subseteq Mishap
    BY <1>3 DEF SInv, TypeOK, Mishap
  <2>2. local' \in {0} \cup Pairs /\ own' \in [Tabs -> {0} \cup Pairs]
    BY <1>2, <1>4 DEF SInv, TypeOK
  <2> QED BY <1>1, <1>2, <1>3, <2>1, <2>2 DEF SInv, TypeOK
<1>6. pair'[n] = "live" /\ \A p \in Pairs : p # n => pair'[p] = pair[p]
  BY <1>1, <1>2 DEF SInv, TypeOK
<1>7. LogoutInv'
  <2> SUFFICES ASSUME NEW u \in out, u # t, ~ remember, "late" \notin mishaps
               PROVE  getSession(u)' = 0 /\ RenewalsOf(u)' = {}
    BY <1>3 DEF LogoutInv
  <2>1. u \in Tabs /\ getSession(u) = 0 /\ RenewalsOf(u) = {}
    BY DEF SInv, LogoutInv, TypeOK
  <2> QED BY <2>1, <1>3, <1>4 DEF getSession, RenewalsOf, Renewals
<1>8. RenewalInv => RenewalInv'
  <2> SUFFICES ASSUME RenewalInv
               PROVE  RenewalInv'
    OBVIOUS
  <2>1. \A d \in Calls : /\ call[d].pc \in InRenewal => call[d].with \in Pairs
                         /\ call[d].pc = "renewed" => call[d].new \in Pairs
    BY CallsOK DEF SInv
  <2>2. /\ \A d \in Calls : call[d].pc \in InRenewal => call[d].with # n
        /\ \A d \in Calls : call[d].pc = "renewed" => call[d].new # n
        /\ ~ Kept(n)
    BY <1>2 DEF RenewalInv, RenewingInv, RefusedInv, RenewedInv, KeptInv, Good, InRenewal
  <2>3. \A p \in Pairs : Kept(p)' => p = n \/ Kept(p)
    BY <1>4, PairsArePositive DEF Kept
  <2>4. OnePairEach' /\ NewInv'
    BY <1>3 DEF RenewalInv, OnePairEach, NewInv, Renewals
  <2>5. PlaceInv'
    BY <2>2, <1>2, <1>4 DEF RenewalInv, PlaceInv, Kept
  <2>6. TabInv'
    <3> SUFFICES ASSUME NEW d \in Renewals, NEW u \in Tabs, call[d].with = own'[u]
                 PROVE  call[d].tab = u
      BY <1>3 DEF TabInv, Renewals
    <3>1. call[d].with # n /\ call[d].with # 0
      BY <2>1, <2>2, RenewalCalls, PairsArePositive
    <3>2. own'[u] = own[u]
      BY <3>1, <1>4
    <3> QED BY <3>2 DEF RenewalInv, TabInv
  <2>7. KeptInv'
    <3> SUFFICES ASSUME NEW p \in Pairs, Kept(p)'
                 PROVE  /\ pair'[p] # "none"
                        /\ pair'[p] = "used" =>
                             \E d \in Calls : call[d].pc = "renewed" /\ call[d].with = p
      BY <1>3 DEF KeptInv
    <3>1. CASE p = n
      BY <3>1, <1>6
    <3>2. CASE p # n
      BY <3>2, <2>3, <1>6 DEF RenewalInv, KeptInv
    <3> QED BY <3>1, <3>2
  <2>8. RenewingInv'
    BY <1>3, <1>6, <2>1, <2>2 DEF RenewalInv, RenewingInv, Good, InRenewal
  <2>9. RefusedInv'
    BY <1>3, <1>6, <2>1, <2>2 DEF RenewalInv, RefusedInv, InRenewal
  <2>10. RenewedInv'
    <3> SUFFICES ASSUME NEW d \in Calls, call[d].pc = "renewed"
                 PROVE  /\ pair'[call[d].new] \in {"live", "revoked", "expired"}
                        /\ pair'[call[d].with] \in {"used", "revoked", "expired"}
                        /\ call[d].new # local' /\ \A u \in Tabs : own'[u] # call[d].new
      BY <1>3 DEF RenewedInv, Good, Kept
    <3>1. /\ call[d].new \in Pairs /\ call[d].with \in Pairs
          /\ call[d].new # n /\ call[d].with # n /\ call[d].new # 0
      BY <2>1, <2>2, PairsArePositive DEF InRenewal
    <3>2. /\ Good(call[d].new) /\ ~ Kept(call[d].new)
          /\ pair[call[d].with] \in {"used", "revoked", "expired"}
      BY DEF RenewalInv, RenewedInv
    <3> QED BY <3>1, <3>2, <1>4, <1>6 DEF Good, Kept
  <2> QED BY <2>4, <2>5, <2>6, <2>7, <2>8, <2>9, <2>10 DEF RenewalInv
<1>9. ASSUME mishaps' = {}
      PROVE  /\ mishaps = {} /\ local = 0 /\ own[t] = 0
             /\ remember => \A u \in Tabs : own[u] = 0
  BY <1>3, <1>9 DEF getSession
<1>10. ASSUME mishaps' = {}
       PROVE  OfSession' /\ OneKind'
  <2>1. OfSession /\ OneKind
    BY <1>9, <1>10 DEF SInv
  <2>2. OneKind'
    BY <1>4, <1>9, <1>10 DEF OneKind
  <2>3. OfSession'
    <3> SUFFICES ASSUME NEW d \in Renewals
                 PROVE  call[d].with = getSession(call[d].tab)'
      BY <1>3 DEF OfSession, Renewals, getSession
    <3>1. call[d].with \in Pairs /\ call[d].tab \in Tabs
      BY CallsOK, RenewalCalls DEF SInv
    <3>2. own[call[d].tab] = call[d].with
      BY <3>1, <2>1, <1>9, <1>10 DEF OfSession, getSession
    <3>3. call[d].tab # t /\ ~ remember
      BY <3>1, <3>2, <1>9, <1>10, PairsArePositive
    <3>4. call'[d] = call[d]
      BY <1>3
    <3> QED BY <3>1, <3>2, <3>3, <3>4, <1>4 DEF getSession
  <2> QED BY <2>2, <2>3
<1>11. NoStrayToken'
  <2> SUFFICES ASSUME mishaps' = {}, NEW p \in Pairs, pair'[p] = "live", p \notin leaving
               PROVE  \/ p = local' \/ \E u \in Tabs : own'[u] = p
                      \/ \E d \in Calls : call[d].pc = "renewed" /\ call[d].new = p
    BY <1>3 DEF NoStrayToken, Live, Kept
  <2>1. CASE p = n
    BY <2>1, <1>4
  <2>2. CASE p # n
    <3>1. InHand(p) /\ p # 0
      BY <2>2, <1>6, <1>9, StrayByHand, PairsArePositive DEF SInv, Live
    <3> QED BY <3>1, <1>4, <1>9 DEF InHand, Kept
  <2> QED BY <2>1, <2>2
<1>12. "renewal" \notin mishaps' => "renewal" \notin mishaps
  BY <1>3
<1> QED BY <1>5, <1>7, <1>8, <1>10, <1>11, <1>12 DEF SInv

LEMMA LogoutStep ==
    ASSUME SInv, NEW t \in Tabs, Logout(t), AccountsTypeOK'
    PROVE  SInv'
<1> DEFINE p == getSession(t)
<1>1. /\ p \in Pairs /\ leaving' = leaving \cup {p}
      /\ local' = 0 /\ own' = [own EXCEPT ![t] = 0]
      /\ out' = {u \in Tabs : u = t \/ own[u] = 0}
      /\ mishaps' = mishaps \cup
            (IF \E u \in out' : RenewalsOf(u) # {} THEN {"late"} ELSE {})
      /\ UNCHANGED <<pair, fresh, call>>
  BY SessionIsPair DEF Logout, Mishaps, tokenVars, clearSession, SInv
<1>2. own'[t] = 0 /\ \A u \in Tabs : u # t => own'[u] = own[u]
  BY <1>1 DEF SInv, TypeOK
<1>3. TypeOK'
  <2>1. mishaps' \subseteq Mishap
    BY <1>1 DEF SInv, TypeOK, Mishap
  <2>2. own' \in [Tabs -> {0} \cup Pairs] /\ out' \subseteq Tabs
    BY <1>1 DEF SInv, TypeOK
  <2> QED BY <1>1, <2>1, <2>2 DEF SInv, TypeOK
<1>4. Renewals' = Renewals /\ \A u : RenewalsOf(u)' = RenewalsOf(u)
  BY <1>1 DEF Renewals, RenewalsOf
<1>5. LogoutInv'
  <2> SUFFICES ASSUME NEW u \in out', "late" \notin mishaps'
               PROVE  getSession(u)' = 0 /\ RenewalsOf(u) = {}
    BY <1>4 DEF LogoutInv
  <2> QED BY <1>1, <1>2 DEF getSession
<1>6. RenewalInv => RenewalInv'
  BY <1>1, <1>2, LessKept DEF SInv
<1>7. ASSUME mishaps' = {}
      PROVE  OfSession' /\ OneKind'
  <2>1. OfSession /\ OneKind
    BY <1>1, <1>7 DEF SInv
  <2>2. OneKind'
    BY <1>1 DEF OneKind
  <2>3. OfSession'
    <3> SUFFICES ASSUME NEW d \in Renewals
                 PROVE  call[d].with = getSession(call[d].tab)'
      BY <1>1, <1>4 DEF OfSession, getSession
    <3>1. call[d].tab \in Tabs /\ d \in RenewalsOf(call[d].tab)
      BY CallsOK, RenewalCalls DEF SInv, RenewalsOf
    <3>2. call[d].tab \notin out'
      BY <3>1, <1>1, <1>7
    <3>3. call[d].tab # t /\ own[call[d].tab] # 0
      BY <3>1, <3>2, <1>1
    <3>4. local = 0 /\ call'[d] = call[d]
      BY <3>1, <3>3, <2>1, <1>1 DEF OneKind
    <3> QED BY <3>1, <3>3, <3>4, <2>1, <1>1, <1>2 DEF OfSession, getSession
  <2> QED BY <2>2, <2>3
<1>8. NoStrayToken'
  <2> SUFFICES ASSUME mishaps' = {}, NEW q \in Pairs, pair[q] = "live", q \notin leaving, q # p
               PROVE  \/ \E u \in Tabs : own'[u] = q
                      \/ \E d \in Calls : call[d].pc = "renewed" /\ call[d].new = q
    BY <1>1 DEF NoStrayToken, Live, Kept
  <2>1. mishaps = {}
    BY <1>1
  <2>2. InHand(q) /\ OneKind /\ q # 0
    BY <2>1, StrayByHand, PairsArePositive DEF SInv, Live
  <2>3. q # local /\ q # own[t]
    BY <2>2 DEF OneKind, getSession
  <2> QED BY <2>2, <2>3, <1>2 DEF InHand, Kept
<1> QED BY <1>1, <1>3, <1>5, <1>6, <1>7, <1>8 DEF SInv

LEMMA CloseStep ==
    ASSUME SInv, NEW t \in Tabs, CloseTab(t), AccountsTypeOK'
    PROVE  SInv'
<1>1. /\ own' = [own EXCEPT ![t] = 0]
      /\ UNCHANGED <<pair, fresh, local, leaving, out>>
      /\ mishaps' = mishaps \cup (IF own[t] # 0 THEN {"closed"} ELSE {})
                            \cup (IF RenewalsOf(t) # {} THEN {"renewal"} ELSE {})
      /\ mishaps' \subseteq Mishap
  BY DEF CloseTab, Mishaps, tokenVars, SInv, TypeOK, Mishap
<1>2. \A d \in Calls : \/ call'[d] = call[d]
                       \/ call'[d] = Idle /\ call[d] # Idle /\ call[d].tab = t
  BY DEF CloseTab
<1>3. call' \in [Calls -> Call] /\ own' \in [Tabs -> {0} \cup Pairs]
  BY <1>1, IdleIsCall DEF CloseTab, SInv, TypeOK
<1>4. own'[t] = 0 /\ \A u \in Tabs : u # t => own'[u] = own[u]
  BY <1>1 DEF SInv, TypeOK
<1>5. CASE RenewalsOf(t) # {}
  <2>1. PICK S \in SUBSET Mishap :
          S = (IF own[t] # 0 THEN {"closed"} ELSE {}) \cup {"renewal"}
    BY DEF Mishap
  <2>2. Mishaps(S) /\ "renewal" \in S
    BY <2>1, <1>1, <1>5 DEF Mishaps
  <2> QED BY <2>2, <1>1, <1>2, <1>3, <1>4, LostRenewalStep DEF tokenVars
<1>6. CASE RenewalsOf(t) = {}
  <2>1. \A d \in Calls : call'[d] = call[d] \/ (call'[d] = Idle /\ call[d].pc \notin InRenewal)
    BY <1>2, <1>6 DEF RenewalsOf, Renewals, InRenewal
  <2>2. /\ Renewals' = Renewals
        /\ \A d \in Renewals : call'[d] = call[d]
        /\ \A u : RenewalsOf(u)' = RenewalsOf(u)
    BY <2>1, IdleIsCall DEF Renewals, InRenewal, RenewalsOf
  <2>3. TypeOK'
    BY <1>1, <1>3 DEF SInv, TypeOK
  <2>4. LogoutInv'
    <3> SUFFICES ASSUME NEW u \in out, "late" \notin mishaps
                 PROVE  getSession(u)' = 0 /\ RenewalsOf(u) = {}
      BY <1>1, <2>2 DEF LogoutInv
    <3>1. u \in Tabs /\ getSession(u) = 0 /\ RenewalsOf(u) = {}
      BY DEF SInv, LogoutInv, TypeOK
    <3> QED BY <3>1, <1>1, <1>4 DEF getSession
  <2>5. RenewalInv => RenewalInv'
    BY <1>1, <1>4, <2>1, IdleIsCall, LessKept DEF SInv, InRenewal
  <2>6. mishaps' = {} => mishaps = {} /\ own[t] = 0
    BY <1>1
  <2>7. mishaps' = {} => \A u \in Tabs : own'[u] = own[u]
    BY <2>6, <1>4
  <2>8. ASSUME mishaps' = {}
        PROVE  OfSession' /\ OneKind'
    <3>1. OfSession /\ OneKind
      BY <2>6, <2>8 DEF SInv
    <3>2. OneKind'
      BY <3>1, <2>7, <2>8, <1>1 DEF OneKind
    <3>3. \A d \in Renewals : call[d].tab \in Tabs
      BY CallsOK, RenewalCalls DEF SInv
    <3>4. OfSession'
      BY <3>1, <3>3, <2>2, <2>7, <2>8, <1>1 DEF OfSession, getSession
    <3> QED BY <3>2, <3>4
  <2>9. NoStrayToken'
    <3> SUFFICES ASSUME mishaps' = {}, NEW p \in Pairs, pair[p] = "live", p \notin leaving
                 PROVE  \/ p = local \/ \E u \in Tabs : own'[u] = p
                        \/ \E d \in Calls : call'[d].pc = "renewed" /\ call'[d].new = p
      BY <1>1 DEF NoStrayToken, Live, Kept
    <3>1. InHand(p)
      BY <2>6, StrayByHand DEF SInv, Live
    <3> QED BY <3>1, <2>1, <2>7 DEF InHand, Kept, InRenewal
  <2> QED BY <1>1, <2>3, <2>4, <2>5, <2>8, <2>9 DEF SInv
<1> QED BY <1>5, <1>6

(* Neither the pairs nor the calls nor what is stored change.              *)
LEMMA FrameStep ==
    ASSUME SInv, AccountsTypeOK', fresh' \subseteq Pairs,
           UNCHANGED <<pair, local, own, call, out>>,
           mishaps' \in {mishaps, mishaps \cup {"unheard"}},
           leaving' \subseteq leaving,
           \A p \in leaving \ leaving' : mishaps' # {} \/ p \notin Live
    PROVE  SInv'
<1>1. TypeOK'
  <2>1. mishaps' \subseteq Mishap /\ leaving' \subseteq Pairs
    BY DEF SInv, TypeOK, Mishap
  <2> QED BY <2>1 DEF SInv, TypeOK
<1>2. /\ "renewal" \notin mishaps' => "renewal" \notin mishaps
      /\ mishaps' = {} => mishaps = {}
      /\ "late" \in mishaps => "late" \in mishaps'
  OBVIOUS
<1>3. /\ Renewals' = Renewals /\ Live' = Live
      /\ \A t : getSession(t)' = getSession(t) /\ RenewalsOf(t)' = RenewalsOf(t)
  BY DEF Renewals, Live, getSession, RenewalsOf
<1>4. LogoutInv'
  BY <1>2, <1>3 DEF SInv, LogoutInv
<1>5. RenewalInv => RenewalInv'
  BY LessKept DEF SInv
<1>6. OfSession /\ OneKind => OfSession' /\ OneKind'
  BY <1>3 DEF OfSession, OneKind, getSession
<1>7. NoStrayToken'
  BY <1>2, <1>3 DEF SInv, NoStrayToken, Kept
<1> QED BY <1>1, <1>2, <1>4, <1>5, <1>6, <1>7 DEF SInv

(* A refresh token that was good is revoked or expires.                    *)
LEMMA DeadStep ==
    ASSUME SInv, AccountsTypeOK',
           NEW p \in Pairs, pair[p] = "live", NEW x \in {"revoked", "expired"},
           pair' = [pair EXCEPT ![p] = x],
           UNCHANGED <<fresh, local, own, call, out, mishaps>>,
           leaving' \in {leaving, leaving \ {p}}
    PROVE  SInv'
<1>1. TypeOK'
  BY DEF SInv, TypeOK
<1>2. \A q \in Pairs : pair'[q] = IF q = p THEN x ELSE pair[q]
  BY DEF SInv, TypeOK
<1>3. /\ Renewals' = Renewals
      /\ \A t : getSession(t)' = getSession(t) /\ RenewalsOf(t)' = RenewalsOf(t)
      /\ \A q : Kept(q)' <=> Kept(q)
  BY DEF Renewals, getSession, RenewalsOf, Kept
<1>4. LogoutInv'
  BY <1>3 DEF SInv, LogoutInv
<1>5. RenewalInv => RenewalInv'
  <2> SUFFICES ASSUME RenewalInv
               PROVE  RenewalInv'
    OBVIOUS
  <2>1. \A d \in Calls : /\ call[d].pc \in InRenewal => call[d].with \in Pairs
                         /\ call[d].pc = "renewed" => call[d].new \in Pairs
    BY CallsOK DEF SInv
  <2>2. OnePairEach' /\ NewInv' /\ PlaceInv' /\ TabInv'
    BY <1>3 DEF RenewalInv, OnePairEach, NewInv, PlaceInv, TabInv
  <2>3. KeptInv'
    BY <1>2, <1>3 DEF RenewalInv, KeptInv
  <2>4. RenewingInv'
    BY <1>2, <2>1 DEF RenewalInv, RenewingInv, Good, InRenewal
  <2>5. RefusedInv'
    BY <1>2, <2>1 DEF RenewalInv, RefusedInv, InRenewal
  <2>6. RenewedInv'
    BY <1>2, <2>1 DEF RenewalInv, RenewedInv, Good, InRenewal, Kept
  <2> QED BY <2>2, <2>3, <2>4, <2>5, <2>6 DEF RenewalInv
<1>6. OfSession /\ OneKind => OfSession' /\ OneKind'
  BY <1>3 DEF OfSession, OneKind, getSession
<1>7. NoStrayToken'
  <2> SUFFICES ASSUME mishaps = {}, NEW q \in Pairs, pair'[q] = "live",
                      ~ Kept(q), q \notin leaving'
               PROVE  \E d \in Calls : call[d].pc = "renewed" /\ call[d].new = q
    BY <1>3 DEF NoStrayToken, Live
  <2>1. q \in Live /\ q \notin leaving
    BY <1>2 DEF Live
  <2> QED BY <2>1 DEF SInv, NoStrayToken
<1> QED BY <1>1, <1>4, <1>5, <1>6, <1>7 DEF SInv

LEMMA LogoutServedStep ==
    ASSUME SInv, NEW p \in Pairs, LogoutServed(p), AccountsTypeOK'
    PROVE  SInv'
<1>1. /\ leaving' = leaving \ {p}
      /\ UNCHANGED <<fresh, local, own, call, out>> /\ fresh \subseteq Pairs
  BY DEF SInv, TypeOK, LogoutServed, storeVars
<1>2. CASE p \in fresh /\ ~ Barred /\ pair[p] = "live"
  <2>1. pair' = [pair EXCEPT ![p] = "revoked"] /\ mishaps' = mishaps
    BY <1>2 DEF LogoutServed
  <2> QED BY <1>1, <1>2, <2>1, DeadStep
<1>3. CASE p \in fresh /\ ~ Barred /\ pair[p] # "live"
  <2>1. pair' = pair /\ mishaps' = mishaps
    BY <1>3 DEF LogoutServed, SInv, TypeOK
  <2>2. p \notin Live
    BY <1>3 DEF Live
  <2> QED BY <1>1, <2>1, <2>2, FrameStep
<1>4. CASE ~ (p \in fresh /\ ~ Barred)
  <2>1. pair' = pair /\ mishaps' = mishaps \cup {"unheard"} /\ mishaps' # {}
    BY <1>4 DEF LogoutServed, Mishaps
  <2> QED BY <1>1, <2>1, FrameStep
<1> QED BY <1>2, <1>3, <1>4

LEMMA LogoutLostStep ==
    ASSUME SInv, NEW p \in Pairs, LogoutLost(p), AccountsTypeOK'
    PROVE  SInv'
<1>1. /\ leaving' = leaving \ {p} /\ UNCHANGED <<pair, fresh, local, own, call, out>>
      /\ mishaps' = mishaps \cup {"unheard"} /\ mishaps' # {} /\ fresh \subseteq Pairs
  BY DEF SInv, TypeOK, LogoutLost, Mishaps, tokenVars, storeVars
<1> QED BY <1>1, FrameStep

LEMMA ExpiryStep ==
    ASSUME SInv, AccountsTypeOK',
           \/ AccessExpires
           \/ \E p \in Pairs : RefreshExpires(p)
    PROVE  SInv'
<1>1. CASE AccessExpires
  <2>1. UNCHANGED <<pair, local, own, call, leaving, out, mishaps>> /\ fresh' \subseteq Pairs
    BY <1>1 DEF AccessExpires, storeVars
  <2> QED BY <2>1, FrameStep
<1>2. ASSUME NEW p \in Pairs, RefreshExpires(p)
      PROVE  SInv'
  <2>1. /\ pair[p] = "live" /\ pair' = [pair EXCEPT ![p] = "expired"]
        /\ UNCHANGED <<fresh, local, own, call, leaving, out, mishaps>>
    BY <1>2 DEF RefreshExpires, storeVars
  <2> QED BY <2>1, DeadStep
<1> QED BY <1>1, <1>2

-----------------------------------------------------------------------------
(* Every step of a call.                                                   *)

LEMMA CallStep ==
    ASSUME SInv, AccountsTypeOK', NEW c \in Calls,
           \/ \E t \in Tabs : SendCall(c, t) \/ RenewForSocket(c, t)
           \/ Serve(c) \/ RenewForCall(c) \/ CheckRefresh(c) \/ Rotate(c)
           \/ TakeRenewed(c) \/ TakeRefusal(c) \/ RenewalFails(c) \/ Abandon(c)
    PROVE  SInv'
<1>1. ASSUME NEW t \in Tabs, SendCall(c, t)
      PROVE  SInv'
  <2> DEFINE r == [pc |-> "sent", tab |-> t, with |-> getSession(t)]
  <2>1. getSession(t) \in Pairs
    BY <1>1, SessionIsPair DEF SInv, SendCall
  <2>2. r \in Call /\ r.pc \notin InRenewal
    BY <2>1 DEF Call, InRenewal
  <2>3. /\ call[c].pc \notin InRenewal /\ Goes(c, r)
        /\ UNCHANGED <<tokenVars, storeVars, leaving, out, mishaps>>
    BY <1>1, IdleIsCall DEF SendCall
  <2> HIDE DEF r
  <2> QED BY <2>2, <2>3, NoRenewalStep
<1>2. CASE Serve(c)
  <2>1. call[c] \in Call /\ call[c].pc = "sent"
    BY <1>2 DEF SInv, TypeOK, Serve
  <2>2. PICK r \in {Idle, [call[c] EXCEPT !.pc = "unauthorized"]} :
          /\ Goes(c, r)
          /\ UNCHANGED <<tokenVars, storeVars, leaving, out, mishaps>>
    BY <1>2 DEF Serve
  <2>3. r \in Call /\ r.pc \notin InRenewal
    BY <2>1, <2>2 DEF Call, Idle, InRenewal
  <2>4. call[c].pc \notin InRenewal
    BY <2>1 DEF InRenewal
  <2> QED BY <2>2, <2>3, <2>4, NoRenewalStep
<1>3. CASE RenewForCall(c)
  <2> DEFINE t == call[c].tab
  <2>1. /\ call[c].pc \notin InRenewal /\ t \in Tabs
        /\ UNCHANGED <<tokenVars, storeVars, leaving, out>>
    BY <1>3, CallsOK DEF SInv, CallOK, RenewForCall, InRenewal
  <2>2. CASE getSession(t) # 0
    <3>1. StartRenewal(c, t, getSession(t), "call")
      BY <1>3, <2>2 DEF RenewForCall
    <3> HIDE DEF t
    <3> QED BY <2>1, <2>2, <3>1, StartStep
  <2>3. CASE getSession(t) = 0
    <3>1. Goes(c, Idle) /\ UNCHANGED mishaps
      BY <1>3, <2>3 DEF RenewForCall
    <3> QED BY <2>1, <3>1, IdleIsCall, NoRenewalStep
  <2> QED BY <2>2, <2>3
<1>4. ASSUME NEW t \in Tabs, RenewForSocket(c, t)
      PROVE  SInv'
  <2>1. /\ call[c].pc \notin InRenewal /\ getSession(t) # 0
        /\ StartRenewal(c, t, getSession(t), "socket")
        /\ UNCHANGED <<tokenVars, storeVars, leaving, out>>
    BY <1>4, IdleIsCall DEF RenewForSocket
  <2> QED BY <2>1, StartStep
<1>5. CASE CheckRefresh(c)
  BY <1>5, CheckStep
<1>6. CASE Rotate(c)
  BY <1>6, RotateStep
<1>7. CASE TakeRenewed(c)
  BY <1>7, TakeStep
<1>8. CASE TakeRefusal(c)
  BY <1>8, RefusalStep
<1>9. ASSUME Goes(c, Idle)
      PROVE  /\ call' \in [Calls -> Call]
             /\ \A d \in Calls : call'[d] = call[d] \/ call'[d] = Idle
  BY <1>9, IdleIsCall DEF Goes, SInv, TypeOK
<1>10. "renewal" \in {"renewal"} /\ {"renewal"} \in SUBSET Mishap
  BY DEF Mishap
<1>11. CASE RenewalFails(c)
  <2>1. /\ Goes(c, Idle) /\ Mishaps({"renewal"})
        /\ UNCHANGED <<tokenVars, leaving, out>>
        /\ UNCHANGED storeVars \/ clearSession(call[c].tab)
    BY <1>11 DEF RenewalFails, GiveUp
  <2>2. /\ local' \in {0, local} /\ own' \in [Tabs -> {0} \cup Pairs]
        /\ \A t \in Tabs : own'[t] \in {0, own[t]}
    BY <2>1 DEF storeVars, clearSession, SInv, TypeOK
  <2> QED BY <1>9, <1>10, <2>1, <2>2, LostRenewalStep
<1>12. CASE Abandon(c)
  <2>1. Goes(c, Idle) /\ UNCHANGED <<tokenVars, storeVars, leaving, out>>
    BY <1>12 DEF Abandon
  <2>2. CASE c \in Renewals
    <3>1. Mishaps({"renewal"})
      BY <1>12, <2>2 DEF Abandon
    <3>2. /\ local' \in {0, local} /\ own' \in [Tabs -> {0} \cup Pairs]
          /\ \A t \in Tabs : own'[t] \in {0, own[t]}
      BY <2>1 DEF storeVars, SInv, TypeOK
    <3> QED BY <1>9, <1>10, <2>1, <3>1, <3>2, LostRenewalStep
  <2>3. CASE c \notin Renewals
    <3>1. UNCHANGED mishaps /\ call[c].pc \notin InRenewal
      BY <1>12, <2>3 DEF Abandon, Mishaps, Renewals, InRenewal
    <3> QED BY <2>1, <3>1, IdleIsCall, NoRenewalStep
  <2> QED BY <2>2, <2>3
<1> QED
  BY <1>1, <1>2, <1>3, <1>4, <1>5, <1>6, <1>7, <1>8, <1>11, <1>12

-----------------------------------------------------------------------------
(* The office.                                                             *)

Loaded == [pc : {"loaded"}, blocked : BOOLEAN, missed : BOOLEAN]

LEMMA SaveStep ==
    ASSUME AccountsTypeOK, EditInv, NEW v \in BOOLEAN, NEW E, Save(v, E)
    PROVE  AccountsTypeOK' /\ EditInv'
<1>1. /\ blocked' = v /\ tenant_active' = tenant_active
      /\ editing' = [e \in Editors |->
                     IF e \notin E THEN NoEdit
                     ELSE IF editing[e].pc = "loaded" /\ v # blocked
                       THEN [editing[e] EXCEPT !.missed = TRUE] ELSE editing[e]]
  BY DEF Save
<1>2. ASSUME NEW e \in Editors
      PROVE  /\ editing'[e] \in {NoEdit} \cup Loaded
             /\ editing'[e].pc = "loaded" /\ ~ editing'[e].missed => editing'[e].blocked = v
  <2>1. CASE e \notin E
    BY <1>1, <1>2, <2>1 DEF NoEdit
  <2>2. CASE e \in E /\ editing[e].pc = "loaded" /\ v # blocked
    <3>1. editing[e] \in Loaded
      BY <2>2, <1>2 DEF AccountsTypeOK, NoEdit, Loaded
    <3>2. editing'[e] = [editing[e] EXCEPT !.missed = TRUE]
      BY <1>1, <1>2, <2>2
    <3>3. editing'[e] \in Loaded /\ editing'[e].missed = TRUE
      BY <3>1, <3>2 DEF Loaded
    <3> QED BY <3>3
  <2>3. CASE e \in E /\ ~ (editing[e].pc = "loaded" /\ v # blocked)
    <3>1. editing'[e] = editing[e]
      BY <1>1, <1>2, <2>3
    <3> QED BY <3>1, <2>3, <1>2 DEF AccountsTypeOK, EditInv, Loaded, NoEdit
  <2> QED BY <2>1, <2>2, <2>3
<1>3. editing' \in [Editors -> {NoEdit} \cup Loaded]
  BY <1>1, <1>2
<1> QED BY <1>1, <1>2, <1>3 DEF AccountsTypeOK, EditInv, Loaded

LEMMA AccountsInvariant ==
    ASSUME AccountsTypeOK, EditInv, AccountStep
    PROVE  AccountsTypeOK' /\ EditInv'
<1>1. CASE block \/ unblock
  BY <1>1, SaveStep DEF block, unblock, SaveBlocked
<1>2. ASSUME NEW e \in Editors, LoadEdit(e)
      PROVE  AccountsTypeOK' /\ EditInv'
  BY <1>2 DEF LoadEdit, AccountsTypeOK, EditInv, NoEdit
<1>3. ASSUME NEW e \in Editors, SaveEdit(e)
      PROVE  AccountsTypeOK' /\ EditInv'
  <2>1. editing[e].blocked \in BOOLEAN
    BY <1>3 DEF SaveEdit, AccountsTypeOK, NoEdit
  <2>2. PICK v \in BOOLEAN : v = editing[e].blocked
    BY <2>1
  <2>3. PICK E : E = Editors \ {e}
    OBVIOUS
  <2>4. Save(v, E)
    BY <1>3, <2>2, <2>3 DEF SaveEdit
  <2> QED BY <2>4, SaveStep
<1>4. ASSUME NEW e \in Editors, DropEdit(e)
      PROVE  AccountsTypeOK' /\ EditInv'
  BY <1>4 DEF DropEdit, AccountsTypeOK, EditInv, NoEdit
<1>5. CASE block_big_office \/ unblock_big_office
  BY <1>5 DEF block_big_office, unblock_big_office, AccountsTypeOK, EditInv
<1> QED BY <1>1, <1>2, <1>3, <1>4, <1>5 DEF AccountStep

LEMMA BlockStep ==
    ASSUME AccountsTypeOK, EditInv, AccountStep
    PROVE  \/ blocked' = blocked
           \/ block \/ unblock
           \/ \E e \in Editors : SaveEdit(e) /\ editing[e].missed
<1>1. ASSUME NEW e \in Editors, SaveEdit(e)
      PROVE  blocked' = blocked \/ editing[e].missed
  BY <1>1 DEF SaveEdit, Save, EditInv
<1>2. ASSUME NEW e \in Editors, LoadEdit(e) \/ DropEdit(e)
      PROVE  blocked' = blocked
  BY <1>2 DEF LoadEdit, DropEdit
<1>3. CASE block_big_office \/ unblock_big_office
  BY <1>3 DEF block_big_office, unblock_big_office
<1> QED BY <1>1, <1>2, <1>3 DEF AccountStep

-----------------------------------------------------------------------------
(* The theorems.                                                           *)

LEMMA InitInv == Init => SInv /\ EditInv
<1> SUFFICES ASSUME Init
             PROVE  SInv /\ EditInv
  OBVIOUS
<1>1. AccountsTypeOK /\ EditInv
  BY DEF Init, InitAccounts, AccountsTypeOK, EditInv, NoEdit
<1>2. TypeOK
  <2>1. call \in [Calls -> Call]
    BY DEF Init, Call
  <2>2. pair \in [Pairs -> {"none", "live", "used", "revoked", "expired"}]
    BY DEF Init
  <2> QED BY <1>1, <2>1, <2>2 DEF Init, TypeOK
<1>3. Renewals = {} /\ Live = {} /\ \A c \in Calls : call[c].pc = "idle"
  BY DEF Init, Renewals, Live, Idle
<1>4. \A p \in Pairs : ~ Kept(p)
  BY PairsArePositive DEF Init, Kept
<1>5. RenewalInv
  BY <1>3, <1>4
  DEF Init, RenewalInv, OnePairEach, PlaceInv, TabInv, KeptInv, RenewingInv, RefusedInv,
      RenewedInv, NewInv
<1> QED
  BY <1>1, <1>2, <1>3, <1>5 DEF Init, SInv, LogoutInv, OfSession, OneKind, NoStrayToken

LEMMA NextInv ==
    ASSUME SInv, EditInv, [Next]_vars
    PROVE  SInv' /\ EditInv'
<1>0. AccountsTypeOK
  BY DEF SInv, TypeOK
<1>1. CASE AccountStep /\ UNCHANGED sessionVars
  <2>1. AccountsTypeOK' /\ EditInv'
    BY <1>0, <1>1, AccountsInvariant
  <2>2. UNCHANGED <<pair, fresh, local, own, call, out, leaving, mishaps>>
        /\ fresh \subseteq Pairs
    BY <1>1 DEF sessionVars, tokenVars, storeVars, SInv, TypeOK
  <2> QED BY <2>1, <2>2, FrameStep
<1>2. CASE SessionStep /\ UNCHANGED accountVars
  <2>1. AccountsTypeOK' /\ EditInv'
    BY <1>0, <1>2 DEF accountVars, AccountsTypeOK, EditInv
  <2>2. SInv'
    BY <1>2, <2>1, LoginStep, LogoutStep, CloseStep, LogoutServedStep, LogoutLostStep,
       ExpiryStep, CallStep
    DEF SessionStep
  <2> QED BY <2>1, <2>2
<1>3. CASE UNCHANGED vars
  <2>1. AccountsTypeOK' /\ EditInv'
    BY <1>0, <1>3 DEF vars, accountVars, AccountsTypeOK, EditInv
  <2>2. UNCHANGED <<pair, fresh, local, own, call, out, leaving, mishaps>>
        /\ fresh \subseteq Pairs
    BY <1>3 DEF vars, sessionVars, tokenVars, storeVars, SInv, TypeOK
  <2> QED BY <2>1, <2>2, FrameStep
<1> QED BY <1>1, <1>2, <1>3 DEF Next

(* The inductive invariant holds of every execution.                       *)
THEOREM Invariance == Spec => [](SInv /\ EditInv)
<1>1. SInv /\ EditInv /\ [Next]_vars => (SInv /\ EditInv)'
  BY NextInv
<1> QED BY <1>1, InitInv, PTL DEF Spec

(* Every variable has its type.                                            *)
THEOREM TypeCorrect == Spec => []TypeOK
<1>1. SInv => TypeOK
  BY DEF SInv
<1> QED BY <1>1, Invariance, PTL

(* refreshSession: a renewal is refused only for a revoked or an expired   *)
(* token, unless two renewals of one pair overlapped or an answer was lost.*)
THEOREM SessionsAreKept == Spec => []SessionKept
<1>1. SInv => SessionKept
  BY DEF SInv, RenewalInv, RefusedInv, SessionKept
<1> QED BY <1>1, Invariance, PTL

(* saveSession, LogoutButton, LogoutView: as long as nothing has gone      *)
(* wrong and nobody has logged in over a session or closed a tab with one, *)
(* every good refresh token is in a store, a request or an answer.         *)
THEOREM NoTokenStrays == Spec => []NoStrayToken
<1>1. SInv => NoStrayToken
  BY DEF SInv
<1> QED BY <1>1, Invariance, PTL

(* clearSession: a tab where the office has logged out stays out until a   *)
(* login, unless a renewal of it was in flight.                            *)
THEOREM LogoutsHold == Spec => []LogoutHolds
<1>1. SInv => LogoutHolds
  BY DEF SInv, LogoutInv, LogoutHolds
<1> QED BY <1>1, Invariance, PTL

(* MembersViewSet: only a block, an unblock, or an edit that has missed    *)
(* one, changes whether an office is blocked.                              *)
THEOREM BlocksAreKept == Spec => BlockKept
<1>1. SInv /\ EditInv /\ [Next]_vars
        => [ \/ blocked' = blocked
             \/ block \/ unblock
             \/ \E e \in Editors : SaveEdit(e) /\ editing[e].missed
           ]_accountVars
  BY BlockStep DEF SInv, TypeOK, Next, vars
<1> QED BY <1>1, Invariance, PTL DEF Spec, BlockKept
=============================================================================
