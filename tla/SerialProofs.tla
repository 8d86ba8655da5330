---------------------------- MODULE SerialProofs ----------------------------
(***************************************************************************)
(* Theorems about Transactions when no two requests work on one and the    *)
(* same transaction at a time (Apart) and no entry is reversed by hand     *)
(* (NoManualReversal): then the statuses of a transaction and its standing *)
(* entries agree, and delivery is final.  Requests about different         *)
(* transactions, settlements and new limits overlap freely: Apart is what  *)
(* a lock on the row, held from the load to the commit, would give.  All   *)
(* of this fails without the two assumptions, see the runs delivery_undone *)
(* and manual_reversal.                                                    *)
(***************************************************************************)
EXTENDS TransactionsProofs

Apart ==
    \A v, w \in Workers :
       v # w /\ ~IsIdle(v) /\ ~IsIdle(w) => workers[v].txn # workers[w].txn

NoManualReversal == "reverse_entry" \notin Ops

(***************************************************************************)
(* What a posting does to the standing entries of every transaction.       *)
(***************************************************************************)
StandingIn(history, t, type) ==
    {e \in DOMAIN history :
        history[e].type = type /\ history[e].ref = t /\ ~Reversed(history, e)}

Mirrored(entries)          == {entries[i].reverses : i \in DOMAIN entries}
PostedFor(entries, t, type) ==
    {Len(journal) + i : i \in {i \in DOMAIN entries :
                                  entries[i].type = type /\ entries[i].ref = t}}

LEMMA StandingAfterPost ==
    ASSUME IInv, NEW entries, Appendable(entries), Post(entries), NEW t, NEW type
    PROVE  StandingIn(journal', t, type)
              = (StandingIn(journal, t, type) \ Mirrored(entries))
                \cup PostedFor(entries, t, type)
<1> DEFINE n == Len(journal)
           m == Len(entries)
<1>1. /\ journal' \in Seq(Entry) /\ journal \in Seq(Entry) /\ entries \in Seq(Entry)
      /\ Len(journal') = n + m
      /\ \A e \in 1 .. n : journal'[e] = journal[e]
      /\ \A i \in 1 .. m : journal'[n + i] = entries[i]
      /\ n \in Nat /\ m \in Nat
      /\ DOMAIN journal = 1 .. n /\ DOMAIN entries = 1 .. m /\ DOMAIN journal' = 1 .. n + m
  BY PostGrows DEF IInv, TypeOK, Grows, Appendable
<1> HIDE DEF n, m
<1>2. ASSUME NEW e \in 1 .. n + m
      PROVE  e \in 1 .. n \/ \E i \in 1 .. m : e = n + i
  <2>1. CASE e > n
    <3>1. e - n \in 1 .. m /\ e = n + (e - n)
      BY <1>1, <2>1
    <3> QED
      BY <3>1
  <2> QED
    BY <1>1, <2>1
<1>3. ASSUME NEW i \in 1 .. m
      PROVE  entries[i].reverses = NoEntry \/ entries[i].reverses \in 1 .. n
  <2>1. CASE \E e \in DOMAIN journal : ~Reversed(journal, e) /\ entries[i] = Mirror(journal, e)
    BY <1>1, <2>1, MirrorType
  <2> QED
    BY <1>1, <2>1 DEF Appendable
<1>4. ASSUME NEW r \in 1 .. n, journal[r].reverses # NoEntry
      PROVE  journal[r].reverses < r
  BY <1>1, <1>4 DEF IInv, ReversalsCancel
<1>5. ASSUME NEW e \in 1 .. n
      PROVE  Reversed(journal', e) <=> Reversed(journal, e) \/ e \in Mirrored(entries)
  <2>1. ASSUME Reversed(journal', e)
        PROVE  Reversed(journal, e) \/ e \in Mirrored(entries)
    <3>1. PICK r \in 1 .. n + m : journal'[r].reverses = e
      BY <1>1, <2>1 DEF Reversed
    <3>2. CASE r \in 1 .. n
      BY <1>1, <3>1, <3>2 DEF Reversed
    <3>3. ASSUME NEW i \in 1 .. m, r = n + i
          PROVE  e \in Mirrored(entries)
      BY <1>1, <3>1, <3>3 DEF Mirrored
    <3> QED
      BY <1>2, <3>2, <3>3
  <2>2. ASSUME Reversed(journal, e)
        PROVE  Reversed(journal', e)
    BY <1>1, <2>2 DEF Reversed
  <2>3. ASSUME e \in Mirrored(entries)
        PROVE  Reversed(journal', e)
    <3>1. PICK i \in 1 .. m : entries[i].reverses = e
      BY <1>1, <2>3 DEF Mirrored
    <3>2. n + i \in DOMAIN journal' /\ journal'[n + i].reverses = e
      BY <1>1, <3>1
    <3> QED
      BY <3>2 DEF Reversed
  <2> QED
    BY <2>1, <2>2, <2>3
<1>6. ASSUME NEW e \in 1 .. n + m, e \notin 1 .. n
      PROVE  ~Reversed(journal', e)
  <2> SUFFICES ASSUME NEW r \in 1 .. n + m, journal'[r].reverses = e
               PROVE  FALSE
    BY <1>1 DEF Reversed
  <2>1. e # NoEntry
    BY <1>1 DEF NoEntry
  <2>2. CASE r \in 1 .. n
    <3>1. journal[r].reverses = e
      BY <1>1, <2>2
    <3> QED
      BY <1>1, <1>4, <1>6, <2>1, <2>2, <3>1
  <2>3. ASSUME NEW i \in 1 .. m, r = n + i
        PROVE  FALSE
    BY <1>1, <1>3, <1>6, <2>1, <2>3
  <2> QED
    BY <1>2, <2>2, <2>3
<1>7. ASSUME NEW e \in 1 .. n
      PROVE  e \in StandingIn(journal', t, type) <=>
                e \in StandingIn(journal, t, type) /\ e \notin Mirrored(entries)
  BY <1>1, <1>5, <1>7 DEF StandingIn
<1>8. ASSUME NEW i \in 1 .. m
      PROVE  n + i \in StandingIn(journal', t, type) <=> entries[i].type = type /\ entries[i].ref = t
  BY <1>1, <1>6, <1>8 DEF StandingIn
<1>9. PostedFor(entries, t, type) =
         {n + i : i \in {i \in 1 .. m : entries[i].type = type /\ entries[i].ref = t}}
  BY <1>1 DEF PostedFor, n
<1>10. /\ StandingIn(journal, t, type) \subseteq 1 .. n
       /\ StandingIn(journal', t, type) \subseteq 1 .. n + m
  BY <1>1 DEF StandingIn
<1>11. ASSUME NEW e \in 1 .. n + m
       PROVE  e \in StandingIn(journal', t, type) <=>
                 e \in (StandingIn(journal, t, type) \ Mirrored(entries))
                       \cup PostedFor(entries, t, type)
  <2>1. CASE e \in 1 .. n
    <3>1. e \notin PostedFor(entries, t, type)
      BY <1>1, <1>9, <2>1
    <3> QED
      BY <1>7, <2>1, <3>1
  <2>2. ASSUME NEW i \in 1 .. m, e = n + i
        PROVE  e \in StandingIn(journal', t, type) <=>
                  e \in (StandingIn(journal, t, type) \ Mirrored(entries))
                        \cup PostedFor(entries, t, type)
    <3>1. e \notin StandingIn(journal, t, type)
      BY <1>1, <1>10, <2>2
    <3>2. e \in PostedFor(entries, t, type) <=> entries[i].type = type /\ entries[i].ref = t
      BY <1>1, <1>9, <2>2
    <3> QED
      BY <1>8, <2>2, <3>1, <3>2
  <2> QED
    BY <1>2, <2>1, <2>2
<1>12. PostedFor(entries, t, type) \subseteq 1 .. n + m
  BY <1>1, <1>9
<1> QED
  BY <1>1, <1>10, <1>11, <1>12

(***************************************************************************)
(* The invariant: a worker's copy is the row itself until the credit check *)
(* changes it, and statuses and standing entries agree.                    *)
(***************************************************************************)
Agrees(history, t, row) ==
    /\ StandingIn(history, t, "transaction") =
          IF row.approval = "accepted" THEN {row.approval_entry} ELSE {}
    /\ StandingIn(history, t, "settlement") =
          IF row.payment = "paid" THEN {row.payment_entry} ELSE {}
    /\ row.delivery = "delivered" => row.approval = "accepted"

NothingStands(history, t) ==
    StandingIn(history, t, "transaction") = {} /\ StandingIn(history, t, "settlement") = {}

Settled(history, rows) ==
    \A t \in Txns : IF rows[t] = NoRow THEN NothingStands(history, t)
                                       ELSE Agrees(history, t, rows[t])

SamePayment(row, copy) ==
    copy.payment = row.payment /\ copy.payment_entry = row.payment_entry

Fresh(rows, x) ==
    x # Idle =>
      /\ x.pc = "loaded" => x.copy = rows[x.txn]
      /\ x.pc = "checked" =>
            /\ SamePayment(rows[x.txn], x.copy)
            /\ rows[x.txn].delivery = "not_delivered" /\ x.copy.delivery = "not_delivered"
            /\ x.op = "approve" => rows[x.txn].approval = "pending"
            /\ x.op = "edit" =>
                  rows[x.txn].approval = "accepted" /\ x.undo = rows[x.txn].approval_entry

SInv ==
    /\ IInv
    /\ Settled(journal, txns)
    /\ \A w \in Workers : Fresh(txns, workers[w])

KeepsDelivered(t) ==
    Created(t) /\ txns[t].delivery = "delivered" =>
       txns'[t] = [txns[t] EXCEPT !.payment = txns'[t].payment,
                                  !.payment_entry = txns'[t].payment_entry]

SerialStep(w) ==
    /\ Settled(journal', txns')
    /\ \A t \in Txns : KeepsDelivered(t)
    /\ \E x : Fresh(txns', x) /\ workers' = [workers EXCEPT ![w] = x]

(* A request writes no row but the one it loaded and the one it creates.   *)
OwnRow(w) ==
    \A t \in Txns : \/ txns'[t] = txns[t]
                    \/ ~Created(t)
                    \/ ~IsIdle(w) /\ t = workers[w].txn

LEMMA WritesOwnRow ==
    ASSUME IInv, NEW w \in Workers, TxnStep(w) \/ SettleStep(w)
    PROVE  OwnRow(w)
<1>1. txns \in [Txns -> Row \cup {NoRow}]
  BY DEF IInv, TypeOK
<1>2. ASSUME NEW t \in Txns, NEW d \in Drafts, Create(w, t, d)
      PROVE  OwnRow(w)
  BY <1>1, <1>2 DEF Create, OwnRow
<1>3. ASSUME NEW new, txns' = [txns EXCEPT ![workers[w].txn] = new], ~IsIdle(w)
      PROVE  OwnRow(w)
  BY <1>1, <1>3 DEF OwnRow
<1>4. CASE CommitApproval(w) \/ CommitEdit(w) \/ Reverse(w)
  BY <1>3, <1>4 DEF CommitApproval, CommitEdit, Reverse, AtStep, IsIdle
<1>5. CASE Reject(w)
  BY <1>3, <1>5 DEF Reject, AtStep, IsIdle
<1>6. CASE Deliver(w)
  BY <1>3, <1>6 DEF Deliver, AtStep, IsIdle
<1>7. CASE Pay(w)
  BY <1>3, <1>7 DEF Pay, AtStep, IsIdle
<1>8. CASE UNCHANGED txns
  BY <1>8 DEF OwnRow
<1>9. CASE SettleStep(w)
  <2>1. UNCHANGED txns
    BY <1>9 DEF SettleStep, Deposit, Withdraw, MemberPayment, AdjustBox, Settle, ReverseEntry,
                SetLimit
  <2> QED
    BY <1>8, <2>1
<1>10. CASE TxnStep(w)
  <2>1. \/ \E t \in Txns, d \in Drafts : Create(w, t, d)
        \/ CommitApproval(w) \/ CommitEdit(w) \/ Reverse(w)
        \/ Reject(w) \/ Deliver(w) \/ Pay(w) \/ UNCHANGED txns
    BY <1>10 DEF TxnStep, Begin, CheckApproval, CheckEdit, Fail
  <2> QED
    BY <1>2, <1>4, <1>5, <1>6, <1>7, <1>8, <2>1
<1> QED
  BY <1>9, <1>10

LEMMA SerialStepKeeps ==
    ASSUME Apart, SInv, NEW w \in Workers, GoodStep(w), SerialStep(w), OwnRow(w)
    PROVE  SInv'
<1>1. IInv'
  BY GoodStepKeeps DEF SInv
<1>2. workers \in [Workers -> {Idle} \cup Busy]
  BY DEF SInv, IInv, TypeOK
<1>3. ASSUME NEW v \in Workers, v # w, workers[v] # Idle
      PROVE  txns'[workers[v].txn] = txns[workers[v].txn]
  <2>1. workers[v] \in Busy /\ ~IsIdle(v)
    BY <1>2, <1>3 DEF Busy, IsIdle
  <2>2. workers[v].txn \in Txns /\ Created(workers[v].txn)
    BY <2>1, WorkerBusy DEF SInv, IsIdle
  <2> QED
    BY <1>3, <2>1, <2>2 DEF Apart, OwnRow
<1>4. ASSUME NEW v \in Workers
      PROVE  Fresh(txns', workers'[v])
  <2>1. CASE v = w
    BY <1>2, <2>1 DEF SerialStep
  <2>2. CASE v # w
    <3>1. workers'[v] = workers[v] /\ Fresh(txns, workers[v])
      BY <1>2, <2>2 DEF SerialStep, SInv
    <3> QED
      BY <1>3, <2>2, <3>1 DEF Fresh
  <2> QED
    BY <2>1, <2>2
<1> QED
  BY <1>1, <1>4 DEF SerialStep, SInv

LEMMA InitSInv == Init => SInv
<1> SUFFICES ASSUME Init PROVE SInv
  OBVIOUS
<1>1. Settled(journal, txns)
  BY DEF Init, Settled, NothingStands, StandingIn
<1>2. \A w \in Workers : Fresh(txns, workers[w])
  BY DEF Init, Fresh
<1> QED
  BY <1>1, <1>2, InitIInv DEF SInv

(* Entries that belong to one transaction, or to none.                     *)
Local(entries, t) ==
    \A i \in DOMAIN entries :
       \/ entries[i].reverses = NoEntry /\ entries[i].ref \in {t, NoRef}
       \/ /\ entries[i].reverses \in DOMAIN journal
          /\ journal[entries[i].reverses].ref = t
          /\ entries[i].ref = NoRef

LEMMA OthersStand ==
    ASSUME IInv, NEW entries, Appendable(entries), Post(entries),
           NEW t \in Txns \cup {NoRef}, Local(entries, t), NEW u \in Txns, u # t, NEW type
    PROVE  StandingIn(journal', u, type) = StandingIn(journal, u, type)
<1>1. u # NoRef
  BY RefAssumption
<1>2. \A i \in DOMAIN entries : entries[i].ref # u
  BY <1>1 DEF Local
<1>3. PostedFor(entries, u, type) = {}
  BY <1>2 DEF PostedFor
<1>4. StandingIn(journal, u, type) \cap Mirrored(entries) = {}
  <2> SUFFICES ASSUME NEW i \in DOMAIN entries,
                      entries[i].reverses \in StandingIn(journal, u, type)
               PROVE  FALSE
    BY DEF Mirrored
  <2>1. entries[i].reverses \in DOMAIN journal /\ journal[entries[i].reverses].ref = u
    BY DEF StandingIn
  <2>2. NoEntry \notin DOMAIN journal
    BY DEF IInv, TypeOK, NoEntry
  <2> QED
    BY <2>1, <2>2 DEF Local
<1>5. StandingIn(journal', u, type)
         = (StandingIn(journal, u, type) \ Mirrored(entries)) \cup PostedFor(entries, u, type)
  BY StandingAfterPost
<1> QED
  BY <1>3, <1>4, <1>5

LEMMA OthersAgree ==
    ASSUME SInv, NEW entries, Appendable(entries), Post(entries),
           NEW t \in Txns, Local(entries, t),
           NEW new, new # NoRow, txns' = [txns EXCEPT ![t] = new], Agrees(journal', t, new)
    PROVE  Settled(journal', txns')
<1>1. txns'[t] = new /\ \A u \in Txns \ {t} : txns'[u] = txns[u]
  BY DEF SInv, IInv, TypeOK
<1>2. ASSUME NEW u \in Txns \ {t}
      PROVE  /\ StandingIn(journal', u, "transaction") = StandingIn(journal, u, "transaction")
             /\ StandingIn(journal', u, "settlement") = StandingIn(journal, u, "settlement")
  BY OthersStand DEF SInv
<1> QED
  BY <1>1, <1>2 DEF SInv, Settled, NothingStands, Agrees

(* A step that writes one row of a transaction that is not delivered, or   *)
(* only its payment, keeps deliveries.                                     *)
LEMMA OneRowDelivered ==
    ASSUME SInv, NEW t \in Txns, NEW new, txns' = [txns EXCEPT ![t] = new],
           txns[t] # NoRow =>
              \/ txns[t].delivery # "delivered"
              \/ \E p, e : new = [txns[t] EXCEPT !.payment = p, !.payment_entry = e]
    PROVE  \A u \in Txns : KeepsDelivered(u)
<1>1. txns'[t] = new /\ \A u \in Txns \ {t} : txns'[u] = txns[u]
  BY DEF SInv, IInv, TypeOK
<1>2. ASSUME NEW u \in Txns, Created(u)
      PROVE  txns[u] \in Row
  BY <1>2 DEF SInv, IInv, RowFits
<1>3. ASSUME NEW r \in Row
      PROVE  r = [r EXCEPT !.payment = r.payment, !.payment_entry = r.payment_entry]
  BY DEF Row
<1>4. ASSUME NEW u \in Txns \ {t} PROVE KeepsDelivered(u)
  BY <1>1, <1>2, <1>3 DEF KeepsDelivered
<1>5. KeepsDelivered(t)
  <2> SUFFICES ASSUME Created(t), txns[t].delivery = "delivered"
               PROVE  new = [txns[t] EXCEPT !.payment = new.payment,
                                            !.payment_entry = new.payment_entry]
    BY <1>1 DEF KeepsDelivered
  <2>1. PICK p, e : new = [txns[t] EXCEPT !.payment = p, !.payment_entry = e]
    BY DEF Created
  <2>2. txns[t] \in Row
    BY <1>2
  <2> QED
    BY <2>1, <2>2 DEF Row
<1> QED
  BY <1>4, <1>5

LEMMA NoRowDelivered ==
    ASSUME SInv, UNCHANGED txns
    PROVE  \A u \in Txns : KeepsDelivered(u)
<1>1. ASSUME NEW u \in Txns, Created(u)
      PROVE  txns[u] = [txns[u] EXCEPT !.payment = txns[u].payment,
                                       !.payment_entry = txns[u].payment_entry]
  BY <1>1 DEF SInv, IInv, RowFits, Row
<1> QED
  BY <1>1 DEF KeepsDelivered

(***************************************************************************)
(* Every action, when it is the only request, is a serial step.            *)
(***************************************************************************)

LEMMA IdleFresh == \A rows : Fresh(rows, Idle)
  BY DEF Fresh

LEMMA AnsweredFresh ==
    ASSUME NEW w \in Workers, Answer(w)
    PROVE  \E x : Fresh(txns', x) /\ workers' = [workers EXCEPT ![w] = x]
  BY IdleFresh DEF Answer

LEMMA IdleWorker ==
    ASSUME SInv, NEW w \in Workers, IsIdle(w), UNCHANGED workers
    PROVE  \E x : Fresh(txns', x) /\ workers' = [workers EXCEPT ![w] = x]
<1>1. workers[w] = Idle
  BY DEF IsIdle, Busy, SInv, IInv, TypeOK
<1>2. workers' = [workers EXCEPT ![w] = Idle]
  BY <1>1 DEF SInv, IInv, TypeOK
<1> QED
  BY <1>2, IdleFresh

LEMMA BusyFresh ==
    ASSUME SInv, NEW w \in Workers, NEW pc, pc # "idle", workers[w].pc = pc
    PROVE  LET row == txns[workers[w].txn]  copy == workers[w].copy IN
           /\ workers[w].txn \in Txns /\ row \in Row /\ row # NoRow /\ copy \in Row
           /\ workers[w] \in Busy
           /\ RowFits(journal, workers[w].txn, row)
           /\ Agrees(journal, workers[w].txn, row)
           /\ pc = "loaded" => copy = row /\ Admits(workers[w].op, row)
           /\ pc = "checked" =>
                 /\ SamePayment(row, copy)
                 /\ row.delivery = "not_delivered" /\ copy.delivery = "not_delivered"
                 /\ workers[w].op = "approve" => row.approval = "pending"
                 /\ workers[w].op = "edit" =>
                       row.approval = "accepted" /\ workers[w].undo = row.approval_entry
<1>1. IInv
  BY DEF SInv
<1>2. /\ workers[w].txn \in Txns /\ txns[workers[w].txn] \in Row /\ workers[w].copy \in Row
      /\ workers[w] \in Busy /\ RowFits(journal, workers[w].txn, txns[workers[w].txn])
      /\ Created(workers[w].txn)
      /\ pc = "loaded" => Admits(workers[w].op, workers[w].copy)
  BY <1>1, WorkerBusy
<1>3. workers[w] # Idle
  BY <1>2, IdleIsNotBusy
<1>4. Agrees(journal, workers[w].txn, txns[workers[w].txn])
  BY <1>2 DEF SInv, Settled, Created
<1> QED
  BY <1>2, <1>3, <1>4 DEF SInv, Fresh, Created

LEMMA NoEntryNeverStands ==
    ASSUME IInv, NEW t, NEW type
    PROVE  NoEntry \notin StandingIn(journal, t, type)
  BY DEF IInv, TypeOK, StandingIn, NoEntry

(* One posting: it stands for the transaction it names, and nothing else   *)
(* changes.                                                                *)
LEMMA OnePostingStands ==
    ASSUME IInv, NEW entry \in Entry, entry.reverses = NoEntry, Post(<<entry>>),
           NEW t \in Txns \cup {NoRef}, entry.ref = t
    PROVE  /\ Appendable(<<entry>>) /\ Local(<<entry>>, t)
           /\ \A u \in Txns, type \in EntryType :
                 StandingIn(journal', u, type) =
                    IF u = t /\ type = entry.type
                    THEN StandingIn(journal, u, type) \cup {Len(journal) + 1}
                    ELSE StandingIn(journal, u, type)
<1> DEFINE es == <<entry>>
<1>1. /\ es \in Seq(Entry) /\ Len(es) = 1 /\ DOMAIN es = {1} /\ es[1] = entry /\ Post(es)
  OBVIOUS
<1> HIDE DEF es
<1>2. Appendable(es) /\ Local(es, t)
  BY <1>1 DEF Appendable, Local
<1>3. Mirrored(es) = {NoEntry}
  BY <1>1 DEF Mirrored
<1>4. ASSUME NEW u \in Txns, NEW type \in EntryType
      PROVE  PostedFor(es, u, type) = IF u = t /\ type = entry.type THEN {Len(journal) + 1} ELSE {}
  <2>1. {i \in DOMAIN es : es[i].type = type /\ es[i].ref = u}
           = IF u = t /\ type = entry.type THEN {1} ELSE {}
    BY <1>1
  <2> QED
    BY <2>1 DEF PostedFor
<1>5. ASSUME NEW u \in Txns, NEW type \in EntryType
      PROVE  StandingIn(journal', u, type) =
                    IF u = t /\ type = entry.type
                    THEN StandingIn(journal, u, type) \cup {Len(journal) + 1}
                    ELSE StandingIn(journal, u, type)
  <2>1. StandingIn(journal', u, type)
           = (StandingIn(journal, u, type) \ Mirrored(es)) \cup PostedFor(es, u, type)
    BY <1>1, <1>2, StandingAfterPost
  <2> QED
    BY <1>3, <1>4, <2>1, NoEntryNeverStands
<1> QED
  BY <1>2, <1>5 DEF es

LEMMA QuietSerial ==
    ASSUME SInv, NEW w \in Workers, UNCHANGED <<journal, txns>>,
           \E x : Fresh(txns', x) /\ workers' = [workers EXCEPT ![w] = x]
    PROVE  SerialStep(w)
<1>1. Settled(journal', txns')
  BY DEF SInv
<1> QED
  BY <1>1, NoRowDelivered DEF SerialStep

(* Writing one row and no entry.                                           *)
LEMMA RowSerial ==
    ASSUME SInv, UNCHANGED journal, NEW t \in Txns, NEW new, new # NoRow,
           txns' = [txns EXCEPT ![t] = new], Agrees(journal, t, new)
    PROVE  Settled(journal', txns')
  BY DEF SInv, IInv, TypeOK, Settled

LEMMA CreateSerial ==
    ASSUME SInv, NEW w \in Workers, NEW t \in Txns, NEW d \in Drafts, Create(w, t, d)
    PROVE  SerialStep(w)
<1> DEFINE new == NewRow(d)
<1>1. new \in Row
  BY InputAssumption DEF NewRow, NoRate, Draft, Row, NoEntry
<1>2. /\ txns' = [txns EXCEPT ![t] = new] /\ txns[t] = NoRow /\ UNCHANGED <<journal, workers>>
      /\ IsIdle(w)
  BY DEF Create, Created
<1>3. NothingStands(journal, t)
  BY <1>2 DEF SInv, Settled
<1>4. Agrees(journal, t, new)
  BY <1>3 DEF NothingStands, Agrees, NewRow
<1> HIDE DEF new
<1>5. Settled(journal', txns')
  BY <1>1, <1>2, <1>4, NoRowIsNoRow, RowSerial
<1>6. \A u \in Txns : KeepsDelivered(u)
  BY <1>2, OneRowDelivered
<1> QED
  BY <1>2, <1>5, <1>6, IdleWorker DEF SerialStep

LEMMA BeginSerial ==
    ASSUME SInv, NEW w \in Workers, NEW op \in TxnOps, NEW t \in Txns, Begin(w, op, t)
    PROVE  SerialStep(w)
<1> DEFINE x == [pc |-> "loaded", op |-> op, txn |-> t, copy |-> txns[t], undo |-> NoEntry]
<1>1. UNCHANGED <<journal, txns>> /\ workers' = [workers EXCEPT ![w] = x]
  BY DEF Begin
<1>2. Fresh(txns', x)
  BY <1>1 DEF Fresh
<1> HIDE DEF x
<1> QED
  BY <1>1, <1>2, QuietSerial

LEMMA FailSerial ==
    ASSUME SInv, NEW w \in Workers, Fail(w)
    PROVE  SerialStep(w)
  BY AnsweredFresh, QuietSerial DEF Fail

LEMMA CheckApprovalSerial ==
    ASSUME SInv, NEW w \in Workers, NEW q \in Quotes, CheckApproval(w, q)
    PROVE  SerialStep(w)
<1> DEFINE row == txns[workers[w].txn]
           new == Quoted(workers[w].copy, q)
           x   == [workers[w] EXCEPT !.pc = "checked", !.copy = new]
<1>1. workers[w].pc = "loaded" /\ workers[w].op = "approve" /\ q \in Quote
  BY InputAssumption DEF CheckApproval, AtStep
<1>2. /\ workers[w] \in Busy /\ row \in Row /\ workers[w].copy = row
      /\ Agrees(journal, workers[w].txn, row) /\ CanApprove(row)
  BY <1>1, BusyFresh DEF Admits
<1>3. row.approval = "pending" /\ row.delivery = "not_delivered"
  BY <1>2 DEF CanApprove, Agrees, Row
<1>4. SamePayment(row, new) /\ new.delivery = row.delivery
  BY <1>1, <1>2, QuotedType DEF SamePayment
<1>5. /\ UNCHANGED <<journal, txns>> /\ workers' = [workers EXCEPT ![w] = x]
  BY DEF CheckApproval, SInv, IInv, TypeOK
<1>6. /\ x.pc = "checked" /\ x.txn = workers[w].txn /\ x.copy = new /\ x.op = "approve"
  <2> HIDE DEF new
  <2> QED
    BY <1>1, <1>2 DEF Busy
<1>7. Fresh(txns', x)
  <2> HIDE DEF new, x
  <2> QED
    BY <1>3, <1>4, <1>5, <1>6 DEF Fresh
<1> HIDE DEF x
<1> QED
  BY <1>5, <1>7, QuietSerial

LEMMA CheckEditSerial ==
    ASSUME SInv, NEW w \in Workers, NEW edit \in Edits, CheckEdit(w, edit)
    PROVE  SerialStep(w)
<1> DEFINE row  == txns[workers[w].txn]
           copy == workers[w].copy
           open == Reopened(copy, edit)
           q    == EditQuote(copy, edit)
           new  == Quoted(open, q)
           x    == [workers[w] EXCEPT !.pc = "checked", !.copy = new, !.undo = copy.approval_entry]
<1>1. workers[w].pc = "loaded" /\ workers[w].op = "edit" /\ edit \in Edit
  BY InputAssumption DEF CheckEdit, AtStep
<1>2. /\ workers[w] \in Busy /\ row \in Row /\ copy = row /\ CanEdit(row)
      /\ RowFits(journal, workers[w].txn, row)
  BY <1>1, BusyFresh DEF Admits
<1>3. row.approval = "accepted" /\ row.delivery = "not_delivered" /\ row.box \in Boxes
  BY <1>2 DEF CanEdit, RowFits, Boxed, Row
<1>4. SamePayment(row, new) /\ new.delivery = row.delivery
  <2>1. /\ q \in Quote /\ open \in Row /\ open.payment = row.payment
        /\ open.payment_entry = row.payment_entry /\ open.delivery = row.delivery
    <3> HIDE DEF copy
    <3> QED
      BY <1>1, <1>2, <1>3, EditTypes
  <2> HIDE DEF open, q
  <2> QED
    BY <2>1, QuotedType DEF SamePayment
<1>5. /\ UNCHANGED <<journal, txns>> /\ workers' = [workers EXCEPT ![w] = x]
  BY DEF CheckEdit, SInv, IInv, TypeOK
<1>6. /\ x.pc = "checked" /\ x.txn = workers[w].txn /\ x.copy = new /\ x.op = "edit"
      /\ x.undo = copy.approval_entry
  <2> HIDE DEF new
  <2> QED
    BY <1>1, <1>2 DEF Busy
<1>7. Fresh(txns', x)
  <2> HIDE DEF new, x
  <2> QED
    BY <1>2, <1>3, <1>4, <1>5, <1>6 DEF Fresh
<1> HIDE DEF x
<1> QED
  BY <1>5, <1>7, QuietSerial

LEMMA RejectSerial ==
    ASSUME SInv, NEW w \in Workers, Reject(w)
    PROVE  SerialStep(w)
<1> DEFINE t   == workers[w].txn
           row == txns[t]
           new == [row EXCEPT !.approval = "cancelled"]
<1>1. workers[w].pc = "loaded" /\ workers[w].op = "reject"
  BY DEF Reject, AtStep
<1>2. t \in Txns /\ row \in Row /\ Agrees(journal, t, row) /\ CanReject(row)
  BY <1>1, BusyFresh DEF Admits
<1>3. row.approval = "pending" /\ row.delivery # "delivered"
  BY <1>2 DEF CanReject, Agrees
<1>4. UNCHANGED journal /\ txns' = [txns EXCEPT ![t] = new] /\ Answer(w)
  BY DEF Reject, SInv, IInv, TypeOK
<1>5. /\ new \in Row /\ new.approval = "cancelled" /\ SamePayment(row, new)
      /\ new.delivery = row.delivery
  BY <1>2 DEF Row, SamePayment
<1>6. Agrees(journal, t, new)
  <2> HIDE DEF new, row, t
  <2> QED
    BY <1>2, <1>3, <1>5 DEF Agrees, SamePayment
<1> HIDE DEF new
<1>7. Settled(journal', txns')
  BY <1>2, <1>4, <1>5, <1>6, NoRowIsNoRow, RowSerial
<1>8. \A u \in Txns : KeepsDelivered(u)
  BY <1>2, <1>3, <1>4, OneRowDelivered
<1> QED
  BY <1>4, <1>7, <1>8, AnsweredFresh DEF SerialStep

LEMMA DeliverSerial ==
    ASSUME SInv, NEW w \in Workers, Deliver(w)
    PROVE  SerialStep(w)
<1> DEFINE t   == workers[w].txn
           row == txns[t]
           new == [row EXCEPT !.delivery = "delivered"]
<1>1. workers[w].pc = "loaded" /\ workers[w].op = "deliver"
  BY DEF Deliver, AtStep
<1>2. t \in Txns /\ row \in Row /\ Agrees(journal, t, row) /\ CanDeliver(row)
  BY <1>1, BusyFresh DEF Admits
<1>3. UNCHANGED journal /\ txns' = [txns EXCEPT ![t] = new] /\ Answer(w)
  BY DEF Deliver, SInv, IInv, TypeOK
<1>4. /\ new \in Row /\ new.approval = row.approval /\ new.approval_entry = row.approval_entry
      /\ SamePayment(row, new)
  BY <1>2 DEF Row, SamePayment
<1>5. Agrees(journal, t, new)
  <2> HIDE DEF new, row, t
  <2> QED
    BY <1>2, <1>4 DEF Agrees, SamePayment, CanDeliver
<1> HIDE DEF new
<1>6. Settled(journal', txns')
  BY <1>2, <1>3, <1>4, <1>5, NoRowIsNoRow, RowSerial
<1>7. \A u \in Txns : KeepsDelivered(u)
  BY <1>2, <1>3, OneRowDelivered DEF CanDeliver
<1> QED
  BY <1>3, <1>6, <1>7, AnsweredFresh DEF SerialStep

LEMMA CommitApprovalSerial ==
    ASSUME SInv, NEW w \in Workers, CommitApproval(w)
    PROVE  SerialStep(w)
<1> DEFINE t     == workers[w].txn
           copy  == workers[w].copy
           row   == txns[t]
           n     == Len(journal)
           new   == Accepted(copy, n + 1)
           entry == ApprovalEntry(t, copy)
<1>1. workers[w].pc = "checked" /\ workers[w].op = "approve" /\ IInv
  BY DEF CommitApproval, AtStep, SInv
<1>2. /\ t \in Txns /\ row \in Row /\ copy \in Row /\ Agrees(journal, t, row)
      /\ SamePayment(row, copy) /\ row.delivery = "not_delivered"
      /\ copy.delivery = "not_delivered" /\ row.approval = "pending"
  BY <1>1, BusyFresh
<1>3. copy.box \in Boxes
  BY <1>1, WorkerBusy
<1>4. /\ entry \in Entry /\ entry.type = "transaction" /\ entry.ref = t
      /\ entry.reverses = NoEntry
  BY <1>2, <1>3, ApprovalEntryType
<1>5. Post(<<entry>>) /\ txns' = [txns EXCEPT ![t] = new] /\ Answer(w)
  BY DEF CommitApproval
<1>6. n + 1 \in Nat
  BY <1>1 DEF IInv, TypeOK
<1>7. /\ new \in Row /\ new.approval = "accepted" /\ new.approval_entry = n + 1
      /\ SamePayment(row, new) /\ new.delivery = "not_delivered"
  <2> HIDE DEF copy, n, row
  <2>1. /\ new \in Row /\ new.approval = "accepted" /\ new.approval_entry = n + 1
        /\ new.payment = copy.payment /\ new.payment_entry = copy.payment_entry
        /\ new.delivery = copy.delivery
    BY <1>2, <1>6, AcceptedType
  <2> QED
    BY <1>2, <2>1 DEF SamePayment
<1> HIDE DEF new, entry
<1>8. /\ Appendable(<<entry>>) /\ Local(<<entry>>, t)
      /\ \A type \in EntryType :
            StandingIn(journal', t, type) =
               IF type = "transaction" THEN StandingIn(journal, t, type) \cup {n + 1}
               ELSE StandingIn(journal, t, type)
  BY <1>1, <1>2, <1>4, <1>5, OnePostingStands
<1>9. Agrees(journal', t, new)
  <2> HIDE DEF t, row, n, copy
  <2> QED
    BY <1>2, <1>7, <1>8 DEF Agrees, SamePayment, EntryType
<1>10. Settled(journal', txns')
  BY <1>2, <1>5, <1>7, <1>8, <1>9, NoRowIsNoRow, OthersAgree
<1>11. \A u \in Txns : KeepsDelivered(u)
  BY <1>2, <1>5, OneRowDelivered
<1> QED
  BY <1>5, <1>10, <1>11, AnsweredFresh DEF SerialStep

LEMMA PaySerial ==
    ASSUME SInv, NEW w \in Workers, Pay(w)
    PROVE  SerialStep(w)
<1> DEFINE t     == workers[w].txn
           row   == txns[t]
           n     == Len(journal)
           new   == [row EXCEPT !.payment = "paid", !.payment_entry = n + 1]
           entry == Posting("settlement", t, PaymentLines(workers[w].copy))
<1>1. workers[w].pc = "loaded" /\ workers[w].op = "pay" /\ IInv
  BY DEF Pay, AtStep, SInv
<1>2. /\ t \in Txns /\ row \in Row /\ workers[w].copy \in Row /\ Agrees(journal, t, row)
      /\ CanPay(row)
  BY <1>1, BusyFresh DEF Admits
<1>3. /\ entry \in Entry /\ entry.type = "settlement" /\ entry.ref = t
      /\ entry.reverses = NoEntry
  BY <1>2, PaymentLinesType, PostingType DEF EntryType
<1>4. Post(<<entry>>) /\ txns' = [txns EXCEPT ![t] = new] /\ Answer(w)
  BY DEF Pay, SInv, IInv, TypeOK
<1>5. n + 1 \in Nat
  BY <1>1 DEF IInv, TypeOK
<1>6. /\ new \in Row /\ new.approval = row.approval /\ new.approval_entry = row.approval_entry
      /\ new.payment = "paid" /\ new.payment_entry = n + 1 /\ new.delivery = row.delivery
  <2> HIDE DEF n, row
  <2> QED
    BY <1>2, <1>5 DEF Row
<1>7. \E p, e : new = [row EXCEPT !.payment = p, !.payment_entry = e]
  OBVIOUS
<1> HIDE DEF new, entry
<1>8. /\ Appendable(<<entry>>) /\ Local(<<entry>>, t)
      /\ \A type \in EntryType :
            StandingIn(journal', t, type) =
               IF type = "settlement" THEN StandingIn(journal, t, type) \cup {n + 1}
               ELSE StandingIn(journal, t, type)
  <2> HIDE DEF t, n, row
  <2>1. /\ Appendable(<<entry>>) /\ Local(<<entry>>, t)
        /\ \A u \in Txns, type \in EntryType :
              StandingIn(journal', u, type) =
                 IF u = t /\ type = entry.type
                 THEN StandingIn(journal, u, type) \cup {Len(journal) + 1}
                 ELSE StandingIn(journal, u, type)
    BY <1>1, <1>2, <1>3, <1>4, OnePostingStands
  <2> QED
    BY <1>2, <1>3, <2>1 DEF n
<1>9. Agrees(journal', t, new)
  <2> HIDE DEF t, row, n
  <2> QED
    BY <1>2, <1>6, <1>8 DEF Agrees, CanPay, EntryType
<1>10. Settled(journal', txns')
  BY <1>2, <1>4, <1>6, <1>8, <1>9, NoRowIsNoRow, OthersAgree
<1>11. \A u \in Txns : KeepsDelivered(u)
  BY <1>2, <1>4, <1>7, OneRowDelivered
<1> QED
  BY <1>4, <1>10, <1>11, AnsweredFresh DEF SerialStep

LEMMA SetLimitSerial ==
    ASSUME SInv, NEW w \in Workers, NEW m, NEW c, NEW x, SetLimit(w, m, c, x)
    PROVE  SerialStep(w)
  BY IdleWorker, QuietSerial DEF SetLimit

LEMMA ReverseSerial ==
    ASSUME SInv, NEW w \in Workers, Reverse(w)
    PROVE  SerialStep(w)
<1> DEFINE t    == workers[w].txn
           row  == txns[t]
           undo == EntriesToUndo(row)
           new  == Undone(row)
           es   == ReverseEntries(w)
           k    == Len(undo)
<1>1. workers[w].pc = "loaded" /\ workers[w].op = "reverse" /\ IInv
  BY DEF Reverse, AtStep, SInv
<1>2. /\ t \in Txns /\ row \in Row /\ workers[w].copy = row /\ Agrees(journal, t, row)
      /\ CanReverse(row) /\ RowFits(journal, t, row)
  BY <1>1, BusyFresh DEF Admits
<1>3. /\ row.approval = "accepted" /\ row.delivery = "not_delivered"
      /\ row.approval_entry # NoEntry
  BY <1>2 DEF CanReverse, RowFits, NamesPosted, Row
<1>4. /\ Appendable(es) /\ Post(es)
      /\ k \in {1, 2} /\ Len(es) = k /\ DOMAIN es = 1 .. k /\ DOMAIN undo = 1 .. k
      /\ undo[k] = row.approval_entry
      /\ \A i \in 1 .. k : /\ undo[i] \in DOMAIN journal /\ es[i].reverses = undo[i]
                           /\ es[i].type = "reversal" /\ es[i].ref = NoRef
  <2>1. es = ReverseEntries(w) /\ undo = EntriesToUndo(workers[w].copy)
    BY <1>2
  <2> HIDE DEF es, undo, row
  <2>2. /\ Appendable(es) /\ Post(es)
        /\ k \in {1, 2} /\ Len(es) = k /\ DOMAIN es = 1 .. k /\ DOMAIN undo = 1 .. k
        /\ undo[k] = workers[w].copy.approval_entry
        /\ \A i \in 1 .. k : /\ undo[i] \in DOMAIN journal /\ es[i].reverses = undo[i]
                             /\ es[i].type = "reversal" /\ es[i].ref = NoRef
    BY <1>1, <2>1, ReverseAppends
  <2> QED
    BY <1>2, <2>2
<1>5. txns' = [txns EXCEPT ![t] = new] /\ Answer(w)
  BY <1>2 DEF Reverse
<1>6. /\ row.payment_entry # NoEntry => k = 2 /\ undo[1] = row.payment_entry
      /\ row.payment_entry = NoEntry => k = 1
  BY DEF EntriesToUndo
<1>7. /\ new \in Row /\ new.approval = "reversed" /\ new.delivery = "not_delivered"
      /\ new.payment = IF row.payment_entry # NoEntry THEN "unpaid" ELSE row.payment
  <2> HIDE DEF row
  <2> QED
    BY <1>2, <1>3 DEF Undone, Row
<1> HIDE DEF new, es, undo, k
<1>8. Local(es, t)
  <2> SUFFICES ASSUME NEW i \in 1 .. k
               PROVE  journal[undo[i]].ref = t
    BY <1>4 DEF Local
  <2>1. \/ undo[i] = row.approval_entry
        \/ row.payment_entry # NoEntry /\ undo[i] = row.payment_entry
    <3>1. i = k \/ (k = 2 /\ i = 1)
      BY <1>4
    <3>2. k = 2 => row.payment_entry # NoEntry /\ undo[1] = row.payment_entry
      BY <1>6
    <3> QED
      BY <1>4, <3>1, <3>2
  <2> QED
    BY <1>2, <1>3, <2>1 DEF RowFits, NamesPosted
<1>9. /\ PostedFor(es, t, "transaction") = {} /\ PostedFor(es, t, "settlement") = {}
      /\ row.approval_entry \in Mirrored(es)
      /\ row.payment_entry # NoEntry => row.payment_entry \in Mirrored(es)
  <2>1. \A i \in 1 .. k : es[i].type \notin {"transaction", "settlement"}
    BY <1>4
  <2>2. PostedFor(es, t, "transaction") = {} /\ PostedFor(es, t, "settlement") = {}
    BY <1>4, <2>1 DEF PostedFor
  <2>3. k \in 1 .. k /\ es[k].reverses = row.approval_entry
    BY <1>4
  <2>4. row.payment_entry # NoEntry => 1 \in 1 .. k /\ es[1].reverses = row.payment_entry
    BY <1>4, <1>6
  <2> QED
    BY <1>4, <2>2, <2>3, <2>4 DEF Mirrored
<1>10. Agrees(journal', t, new)
  <2>1. /\ StandingIn(journal', t, "transaction")
              = StandingIn(journal, t, "transaction") \ Mirrored(es)
        /\ StandingIn(journal', t, "settlement")
              = StandingIn(journal, t, "settlement") \ Mirrored(es)
    BY <1>1, <1>4, <1>9, StandingAfterPost
  <2>2. StandingIn(journal', t, "transaction") = {}
    BY <1>2, <1>3, <1>9, <2>1 DEF Agrees
  <2>3. row.payment = "paid" => row.payment_entry # NoEntry
    BY <1>2 DEF RowFits, NamesPosted
  <2>4. StandingIn(journal', t, "settlement") = {} /\ new.payment # "paid"
    <3> HIDE DEF row, t
    <3> QED
      BY <1>2, <1>7, <1>9, <2>1, <2>3 DEF Agrees
  <2> QED
    BY <1>7, <2>2, <2>4 DEF Agrees
<1>11. Settled(journal', txns')
  <2> HIDE DEF t
  <2> QED
    BY <1>2, <1>4, <1>5, <1>7, <1>8, <1>10, NoRowIsNoRow, OthersAgree
<1>12. \A u \in Txns : KeepsDelivered(u)
  BY <1>2, <1>3, <1>5, OneRowDelivered
<1> QED
  BY <1>5, <1>11, <1>12, AnsweredFresh DEF SerialStep

LEMMA CommitEditSerial ==
    ASSUME SInv, NEW w \in Workers, CommitEdit(w)
    PROVE  SerialStep(w)
<1> DEFINE t    == workers[w].txn
           copy == workers[w].copy
           row  == txns[t]
           n    == Len(journal)
           new  == Accepted(copy, n + 2)
           es   == EditEntries(w)
<1>1. workers[w].pc = "checked" /\ workers[w].op = "edit" /\ IInv
  BY DEF CommitEdit, AtStep, SInv
<1>2. /\ t \in Txns /\ row \in Row /\ copy \in Row /\ Agrees(journal, t, row)
      /\ RowFits(journal, t, row) /\ SamePayment(row, copy)
      /\ row.delivery = "not_delivered" /\ copy.delivery = "not_delivered"
      /\ row.approval = "accepted" /\ workers[w].undo = row.approval_entry
  BY <1>1, BusyFresh
<1>3. /\ Appendable(es) /\ Post(es) /\ DOMAIN es = {1, 2}
      /\ row.approval_entry \in DOMAIN journal /\ es[1].reverses = row.approval_entry
      /\ es[1].type = "reversal" /\ es[1].ref = NoRef
      /\ es[2].type = "transaction" /\ es[2].ref = t /\ es[2].reverses = NoEntry
  <2>1. es = EditEntries(w)
    OBVIOUS
  <2> HIDE DEF es
  <2> QED
    BY <1>1, <1>2, <2>1, EditAppends
<1>4. txns' = [txns EXCEPT ![t] = new] /\ Answer(w)
  BY DEF CommitEdit
<1>5. n + 2 \in Nat
  BY <1>1 DEF IInv, TypeOK
<1>6. /\ new \in Row /\ new.approval = "accepted" /\ new.approval_entry = n + 2
      /\ SamePayment(row, new) /\ new.delivery = "not_delivered"
  <2> HIDE DEF copy, n, row
  <2>1. /\ new \in Row /\ new.approval = "accepted" /\ new.approval_entry = n + 2
        /\ new.payment = copy.payment /\ new.payment_entry = copy.payment_entry
        /\ new.delivery = copy.delivery
    BY <1>2, <1>5, AcceptedType
  <2> QED
    BY <1>2, <2>1 DEF SamePayment
<1> HIDE DEF new, es
<1>7. Local(es, t)
  <2>1. journal[row.approval_entry].ref = t
    BY <1>2, <1>3 DEF RowFits, NamesPosted
  <2> QED
    BY <1>3, <2>1 DEF Local
<1>8. /\ PostedFor(es, t, "transaction") = {n + 2} /\ PostedFor(es, t, "settlement") = {}
      /\ Mirrored(es) = {row.approval_entry, NoEntry}
  <2>1. /\ {i \in DOMAIN es : es[i].type = "transaction" /\ es[i].ref = t} = {2}
        /\ {i \in DOMAIN es : es[i].type = "settlement" /\ es[i].ref = t} = {}
    BY <1>3
  <2>2. Mirrored(es) = {row.approval_entry, NoEntry}
    BY <1>3 DEF Mirrored
  <2> QED
    BY <2>1, <2>2 DEF PostedFor
<1>9. Agrees(journal', t, new)
  <2>1. /\ StandingIn(journal', t, "transaction")
              = (StandingIn(journal, t, "transaction") \ {row.approval_entry, NoEntry}) \cup {n + 2}
        /\ StandingIn(journal', t, "settlement")
              = StandingIn(journal, t, "settlement") \ {row.approval_entry, NoEntry}
    BY <1>1, <1>3, <1>8, StandingAfterPost
  <2>2. StandingIn(journal', t, "transaction") = {n + 2}
    BY <1>2, <2>1 DEF Agrees
  <2>3. /\ row.approval_entry \notin StandingIn(journal, t, "settlement")
        /\ NoEntry \notin StandingIn(journal, t, "settlement")
    <3>1. row.approval_entry # NoEntry /\ journal[row.approval_entry].type = "transaction"
      BY <1>2, <1>3 DEF RowFits, NamesPosted
    <3> QED
      BY <1>1, <3>1, NoEntryNeverStands DEF StandingIn
  <2>4. StandingIn(journal', t, "settlement") = StandingIn(journal, t, "settlement")
    BY <2>1, <2>3
  <2> HIDE DEF t, row, n
  <2> QED
    BY <1>2, <1>6, <2>2, <2>4 DEF Agrees, SamePayment
<1>10. Settled(journal', txns')
  <2> HIDE DEF t
  <2> QED
    BY <1>2, <1>3, <1>4, <1>6, <1>7, <1>9, NoRowIsNoRow, OthersAgree
<1>11. \A u \in Txns : KeepsDelivered(u)
  BY <1>2, <1>4, OneRowDelivered
<1> QED
  BY <1>4, <1>10, <1>11, AnsweredFresh DEF SerialStep

LEMMA SettleSerial ==
    ASSUME SInv, NEW w \in Workers, NEW op, NEW lines \in Seq(Line), Settle(w, op, lines)
    PROVE  SerialStep(w)
<1> DEFINE entry == Posting("settlement", NoRef, lines)
<1>1. /\ entry \in Entry /\ entry.type = "settlement" /\ entry.ref = NoRef
      /\ entry.reverses = NoEntry
  BY PostingType DEF EntryType
<1>2. Post(<<entry>>) /\ UNCHANGED <<txns, limits, workers>> /\ IsIdle(w) /\ IInv
  BY DEF Settle, SInv
<1> HIDE DEF entry
<1>3. \A u \in Txns, type \in EntryType :
         StandingIn(journal', u, type) = StandingIn(journal, u, type)
  BY <1>1, <1>2, OnePostingStands, RefAssumption
<1>4. Settled(journal', txns')
  BY <1>2, <1>3 DEF SInv, Settled, NothingStands, Agrees, EntryType
<1>5. \A u \in Txns : KeepsDelivered(u)
  BY <1>2, NoRowDelivered
<1> QED
  BY <1>2, <1>4, <1>5, IdleWorker DEF SerialStep

LEMMA SettlementsSerial ==
    ASSUME SInv, NEW w \in Workers, NEW c \in Currencies, NEW x \in SettleAmounts
    PROVE  /\ \A m \in Members, b \in Boxes :
                Deposit(w, m, b, c, x) \/ Withdraw(w, m, b, c, x) => SerialStep(w)
           /\ \A m \in Members : MemberPayment(w, m, c, x) => SerialStep(w)
           /\ \A b \in Boxes, direction \in {"in", "out"} :
                AdjustBox(w, b, c, x, direction) => SerialStep(w)
<1>1. x \in Int
  BY InputAssumption
<1>2. /\ \A m \in Members : SmallOffice(m, c) \in Account
      /\ \A b \in Boxes : BoxAccount(b, c) \in Account
      /\ TenantAccount("shop_cash", c) \in Account
      /\ TenantAccount("adjustment", c) \in Account
  BY AccountType DEF TenantKinds
<1>3. ASSUME NEW m \in Members, NEW b \in Boxes, Deposit(w, m, b, c, x)
      PROVE  SerialStep(w)
  BY <1>1, <1>2, <1>3, TwoLinesType, SettleSerial DEF Deposit
<1>4. ASSUME NEW m \in Members, NEW b \in Boxes, Withdraw(w, m, b, c, x)
      PROVE  SerialStep(w)
  BY <1>1, <1>2, <1>4, TwoLinesType, SettleSerial DEF Withdraw
<1>5. ASSUME NEW m \in Members, MemberPayment(w, m, c, x)
      PROVE  SerialStep(w)
  BY <1>1, <1>2, <1>5, TwoLinesType, SettleSerial DEF MemberPayment
<1>6. ASSUME NEW b \in Boxes, NEW direction \in {"in", "out"}, AdjustBox(w, b, c, x, direction)
      PROVE  SerialStep(w)
  <2>1. /\ <<Debit(BoxAccount(b, c), x), Credit(TenantAccount("adjustment", c), x)>> \in Seq(Line)
        /\ <<Debit(TenantAccount("adjustment", c), x), Credit(BoxAccount(b, c), x)>> \in Seq(Line)
    BY <1>1, <1>2, TwoLinesType
  <2> QED
    BY <1>6, <2>1, SettleSerial DEF AdjustBox
<1> QED
  BY <1>3, <1>4, <1>5, <1>6

LEMMA NextSerial ==
    ASSUME NoManualReversal, SInv, Next
    PROVE  \E w \in Workers : GoodStep(w) /\ SerialStep(w) /\ OwnRow(w)
<1>1. PICK w \in Workers : TxnStep(w) \/ SettleStep(w)
  BY DEF Next
<1>2. IInv
  BY DEF SInv
<1>3. CASE TxnStep(w)
  <2>1. GoodStep(w)
    BY <1>2, <1>3, CreateGood, BeginGood, CheckApprovalGood, CommitApprovalGood, RejectGood,
       PayGood, DeliverGood, ReverseGood, CheckEditGood, CommitEditGood, FailGood DEF TxnStep
  <2>2. SerialStep(w)
    BY <1>3, CreateSerial, BeginSerial, CheckApprovalSerial, CommitApprovalSerial,
       RejectSerial, PaySerial, DeliverSerial, ReverseSerial, CheckEditSerial,
       CommitEditSerial, FailSerial DEF TxnStep
  <2> QED
    BY <1>2, <1>3, <2>1, <2>2, WritesOwnRow
<1>4. CASE SettleStep(w)
  <2>1. \A e : ~ReverseEntry(w, e)
    BY DEF NoManualReversal, ReverseEntry
  <2>2. GoodStep(w)
    BY <1>2, <1>4, <2>1, SettlementsGood, SetLimitGood DEF SettleStep
  <2>3. SerialStep(w)
    BY <1>4, <2>1, SettlementsSerial, SetLimitSerial DEF SettleStep
  <2> QED
    BY <1>2, <1>4, <2>2, <2>3, WritesOwnRow
<1> QED
  BY <1>1, <1>3, <1>4

LEMMA StutterSerial == SInv /\ UNCHANGED vars => SInv' /\ \A t \in Txns : KeepsDelivered(t)
<1> SUFFICES ASSUME SInv, UNCHANGED vars
             PROVE  SInv' /\ \A t \in Txns : KeepsDelivered(t)
  OBVIOUS
<1>1. IInv'
  BY StutterIInv DEF SInv
<1> QED
  BY <1>1, NoRowDelivered DEF vars, SInv

LEMMA SerialSteps ==
    ASSUME NoManualReversal, Apart, SInv, [Next]_vars
    PROVE  SInv' /\ \A t \in Txns : KeepsDelivered(t)
<1>1. CASE Next
  BY <1>1, NextSerial, SerialStepKeeps DEF SerialStep
<1>2. CASE UNCHANGED vars
  BY <1>2, StutterSerial
<1> QED
  BY <1>1, <1>2

(***************************************************************************)
(*                              Theorems                                   *)
(***************************************************************************)

(* While requests about one transaction do not overlap and nobody reverses *)
(* an entry by hand, statuses and standing entries agree in every          *)
(* reachable state.                                                        *)
THEOREM SerialInvariance == ASSUME NoManualReversal PROVE Spec /\ []Apart => []SInv
<1>1. SInv /\ Apart /\ [Next]_vars => SInv'
  BY SerialSteps
<1> QED
  BY <1>1, InitSInv, PTL DEF Spec

(* approve, pay, reverse and edit: the entries of a transaction that stand *)
(* in the ledger are exactly those its statuses announce.                  *)
THEOREM LedgerFollowsStatusSerial ==
    ASSUME NoManualReversal PROVE Spec /\ []Apart => []LedgerFollowsStatus
<1>1. SInv => LedgerFollowsStatus
  BY DEF SInv, Settled, Agrees, LedgerFollowsStatus, Standing, StandingIn, Created
<1> QED
  BY <1>1, SerialInvariance, PTL

(* mark_delivered: no later request changes a delivered transaction, its   *)
(* payment excepted.                                                       *)
THEOREM DeliveryIsFinalSerial ==
    ASSUME NoManualReversal PROVE Spec /\ []Apart => DeliveryIsFinal
<1> DEFINE A == \A t \in Txns :
                   Created(t) /\ txns[t].delivery = "delivered" =>
                      txns'[t] = [txns[t] EXCEPT !.payment = txns'[t].payment,
                                                 !.payment_entry = txns'[t].payment_entry]
<1>1. SInv /\ Apart /\ [Next]_vars => [A]_vars
  BY SerialSteps DEF KeepsDelivered
<1> HIDE DEF A
<1>2. Spec /\ []Apart => [][A]_vars
  BY <1>1, SerialInvariance, PTL DEF Spec
<1> QED
  BY <1>2 DEF DeliveryIsFinal, A

(* mark_paid: a transaction is collected once.  Requests that follow one   *)
(* another find the payment on the row (the run double_payment shows two   *)
(* that overlap).                                                          *)
THEOREM PaidOnceSerial == ASSUME NoManualReversal PROVE Spec /\ []Apart => []PaidOnce
<1>1. SInv => PaidOnce
  BY DEF SInv, Settled, NothingStands, Agrees, PaidOnce, Standing, StandingIn
<1> QED
  BY <1>1, SerialInvariance, PTL

(* The approval entry of an accepted transaction has not been reversed:    *)
(* every service that reverses it writes the row too (ReverseEntryView,    *)
(* excluded here, does not: the run manual_reversal).                      *)
THEOREM AcceptedStandsSerial ==
    ASSUME NoManualReversal PROVE Spec /\ []Apart => []AcceptedStands
<1>1. SInv => AcceptedStands
  <2> SUFFICES ASSUME SInv, NEW t \in Txns, Created(t), txns[t].approval = "accepted"
               PROVE  ~Reversed(journal, txns[t].approval_entry)
    BY DEF AcceptedStands
  <2>1. txns[t].approval_entry \in StandingIn(journal, t, "transaction")
    BY DEF SInv, Settled, Agrees, Created
  <2> QED
    BY <2>1 DEF StandingIn
<1> QED
  BY <1>1, SerialInvariance, PTL

=============================================================================
