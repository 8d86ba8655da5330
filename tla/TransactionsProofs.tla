------------------------- MODULE TransactionsProofs -------------------------
(***************************************************************************)
(* Theorems about Transactions, for any number of workers, members, boxes, *)
(* currencies and transactions, and any inputs.                            *)
(*                                                                         *)
(* The invariants of the rows are not inductive: a worker overwrites a row *)
(* with the copy it loaded, so what holds of the rows must hold of every   *)
(* copy too, and the journal may only have grown since the copy was taken. *)
(* IInv adds exactly that.                                                 *)
(***************************************************************************)
EXTENDS Transactions, TLAPS

(***************************************************************************)
(*               Lemmas about the operators of Ledger                      *)
(***************************************************************************)

LEMMA AccountType ==
    ASSUME NEW c \in Currencies
    PROVE  /\ \A m \in Members : SmallOffice(m, c) \in Account
           /\ \A b \in Boxes : BoxAccount(b, c) \in Account
           /\ \A k \in TenantKinds : TenantAccount(k, c) \in Account
  BY DEF Account, SmallOffice, BoxAccount, TenantAccount, MemberKinds, BoxKinds

LEMMA LineType ==
    ASSUME NEW a \in Account, NEW x \in Int
    PROVE  Debit(a, x) \in Line /\ Credit(a, x) \in Line
  BY DEF Debit, Credit, Line

(* A column keeps an integer, whatever it is given.                        *)
LEMMA StoredType ==
    ASSUME NEW x \in Int
    PROVE  Stored(x) \in Int
<1>1. ASSUME NEW y \in Int PROVE Nearest(y) \in Int
  <2>1. 2 * y + Unit \in Int /\ 2 * Unit \in Nat \ {0}
    BY UnitAssumption
  <2>2. (2 * y + Unit) \div (2 * Unit) \in Int
    BY <2>1
  <2> QED
    BY <2>2, UnitAssumption DEF Nearest
<1> QED
  BY <1>1 DEF Stored

LEMMA SavedType ==
    ASSUME NEW lines \in Seq(Line)
    PROVE  Saved(lines) \in Seq(Line) /\ Len(Saved(lines)) = Len(lines)
<1>1. \A i \in 1 .. Len(lines) : lines[i] \in Line
  OBVIOUS
<1>2. \A i \in 1 .. Len(lines) :
         [account |-> lines[i].account,
          debit |-> Stored(lines[i].debit), credit |-> Stored(lines[i].credit)] \in Line
  BY <1>1, StoredType DEF Line
<1>3. Len(lines) \in Nat /\ DOMAIN lines = 1 .. Len(lines)
  OBVIOUS
<1> DEFINE f(i) == [account |-> lines[i].account,
                    debit |-> Stored(lines[i].debit), credit |-> Stored(lines[i].credit)]
<1>4. Saved(lines) = [i \in 1 .. Len(lines) |-> f(i)]
  BY <1>3 DEF Saved
<1>5. \A i \in 1 .. Len(lines) : f(i) \in Line
  BY <1>2
<1> HIDE DEF f
<1> QED
  BY <1>3, <1>4, <1>5

LEMMA PostingType ==
    ASSUME NEW type \in EntryType, NEW ref \in Txns \cup {NoRef}, NEW lines \in Seq(Line)
    PROVE  /\ Posting(type, ref, lines) \in Entry
           /\ Posting(type, ref, lines).type = type
           /\ Posting(type, ref, lines).ref = ref
           /\ Posting(type, ref, lines).lines = Saved(lines)
           /\ Posting(type, ref, lines).reverses = NoEntry
  BY SavedType DEF Posting, Entry, NoEntry

LEMMA MirrorLinesType ==
    ASSUME NEW lines \in Seq(Line)
    PROVE  MirrorLines(lines) \in Seq(Line) /\ Len(MirrorLines(lines)) = Len(lines)
<1>1. \A i \in 1 .. Len(lines) : lines[i] \in Line
  OBVIOUS
<1>2. \A i \in 1 .. Len(lines) :
         [account |-> lines[i].account, debit |-> lines[i].credit, credit |-> lines[i].debit]
            \in Line
  BY <1>1 DEF Line
<1> QED
  BY <1>2 DEF MirrorLines

LEMMA MirrorType ==
    ASSUME NEW history \in Seq(Entry), NEW e \in DOMAIN history
    PROVE  /\ Mirror(history, e) \in Entry
           /\ Mirror(history, e).type = "reversal"
           /\ Mirror(history, e).reverses = e
           /\ Mirror(history, e).lines = MirrorLines(history[e].lines)
<1>1. e \in Nat /\ history[e] \in Entry
  OBVIOUS
<1>2. history[e].lines \in Seq(Line)
  BY <1>1 DEF Entry
<1>3. MirrorLines(history[e].lines) \in Seq(Line)
  BY <1>2, MirrorLinesType
<1> QED
  BY <1>1, <1>3 DEF Mirror, Entry, EntryType

LEMMA MirrorSwapsTotals ==
    ASSUME NEW lines \in Seq(Line), NEW c
    PROVE  /\ SideTotal(MirrorLines(lines), "debit", c) = SideTotal(lines, "credit", c)
           /\ SideTotal(MirrorLines(lines), "credit", c) = SideTotal(lines, "debit", c)
<1> DEFINE side(l, s) == [i \in DOMAIN l |-> IF l[i].account.currency = c THEN l[i][s] ELSE 0]
<1>1. side(MirrorLines(lines), "debit") = side(lines, "credit")
  BY DEF MirrorLines
<1>2. side(MirrorLines(lines), "credit") = side(lines, "debit")
  BY DEF MirrorLines
<1> QED
  BY <1>1, <1>2 DEF SideTotal

(* reverse_entry: the checks of post_entry refuse the mirror of a stored   *)
(* entry exactly when its lines, as the columns keep them, do not balance. *)
THEOREM MirrorPostable ==
    ASSUME NEW lines \in Seq(Line), Len(lines) >= 2, Storable(lines)
    PROVE  Postable(MirrorLines(lines)) <=> Balanced(lines)
<1>1. Len(MirrorLines(lines)) >= 2
  BY MirrorLinesType
<1>2. ASSUME NEW i \in DOMAIN MirrorLines(lines)
      PROVE  HasValue(MirrorLines(lines)[i])
  <2>1. i \in DOMAIN lines
    BY DEF MirrorLines
  <2>2. MirrorLines(lines)[i].debit = lines[i].credit /\ MirrorLines(lines)[i].credit = lines[i].debit
    BY <2>1 DEF MirrorLines
  <2> QED
    BY <2>1, <2>2 DEF Storable, HasValue
<1>3. Balanced(MirrorLines(lines)) <=> Balanced(lines)
  BY MirrorSwapsTotals DEF Balanced
<1> QED
  BY <1>1, <1>2, <1>3 DEF Postable

(***************************************************************************)
(*               What every step keeps                                     *)
(***************************************************************************)

(* Only an approval puts a transaction on a box, and it stays on one.      *)
Boxed(row) == row.approval \in {"accepted", "reversed"} => row.box \in Boxes

(* What was never approved was never posted or paid, and a transaction in  *)
(* hand that is unpaid has no payment entry; only a reversed one keeps it. *)
Unpaid(row) ==
    /\ row.approval = "pending" => row.approval_entry = NoEntry /\ row.payment = "unpaid"
    /\ row.approval \in {"pending", "accepted"} /\ row.payment = "unpaid"
          => row.payment_entry = NoEntry

RowFits(history, t, row) ==
    /\ row \in Row
    /\ NamesPosted(history, t, row)
    /\ Boxed(row)
    /\ Unpaid(row)

SameParties(row, copy) ==
    /\ copy.by = row.by
    /\ copy.currency_received = row.currency_received
    /\ copy.currency_delivered = row.currency_delivered

(* What a worker knows stays true while others run: its copy names entries *)
(* posted for its transaction, the guards of its service held of that copy,*)
(* and a transaction it saw posted is still a posted one.                  *)
Coherent(history, rows, x) ==
    x # Idle =>
      /\ x \in Busy
      /\ rows[x.txn] # NoRow
      /\ RowFits(history, x.txn, x.copy)
      /\ SameParties(rows[x.txn], x.copy)
      /\ x.pc = "loaded" =>
            /\ Admits(x.op, x.copy)
            /\ x.copy.approval_entry # NoEntry => rows[x.txn].approval_entry # NoEntry
      /\ x.pc = "checked" => x.copy.box \in Boxes /\ x.copy.approval = "pending"
      /\ x.pc = "checked" /\ x.op = "edit" =>
            x.undo \in DOMAIN history /\ history[x.undo].type = "transaction"

IInv ==
    /\ TypeOK
    /\ ReversalsCancel
    /\ ReversedIsUndone
    /\ DeliveredWasPosted
    /\ \A t \in Txns : Created(t) => RowFits(journal, t, txns[t])
    /\ \A w \in Workers : Coherent(journal, txns, workers[w])

(* A step appends to the journal entries that mirror nothing, or mirror    *)
(* different entries none of which had a mirror.                           *)
Grows(history, next) ==
    /\ Len(next) >= Len(history)
    /\ \A e \in DOMAIN history : next[e] = history[e]

Appendable(entries) ==
    /\ entries \in Seq(Entry)
    /\ \A i \in DOMAIN entries :
          \/ entries[i].reverses = NoEntry
          \/ \E e \in DOMAIN journal : ~Reversed(journal, e) /\ entries[i] = Mirror(journal, e)
    /\ \A i, j \in DOMAIN entries :
          entries[i].reverses = entries[j].reverses /\ entries[i].reverses # NoEntry => i = j

(* What a step does to one row.                                            *)
RowStep(t) ==
    /\ Created(t) => txns'[t] # NoRow /\ RowMovesForward(txns[t], txns'[t])
    /\ txns'[t] # NoRow =>
         /\ RowFits(journal', t, txns'[t])
         /\ txns'[t].approval = "reversed" => Reversed(journal', txns'[t].approval_entry)
         /\ txns'[t].delivery = "delivered" => txns'[t].approval_entry # NoEntry

GoodStep(w) ==
    /\ journal' \in Seq(Entry) /\ Grows(journal, journal') /\ ReversalsCancel'
    /\ txns' \in [Txns -> Row \cup {NoRow}]
    /\ \A t \in Txns : RowStep(t)
    /\ limits' \in [Members \X Currencies -> Int]
    /\ \E x : Coherent(journal', txns', x) /\ workers' = [workers EXCEPT ![w] = x]

LEMMA NoRowIsNoRow == NoRow \notin Row
  BY DEF NoRow, Row

LEMMA IdleIsNotBusy == Idle \notin Busy
  BY DEF Idle, Busy

LEMMA BusyPc ==
    ASSUME TypeOK, NEW w \in Workers, workers[w].pc # "idle"
    PROVE  workers[w] \in Busy /\ workers[w] # Idle
  BY DEF TypeOK, Idle

LEMMA PostGrows ==
    ASSUME TypeOK, NEW entries \in Seq(Entry), Post(entries)
    PROVE  /\ journal' \in Seq(Entry)
           /\ Len(journal') = Len(journal) + Len(entries)
           /\ Grows(journal, journal')
           /\ \A i \in DOMAIN entries : journal'[Len(journal) + i] = entries[i]
  BY DEF TypeOK, Post, Grows

LEMMA PostKeepsReversals ==
    ASSUME TypeOK, ReversalsCancel, NEW entries, Appendable(entries), Post(entries)
    PROVE  ReversalsCancel'
<1> DEFINE n == Len(journal)
           m == Len(entries)
<1>1. /\ journal' \in Seq(Entry) /\ journal \in Seq(Entry) /\ entries \in Seq(Entry)
      /\ Len(journal') = n + m
      /\ \A e \in 1 .. n : journal'[e] = journal[e]
      /\ \A i \in 1 .. m : journal'[n + i] = entries[i]
      /\ n \in Nat /\ m \in Nat
  BY PostGrows DEF TypeOK, Grows, Appendable
<1>2. ASSUME NEW r \in 1 .. n + m
      PROVE  r \in 1 .. n \/ \E i \in 1 .. m : r = n + i
  <2>1. CASE r > n
    <3>1. r - n \in 1 .. m /\ r = n + (r - n)
      BY <1>1, <2>1
    <3> QED
      BY <3>1
  <2> QED
    BY <1>1, <2>1
<1>3. \A r \in 1 .. n : journal[r].reverses # NoEntry =>
          /\ journal[r].reverses < r
          /\ journal[r].reverses \in Nat
  <2>1. \A r \in 1 .. n : journal[r] \in Entry
    BY <1>1
  <2>2. \A r \in 1 .. n : journal[r].reverses \in Nat
    BY <2>1 DEF Entry
  <2> QED
    BY <1>1, <2>2 DEF ReversalsCancel
<1>4. ASSUME NEW i \in 1 .. m, entries[i].reverses # NoEntry
      PROVE  /\ entries[i].reverses \in 1 .. n
             /\ entries[i].type = "reversal"
             /\ entries[i].lines = MirrorLines(journal[entries[i].reverses].lines)
             /\ \A s \in 1 .. n : journal[s].reverses # entries[i].reverses
             /\ \A k \in 1 .. m : entries[k].reverses = entries[i].reverses => k = i
  <2>1. PICK e \in DOMAIN journal : ~Reversed(journal, e) /\ entries[i] = Mirror(journal, e)
    BY <1>1, <1>4 DEF Appendable
  <2>2. /\ entries[i].reverses = e /\ entries[i].type = "reversal"
        /\ entries[i].lines = MirrorLines(journal[e].lines)
    BY <1>1, <2>1, MirrorType
  <2> QED
    BY <1>1, <1>4, <2>1, <2>2, SMTT(30) DEF Appendable, Reversed
<1> SUFFICES ASSUME NEW r \in 1 .. n + m, journal'[r].reverses # NoEntry
             PROVE  /\ journal'[r].reverses < r
                    /\ journal'[r].type = "reversal"
                    /\ journal'[r].lines = MirrorLines(journal'[journal'[r].reverses].lines)
                    /\ \A s \in 1 .. n + m :
                          journal'[s].reverses = journal'[r].reverses => s = r
  BY <1>1 DEF ReversalsCancel
<1>5. CASE r \in 1 .. n
  <2>1. journal'[r] = journal[r]
    BY <1>1, <1>5
  <2>2. journal[r].reverses \in 1 .. n
    BY <1>1, <1>3, <1>5, <2>1 DEF NoEntry
  <2>3. /\ journal[r].reverses < r /\ journal[r].type = "reversal"
        /\ journal[r].lines = MirrorLines(journal[journal[r].reverses].lines)
        /\ \A s \in 1 .. n : journal[s].reverses = journal[r].reverses => s = r
    BY <1>1, <1>5, <2>1 DEF ReversalsCancel
  <2>4. journal'[journal[r].reverses] = journal[journal[r].reverses]
    BY <1>1, <2>2
  <2>5. ASSUME NEW s \in 1 .. n + m, journal'[s].reverses = journal[r].reverses
        PROVE  s = r
    <3>1. CASE s \in 1 .. n
      BY <1>1, <2>3, <2>5, <3>1
    <3>2. ASSUME NEW i \in 1 .. m, s = n + i PROVE FALSE
      <4>1. entries[i].reverses = journal[r].reverses
        BY <1>1, <2>5, <3>2
      <4> QED
        BY <1>4, <1>5, <2>1, <4>1
    <3> QED
      BY <1>2, <3>1, <3>2
  <2> QED
    BY <2>1, <2>3, <2>4, <2>5
<1>6. ASSUME NEW i \in 1 .. m, r = n + i
      PROVE  /\ journal'[r].reverses < r
             /\ journal'[r].type = "reversal"
             /\ journal'[r].lines = MirrorLines(journal'[journal'[r].reverses].lines)
             /\ \A s \in 1 .. n + m :
                   journal'[s].reverses = journal'[r].reverses => s = r
  <2>1. journal'[r] = entries[i] /\ entries[i].reverses # NoEntry
    BY <1>1, <1>6
  <2>2. journal'[entries[i].reverses] = journal[entries[i].reverses]
    BY <1>1, <1>4, <2>1
  <2>3. entries[i].reverses < r
    BY <1>1, <1>4, <1>6, <2>1
  <2>4. ASSUME NEW s \in 1 .. n + m, journal'[s].reverses = entries[i].reverses
        PROVE  s = r
    <3>1. s \notin 1 .. n
      BY <1>1, <1>4, <2>1, <2>4
    <3>2. PICK k \in 1 .. m : s = n + k
      BY <1>2, <3>1
    <3>3. entries[k].reverses = entries[i].reverses
      BY <1>1, <2>4, <3>2
    <3> QED
      BY <1>4, <1>6, <2>1, <3>2, <3>3
  <2> QED
    BY <1>4, <2>1, <2>2, <2>3, <2>4
<1> QED
  BY <1>2, <1>5, <1>6

LEMMA NamesPostedGrows ==
    ASSUME NEW history \in Seq(Entry), NEW next \in Seq(Entry), Grows(history, next),
           NEW t, NEW row, NamesPosted(history, t, row)
    PROVE  NamesPosted(next, t, row)
<1>1. DOMAIN history \subseteq DOMAIN next
  BY DEF Grows
<1> QED
  BY <1>1 DEF NamesPosted, Grows

LEMMA ReversedGrows ==
    ASSUME NEW history \in Seq(Entry), NEW next \in Seq(Entry), Grows(history, next),
           NEW e, Reversed(history, e)
    PROVE  Reversed(next, e)
<1>1. DOMAIN history \subseteq DOMAIN next
  BY DEF Grows
<1> QED
  BY <1>1 DEF Reversed, Grows

LEMMA CoherentStable ==
    ASSUME IInv, journal' \in Seq(Entry), Grows(journal, journal'),
           \A t \in Txns : RowStep(t), NEW x, Coherent(journal, txns, x)
    PROVE  Coherent(journal', txns', x)
<1> SUFFICES ASSUME x # Idle
             PROVE  Coherent(journal', txns', x)
  BY DEF Coherent
<1>1. x \in Busy /\ x.txn \in Txns /\ x.copy \in Row
  BY DEF Coherent, Busy
<1>2. /\ txns[x.txn] # NoRow /\ txns'[x.txn] # NoRow
      /\ RowMovesForward(txns[x.txn], txns'[x.txn])
  BY <1>1 DEF Coherent, RowStep, Created
<1>3. RowFits(journal', x.txn, x.copy)
  BY NamesPostedGrows DEF Coherent, RowFits, IInv, TypeOK
<1>4. SameParties(txns'[x.txn], x.copy)
  BY <1>2 DEF Coherent, SameParties, RowMovesForward
<1>5. x.copy.approval_entry # NoEntry /\ x.pc = "loaded" => txns'[x.txn].approval_entry # NoEntry
  BY <1>2 DEF Coherent, RowMovesForward
<1>6. x.pc = "checked" /\ x.op = "edit" =>
         x.undo \in DOMAIN journal' /\ journal'[x.undo].type = "transaction"
  <2>1. DOMAIN journal \subseteq DOMAIN journal'
    BY DEF Grows, IInv, TypeOK
  <2> QED
    BY <2>1 DEF Coherent, Grows
<1> QED
  BY <1>1, <1>2, <1>3, <1>4, <1>5, <1>6 DEF Coherent

LEMMA GoodStepKeeps ==
    ASSUME IInv, NEW w \in Workers, GoodStep(w)
    PROVE  IInv'
<1>1. PICK x : Coherent(journal', txns', x) /\ workers' = [workers EXCEPT ![w] = x]
  BY DEF GoodStep
<1>2. ASSUME NEW v \in Workers
      PROVE  Coherent(journal', txns', workers'[v]) /\ workers'[v] \in {Idle} \cup Busy
  <2>1. workers'[v] = x \/ workers'[v] = workers[v]
    BY <1>1 DEF IInv, TypeOK
  <2>2. Coherent(journal', txns', workers[v])
    BY CoherentStable DEF GoodStep, IInv
  <2>3. Coherent(journal', txns', workers'[v])
    BY <1>1, <2>1, <2>2
  <2> QED
    BY <2>3 DEF Coherent
<1>3. TypeOK'
  <2>1. workers' \in [Workers -> {Idle} \cup Busy]
    BY <1>1, <1>2 DEF IInv, TypeOK
  <2> QED
    BY <2>1 DEF GoodStep, TypeOK
<1>4. ReversalsCancel'
  BY DEF GoodStep
<1>5. ReversedIsUndone'
  BY DEF GoodStep, RowStep, ReversedIsUndone, Created
<1>6. DeliveredWasPosted'
  BY DEF GoodStep, RowStep, DeliveredWasPosted, Created
<1>7. (\A t \in Txns : Created(t) => RowFits(journal, t, txns[t]))'
  BY DEF GoodStep, RowStep, Created
<1> QED
  BY <1>2, <1>3, <1>4, <1>5, <1>6, <1>7 DEF IInv

LEMMA GoodStepOnlyGrows ==
    ASSUME IInv, NEW w \in Workers, GoodStep(w)
    PROVE  /\ Len(journal') >= Len(journal)
           /\ \A e \in DOMAIN journal : journal'[e] = journal[e]
           /\ \A t \in Txns : Created(t) => RowMovesForward(txns[t], txns'[t])
  BY DEF GoodStep, Grows, RowStep

LEMMA InitIInv == Init => IInv
<1> SUFFICES ASSUME Init PROVE IInv
  OBVIOUS
<1>1. TypeOK
  BY DEF Init, TypeOK
<1>2. DOMAIN journal = {} /\ \A t \in Txns : ~Created(t)
  BY DEF Init, Created
<1>3. \A w \in Workers : Coherent(journal, txns, workers[w])
  BY DEF Init, Coherent
<1> QED
  BY <1>1, <1>2, <1>3 DEF IInv, ReversalsCancel, ReversedIsUndone, DeliveredWasPosted

(***************************************************************************)
(*               Types of what the handlers compute                        *)
(***************************************************************************)

LEMMA ConvertedType ==
    ASSUME NEW x \in Int, NEW rate \in Int
    PROVE  Converted(x, rate) \in Int
<1>1. x * rate \in Int /\ RateScale * Unit \in Nat \ {0}
  BY ConfigurationAssumption, UnitAssumption
<1>2. \A n \in Int, d \in Nat \ {0} : HalfEven(n, d) \in Int
  BY DEF HalfEven
<1> QED
  BY <1>1, <1>2, UnitAssumption DEF Converted

LEMMA RowNumbers ==
    ASSUME NEW row \in Row
    PROVE  /\ Owed(row) \in Int /\ OutCost(row) \in Int /\ Margin(row) \in Int
           /\ row.amount_delivered \in Int
           /\ MemberAccount(row) \in Account
           /\ row.currency_received \in Currencies /\ row.currency_delivered \in Currencies
<1>1. /\ row.amount \in Int /\ row.fee_charged \in Int /\ row.fee_cost \in Int
      /\ row.amount_delivered \in Int /\ row.by \in Members
      /\ row.currency_received \in Currencies /\ row.currency_delivered \in Currencies
  BY DEF Row
<1> QED
  BY <1>1, AccountType DEF Owed, OutCost, Margin, MemberAccount

LEMMA QuotedType ==
    ASSUME NEW row \in Row, NEW q \in Quote
    PROVE  /\ Quoted(row, q) \in Row
           /\ SameParties(row, Quoted(row, q))
           /\ Quoted(row, q).box \in Boxes
           /\ Quoted(row, q).approval = row.approval
           /\ Quoted(row, q).payment = row.payment
           /\ Quoted(row, q).delivery = row.delivery
           /\ Quoted(row, q).approval_entry = row.approval_entry
           /\ Quoted(row, q).payment_entry = row.payment_entry
<1>1. /\ q.box \in Boxes /\ q.fee_cost \in Int /\ q.fee_charged \in Int
      /\ q.exchange_rate \in Int /\ q.amount_delivered \in Int
  BY DEF Quote
<1>2. row.amount \in Int
  BY DEF Row
<1>3. Converted(row.amount, q.exchange_rate) \in Int
  BY <1>1, <1>2, ConvertedType
<1> DEFINE rate == IF IsDual(row) THEN q.exchange_rate ELSE NoRate
           delivered == IF ~IsDual(row) THEN row.amount
                        ELSE IF q.amount_delivered # 0 THEN q.amount_delivered
                        ELSE Converted(row.amount, q.exchange_rate)
<1>4. rate \in Int /\ delivered \in Int
  BY <1>1, <1>2, <1>3 DEF NoRate
<1>5. Quoted(row, q) = [row EXCEPT !.box = q.box, !.fee_cost = q.fee_cost,
                                   !.fee_charged = q.fee_charged, !.exchange_rate = rate,
                                   !.amount_delivered = delivered]
  BY DEF Quoted
<1> HIDE DEF rate, delivered
<1> QED
  BY <1>1, <1>4, <1>5 DEF Row, SameParties

LEMMA AcceptedType ==
    ASSUME NEW row \in Row, NEW e \in Nat
    PROVE  /\ Accepted(row, e) \in Row
           /\ SameParties(row, Accepted(row, e))
           /\ Accepted(row, e).approval = "accepted"
           /\ Accepted(row, e).approval_entry = e
           /\ Accepted(row, e).box = row.box
           /\ Accepted(row, e).payment = row.payment
           /\ Accepted(row, e).payment_entry = row.payment_entry
           /\ Accepted(row, e).delivery = row.delivery
<1> DEFINE rate == IF IsDual(row) THEN Stored(row.exchange_rate) ELSE NoRate
<1>1. /\ row.amount \in Int /\ row.fee_cost \in Int /\ row.fee_charged \in Int
      /\ row.amount_delivered \in Int /\ row.exchange_rate \in Int
  BY DEF Row
<1>2. /\ Stored(row.amount) \in Int /\ Stored(row.fee_cost) \in Int
      /\ Stored(row.fee_charged) \in Int /\ Stored(row.amount_delivered) \in Int
      /\ rate \in Int
  BY <1>1, StoredType DEF NoRate
<1>3. Accepted(row, e) = [row EXCEPT !.amount = Stored(row.amount), !.fee_cost = Stored(row.fee_cost),
                            !.fee_charged = Stored(row.fee_charged),
                            !.amount_delivered = Stored(row.amount_delivered),
                            !.exchange_rate = rate,
                            !.approval = "accepted", !.approval_entry = e]
  BY DEF Accepted, Columns, Row
<1> HIDE DEF rate
<1>4. Accepted(row, e) \in Row
  BY <1>2, <1>3 DEF Row
<1>5. SameParties(row, Accepted(row, e))
  BY <1>3 DEF Row, SameParties
<1> QED
  BY <1>3, <1>4, <1>5 DEF Row

LEMMA EnteredType ==
    ASSUME NEW S, NEW edit \in S \cup {Keep}, NEW old \in S
    PROVE  Entered(edit, old) \in S
  BY DEF Entered

LEMMA EditTypes ==
    ASSUME NEW row \in Row, NEW edit \in Edit, row.box \in Boxes
    PROVE  /\ EditQuote(row, edit) \in Quote
           /\ Reopened(row, edit) \in Row
           /\ SameParties(row, Reopened(row, edit))
           /\ Reopened(row, edit).approval = "pending"
           /\ Reopened(row, edit).approval_entry = NoEntry
           /\ Reopened(row, edit).payment = row.payment
           /\ Reopened(row, edit).delivery = row.delivery
           /\ Reopened(row, edit).payment_entry = row.payment_entry
<1>1. /\ row.amount \in Int /\ row.fee_cost \in Int /\ row.fee_charged \in Int
      /\ row.exchange_rate \in Int
  BY DEF Row
<1>2. /\ edit.amount \in Int \cup {Keep} /\ edit.box \in Boxes \cup {Keep}
      /\ edit.fee_cost \in Int \cup {Keep} /\ edit.fee_charged \in Int \cup {Keep}
      /\ edit.exchange_rate \in Int \cup {Keep}
  BY DEF Edit
<1>3. /\ Entered(edit.amount, row.amount) \in Int
      /\ Entered(edit.box, row.box) \in Boxes
      /\ Entered(edit.fee_cost, row.fee_cost) \in Int
      /\ Entered(edit.fee_charged, row.fee_charged) \in Int
      /\ Entered(edit.exchange_rate, row.exchange_rate) \in Int
  BY <1>1, <1>2, EnteredType
<1>4. EditQuote(row, edit) \in Quote
  BY <1>3 DEF EditQuote, Quote
<1>5. /\ Reopened(row, edit) \in Row
      /\ SameParties(row, Reopened(row, edit))
      /\ Reopened(row, edit).approval = "pending"
      /\ Reopened(row, edit).approval_entry = NoEntry
      /\ Reopened(row, edit).payment = row.payment
      /\ Reopened(row, edit).delivery = row.delivery
      /\ Reopened(row, edit).payment_entry = row.payment_entry
  BY <1>3 DEF Reopened, Row, NoEntry, SameParties
<1> QED
  BY <1>4, <1>5

LEMMA ApprovalEntryType ==
    ASSUME NEW t \in Txns, NEW row \in Row, row.box \in Boxes
    PROVE  /\ ApprovalEntry(t, row) \in Entry
           /\ ApprovalEntry(t, row).type = "transaction"
           /\ ApprovalEntry(t, row).ref = t
           /\ ApprovalEntry(t, row).reverses = NoEntry
<1> DEFINE member == Debit(MemberAccount(row), Owed(row))
           profit == Credit(TenantAccount("fees_profit", row.currency_received), Margin(row))
           box(x) == Credit(BoxAccount(row.box, row.currency_delivered), x)
           fx(c)  == TenantAccount("fx_clearing", c)
           one    == <<member, box(OutCost(row)), profit>>
           two    == <<member, Credit(fx(row.currency_received), OutCost(row)), profit,
                       Debit(fx(row.currency_delivered), row.amount_delivered),
                       box(row.amount_delivered)>>
<1>1. /\ TenantAccount("fees_profit", row.currency_received) \in Account
      /\ BoxAccount(row.box, row.currency_delivered) \in Account
      /\ fx(row.currency_received) \in Account /\ fx(row.currency_delivered) \in Account
  BY RowNumbers, AccountType DEF TenantKinds
<1>2. /\ member \in Line /\ profit \in Line
      /\ box(OutCost(row)) \in Line /\ box(row.amount_delivered) \in Line
      /\ Credit(fx(row.currency_received), OutCost(row)) \in Line
      /\ Debit(fx(row.currency_delivered), row.amount_delivered) \in Line
  BY <1>1, RowNumbers, LineType
<1>3. one \in Seq(Line) /\ two \in Seq(Line)
  BY <1>2
<1>4. ApprovalLines(row) = one \/ ApprovalLines(row) = two
  BY DEF ApprovalLines
<1>5. ApprovalLines(row) \in Seq(Line)
  BY <1>3, <1>4
<1> QED
  BY <1>5, PostingType DEF ApprovalEntry, EntryType

LEMMA PaymentLinesType ==
    ASSUME NEW row \in Row
    PROVE  PaymentLines(row) \in Seq(Line)
<1>1. TenantAccount("shop_cash", row.currency_received) \in Account
  BY RowNumbers, AccountType DEF TenantKinds
<1>2. /\ Debit(TenantAccount("shop_cash", row.currency_received), Owed(row)) \in Line
      /\ Credit(MemberAccount(row), Owed(row)) \in Line
  BY <1>1, RowNumbers, LineType
<1> QED
  BY <1>2 DEF PaymentLines

(***************************************************************************)
(*               Every action is a good step                               *)
(***************************************************************************)

LEMMA IdleCoherent == \A history, rows : Coherent(history, rows, Idle)
  BY DEF Coherent

LEMMA NothingPosted ==
    ASSUME IInv, UNCHANGED journal
    PROVE  journal' \in Seq(Entry) /\ Grows(journal, journal') /\ ReversalsCancel'
  BY DEF IInv, TypeOK, Grows, ReversalsCancel

LEMMA Posted ==
    ASSUME IInv, NEW entries, Appendable(entries), Post(entries)
    PROVE  journal' \in Seq(Entry) /\ Grows(journal, journal') /\ ReversalsCancel'
  BY PostGrows, PostKeepsReversals DEF IInv, Appendable

LEMMA RowKept ==
    ASSUME IInv, journal' \in Seq(Entry), Grows(journal, journal'),
           NEW t \in Txns, txns'[t] = txns[t]
    PROVE  RowStep(t)
<1>1. RowMovesForward(txns[t], txns'[t])
  BY DEF RowMovesForward
<1>2. CASE txns[t] = NoRow
  BY <1>2 DEF RowStep, Created
<1>3. CASE txns[t] # NoRow
  <2>1. RowFits(journal', t, txns'[t])
    BY <1>3, NamesPostedGrows DEF IInv, TypeOK, RowFits, Created
  <2>2. txns[t].approval = "reversed" => Reversed(journal', txns[t].approval_entry)
    BY <1>3, ReversedGrows DEF IInv, TypeOK, ReversedIsUndone, Created
  <2>3. txns[t].delivery = "delivered" => txns[t].approval_entry # NoEntry
    BY <1>3 DEF IInv, DeliveredWasPosted, Created
  <2> QED
    BY <1>1, <1>3, <2>1, <2>2, <2>3 DEF RowStep, Created
<1> QED
  BY <1>2, <1>3

LEMMA RowsKept ==
    ASSUME IInv, journal' \in Seq(Entry), Grows(journal, journal'), UNCHANGED txns
    PROVE  txns' \in [Txns -> Row \cup {NoRow}] /\ \A t \in Txns : RowStep(t)
  BY RowKept DEF IInv, TypeOK

LEMMA RowWritten ==
    ASSUME IInv, journal' \in Seq(Entry), Grows(journal, journal'),
           NEW t \in Txns, NEW new, txns' = [txns EXCEPT ![t] = new],
           Created(t) => RowMovesForward(txns[t], new),
           RowFits(journal', t, new),
           new.approval = "reversed" => Reversed(journal', new.approval_entry),
           new.delivery = "delivered" => new.approval_entry # NoEntry
    PROVE  txns' \in [Txns -> Row \cup {NoRow}] /\ \A u \in Txns : RowStep(u)
<1>1. new \in Row /\ new # NoRow
  BY NoRowIsNoRow DEF RowFits
<1>2. txns'[t] = new /\ \A u \in Txns \ {t} : txns'[u] = txns[u]
  BY DEF IInv, TypeOK
<1>3. txns' \in [Txns -> Row \cup {NoRow}]
  BY <1>1 DEF IInv, TypeOK
<1>4. RowStep(t)
  BY <1>1, <1>2 DEF RowStep
<1> QED
  BY <1>2, <1>3, <1>4, RowKept

LEMMA WorkerKept ==
    ASSUME IInv, NEW w \in Workers, journal' \in Seq(Entry), Grows(journal, journal'),
           \A t \in Txns : RowStep(t), UNCHANGED workers
    PROVE  \E x : Coherent(journal', txns', x) /\ workers' = [workers EXCEPT ![w] = x]
<1>1. Coherent(journal', txns', workers[w])
  BY CoherentStable DEF IInv
<1>2. workers' = [workers EXCEPT ![w] = workers[w]]
  BY DEF IInv, TypeOK
<1> QED
  BY <1>1, <1>2

LEMMA WorkerAnswered ==
    ASSUME NEW w \in Workers, Answer(w)
    PROVE  \E x : Coherent(journal', txns', x) /\ workers' = [workers EXCEPT ![w] = x]
  BY IdleCoherent DEF Answer

LEMMA WorkerBusy ==
    ASSUME IInv, NEW w \in Workers, NEW pc, pc # "idle", workers[w].pc = pc
    PROVE  /\ workers[w] \in Busy /\ workers[w].txn \in Txns
           /\ workers[w].copy \in Row
           /\ Created(workers[w].txn) /\ txns[workers[w].txn] \in Row
           /\ RowFits(journal, workers[w].txn, workers[w].copy)
           /\ RowFits(journal, workers[w].txn, txns[workers[w].txn])
           /\ SameParties(txns[workers[w].txn], workers[w].copy)
           /\ workers[w].pc = "loaded" =>
                /\ Admits(workers[w].op, workers[w].copy)
                /\ workers[w].copy.approval_entry # NoEntry =>
                     txns[workers[w].txn].approval_entry # NoEntry
           /\ workers[w].pc = "checked" =>
                workers[w].copy.box \in Boxes /\ workers[w].copy.approval = "pending"
           /\ workers[w].pc = "checked" /\ workers[w].op = "edit" =>
                /\ workers[w].undo \in DOMAIN journal
                /\ journal[workers[w].undo].type = "transaction"
<1>1. workers[w] \in Busy /\ workers[w] # Idle
  BY BusyPc DEF IInv
<1>2. Coherent(journal, txns, workers[w])
  BY DEF IInv
<1>3. workers[w].txn \in Txns /\ workers[w].copy \in Row
  BY <1>1 DEF Busy
<1>4. Created(workers[w].txn)
  BY <1>1, <1>2 DEF Coherent, Created
<1>5. RowFits(journal, workers[w].txn, txns[workers[w].txn])
  BY <1>3, <1>4 DEF IInv
<1> QED
  BY <1>1, <1>2, <1>3, <1>4, <1>5 DEF Coherent, RowFits

LEMMA CreateGood ==
    ASSUME IInv, NEW w \in Workers, NEW t \in Txns, NEW d \in Drafts, Create(w, t, d)
    PROVE  GoodStep(w)
<1>1. d \in Draft
  BY InputAssumption
<1>2. NewRow(d) \in Row
  BY <1>1 DEF NewRow, Draft, Row, NoEntry, NoRate
<1>3. journal' \in Seq(Entry) /\ Grows(journal, journal') /\ ReversalsCancel'
  BY NothingPosted DEF Create
<1>4. RowFits(journal', t, NewRow(d))
  BY <1>2 DEF RowFits, NamesPosted, Boxed, Unpaid, NewRow
<1>5. txns' \in [Txns -> Row \cup {NoRow}] /\ \A u \in Txns : RowStep(u)
  BY <1>3, <1>4, RowWritten DEF Create, NewRow
<1>6. \E x : Coherent(journal', txns', x) /\ workers' = [workers EXCEPT ![w] = x]
  BY <1>3, <1>5, WorkerKept DEF Create
<1> QED
  BY <1>3, <1>5, <1>6 DEF GoodStep, Create, IInv, TypeOK

LEMMA BeginGood ==
    ASSUME IInv, NEW w \in Workers, NEW op \in TxnOps, NEW t \in Txns, Begin(w, op, t)
    PROVE  GoodStep(w)
<1> DEFINE x == [pc |-> "loaded", op |-> op, txn |-> t, copy |-> txns[t], undo |-> NoEntry]
<1>1. RowFits(journal, t, txns[t]) /\ txns[t] \in Row
  BY DEF Begin, IInv, RowFits
<1>2. x \in Busy
  BY <1>1 DEF Busy, NoEntry
<1>3. journal' \in Seq(Entry) /\ Grows(journal, journal') /\ ReversalsCancel'
  BY NothingPosted DEF Begin
<1>4. txns' \in [Txns -> Row \cup {NoRow}] /\ \A u \in Txns : RowStep(u)
  BY <1>3, RowsKept DEF Begin
<1>5. Coherent(journal', txns', x)
  BY <1>1, <1>2 DEF Coherent, Begin, Created, SameParties
<1>6. workers' = [workers EXCEPT ![w] = x]
  BY DEF Begin
<1> HIDE DEF x
<1> QED
  BY <1>3, <1>4, <1>5, <1>6 DEF GoodStep, Begin, IInv, TypeOK

LEMMA FailGood ==
    ASSUME IInv, NEW w \in Workers, Fail(w)
    PROVE  GoodStep(w)
<1>1. journal' \in Seq(Entry) /\ Grows(journal, journal') /\ ReversalsCancel'
  BY NothingPosted DEF Fail
<1>2. txns' \in [Txns -> Row \cup {NoRow}] /\ \A u \in Txns : RowStep(u)
  BY <1>1, RowsKept DEF Fail
<1> QED
  BY <1>1, <1>2, WorkerAnswered DEF GoodStep, Fail, IInv, TypeOK

LEMMA CheckApprovalGood ==
    ASSUME IInv, NEW w \in Workers, NEW q \in Quotes, CheckApproval(w, q)
    PROVE  GoodStep(w)
<1> DEFINE copy == workers[w].copy
           t    == workers[w].txn
           new  == Quoted(copy, q)
           x    == [workers[w] EXCEPT !.pc = "checked", !.copy = new]
<1>1. workers[w].pc = "loaded" /\ workers[w].op = "approve" /\ q \in Quote
  BY InputAssumption DEF CheckApproval, AtStep
<1>2. /\ workers[w] \in Busy /\ t \in Txns /\ copy \in Row /\ Created(t)
      /\ RowFits(journal, t, copy) /\ SameParties(txns[t], copy)
      /\ copy.approval = "pending"
  BY <1>1, WorkerBusy DEF Admits, CanApprove
<1>3. /\ new \in Row /\ SameParties(copy, new) /\ new.box \in Boxes
      /\ new.approval = copy.approval /\ new.payment = copy.payment
      /\ new.approval_entry = copy.approval_entry /\ new.payment_entry = copy.payment_entry
  BY <1>1, <1>2, QuotedType
<1>4. journal' \in Seq(Entry) /\ Grows(journal, journal') /\ ReversalsCancel'
  BY NothingPosted DEF CheckApproval
<1>5. txns' \in [Txns -> Row \cup {NoRow}] /\ \A u \in Txns : RowStep(u)
  BY <1>4, RowsKept DEF CheckApproval
<1>6. workers' = [workers EXCEPT ![w] = x]
  BY DEF CheckApproval, IInv, TypeOK
<1>7. RowFits(journal, t, new) /\ SameParties(txns[t], new)
  BY <1>2, <1>3 DEF RowFits, NamesPosted, Boxed, Unpaid, SameParties
<1>8. x \in Busy /\ x.pc = "checked" /\ x.txn = t /\ x.copy = new /\ x.op = "approve"
  <2> HIDE DEF new
  <2> QED
    BY <1>1, <1>2, <1>3 DEF Busy
<1>9. Coherent(journal', txns', x)
  <2> HIDE DEF new, x, copy, t
  <2> QED
    BY <1>2, <1>3, <1>7, <1>8 DEF Coherent, CheckApproval, Created
<1> HIDE DEF x
<1> QED
  BY <1>4, <1>5, <1>6, <1>9 DEF GoodStep, CheckApproval, IInv, TypeOK

LEMMA CommitApprovalGood ==
    ASSUME IInv, NEW w \in Workers, CommitApproval(w)
    PROVE  GoodStep(w)
<1> DEFINE row == workers[w].copy
           t   == workers[w].txn
           n   == Len(journal)
           new == Accepted(row, n + 1)
           es  == <<ApprovalEntry(t, row)>>
<1>1. workers[w].pc = "checked" /\ workers[w].op = "approve"
  BY DEF CommitApproval, AtStep
<1>2. /\ t \in Txns /\ row \in Row /\ row.box \in Boxes /\ Created(t)
      /\ RowFits(journal, t, row) /\ SameParties(txns[t], row) /\ row.approval = "pending"
  BY <1>1, WorkerBusy
<1>3. /\ ApprovalEntry(t, row) \in Entry /\ ApprovalEntry(t, row).type = "transaction"
      /\ ApprovalEntry(t, row).ref = t /\ ApprovalEntry(t, row).reverses = NoEntry
  BY <1>2, ApprovalEntryType
<1>4. Appendable(es) /\ Post(es)
  <2>1. Post(es)
    BY DEF CommitApproval
  <2>2. es \in Seq(Entry) /\ DOMAIN es = {1} /\ es[1] = ApprovalEntry(t, row)
    BY <1>3
  <2> QED
    BY <1>3, <2>1, <2>2 DEF Appendable
<1>5. journal' \in Seq(Entry) /\ Grows(journal, journal') /\ ReversalsCancel'
  <2> HIDE DEF es
  <2> QED
    BY <1>4, Posted
<1>6. n + 1 \in DOMAIN journal' /\ journal'[n + 1] = ApprovalEntry(t, row) /\ n \in Nat
  <2>1. es \in Seq(Entry) /\ Len(es) = 1 /\ DOMAIN es = {1} /\ es[1] = ApprovalEntry(t, row)
    BY <1>3
  <2> HIDE DEF es
  <2> QED
    BY <1>4, <2>1, PostGrows DEF IInv, TypeOK
<1>7. NamesPosted(journal', t, row)
  BY <1>2, <1>5, NamesPostedGrows DEF RowFits, IInv, TypeOK
<1>8. /\ new \in Row /\ SameParties(row, new) /\ new.approval = "accepted"
      /\ new.approval_entry = n + 1 /\ new.box = row.box
      /\ new.payment = row.payment /\ new.payment_entry = row.payment_entry
  <2>1. n + 1 \in Nat
    BY <1>6
  <2> HIDE DEF n, row, t
  <2> QED
    BY <1>2, <2>1, AcceptedType
<1>9. RowFits(journal', t, new) /\ RowMovesForward(txns[t], new)
  <2> HIDE DEF new, n, row, t
  <2>1. NamesPosted(journal', t, new)
    BY <1>3, <1>6, <1>7, <1>8 DEF NamesPosted, NoEntry
  <2> QED
    BY <1>2, <1>6, <1>8, <2>1 DEF RowFits, Boxed, Unpaid, RowMovesForward, SameParties, NoEntry
<1>10. txns' = [txns EXCEPT ![t] = new]
  BY DEF CommitApproval
<1>11. txns' \in [Txns -> Row \cup {NoRow}] /\ \A u \in Txns : RowStep(u)
  <2> HIDE DEF new, n, row, t
  <2>1. new.approval # "reversed" /\ new.approval_entry # NoEntry
    BY <1>6, <1>8 DEF NoEntry
  <2> QED
    BY <1>2, <1>5, <1>9, <1>10, <2>1, RowWritten
<1>12. Answer(w) /\ UNCHANGED limits
  BY DEF CommitApproval
<1> QED
  BY <1>5, <1>11, <1>12, WorkerAnswered DEF GoodStep, IInv, TypeOK

LEMMA RejectGood ==
    ASSUME IInv, NEW w \in Workers, Reject(w)
    PROVE  GoodStep(w)
<1> DEFINE t   == workers[w].txn
           new == [txns[t] EXCEPT !.approval = "cancelled"]
<1>1. workers[w].pc = "loaded" /\ workers[w].op = "reject"
  BY DEF Reject, AtStep
<1>2. t \in Txns /\ txns[t] \in Row /\ Created(t) /\ RowFits(journal, t, txns[t])
  BY <1>1, WorkerBusy
<1>3. journal' \in Seq(Entry) /\ Grows(journal, journal') /\ ReversalsCancel'
  BY NothingPosted DEF Reject
<1>4. txns' = [txns EXCEPT ![t] = new] /\ UNCHANGED journal
  BY DEF Reject, IInv, TypeOK
<1>5. /\ RowFits(journal', t, new) /\ RowMovesForward(txns[t], new)
      /\ new.approval # "reversed"
      /\ new.delivery = "delivered" => new.approval_entry # NoEntry
  <2>1. txns[t].delivery = "delivered" => txns[t].approval_entry # NoEntry
    BY <1>2 DEF IInv, DeliveredWasPosted
  <2>2. /\ new \in Row /\ new.approval = "cancelled" /\ SameParties(txns[t], new)
        /\ new.delivery = txns[t].delivery /\ new.payment = txns[t].payment
        /\ new.approval_entry = txns[t].approval_entry
        /\ new.payment_entry = txns[t].payment_entry
    BY <1>2 DEF Row, SameParties
  <2> HIDE DEF new, t
  <2> QED
    BY <1>2, <1>4, <2>1, <2>2
    DEF RowFits, NamesPosted, Boxed, Unpaid, RowMovesForward, SameParties
<1>6. txns' \in [Txns -> Row \cup {NoRow}] /\ \A u \in Txns : RowStep(u)
  <2> HIDE DEF new, t
  <2> QED
    BY <1>2, <1>3, <1>4, <1>5, RowWritten
<1>7. Answer(w) /\ UNCHANGED limits
  BY DEF Reject
<1> QED
  BY <1>3, <1>6, <1>7, WorkerAnswered DEF GoodStep, IInv, TypeOK

LEMMA DeliverGood ==
    ASSUME IInv, NEW w \in Workers, Deliver(w)
    PROVE  GoodStep(w)
<1> DEFINE t   == workers[w].txn
           new == [txns[t] EXCEPT !.delivery = "delivered"]
<1>1. workers[w].pc = "loaded" /\ workers[w].op = "deliver"
  BY DEF Deliver, AtStep
<1>2. /\ t \in Txns /\ txns[t] \in Row /\ Created(t) /\ RowFits(journal, t, txns[t])
      /\ RowFits(journal, t, workers[w].copy)
      /\ Admits("deliver", workers[w].copy)
      /\ workers[w].copy.approval_entry # NoEntry => txns[t].approval_entry # NoEntry
  BY <1>1, WorkerBusy
<1>3. txns[t].approval_entry # NoEntry
  BY <1>2 DEF Admits, CanDeliver, RowFits, NamesPosted
<1>4. journal' \in Seq(Entry) /\ Grows(journal, journal') /\ ReversalsCancel'
  BY NothingPosted DEF Deliver
<1>5. txns' = [txns EXCEPT ![t] = new] /\ UNCHANGED journal
  BY DEF Deliver, IInv, TypeOK
<1>6. /\ RowFits(journal', t, new) /\ RowMovesForward(txns[t], new)
      /\ new.approval = "reversed" => Reversed(journal', new.approval_entry)
      /\ new.approval_entry # NoEntry
  <2>1. txns[t].approval = "reversed" => Reversed(journal, txns[t].approval_entry)
    BY <1>2 DEF IInv, ReversedIsUndone
  <2>2. /\ new \in Row /\ new.approval = txns[t].approval /\ SameParties(txns[t], new)
        /\ new.payment = txns[t].payment /\ new.box = txns[t].box
        /\ new.approval_entry = txns[t].approval_entry
        /\ new.payment_entry = txns[t].payment_entry
    BY <1>2 DEF Row, SameParties
  <2> HIDE DEF new, t
  <2> QED
    BY <1>2, <1>3, <1>5, <2>1, <2>2
    DEF RowFits, NamesPosted, Boxed, Unpaid, RowMovesForward, SameParties
<1>7. txns' \in [Txns -> Row \cup {NoRow}] /\ \A u \in Txns : RowStep(u)
  <2> HIDE DEF new, t
  <2> QED
    BY <1>2, <1>4, <1>5, <1>6, RowWritten
<1>8. Answer(w) /\ UNCHANGED limits
  BY DEF Deliver
<1> QED
  BY <1>4, <1>7, <1>8, WorkerAnswered DEF GoodStep, IInv, TypeOK

(* One new entry: what an appended posting leaves behind.                  *)
LEMMA OnePosting ==
    ASSUME IInv, NEW entry \in Entry, entry.reverses = NoEntry, Post(<<entry>>)
    PROVE  /\ journal' \in Seq(Entry) /\ Grows(journal, journal') /\ ReversalsCancel'
           /\ Len(journal) + 1 \in DOMAIN journal' /\ Len(journal) + 1 \in Nat \ {NoEntry}
           /\ journal'[Len(journal) + 1] = entry
<1> DEFINE es == <<entry>>
<1>1. /\ es \in Seq(Entry) /\ Len(es) = 1 /\ DOMAIN es = {1} /\ es[1] = entry
      /\ Post(es)
  OBVIOUS
<1> HIDE DEF es
<1>2. Appendable(es)
  BY <1>1 DEF Appendable
<1>3. journal' \in Seq(Entry) /\ Grows(journal, journal') /\ ReversalsCancel'
  BY <1>1, <1>2, Posted
<1>4. Len(journal') = Len(journal) + 1 /\ journal'[Len(journal) + 1] = entry /\ Len(journal) \in Nat
  <2>1. TypeOK /\ Len(journal) \in Nat
    BY DEF IInv, TypeOK
  <2>2. /\ Len(journal') = Len(journal) + Len(es)
        /\ \A i \in DOMAIN es : journal'[Len(journal) + i] = es[i]
    BY <1>1, <2>1, PostGrows
  <2> QED
    BY <1>1, <2>1, <2>2
<1> QED
  BY <1>3, <1>4 DEF NoEntry

LEMMA PayGood ==
    ASSUME IInv, NEW w \in Workers, Pay(w)
    PROVE  GoodStep(w)
<1> DEFINE t     == workers[w].txn
           e     == Len(journal) + 1
           new   == [txns[t] EXCEPT !.payment = "paid", !.payment_entry = e]
           entry == Posting("settlement", t, PaymentLines(workers[w].copy))
<1>1. workers[w].pc = "loaded" /\ workers[w].op = "pay"
  BY DEF Pay, AtStep
<1>2. /\ t \in Txns /\ txns[t] \in Row /\ Created(t) /\ RowFits(journal, t, txns[t])
      /\ workers[w].copy \in Row /\ txns[t].approval # "pending"
  <2>1. /\ RowFits(journal, t, workers[w].copy) /\ Admits("pay", workers[w].copy)
        /\ workers[w].copy.approval_entry # NoEntry => txns[t].approval_entry # NoEntry
        /\ RowFits(journal, t, txns[t])
    BY <1>1, WorkerBusy
  <2>2. txns[t].approval # "pending"
    BY <2>1 DEF Admits, CanPay, RowFits, NamesPosted, Unpaid
  <2> QED
    BY <1>1, <2>2, WorkerBusy
<1>3. /\ entry \in Entry /\ entry.type = "settlement" /\ entry.ref = t
      /\ entry.reverses = NoEntry
  <2>1. PaymentLines(workers[w].copy) \in Seq(Line) /\ "settlement" \in EntryType
    BY <1>2, PaymentLinesType DEF EntryType
  <2> QED
    BY <1>2, <2>1, PostingType
<1>4. /\ journal' \in Seq(Entry) /\ Grows(journal, journal') /\ ReversalsCancel'
      /\ e \in DOMAIN journal' /\ e \in Nat \ {NoEntry} /\ journal'[e] = entry
  <2>1. Post(<<entry>>)
    BY DEF Pay
  <2> HIDE DEF entry
  <2> QED
    BY <1>3, <2>1, OnePosting
<1>5. txns' = [txns EXCEPT ![t] = new]
  BY DEF Pay, IInv, TypeOK
<1>6. /\ RowFits(journal', t, new) /\ RowMovesForward(txns[t], new)
      /\ new.approval = "reversed" => Reversed(journal', new.approval_entry)
      /\ new.delivery = "delivered" => new.approval_entry # NoEntry
  <2>1. /\ txns[t].approval = "reversed" => Reversed(journal, txns[t].approval_entry)
        /\ txns[t].delivery = "delivered" => txns[t].approval_entry # NoEntry
    BY <1>2 DEF IInv, ReversedIsUndone, DeliveredWasPosted
  <2>2. txns[t].approval = "reversed" => Reversed(journal', txns[t].approval_entry)
    BY <1>4, <2>1, ReversedGrows DEF IInv, TypeOK
  <2>3. NamesPosted(journal', t, txns[t])
    BY <1>2, <1>4, NamesPostedGrows DEF RowFits, IInv, TypeOK
  <2>4. /\ new \in Row /\ new.approval = txns[t].approval /\ SameParties(txns[t], new)
        /\ new.payment = "paid" /\ new.box = txns[t].box /\ new.delivery = txns[t].delivery
        /\ new.approval_entry = txns[t].approval_entry /\ new.payment_entry = e
    <3> HIDE DEF e
    <3> QED
      BY <1>2, <1>4 DEF Row, SameParties
  <2> HIDE DEF new, t, e, entry
  <2> QED
    BY <1>2, <1>3, <1>4, <2>1, <2>2, <2>3, <2>4
    DEF RowFits, NamesPosted, Boxed, Unpaid, RowMovesForward, SameParties
<1>7. txns' \in [Txns -> Row \cup {NoRow}] /\ \A u \in Txns : RowStep(u)
  <2> HIDE DEF new, t
  <2> QED
    BY <1>2, <1>4, <1>5, <1>6, RowWritten
<1>8. Answer(w) /\ UNCHANGED limits
  BY DEF Pay
<1> QED
  BY <1>4, <1>7, <1>8, WorkerAnswered DEF GoodStep, IInv, TypeOK

LEMMA UndoneType ==
    ASSUME NEW row \in Row
    PROVE  /\ Undone(row) \in Row /\ SameParties(row, Undone(row))
           /\ Undone(row).approval = "reversed" /\ Undone(row).box = row.box
           /\ Undone(row).payment = "paid" => row.payment = "paid" /\ row.payment_entry = NoEntry
           /\ Undone(row).approval_entry = row.approval_entry
           /\ Undone(row).payment_entry = row.payment_entry
  BY DEF Undone, Row, SameParties

(* The entries a reversal appends: one mirror per entry of EntriesToUndo,  *)
(* the last of them that of the approval.                                  *)
ReverseEntries(w) ==
    LET undo == EntriesToUndo(workers[w].copy)
    IN  [i \in DOMAIN undo |-> Mirror(journal, undo[i])]

LEMMA ReverseAppends ==
    ASSUME IInv, NEW w \in Workers, Reverse(w),
           NEW undo, undo = EntriesToUndo(workers[w].copy),
           NEW es, es = ReverseEntries(w)
    PROVE  /\ Appendable(es) /\ Post(es)
           /\ Len(undo) \in {1, 2} /\ DOMAIN undo = 1 .. Len(undo)
           /\ Len(es) = Len(undo) /\ DOMAIN es = 1 .. Len(undo)
           /\ undo[Len(undo)] = workers[w].copy.approval_entry
           /\ workers[w].copy.payment_entry # NoEntry => undo[1] = workers[w].copy.payment_entry
           /\ \A i \in 1 .. Len(undo) :
                 /\ undo[i] \in DOMAIN journal /\ es[i].reverses = undo[i]
                 /\ es[i].type = "reversal" /\ es[i].ref = NoRef
<1> DEFINE t   == workers[w].txn
           row == workers[w].copy
           k   == Len(undo)
<1>1. workers[w].pc = "loaded" /\ workers[w].op = "reverse"
  BY DEF Reverse, AtStep
<1>2. /\ t \in Txns /\ row \in Row /\ Created(t) /\ RowFits(journal, t, row)
      /\ Admits("reverse", row)
  BY <1>1, WorkerBusy
<1>3. /\ row.approval = "accepted" /\ row.approval_entry # NoEntry
      /\ row.approval_entry \in DOMAIN journal
      /\ journal[row.approval_entry].type = "transaction"
      /\ row.payment_entry # NoEntry =>
            /\ row.payment_entry \in DOMAIN journal
            /\ journal[row.payment_entry].type = "settlement"
  BY <1>2 DEF Admits, CanReverse, RowFits, NamesPosted
<1>4. /\ undo \in Seq(DOMAIN journal) /\ k \in {1, 2} /\ DOMAIN undo = 1 .. k
      /\ undo[k] = row.approval_entry
      /\ row.payment_entry # NoEntry => undo[1] = row.payment_entry
      /\ \A i, j \in 1 .. k : undo[i] = undo[j] => i = j
  <2>1. CASE row.payment_entry = NoEntry
    <3>1. undo = <<row.approval_entry>>
      BY <2>1 DEF EntriesToUndo
    <3> HIDE DEF row
    <3> QED
      BY <1>3, <2>1, <3>1
  <2>2. CASE row.payment_entry # NoEntry
    <3>1. undo = <<row.payment_entry, row.approval_entry>>
      BY <2>2 DEF EntriesToUndo
    <3> HIDE DEF row
    <3> QED
      BY <1>3, <2>2, <3>1
  <2> QED
    BY <2>1, <2>2
<1>5. /\ \A i \in 1 .. k : ~Reversed(journal, undo[i])
      /\ Post(es)
  BY <1>4 DEF Reverse, Reversible, ReverseEntries
<1>6. \A i \in 1 .. k : /\ undo[i] \in DOMAIN journal /\ Mirror(journal, undo[i]) \in Entry
                        /\ Mirror(journal, undo[i]).reverses = undo[i]
                        /\ Mirror(journal, undo[i]).type = "reversal"
                        /\ Mirror(journal, undo[i]).ref = NoRef
  BY <1>4, MirrorType DEF IInv, TypeOK, Mirror
<1>7. es \in Seq(Entry) /\ Len(es) = k /\ DOMAIN es = 1 .. k
      /\ \A i \in 1 .. k : es[i] = Mirror(journal, undo[i])
  BY <1>4, <1>6 DEF ReverseEntries
<1>8. Appendable(es)
  <2> HIDE DEF k
  <2> QED
    BY <1>5, <1>6, <1>7, <1>4 DEF Appendable
<1> QED
  BY <1>4, <1>6, <1>7, <1>8, <1>5

LEMMA ReverseGood ==
    ASSUME IInv, NEW w \in Workers, Reverse(w)
    PROVE  GoodStep(w)
<1> DEFINE t    == workers[w].txn
           row  == workers[w].copy
           undo == EntriesToUndo(row)
           new  == Undone(row)
           es   == ReverseEntries(w)
           k    == Len(undo)
<1>1. workers[w].pc = "loaded" /\ workers[w].op = "reverse"
  BY DEF Reverse, AtStep
<1>2. /\ t \in Txns /\ row \in Row /\ Created(t) /\ RowFits(journal, t, row)
      /\ SameParties(txns[t], row) /\ Admits("reverse", row)
  BY <1>1, WorkerBusy
<1>3. row.approval = "accepted" /\ row.approval_entry # NoEntry
  BY <1>2 DEF Admits, CanReverse, RowFits, NamesPosted
<1>4. txns' = [txns EXCEPT ![t] = new] /\ Answer(w) /\ UNCHANGED limits
  BY DEF Reverse
<1>5. /\ Appendable(es) /\ Post(es) /\ es \in Seq(Entry)
      /\ k \in {1, 2} /\ Len(es) = k /\ DOMAIN es = 1 .. k
      /\ es[k].reverses = row.approval_entry
  <2>1. es = ReverseEntries(w) /\ undo = EntriesToUndo(row)
    OBVIOUS
  <2> HIDE DEF es, undo
  <2>2. /\ Appendable(es) /\ Post(es) /\ k \in {1, 2} /\ Len(es) = k /\ DOMAIN es = 1 .. k
        /\ undo[k] = row.approval_entry
        /\ \A i \in 1 .. k : es[i].reverses = undo[i]
    BY <2>1, ReverseAppends
  <2> QED
    BY <2>2 DEF Appendable
<1>6. journal' \in Seq(Entry) /\ Grows(journal, journal') /\ ReversalsCancel'
  <2> HIDE DEF es
  <2> QED
    BY <1>5, Posted
<1>7. Reversed(journal', row.approval_entry)
  <2>1. TypeOK /\ Len(journal) \in Nat
    BY DEF IInv, TypeOK
  <2> HIDE DEF es, undo, k, row
  <2>2. /\ Len(journal') = Len(journal) + Len(es)
        /\ \A i \in DOMAIN es : journal'[Len(journal) + i] = es[i]
    BY <1>5, <2>1, PostGrows
  <2>3. journal'[Len(journal) + k] = es[k] /\ Len(journal) + k \in DOMAIN journal'
    BY <1>5, <1>6, <2>1, <2>2
  <2> QED
    BY <1>5, <2>3 DEF Reversed
<1>8. NamesPosted(journal', t, row)
  BY <1>2, <1>6, NamesPostedGrows DEF RowFits, IInv, TypeOK
<1>9. RowFits(journal', t, new) /\ RowMovesForward(txns[t], new) /\ new.approval_entry # NoEntry
       /\ new.approval_entry = row.approval_entry
  <2>1. /\ new \in Row /\ SameParties(row, new)
        /\ new.approval = "reversed" /\ new.box = row.box
        /\ new.payment = "paid" => row.payment = "paid" /\ row.payment_entry = NoEntry
        /\ new.approval_entry = row.approval_entry /\ new.payment_entry = row.payment_entry
    <3> HIDE DEF row
    <3> QED
      BY <1>2, UndoneType
  <2> HIDE DEF new, row, t
  <2> QED
    BY <1>2, <1>3, <1>8, <2>1 DEF RowFits, NamesPosted, Boxed, Unpaid, RowMovesForward, SameParties
<1>10. txns' \in [Txns -> Row \cup {NoRow}] /\ \A u \in Txns : RowStep(u)
  <2> HIDE DEF new, t, row, es
  <2> QED
    BY <1>2, <1>4, <1>6, <1>7, <1>9, RowWritten
<1> QED
  BY <1>4, <1>6, <1>10, WorkerAnswered DEF GoodStep, IInv, TypeOK

LEMMA CheckEditGood ==
    ASSUME IInv, NEW w \in Workers, NEW edit \in Edits, CheckEdit(w, edit)
    PROVE  GoodStep(w)
<1> DEFINE copy == workers[w].copy
           t    == workers[w].txn
           open == Reopened(copy, edit)
           q    == EditQuote(copy, edit)
           new  == Quoted(open, q)
           old  == copy.approval_entry
           x    == [workers[w] EXCEPT !.pc = "checked", !.copy = new, !.undo = old]
<1>1. workers[w].pc = "loaded" /\ workers[w].op = "edit" /\ edit \in Edit
  BY InputAssumption DEF CheckEdit, AtStep
<1>2. /\ workers[w] \in Busy /\ t \in Txns /\ copy \in Row /\ Created(t)
      /\ RowFits(journal, t, copy) /\ SameParties(txns[t], copy) /\ Admits("edit", copy)
  BY <1>1, WorkerBusy
<1>3. /\ copy.approval = "accepted" /\ copy.box \in Boxes
      /\ copy.payment = "paid" => copy.payment_entry # NoEntry
      /\ copy.payment_entry = NoEntry /\ copy.payment \in {"unpaid", "paid"}
      /\ old \in DOMAIN journal /\ journal[old].type = "transaction"
  BY <1>2 DEF Admits, CanEdit, RowFits, NamesPosted, Boxed, Row
<1>4. /\ q \in Quote /\ open \in Row /\ SameParties(copy, open)
      /\ open.approval = "pending" /\ open.approval_entry = NoEntry
      /\ open.payment = copy.payment /\ open.payment_entry = copy.payment_entry
  <2> HIDE DEF copy
  <2> QED
    BY <1>1, <1>2, <1>3, EditTypes
<1>5. /\ new \in Row /\ SameParties(open, new) /\ new.box \in Boxes
      /\ new.approval = open.approval /\ new.payment = open.payment
      /\ new.approval_entry = open.approval_entry /\ new.payment_entry = open.payment_entry
  <2> HIDE DEF open, q
  <2> QED
    BY <1>4, QuotedType
<1>6. journal' \in Seq(Entry) /\ Grows(journal, journal') /\ ReversalsCancel'
  BY NothingPosted DEF CheckEdit
<1>7. txns' \in [Txns -> Row \cup {NoRow}] /\ \A u \in Txns : RowStep(u)
  BY <1>6, RowsKept DEF CheckEdit
<1>8. workers' = [workers EXCEPT ![w] = x] /\ UNCHANGED <<journal, txns, limits>>
  BY DEF CheckEdit, IInv, TypeOK
<1>9. RowFits(journal, t, new) /\ SameParties(txns[t], new)
  <2> HIDE DEF new, open, copy, t
  <2> QED
    BY <1>2, <1>3, <1>4, <1>5 DEF RowFits, NamesPosted, Boxed, Unpaid, SameParties
<1>10. /\ x \in Busy /\ x.pc = "checked" /\ x.op = "edit" /\ x.txn = t /\ x.copy = new
       /\ x.undo = old
  <2>1. old \in Nat
    BY <1>2 DEF Row
  <2> HIDE DEF new, old
  <2> QED
    BY <1>1, <1>2, <1>5, <2>1 DEF Busy
<1>11. Coherent(journal', txns', x)
  <2> HIDE DEF new, x, copy, t, old
  <2> QED
    BY <1>2, <1>3, <1>4, <1>5, <1>8, <1>9, <1>10 DEF Coherent, Created
<1> HIDE DEF x
<1> QED
  BY <1>6, <1>7, <1>8, <1>11 DEF GoodStep, IInv, TypeOK

(* The entries an edit appends: the mirror of the old approval, the new    *)
(* approval.                                                               *)
EditEntries(w) ==
    <<Mirror(journal, workers[w].undo), ApprovalEntry(workers[w].txn, workers[w].copy)>>

LEMMA EditAppends ==
    ASSUME IInv, NEW w \in Workers, CommitEdit(w), NEW es, es = EditEntries(w)
    PROVE  /\ Appendable(es) /\ Post(es) /\ Len(es) = 2 /\ DOMAIN es = {1, 2}
           /\ workers[w].undo \in DOMAIN journal /\ es[1].reverses = workers[w].undo
           /\ es[1].type = "reversal" /\ es[1].ref = NoRef
           /\ es[2].type = "transaction" /\ es[2].ref = workers[w].txn
           /\ es[2].reverses = NoEntry
<1> DEFINE row   == workers[w].copy
           t     == workers[w].txn
           old   == workers[w].undo
           entry == ApprovalEntry(t, row)
<1>1. workers[w].pc = "checked" /\ workers[w].op = "edit"
  BY DEF CommitEdit, AtStep
<1>2. /\ t \in Txns /\ row \in Row /\ row.box \in Boxes /\ Created(t)
      /\ old \in DOMAIN journal
  BY <1>1, WorkerBusy
<1>3. /\ entry \in Entry /\ entry.type = "transaction" /\ entry.ref = t
      /\ entry.reverses = NoEntry
  BY <1>2, ApprovalEntryType
<1>4. /\ Mirror(journal, old) \in Entry /\ Mirror(journal, old).reverses = old
      /\ Mirror(journal, old).type = "reversal" /\ Mirror(journal, old).ref = NoRef
  BY <1>2, MirrorType DEF IInv, TypeOK, Mirror
<1>5. /\ ~Reversed(journal, old) /\ Post(es)
  BY DEF CommitEdit, EditEntries
<1>6. /\ es \in Seq(Entry) /\ Len(es) = 2 /\ DOMAIN es = {1, 2}
      /\ es[1] = Mirror(journal, old) /\ es[2] = entry
  <2> HIDE DEF entry
  <2> QED
    BY <1>3, <1>4 DEF EditEntries, entry
<1>7. Appendable(es)
  <2> HIDE DEF entry, old
  <2> QED
    BY <1>2, <1>3, <1>5, <1>6 DEF Appendable
<1> QED
  BY <1>2, <1>3, <1>4, <1>5, <1>6, <1>7

LEMMA CommitEditGood ==
    ASSUME IInv, NEW w \in Workers, CommitEdit(w)
    PROVE  GoodStep(w)
<1> DEFINE row   == workers[w].copy
           t     == workers[w].txn
           e     == Len(journal) + 2
           new   == Accepted(row, e)
           es    == EditEntries(w)
<1>1. workers[w].pc = "checked"
  BY DEF CommitEdit, AtStep
<1>2. /\ t \in Txns /\ row \in Row /\ row.box \in Boxes /\ Created(t)
      /\ RowFits(journal, t, row) /\ SameParties(txns[t], row) /\ row.approval = "pending"
  BY <1>1, WorkerBusy
<1>3. txns' = [txns EXCEPT ![t] = new] /\ Answer(w) /\ UNCHANGED limits
  BY DEF CommitEdit
<1>4. /\ Appendable(es) /\ Post(es) /\ es \in Seq(Entry) /\ Len(es) = 2 /\ DOMAIN es = {1, 2}
      /\ es[2].type = "transaction" /\ es[2].ref = t
  <2> HIDE DEF es
  <2> QED
    BY EditAppends DEF Appendable, es
<1>5. journal' \in Seq(Entry) /\ Grows(journal, journal') /\ ReversalsCancel'
  <2> HIDE DEF es
  <2> QED
    BY <1>4, Posted
<1>6. /\ e \in DOMAIN journal' /\ e \in Nat \ {NoEntry}
      /\ journal'[e].type = "transaction" /\ journal'[e].ref = t
  <2>1. TypeOK /\ Len(journal) \in Nat
    BY DEF IInv, TypeOK
  <2> HIDE DEF es
  <2>2. /\ Len(journal') = Len(journal) + Len(es)
        /\ \A i \in DOMAIN es : journal'[Len(journal) + i] = es[i]
    BY <1>4, <2>1, PostGrows
  <2> QED
    BY <1>4, <1>5, <2>1, <2>2 DEF NoEntry
<1>7. NamesPosted(journal', t, row)
  BY <1>2, <1>5, NamesPostedGrows DEF RowFits, IInv, TypeOK
<1>8. /\ RowFits(journal', t, new) /\ RowMovesForward(txns[t], new)
       /\ new.approval # "reversed" /\ new.approval_entry # NoEntry
  <2> HIDE DEF row, t, e
  <2>1. /\ new \in Row /\ SameParties(row, new) /\ new.approval = "accepted"
        /\ new.approval_entry = e /\ new.box = row.box
        /\ new.payment = row.payment /\ new.payment_entry = row.payment_entry
    BY <1>2, <1>6, AcceptedType
  <2> HIDE DEF new
  <2> QED
    BY <1>2, <1>6, <1>7, <2>1
    DEF RowFits, NamesPosted, Boxed, Unpaid, RowMovesForward, SameParties
<1>9. txns' \in [Txns -> Row \cup {NoRow}] /\ \A u \in Txns : RowStep(u)
  <2> HIDE DEF new, t
  <2> QED
    BY <1>2, <1>3, <1>5, <1>8, RowWritten
<1> QED
  BY <1>3, <1>5, <1>9, WorkerAnswered DEF GoodStep, IInv, TypeOK

LEMMA SettleGood ==
    ASSUME IInv, NEW w \in Workers, NEW op, NEW lines \in Seq(Line), Settle(w, op, lines)
    PROVE  GoodStep(w)
<1> DEFINE entry == Posting("settlement", NoRef, lines)
<1>1. entry \in Entry /\ entry.reverses = NoEntry
  <2>1. "settlement" \in EntryType /\ NoRef \in Txns \cup {NoRef}
    BY DEF EntryType
  <2> QED
    BY <2>1, PostingType
<1>2. Post(<<entry>>) /\ UNCHANGED <<txns, limits, workers>>
  BY DEF Settle
<1>3. journal' \in Seq(Entry) /\ Grows(journal, journal') /\ ReversalsCancel'
  <2> HIDE DEF entry
  <2> QED
    BY <1>1, <1>2, OnePosting
<1>4. txns' \in [Txns -> Row \cup {NoRow}] /\ \A u \in Txns : RowStep(u)
  BY <1>2, <1>3, RowsKept
<1>5. \E x : Coherent(journal', txns', x) /\ workers' = [workers EXCEPT ![w] = x]
  BY <1>2, <1>3, <1>4, WorkerKept
<1> QED
  BY <1>2, <1>3, <1>4, <1>5 DEF GoodStep, IInv, TypeOK

(* The two lines of every settlement are well formed.                      *)
LEMMA TwoLinesType ==
    ASSUME NEW a \in Account, NEW b \in Account, NEW x \in Int
    PROVE  <<Debit(a, x), Credit(b, x)>> \in Seq(Line)
<1>1. Debit(a, x) \in Line /\ Credit(b, x) \in Line
  BY LineType
<1> QED
  BY <1>1

LEMMA SettlementsGood ==
    ASSUME IInv, NEW w \in Workers, NEW c \in Currencies, NEW x \in SettleAmounts
    PROVE  /\ \A m \in Members, b \in Boxes :
                Deposit(w, m, b, c, x) \/ Withdraw(w, m, b, c, x) => GoodStep(w)
           /\ \A m \in Members : MemberPayment(w, m, c, x) => GoodStep(w)
           /\ \A b \in Boxes, direction \in {"in", "out"} : AdjustBox(w, b, c, x, direction) => GoodStep(w)
<1>1. x \in Int
  BY InputAssumption
<1>2. /\ \A m \in Members : SmallOffice(m, c) \in Account
      /\ \A b \in Boxes : BoxAccount(b, c) \in Account
      /\ TenantAccount("shop_cash", c) \in Account
      /\ TenantAccount("adjustment", c) \in Account
  BY AccountType DEF TenantKinds
<1>3. ASSUME NEW m \in Members, NEW b \in Boxes, Deposit(w, m, b, c, x)
      PROVE  GoodStep(w)
  BY <1>1, <1>2, <1>3, TwoLinesType, SettleGood DEF Deposit
<1>4. ASSUME NEW m \in Members, NEW b \in Boxes, Withdraw(w, m, b, c, x)
      PROVE  GoodStep(w)
  BY <1>1, <1>2, <1>4, TwoLinesType, SettleGood DEF Withdraw
<1>5. ASSUME NEW m \in Members, MemberPayment(w, m, c, x)
      PROVE  GoodStep(w)
  BY <1>1, <1>2, <1>5, TwoLinesType, SettleGood DEF MemberPayment
<1>6. ASSUME NEW b \in Boxes, NEW direction \in {"in", "out"}, AdjustBox(w, b, c, x, direction)
      PROVE  GoodStep(w)
  <2>1. /\ <<Debit(BoxAccount(b, c), x), Credit(TenantAccount("adjustment", c), x)>> \in Seq(Line)
        /\ <<Debit(TenantAccount("adjustment", c), x), Credit(BoxAccount(b, c), x)>> \in Seq(Line)
    BY <1>1, <1>2, TwoLinesType
  <2> QED
    BY <1>6, <2>1, SettleGood DEF AdjustBox
<1> QED
  BY <1>3, <1>4, <1>5, <1>6

LEMMA ReverseEntryGood ==
    ASSUME IInv, NEW w \in Workers, NEW e \in DOMAIN journal, ReverseEntry(w, e)
    PROVE  GoodStep(w)
<1> DEFINE entry == Mirror(journal, e)
           es    == <<entry>>
<1>1. entry \in Entry /\ ~Reversed(journal, e)
  BY MirrorType DEF ReverseEntry, Reversible, IInv, TypeOK
<1>2. es \in Seq(Entry) /\ DOMAIN es = {1} /\ es[1] = entry
  <2> HIDE DEF entry
  <2> QED
    BY <1>1
<1>3. Post(es) /\ UNCHANGED <<txns, limits, workers>>
  BY DEF ReverseEntry
<1>4. Appendable(es)
  <2> HIDE DEF es
  <2> QED
    BY <1>1, <1>2 DEF Appendable
<1>5. journal' \in Seq(Entry) /\ Grows(journal, journal') /\ ReversalsCancel'
  <2> HIDE DEF es
  <2> QED
    BY <1>3, <1>4, Posted
<1>6. txns' \in [Txns -> Row \cup {NoRow}] /\ \A u \in Txns : RowStep(u)
  BY <1>3, <1>5, RowsKept
<1>7. \E x : Coherent(journal', txns', x) /\ workers' = [workers EXCEPT ![w] = x]
  BY <1>3, <1>5, <1>6, WorkerKept
<1> QED
  BY <1>3, <1>5, <1>6, <1>7 DEF GoodStep, IInv, TypeOK

LEMMA SetLimitGood ==
    ASSUME IInv, NEW w \in Workers, NEW m \in Members, NEW c \in Currencies,
           NEW x \in LimitValues, SetLimit(w, m, c, x)
    PROVE  GoodStep(w)
<1>1. journal' \in Seq(Entry) /\ Grows(journal, journal') /\ ReversalsCancel'
  BY NothingPosted DEF SetLimit
<1>2. txns' \in [Txns -> Row \cup {NoRow}] /\ \A u \in Txns : RowStep(u)
  BY <1>1, RowsKept DEF SetLimit
<1>3. \E y : Coherent(journal', txns', y) /\ workers' = [workers EXCEPT ![w] = y]
  BY <1>1, <1>2, WorkerKept DEF SetLimit
<1>4. limits' \in [Members \X Currencies -> Int]
  BY InputAssumption DEF SetLimit, IInv, TypeOK
<1> QED
  BY <1>1, <1>2, <1>3, <1>4 DEF GoodStep

LEMMA NextGood ==
    ASSUME IInv, Next
    PROVE  \E w \in Workers : GoodStep(w)
<1>1. PICK w \in Workers : TxnStep(w) \/ SettleStep(w)
  BY DEF Next
<1>2. CASE TxnStep(w)
  BY <1>2, CreateGood, BeginGood, CheckApprovalGood, CommitApprovalGood, RejectGood, PayGood,
     DeliverGood, ReverseGood, CheckEditGood, CommitEditGood, FailGood DEF TxnStep
<1>3. CASE SettleStep(w)
  BY <1>3, SettlementsGood, ReverseEntryGood, SetLimitGood DEF SettleStep
<1> QED
  BY <1>1, <1>2, <1>3

(***************************************************************************)
(*               What happens to a payment                                 *)
(***************************************************************************)

LEMMA RowPayment ==
    ASSUME IInv, NEW t \in Txns, Created(t), txns[t].payment = "paid"
    PROVE  txns[t].payment_entry # NoEntry
  BY DEF IInv, RowFits, NamesPosted

(* A request that saves its whole copy: either that copy was loaded before *)
(* the payment the row names, or it carries it on.                         *)
LEMMA SavedWhole ==
    ASSUME IInv, NEW w \in Workers, ~IsIdle(w), NEW new,
           txns' = [txns EXCEPT ![workers[w].txn] = new],
           workers[w].copy.payment_entry = txns[workers[w].txn].payment_entry =>
              PaymentKept(workers[w].txn, txns[workers[w].txn], new),
           NEW t \in Txns, Created(t)
    PROVE  PaymentKept(t, txns[t], txns'[t])
<1>1. CASE t # workers[w].txn
  <2>1. txns'[t] = txns[t]
    BY <1>1 DEF IInv, TypeOK
  <2> QED
    BY <2>1 DEF PaymentKept
<1>2. CASE t = workers[w].txn
  <2>1. txns'[t] = new
    BY <1>2 DEF IInv, TypeOK
  <2> QED
    BY <1>2, <2>1 DEF PaymentKept, LoadedBefore
<1> QED
  BY <1>1, <1>2

LEMMA PaymentUntouched ==
    ASSUME UNCHANGED txns
    PROVE  \A t \in Txns : PaymentKept(t, txns[t], txns'[t])
  BY DEF PaymentKept

LEMMA CreatePayment ==
    ASSUME IInv, NEW w \in Workers, NEW u \in Txns, NEW d \in Drafts, Create(w, u, d),
           NEW t \in Txns, Created(t)
    PROVE  PaymentKept(t, txns[t], txns'[t])
<1>1. t # u /\ txns'[t] = txns[t]
  BY DEF Create, IInv, TypeOK
<1> QED
  BY <1>1 DEF PaymentKept

(* An approval and an edit save a copy that was never paid.                *)
LEMMA ChargePayment ==
    ASSUME IInv, NEW w \in Workers, CommitApproval(w) \/ CommitEdit(w), NEW t \in Txns, Created(t)
    PROVE  PaymentKept(t, txns[t], txns'[t])
<1> DEFINE u == workers[w].txn
<1>1. workers[w].pc = "checked" /\ ~IsIdle(w)
  BY DEF CommitApproval, CommitEdit, AtStep, IsIdle
<1>2. /\ u \in Txns /\ Created(u)
      /\ RowFits(journal, u, workers[w].copy) /\ workers[w].copy.approval = "pending"
  BY <1>1, WorkerBusy
<1>3. workers[w].copy.payment_entry = NoEntry
  BY <1>2 DEF RowFits, Unpaid
<1>4. PICK e : txns' = [txns EXCEPT ![u] = Accepted(workers[w].copy, e)]
  BY DEF CommitApproval, CommitEdit
<1>5. workers[w].copy.payment_entry = txns[u].payment_entry =>
         PaymentKept(u, txns[u], Accepted(workers[w].copy, e))
  BY <1>2, <1>3, RowPayment DEF PaymentKept
<1> QED
  BY <1>1, <1>4, <1>5, SavedWhole

(* A rejection and a delivery write their own column.                      *)
LEMMA ColumnPayment ==
    ASSUME IInv, NEW w \in Workers, Reject(w) \/ Deliver(w), NEW t \in Txns, Created(t)
    PROVE  PaymentKept(t, txns[t], txns'[t])
<1> DEFINE u == workers[w].txn
<1>1. workers[w].pc = "loaded"
  BY DEF Reject, Deliver, AtStep
<1>2. u \in Txns /\ Created(u) /\ txns[u] \in Row
  BY <1>1, WorkerBusy
<1>3. CASE t # u
  <2>1. txns'[t] = txns[t]
    BY <1>3 DEF Reject, Deliver, IInv, TypeOK
  <2> QED
    BY <2>1 DEF PaymentKept
<1>4. CASE t = u
  <2>1. \/ txns'[t] = [txns[t] EXCEPT !.approval = "cancelled"]
        \/ txns'[t] = [txns[t] EXCEPT !.delivery = "delivered"]
    BY <1>2, <1>4 DEF Reject, Deliver, IInv, TypeOK
  <2>2. txns'[t].payment = txns[t].payment /\ txns'[t].payment_entry = txns[t].payment_entry
    <3> HIDE DEF u
    <3> QED
      BY <1>2, <1>4, <2>1 DEF Row
  <2> QED
    BY <2>2 DEF PaymentKept
<1> QED
  BY <1>3, <1>4

(* A payment writes over another only when it was loaded before it.        *)
LEMMA PayPayment ==
    ASSUME IInv, NEW w \in Workers, Pay(w), NEW t \in Txns, Created(t)
    PROVE  PaymentKept(t, txns[t], txns'[t])
<1> DEFINE u    == workers[w].txn
           copy == workers[w].copy
<1>1. workers[w].pc = "loaded" /\ workers[w].op = "pay" /\ ~IsIdle(w)
  BY DEF Pay, AtStep, IsIdle
<1>2. /\ u \in Txns /\ Created(u) /\ copy \in Row
      /\ RowFits(journal, u, copy) /\ Admits("pay", copy)
  BY <1>1, WorkerBusy
<1>3. copy.payment_entry = NoEntry
  BY <1>2 DEF Admits, CanPay, RowFits, Unpaid, Row
<1>4. PICK e : txns' = [txns EXCEPT ![u].payment = "paid", ![u].payment_entry = e]
  BY DEF Pay
<1>5. txns' = [txns EXCEPT ![u] = [txns[u] EXCEPT !.payment = "paid", !.payment_entry = e]]
  BY <1>2, <1>4 DEF IInv, TypeOK
<1>6. copy.payment_entry = txns[u].payment_entry =>
         PaymentKept(u, txns[u], [txns[u] EXCEPT !.payment = "paid", !.payment_entry = e])
  BY <1>2, <1>3, RowPayment DEF PaymentKept
<1> QED
  BY <1>1, <1>5, <1>6, SavedWhole

(* A reversal mirrors the payment its copy names.                          *)
LEMMA ReversePayment ==
    ASSUME IInv, NEW w \in Workers, Reverse(w), NEW t \in Txns, Created(t)
    PROVE  PaymentKept(t, txns[t], txns'[t])
<1> DEFINE u    == workers[w].txn
           copy == workers[w].copy
           undo == EntriesToUndo(copy)
           es   == ReverseEntries(w)
<1>1. workers[w].pc = "loaded" /\ ~IsIdle(w)
  BY DEF Reverse, AtStep, IsIdle
<1>2. u \in Txns /\ Created(u)
  BY <1>1, WorkerBusy
<1>3. txns' = [txns EXCEPT ![u] = Undone(copy)]
  BY DEF Reverse
<1>4. copy.payment_entry # NoEntry => Reversed(journal', copy.payment_entry)
  <2>1. es = ReverseEntries(w) /\ undo = EntriesToUndo(workers[w].copy)
    OBVIOUS
  <2> HIDE DEF es, undo
  <2>2. /\ Appendable(es) /\ Post(es) /\ Len(undo) \in {1, 2} /\ DOMAIN es = 1 .. Len(undo)
        /\ copy.payment_entry # NoEntry => undo[1] = copy.payment_entry
        /\ \A i \in 1 .. Len(undo) : es[i].reverses = undo[i]
    BY <2>1, ReverseAppends
  <2>3. TypeOK /\ Len(journal) \in Nat /\ es \in Seq(Entry) /\ 1 \in DOMAIN es
    <3>1. TypeOK /\ Len(journal) \in Nat
      BY DEF IInv, TypeOK
    <3>2. es \in Seq(Entry)
      BY <2>2 DEF Appendable
    <3>3. DOMAIN es = 1 .. Len(undo) /\ Len(undo) \in {1, 2}
      BY <2>2
    <3>4. 1 \in DOMAIN es
      BY <3>3
    <3> QED
      BY <3>1, <3>2, <3>4
  <2>4. /\ journal' \in Seq(Entry) /\ Len(journal') = Len(journal) + Len(es)
        /\ journal'[Len(journal) + 1] = es[1]
    BY <2>2, <2>3, PostGrows
  <2>5. Len(journal) + 1 \in DOMAIN journal'
    BY <2>3, <2>4
  <2> QED
    BY <2>2, <2>3, <2>4, <2>5 DEF Reversed
<1>5. copy.payment_entry = txns[u].payment_entry => PaymentKept(u, txns[u], Undone(copy))
  BY <1>2, <1>4, RowPayment DEF PaymentKept
<1> QED
  BY <1>1, <1>3, <1>5, SavedWhole

LEMMA PaymentsKept ==
    ASSUME IInv, Next, NEW t \in Txns, Created(t)
    PROVE  PaymentKept(t, txns[t], txns'[t])
<1>1. PICK w \in Workers : TxnStep(w) \/ SettleStep(w)
  BY DEF Next
<1>2. \/ UNCHANGED txns
      \/ \E u \in Txns, d \in Drafts : Create(w, u, d)
      \/ CommitApproval(w) \/ CommitEdit(w) \/ Reject(w) \/ Deliver(w) \/ Pay(w) \/ Reverse(w)
  BY <1>1 DEF TxnStep, SettleStep, Begin, CheckApproval, CheckEdit, Fail, Deposit, Withdraw,
              MemberPayment, AdjustBox, Settle, ReverseEntry, SetLimit
<1> QED
  BY <1>2, PaymentUntouched, CreatePayment, ChargePayment, ColumnPayment, PayPayment,
     ReversePayment

LEMMA StutterIInv == IInv /\ UNCHANGED vars => IInv'
<1> SUFFICES ASSUME IInv, UNCHANGED vars PROVE IInv'
  OBVIOUS
<1> QED
  BY DEF vars, IInv, TypeOK, ReversalsCancel, ReversedIsUndone, DeliveredWasPosted, Created

(***************************************************************************)
(*                              Theorems                                   *)
(***************************************************************************)

(* What the handlers keep true of the rows, of the journal and of every    *)
(* copy a request holds, whatever requests overlap.                        *)
THEOREM Invariance == Spec => []IInv
<1>1. IInv /\ [Next]_vars => IInv'
  BY NextGood, GoodStepKeeps, StutterIInv
<1> QED
  BY <1>1, InitIInv, PTL DEF Spec

(* The tables and the workers keep their types.                            *)
THEOREM TypeCorrect == Spec => []TypeOK
<1>1. IInv => TypeOK
  BY DEF IInv
<1> QED
  BY <1>1, Invariance, PTL

(* reverse_entry: an entry is mirrored at most once, by a later entry that *)
(* exchanges the two sides of each of its lines.                           *)
THEOREM ReversalsCancelAlways == Spec => []ReversalsCancel
<1>1. IInv => ReversalsCancel
  BY DEF IInv
<1> QED
  BY <1>1, Invariance, PTL

(* The entries a row names exist and were posted for that transaction.     *)
THEOREM RowsNameTheirEntriesAlways == Spec => []RowsNameTheirEntries
<1>1. IInv => RowsNameTheirEntries
  BY DEF IInv, RowsNameTheirEntries, RowFits
<1> QED
  BY <1>1, Invariance, PTL

(* reverse_transaction: the approval entry a reversed row names has been   *)
(* mirrored.                                                               *)
THEOREM ReversedIsUndoneAlways == Spec => []ReversedIsUndone
<1>1. IInv => ReversedIsUndone
  BY DEF IInv
<1> QED
  BY <1>1, Invariance, PTL

(* mark_delivered: only a transaction that was posted is ever delivered.   *)
THEOREM DeliveredWasPostedAlways == Spec => []DeliveredWasPosted
<1>1. IInv => DeliveredWasPosted
  BY DEF IInv
<1> QED
  BY <1>1, Invariance, PTL

(* No handler rewrites the journal, moves a transaction to another member  *)
(* or currency, returns it to pending or loses its approval entry; and a   *)
(* payment leaves a row only with its entry mirrored, or by a request that *)
(* had loaded the row before that payment.                                 *)
THEOREM HistoryOnlyGrowsAlways == Spec => HistoryOnlyGrows
<1> DEFINE A == /\ Len(journal') >= Len(journal)
                /\ \A e \in DOMAIN journal : journal'[e] = journal[e]
                /\ \A t \in Txns :
                      Created(t) => /\ RowMovesForward(txns[t], txns'[t])
                                    /\ PaymentKept(t, txns[t], txns'[t])
<1>1. IInv /\ [Next]_vars => [A]_vars
  BY NextGood, GoodStepOnlyGrows, PaymentsKept
<1> HIDE DEF A
<1>2. Spec => [][A]_vars
  BY <1>1, Invariance, PTL DEF Spec
<1> QED
  BY <1>2 DEF HistoryOnlyGrows, A

=============================================================================
