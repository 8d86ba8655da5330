------------------------ MODULE ReconciliationProofs ------------------------
(***************************************************************************)
(* Proofs about Reconciliation: no line is counted by two periods, none    *)
(* falls between two periods but by an overlap, and every closing balance  *)
(* is the balance of the account but for the lines so missed.              *)
(***************************************************************************)
EXTENDS Reconciliation, TLAPS

(* A row was read after the record it carries forward was saved, or lists  *)
(* a currency in which nothing had been posted.                            *)
RowOK(row, last, c) ==
    /\ row.seen \subseteq Posted(c)
    /\ row.period = {e \in row.seen : era[e] >= last}
    /\ last # 0 => records[last].rows[c].seen \subseteq row.seen
    /\ row.previous = Previous(last, c) \/ (row.previous = 0 /\ row.seen = {})

LinesOK ==
    \A e \in Lines : /\ era[e] <= Len(records)
                     /\ line[e] = "posted" => CurrencyOf[e] \in links

SessionOK(s) ==
    /\ session[s].pc # "idle" => session[s].last <= Len(records)
    /\ session[s].pc = "lines" =>
          \A c \in Currencies :
             \/ c \in session[s].todo /\ session[s].rows[c] = NoRow
             \/ RowOK(session[s].rows[c], session[s].last, c)

SessionsOK == \A s \in Sessions : SessionOK(s)

RecordOK(i) ==
    /\ records[i].last < i
    /\ records[i].chain = ChainOf(records[i].last) \cup {i}
    /\ \A q \in records[i].chain : 1 <= q /\ q <= i
    /\ \A c \in Currencies :
          /\ RowOK(records[i].rows[c], records[i].last, c)
          /\ \A e \in records[i].rows[c].seen : era[e] < i

RecordsOK == \A i \in 1 .. Len(records) : RecordOK(i)

(* What record i missed of the lines its row saw.                          *)
Missed(i, c) ==
    {e \in records[i].rows[c].seen : \E q \in ChainOf(records[i].last) : MissedBy(e, q)}

ClosingOK(i) ==
    \A c \in Currencies :
        Closing(records[i].rows[c]) = Net[records[i].rows[c].seen \ Missed(i, c)]

IInv ==
    /\ TypeOK /\ LinesOK /\ SessionsOK /\ RecordsOK
    /\ LinesAccounted /\ ClosingExplained

-----------------------------------------------------------------------------
(* Records.                                                                *)

LEMMA RecordType ==
    ASSUME TypeOK, NEW i \in 1 .. Len(records)
    PROVE  /\ records[i] \in Record
           /\ records[i].last \in 0 .. MaxRecords
           /\ records[i].chain \subseteq 1 .. MaxRecords
           /\ \A c \in Currencies : /\ records[i].rows[c] \in Row
                                    /\ records[i].rows[c].previous \in Int
                                    /\ records[i].rows[c].period \subseteq Lines
                                    /\ records[i].rows[c].seen \subseteq Lines
  <1>1. records[i] \in Record
    BY DEF TypeOK
  <1> QED BY <1>1 DEF Record, Row

LEMMA ClosingType ==
    ASSUME NEW row \in Row
    PROVE  Closing(row) \in Int
  BY NetAssumption DEF Row, Closing

(* A step that leaves the posted lines and the records alone leaves every  *)
(* statement about them alone.                                             *)
LEMMA BooksStep ==
    ASSUME IInv, TypeOK', UNCHANGED <<session, records>>,
           \A e \in Lines : line[e] = "posted" => line'[e] = "posted" /\ era'[e] = era[e]
    PROVE  SessionsOK' /\ RecordsOK' /\ ClosingExplained'
  <1>1. ASSUME NEW row, NEW last, NEW c, row.seen \subseteq Lines, RowOK(row, last, c)
        PROVE  RowOK(row, last, c)'
    <2>1. Posted(c) \subseteq Posted(c)'
      BY DEF Posted
    <2>2. \A e \in row.seen : era'[e] = era[e]
      BY <1>1 DEF RowOK, Posted
    <2>3. Previous(last, c)' = Previous(last, c)
      BY DEF Previous, Closing
    <2>4. row.period = {e \in row.seen : era'[e] >= last}
      BY <1>1, <2>2 DEF RowOK
    <2> QED BY <1>1, <2>1, <2>3, <2>4 DEF RowOK
  <1>2. SessionsOK'
    <2>1. \A s \in Sessions : session[s].pc = "lines" =>
             \A c \in Currencies : session[s].rows[c].seen \subseteq Lines
      BY DEF IInv, TypeOK, Session, Idle, Row
    <2>2. SUFFICES ASSUME NEW s \in Sessions
                   PROVE  /\ session[s].pc # "idle" => session[s].last <= Len(records)
                          /\ session[s].pc = "lines" =>
                                \A c \in Currencies :
                                   \/ c \in session[s].todo /\ session[s].rows[c] = NoRow
                                   \/ RowOK(session[s].rows[c], session[s].last, c)'
      BY DEF SessionsOK, SessionOK
    <2>3. session[s].pc # "idle" => session[s].last <= Len(records)
      BY DEF IInv, SessionsOK, SessionOK
    <2>4. ASSUME session[s].pc = "lines", NEW c \in Currencies,
                 ~ (c \in session[s].todo /\ session[s].rows[c] = NoRow)
          PROVE  RowOK(session[s].rows[c], session[s].last, c)'
      <3>1. RowOK(session[s].rows[c], session[s].last, c)
        BY <2>4 DEF IInv, SessionsOK, SessionOK
      <3> QED BY <1>1, <2>1, <2>4, <3>1
    <2> QED BY <2>3, <2>4
  <1>3. RecordsOK'
    <2>1. SUFFICES ASSUME NEW i \in 1 .. Len(records) PROVE RecordOK(i)'
      BY DEF RecordsOK
    <2>2. RecordOK(i)
      BY DEF IInv, RecordsOK
    <2>3. \A c \in Currencies : records[i].rows[c].seen \subseteq Lines
      BY RecordType DEF IInv
    <2>4. ASSUME NEW c \in Currencies
          PROVE  /\ RowOK(records[i].rows[c], records[i].last, c)'
                 /\ \A e \in records[i].rows[c].seen : era'[e] < i
      <3>1. RowOK(records[i].rows[c], records[i].last, c)'
        BY <1>1, <2>2, <2>3 DEF RecordOK
      <3>2. \A e \in records[i].rows[c].seen : e \in Lines /\ line[e] = "posted"
        BY <2>2, <2>3 DEF RecordOK, RowOK, Posted
      <3> QED BY <2>2, <3>1, <3>2 DEF RecordOK
    <2> QED BY <2>2, <2>4 DEF RecordOK, ChainOf
  <1>4. ClosingExplained'
    <2>1. SUFFICES ASSUME NEW i \in DOMAIN records, NEW c \in Currencies
                   PROVE  Closing(records[i].rows[c]) =
                          Net[records[i].rows[c].seen \ Missed(i, c)']
      BY DEF ClosingExplained, Missed, Closing, MissedBy, ChainOf
    <2>2. i \in 1 .. Len(records) /\ records[i].rows[c].seen \subseteq Lines
      BY RecordType DEF IInv, TypeOK
    <2>3. \A e \in records[i].rows[c].seen : era'[e] = era[e]
      BY <2>2 DEF IInv, RecordsOK, RecordOK, RowOK, Posted
    <2>4. Missed(i, c)' = Missed(i, c)
      BY <2>3 DEF Missed, MissedBy, ChainOf
    <2> QED BY <2>4 DEF IInv, ClosingExplained, Missed
  <1> QED BY <1>2, <1>3, <1>4

(* A step that leaves the lines and the records alone.                     *)
LEMMA ReadStep ==
    ASSUME IInv, UNCHANGED <<books, records>>
    PROVE  LinesOK' /\ RecordsOK' /\ LinesAccounted' /\ ClosingExplained'
  <1>1. LinesOK' /\ LinesAccounted'
    BY DEF IInv, books, LinesOK, LinesAccounted, MissedBy
  <1>2. RecordsOK'
    BY DEF IInv, books, RecordsOK, RecordOK, RowOK, Posted, Previous, Closing, ChainOf
  <1>3. ClosingExplained'
    BY DEF IInv, books, ClosingExplained, Closing, MissedBy, ChainOf
  <1> QED BY <1>1, <1>2, <1>3

(* What a request has read stays true while others read.                   *)
LEMMA OtherSession ==
    ASSUME IInv, UNCHANGED <<books, records>>, NEW s \in Sessions, NEW r,
           session' = [session EXCEPT ![s] = r],
           TypeOK,
           r.pc # "idle" => r.last <= Len(records),
           r.pc = "lines" => \A c \in Currencies :
                 \/ c \in r.todo /\ r.rows[c] = NoRow
                 \/ RowOK(r.rows[c], r.last, c)
    PROVE  SessionsOK'
  <1>1. ASSUME NEW row, NEW last, NEW c
        PROVE  RowOK(row, last, c)' = RowOK(row, last, c)
    BY DEF books, RowOK, Posted, Previous, Closing
  <1>2. \A t \in Sessions : session'[t] = IF t = s THEN r ELSE session[t]
    BY DEF TypeOK
  <1>3. SUFFICES ASSUME NEW t \in Sessions
                 PROVE  /\ session'[t].pc # "idle" => session'[t].last <= Len(records)
                        /\ session'[t].pc = "lines" =>
                              \A c \in Currencies :
                                 \/ c \in session'[t].todo /\ session'[t].rows[c] = NoRow
                                 \/ RowOK(session'[t].rows[c], session'[t].last, c)
    BY <1>1 DEF SessionsOK, SessionOK
  <1>4. CASE t = s
    BY <1>2, <1>4
  <1>5. CASE t # s
    BY <1>2, <1>5 DEF IInv, SessionsOK, SessionOK
  <1> QED BY <1>4, <1>5

-----------------------------------------------------------------------------
(* Types.                                                                  *)

LEMMA InitType == Init => TypeOK
  BY BoundAssumption DEF Init, TypeOK, Session, Record

LEMMA RowOfType ==
    ASSUME TypeOK, NEW last \in 0 .. Len(records), NEW c \in Currencies
    PROVE  RowOf(last, c) \in Row
  <1>1. Previous(last, c) \in Int
    <2>1. CASE last = 0
      BY <2>1 DEF Previous
    <2>2. CASE last # 0
      <3>1. last \in 1 .. Len(records)
        BY <2>2, BoundAssumption DEF TypeOK
      <3>2. records[last].rows[c] \in Row
        BY <3>1, RecordType
      <3> QED BY <2>2, <3>2, ClosingType DEF Previous
    <2> QED BY <2>1, <2>2
  <1>2. Since(last, c) \subseteq Lines /\ Posted(c) \subseteq Lines
    BY DEF Since, Posted
  <1> QED BY <1>1, <1>2 DEF RowOf, Row

LEMMA TypeStep == ASSUME IInv, [Next]_vars PROVE TypeOK'
  <1>0. TypeOK
    BY DEF IInv
  <1>1. ASSUME NEW c \in Currencies, OpenAccount(c) PROVE TypeOK'
    BY <1>0, <1>1 DEF TypeOK, OpenAccount
  <1>2. ASSUME NEW e \in Lines, Post(e) PROVE TypeOK'
    BY <1>0, <1>2, BoundAssumption DEF TypeOK, Post
  <1>3. ASSUME NEW e \in Lines, Commit(e) PROVE TypeOK'
    BY <1>0, <1>3, CurrencyAssumption DEF TypeOK, Commit
  <1>4. ASSUME NEW e \in Lines, RollBack(e) PROVE TypeOK'
    BY <1>0, <1>4, BoundAssumption DEF TypeOK, RollBack
  <1>5. ASSUME NEW s \in Sessions, NEW r \in Session,
               session' = [session EXCEPT ![s] = r], UNCHANGED <<books, records>>
        PROVE  TypeOK'
    BY <1>0, <1>5 DEF TypeOK, books
  <1>6. ASSUME NEW s \in Sessions, FindLast(s) PROVE TypeOK'
    <2>1. [pc |-> "links", last |-> Len(records)] \in Session
      BY <1>0, BoundAssumption DEF TypeOK, Session
    <2> QED BY <1>5, <1>6, <2>1 DEF FindLast, Becomes
  <1>7. ASSUME NEW s \in Sessions, FindLinks(s) PROVE TypeOK'
    <2>1. session[s].last \in 0 .. MaxRecords
      BY <1>0, <1>7 DEF TypeOK, FindLinks, Session, Idle
    <2>2. NoRows \in [Currencies -> Row] /\ links \in SUBSET Currencies
      BY <1>0 DEF NoRows, NoRow, Row, TypeOK
    <2>3. [pc |-> "lines", last |-> session[s].last, todo |-> links, rows |-> NoRows] \in Session
      BY <2>1, <2>2 DEF Session
    <2> QED BY <1>5, <1>7, <2>3 DEF FindLinks, Becomes
  <1>8. ASSUME NEW s \in Sessions, NEW c \in Currencies, SumLines(s, c) PROVE TypeOK'
    <2>1. session[s] \in [pc : {"lines"}, last : 0 .. MaxRecords, todo : SUBSET Currencies,
                          rows : [Currencies -> Row]]
      BY <1>0, <1>8 DEF TypeOK, SumLines, Session, Idle
    <2>2. session[s].last \in 0 .. Len(records)
      BY <1>0, <1>8, <2>1 DEF IInv, SessionsOK, SessionOK
    <2>3. RowOf(session[s].last, c) \in Row
      BY <1>0, <2>2, RowOfType
    <2>4. [session[s] EXCEPT !.todo = @ \ {c}, !.rows[c] = RowOf(session[s].last, c)] \in Session
      BY <2>1, <2>3 DEF Session
    <2> QED BY <1>5, <1>8, <2>4 DEF SumLines, Becomes
  <1>9. ASSUME NEW s \in Sessions, commit_reconciliation(s) PROVE TypeOK'
    <2>1. session[s] \in [pc : {"lines"}, last : 0 .. MaxRecords, todo : SUBSET Currencies,
                          rows : [Currencies -> Row]]
      BY <1>0, <1>9 DEF TypeOK, commit_reconciliation, Session, Idle
    <2>2. session[s].last \in 0 .. Len(records) /\ Len(records) \in Nat
      BY <1>0, <1>9, <2>1 DEF IInv, SessionsOK, SessionOK, TypeOK
    <2>3. ChainOf(session[s].last) \subseteq 1 .. MaxRecords
      BY <1>0, <2>2, RecordType DEF ChainOf
    <2> DEFINE r == [last |-> session[s].last, rows |-> snapshot(session[s].rows),
                     chain |-> ChainOf(session[s].last) \cup {Len(records) + 1}]
    <2>4. r \in Record
      BY <1>9, <2>1, <2>2, <2>3, BoundAssumption DEF Record, snapshot, commit_reconciliation
    <2>5. records' = Append(records, r)
      BY <1>9 DEF commit_reconciliation
    <2> HIDE DEF r
    <2>6. records' \in Seq(Record) /\ Len(records') <= MaxRecords
      BY <1>0, <1>9, <2>4, <2>5, BoundAssumption DEF TypeOK, commit_reconciliation
    <2>7. session' \in [Sessions -> Session]
      BY <1>0, <1>9 DEF TypeOK, commit_reconciliation, Becomes, Session
    <2> QED BY <1>0, <1>9, <2>6, <2>7 DEF TypeOK, commit_reconciliation, books
  <1>10. ASSUME NEW s \in Sessions, Leave(s) PROVE TypeOK'
    <2>1. Idle \in Session
      BY DEF Session
    <2> QED BY <1>5, <1>10, <2>1 DEF Leave, Becomes
  <1>11. CASE UNCHANGED vars
    BY <1>0, <1>11 DEF TypeOK, vars
  <1> QED BY <1>1, <1>2, <1>3, <1>4, <1>6, <1>7, <1>8, <1>9, <1>10, <1>11
          DEF Next, Posting, Reconcile

(* The closing of a record, with what it missed named.                     *)
LEMMA ClosingForm ==
    ASSUME ClosingExplained, NEW i \in DOMAIN records, NEW c \in Currencies
    PROVE  Closing(records[i].rows[c]) = Net[records[i].rows[c].seen \ Missed(i, c)]
  BY DEF ClosingExplained, Missed

-----------------------------------------------------------------------------
(* Saving a record.                                                        *)

LEMMA SaveStep ==
    ASSUME IInv, TypeOK', NEW s \in Sessions, commit_reconciliation(s)
    PROVE  IInv'
  <1>0. PICK n, last, rows : /\ n = Len(records) + 1
                             /\ last = session[s].last /\ rows = session[s].rows
    OBVIOUS
  <1>1. TypeOK /\ session[s].pc = "lines" /\ session[s].todo = {}
    BY DEF IInv, commit_reconciliation
  <1>2. /\ last \in 0 .. MaxRecords /\ last <= Len(records) /\ Len(records) \in Nat
        /\ rows \in [Currencies -> Row]
    BY <1>0, <1>1, BoundAssumption DEF IInv, SessionsOK, SessionOK, TypeOK, Session, Idle
  <1>3. records' = Append(records, [last |-> last, rows |-> rows,
                                    chain |-> ChainOf(last) \cup {n}])
    BY <1>0 DEF commit_reconciliation, snapshot
  <1>4. /\ Len(records') = n
        /\ \A i \in 1 .. Len(records) : records'[i] = records[i]
        /\ records'[n].last = last /\ records'[n].rows = rows
        /\ records'[n].chain = ChainOf(last) \cup {n}
        /\ DOMAIN records = 1 .. Len(records) /\ DOMAIN records' = 1 .. n
    BY <1>0, <1>1, <1>2, <1>3 DEF TypeOK
  <1>5. UNCHANGED books
    BY DEF commit_reconciliation
  <1>6. \A c \in Currencies : RowOK(rows[c], last, c)
    BY <1>0, <1>1 DEF IInv, SessionsOK, SessionOK
  <1>7. \A t \in Sessions : session'[t] = IF t = s THEN Idle ELSE session[t]
    BY <1>1 DEF TypeOK, commit_reconciliation, Becomes
  <1>8. ASSUME NEW k \in 0 .. Len(records)
        PROVE  /\ ChainOf(k)' = ChainOf(k)
               /\ \A c : Previous(k, c)' = Previous(k, c)
               /\ \A row, c : RowOK(row, k, c)' <=> RowOK(row, k, c)
    <2>1. k # 0 => records'[k] = records[k]
      BY <1>2, <1>4
    <2>2. ChainOf(k)' = ChainOf(k)
      BY <2>1 DEF ChainOf
    <2>3. \A c : Previous(k, c)' = Previous(k, c)
      BY <2>1 DEF Previous, Closing
    <2>4. \A c : Posted(c)' = Posted(c)
      BY <1>5 DEF Posted, books
    <2> QED BY <1>5, <2>1, <2>2, <2>3, <2>4 DEF RowOK, books
  <1>9. ASSUME NEW e, NEW q \in 1 .. Len(records)
        PROVE  MissedBy(e, q)' <=> MissedBy(e, q)
    BY <1>4, <1>5 DEF MissedBy, books
  <1>10. LinesOK'
    BY <1>1, <1>2, <1>4, <1>5, <1>0 DEF IInv, LinesOK, books, TypeOK
  <1>11. SessionsOK'
    <2>1. SUFFICES ASSUME NEW t \in Sessions PROVE SessionOK(t)'
      BY DEF SessionsOK, SessionOK
    <2>2. CASE t = s
      BY <1>7, <2>2 DEF Idle, SessionOK
    <2>3. CASE t # s
      <3>1. session'[t] = session[t] /\ SessionOK(t)
        BY <1>7, <2>3 DEF IInv, SessionsOK, SessionOK
      <3>2. PICK k : k = session[t].last
        OBVIOUS
      <3>3. session[t].pc # "idle" => k \in 0 .. Len(records)
        BY <1>1, <3>1, <3>2 DEF SessionOK, TypeOK, Session, Idle
      <3>4. session[t].pc # "idle" => k <= n
        BY <1>0, <1>2, <3>3
      <3>5. session[t].pc # "idle" /\ k # 0 => records'[k] = records[k]
        BY <1>2, <1>4, <3>3
      <3>6. session[t].pc = "lines" =>
               \A c \in Currencies :
                  RowOK(session[t].rows[c], k, c) => RowOK(session[t].rows[c], k, c)'
        BY <1>5, <3>1, <3>5 DEF RowOK, Posted, Previous, Closing, books
      <3>7. (session[t].pc = "lines" =>
               \A c \in Currencies :
                  \/ c \in session[t].todo /\ session[t].rows[c] = NoRow
                  \/ RowOK(session[t].rows[c], session[t].last, c))'
        BY <1>5, <3>1, <3>2, <3>5 DEF SessionOK, RowOK, Posted, Previous, Closing, books
      <3> QED BY <1>0, <1>4, <3>1, <3>2, <3>4, <3>7 DEF SessionOK
    <2> QED BY <2>2, <2>3
  <1>12. last \in 0 .. Len(records)
    BY <1>2
  <1>13. RecordsOK'
    <2>1. SUFFICES ASSUME NEW i \in 1 .. n PROVE RecordOK(i)'
      BY <1>4 DEF RecordsOK
    <2>2. CASE i = n
      <3>1. \A q \in ChainOf(last) : 1 <= q /\ q <= last
        <4>1. last # 0 => RecordOK(last)
          BY <1>12 DEF IInv, RecordsOK
        <4> QED BY <1>12, <4>1 DEF RecordOK, ChainOf
      <3>2. ChainOf(last)' = ChainOf(last)
        BY <1>8, <1>12
      <3>3. ASSUME NEW c \in Currencies
            PROVE  RowOK(rows[c], last, c)' /\ \A e \in rows[c].seen : era'[e] < n
        <4>1. RowOK(rows[c], last, c)'
          BY <1>6, <1>8, <1>12
        <4>2. \A e \in rows[c].seen : era[e] \in Nat /\ era[e] <= Len(records)
          BY <1>1, <1>6 DEF IInv, LinesOK, RowOK, Posted, TypeOK
        <4> QED BY <1>2, <1>5, <1>0, <4>1, <4>2 DEF books
      <3>4. ChainOf(last) \subseteq Nat
        BY <1>1, <1>12, RecordType DEF ChainOf
      <3> QED BY <1>2, <1>4, <1>12, <1>0, <2>2, <3>1, <3>2, <3>3, <3>4 DEF RecordOK
    <2>3. CASE i # n
      <3>1. i \in 1 .. Len(records)
        BY <1>2, <1>0, <2>3
      <3>2. RecordOK(i) /\ records'[i] = records[i]
        BY <1>4, <3>1 DEF IInv, RecordsOK
      <3>3. records[i].last \in 0 .. Len(records)
        BY <1>1, <1>2, <3>1, <3>2, RecordType DEF RecordOK
      <3>4. records[i].last # 0 => records'[records[i].last] = records[records[i].last]
        BY <1>2, <1>4, <3>3
      <3> QED BY <1>5, <3>2, <3>4
              DEF RecordOK, RowOK, Posted, Previous, Closing, ChainOf, books
    <2> QED BY <2>2, <2>3
  <1>14. LinesAccounted'
    <2>1. SUFFICES ASSUME NEW i \in 1 .. n, NEW e \in Lines, line[e] = "posted", era[e] < i
                   PROVE  \E q \in 1 .. i :
                             \/ e \in records'[q].rows[CurrencyOf[e]].period
                             \/ MissedBy(e, q)'
      BY <1>4, <1>5 DEF LinesAccounted, books
    <2>2. \A q \in 1 .. Len(records) :
             e \in records[q].rows[CurrencyOf[e]].period \/ MissedBy(e, q) =>
                e \in records'[q].rows[CurrencyOf[e]].period \/ MissedBy(e, q)'
      BY <1>4, <1>9
    <2>3. ASSUME NEW k \in 1 .. Len(records), era[e] < k
          PROVE  \E q \in 1 .. k : \/ e \in records'[q].rows[CurrencyOf[e]].period
                                   \/ MissedBy(e, q)'
      <3>1. PICK q \in 1 .. k : e \in records[q].rows[CurrencyOf[e]].period \/ MissedBy(e, q)
        BY <1>4, <2>1, <2>3 DEF IInv, LinesAccounted
      <3>2. q \in 1 .. Len(records)
        BY <1>2
      <3> QED BY <2>2, <3>1, <3>2
    <2>4. CASE i # n
      <3>1. i \in 1 .. Len(records)
        BY <1>2, <1>0, <2>4
      <3> QED BY <2>1, <2>3, <3>1
    <2>5. CASE i = n /\ e \notin rows[CurrencyOf[e]].seen
      <3>1. MissedBy(e, n)'
        BY <1>4, <1>5, <2>1, <2>5 DEF MissedBy, books
      <3> QED BY <2>5, <3>1
    <2>6. CASE i = n /\ e \in rows[CurrencyOf[e]].seen /\ era[e] >= last
      <3>1. CurrencyOf[e] \in Currencies
        BY CurrencyAssumption
      <3>2. e \in records'[n].rows[CurrencyOf[e]].period
        BY <1>4, <1>6, <2>6, <3>1 DEF RowOK
      <3> QED BY <2>6, <3>2
    <2>7. CASE i = n /\ ~ (era[e] >= last)
      <3>1. era[e] \in Nat
        BY <1>1 DEF TypeOK
      <3>2. last \in 1 .. Len(records) /\ era[e] < last
        BY <1>12, <2>7, <3>1
      <3>3. PICK q \in 1 .. last : \/ e \in records'[q].rows[CurrencyOf[e]].period
                                   \/ MissedBy(e, q)'
        BY <2>3, <3>2
      <3>4. q \in 1 .. i
        BY <1>2, <1>0, <2>7, <3>2
      <3> QED BY <3>3, <3>4
    <2> QED BY <2>4, <2>5, <2>6, <2>7
  <1>15. ClosingExplained'
    <2>1. SUFFICES ASSUME NEW i \in 1 .. n, NEW c \in Currencies
                   PROVE  Closing(records'[i].rows[c]) =
                          Net[records'[i].rows[c].seen \ Missed(i, c)']
      BY <1>4 DEF ClosingExplained, Missed, Closing, MissedBy, ChainOf
    <2>2. CASE i # n
      <3>1. i \in 1 .. Len(records) /\ records'[i] = records[i]
        BY <1>2, <1>4, <1>0, <2>2
      <3>2. RecordOK(i) /\ records[i].last \in 0 .. Len(records)
        BY <1>1, <1>2, <3>1, RecordType DEF IInv, RecordsOK, RecordOK
      <3>6. PICK k \in 0 .. Len(records) : k = records[i].last
        BY <3>2
      <3>3. k # 0 => records'[k] = records[k]
        BY <1>2, <1>4
      <3>4. ChainOf(k) \subseteq 1 .. Len(records)
        BY <1>1, <1>2, <3>1, <3>2, <3>6, RecordType DEF RecordOK
      <3>5. \A q \in ChainOf(k) : records'[q] = records[q]
        BY <1>4, <3>4
      <3>7. Missed(i, c)' = Missed(i, c)
        BY <1>5, <3>1, <3>3, <3>5, <3>6 DEF Missed, MissedBy, ChainOf, books
      <3>8. Closing(records[i].rows[c]) = Net[records[i].rows[c].seen \ Missed(i, c)]
        BY <1>4, <3>1, ClosingForm DEF IInv
      <3> QED BY <3>1, <3>7, <3>8
    <2>3. CASE i = n
      <3> DEFINE seen == rows[c].seen
                 missed == {e \in seen : \E q \in ChainOf(last) : MissedBy(e, q)}
      <3>1. SUFFICES Closing(rows[c]) = Net[seen \ missed]
        <4>1. ChainOf(last)' = ChainOf(last)
          BY <1>8, <1>12
        <4>2. \A q \in ChainOf(last) : q \in 1 .. Len(records)
          <5>1. last # 0 => RecordOK(last) /\ last \in 1 .. Len(records)
            BY <1>12 DEF IInv, RecordsOK
          <5> QED BY <1>1, <1>2, <5>1, RecordType DEF RecordOK, ChainOf
        <4>3. \A q \in ChainOf(last) : records'[q] = records[q]
          BY <1>4, <4>2
        <4>4. Missed(n, c)' = missed
          BY <1>4, <1>5, <4>1, <4>3 DEF Missed, MissedBy, ChainOf, books
        <4> QED BY <1>4, <2>3, <4>4
      <3>2. /\ seen \subseteq Lines /\ missed \subseteq seen
            /\ rows[c].period \subseteq Lines /\ RowOK(rows[c], last, c)
        BY <1>2, <1>6 DEF Row
      <3>3. CASE rows[c].previous = 0 /\ seen = {}
        <4>1. rows[c].period = {}
          BY <3>2, <3>3 DEF RowOK
        <4> QED BY <3>3, <4>1, NetAssumption DEF Closing
      <3>4. CASE rows[c].previous = Previous(last, c) /\ last = 0
        <4>1. missed = {}
          BY <3>4 DEF ChainOf
        <4>2. rows[c].period = seen
          <5>1. \A e \in seen : era[e] >= 0
            BY <1>1, <3>2 DEF TypeOK
          <5> QED BY <3>2, <3>4, <5>1 DEF RowOK
        <4> QED BY <3>2, <3>4, <4>1, <4>2, NetAssumption DEF Closing, Previous
      <3>5. CASE rows[c].previous = Previous(last, c) /\ last # 0
        <4> DEFINE row == records[last].rows[c]
                   before == row.seen \ Missed(last, c)
        <4>1. last \in 1 .. Len(records) /\ RecordOK(last)
          BY <1>12, <3>5 DEF IInv, RecordsOK
        <4>2. Closing(row) = Net[before]
          BY <1>4, <4>1, ClosingForm DEF IInv
        <4>3. \A e \in seen : CurrencyOf[e] = c /\ era[e] \in Nat
          BY <1>1, <3>2 DEF RowOK, Posted, TypeOK
        <4>4. ChainOf(last) = ChainOf(records[last].last) \cup {last}
          BY <3>5, <4>1 DEF RecordOK, ChainOf
        <4>5. \A q \in ChainOf(last) : q \in Nat /\ q <= last
          BY <1>1, <3>5, <4>1, RecordType DEF RecordOK, ChainOf
        <4>6. row.seen \subseteq seen /\ \A e \in row.seen : era[e] < last
          BY <3>2, <3>5, <4>1 DEF RowOK, RecordOK
        <4>7. \A e \in seen : MissedBy(e, last) <=> era[e] < last /\ e \notin row.seen
          BY <4>3 DEF MissedBy
        <4>8. \A e \in row.seen :
                 e \in missed <=> e \in Missed(last, c)
          BY <4>4, <4>6, <4>7 DEF Missed
        <4>9. \A e \in seen : era[e] >= last => e \notin missed
          BY <4>3, <4>5, <1>12 DEF MissedBy
        <4>10. \A e \in seen : era[e] < last /\ e \notin row.seen => e \in missed
          BY <4>4, <4>7
        <4>11. rows[c].period = {e \in seen : era[e] >= last}
          BY <3>2 DEF RowOK
        <4>12. Missed(last, c) \subseteq row.seen
          BY DEF Missed
        <4> HIDE DEF missed, seen
        <4>13. seen \ missed = rows[c].period \cup before
          BY <1>12, <4>3, <4>6, <4>8, <4>9, <4>10, <4>11, <4>12
        <4>14. rows[c].period \cap before = {}
          BY <1>12, <4>3, <4>6, <4>11
        <4>15. before \subseteq Lines /\ rows[c].period \subseteq Lines
          BY <3>2, <4>6
        <4> HIDE DEF before
        <4>16. Net[seen \ missed] = Net[rows[c].period] + Net[before]
          BY <4>13, <4>14, <4>15, NetAssumption
        <4>17. Net[rows[c].period] \in Int /\ Net[before] \in Int
          BY <4>15, NetAssumption
        <4> QED BY <3>5, <4>2, <4>16, <4>17 DEF Closing, Previous
      <3> QED BY <3>2, <3>3, <3>4, <3>5 DEF RowOK
    <2> QED BY <2>2, <2>3
  <1> QED BY <1>10, <1>11, <1>13, <1>14, <1>15 DEF IInv

-----------------------------------------------------------------------------
(* Every step.                                                             *)

LEMMA InitInv == Init => IInv
  <1> SUFFICES ASSUME Init PROVE IInv
    OBVIOUS
  <1>1. TypeOK
    BY InitType
  <1>2. Len(records) = 0 /\ DOMAIN records = {}
    BY DEF Init
  <1>3. LinesOK /\ SessionsOK /\ RecordsOK
    BY <1>2 DEF Init, LinesOK, SessionsOK, SessionOK, RecordsOK, Idle
  <1>4. LinesAccounted /\ ClosingExplained
    BY <1>2 DEF LinesAccounted, ClosingExplained
  <1> QED BY <1>1, <1>3, <1>4 DEF IInv

(* Postings do not touch what was posted.                                  *)
LEMMA PostingStep == ASSUME IInv, TypeOK', Posting PROVE IInv'
  <1>1. TypeOK /\ Len(records) \in Nat /\ DOMAIN records = 1 .. Len(records)
    BY DEF IInv, TypeOK
  <1>2. UNCHANGED <<session, records>>
    BY DEF Posting, OpenAccount, Post, Commit, RollBack
  <1>3. \A e \in Lines : line[e] = "posted" => line'[e] = "posted" /\ era'[e] = era[e]
    <2>1. ASSUME NEW e \in Lines, Post(e) \/ Commit(e) \/ RollBack(e)
          PROVE  \A f \in Lines : line[f] = "posted" => line'[f] = "posted" /\ era'[f] = era[f]
      BY <1>1, <2>1 DEF TypeOK, Post, Commit, RollBack
    <2>2. ASSUME NEW c \in Currencies, OpenAccount(c)
          PROVE  \A f \in Lines : line[f] = "posted" => line'[f] = "posted" /\ era'[f] = era[f]
      BY <2>2 DEF OpenAccount
    <2> QED BY <2>1, <2>2 DEF Posting
  <1>4. SessionsOK' /\ RecordsOK' /\ ClosingExplained'
    BY <1>2, <1>3, BooksStep
  <1>5. LinesOK'
    <2>1. ASSUME NEW e \in Lines, Post(e) PROVE LinesOK'
      BY <1>1, <2>1 DEF IInv, LinesOK, TypeOK, Post
    <2>2. ASSUME NEW e \in Lines, Commit(e) PROVE LinesOK'
      BY <1>1, <2>2 DEF IInv, LinesOK, TypeOK, Commit
    <2>3. ASSUME NEW e \in Lines, RollBack(e) PROVE LinesOK'
      BY <1>1, <2>3 DEF IInv, LinesOK, TypeOK, RollBack
    <2>4. ASSUME NEW c \in Currencies, OpenAccount(c) PROVE LinesOK'
      BY <2>4 DEF IInv, LinesOK, OpenAccount
    <2> QED BY <2>1, <2>2, <2>3, <2>4 DEF Posting
  <1>6. ASSUME NEW i \in DOMAIN records, NEW e \in Lines, line'[e] = "posted", era'[e] < i
        PROVE  \E q \in 1 .. i : \/ e \in records[q].rows[CurrencyOf[e]].period
                                 \/ MissedBy(e, q)'
    <2>1. CASE line[e] = "posted"
      <3>1. era'[e] = era[e]
        BY <1>3, <2>1
      <3> QED BY <1>2, <1>6, <2>1, <3>1 DEF IInv, LinesAccounted, MissedBy
    <2>2. CASE line[e] # "posted"
      <3>1. CurrencyOf[e] \in Currencies /\ i \in 1 .. Len(records)
        BY <1>1, CurrencyAssumption
      <3>2. e \notin records[i].rows[CurrencyOf[e]].seen
        BY <2>2, <3>1 DEF IInv, RecordsOK, RecordOK, RowOK, Posted
      <3>3. MissedBy(e, i)'
        BY <1>2, <1>6, <3>2 DEF MissedBy
      <3> QED BY <3>1, <3>3
    <2> QED BY <2>1, <2>2
  <1>7. LinesAccounted'
    BY <1>2, <1>6 DEF LinesAccounted
  <1> QED BY <1>4, <1>5, <1>7 DEF IInv

LEMMA ReadsStep ==
    ASSUME IInv, TypeOK', NEW s \in Sessions,
           \/ FindLast(s) \/ FindLinks(s) \/ Leave(s)
           \/ \E c \in Currencies : SumLines(s, c)
    PROVE  IInv'
  <1>1. TypeOK /\ SessionOK(s) /\ Len(records) \in Nat
    BY DEF IInv, TypeOK, SessionsOK
  <1>2. UNCHANGED <<books, records>>
    BY DEF FindLast, FindLinks, Leave, SumLines
  <1>3. LinesOK' /\ RecordsOK' /\ LinesAccounted' /\ ClosingExplained'
    BY <1>2, ReadStep
  <1>4. SessionsOK'
    <2>1. CASE FindLast(s)
      <3> DEFINE r == [pc |-> "links", last |-> Len(records)]
      <3>1. r.pc # "idle" => r.last <= Len(records)
        BY <1>1
      <3>2. r.pc # "lines" /\ session' = [session EXCEPT ![s] = r]
        BY <2>1 DEF FindLast, Becomes
      <3> HIDE DEF r
      <3> QED BY <1>1, <1>2, <3>1, <3>2, OtherSession
    <2>2. CASE Leave(s)
      <3>1. session' = [session EXCEPT ![s] = Idle] /\ Idle.pc = "idle"
        BY <2>2 DEF Leave, Becomes, Idle
      <3> QED BY <1>1, <1>2, <3>1, OtherSession
    <2>3. CASE FindLinks(s)
      <3> DEFINE r == [pc |-> "lines", last |-> session[s].last, todo |-> links,
                       rows |-> NoRows]
      <3>1. session' = [session EXCEPT ![s] = r] /\ session[s].pc = "links"
        BY <2>3 DEF FindLinks, Becomes
      <3>2. session[s].last \in 0 .. Len(records)
        BY <1>1, <3>1 DEF SessionOK, TypeOK, Session, Idle
      <3>3. ASSUME NEW c \in Currencies, c \notin links
            PROVE  RowOK(NoRow, session[s].last, c)
        <4>1. Posted(c) = {}
          BY <3>3 DEF IInv, LinesOK, Posted
        <4>2. session[s].last # 0 => records[session[s].last].rows[c].seen \subseteq Posted(c)
          BY <3>2 DEF IInv, RecordsOK, RecordOK, RowOK
        <4> QED BY <4>1, <4>2 DEF RowOK, NoRow
      <3>4. \A c \in Currencies : \/ c \in r.todo /\ r.rows[c] = NoRow
                                  \/ RowOK(r.rows[c], r.last, c)
        BY <3>3 DEF NoRows
      <3>5. r.last <= Len(records)
        BY <3>2
      <3> HIDE DEF r
      <3> QED BY <1>1, <1>2, <3>1, <3>4, <3>5, OtherSession
    <2>4. ASSUME NEW c \in Currencies, SumLines(s, c) PROVE SessionsOK'
      <3> DEFINE last == session[s].last
                 r == [session[s] EXCEPT !.todo = @ \ {c}, !.rows[c] = RowOf(last, c)]
      <3>1. session' = [session EXCEPT ![s] = r] /\ session[s].pc = "lines"
        BY <2>4 DEF SumLines, Becomes
      <3>2. session[s] \in [pc : {"lines"}, last : 0 .. MaxRecords, todo : SUBSET Currencies,
                            rows : [Currencies -> Row]]
        BY <1>1, <3>1 DEF TypeOK, Session, Idle
      <3>3. last \in 0 .. Len(records)
        BY <1>1, <3>1, <3>2 DEF SessionOK
      <3>4. /\ r.pc = "lines" /\ r.last = last /\ r.todo = session[s].todo \ {c}
            /\ \A d \in Currencies :
                  r.rows[d] = IF d = c THEN RowOf(last, c) ELSE session[s].rows[d]
        BY <3>2
      <3>5. RowOK(RowOf(last, c), last, c)
        <4>1. last # 0 => records[last].rows[c].seen \subseteq Posted(c)
          BY <3>3 DEF IInv, RecordsOK, RecordOK, RowOK
        <4> QED BY <4>1 DEF RowOK, RowOf, Since
      <3>6. \A d \in Currencies : \/ d \in session[s].todo /\ session[s].rows[d] = NoRow
                                  \/ RowOK(session[s].rows[d], last, d)
        BY <1>1, <3>1 DEF SessionOK
      <3> HIDE DEF r, last
      <3>7. \A d \in Currencies : \/ d \in r.todo /\ r.rows[d] = NoRow
                                  \/ RowOK(r.rows[d], r.last, d)
        BY <3>4, <3>5, <3>6
      <3>8. r.last <= Len(records)
        BY <3>3, <3>4
      <3> QED BY <1>1, <1>2, <3>1, <3>7, <3>8, OtherSession
    <2> QED BY <2>1, <2>2, <2>3, <2>4
  <1> QED BY <1>3, <1>4 DEF IInv

LEMMA NextInv == IInv /\ [Next]_vars => IInv'
  <1> SUFFICES ASSUME IInv, [Next]_vars PROVE IInv'
    OBVIOUS
  <1>1. TypeOK'
    BY TypeStep
  <1>2. CASE Posting
    BY <1>1, <1>2, PostingStep
  <1>3. ASSUME NEW s \in Sessions, commit_reconciliation(s) PROVE IInv'
    BY <1>1, <1>3, SaveStep
  <1>4. ASSUME NEW s \in Sessions,
               \/ FindLast(s) \/ FindLinks(s) \/ Leave(s)
               \/ \E c \in Currencies : SumLines(s, c)
        PROVE  IInv'
    BY <1>1, <1>4, ReadsStep
  <1>5. CASE UNCHANGED vars
    <2>1. SessionsOK' /\ RecordsOK' /\ ClosingExplained'
      BY <1>1, <1>5, BooksStep DEF vars
    <2>2. LinesOK' /\ LinesAccounted'
      BY <1>5, ReadStep DEF vars, books
    <2> QED BY <1>1, <2>1, <2>2 DEF IInv
  <1> QED BY <1>2, <1>3, <1>4, <1>5 DEF Next, Reconcile

THEOREM Invariance == Spec => []IInv
  BY InitInv, NextInv, PTL DEF Spec

(* Every variable has its type.                                            *)
THEOREM TypeCorrect == Spec => []TypeOK
  <1>1. IInv => TypeOK
    BY DEF IInv
  <1> QED BY <1>1, Invariance, PTL

(* A record never counts a line that a record it carries forward, or any   *)
(* record saved before it began, has counted: for any postings, sessions   *)
(* and number of records.                                                  *)
THEOREM LinesCountedOnce == Spec => []CountedOnce
  <1>1. IInv => CountedOnce
    <2> SUFFICES ASSUME IInv, NEW i \in DOMAIN records, NEW q \in 1 .. records[i].last,
                        NEW c \in Currencies
                 PROVE  records[q].rows[c].period \cap records[i].rows[c].period = {}
      BY DEF CountedOnce
    <2>1. i \in 1 .. Len(records) /\ Len(records) \in Nat /\ TypeOK
      BY DEF IInv, TypeOK
    <2>2. records[i].last \in 0 .. MaxRecords /\ RecordOK(i)
      BY <2>1, RecordType DEF IInv, RecordsOK
    <2>3. q \in 1 .. Len(records) /\ q <= records[i].last
      BY <2>1, <2>2, BoundAssumption DEF RecordOK
    <2>4. RecordOK(q)
      BY <2>3 DEF IInv, RecordsOK
    <2>5. ASSUME NEW e \in records[q].rows[c].period, e \in records[i].rows[c].period
          PROVE  FALSE
      <3>1. e \in records[q].rows[c].seen /\ e \in Lines
        BY <2>1, <2>3, <2>4, <2>5, RecordType DEF RecordOK, RowOK
      <3>2. era[e] \in Nat /\ era[e] < q /\ era[e] >= records[i].last
        BY <2>1, <2>2, <2>4, <2>5, <3>1 DEF RecordOK, RowOK, TypeOK
      <3> QED BY <2>2, <2>3, <3>2
    <2> QED BY <2>5
  <1> QED BY <1>1, Invariance, PTL

(* No line falls between two periods but by an overlap.                    *)
THEOREM NoLineLost == Spec => []LinesAccounted
  <1>1. IInv => LinesAccounted
    BY DEF IInv
  <1> QED BY <1>1, Invariance, PTL

(* Every closing balance is the balance of the account as it was read, but *)
(* for what earlier records of the chain missed.                           *)
THEOREM ClosingBalances == Spec => []ClosingExplained
  <1>1. IInv => ClosingExplained
    BY DEF IInv
  <1> QED BY <1>1, Invariance, PTL
=============================================================================
