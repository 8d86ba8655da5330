--------------------------- MODULE Reconciliation ---------------------------
(***************************************************************************)
(* The reconciliations of one small office (backend/apps/boxes): each      *)
(* record carries the closing balance of the record before it forward over *)
(* the lines posted since.  Lines are stamped when they are inserted and   *)
(* become visible when their transaction commits; a reconciliation reads   *)
(* the last record, the accounts and the lines of each account in          *)
(* statements of their own, and is stamped when it is saved.               *)
(*                                                                         *)
(* Stamps are compared with stamps of records only, so the stamp of a line *)
(* is the number of records saved before it: line e is later than record i *)
(* when era[e] >= i.                                                       *)
(***************************************************************************)
EXTENDS Integers, Sequences

CONSTANTS
    Currencies,
    Lines,      \* what is posted to the accounts of the small office
    CurrencyOf, \* CurrencyOf[e]
    Net,        \* Net[S]: the debits minus the credits of a set of lines
    Sessions,   \* requests that commit a reconciliation
    MaxRecords  \* bound on the records saved

ASSUME CurrencyAssumption == CurrencyOf \in [Lines -> Currencies]
ASSUME NetAssumption ==
    /\ Net \in [SUBSET Lines -> Int]
    /\ Net[{}] = 0
    /\ \A S, T \in SUBSET Lines : S \cap T = {} => Net[S \cup T] = Net[S] + Net[T]
ASSUME BoundAssumption == MaxRecords \in Nat

VARIABLES
    links,      \* currencies with a SmallOfficeAccount
    line,       \* line[e]: "none", "open" (not committed) or "posted"
    era,        \* created_at of the lines
    opens,      \* lines whose transaction creates the account
    session,    \* what each request has read
    records     \* the rows of Reconciliation, in the order of created_at

vars == <<links, line, era, opens, session, records>>

(* A row of a snapshot: the previous balance and the lines its debits and  *)
(* credits sum; "seen" is a ghost, the lines there were when it was read.  *)
Row == [previous : Int, period : SUBSET Lines, seen : SUBSET Lines]
NoRow == [previous |-> 0, period |-> {}, seen |-> {}]
NoRows == [c \in Currencies |-> NoRow]

(* "chain" is a ghost: the record, the one it carries forward, and so on.  *)
Record ==
    [last : 0 .. MaxRecords, rows : [Currencies -> Row], chain : SUBSET (1 .. MaxRecords)]

Idle == [pc |-> "idle"]
Session ==
         {Idle}
    \cup [pc : {"links"}, last : 0 .. MaxRecords]
    \cup [pc : {"lines"}, last : 0 .. MaxRecords, todo : SUBSET Currencies,
          rows : [Currencies -> Row]]

TypeOK ==
    /\ links \subseteq Currencies
    /\ line \in [Lines -> {"none", "open", "posted"}]
    /\ era \in [Lines -> 0 .. MaxRecords]
    /\ opens \subseteq Lines
    /\ session \in [Sessions -> Session]
    /\ records \in Seq(Record) /\ Len(records) <= MaxRecords

Init ==
    /\ links = {}
    /\ line = [e \in Lines |-> "none"] /\ era = [e \in Lines |-> 0] /\ opens = {}
    /\ session = [s \in Sessions |-> Idle]
    /\ records = <<>>

Becomes(s, r) == session' = [session EXCEPT ![s] = r]
books == <<links, line, era, opens>>

-----------------------------------------------------------------------------
(* Postings: approvals, payments, deposits, reversals.                     *)

(* get_small_office_account from a request that posts nothing.             *)
OpenAccount(c) ==
    /\ c \notin links
    /\ links' = links \cup {c}
    /\ UNCHANGED <<line, era, opens, session, records>>

Post(e) ==
    /\ line[e] = "none"
    /\ line' = [line EXCEPT ![e] = "open"]
    /\ era' = [era EXCEPT ![e] = Len(records)]
    /\ opens' = IF CurrencyOf[e] \in links THEN opens ELSE opens \cup {e}
    /\ UNCHANGED <<links, session, records>>

(* A second account of one small office and currency is refused.           *)
Commit(e) ==
    /\ line[e] = "open"
    /\ e \in opens => CurrencyOf[e] \notin links
    /\ line' = [line EXCEPT ![e] = "posted"]
    /\ links' = links \cup {CurrencyOf[e]}
    /\ opens' = opens \ {e}
    /\ UNCHANGED <<era, session, records>>

(* The credit limit, a duplicate account, a later check, a crash.          *)
RollBack(e) ==
    /\ line[e] = "open"
    /\ line' = [line EXCEPT ![e] = "none"]
    /\ era' = [era EXCEPT ![e] = 0]
    /\ opens' = opens \ {e}
    /\ UNCHANGED <<links, session, records>>

-----------------------------------------------------------------------------
(* build_reconciliation and commit_reconciliation.                         *)

Closing(row) == row.previous + Net[row.period]

Posted(c) == {e \in Lines : CurrencyOf[e] = c /\ line[e] = "posted"}

(* prev_map.get(currency, 0).                                              *)
Previous(last, c) == IF last = 0 THEN 0 ELSE Closing(records[last].rows[c])

(* (Bug: the filter compares days, so that lines which are older than the  *)
(* last record come back.)                                                 *)
SameDay(last, c) == {e \in Posted(c) : era[e] >= last - 1}

(* (Bug: lines are taken from the day after the last record.)              *)
NextDay(last, c) == {e \in Posted(c) : last # 0 => era[e] > last}

(* created_at__gt = last.created_at.                                       *)
Since(last, c) == {e \in Posted(c) : era[e] >= last}

RowOf(last, c) ==
    [previous |-> Previous(last, c), period |-> Since(last, c), seen |-> Posted(c)]

FindLast(s) ==
    /\ session[s].pc = "idle"
    /\ Becomes(s, [pc |-> "links", last |-> Len(records)])
    /\ UNCHANGED <<books, records>>

FindLinks(s) ==
    /\ session[s].pc = "links"
    /\ Becomes(s, [pc |-> "lines", last |-> session[s].last, todo |-> links, rows |-> NoRows])
    /\ UNCHANGED <<books, records>>

SumLines(s, c) ==
    /\ session[s].pc = "lines" /\ c \in session[s].todo
    /\ Becomes(s, [session[s] EXCEPT !.todo = @ \ {c},
                                     !.rows[c] = RowOf(session[s].last, c)])
    /\ UNCHANGED <<books, records>>

(* (Bug: currencies without a movement are left out of the snapshot.)      *)
MovedOnly(rows) ==
    [c \in Currencies |-> IF rows[c].period = {} THEN [rows[c] EXCEPT !.previous = 0]
                                                 ELSE rows[c]]

snapshot(rows) == rows

ChainOf(last) == IF last = 0 THEN {} ELSE records[last].chain

commit_reconciliation(s) ==
    /\ session[s].pc = "lines" /\ session[s].todo = {}
    /\ Len(records) < MaxRecords
    /\ records' = Append(records, [last |-> session[s].last,
                                   rows |-> snapshot(session[s].rows),
                                   chain |-> ChainOf(session[s].last) \cup {Len(records) + 1}])
    /\ Becomes(s, Idle)
    /\ UNCHANGED books

(* A preview ends without a record, a request may fail.                    *)
Leave(s) ==
    /\ session[s].pc # "idle"
    /\ Becomes(s, Idle)
    /\ UNCHANGED <<books, records>>

Posting ==
    \/ \E c \in Currencies : OpenAccount(c)
    \/ \E e \in Lines : Post(e) \/ Commit(e) \/ RollBack(e)

Reconcile(s) ==
    \/ FindLast(s) \/ FindLinks(s)
    \/ \E c \in Currencies : SumLines(s, c)
    \/ commit_reconciliation(s) \/ Leave(s)

Next == Posting \/ \E s \in Sessions : Reconcile(s)

Spec == Init /\ [][Next]_vars

-----------------------------------------------------------------------------
(* Properties.                                                             *)

(* A line is counted by one period only: a record that was begun after     *)
(* another was saved counts none of its lines again.                       *)
CountedOnce ==
    \A i \in DOMAIN records : \A q \in 1 .. records[i].last : \A c \in Currencies :
        records[q].rows[c].period \cap records[i].rows[c].period = {}

(* Line e was stamped before record q, which did not see it: its           *)
(* transaction and the reconciliation overlapped.                          *)
MissedBy(e, q) == era[e] < q /\ e \notin records[q].rows[CurrencyOf[e]].seen

(* No line falls between two periods unnoticed: a posted line which is     *)
(* older than a record is counted by that record or an earlier one, or one *)
(* of them overlapped its transaction.                                     *)
LinesAccounted ==
    \A i \in DOMAIN records : \A e \in Lines :
        line[e] = "posted" /\ era[e] < i =>
            \E q \in 1 .. i : \/ e \in records[q].rows[CurrencyOf[e]].period
                              \/ MissedBy(e, q)

(* Previous plus debits minus credits is the balance the account had when  *)
(* it was read, but for the lines that an earlier record of the chain      *)
(* overlapped and missed: no other amount is lost or counted twice.        *)
ClosingExplained ==
    \A i \in DOMAIN records : \A c \in Currencies :
        LET row == records[i].rows[c]
            missed == {e \in row.seen : \E q \in ChainOf(records[i].last) : MissedBy(e, q)}
        IN  Closing(row) = Net[row.seen \ missed]
=============================================================================
