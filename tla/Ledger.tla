------------------------------- MODULE Ledger -------------------------------
(***************************************************************************)
(* The double-entry engine of backend/apps/core: accounts, journal entries *)
(* and the two services that write them, post_entry and reverse_entry.     *)
(* The module has no variables: the journal is a sequence, the index of an *)
(* entry is its primary key, and the operators say when a posting is       *)
(* refused, what it appends and what a balance is.                         *)
(*                                                                         *)
(* A figure is an integer, finer than a column: the numeric(18,4) columns  *)
(* hold the multiples of Unit and round everything else to them.           *)
(*                                                                         *)
(* One tenant (office) is modelled.  Every account below belongs to it, so *)
(* the same-tenant check of post_entry always holds here.                  *)
(***************************************************************************)
EXTENDS Integers, Sequences, FiniteSets, Functions

CONSTANTS
    Members,     \* users with a ledger account: small offices, and the big office itself
    Boxes,       \* intermediary boxes
    Currencies,  \* currency codes of the tenant
    Tenant,      \* owner of the accounts that belong to no member and no box
    Txns,        \* identities of the transactions (remittances)
    Unit         \* the last decimal of a money column

ASSUME TenantAssumption == Tenant \notin Members \cup Boxes

ASSUME UnitAssumption == Unit \in Nat \ {0}

(* Each is a table of the database.                                        *)
ASSUME FiniteAssumption ==
    IsFiniteSet(Members) /\ IsFiniteSet(Currencies) /\ IsFiniteSet(Txns)

(***************************************************************************)
(* Account: one per (entity, currency), there from the start (the code     *)
(* creates it on first use).  No service uses the code's kind self.        *)
(***************************************************************************)
MemberKinds == {"small_office"}
BoxKinds    == {"intermediary_box"}
TenantKinds == {"shop_cash", "fees_profit", "fx_clearing", "adjustment"}

Account ==
       [kind : MemberKinds, owner : Members, currency : Currencies]
  \cup [kind : BoxKinds, owner : Boxes, currency : Currencies]
  \cup [kind : TenantKinds, owner : {Tenant}, currency : Currencies]

SmallOffice(m, c)    == [kind |-> "small_office", owner |-> m, currency |-> c]
BoxAccount(b, c)     == [kind |-> "intermediary_box", owner |-> b, currency |-> c]
TenantAccount(k, c)  == [kind |-> k, owner |-> Tenant, currency |-> c]

(***************************************************************************)
(* Lines and entries.  ref stands for the transaction whose reference the  *)
(* memo of an approval or of a payment entry carries; reverses is the      *)
(* entry this one mirrors, NoEntry for the others.                         *)
(***************************************************************************)
NoEntry == 0
NoRef   == [ref |-> "none"]

ASSUME RefAssumption == NoRef \notin Txns

Line == [account : Account, debit : Int, credit : Int]

Debit(a, x)  == [account |-> a, debit |-> x, credit |-> 0]
Credit(a, x) == [account |-> a, debit |-> 0, credit |-> x]

EntryType == {"transaction", "settlement", "reversal"}

Entry == [type : EntryType, ref : Txns \cup {NoRef}, lines : Seq(Line), reverses : Nat]

(***************************************************************************)
(* What a numeric column keeps of a figure: the nearest multiple of Unit,  *)
(* half away from zero.  A service computes with the figures it was given; *)
(* every line of its entry is rounded on its own.                          *)
(***************************************************************************)
Nearest(x) == Unit * ((2 * x + Unit) \div (2 * Unit))

Stored(x) == IF x >= 0 THEN Nearest(x) ELSE -Nearest(-x)

IsAmount(x) == x % Unit = 0

Saved(lines) ==
    [i \in DOMAIN lines |->
        [account |-> lines[i].account,
         debit |-> Stored(lines[i].debit), credit |-> Stored(lines[i].credit)]]

Posting(type, ref, lines) ==
    [type |-> type, ref |-> ref, lines |-> Saved(lines), reverses |-> NoEntry]

(***************************************************************************)
(* The checks of post_entry, in its order: at least two lines, no negative *)
(* side, no line without a value, debits equal to credits per currency.    *)
(***************************************************************************)
SideTotal(lines, side, c) ==
    SumFunction([i \in DOMAIN lines |->
                    IF lines[i].account.currency = c THEN lines[i][side] ELSE 0])

Balanced(lines) ==
    \A c \in Currencies : SideTotal(lines, "debit", c) = SideTotal(lines, "credit", c)

HasValue(line) == line.debit >= 0 /\ line.credit >= 0 /\ ~(line.debit = 0 /\ line.credit = 0)

Postable(lines) ==
    /\ Len(lines) >= 2
    /\ \A i \in DOMAIN lines : HasValue(lines[i])
    /\ Balanced(lines)

(* The check constraint line_nonnegative_and_nonzero of the table: a line  *)
(* that rounds to nothing is refused by the database (500, rolled back).   *)
Storable(lines) == \A i \in DOMAIN lines : HasValue(lines[i])

(***************************************************************************)
(* reverse_entry: refused when the entry already has a reversal (the       *)
(* hasattr test, and the one-to-one column behind it); otherwise it posts, *)
(* with the checks of post_entry, the stored lines with their two sides    *)
(* exchanged.                                                              *)
(***************************************************************************)
(* (Bug: only the newest entry is looked at.)                              *)
ReversedJustNow(journal, e) == journal # << >> /\ journal[Len(journal)].reverses = e

Reversed(journal, e) == \E r \in DOMAIN journal : journal[r].reverses = e

MirrorLines(lines) ==
    [i \in DOMAIN lines |->
        [account |-> lines[i].account, debit |-> lines[i].credit, credit |-> lines[i].debit]]

Mirror(journal, e) ==
    [type |-> "reversal", ref |-> NoRef,
     lines |-> MirrorLines(journal[e].lines), reverses |-> e]

(***************************************************************************)
(* Account.balance: debits minus credits over every line of the account.   *)
(***************************************************************************)
Net(lines, a) ==
    SumFunction([i \in DOMAIN lines |->
                    IF lines[i].account = a THEN lines[i].debit - lines[i].credit ELSE 0])

Balance(journal, a) == SumFunction([e \in DOMAIN journal |-> Net(journal[e].lines, a)])

=============================================================================
