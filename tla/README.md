# Hawalat: a verification project

Hawalat (`src/backend`, `src/frontend`) keeps the books of remittance offices. A
big office (the tenant) serves small offices; a small office asks for a transfer,
the big office accepts it through an intermediary box, collects the cash, marks
the transfer delivered, or edits or reverses it. Every amount is a double entry in
one journal, and nothing is ever deleted: mistakes are mirrored. Around the books
are what a tenant may use (packages), who may come in (accounts and sessions) and
who is told (notifications, WhatsApp).

This directory holds TLA+ models of that behaviour, TLC configurations that check
them on small instances, and TLAPS proofs of the properties that matter most for
instances of any size. `PROJECT.json` lists components, runs, theorems, hazards
and the source lines behind each definition.

1. [The system](#1-the-system) — components, state, operations, interactions
2. [How requests really run](#2-how-requests-really-run)
3. [The modules](#3-the-modules) and their correspondence with the code
4. [The runs](#4-the-runs), their bounds and what each shows
5. [Where the code and its documents disagree](#5-where-the-code-and-its-documents-disagree)
6. [The proofs](#6-the-proofs)
7. [What is not modelled](#7-what-is-not-modelled)
8. [Plan](#8-plan)

## 1. The system

| component | state it keeps | operations | what makes it correct |
|---|---|---|---|
| **Ledger engine** `apps/core/services.py`, `core/models.py` | `Account`, `JournalEntry` (`reverses`, one-to-one), `JournalLine` | `post_entry`, `reverse_entry`, `Account.balance` | an entry balances per currency; an entry is mirrored at most once and the mirror cancels it exactly; committed entries never change |
| **Transactions** `apps/transactions` | one `Transaction` row: approval, payment and delivery status, figures, links to the approval and payment entries | create, approve, reject, pay, deliver, reverse, edit; the package limit and the reference code of create | statuses and standing entries agree; collected once; delivery is final; the member stays within the credit limit |
| **Boxes** `apps/boxes` | `IntermediaryBox`, `BoxCurrencyAccount`, `SmallOfficeAccount`, `CreditLimit` | deposit, withdraw, member payment, box adjustment, manual reversal of an entry, limits, box administration | each posts one balanced entry; balances are explained by the operations; one ledger account per (owner, currency) |
| **Reconciliation** `boxes/services.py` 309-366, `ReconciliationView` | `Reconciliation` snapshots | preview, commit | no line is counted twice; a line falls between two periods only by an overlap; previous + debits - credits is the balance but for such lines |
| **Reports** `apps/reports` | none (reads) | profits, cash flow, movements, exports | the reports agree with each other and with the ledger |
| **Subscriptions** `apps/admin_panel` | `Package`, `Subscription`, `PlatformSettings` | request, activate, reject, expire (Celery beat), limits, codes | what is admitted beyond a limit, waits twice or shares a code is bounded by the overlap; a term that ends is noticed |
| **Accounts and access** `apps/accounts` | `User`, `Tenant`, blacklisted tokens | provision, add member, edit, block, suspend, login, logout | codes; a block is undone by nobody but its office; every good token is somebody's |
| **Tenancy** `core/tenancy.py`, `core/middleware.py` | a per-request tenant variable | managers filter by it | no request reads another tenant's rows; the variable never leaks into the next request |
| **Notifications** `apps/notifications` | `Notification` rows, WebSocket groups | notify, mark read, push | a bell with nothing on its way shows the stored count, or there is a reason; it catches up |
| **WhatsApp outbox** `apps/whatsapp` | `WhatsAppMessage` (status, attempts), linked sessions | link and unlink the number, queue, `deliver_once`, thread retry | a message is decided while the server lives, confirmed only when it reached the phone, and repeated only when an answer was lost; an unlinked number stays unlinked |
| **Frontend session** `frontend/src/lib/auth.ts`, `authedApi.ts`, `ws.ts` | a pair of tokens, in `localStorage` ("remember me", shared by all tabs) or in the `sessionStorage` of one tab | login, refresh, logout, reconnect | nobody is thrown out of a good session; a logout stays a logout; no good token is left with nobody |
| **Frontend pages** | form state | calls to the API | rendering only |
| **Configuration and deployment** | — | — | read to justify section 2 |

How they interact. A view of Transactions or Boxes loads rows, calls a service,
and the service calls `post_entry` or `reverse_entry`; the approval also calls
`check_credit_limit` of Boxes, and creation calls `get_active_subscription` of
Subscriptions. After the service commits, the view writes an audit record, stores
a notification, pushes a refresh over WebSocket and may queue a WhatsApp message:
none of this is in the service's database transaction. A message is sent inside
the request first and then by a daemon thread of the web process (the Celery task
of the same name runs only in the development settings); Celery beat expires
subscriptions. In the browser, the calls of a tab and its socket share one stored pair
of tokens; with "remember me" all tabs share it.

Which behaviours are hard: overlapping requests on one row or one account (checks on stale
copies, full-row saves), two-posting operations that fail half way, crashes between check
and commit, limits counted before an insert, preview-then-commit of a reconciliation,
calls to WAHA that are executed after they were given up, rotating tokens used by parallel
calls, counts that are read by one actor and shown by another, figures with more decimals
than a column keeps. `PROJECT.json` lists them as hazards, each at its line.

## 2. How requests really run

- The server is Daphne (ASGI): `backend/Dockerfile.prod`, `docker-compose.prod.yml`,
  `backend/render-start.sh`. Synchronous views run in threads, and more than one
  server process is possible. Requests overlap.
- The database is PostgreSQL at its default isolation, READ COMMITTED. There is
  no `ATOMIC_REQUESTS` and no `select_for_update` anywhere in the backend.
- A view loads the row (`_get`, autocommit) *before* it calls the service. The
  service's guards read that object; the service's `@atomic` protects only its
  writes. `reject_transaction` and `mark_delivered` are one UPDATE each.
- Some saves write named columns (`mark_paid`, `mark_delivered`,
  `reject_transaction`), others every column of the in-memory object
  (`approve_transaction`, `reverse_transaction`, `edit_accepted_transaction`).

So a request thread (a *worker*) is modelled as: load the row and pass the
service's guards on the copy (`Begin`), then commit (`Pay`, `Deliver`, ...). The
guards can be taken with the load because they read only the copy. Approve and
edit have a step in between (`CheckApproval`, `CheckEdit`), for the credit check,
which reads the journal before anything is posted. `Fail` is every way a request
ends without effect: a later check refuses (400), a unique index refuses (500),
the process dies; the database transaction is rolled back, so the only state lost
is the worker's own.

An edit past its credit check has already written inside its transaction: the
mirror of the old approval and a first `save()` of the row. Until it ends, the
database makes another writer of that row, or of a second mirror of that entry,
wait: `RowFree` and `EntryFree` are those two waits. The other operations write
at one point only, so their waits are invisible and they are atomic steps.

## 3. The modules

**`Ledger`** (no variables) — accounts, lines, entries, the checks of `post_entry` in its
order (`Postable`), `reverse_entry` (`Reversed`, `Mirror`), balances. An entry's index in
the journal is its primary key. A figure is an integer finer than a column: the
`numeric(18,4)` columns hold the multiples of `Unit`, and `Stored` rounds everything else
to them. `post_entry` checks the lines as it was given them; then each line is rounded on
its own (`Saved`), and a line that rounds to nothing breaks the check constraint of the
table (`Storable`, `core/models.py:183`: 500, rolled back). `ref` stands for the reference
code that the memo of an approval or payment entry carries; `reverses` is the one-to-one
column. An account is identified by its owner and currency, as the link tables do once it
exists; its creation on first use is not modelled. One tenant is modelled, so the
same-tenant check of `post_entry` always passes.

**`Transactions`** — variables `journal` (committed entries), `txns` (rows, or
`NoRow`), `limits` (`CreditLimit`; a missing row reads as 0, as in
`get_negative_limit`), `workers` (threads, each with its copy). One action per
step of each handler:

| code | actions |
|---|---|
| `create_transaction` | `Create` |
| `TransactionViewSet._get` and the service's guards | `Begin` with `CanApprove`, `CanReject`, `CanPay`, `CanDeliver`, `CanReverse`, `CanEdit` |
| `approve_transaction` | `CheckApproval` (quote, then `check_credit_limit`), `CommitApproval` (`_approval_lines`, `post_entry`, full save) |
| `reject_transaction`, `mark_delivered` | `Reject`, `Deliver` (one column) |
| `mark_paid` | `Pay` (two columns) |
| `reverse_transaction` | `Reverse` (payment, then approval, one database transaction, full save) |
| `edit_accepted_transaction` | `CheckEdit`, `CommitEdit` |
| `deposit_to_box`, `withdraw_from_box`, `receive_member_payment`, `adjust_box` | `Deposit`, `Withdraw`, `MemberPayment`, `AdjustBox` |
| `ReverseEntryView` | `ReverseEntry` |
| `CreditLimitViewSet` | `SetLimit` |

Data are abstracted to what the properties distinguish: names, destinations and memos are
left out; amounts are the integers of `Ledger`; a rate is an integer over `RateScale`, or
`NoRate` where the column is NULL. Drafts, quotes, limits and settlements are amounts of a
column, because their serializers refuse more decimals. The edit view has no serializer:
it takes `Decimal(str(value))` (`views.py:314-325`), so `Edits` are any figures. What the
row keeps of them is `Columns`, what the entry keeps is `Saved`, and nothing makes the two
agree to the last decimal; `adjust_box` is given raw figures too, but both of its lines
are the same one. `Converted`, the only figure a service rounds, rounds as
`Decimal.quantize` does (half even); the database rounds half away from zero. An entry
whose rounded lines no longer balance is accepted and cannot be mirrored (`Reversible`). A
rate has six decimals in the code and is rounded here at the same `Unit` as an amount: one
finer than its column is what matters. Overflow of the 18 digits is not modelled.

**`OfficeBooks`** — the abstract specification: deals with statuses, what each
member owes, what the office earned, the limits; no journal, no requests, no
copies, every operation one step on the current values.
**`TransactionsRefinement`** maps `Transactions` onto it: the debt *is* the ledger
balance of the member's account, the profit *is* that of the fee account, and the claim
and the margin of a deal are what its standing approval entry put on the two. A claim
that was revised is collected within `Slack`, the rounding of an edit; any other exactly.

**`Reports`** — `_txns`, `_accepted` and one operator per report of
`reports/services.py` (`summary_by_currency`, `profits`, `activity`,
`member_summary`, `box_summary`, `shop_cash_movement`, `by_status`, `settlements`,
`exchange_rates`, `top_members`, `daily_close`, ...), functions of the journal and
the rows of `Transactions`, over the whole history.

**`Reconciliation`** — `line` (what the transactions of other requests insert,
commit or roll back), `era` (a line's stamp), `links` and `opens` (the accounts
of the office, created on first use), `session` (requests building a record),
`records`. A stamp is compared only with stamps of records, so the stamp of a line is the
number of records saved before it. `FindLast`, `FindLinks`, `SumLines(c)` and
`commit_reconciliation` are the statements of `build_reconciliation` and
`commit_reconciliation`, each its own snapshot of the database. `Net[S]` is the
debits less the credits of a set of lines; that it is additive is
`NetAssumption`, so no sum is computed step by step.

**`Subscriptions`** — `sub` (rows), `free_mode`, `used` and `granted` (rows counted
and admitted since an activation), `holders` (offices or transactions per code),
`worker`, `task` (what the daily task has listed). "Overdue" is ACTIVE with
`expires_at` in the past.

| code | actions |
|---|---|
| `OfficeSubscriptionView.post` | `AskPackage`, `InsertSubscription` |
| `SubscriptionAdminViewSet` `activate` (loads, then saves) / `reject` | `LoadPending`, `activate_subscription` / `Reject` |
| `create_transaction`, `create_small_office`: limit, code, insert | `CheckLimit`, `ChooseCode`, `Insert`, `Fail` |
| `expire_subscriptions` | `WakeUp`, `SaveExpired`, `Die` |
| the clock, the platform's settings | `TermEnds`, `SetFreeMode` |

**`Accounts`** — `blocked`, `tenant_active` and the edits in flight; `block` and `unblock`
save one column, `SaveEdit` the whole row as it was loaded
(`MembersViewSet.partial_update`). `missed` is a ghost: the column changed since the edit
loaded it. **`Sessions`** EXTENDS it with the tokens of one office and its browser:
`pair[p]` (what became of the refresh token of pair `p`), `fresh` (its access token has
not expired), `local` and `own[t]` (`localStorage`, and the `sessionStorage` of each tab),
`call` (calls of the tabs' pages, and the sockets), `leaving` (logouts in flight).
`getSession` prefers the shared store, `saveSession` writes one store after clearing both,
as `auth.ts` does. `Login` asks for no empty store: it overwrites or hides whatever is
there. `CloseTab` takes the tab's store and calls with it. `SendCall`, `Serve`,
`RenewForCall`, `RenewForSocket`, `TakeRenewed`, `TakeRefusal`, `GiveUp` are `authedApi`
and `refreshSession`; `CheckRefresh`, `Rotate` the renewal endpoint; `Logout`,
`LogoutServed`, `LogoutLost` both sides of a logout; `RenewalFails`, `Abandon` a lost
answer and a page loaded anew. `mishaps` records which of the known mishaps have occurred:
two renewals of one pair or a renewal whose answer was lost (`renewal`), a renewal in
flight at a logout (`late`), a logout that was lost or refused (`unheard`), a login over a
stored session (`relogin`), a tab closed with its session (`closed`).

**`Notices`** — one office: `unread` (the history of the unread count), `request`
(`notify` is `Store`, `CountUnread`, `Send`: insert, count, group send), `socket`
(`Connect`, `Join`, `CountHello`, `SendHello` of `NotificationsConsumer`), `inbox` (its
channel), `wire`, `token` (what the session of the page is good for), `load` (the list and
"mark all read" of the page), `shown` (the bell). A count is represented by when it was
read, the number of changes of the table before it; a bell just mounted shows the 0 of
time 0. The socket is a variable of the script (`ws.ts:16`), so `Connect` needs it closed
(`connectWs` returns early otherwise), a bell that is mounted again (`Mount`, in `LogIn`
and `Remount`) gets no hello from a socket that is still open, and `LogOut` leaves it
open, with nobody to hear it (`Unheard`). The consumer admits only a good access token
of an office that is not barred; `Age` and `Renew` are what happens to the token, and
with a dead one every attempt is refused, for ever. `causes` records, since the bell was
mounted or last right, why it may be wrong: an older count arrived after a newer one, a
change that pushes nothing, a failed request, a first load that failed.

**`Outbox`** — `number`, `session` (WAHA's), `link` and `stored` of members, `profile`
(the member rows loaded by edits in flight), `msg`
(rows), `at` (what carries each message), `posted` and `delivered` (calls WAHA may
still execute, and has executed), `page` (requests of the link page).
`Execute` happens any time after a call was posted, also after its caller
gave it up.

| code | actions |
|---|---|
| `WhatsAppLinkView` get / post / delete | `AskStatus`, `StartLink`, `StatusAnswer`, `SaveNumber` / `Unlink`, `ClearNumber` |
| `queue_message`, `_resolve_group_chat_id` | `Queue`, `AskGroup`, `GroupKnown`, `GroupUnknown` |
| `deliver_once` inside the request | `SentInline`, `FailInline` |
| `retry_in_thread`, `deliver_once` | `Wake`, `SentByRetry`, `FailRetry` |
| `MembersViewSet.partial_update` | `LoadProfile`, `SaveProfile` (the whole row: a new link, and the stored id as it was loaded) |
| the phone, WAHA, the server process, the administrator | `PhoneScans`, `PhoneLogsOut`, `Execute`, `Crash`, `Configure` |

**`Delivery`** is its abstract specification: a message is pending until it is
confirmed or given up, confirmed only after it reached the phone, decided in the
end, or orphaned by a crash.

**`MC...`** — values for TLC. **`...Proofs`** — section 6.

A definition preceded by "Bug:" is not used by the specification. It is a
plausible mistake in the definition that follows it, kept to show that the
property meant to catch it does (`PROJECT.json`, "mutants").

## 4. The runs

| run | instance | properties |
|---|---|---|
| `concurrent` | 2 workers, 2 transactions, every transaction endpoint and manual reversals, 5 entries | `TypeOK`, `ReversalsCancel`, `RowsNameTheirEntries`, `ReversedIsUndone`, `DeliveredWasPosted`, `HistoryOnlyGrows` |
| `serial` | 1 worker, 2 transactions, 2 members, 2 currencies, figures at half a `Unit`, five quotes, two edits, 5 entries | `LedgerFollowsStatus`, `BalancesExplained`, `ReportsAgree`, `DeliveryIsFinal`, `ImplementsOfficeBooks` |
| `settlements` | 1 worker, 1 transaction, deposits, withdrawals, payments, adjustments, 5 entries | `BalancesExplained`, `ReportsAgree`, `ImplementsOfficeBooks` |
| `reconciliation` | 2 sessions, 2 lines in accounts of 2 currencies, 3 records | `CountedOnce`, `LinesAccounted`, `ClosingExplained` |
| `subscriptions` | 2 workers, 2 subscriptions, 1 package, limits 1 and 0, 2 small offices, 1 transaction | `PendingBounded`, `OvershootBounded`, `CodesDense`, `TermEndNoticed` |
| `sessions` | 2 tabs, 2 calls, 2 pairs of tokens, 1 edit | `TypeOK`, `SessionKept`, `NoStrayToken`, `LogoutHolds`, `BlockKept` |
| `notices` | 2 requests, 1 load, 2 changes of the table, any number of logins and mounts | `TypeOK`, `BadgeExplained`, `BellCatchesUp` |
| `outbox` | 1 message, 1 member, 2 groups, 1 number, 2 requests of the link page, 1 edit of the member, `MAX_ATTEMPTS` 3 | `PendingIsCarried`, `DuplicatesExplained`, `UnlinkHolds`, `AddressedToGroup`, `DeliversAsPromised` |
| `double_payment`, `delivery_undone`, `credit_race`, `manual_reversal` | the smallest instance of each | section 5 |

*What they show.* `concurrent` answers: what survives when anything overlaps with anything
and any request may die? Entries are mirrored at most once and exactly; rows name only
entries posted for them, although stale copies are saved over them; a row marked reversed
has the approval it names mirrored (not every other entry of the transaction: a payment, a
second approval or a mirrored mirror may stand); history is never rewritten, and a row
loses a payment only with the money, or to a request that had loaded the row before it.
`serial` answers: is the accounting right when requests do not overlap? The standing
entries are the ones the statuses announce; every account balance is the sum an accountant
computes from the rows, the profit report included, to the last decimal but for one `Unit`
per edited transaction on the accounts where its lines were rounded apart from its
columns; a delivered transaction is left alone; and the whole is an implementation of the
books, credit limit included. `settlements` adds direct movements of the same accounts,
with a limit that only a deposit makes sufficient. `LedgerFollowsStatus` and
`DeliveryIsFinal` fail under overlap (section 5), which is why these runs have one worker;
the proofs find how much overlap they bear (section 6). `ReportsAgree` compares reports
whose queries are written independently of each other: what was approved is what the
members owe plus the cash, boxes have lost what they passed on, and the lists by member
add up to the office's, within the same rounding where edits come in.

The other runs state what survives a design without locks, with the exceptions named by
the property itself. `reconciliation`: a line is never counted by two periods in sequence,
and the only lines that escape are those whose transaction overlapped a record.
`subscriptions`: limits and pending requests are exceeded by at most one for every other
request in flight; an expired term is noticed although the task may die. `sessions`: a
good session is lost only when two renewals of one pair overlap or an answer is lost, and
returns after a logout only through a renewal in flight; a good token is left with nobody
only by one of the five mishaps; a block is undone only by an edit that had loaded the row
before. `notices`: when the bell is at rest and shows another count than the table, there
is a cause; and every change is seen in the end, unless there is one or the office is
barred, logged out or left with a session that cannot be renewed. `outbox`: nothing stays
pending while the server lives, a text is repeated only after a recorded failure, and the
whole implements `Delivery`, liveness included.

*Bounds, and why they are enough.*
- Two workers: every interleaving hazard listed is between two requests; each of
  them holds one copy. Three would add copies, not kinds of overlap. The proofs
  remove this bound.
- Two transactions: enough for two to share a member's limit and accounts and to
  mix up entries; the operations never read a third.
- `MaxEntries` (5), in `Room`: in `concurrent`, room for an approval, its payment
  and two reversals with one entry to spare for the other transaction, or for
  two approvals, an edit (two entries) and a reversal; in `serial`, for approve,
  edit, pay and one more, or for approve, pay and the two mirrors of a reversal.
- `serial` quotes: a margin, no margin (the zero line `post_entry` refuses), a
  loss (the negative line it refuses), a computed delivered amount that needs
  rounding, an agreed one. `serial` edits: with `Unit` 2, odd figures are finer than a
  column (amount 7 is kept as 8, fee 5 as 6, rate 3 over 4 as 4); they give rows and
  entries that were rounded apart, and an entry that is stored unbalanced (a line that
  rounds to nothing would need a finer figure than half a `Unit`). In the other runs `Unit` is 1: there is nothing to round, and
  `BalancesExplained` is an equality.
- Two currencies, two members, one box in `serial`; the box takes only the
  delivered currency. `LimitValues` are chosen so that some approvals and edits
  pass the credit check and others do not.
- `Claims`, `Margins`, `Moves` bound what `OfficeBooks` may choose; they contain
  every value the instance can produce, and a value outside would be reported as
  a violation, not hidden.
- `reconciliation`: three records, because a line missed by the first may be looked
  for by the second and the third, and because two sessions may carry one
  record forward before a third does. Two lines: one per account suffices
  for a line to be posted before, during and after each record; no two sets of
  lines have one sum, so a wrong set gives a wrong balance.
- `subscriptions`: two requests overlap in every way; a limit of 1 can be reached, and
  a limit of 0 shows the boundary; two subscriptions may wait and be active at once.
- `sessions`: two pairs are a login and its renewal, or two logins; two tabs are what
  may share a store or not. More calls repeat the overlap of two; the proofs have no
  bound.
- `notices`: with two changes a count can be older or newer than another and two
  requests can push in either order. A change is an insert, or "all read". One load
  suffices for it to be the first one of a bell, or lost.
- `outbox`: messages do not interact but through the linked number and the member's stored
  id, which the instance changes at any time; the id may be stored before the run begins,
  by an earlier text, and the second group is what makes an old id wrong. `MaxAttempts` is
  the constant of the code.
- `SYMMETRY`: over workers in `concurrent`, transactions in `serial`, sessions in
  `reconciliation`, calls and tabs in `sessions`. No property there names one of them or is a
  liveness property (`ImplementsOfficeBooks` and `BlockKept` are of the form
  `Init /\ [][Next]_v` and `[][A]_v`). The runs with liveness use none.
- `CHECK_DEADLOCK FALSE` in the books, `subscriptions` and `outbox`: clients are free to
  stop, and with finite sets of rows the server ends with nothing left to do. The
  other runs check deadlock.

*Fairness.* The books, `reconciliation` and `sessions` assume none: a client that never
answers is a legal behaviour. `subscriptions`: `WF(WakeUp)`, because Celery beat starts
the task every day, and `SF` of its saves: a run may die, but not every run before its
first save. `outbox`: `WF(Carry(m))`, because every call to WAHA has a timeout and
every delay of the thread passes; WAHA, the phones and the crash are not fair.
`notices`: `WF` of the steps of a request that has stored a notification and of
`push_event`; `WF(Renew)` and `SF(Connect)`, because `ws.ts` renews the token and tries
again every three seconds and not every access token (half an hour) expires unused; `SF` of
the steps of a connection and of what the bell takes from it or from its first load, because
a connection may be cut and a bell unmounted at any time, but not always before the count
arrives; `WF(ServeList \/ LoadFails)` and `WF(TakeMarked)`: a request of the page is answered
or fails. Logging in, mounting, reads and the administrator are not fair.

## 5. Where the code and its documents disagree

Each is a run that TLC ends with a counterexample.

- `double_payment` — `mark_paid` refuses a row "already paid", but on the copy it
  was given. Two overlapping pay requests both post; two payment entries of one
  transaction stand and the member is credited twice (`PaidOnce`).
- `delivery_undone` — delivery is documented as absolutely final. An edit that
  loaded the row before the delivery saves its copy afterwards: the row is
  undelivered again, with new figures (`DeliveryIsFinal`).
- `credit_race` — two approvals check the limit before either posts, and the
  member ends above it (`CreditLimitRespected`).
- `manual_reversal` — the statement page can reverse the approval entry of a
  transaction without touching its row. It stays accepted, can still be paid,
  counts in the profit report, and `reverse_transaction` refuses it from then on
  (`AcceptedStands`). One worker is enough.

Others were met while modelling and are in the modules as the code has them, with no
run of their own:

- A call of a barred office: `authedApi.ts:22` and `docs/05-phase-log.md:494` announce
  401 -> renewal -> one retry -> otherwise a clean logout. The renewal does not look at
  `is_blocked`, so it succeeds; the second 401 is thrown and the session is kept.
- `docs/05-phase-log.md:496`: logout revokes the refresh token before it clears the
  session. `logout` does not wait for the answer, and with an expired access token the
  endpoint refuses and the token stays good (`LogoutLost`, `NoStrayToken`).
- `accounts/models.py:32` calls the code of a small office unique; there is no
  constraint, and two overlapping creations share one (`CodesDense` bounds it).
- `boxes/services.py:313` states that previous + debits - credits equals the balance. It
  fails when a posting overlaps a record (`ClosingExplained` says exactly by how much).
- `whatsapp/tasks.py` promises a guaranteed retry; the thread dies with its process
  (`Crash`, the orphan of `Delivery`).
- `docs/05-phase-log.md:17`: entries always balance. `post_entry` checks the lines before
  the columns round them (`core/services.py:45-52`): an edit to finer figures can store an
  entry that does not balance, and `reverse_entry`, which posts the stored lines with the
  same check, then refuses it: that transaction can be neither edited nor reversed again.
  Short of that, row and ledger may differ in the last decimal (`BalancesExplained`,
  `MirrorPostable`).
- The login page does not look for a session; the pair it overwrites, or hides under the
  shared one, stays good for its whole term, and so does the pair of a tab that is closed
  (`NoStrayToken`).
- `notifications/consumers.py:11`: a connection receives the unread count. A
  bell mounted over an open socket gets none, and if its first load fails it shows 0
  (`BadgeExplained`).
- `reject` of a subscription has no status guard: an active one can be rejected.
- Rows created in free mode count after an activation, although the docstring says
  that they never do (`used`).
- `member_summary` and `top_members` add amounts of different currencies, and
  the settlements report lists settlements that were reversed. `MembersAddUp` is
  stated accordingly.

## 6. The proofs

Assumptions are those the modules name. In the books: the tenant is not a member or a box
(`TenantAssumption`), `NoRef` is no transaction (`RefAssumption`), the members, currencies
and transactions are rows of tables and hence finite in number (`FiniteAssumption`,
without which no sum over them exists), drafts, quotes and limits have no more decimals
than a column, as their serializers see to, while edits and adjustments are any figures
(`InputAssumption`), `Unit` is positive (`UnitAssumption`), `RateScale` is positive and
the markers `NoBox` and `Keep` are no values (`ConfigurationAssumption`). Elsewhere:
markers are no values, bounds are naturals, and `NetAssumption`, that the amounts of lines
add up. Nothing bounds the number of workers, members, boxes, currencies, transactions,
sessions, calls, messages, groups or the sets of inputs (`Subscriptions` needs its workers
finite, to count them). TLC evaluates all assumptions in the runs.

**`TransactionsProofs`** (requests overlap freely). `Invariance == Spec => []IInv`. The
row properties alone are not inductive: a worker overwrites the row with its copy, so
whatever is claimed of rows has to hold of every copy, and the journal has moved since the
copy was taken. `IInv` therefore adds `Coherent`: a copy names entries posted for its
transaction, has the parties of the row, passed the guards of its service, and a row that
was posted when the copy was taken still is. `GoodStep(w)` is what each action is shown to
do (append well-formed entries whose mirrors are new, write a row that fits, leave a
coherent worker); `GoodStepKeeps` shows that this is enough for `IInv`, for the worker
that moves and, by monotonicity of the journal and of the rows (`CoherentStable`), for all
the others. `TypeCorrect`, `ReversalsCancelAlways`, `RowsNameTheirEntriesAlways`,
`ReversedIsUndoneAlways`, `DeliveredWasPostedAlways` and the action property
`HistoryOnlyGrowsAlways` follow. The last one says what becomes of a payment: a row loses
it only in a step that mirrors the payment entry, or by a worker whose copy is older.
`MirrorPostable` shows that `post_entry` refuses the mirror of a stored entry exactly when
the stored lines do not balance.

**`SerialProofs`** assumes `NoManualReversal` (a constant: `ReverseEntryView` is not
used) and, of the behaviour, `[]Apart`: no two requests are at work on *the same*
transaction. Requests on different transactions, settlements and new limits overlap
freely; `Apart` is what a lock on the row, held from `_get` to the commit, would
give, and the code takes none. `StandingAfterPost` computes the standing entries after
any posting: those before, less what the new entries mirror, plus what they post. With
`OwnRow` (what another request writes is never the row I hold) it makes `SInv`
inductive: a loaded copy *is* the row, a checked one differs from it only in
what the handler is about to write, and the statuses agree with the standing entries.
From it: `LedgerFollowsStatusSerial`, `DeliveryIsFinalSerial`, and `PaidOnceSerial`,
`AcceptedStandsSerial`, the two properties that `double_payment` and `manual_reversal`
refute. Both assumptions are needed: `double_payment` and `delivery_undone` break
the theorems without the first, `manual_reversal` without the second.

**`BooksProofs`** adds the money, from the same two assumptions.
- *Sums.* The reports and balances are sums over finite sets
  (`SumFunction`). Induction over a set is out of reach, so its place is taken by the
  smallest counterexample: the family of subsets for which a claim fails, were it not
  empty, would have a minimal member (`SmallestSubset`). This shows
  that a sum exists, does not depend on the order of its terms, takes
  one more element (`SumWithout`, `SumExtended`), and may be regrouped by a key
  (`SumByKeyOf`). `BalanceAppend` is then one posting's effect on any account.
- *The rows.* `BInv`: the standing entries of a transaction were written from figures
  that round to the *present* columns of its row, and from those columns themselves if it
  was never edited. An edit reverses and reposts, a reversal clears
  some columns and not others, so this has to be carried along with `SInv`; it is also
  what makes each step `Rebooked` (every balance moves by what the written row
  gains) or `Settles` (a direct settlement). TLC checked `BInv` on the instance of
  `serial` (the figures of an entry sought within a `Unit` of the columns), and the
  conclusions on two workers kept `Apart`.
- *The balances.* `EveryBalance`: every balance of every account is, exactly, the sum of
  what the standing entries of accepted rows put on it and of direct settlements. What
  such an entry puts on an account and what the columns add up to are then compared, line
  by line: equal, or one `Unit` apart after an edit. Account by account this gives
  `BalancesExplainedSerial`; regrouped by member, currency and sign, `ReportsAgreeSerial`.
  No assumption is made about the figures of an edit.
- *The limit and the books.* `CreditLimitRespectedSerial` and
  `ImplementsOfficeBooksSerial` hold for a single worker (`Alone`). `Apart` is not
  enough here: the check reads what requests on *other* transactions of the member, and
  settlements, post (`credit_race`). So a lock on the row would repair
  `double_payment` and `delivery_undone`, but not `credit_race`, which needs
  whatever moves one member's account to be serialised. The check
  is of figures that may be finer than what is then posted; it still decides right, because
  journal and limits hold figures of the columns (`Columned`) and rounding is monotone. That
  a claim never revised is collected exactly rests on `Announced`: no approval entry was
  ever posted for a pending row. The refinement assumes `Unbounded`: `Claims`,
  `Margins` and `Moves` exist so that TLC can enumerate, and nothing in the code bounds
  what a transaction charges.

**`ReconciliationProofs`**. The invariant describes each row of a record, finished or
being built: its period is the part of what it saw that is not older than the record it
carries forward, and it saw all that this record saw (`RowOK`) - which is why a line
counted once is never counted again. `LinesCountedOnce`, `NoLineLost` and
`ClosingBalances` are the three properties of the run; the last is an induction along
the chain of records, made step by step by the invariant itself.

**`SubscriptionsProofs`**. Limits and codes are counted against the *requests* that
hold a stale reading: rows admitted plus requests admitted and not yet inserted are at
most the limit plus the other workers (`OverInv`); the offices that have a code plus the
requests that chose it are at most the workers (`CodesInv`). `PendingNeverPiles`,
`LimitsOvershootBounded`, `CodesStayDense` follow.

**`SessionsProofs`**. The invariant has one layer per mishap: as long as no two
renewals of one pair overlapped and no answer was lost, every stored pair is in one store
and every renewal in flight has a pair of its own that nobody used (`RenewalInv`), whatever
was overwritten or closed; as long as nothing went wrong at all, that pair is the one its
tab would use, and the shared store and those of the tabs are not both filled (`OfSession`,
`OneKind`). `SessionsAreKept`, `NoTokenStrays`, `LogoutsHold`; and `BlocksAreKept`, from
the fact that an edit that has missed nothing holds the column as it is.

**`NoticesProofs`**. As long as there is no cause and a bell is mounted, the count of the
last change is shown or somebody carries it: the request that stored it, a socket that has
not counted yet, a queue, the first load of the bell, or the load that marked everything
read (`Carried`). `BadgesAreExplained` is this with nobody left to carry it.

**`OutboxProofs`**. Three independent invariants: of the link page (`UnlinkInv`: after an
unlinking during which no request held an answer, none does until a phone scans again), of
the members' groups (`GroupInv`: a stored id is that of the link, unless an edit or a late
answer parted them), and of the messages (`MsgInv`: the call in progress is the only one
that is not recorded as a failure). `UnlinksHold` holds for any limit of attempts;
`PendingAlwaysCarried`, `DuplicatesAreExplained` and `GroupsAreAddressed` assume `Fits`:
the limit of `deliver_once` is between 2 and one more than the delays of the thread (the
code has 3 and two delays). `PromiseIsKept` is the safety part of the refinement of
`Delivery`: every step is a step of the promise or changes nothing there.

The type invariants of `Sessions` and `Notices` are theorems of their modules
(`TypeCorrect`); the others are parts of the invariants above.

*Only model-checked:* liveness (`TermEndNoticed`, `BellCatchesUp`, the fairness part of
`DeliversAsPromised`): temporal reasoning with `ENABLED` is beyond the provers used. And
the disagreements of section 5, which are counterexamples. Every other property of
the runs is a theorem.

## 7. What is not modelled

Status per component is in `PROJECT.json`.

- *Boxes*: get-or-create of the accounts of members and boxes (a first use that collides
  answers 500, rolls back and leaves nothing), box and currency administration, account
  statements, which read.
- *Reports*: date filters, cuts of long lists, the report by destination, exports.
- *Subscriptions*: editing a package, statistics, broadcasts. `get_active_subscription`
  and the count that follows it are one step: between them only the office's own
  creations matter, and those overlap at `CheckLimit` already. A big office's own code is
  generated like a small one's.
- *Sessions*: a tab that is duplicated copies its `sessionStorage`, and with it the pair;
  `updateSessionUser` changes the stored user, not the tokens.
- *Accounts*: what a password change does to sessions (it writes the password and
  revokes no token), profile fields, roles, throttling.
- *Notifications*: `push_refresh`, reading a single notification and broadcasts have
  the form of what is modelled; "mark read" and the recount after it are one step. Another
  office that logs in at a page whose old socket is still open is not modelled: all of
  `Notices` is about one office.
- *Outbox*: the Celery task of `tasks.py` (development settings only, same
  `deliver_once`), `gateway.py` (not called), the texts.
- *Tenancy*: one condition on every query, set and reset in the thread of the request;
  nothing of it interleaves. All modules are about one tenant.
- Password hashing, JWT signatures, WAHA, the channel layer and PostgreSQL are
  libraries and services: modelled from their use where state depends on them.
- *Pages* render. *Configuration* was read to justify section 2.

## 8. Plan

Done: the books, reconciliation, reports, subscriptions, sessions, notices and outbox,
their runs and proofs. What is left, in order of what it would add:

1. Proofs: how far the credit limit can be exceeded when requests of one
   member overlap, and the refinement of the books without their limit under `Apart`.
2. Composition: the request of `Transactions` with its tail in `Notices` and `Outbox`, so
   that a notification is related to the commit it reports.
3. Boxes: get-or-create of accounts, deactivation of boxes and currencies against
   postings that have passed the check.
4. Accounts: provisioning and password changes against live sessions.
