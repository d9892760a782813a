# Kashikeyo POS in TLA+

Kashikeyo POS runs restaurants. Each outlet has its own PostgreSQL schema on a
shared install; its tills, phones and kitchen screens are web pages that keep
working when the network does not. What an operator does becomes an *op*: it is
written to the terminal's IndexedDB first, carried to the outlet later, applied
there by a handler in one transaction and noted in `op_log`. Nearly everything
hard about the system follows from that sentence: ops arrive late, twice, out of
order, beside each other, or never.

This directory holds a model of that system, from the op in a till's outbox to
the books it ends in and the businesses, accounts and installs around them; the
runs that check it; and proofs of its main promises. Paths are relative to the
repository; below, `apply.js` is `src/apply.js`, `sync.js` is
`src/routes/sync.js`, `api.js` is `app/kashikeyo-api.js` and `bridge` is
`app/kpos-bridge.js`.

    tlc -config SyncPush.cfg MCSyncPush      # a run
    tlapm BooksProofs.tla                 # the proofs of a module

## 1. The system

How the parts meet: a screen calls `queue`; `flush` POSTs to `/sync/push`,
directly or through a store hub; the handler calls `applyOp`, which dispatches to
the ticket, kitchen, sale, stock or menu handler inside its transaction; `op_log`
is what `/sync/pull` reads; a result that carries `notify` becomes a web push;
the stream's wake makes the other terminals pull and, for some kinds, `reread`
the whole slice. A guest's phone posts rounds that a till turns into ops. Around
the outlets stand the registry that says in which database each of them is, the
owner's account, the setup wizard, the archives, the operator's panel and the
watchdog.

**Outbox of the terminal** (`api.js`, `bridge`).
State: one IndexedDB row per op; `localStorage.install`; the page's `installId`,
token and `_flushing`; timers. Operations: `queue`, `flush`, `retryOp`,
`discardOp`, `signIn`, `bootstrap`, `wipeLocal`, `start`, `reread`. Hard: runs of
`flush` overlap, because the flag goes up after an await; the page can die at any
await; answers are lost; the database behind the outlet's id can be replaced.
Correct when: no op is lost, none reaches the wrong database, they leave in the
order they were made, and every op comes to an end.

**Sync push** (`sync.js`, `withOutlet` in `src/db.js`).
State: `op_log`, an open transaction, a savepoint per op. Operations: one
delivery, sorted, cut into chunks, and for each op a look into `op_log`, the
handler, the insert, the forced constraint check; then commit, notices, answer.
Hard: two deliveries of one op, a deferred constraint that would lose a whole
chunk, a crash between chunks, key waits and deadlock. Correct when: an op is
booked once or never, answered for only when booked, taken in order, and a bad
one is refused alone.

**Open bills** (ticket handlers of `apply.js`).
State: tickets with one lamport stamp per edited field, and their lines.
Operations: `seat_walkin`, `add_line`, `void_line`, `move_table`, `park_bill`,
`resume_bill`, `close_ticket`, `covers_update`, and the closing inside `sale`.
Hard: a ticket is found by *table* with an unlocked SELECT and written to later;
a table has several spellings; edits arrive in another order than they were
made. Correct when: a table has one bill, a closed bill stays closed, the later
edit wins, a void is final.

**Kitchen pass** (`apply.js`).
State: `sent_at`, `ready_at`, `void_at` per line, `ticket.stage`. Operations:
`fire_course`, `kds_bump`, `kds_bump_all`, `kds_recall`, `fulfil_stage`,
`void_line`. Hard: several stations bump one table and each counts what it can
see. Correct when: the rung says what the pass says, and a waiter is called to
finished food only.

**Sales, stock and the back office** (`apply.js`).
State: sales, their documents' series, the journal, the months and whether they
are open, the member's points and credit, the drawer; items with `on_hand`, lots,
moves and draws; what was paid for which month, card batches, the time clock.
Operations: the fifty-odd handlers that post an entry or move stock. Hard: each is
a dozen statements under READ COMMITTED; a sale is voided twice, or arrives after
its month was closed; points are spent before they are taken back; two sales draw
on one lot. Correct when: documents are numbered without gaps and land in open
months, a reversal happens once, what the member, the shelf and the lots say is
what the ledger says, and a month is paid for once.

**Pull, live slice and the floor** (`sync.js`, `src/bootstrap.js`, `api.js`,
`bridge`, `app/index.html`).
State: the terminal's window `since`, its picture of the open bills, takings and
menu. Operations: a pull with its slice, a bootstrap, the stream's wake, the
throttled `reread`, the merge. Hard: `applied_at` is when a transaction *began*;
the window overlaps by five seconds and is cut at 500 rows; answers are applied in
the order they arrive. Correct when: no sale falls behind the window, no answer
takes unsent work off the screen, and the screen comes to show what the outlet
holds.

**Sessions, PINs, terminals and the limiter** (`src/auth.js`, `src/revoked.js`,
`src/limit.js`, `src/routes/auth.js`).
State: sessions, devices, staff with lock and salt; in memory, a 30-second cache of
good sessions and token buckets. Operations: the middleware, sign-in, PIN change,
five ways to end sessions, enrolling and claiming. Hard: a cache beside a sign-out in
flight; failures counted after the comparison. Correct when: what was ended stays
out, and guesses are bounded however many callers there are.

**Guest orders and member card** (`src/routes/guest.js`, `src/routes/outlet.js`,
`app/guest-bridge.js`, `app/guest.html`). State: `guest_order` rows, the phone's
held rounds, the four lists of a snapshot, the card's code and tries. Hard: a post
whose answer is lost; a decision between two lists of one snapshot; tries spread
over callers. Correct when: a round is somewhere on the guest's order, held rounds
go out, a code is tried a bounded number of times.

**Menu, recipes and setup files** (`apply.js`, `src/setup.js`). State: items,
recipe lines, what a dish declares. Hard: two walks over one recipe; batches within
batches; a file whose parts depend on each other. Correct when: what is sold is what
is declared, and a file says what the store said.

**Store hub** (`src/hub.js`). A pass-through that, when the cloud is out of reach,
keeps a copy of what tills push, answers the kitchen's pulls from a fold of those
ops over the last pull, and afterwards delivers the copies in arrival order before
any device. Correct when: custody never moves off the till, cause precedes effect in
the log, and everything arrives.

**Businesses, archives, accounts, onboarding** (`src/business.js`,
`src/provision.js`, `src/backup.js`, `src/routes/account.js`,
`src/routes/onboarding.js`). State: the registry, the databases it names, the routing
cache, the directory of outlets, store addresses, archive rows and files, the
account's row, the setup done so far. Hard: every operation is several transactions in
several databases and stops anywhere; what was read is acted on later. Correct when:
every database is named somewhere, an outlet has one home, the last good archive
stays, a password typed before the address was proved opens nothing, a step is
written at home, and a setup can be finished.

**Operator panel and watchdog** (`panel/server.js`, `panel/railway.js`,
`src/watch.js`, `/readyz` in `src/server.js`). State: the install's row and the
platform's parts; what has been told as wrong. Hard: answers of a platform are lost,
dashboards push what they read earlier, sweeps overtake each other. Correct when: the
licence sold arrives, and what is told is what is wrong.

`PROJECT.json` lists every part with its status, every hazard at its line, and
for every definition the lines it stands for.

## 2. Modules

| module | what it is |
|---|---|
| `OpLog` | what the outlet promises about an op: booked once or not at all, acknowledged only when booked, never undone by delivery |
| `SyncPush` | the push handler, shown to implement `OpLog`; its proofs are the second half of `BooksProofs` |
| `Outbox` | the terminal's queue, against a server that keeps `OpLog`'s promise |
| `Tickets`, `TicketsProofs` | the open bills |
| `KitchenPass` | the lines of one ticket at the pass, and its rung |
| `Transactions` | statements, row locks, months, series and entries, for the next three |
| `Stock` (extends `Transactions`) | the shelf, the lots and what moves them |
| `Sales` (extends `Stock`) | sales, reversals, the member, the drawer |
| `BackOffice` (extends `Transactions`) | wages, costs, wear, card batches, the clock |
| `OutletBooks`, `BooksProofs` | composes `Sales` and `BackOffice` over one schema |
| `StockProofs` (extends `BooksProofs`) | of `Stock`, as `OutletBooks` composes it |
| `Floor` | pull, slice, bootstrap and the terminal's merge |
| `TerminalProofs` | of `Outbox` and of `Floor`, the two halves of a terminal |
| `Access`, `AccessProofs` | sessions, PINs, terminals, the cache and the buckets |
| `GuestRounds` | a round from the phone to the bill and back |
| `MemberCard` | invitation, code, tries and revocation |
| `Menu`, `SetupFile` (extends `Menu`) | recipes and declarations; export and import |
| `Guests`, `GuestsProofs` | composes the phone's rounds, the card and the menu |
| `Hub` | the store hub between the devices and the cloud |
| `KitchenProofs` | of `KitchenPass` and of `Hub`, which feeds the kitchen in an outage |
| `Businesses`, `Archives` (extends it) | registry, outlets, addresses, routes; backup, restore, adopt |
| `Accounts`, `Onboarding`, `Installs`, `Watch` | the owner's account, the setup, the operator's panel, the watchdog |
| `Estate`, `EstateProofs` | composes the last six |
| `MC…` | constants of the runs |

Definitions marked *mutant* are plausible slips (a dropped guard, a missing
reset). Nothing uses them; put in the place of the definition they precede, each
breaks a property, which shows that the property notices the code. Types are
conjuncts of the proved invariants (of every module but `Watch` and
the routing cache); no run spends a property on one.

### SyncPush

`Req` is the set of deliveries the server can be handling at one time. `Arrive`
takes any sequence of at most `MaxPush` ops, so a device may send new ops, old
ones, and one op twice. The loop of the handler is four steps per op, at the
statements another delivery can observe: `Look` (the `inThisBatch` test, the
SELECT, the savepoint and `SET CONSTRAINTS ALL DEFERRED`), `Apply` or `Refuse`
(`applyOp` returned or threw), `Insert` or `AbortWait` (the `op_log` row, once
nobody holds its key, or the error that ends the wait), `Check` (`SET CONSTRAINTS
ALL IMMEDIATE` and `RELEASE`). `Commit` ends a chunk and sends its notices;
`Answer` ends the delivery. `CommitUnheard` is a COMMIT whose confirmation is
lost, `Fail` a statement, connection or process failing anywhere.

An op's work is a count in `books`; what makes a handler interesting here is only
whether it posts a journal (`Posts`), whether that journal balances
(`Unbalanced`) and whether its result carries a notice (`Ready`). PostgreSQL is
what the handler leans on: READ COMMITTED, a unique key whose uncommitted holder
makes a second writer wait, deadlock detection, savepoints, deferred checks.

Left out: the device's `last_push_at` stamp and the `sse.changed` wake, which no
promise depends on. Notices are best effort: `CommitUnheard` sends none.

### Outbox

A *flight* is one run of `flush()`; its awaits are steps of their own: `Start`,
`Read` (the store and the fence), `ParkStranger` for each row of another install,
`Send`, then `Serve`, `Unauthorised` or `LoseAnswer`, then `DeleteAcked` and
`PutRefused` row by row on the flight's *own copy* of the row, then `Finish`.
`Send` raises the flag, so two flights overlap just as they can in the code.
`Crash` and `WipeLocal` throw the page's memory away at any point and leave a
push it had sent on the `wire`, where `ServeLate` may deliver it, up to any op of
it. `due` stands for a call of `flush()` that the code is about to make or has
set a timer for. `Boot` is `bootstrap()` followed by `start()`; with
`BootAnswers = FALSE` that bootstrap may go unanswered or be turned away.
`SessionEnds` is the outlet signing the terminal out, or the token running out:
the till goes on with it until a request answers 401. `CleanSwitch` says
whether the outlet's id changes hands only behind a full log-out.

Assumed: one page per terminal (two tabs share a store and not a flag), ops of
one outlet id, `retryOp` and `discardOp` read and write their row without a
flight in between, and IndexedDB does not fail. `wipeLocal` may also delete the
database when it believes nothing is owed; that race with `queue` is left out.

### Tickets

`Begin` is the handler's lookup and `Write` everything after it, each UPDATE's
WHERE clause judged again on the row it finds; other deliveries run in between.
A row keeps its status, table, party, two stamps and the time of its closing; a
line is live or void. `Key` maps a spelling to the table it means. An exception
(the unique index over open tables) rolls the op back. `since`, `moved` and
`counted` are history. Only `split` 0 is modelled: the till never names another. A
transaction applies one ticket op. When a line id is live on several tickets
`lineOf` takes the latest line; the model takes any.

### KitchenPass

One ticket. `Begin` takes the rows the UPDATE's snapshot matches, `Mark` waits
for rows another delivery holds and looks at them again, `Count` is
`rungFromPass`, `SetRung` the rung and the commit. `kds_ticket` rows (the printed
dockets) and the ticket's closing are left out.

### Transactions, Stock, Sales, BackOffice and OutletBooks

A delivery `d` has one transaction `tx[d]`: the op, the statements it still has
to make (`todo`), the rows it has written (`w`) and the entries and moves it will
commit. A step is one statement that takes a row lock or reads what no lock
protects: `Land` (`firstOpenOnOrAfter`), `Ensure` and `InsertMonth`
(`ensurePeriodOpen`), `Post` (`postJournal`), `Period`, and the statements of each
handler in `Stock`, `Sales` and `BackOffice`, named for what they do. A write waits
until nobody else holds the row (`Free`); `CommitTx` publishes, `Abort` throws
everything away at any point, which is also how a deadlock ends. `SalesBegin`,
`StockBegin` and `OfficeBegin` give each kind of op its list of statements.
`wasOpen`, `wasShut`, `adrift` are history: the months an entry's transaction saw
open or shut, and the rows whose balance rests on a stale read or on a floor at zero.
What the ops and constants are taken to be is named beside each module's constants
(`OpsAssumption`, `StockAssumption`, `SalesAssumption`, `OfficeAssumption`): kinds carry
their fields, a lot is delivered once, a void or a refund names a sale.

`Stock` has deliveries blind and priced, at the door or against an order, counts,
adjustments, preparation, production, transfers, dispatch, lots closed, `drawDown`
and `undraw`; `Sales` has `sale`, `refund`, `void_sale`, `credit_settle`,
`loyalty_update`, the register; `BackOffice` has the payroll, the costs and the
depreciation claimed once a month, card batches matched and reopened, payments of
one entry, the clock. Left out: split tenders, vouchers, delivery margins, yields,
purchase orders, and some fifty kinds that upsert one row. Abstracted: a unit of
stock costs one, a point is worth one, one member, one tender, one op per
transaction.

Met while modelling, and excused in the properties rather than claimed of the code:
a blind delivery at the door may be priced twice and `bank_match_accept` posts
twice from two devices; a register may be closed twice, and its expected cash
counts by the session a sale was *begun* in, so a sale in flight across the closing
counts in neither; `acq_match` works from a stale earlier net; a person is clocked
in twice from two devices; a grant of points by hand books a difference to a balance
read earlier; a sale is refused when its month closes between
`firstOpenOnOrAfter` and `ensurePeriodOpen`; a sale and a void of it can deadlock; a
refund with restocking books no 1200 leg, and with a void restocks twice.

### Floor

Ops of this terminal (`here`) and of others run in transactions stamped with the
tick they begin in (`Begin`, `Commit`); the last tick comes long after the others.
`Ask` is the op window of a pull (`applied_at` after `since` less the overlap, the
oldest `Limit`), `ReadSlice` its slice, `ReadState` a bootstrap; three requests are
under way at once. `Land` is `absorb`, `applyLive` and `tellMe`, `LandBare` an answer whose slice could not
be read, `Hydrate` the bootstrap's, `Lose` no answer, `ReloadPage` the page, `SlowRead`
the five-minute read, `Ring` and `Calm` the till's own edit and the twenty seconds
after it. `Merge` is the rule by which local work wins.

Assumed: no transaction outlives the overlap; a slice is read in one step; voids and
held bills are left out. Exempt: sales a lost slice or an older bootstrap left out
(`missed`), which only the next bootstrap brings; a bill opened here and closed
before it was ever listed, which stays. Not in the model though in the code:
`ticketMap` lists only open tickets, so a parked bill leaves other tills' floors
(`index.html:3779` speaks of "every open and held ticket"); an adopted bill's covers
are never refreshed; a lost slice also skips `tellMe`; `hydrate` replaces `settled`
and with it a sale not yet delivered.

### Access

One process, so each query of a request is a step: `Call` (the cache), `Look` (both
rows), `Decide`, `LookFails` (the code lets a request in when the look throws);
`SignIn`, `Switch`, `ReadSalts`, `Match`, `PinOk`, `Charge`, `Lock`; `ChangePin`,
`AskPin`, `SetPin`, `PatchStaff`; `SignOut`, `RevokeOthers`, `SignOutDevice`,
`Deregister`, each followed by `Forget`; `Enrol`, `Claim`; `Tick` refills the
buckets; `Restart` empties what is in memory. A terminal has its row from the day it is
enrolled, and whether it was claimed is asked nowhere at sign-in (`Keys`). The pairing
code outlives a deregistration: a claim of a live one un-revokes the terminal, and the
sessions which that had ended, and nobody ended one by one, count as never ended
(`Claim`, `Restored`, `routes/auth.js:439`). Left out: signatures and expiry of
tokens. Met while modelling: a look under way re-caches a session after its revocation
for `TTL`; `/pin/change` charges only the caller though its comment says both tiers;
`/revoke` without a session id revokes none; a right PIN lifts a lock that somebody
else's failures had just set; suspending a person ends no session; two
administrators can give two people one PIN, and then neither gets in.

### GuestRounds, MemberCard, Menu, SetupFile and Guests

`Make` is a round sent by the guest, `Flush` the retry of what is held, `Check`,
`Insert`, `Stamp` and `LosePost` a post's way to its answer; `ReadTill`, `Decide`,
`Deliver` and `Settle` are the counter, whose page has an outbox of its own; `Ask`,
`Read`, `Land` the phone's snapshot, read list by list. Each list has its cut: of the open
bills those at the guest's table and of their lines those not void (`Void`, `MoveTable`,
`Park`, `Resume`), of the settled, declined and pending the last two hours and sixty rows
(`Age`, `SettlementGoes`). A round that has left every list that way is in `moved`, which
`RoundIsShown` excepts: the outlet no longer says anything of it. One bill is followed: a
bill moved away that comes back to its table is left out. `MemberCard` has `StartCard`, `Invite`,
`JoinCode`, `Send`, `Verify`, `Lapse`, `RevokeCard`, `ReadCard`, each one
transaction but the sending. `Menu` has one action per op that changes a recipe, a
declaration or a group, taken one at a time; `Walk` and `SaleDraws` are the two readings
of a recipe, breadth first and by path, both to `Depth`; a sale goes by what it derived
only where that is `Complete` (no ingredient found on the last level), and by the till's
own figures elsewhere; `SetupFile` computes the file
and its import from a menu. `Guests` explores the three side by side: a phone that
orders has its card and keeps it, since whose an order is shows on the bill alone. Left out: guest
requests and flags, the guest's profile, prices, courses, photographs, quantities, and
what makes a derivation incomplete besides its depth: an item the outlet does not know.

Met while modelling: two edits at once (an item and its recipe) leave a stale declaration;
a bought-in dish declares nothing whatever was typed; a nested batch line is refused
on import because the export drops `sub`; a member's card is not attached to a round
partly accepted; two tills double a round's lines within the staleness of their floors; a
code that was sent by mail without an answer is shown on the board as well.

### Hub

`Make` is an op put into a device's outbox by a person who has `Needs[o]` on the
screen. A `Push` goes through (`PassOk`, `PassRefused`), or fails (`PassFails`): the cloud
could not be reached, or applied it and its answer was lost; a copy is kept and 503
answered. While the hub holds anything a push waits for the drain first: `DrainSkip`
(no token), `DrainRun` (a delivery of at most `RunCap` ops of one device; any answer counts,
a refusal too), `DrainFails` (the cloud is out of reach, or its answer was lost), after
which each push that waited ends for itself (`WaitFails`), and `DrainEnds`. `PullUp`,
`PullDown` are what a device is shown; `MayPrint`, `Lapse` who the cloud cleared;
`LinkDown`, `LinkUp`, `Restart` the rest. `lost` is history: copies whose token a restart
forgot, that a refusal counted as delivered, or that were wiped with the file while a
drain was under way (the comment above `hub.js:277` says every push waits for the drain;
one that fails meanwhile is wiped). The fold's treatment of each kind is abstracted to
"what was held".

### Businesses, Archives, Accounts, Installs, Onboarding, Watch and Estate

`Businesses`: `createBusiness` and `provisionOutlet` step by step, by workers that
stop anywhere, the role lock, the directory and the sequence of outlet ids, store
addresses and their renames, routes cached and looked up, and a deploy that moves
the fleet. The lock is gone without where the maintenance database cannot be reached
(`SkipLock`, `db.js:279`) and lost with its connection (`LoseLock`); two transactions on
one outlet still meet at its role, whose catalog row is the cluster's (`RoleHeld`).
`lock.loose` is history: ids allocated while somebody was registering them, one of the two
without the lock. While the registry cannot be read (`RegistryGoes`, `RegistryBack`) a
route that has grown old goes on being served (`Serves`; "stale beats dark",
`business.js:263`). A provisioning reads which database it is in (`job.db`) and only later asks
the registry whose that is; after a swap nobody's row names the retired database, and
`businessForDb` registers it as a live business again (`business.js:214`). `moved` is
history: the databases a business was moved away from. `Archives`: a run over the live businesses, `prune`, `restore` beside or
over, `adopt`, one statement or file at a time, each cut off anywhere. `Accounts`: one
address's row, read when a request begins and written by what was read. `Installs`:
the parts an install is built of, notes nobody waits for, rollback, and the licence
read by a dashboard and pushed later. `Onboarding`: pages, tokens and sessions that
may name different businesses, steps that read and then write. A page's account token may
run out, or its account be suspended (`Lapse`), and be renewed (`Renew`); meanwhile the
request counts as nobody's (`Anonymous`), and where the process's own database is a
business it goes there. `Watch`: sweeps that
overlap, the probe with its kept answer. `Estate` puts them in one specification; a
behaviour is about one `part`, since only `Businesses` and `Archives` share state. The
cluster has two parts: in `served` an outlet's requests are followed and nothing is built
or provisioned, since once an outlet is in the directory its route goes by that entry and
its business's row, which only `adopt` and a deploy change; in `cluster` no request is
followed.

Assumed: an archive is adopted by the business it was made of; notes land before
the next answer of the platform; a founder goes on saving and signs in. Left out:
adopt-install and reset, what a migration does, the archive's tools and object
store, operators' own accounts, owners' sessions, second stores and staff beyond the
owner, the wizard's list-saving steps (one action, `records`).

Met while modelling: a build that stops leaves `pending`, which blocks the next
(`business.js:71`), and one that stops before `account_business` leaves a live
business without an owner; the ceiling of businesses per account is checked and then
acted on; the right code works twice at once, and a second proof drops the password
just set; two backups of one database in one second share a file; a crash between
`unlink` and DELETE leaves a row without its file; a restore over leaves
`schema_version`; `forget` beside a routing query re-caches the old route for thirty
seconds, and the CLI's own `forgetRoute` reaches no server; two renames at once lose
the name between; an address claimed before COMMIT can point at no store
(`provision.js:103`); `claim_first_owner` tests with an unlocked EXISTS, so a store
can have two; a tax step beside the company's deregistration leaves a rate of GST; two
administrators of the panel can remove each other, and two extensions lose one; a
device silent for seven days is no longer counted quiet.

## 3. Runs

| run | instance | shows |
|---|---|---|
| `push` | 2 deliveries of ≤ 3 of 2 ops, chunk 2, lamports that tie, one op that does not balance | `ExactlyOnce`, `PoisonContained`, `PromiseKept` (refinement of `OpLog`), `EveryDeliveryEnds` although deliveries can deadlock |
| `outbox` | 2 ops, 2 flights, 1 install, 1 fault, unanswered bootstraps | `NothingLost`, `NoOvertaking` |
| `outbox_settles` | 2 ops and a discard's record, 1 flight, 2 installs, parked after 2 refusals, 1 fault | `FenceHolds`; `Settles` under fairness |
| `tickets` | 2 deliveries at once, any 5 of 16 ops | `LastWriterWins`, `BillsAreKept` |
| `kitchen` | 2 deliveries at once, any 5 ops, 3 lines | `RungIsExact`, `NoEarlyCall` |
| `books` | 2 transactions at once, any 4 of 13 ops of the sales, 3 of 17 of the stock or 3 of 17 of the office | `DocumentsRunOn`, `ReversedOnce`, `MemberTies`, `StockHolds`, `OfficeHolds` |
| `floor` | 2 of 4 ops, 3 requests at once, 1 fault, `Limit` 1 | `WindowHolds`, `OwnWorkStays`, `ScreenCatchesUp` |
| `access` | 2 requests at once, 5 in all, 2 staff, 2 terminals, 2 PINs, clock 2, 1 restart, a cache of 2 | `RevokedIsRefused`, `GuessesBounded` |
| `guests` | a member's phone with 1 round, 2 rows of it, 1 lost answer or 1 cut of a list, 1 snapshot; 2 codes, 1 invitation; 3 edits of 3 dishes | `RoundIsShown`, `CodeTriesHold`, `DrawnIsDeclared`, `SetupSurvives`; `HeldRoundsGoOut` under fairness |
| `hub` | a tablet and the kitchen, a line, its firing and its bump, deliveries of 2, 3 faults | `CauseFirst`, `Custody`, `EverythingArrives` |
| `estate` | 2 businesses, 1 restored copy, 2 outlets, 2 workers, 4 operations or faults; 2 requests at an account, 5 in all; an install, 2 dashboards, 3 faults; 2 setup pages, 2 firms, the server's own database a business with a code or none, 1 trouble; 2 sweeps, 2 turns | `NothingUnnamed`, `OneHome`, `LastGoodKept`, `AtHome`, `VerifiedPasswordIsProven`; `SwapIsSeen`, `LicenceArrives`, `SetupFinishes`, `TellsWhatIs` under fairness |
| `menu_batches` | 2 dishes, 3 edits, the code's depth of 12 | *violated*: `EveryUserSaysSo` |

**Why the bounds are enough.** Every interference in `SyncPush` is between two
deliveries over one op or two, so two deliveries of two ops meet in every way; a
delivery may carry an op twice, so three places put the repeat beyond the chunk. The
proofs lift what is proved to any number. In `Outbox` two flights are what an
overlap needs, two ops what order and a full push (`PUSH_CHUNK = 1`) need, two
installs what the fence needs; the refusals reach `DEAD_TRIES`, so an op can just be
parked; one fault per behaviour is the bound the proofs remove for what they cover.
In `Tickets`, `KitchenPass` and the books a race is between two transactions, and
the ops are an opening, two edits and two closings; two courses fired, bumped and
recalled; a sale, two reversals of it and a month closed between, with a member who
is short of points; two claims of a month and a filing undone. A history of the books stays
in one of three groups of ops, since sales, goods and the office meet only in the
series and months, which each group has. `Floor` needs two ops for a cut at a
`Limit` of one and an overlap of two ticks for a transaction that outlives a pull. `Access`
has an allowance of two for each bucket, one more guess than that, and time enough
for a cache entry to outlive a sign-out. `Hub` has the least chain of causes in which
one crosses devices, an outage with a restart and one more fault, and a delivery that takes
part of what is held. A recipe of three dishes is as deep as a `Depth` of two can
be exceeded by. A guest's round needs two rows for a repeated post, a lost answer
for that repetition or a cut for a list it has left; the two share `Budget`. `Estate` has
two of everything that can race. Four operations are a build, a provisioning, and two that
cross them; and where an outlet's requests are followed, a backup, a restore, a swap and a
registry that cannot be read. A setup is cut off, relinked or loses its account once. Bounds (`Max…`, `Budget`) end behaviours, so those configurations switch the
deadlock check off; `push`, `outbox` and `outbox_settles` keep it on.

**Fairness.** `SyncPush`: a handler's step that stays possible is taken, and a
wait for a key ends, with the key or with an error (`WF(Step ∨ AbortWait)`):
Node runs the handler's continuations, PostgreSQL breaks deadlocks, and
`statement_timeout` (15 s, `src/db.js:405`) ends any other wait. No fairness on
arrivals, refusals or failures. `Outbox`: somebody signs in, a page with a
session boots, `reread` comes round every five minutes (`SLOW_MS`), a due call of
`flush()` is made, and a flight goes on; nobody need press replay, and losing
answers, reloads, log-outs and ended sessions are limited by `MaxFaults`. Parking,
retrying and discarding are a person's and get no fairness. `Floor`: transactions end
and the outbox is delivered (which `Outbox` shows), the five-second poll and the
five-minute read go round and are answered once the faults are spent. `Guests`: the
phone's flush timer goes off, requests end, an answer is stamped; nothing is asked of
the counter. `Hub`: devices retry every few seconds, requests end, an outage ends.
`Estate`: a cached route expires, a registry that cannot be read can be read again some
day, a dashboard that loads finishes and is loaded
again, sweeps come round and their probes answer, a kept readiness ages; a founder
reopens the page and saves what it shows (weak) and signs in when a step asks for it, and
to their account when it no longer counts (strong: the offer comes and goes with the step). Nothing else is asked of owners, operators or
deploys.

## 4. Where the code and its comments part

`menu_batches`: the comment above `republishUsing` (`apply.js:2837`) says that when
an ingredient's own declaration changes every dish that uses it says something
different now; the query takes the dishes with a line of the ingredient itself, so
one that uses it through a batch keeps what it declared before, until its recipe is
saved again. The run finds it in three edits, at the code's own depth.
`DrawnIsDeclared` compares the two readings of a recipe rather than what is kept on
the dish, so it stands.

Other disagreements were met while modelling. The properties that pass are worded
around them; each is in the model unless section 2 says otherwise:

- "A different business is refused by name" (`business.js:152`). Where the maintenance
  database cannot be reached a provisioning goes on without the role lock (`db.js:279`);
  what it then registers may have been given to another business since it looked, and the
  upsert passes over such a row without a word: both commit. `OneHome` excepts exactly
  those ids (`lock.loose`), and is proved of all others.
- "Proceeding as though there were no business, when there is one, writes the company into
  whichever database this process happens to be connected to" (`onboarding.js:222`) is
  guarded against for a registry that cannot be read. An account token that has run out,
  or an account that is not active, counts as no account at all (`onboarding.js:168`,
  `:172`), and where the process's own database is a business the step is written there
  (`:265`). `AtHome` says what holds: only there, and only by somebody whose account did
  not count and whom no code keeps out; `SetupFinishes` promises nothing about that
  database once an owner's page went astray there.
- "A floor must not overwrite the till's figure" (`apply.js:684`), but how deep the walk
  got is read from the levels on which it found an ingredient (`apply.js:682`): a dish and
  a batch that lead to each other, the batch with an ingredient and the dish with none,
  pass for complete although the walk was cut off. `DrawnIsDeclared` says what holds: of
  dishes that can be declared a sale moves everything the recipe says or what the till
  said, never a part, and it moves everything where no recipe nests as deep as the walk.
- "A settlement ends its right to go" (`guest.html:1445`), but the phone goes by the
  settlements in the snapshot it shows, and a sale leaves that list when it is voided or
  two hours or sixty sales have passed (`routes/outlet.js:957`); a round held until then
  is sent again. `RoundIsShown` excepts a round whose row has left every list.
- A replayed op answers with its stored result, and the loop that sends notices does
  not ask whether it is a replay: a bump whose answer was lost calls the waiter
  again (`sync.js:206`).
- `signIn()` flushes before any `bootstrap()`, so the fence still compares with the
  old install's name (`api.js:224`, `:643`). `FenceHolds` is checked, and proved, with
  `CleanSwitch`.
- When the bootstrap that brings a page up goes unanswered, the later one that names
  the install starts no flush (`api.js:662`), and held ops wait until somebody does
  something. `Settles` is checked with `BootAnswers = TRUE`.
- `park_bill`'s UPDATE names no status: a sale that closes the ticket between its
  lookup and its UPDATE is undone, the paid bill is held again (`apply.js:1076`).
  `BillsAreKept` covers what begins after the closing.
- `ticketRef` takes the latest opened ticket of a table, open or held: a sale may
  close a parked bill in place of the one that was moved there (`apply.js:1031`).
- Two stations bump the last two lines at once, each counts the other's line as
  cooking, and the finished table stays in the kitchen (`apply.js:3180`).
  `RungIsExact` and `NoEarlyCall` speak of deliveries that overlap no other;
  `void_line` writes no rung at all.
- `CoversAreLatest` allows the larger party a line, seating or parking may carry: `openTicket` takes the
  greater and stamps nothing.

## 5. Proofs

**The push handler** (`BooksProofs`, second half), from the assumptions on the constants
alone (any set of ops, any number of deliveries, any chunk size ≥ 1):

- `Invariance`: `Spec => []Inv`, with `Inv == TypeOK ∧ ExactlyOnce ∧ OpenWork ∧
  AckedIsBooked`. `ExactlyOnce` is not inductive: a commit adds what the
  transaction holds, so one must know that an open transaction's work is exactly
  its rows (`WorkIsLogged`, apart from the op in hand between its work and its
  row), that no two transactions and no transaction and the log hold the same row
  (`KeysHeldOnce`), and that an answer has its row where no rollback to the
  savepoint can reach it (`AnswersHold`). Each action has a lemma; the other
  deliveries are dealt with once, in `OthersHold`.
- `BookedOnce`, `AckedAreBooked` follow; `KeepsPromise` shows every step to be a
  step of `OpLog` or a stutter.
- `TidyAlways` adds the order and the forced checks (`Ordered`, `Forced`);
  `OrderIsTaken` and `PoisonIsContained` follow.
- `NeverDeadlocked` assumes that no two ops carry one lamport: along any wait the
  lamport in hand grows, so in a set of deliveries that all wait and are waited
  for the greatest has nobody to wait for. (The run has lamports that tie, where
  rings do form and end with an error.)

**The books** (`BooksProofs`, first half), for any ops of the kinds of section 2, any
number of transactions, items, lots, staff and months, from the four assumptions named
there (`LastMonth` and every amount are unbounded):

- `BooksInvariance`: `Base`, the type invariant, and what READ COMMITTED with row locks
  comes to: a transaction still has to make a tail of its op's statements, in order
  (`Ahead`), no two hold one row and no two carry one op (`Apart`). What a statement may
  write is said once for each (`Makes`): the fields of its transaction and the rows it may
  lock. Every later invariant speaks of a few fields and rows and needs a lemma only for the
  statements that `Makes` says may touch them.
- `DocumentsAlwaysRunOn`, in two parts. The numbers: a transaction that took a number holds
  the series' row until it ends, so the number it carries is the next and nobody else's
  (`Drawing` for bills and credit notes, `Posting` for vouchers), and what is committed
  follows its series (`SalesNumbered`, `NotesNumbered`, `Ledger`). The months: `Opening`
  says of an entry in hand that its month was open when the transaction looked, and of a
  late sale that every month it passed over was seen shut (`LandsOpen`); `Selling` and
  `Billing` say what row and what legs each kind carries at each of its statements.
- `OfficeAlwaysHolds`. `Claiming` ties the claim row a transaction holds to the one entry it
  carries, and `PaidRows` the committed claim to the one committed entry. `Batching` says that
  unless the batch is adrift the net a file works from is the row's, so that what it posts is
  the difference; `BatchTies` sums the differences. `Seen` says that of two punches of one
  person under way one saw the other, and has the person's shifts in its `drift`.

- `ReversedAtMostOnce`. `Sale` says what a sale has in the books by the state of its row:
  nothing yet; one entry, at the legs of its payload (`SaleLegs`), and one move of stock;
  and once void also one entry that reverses the first and one move that returns the stock.
  The row's lock makes the void read exactly that one entry (`LiveSale`): `Reversing` says it
  then carries the opposite of its legs until it commits, and a second void finds the row
  claimed. That the entry booked is the opposite with its drift squared off, and that the
  two cancel on every account, is `SquaredIs` and `OppositeCancels`: the sale's own legs
  balance, so nothing is left to square.

- `MemberAlwaysTies`. `Carrying` says of an op under way by how much it has moved the
  member's row so far (`UsedBy`, `PointsBy`: by kind, and by which of its statements are
  behind it), unless it has put the member in its `drift`; the row's lock keeps the committed
  side still meanwhile. `Quiet` says that an op that is no business of the member's has no
  leg on 1040 or 2350. When an op commits its legs on the two accounts are what it moved
  the row by (`Agree`), but for the points a sale spends and a redemption takes, which are
  the two sums of the statement; `AccountGains`, `SpendingGains` and `RedeemingGains` say
  that each sum grows by that op's part. `EarnedKept` is what the void needs: that the sale's
  row still says what the sale earned.

- `StockAlwaysHolds` (`StockProofs`), of the same specification and from the same
  assumptions. `StockInv` adds to the invariants above what is committed (`StockBooks`) and
  what a transaction has in hand (`Stocking`). Committed: a delivery is one move and is
  priced or blind (`Delivered`), the shelf and the inventory account are the sums of the
  moves (`Counted`, `Ledgered`), and a lot is what is left of it, what is out or away and
  what the sales hold (`Sizes`). In hand: which moves an op has made by which of its
  statements are behind it (`Carried`), that each item's row it holds is the committed one
  and those moves (`ItemTies`), what it has done to a delivery (`Delivering`), that an op
  that is no business of the shelf has no leg on 1200 (`Clear`), and that what it took of a
  lot is what the sale will hold of it (`Shelving`, `LotTies`). At its end an op books what
  its moves come to (`BooksWhatMoved`), and each of the sums grows by its part
  (`CountedCommits`, `LedgeredCommits`, `SizesCommits`). A lot is never drawn below
  zero because a draw takes no more than is there (`DrawnDown`), under the row's lock.

The sums over the journal are `SumFunction` of the community modules. What they become when
an entry is added (`SumMore` and the lemmas around it) is proved from the recursive function
that the fold is, by a least set for which it would fail.

**TerminalProofs**, first half (`Outbox`), for any ops, installs, flights and bounds:

- `Typed`: the type invariant.
- `NothingIsLost`: with the strengthening `AcksApplied` (what a flight is about
  to delete is in the log of some install).
- `InstallsKeptApart`: `FenceHolds`, assuming `CleanSwitch`. `Apart` is the
  strengthening: every name a page holds is that of the install there is, and
  every row, every flight's copy and every push still on the wire is of an
  install its op was meant for.
- `WorkArrivesInOrder`: `NoOvertaking`, assuming `CleanSwitch`. The log alone says
  nothing of what is on its way. `Floor` is what an install has or may still be sent,
  `Past` what it has or has refused; `OrderInv` says of every copy a flight read, every
  batch cut from one and every push on the wire that it leaves nothing out that is
  earlier, to be sent and not past (`InOrder`), and that what a flight does not hold yet
  it cannot have skipped (`Present`, `WireMade`). The lamport of what is made later is
  greater, so nothing new can be earlier than what is under way.

**TerminalProofs**, second half (`Floor`), for any ops, cut and answers lost, late or
overtaken, from `FloorAssumption`: `Inv` says that no transaction outlives the overlap (`Timely`), that
what is listed or named was committed (`Committed`), and, of the page's stamp and of every
request under way, that what was stamped before its window has been seen (`SeenBefore`):
what commits later carries a later stamp (`StaysSeen`). `NothingFallsBehind` and
`LocalWorkWins` follow.

**KitchenProofs**: the pass and the hub.

- The pass, for any lines, ops and deliveries, from `OpAssumption` (an op is of one of
  the kinds): `Inv == Shape ∧ Fired ∧ Alone ∧ Exact`. That the rung is right needs what a
  delivery holds between its marking and its commit: `Fired`, that a line that is up, or
  about to be, was sent; `Alone`, that a delivery marked as alone is, so that its rows
  are as it found them and the rung it carries is the one it would count now; `Exact`
  says of the counted rung what `RungIsExact` says. `RungAlwaysExact` and
  `CalledToFinishedFood` follow.
- The hub, for any devices, ops, chain of causes and faults, from `HubAssumption` (every
  op is some device's, a delivery takes at least one): `CustodyNeverMoves`,
  `CauseAlwaysFirst`. There are five queues an op can stand in (a device's outbox, its
  push, what is held, what the drain has left, the log) and `HubInv` says that each is in
  the order of cause up to what has gone before it: `Ordered(s, X)`, every cause of an op
  of `s` stands earlier in `s` or is in `X`. For a device `X` is the log and what others
  make; for the hub's copies it is the log and what was lost; for the log only what was
  lost. Between them stands `Seen`: whoever acts on another's op saw what has arrived, what
  is held or what once was, so that when the hub holds nothing, and only then does a push go
  through, the causes others made are in the log or lost.

**TicketsProofs**, for any deliveries, tickets, lines, spellings and ops, from
`SpellingAssumption`, `OpAssumption` and `BoundAssumption` (tickets enough for every op
to open one). `Inv` adds to the types what makes the history honest: a ticket nobody
opened has none (`Blank`), and the row an INSERT takes is such a ticket, by the pigeonhole:
every other was opened by an op of its own, at a time of its own (`OpenedApart`, `InHand`).
`TableSaid` and `CoversSaid` tie a field's stamp to the latest edit that reached it, so
that an edit refused for its lamport was not the latest. `Watched` says that a bill
standing where a delivery found none came there since it looked, `Found` that what it
found was live then. `LatestStands` and `BillsAlwaysKept` follow.

**GuestsProofs**, for `Guests`' specification:

- `CodeTriesAlwaysHold`. `TriesCount` relates a code's history to the row: the tries on
  the row count every wrong comparison of the code in force, and a code not yet drawn has
  had none; `CodesDrawn` keeps the codes of two members apart. Assumes
  `CardAssumption` (the bounds are numbers).
- `DeclaredIsDrawn`, for any recipes, nested or round, and any `Depth` (`DepthAssumption`:
  a number): both walks collect the same sets, level by level (`WalksMeet`), the one
  marking what it has seen and the other following every path. That a declaration has
  everything a recipe leads to is `WalksAgree`, against the closure of the recipe by the
  book (`MadeOf`); that a sale of several dishes derives what each would is `WantSplits` and
  `BillDerived`; that a recipe which ranks below `Depth` is never cut off is `ShallowEnds`. It is true of every menu,
  so no invariant is needed; the levels are recursive functions and the induction is on
  the level alone, by the least level at which the walks would differ.
- `SetupAlwaysSurvives`, of menus whose batches are put together of ingredients: the file is written in an order in which every line's parts
  come before it, so that each step of the import finds what it names; `MenuInvariance`
  is the type invariant it needs.
- `RoundAlwaysShown`, from `RoundsAssumption`. A snapshot is four reads with the till's
  work between them; `Found` says, for a poll that has read this far, that the order is
  in a list already read, or was moved since the read began or had left the lists by then,
  or that the list it will be in is still to be read. `CutNotes` says of every step that takes
  a row off a list (a void, a move, a bill parked, two hours gone) that the poll under way
  has noted it. What makes that stand is `LinesFirst`: an order is marked taken only
  once its lines are on the bill, or by a till in whose outbox they stand before.

**AccessProofs**, from `WindowAssumption`, `StaffAssumption`, `HereAssumption` and
`LimitAssumption` (the requests at once are finitely many, the allowances numbers):
`Inv`, with `EndedIsOver` (a session answered for as ended is ended, its own
row or its terminal's), `Echoed` (what the cache holds of it was put there by a look
since), `Rowed` (only an enrolled terminal is revoked, so an enrolment un-revokes nobody)
and, for each request under way, what it may carry (`Sound`). A claim un-revokes: it takes
back the end of the sessions its terminal's deregistering had ended, and what is remembered
of that end goes with it (`ClaimInv`); of every other session the promise stands. `RevokedStaysOut` follows: only `Call` and `Decide` let
anybody in, the one by an entry that is an echo, the other never after the end.
`GuessingIsBounded`: `Counted` says that unless everybody is locked, the wrong PINs
compared are no more than those charged to the outlet and those whose charge is `Due`,
one per request under way at most; a charge that finds the allowance spent locks
everybody, and while everybody is locked nothing is compared.

**EstateProofs**, for `Estate`'s specification:

- `ProvenAlways`, whose strengthening `Stands` says how far what a request read earlier
  still holds of the row (what it saw proved stays proved; one that has proved the address
  has settled the password).
- `AlwaysAtHome`, with `PagesAtHome`: a session opens a store that is the page's own, and a
  request under way goes to one, or to the process's own database by a page whose account
  has not counted (`Rightful`). It uses `SituationAssumption`, that an account's
  businesses have a newest.
- `LastGoodAlways`, from no assumption at all: the archive being written is the last on the
  shelf and out of every sweep's view (`RunIsLast`), so what a sweep spares stays the
  newest good one or is followed by a newer (`TopStays`); a file removed whose row was not,
  when a command stops between, is never the newest.
- `OneHomeAlways`, from `RegistryAssumption` (which numbers name businesses, copies,
  outlets and workers). In `CluInv`, the outlets of a database nobody was moved from are
  those the directory gives to its business (`Homes`), the same is true of every archive of
  it (`ShelfHomes`) and of what a restore is about to put into it (`RestHomes`); a worker who
  is past the lock, or went on without it, knows whose database and whose outlet it has in
  hand (`Provisions`); the directory gives that outlet to his business unless the id was
  allocated behind his back (`Homed`, `lock.loose`), which takes somebody without the lock,
  and two that carry one outlet cannot both be past its role (`RoleFree`). A retired database may hold outlets of a business that lives
  elsewhere, and may be registered as a business again: `moved` is what `OneHome` excepts.
- `NobodyOrphaned`: a database has its row, or a good archive its row was moved to
  (`Housed`), which no prune takes, being the last good one. `FewAreUnnamed`: of an install's
  parts at most two steps' are unnamed on the row, the one that was asked for and the one
  whose note is still to land; `InsInv` ties what exists to what the build knows it has
  made. `NothingIsUnnamed` joins the two.

Only model-checked: what promises that something happens (`EveryDeliveryEnds`,
`Settles`, `ScreenCatchesUp`, `HeldRoundsGoOut`, `EverythingArrives`, `SwapIsSeen`,
`LicenceArrives`, `SetupFinishes`, `TellsWhatIs`: fairness and ENABLED are outside
the prover's reach). Every other property of a passing run is a theorem, and
`EveryUserSaysSo` is violated. No module declares a RECURSIVE operator; the walks, the import and the hub's
queues are recursive functions, whose facts are proved from a least counterexample.

## 6. Not modelled, and what is next

Not modelled: *printing* composes bytes and keeps no state the outlet reads; *the
screens* (`app/*.html`, 36 000 lines) are the environment that decides which ops are
queued, apart from the merges in `Floor` and `GuestRounds`; *bill arithmetic* works on
decimals, out of a finite instance's reach and well within unit tests'; *notices and
mail* are transports, whose sending is in `SyncPush` and `MemberCard`; *AI helpers*
call a service and parse its text; *the public site* and the panel's other forms share
no state with an outlet; *reset* and *adopt-install* are scripts run by hand with nobody
else at work, though reset's truncation of `op_log` (`reset.js:160`) lets a terminal
that slept through it replay. The ninety days of `op_log`
(`src/migrations/025_retention.sql:36`) need a clock of months beside the log.

Next, in this order:

1. `SyncPush` with the ninety days: an op that comes again after its row was swept, and
   which handlers then still know by rows of their own that their work is done.
2. A refinement of the books: `OutletBooks` to one transaction at a time, for the
   kinds whose rows are locked from the first statement on.
3. The other half of the terminal: voids and parked bills in `Floor`.
