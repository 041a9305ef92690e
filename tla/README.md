# ArenaLine in TLA+

ArenaLine is the portal of a riding barn and IEA team: a Django application on
PostgreSQL (`src/portal`), served by several gunicorn workers (`Dockerfile:12`
starts three).  This directory holds TLA+ models of the parts of it in which
state is shared and order matters, TLC configurations that check them on small
instances, and proofs that TLAPS checks for every instance.

What makes the code hard to get right is the same almost everywhere:

* **Several workers, READ COMMITTED, few locks.**  There is no
  `ATOMIC_REQUESTS`.  Most services are `@transaction.atomic`, which makes
  their writes all-or-nothing but does not keep two of them from reading the
  same rows.  Only a dozen places use `select_for_update`.  What a request
  checked may no longer hold when it writes.
* **Stale instances.**  Views load an instance, check its status and later save
  one field, or all of them, over whatever is there by then.
* **Two records for one fact.**  A payment, a contribution, an assistance claim,
  a reimbursement and a reconciled bank row each have a `FinancialTransaction`
  that can also be edited directly; a person has a canonical record and legacy
  rider and guardian rows; a committee assignment has a membership, a show
  budget a generic one.
* **Long sequences of forms.**  Most rules are checked by the form or `clean()`
  of one row.  Whether they still hold after twenty forms in an unlucky order
  is nobody's job.
* **Derived numbers.**  Balances, standings and readiness are sums over rows,
  so a wrong row shows up as a wrong number far away, often hidden by a
  `max(..., 0)`.

## 1. The system and where it is modelled

| Component | State | Operations | Interacts with | Must hold | Modules |
|---|---|---|---|---|---|
| Receivables ledger | accounts, charges, payments, credits, allocations | create, post, allocate, allocate oldest, unallocate, void | direct ledger, billing, earned credits | nothing paid or spent beyond its amount; balances conserved; void money pays nothing; closed accounts only unwind | Receivables, ReceivablesRace |
| Bank reconciliation | batches, rows, matches | stage, find candidates, confirm, ignore, complete | direct ledger | a row and a transaction are confirmed once; completed means decided; decisions stay | BankReconciliation |
| Inventory | stock rows, history | receive, consume, count, transfer | facilities | stock = history; transfers atomic; requests end | StockBook, Inventory |
| Direct ledger | categories, transactions, show allocations, budget lines | add, edit, void, reverse, allocate | everything in finance | allocations fit their transaction; a source is posted once | TeamLedger |
| Family accounts | dues rates, charges, credits, services, awards, claims, payments | generate, save, waive, claim, pay, void | direct ledger | claims stay within the award; one income row per payment, none once void; balances | FamilyAccount |
| Fundraising | policy, campaigns, contributions | record, edit, void | direct ledger, family credits | ledger row, credit and contribution stay in step | Fundraising |
| Show finance | season and show budgets, fees, reimbursements | save, generate, submit, review, pay | direct ledger, family charges | mirrors agree; a fee once; an expense iff paid | ShowFinance |
| Payables | obligations, payments | create, pay, void | direct ledger | never overpaid; payments booked | Payables |
| Billing and earned credits | rules, generated rows | monthly, lesson and shift runs | lessons, shifts | a key is charged once; success means billed; runs end | BillingRuns |
| Lesson occurrences and resources | series, occurrences, attendance, assignments, reservations | generate, prepare, lesson day, move, complete, cancel, reschedule, bill, assign rooms | billing, facilities | rosters agree and stay closed; capacity; billed lessons stay completed; one room that follows | Lessons, LessonsRace |
| Facilities | space tree, stalls, turnout, reservations | edit, assign, move, vacate, reserve | lessons, inventory, horses | no cycles; no overlaps | Facilities |
| Station | device session, PINs, shifts, credits | identify, clock, correct, approve, credit | billing, accounts | lockout; one open shift; a shift pays once per rule and account | Station |
| Horses and their papers | tests, documents, requirements, care, relationships, access | save, end, edit | show horses | ready means valid papers; done care is quiet | HorseCare |
| Horses of a show | assignments, awards, leased horses, Hoofprints, post-show history | plan, award, finalize, rebuild, edit | horse papers | awards keep their horse; versions count; final is final | ShowHorses |
| Live show and publication | show status, live classes, rings, publication | start, pause, complete, move, publish | spectators | free rings; nothing revealed by running; archive frozen | LiveShow |
| Show-day board | check-in, schedule, private updates, spectator updates | update, shift, reset, post, retract | live show | one status per rider; shifts reversible; notices readable | ShowBoard |
| Entries and scoring | entries, points riders, results, scale | enter, edit, set, place | standings | one points rider per team; only who can score; tracks fit the level | ShowEntries |
| Show plan | volunteer and supply items | add, edit, claim, complete, seed | families | claims honoured; levels kept | ShowPlanning |
| Hosting | host plan, checkpoints, duties, managers | edit, complete, publish, close, reopen | live show | a closed host show is read-only | HostShow |
| Season archive | seats, classes, historical results, previews | preview, commit, add, edit, delete | roster, calendar | imports only add; emptied shows go | HistoryImport |
| People and families | persons, bridges, logins, guardians, grants | link, unlink, edit, create logins | all private pages | unlinking ends access; lists match pages | FamilyAccess |
| Roles and lifecycle | dated roles, season membership, rider lifecycle | manage, edit, graduate | access | dates ordered; graduates stay | PeopleRoles |
| Committees and groups | groups, assignments, memberships | save, end, delete | finance access | mirrors follow assignments | Committees |
| Account security | passwords, e-mail, second factor, sessions | sign in, enrol, reset, verify | login | no session without the factor; changes proved | AccountSecurity |
| Permissions | - | who may do what | all views | - | Access (operators) |

Not modelled, and why, is in section 8.  `PROJECT.json` lists every component
with its source files, status and what of it is left out, and the hazards of
the code, each at the line where it bites with the properties that watch it.

## 2. How the modules fit together

    LedgerSums  <-- Receivables <-- ReceivablesRace      (INSTANCE: the serial ledger)
        |               \-- ReceivablesProofs --> LedgerSumsTheorems
        |                        \-- ReceivablesRace     (INSTANCE: what it proves about it)
        |-- StockBook   <-- Inventory                    (INSTANCE: refinement)
        |                     \-- InventoryProofs --> LedgerSumsTheorems
    Lessons <-- LessonsRace                              (INSTANCE: the serial program)
        \-- LessonsProofs

    TeamLedger <-- FamilyAccount <-- Fundraising ---\
        |                    \------ ShowFinance  ---+-- MCMoney
        \-- Payables -------------------------------/|
                                     BillingRuns ---/
        MCMoney, BankReconciliation <-- MoneyProofs --> LedgerSumsTheorems
    LiveShow <-- HostShow ---------------\
                                         |
    Access <-- ShowBoard, ShowPlanning,  +-- MCShowDay
               ShowFinance, HostShow     |
    ShowEntries, HistoryImport ----------/
        MCShowDay <-- ShowDayProofs --> LedgerSumsTheorems
    ShowHorses, HorseCare, Facilities, Station -- MCBarn
        MCBarn <-- BarnProofs
    FamilyAccess, PeopleRoles, Committees, AccountSecurity -- MCPeople
        MCPeople <-- PeopleProofs

Arrows are EXTENDS unless noted.  The modules that share state share it in
TLA+ too: everything about money but barn billing works on the one transaction
table of `TeamLedger`; `HostShow` closes and reopens the show whose classes
`LiveShow` runs.

## 3. The modules

Definitions keep the names of the functions they translate, in CamelCase
(`finance_transaction_delete` is `FinanceTransactionDelete`); `map` in
`PROJECT.json` gives the lines of each.  A definition named `X_Something` just
above `X` is a mutated form of it, used to show that a property depends on it.
A request is one step where the code runs it in one transaction on rows it
loads there, or where overlapping requests are not what the module is about;
where they are, the module says so below.

### Receivables, bank, inventory, lessons

**LedgerSums** is the `aggregate(Sum(...))` of the code: `SumTo(f, n)`.
**LedgerSumsTheorems** holds what the other proofs need to know of it.

**Receivables** has one action per operation of `finance_operations.py`, the
service it calls included.  Rows are never deleted, so tables are sequences and
a key is a position.  Payments and credits are one table `sources` told apart
by `kind`; the code's paths for the two are the same except that only payments
are banked and voided.  Balances are computed from the allocation rows as the
model properties do (`ChargeBalance`, `Unapplied`, `Balance`).
`DirectLedgerVoid` is the ledger view voiding the linked transaction.
`CloseAccount` has no code in `src/`: the status is set out of band (tests set
it directly) and all operations honour it.

**ReceivablesRace** runs allocate, void and unallocate query by query on
several workers, over the tables and balance operators of `Receivables`, which
it instantiates as `Ledger`.  A worker's `job` holds what its request has read.

**StockBook** is what the inventory promises: one quantity per space and a
journal, changed together.  **Inventory** is how it is done: requests of
several workers that lock stock rows (`Take`), check, compute from the quantity
they loaded (`seen`), validate (`Clean`), and save and commit (`Save`), with
refusals, failed validations and deadlock aborts that roll back; `EditSpace` is
the facility form that changes the storage capability at any time.

**BankReconciliation** covers the rows, matches and batches of imported
statements and the ledger transactions they compete for.  Candidate generation
and confirmation lock (`Unlocked`, `Confirming`); every other view takes one
step per query or save.  A confirmation stays three steps although it holds its
locks, because the unlocked views read during it and write after it.

**Lessons** is the life of the occurrences of a barn lesson series with one
action per service of `services/lesson_*.py` and per reservation view of
`facility_views.py`.  Attendance and assignments are kept apart, as in the
database, because the code creates them in different places and
`update_lesson_day` needs them to agree.  PRESENT, NO_SHOW and MAKEUP are one
status, `"present"`: they count alike.  Whoever prepares a lesson finds any set
of riders enrolled.  A handler that acts on an occurrence it loaded takes it as
`seen`, which is the present row here.  **LessonsRace** lets other requests
come between the load and the write of prepare, move, assign a room, cancel,
reschedule and bill: each is `Load` (or `LoadMove`) and `Commit`, the action of
`Lessons` with the loaded row for `seen`.

### Money

**TeamLedger**: `tx` is the FinancialTransaction table, in posting order;
`PostFor` is what every service does when it creates, updates or voids its own
row, and `FinanceTransactionCreate/Edit/Delete` are the views that touch rows by
hand (a delete voids, with an opposite row if asked).
`TransactionAllocationSave` splits a row over shows and budget lines with the
`clean()` of the row against its siblings.  The reports over them
(`CategoryReport`, `ShowNet`, `LineVariance`, ...) are operators.

**FamilyAccount** adds the account of a rider's season: `DuesCharge` and the
two generators of dues from the home barn's rate, charges, credits, service
agreements, awards with claims and payments, each saved by its form with the
form's checks.  A claim is `ClaimSync`ed with its income row when it becomes
reimbursed and lets it go when it does not; a payment posts, moves and voids
its own row.  `Balance` is the clamped balance of the model property.

**Fundraising** adds policies, campaigns and contributions.  A contribution
owns one ledger row and, if its policy credits a family, one credit
(`GiftSync`); the half-even rounding of the share is `HalfEven`.

**ShowFinance** adds budgets with the generic budgets that
`finance_budget_compat.py` keeps beside them (`SyncShowBudget`), show fees, and
reimbursement requests.  A review is `ReviewRead` and, later, `ReviewSave` of
the whole row it read, under a number: up to `MaxReviews` may have read one request.  Paying posts an expense and tries to
allocate it (`Allocate` may be refused after the rest was saved).

**Payables** are obligations, payments with the expense of each, and voids.

**BillingRuns** is the generation of charges and credits under a key at READ
COMMITTED: a run bills its keys in order, and for each it looks for a committed
row (`Look`), validates the unique constraint (`Clean`) and inserts (`Insert`),
waiting if another run's uncommitted row has the key (`WaitsFor`); the wait
ends with that run's `Commit` or `Rollback`.  Runs start any time, end, fail,
die (`Die`) and are repeated.

### The barn

**Facilities**: `FitsTree` is the walk up the parents in
`FacilitySpace.clean`; `StallFits`, `TurnoutFits` and `ReservationFits` are the
overlap queries of the rows' `clean()`.  A stall move is an end and a new row
in one transaction, a pasture move ends the old row *without* validating it, as
the code does.  Intervals are half-open and `NoEnd` is an open end.

**Station** is one browser bound to a device: identification with wrong-PIN
counts and a lock that ends with time, clock-in and clock-out within
`PinSeconds`, loss of the session, edits of devices and PINs, the managers'
corrections, approvals and `StationShiftPostCredit`, which matches rules and
accounts and skips what `Existing` finds.

**HorseCare**: `Compliance` takes the latest paper of every required type and
judges it at a date; `CareItems` is the schedule of care by type.  Actions save
and edit papers, requirements, care records, relationships (with the credit
recipient) and the access capability, and let days pass.

**ShowHorses**: `ShowHorseSave` checks the classes of an assignment against
season eligibility unless an override is granted, `MayWin` guards awards,
`RequiredHorses` is the rounded ratio of readiness.  A Hoofprint is
`FinalizeRead` and `FinalizeInsert`; requests on the post-show history load it
(`HistoryRequest`) and save later (`SaveNotes`, `SaveRecord`), as other
requests rebuild and finalize it.

### The show day

**LiveShow**: each class has a live row and a ring row, both made by
`get_or_create`.  The ring change tests for a conflict at the ring that is
stored (`CheckedRing`), as the code rereads it.  `PublicClassState`,
`PublicResults` and `PublicCurrentClass` are what `publication.py` shows an
anonymous visitor.

**HostShow** adds the host plan, its checkpoints, duties, staff and family
page, and the closing and reopening of the show; every host edit starts with
`HostShowClosed`.

**ShowBoard**: check-in with rows for legacy riders and canonical participants
and their adoption (`AdoptableRows`), the running order with baseline and
estimated times (`Shifted` wraps around midnight), private updates with
notifications by audience, spectator updates with superseded delays.

**ShowEntries**: entries are cleaned (`EntryClean`) and normalised (`Normal`)
on every save; `PointRiderSet` first clears the other designations of the
rider's team in the class; results give points by the scale; standings,
qualification and the VOC list are operators.

**ShowPlanning** is the item board with claims, and **HistoryImport** the
archive of a season: `AccessIeaPreview` resolves each line against the roster,
the preview waits in a session, `Committed` applies its rows in order in one
transaction and refuses the file if one row fails.  The rest of the portal
(`PortalStep`: roster, seats, classes, live results) moves in between.

**Access** is the decision table of `view_modules/common.py`,
`show_day_helpers.py` and `platform.py` as operators over facts about a login.

### People

**FamilyAccess**: canonical persons and relationships, the legacy records
bridged to them, legacy links and grants.  Pages decide by
`CanViewPrivateRider` and `CanViewFamilyAccount`, lists by `PersonalRiders` and
`FamilyRows`.  A login form that is left open is `PersonLoginForm` followed,
later, by `PersonLoginSave`.

**PeopleRoles**: the page of current roles saves role after role (`ManageOne`)
and stops at the first refused row; lifecycle forms, roster forms and the
signal write `lifecycle` and `riderActive`.  **Committees**: an assignment
saves its mirror membership unless its own period clashes.
**AccountSecurity**: sign-in is `PasswordStep` and, with a factor,
`TotpChallenge` or the two steps of a recovery code (`RecoveryCodeRead`,
`RecoveryCodeSave`) in any interleaving with resets, enrolment, disabling and
verification links that expire.

## 4. The runs

| Run | Shows |
|---|---|
| `receivables` | two accounts, two charges with two due dates, two sources, three allocations: sums, backing, conservation, closed accounts, oldest-first order |
| `receivables_alone` | one worker: every request, query by query, is one step of `Receivables` (`Serial`) |
| `receivables_overallocate` | *violation*: two workers break `NoOverAllocation` |
| `inventory` | two workers, two spaces: types, stock = history, refinement of `StockBook`, and every request ends |
| `bank` | two workers, two rows of two statements, two transactions: confirmations are unique and stay, decided rows stay decided, completed statements are resolved; no deadlock |
| `lessons` | two lessons, two riders with accounts of their own, two spaces, one place per lesson: rosters agree and stay when closed, moves fit, billed lessons stay completed, rooms are single, exclusive and follow their lesson |
| `lessons_cancel_race` | *violation*: a cancellation loaded before a completion overwrites it (`CompletedIsFinal`) |
| `show_day` | the nine parts of a show day: `ShowDayInvariant`, `ShowDaySteps`, `RunningNeverReveals`, `ImportsOnlyAdd` |
| `history_numbers` | *violation*: an import gives the results of a new rider to a namesake with another number (`ImportsFollowNumbers`) |
| `barn` | the fifteen parts of the barn: `BarnInvariant`, `StallsAreDisjoint`, `BarnSteps`, `FinalHistoryKeepsRecords` |
| `money` | the twelve parts of the team's money: `MoneyInvariant`, `MoneySteps`, `ClaimsStayWithinTheAward`, `GiftsNeverOverCredit` |
| `people` | the eight parts of people and accounts: `PeopleInvariant`, `PeopleSteps`, `UnlinkEndsAccess`, `SecondFactorAtTheDoor` |

### Parts

The last four runs put several modules side by side.  A run explores its
*parts* one at a time: `part` is chosen initially and says which actions are
taken; what does not move in a part stays at its initial value.  A part holds
every operation that shares state with it, so no interaction is cut: in `money`
each part that posts to the ledger also has `ByHand`, the ledger's own edits and
voids; `hosting` contains the running of the show it closes.  The conjunctions
and what each conjunct says:

`ShowDayInvariant`
: `CurrentClassExists` - spectators are never pointed at a class that is gone.
  `OnePointsRider`, `PointsRidersScore` - a team is paid once per class, for a
  row that can score.  `TracksMatchLevel` - entries fit the level of their show,
  whenever that was changed.  `VocListsAreTheRule` - the sorted, cut and
  extended list is "fewer than the cutoff are ahead, ties included".
  `OneStatusPerRider` - adoption leaves one row.  `ShiftsAreReversible` -
  shifting by minutes and back restores the order of the day.
  `NoticesAreReadable` - whoever has a notice may read its update.
  `CheckpointsAreStamped`, `StarterItemsOnce`, `OpenItemsHaveNoOwner`,
  `RidesHaveTheirShow`.

`ShowDaySteps`
: `ClassesStartInFreeRings`, `ArchivedClassesAreFrozen`,
  `FinishedShowStaysFinished`, `DesignationMovesWhole` (the
  designation moves to another row in one step, or goes with its row), `CheckInIsShown` (what was set is what the
  board shows), `BaselineIsFixed`, `NoticesAreKept`, `DelayReplacesDelay`,
  `ClosedHostShowIsReadOnly`, `ClaimsAreHonoured`, `PlannersKeepToTheirLevel`,
  `EmptiedShowsGo`.

`BarnInvariant`
: `HoofprintsAreNumbered` - versions without gaps or repeats, however two
  finalizations overlap.  `ReadinessIsSound`, `ReadyMeansPapers` - the board
  says ready only if a valid paper of each required type is there.
  `DoneCareIsQuiet`, `OneCreditRecipient`, `SpacesFormATree`,
  `ReservationsAreDisjoint`, `OneOpenShift`, `OneCreditPerRule`.

`BarnSteps`
: `AwardsKeepTheirHorse`, `UnapprovedClassesOnlyLeave` - a horse keeps an award
  and nobody without the right adds an ineligible class.  `TimeNeverHeals` -
  waiting makes no horse ready.  `PinBuysOneEntry`, `LockedMeansOut`,
  `CreditsAreEarned`.

`MoneyInvariant`
: `AllocationsFit`, `OnePostingPerSource`, `BalanceCoversTheBill`,
  `VoidPaymentsHaveNoIncome`, `ClaimLinkFollowsStatus`, `GiftsMatchTheLedger`,
  `BudgetsAreMirrored`, `ExpenseIffPaid`, `NeverOverpaid`, `PaymentsAreBooked`,
  and of billing `ChargedOnce` (no key twice), `DoneMeansBilled` (a run that
  reports success leaves a row for each of its keys, its own or another's),
  `FailedRunsBillNobody`, `BatchesNeverDeadlock` (runs that wait on the unique
  index never wait in a circle, because the monthly rules are taken in one
  order).

`MoneySteps`
: `DuesAreGeneratedOnce`, `FeesAreGeneratedOnce`, `VoidGiftsCreditNoOne`.

`PeopleInvariant`
: `PersonalListMatchesPages`, `FamilyAccountsArePersonal`,
  `NobodyIsTheirOwnParent`, `RoleDatesAreOrdered`, `LifecycleMatchesActive`,
  `MirrorsFollowAssignments`, `RecoveryCodesWorkOnce`.

`PeopleSteps`
: `CoachesNeverTouchStaff`, `NewLoginsDisplaceNoOne`, `ManagedRolesAreChosen`,
  `GraduatesStay`, `VerifiedChangesAreProved`, `TemporaryPasswordsGo`.

Each invariant also has the type invariants of its modules.

### Bounds

*Receivables.*  A charge of 2 and a source of 3 make every kind of remainder:
one source pays a charge and part of another, a second one finds a charge partly
or fully paid, and three allocation rows leave room to unallocate and allocate
again.  Two accounts are enough for money to cross between them.  *Inventory.*
Six history rows are the least that let two opposite transfers, each needing
stock, deadlock; `Limit` 1 makes the column overflow.  *Bank.*  The first row
fits both transactions and the second only one, so rows compete for a
transaction and transactions for a row.  *Lessons.*  Two slots are the least a
move needs; their times can be swapped, made to overlap or to touch, and two
reservation rows let a lesson and a manual booking, or two lessons, compete for
a space.  Rosters and rooms only meet through the status of an occurrence, so
the state constraint `RoomsOrRosters` explores states that have reservation rows
or attendance records, not both.

*Show day.*  Two classes and one named ring besides the main one: two classes
can meet in a ring and part again; one published, one unpublished setting of
each kind.  Two entries of two riders of one team over two season classes and a
warm-up: enough to move a designation within a class and across.  Two
participants, one bridged to a legacy rider, whose status rows can be doubled
and adopted.  Days of four minutes: shifts by -2 and 1 cross midnight in both
directions.  Two updates of a private and a spectator kind.  One host
checkpoint, duty and plan, two hosts of different rights.  One item, because
items only meet in the seeding, which compares titles.  In the history part two
riders that are namesakes or not, files of one or two lines and a template,
two results; the sets `MCFiles`, `MCRosters` and the restriction `FewRides` are
the bound.

*Barn.*  Two rows per table of papers, three dates (before, on, after), so that
a newer paper can be worse.  Three spaces are the least for a cycle that is not
a pair.  Two horses, two or three stalls rows over days 0..2 with open ends; two
bookings with an edit and a cancellation.  Two versions of a Hoofprint, two
finalizing requests; two requests on a history of two horses.  `MaxTries`,
`LockSeconds` and `PinSeconds` stand for 5, 300 and 120: the code compares with
them and nothing else.  Two rules, two accounts and two shifts give every
combination of what a credit is keyed by.

*Money.*  Amounts 0..2 and two rows per table: a bill can be under-, exactly and
overpaid, moved to another row and voided by hand in between.  Percentages 25
and 50 of 1 and 2 cover exact, half and quarter cents of `HalfEven`.  Two shows
of two seasons, one of them hosted.  One review in flight beside the
ledger's own edits: the save uses a row that was read before them.  A second
review of the same request breaks `OnePostingPerSource` (section 7).  Billing: two monthly rules, one month, one rider, one shift and three
runs: a run waits for one while a third waits for it, and a failed one is
repeated.

*People.*  Three persons, two logins, one rider and one contact record: a
person born of each record and one made by hand; three migrated databases.  Two
dated roles over days 0..2.  Three groups, the least for a cycle.  Two users,
three addresses (a swap needs a third), two enrolments of two codes, two browser
sessions.

Model bounds are the constants named `Max...`, `...Ids`, `...Rows`, and are
conjuncts of guards; the bounds that are not the module's but the run's are the
operators of the MC module that restrict a part (`FewRides`, `OneTurnout`,
`Enabled`, ...), each with its comment.  No symmetry is used where liveness is
checked.

**Deadlock** is checked in the reconciliation run.  Elsewhere the bounded
tables fill up, so the configurations turn the check off; in `BillingRuns` runs
that wait for each other are the subject of `BatchesNeverDeadlock`.

**Fairness.**  Only `Inventory` states liveness.  `SF` on a worker's step: a
gunicorn worker keeps executing, and PostgreSQL queues the waiters of a row
lock, so a worker whose lock becomes free again and again gets it.  `WF` on
`DeadlockAbort`: the deadlock detector runs after `deadlock_timeout` on every
waiter.  Nothing is assumed about requests starting or spaces being edited.
The other parts owe nothing in time: what happens there happens when somebody
sends a form.

## 5. The proofs

All theorems are checked by TLAPS from the assumptions stated in the modules
(types and non-emptiness of constants), for any number of workers, accounts,
classes, horses and rows, and any amounts and dates.

* **ReceivablesProofs**: `TypeCorrect`, `NeverOverAllocated`,
  `AllocationsStayBacked`, `BalanceConserved`, `ServesOldestFirst`,
  `ClosedUnwind`, `AloneIsSerial`.  The inductive invariant `IInv`
  is the type invariant, no over-allocation and backing together: an allocation
  is added with at most what both ends have left (so sums must be known not to
  exceed amounts), and a payment is voided only when no posted row names it (so
  backing survives).  Conservation follows because posted rows join accounts
  correctly: each row adds as much to what is allocated of charges as to what
  is applied of sources of the same account; this is the double sum of
  `LedgerSumsTheorems`.
  - `ServesOldestFirst` (`OldestFirst`) is an induction over the queue of open
    charges, which allocating oldest goes through as a recursive function: after n charges all
    that were served with money left over are paid, those not yet reached are as
    they were (`AllocateOldestStep`), and the queue has every open charge in the
    order of dates (`QueueIsComplete`).
  - `ClosedUnwind` (`ClosedAccountsOnlyUnwind`): each operation either is refused
    for a closed account or only takes allocations away.
  - `AloneIsSerial` (`Serial`, from `OneAtATime`: there is one worker): what a lone
    request has read is still so (`AloneInv`; `Knows` says of each query of a
    request what its `job` remembers), so that its one writing query is the
    action of the ledger and the others are stutters.  With two workers `Knows` is
    what breaks, and `NoOverAllocation` with it (section 6).
* **InventoryProofs**: `BookAgrees`, `TypeCorrect`, `RefinesBook`,
  `HistoryExplainsStock`.  The abstract book agrees by induction on steps: each
  movement changes the sum of its space by its effect.  The invariant of
  `Inventory` adds to the types that a worker that holds a lock has loaded
  exactly the committed quantity (`seen[w][x] = stock[x]` while `lock[x] = w`)
  and passed its check on it.  Only with that is `Save` a step of the book.
  `HistoryExplainsStock` is then `BookAgrees` carried over the refinement.
* **MoneyProofs**: all the properties of the `money` run and of the `bank` run.
  For the team's money, `MoneyIsInOrder` (`MoneySpec => []MoneyInvariant`),
  `ClaimsFitTheAward`, `GiftsLeaveChargesCovered` and `NothingIsBilledTwice`
  (`MoneySteps`), for any rows, people, shows, rules and amounts.  `MoneyIsInOrder`
  assumes `OneReview`, which is `MaxReviews = 1` as in the run: two reviews that
  overlap may both pay the request they read, and then an expense is left without
  a request (section 7).  The other three hold with any `MaxReviews`, because
  reviews leave the families' accounts and the contributions alone (`FamilyInv`).
  So does `PaidMeansAnExpense` (`ExpenseIffPaid`), by an invariant of its own:
  the row a review has read, however old, names an expense exactly if it is paid
  (`ReviewsAgree`).  `NothingIsBilledTwice` needs `NoFeesAtFirst`, that
  no part starts with charges for shows, as in the run: `FeeInv` is then that
  only the fees part has any.  The inductive invariant `MoneyInv` has nine conjuncts:
  - `LedgerInv`: allocations have unique ids, name a row of the ledger and fit
    into it.  A table keyed by `LedgerIds` is finite (`RowsFinite`), so the sums
    of `LedgerSumsTheorems` apply.
  - `PaymentInv`, `ClaimInv`, `GiftInv`, `RequestInv`, `PayableInv`: what each part
    has besides its rows in the ledger.  All say `Booked`: a row and the row it
    names in the ledger point at each other, so that no two share one and none
    is posted twice.  What a request does to the ledger is `Moved`: it keeps
    what each row comes from, revives no void row, and writes rows of its own kind only.  With
    these two every part is left in order by the requests of every other
    (`PaymentKept`, ...), and only its own requests are left to be proved.
    Typing, voiding and splitting by hand are `Moved` of no kind.
  - `RequestInv` also says that a review in flight has read its request as it
    still is; this is where `OneReview` is used.
  - `AccountInv`: keys of charges, credits, services and awards.  The balance that
    covers the bill, and that no gift credits a charge below zero, are comparisons
    of sums over parts of a table.
  - `BudgetInv`: the generic budgets are the sums of the show lines.
  - `BillingInv`: a run holds keys it has passed, uncommitted and no other run's,
    and every key it passed is committed or held (`RunInv`).  Batches take
    their keys in the order of `Rank`, and who waits wants a higher key than
    those it holds: going round a circle of waiters the rank would rise for ever
    (`BatchesNeverDeadlock`).

  For the bank, `BankTypeCorrect`, `ConfirmedOnce`, `ConfirmedDecided`,
  `CompletedResolved` and `ConfirmationsAreKept`, without hypotheses.
  `BankIInv` says that at most one confirmation is in progress, what is true of
  the row and transaction of one that passed its checks, and that a request
  about to save COMPLETED counted rows that were all decided and still are.
* **LessonsProofs**: all the properties of the `lessons` run.  The invariant is
  a conjunction of three groups that need not know of each other, with a lemma
  each that every step keeps it: rosters (attendance and assignments are always
  written together), billing (only completed lessons bill, and nothing leaves
  "completed" as long as requests come one after the other), and rooms.  For
  rooms a step either ends rows, adds one to a space that is free, or gives one
  row another time at which its space is free; one lemma for each says that
  this is safe, and the eight operations on reservations are instances.
* **BarnProofs**: `BarnInvariantHolds` (`BarnSpec => []BarnInvariant`) and
  `BarnStepsHold` (`BarnSpec => BarnSteps`), without any condition, for any
  horses, classes, papers, spaces, stalls, workers and shifts; a theorem for
  each of the six properties of `BarnSteps`; `StallsStayDisjoint`,
  `ReservationsStayDisjoint` and `SpacesStayATree` of `FacilitiesSpec` alone.
  The inductive invariant `BarnInv` has one conjunct per module:
  - `ShowInv`: a Hoofprint in the making has at most the version after the last
    one (then the unique key makes versions an enumeration), an awarded horse is
    assigned, a final history has its records, and a request on the history
    saves under the number it loaded.
  - `CareInv`: papers and relationships are finite, so "the latest paper" exists;
    one active relationship per horse has the credit.
  - `FacilitiesInv`: `SpacesFormATree` speaks of the closure of the parents and
    is not a formula a step can be checked against; it follows from `NoCycle`,
    no set of spaces holds the parents of all its members, since the walk up
    from a space on a cycle never leaves such a set.  That `FitsTree` may stop
    after as many levels as there are spaces is a counting argument
    (`Ancestors`).  Stalls: a form or a move checks its row against all others
    of the same stall or horse, and vacating shortens an interval, which keeps
    it apart from what it was apart from; a move does both in one step, the
    second against the row already shortened.  There is no such theorem for
    turnout, because it is not true (section 7).
  - `StationInv`: one open shift per person; who has reached `MaxTries` is
    locked; one credit per rule, account and shift.
* **PeopleProofs**: `PeopleInvariantHolds`, and from it `PeopleHold`
  (`PeopleInvariant`), `UnlinkEnds`, `FactorAtTheDoor`, a theorem for each of the
  six properties of `PeopleSteps` and `PeopleStepsHold`.  The invariant `PeopleInv`
  has three conditional conjuncts, for three behaviours of the code that break
  them (section 7): lifecycles match riders unless stale riders are saved
  (`~StaleRiders`); mirrors follow assignments unless somebody enters a
  membership by hand with the first day of the season as its start
  (`SeasonStart \notin ManualStarts`); a recovery code works once unless two
  requests read the codes at a time (`MaxConsumers = 1`).  `PeopleHold` and what
  it needs of them have these hypotheses; everything else (families, roles,
  second factor, addresses, temporary passwords) is proved without.  `FamilyInv`
  is the types and that nobody is their own parent: what a page opens and what
  the list shows, and what unlinking leaves, then follow from the two definitions
  and from what `GuardianUnlink` writes.  `CommitteesInv` adds that an assignment's
  login has a person of its own, that a login holds each role once, and that
  mirrors begin with the season as nothing entered by hand does, so that no
  mirror is ever refused.  `CodesInv` adds that one request reads the codes at a time,
  that a code belongs to one user and to an enrolment that took place, and that
  a code that was used is neither stored nor held by a request.
* **ShowDayProofs**: `ShowDayInvariantHolds` (`ShowDaySpec => []ShowDayInvariant`),
  a theorem for each of the twelve properties of `ShowDaySteps` and
  `ShowDayStepsHold`, `ShowDayRevealsNothing` (`RunningNeverReveals`),
  `ShowDayImportsOnlyAdd` (`ImportsOnlyAdd`), `VocRule`, and
  the theorems of `LiveShowSpec` alone.  `PartsMove` says that whichever part is
  explored every component takes one of its own steps or stays; the invariant
  `ShowDayInv` has one conjunct per component:
  - the live show: `CurrentClassExists` alone is not inductive, since an unpublished
    pointer may be published later; `PointerHolds` is of the pointer shown or not.  A
    lemma per operation (`RingStep`, `StatusStep`, `PublishStep`) says what it leaves
    of the row it changes; a start is a status update of that class (`WhoStarts`),
    whose guard is the free ring.  Hosting moves the status of the same show but no
    class (`HostingKeepsClasses`).
  - `EntriesInv`: a row that is cleaned as `ShowEntry.clean` does fits beside the rows
    it does not replace (`CleanRowFits`); naming a points rider clears the others of
    class and squad first, and refuses, if it does, after that.
  - `BoardInv`: what a status row calls its rider is the legacy rider of its
    participant, which makes the row a check-in adopts unique; and a notice was sent
    to recipients of its audience.  A shift by less than a day wraps at midnight once
    at most (`WrapsOnce`), so that it can be taken back.
  - `PlanInv`: types and single starter items; that open items have no owner follows.
  - the VOC list: sorting by points, place and rider is a strict order, so the sorted
    list exists and is ranked (`VocIsRanked`); behind the cutoff the code takes rows as
    long as they tie, and the tied rows are a run of the list (`VocTiesRun`); who has
    fewer than `cutoff` riders ahead is a count of a prefix (`VocAheadCount`).
  - `HistInv`: previews are sequences of rows in which a class to be created has a
    squad, and the tables are tables in which rides are placed (`RidesPlaced`).  A
    commit is a recursive function over its rows; `RowCommitted` follows one row
    through its look-ups, and an induction over the prefixes (`AllCommitted`) gives
    commits of any length: tables stay sound and no class row loses its last entry,
    so only moving and deleting a result empties one, and both clean up after it.
  - `ImportsOnlyAdd`: `OnlyAdds` is what one row may do to the tables and holds again
    of two rows after each other (`OnlyAddsChain`), so of a whole commit: a number comes to
    a rider only where nobody has it, the seat a row makes has a class when the
    row ends or the row is refused (`SeatAdds`, `AssignmentAdds`), only history
    shows change and become complete, and a result is written only where none is
    recorded.  A rider's points are then a sum over more rows; that the rows
    are finitely many is an invariant of its own (`ShowDayResultsFinite`).

The assumptions on constants are types, non-emptiness and finiteness where the
code has a table (`SpaceIds`, `ShowHorseSet`, `Sessions`, `LedgerIds`, `RosterIds`, the rules and
riders of billing), and what the initial
data must satisfy: charges a part starts with have ids of their own, spaces are laid out without parents, the shifts that exist
when the station starts have one open shift per person.  Of the show day they say
what other parts of the code see to: a legacy rider is bound to one participant at
most (`legacy_rider` is one-to-one), the catalog gives no show-only class team
points, starter items differ, and a shift is shorter than a day.  TLC evaluates them all.

**Only model-checked:** `RequestsEnd`, which is liveness under fairness and beyond
the prover, and all counterexamples.  Outside the hypotheses named above nothing
is claimed: the rest of `MoneyInvariant` with reviews that overlap and the races
with several workers, which fail there, and the properties of people with the
three behaviours listed there.

## 6. What the counterexamples say

Each `violation` run exhibits a disagreement with a sentence of the repository,
quoted in `PROJECT.json`.

* `receivables_overallocate`: two allocations sum the same posted rows
  (`finance_receivables.py:64`) and together exceed a payment.
* `lessons_cancel_race`: `cancel_lesson_occurrence` saves an occurrence loaded
  before another request completed it.
* `history_numbers`: the preview announces a new rider for a number nobody has,
  the commit looks for the *name* again and records the results on a namesake
  with another number (`history_helpers.py:958`).  One request after the other
  is enough.

## 7. Other disagreements met while modelling

These are modelled as the code has them; no run states them, either because no
sentence of the repository says otherwise, or because the property that would
is covered in a part where it holds.

* *Money.*  `void_payment` (`finance_receivables.py:143`) counts the allocations
  without a lock, so a payment can be void and allocated.  Voiding the
  transaction of a payment by hand leaves the payment posted.  A transaction
  edit saves every field it loaded (`finance_core.py:424`) and can post again
  what was voided meanwhile, although line 396 says such a row cannot be edited;
  `SaveEdit` models the late save.  A reconciled transaction can be voided, its
  confirmed match stays.  A batch that completed can be taken back to Reviewed
  by an ignore judged with the batch that was loaded
  (`finance_v350.py:527`); resolving the last row by confirming it moves no batch
  to Reviewed, although `docs/releases/v3.5.0.md:35` says so.  The allocation of a paid
  reimbursement can be refused after the expense was saved.  Two reviewers
  of one approved request (`show_finance.py:510`) both pay it, each with an
  expense of its own, or a late rejection overwrites the payment and leaves its
  expense behind (`MaxReviews` above 1 reaches both).  The credit of a
  void contribution can be applied again on the credit form
  (`family_finance.py:326`); `VoidGiftsCreditNoOne` is about every other step.
* *Show day.*  The ring change compares with the assignment that is stored, so
  a running class can be moved into a ring that is taken, although the comment
  at `show_class_live.py:74` promises one active class per ring;
  `ClassesStartInFreeRings` is about starting.  A placed class that never had a
  live row is revealed as soon as results are published
  (`publication.py:264`).  Host views reopen a show of an archived season
  (`host_show_views.py:303`).  Two families that claim one item at once both
  succeed, the later save wins.  Recipients of private updates are found
  through legacy riders only.  Stored points do not follow a changed scale.
* *Barn.*  Moving a turnout ends the old row unvalidated
  (`facility_views.py:458`), so primary turnouts can overlap.  Two edits that
  re-parent two spaces below each other at once make a cycle; the check and the
  save are one step here.  A correction that reopens a shift leaves it approved
  (`station.py:240`).  A record loaded before a history was final is saved after
  it.  The newest paper wins even if it expires earlier than an older one.
* *People.*  Clearing or moving the login of a person leaves the legacy rows and
  grants (`people.py:292`).  The page of current roles stops at the first
  refused row with the earlier ones saved.  A roster form loaded before a
  graduation saves the rider active again (`StaleRiders` switches this on).
  That an e-mail address is free is asked when the change is requested, not when
  the link is opened.  A pending second-factor challenge survives a reset of the
  password it was opened with.  Two requests that read the recovery codes before
  either saves accept the same code twice (`MaxConsumers` above 1 reaches it).  A
  membership entered by hand for the first day of the season refuses the mirror
  of an assignment for the same person and role, which stays without or behind
  (`ManualStarts` with the season's start reaches it).  Unlinking a contact leaves the grant of a login that another
  contact links to the same rider.
* *Archive.*  `Rider.iea_member_number` is not unique: two imports at once can
  create a number twice; the check and the insert are one step here.  A row of a
  rider without a seat previews as ready and its commit is refused.

## 8. What is abstracted, and what is not modelled

* Forms, parsing, notes, audit events and messages: a request that is refused
  for such reasons is a request that does not happen.  Authorization is modelled
  where it depends on state (`Access`, `FamilyAccess`, `ShowPlanning`,
  `HostShow`, `ShowFinance`, `HorseCare`).
* Dates and times are small integers, amounts whole numbers: the code adds and
  compares two-digit decimals exactly.  Names are numbers or model values.
* Overlapping requests are modelled where the code has a lock, a constraint or
  a form that stays open: receivables, inventory, bank, lessons, billing runs,
  reviews, post-show history, Hoofprints, login forms, sign-in, previews.
  Elsewhere a request is one step, and section 7 says what that leaves out.
* One financial account in reconciliation: requests on different accounts share
  no row.  Candidates are a fixed relation `Fits`; an edit may take a
  transaction out of it (`changed`) or put it back.  `update_or_create` inside
  candidate generation is one step; the rows a concurrent ignore could miss are
  reached by generating between the ignore's two saves.
* In `LessonsRace` the reads inside a transaction are one step with its writes,
  so two reservations of one space made at the same moment are not reached.
* WAIVED and VOID charges and VOID credits of receivable accounts: no operation
  produces them.

Not modelled:

* *IEA catalog and season setup*: a vendor table is compared with the catalog
  and applied by one administrator; a list of differences without state.
* *Calendar projection and dashboards, statements, exports, record book,
  printing of sheets*: read-only.
* *Course designer, public site, community posts, mail*: single rows; no
  operation of one depends on another.
* *Legacy lessons*: plain rows, converted once in a migration.
* *Installation (`portalctl`, `install.sh`)*: shell scripts around containers
  and `pg_dump`, whose failures are handed to the operator.
* *Grants per finance domain, generic-only budgets, transfers between accounts,
  credits for horse use, awards and development notes of the archive, editing
  of lesson programs and of items and categories*: rows saved by one form, or
  code no view calls.
