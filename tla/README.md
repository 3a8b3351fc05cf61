# The Opportunity Partner Portal in TLA+

This directory models the backend of the partner portal: a FastAPI service on
PostgreSQL (and Redis for sessions) in which partner companies register
opportunities and deals, are given exclusive windows on customers, earn a tier
and commissions, run proofs of concept, take courses, and hand work over when
people leave. The modules are translated from `src/backend/app`;
`PROJECT.json` names, for every definition, the lines it stands for.

Run everything from this directory:

    tlc -workers 2 -config MCOffice.cfg MCOffice.tla
    tlapm LibraryProofs.tla

## 1. The system

Every request runs in a database session of its own (`core/database.get_db`):
it commits if the handler returns and rolls back if it raises. Isolation is
PostgreSQL's default, READ COMMITTED, and almost nothing takes a lock when it
reads: a handler SELECTs a row, decides on what it saw, and its flush UPDATEs,
later, the columns it changed and no others. Commission status changes lock
what they select, reminders do with SKIP LOCKED. Production runs two server
processes (`docker-compose.prod.yml`, `--workers 2`), and each starts its own
daily loops (`main._daily`): licence statuses, review ageing, exclusivity,
renewals, tiers, and a reminder loop every minute. A loop survives the
exception of a pass and sleeps 24 hours, so a day may pass with no sweep or see
several.

| Part | State | Operations that change it | What is hard | What makes it correct |
|---|---|---|---|---|
| Deal registration and exclusivity (`deal_service`, `exclusivity_service`) | `deal_registrations`, `deal_extension_requests` | register, approve, reject, ask for, grant and refuse an extension, daily sweep | guards read and acted on later; a sweep racing a grant; dates moved after people were warned | one life per registration, warned of the real end, lapsed windows closed |
| Customer ownership (`duplicate_service`) | `customer_ownership` | upsert at approval and at a grant, release by the sweep | one row shared by several registrations of a company; its key holds a country that may change | blocks exactly as long as a window lives; one active row per key |
| Duplicate detection (`duplicate_service.find_duplicates`) | none (reads) | refuses or warns | two normalisations of names | refuses what ownership and windows say |
| Commission (`commission_service`) | `commissions` | created by an approval; pending, approved, paid, void | two administrators at once | one row per approved deal, paid once |
| Opportunities (`opportunity_service`) | `opportunities` and their documents, notes, product lines | create, update, submit, claim, release, approve, reject, remove, close, and auto-claim on opening the page | automatic claims, rounds of rejection, concurrent decisions | reasons and outcomes beside the status they belong to; a claim has a holder |
| Review ageing (`review_sla_service`) | `review_claimed_at`, `review_reminded_at`, `review_escalated_at` | release, daily sweep | stamps of an earlier claim; missed passes | stamps belong to this claim; a stuck claim is escalated |
| Partner tier (`tier_service`) | `companies.tier`, `tier_at_risk_since`, history | review after approvals, outcomes and certificates; daily sweep | standing that falls with no event; a grace clock | earned before held; lost only after a grace period, and then really lost |
| POC, stages and team (`poc_service`, `poc_team_service`) | `pocs`, `poc_team_members` | start, stage dates, owners, close, reopen; add, change role, remove | un-starting and starting again; reopening; two tables in step | dates in order, an outcome exactly when closed, owners on the team |
| Licences and renewals (`poc_service`, `renewal_service`) | `customer_licenses` | record, correct, daily notice, raise a renewal | two processes send; a status worked out twice, in Python and in SQL | told once, renewed once at a time, one status |
| Handover and deactivation (`handover_service`, `partner_service`) | `users.status`, handover history | hand over, deactivate, reactivate | six kinds of held work, two rules on the successor | nothing live on an inactive account |
| Companies and resellers (`company_service`) | `companies`, channel managers | create, retype, link, staff, close | checks about other rows, which others edit | two levels, distributors above |
| Accounts (`partner_service`) | `users` | invite, activate, resend, deactivate, reactivate | links, and states nobody meant to combine | who is active has a password |
| Sign-in, sessions, lockout (`auth_service`, `core/security`) | Redis session versions, refresh entries and challenges; `users` | login, refresh, logout, reset and change of password | two stores without a common transaction | a password change ends every older session; a running lock stands |
| Second factor (`mfa_service`) | enrolments, recovery codes | enrol, confirm, verify, disable | codes and challenges used once | once |
| Learning (`lms_service`, `certificate_service`) | courses, enrolments | edit, enrol, progress, quiz, certificate | several tabs; a course edited under a learner | one certificate, on work that was done |
| Document requests, knowledge base, files (`doc_request_service`, `kb_service`, `file_upload`) | `doc_requests`, `kb_documents`, `opp_documents`, `UPLOAD_DIR` | ask, fulfil, decline; upload, revise, delete; attach, detach | a file outside the transaction; cleaning up after a failure | a file that is named is there; versions can be followed back |
| Sales activities (`sales_activity_service`) | entries with a reminder | log, move, delete; sweep | sweeps of two processes, edits in between | reminded once, and of the date shown |
| Lists, exports, dashboards (`dashboard_service`, `export_service`, the list functions, `core/deps`) | none (reads) | | each works out scope and sum on its own | they agree |
| Legal documents, currencies, notifications and mail, audit, AI, bulk import, search, frontend, seeds, deployment | see section 5 | | | |

They interact by calls inside one transaction (an approval writes ownership and
a commission; an opportunity's outcome reviews the tier; a certificate reviews
it in a savepoint; a renewal creates an opportunity and a registration), and
otherwise through shared rows that somebody else's request or a sweep has
changed since.

## 2. The modules

| Module | Models | Composed with |
|---|---|---|
| `DealTables` | rows of registrations, requests and ownership, and what each service does to them, as pure operators | extended by the next two |
| `Exclusivity` | `deal_service` and `exclusivity_service`, one request or sweep at a time, over a calendar | implements `WindowLifecycle` |
| `WindowLifecycle` | the abstract life of a registration as a partner is promised it | |
| `DealTxn` | the same handlers cut at their SELECTs, UPDATEs and COMMIT | implements `Exclusivity` when serial |
| `CommissionTxn` | `update_commission_status` with SELECT FOR UPDATE | implements `CommissionLedger` |
| `CommissionLedger` | the abstract ledger: atomic steps, paid at most once | |
| `TierRules` | the tier table and `review_company` as operators | extended by `Pipeline` |
| `Pipeline` | opportunities, claims and their ageing, tiers, training, daily sweeps, one request at a time | |
| `ReviewTxn` | one opportunity in review under crossing requests and passes | takes the steps of `Pipeline` apart |
| `Delivery` | who holds which work, handovers, accounts | |
| `SignIn` | one account: password, sessions in Redis, lock, links, second factor | |
| `Rows` | NULL, and the UPDATE of changed columns only (`Overlay`) | extended by the modules below |
| `Network` | companies, their hierarchy and staff under two sessions; the pipeline as routes see it | |
| `Screens` | what each list, page, export and figure is made of, as operators on the state of `Network` | extends `Network` |
| `PocTxn` | one POC, its stages and team, under crossing requests | takes the steps of `Delivery` apart |
| `Learning` | a course, enrolments, tabs, certificates | details the training of `Pipeline` |
| `Library` | uploads and the rows that name them | |
| `Licences` | dates, derived statuses, notices of two processes, renewals | details the renewals of `Delivery` |
| `Reminders` | the activity log and its reminder sweep | |
| `ExclusivityProofs`, `PipelineProofs`, `DeliveryProofs`, `SignInProofs` | theorems and proofs about the module they name | extend it |
| `DealTxnProofs` | proofs about `DealTxn`, and the properties of `MCDealTxn` | extends `MCDealTxn` |
| `PromisesProofs` | proofs about `CommissionTxn`, `Licences`, `Reminders`, and of `MCPromises` as a whole | extends `MCPromises`, `ExclusivityProofs` |
| `RecordsProofs` | proofs about `Learning` and `Library` | extends both |
| `OfficeProofs` | proofs about `Network`, `Screens`, `ReviewTxn`, `PocTxn`, and of `MCOffice` as a whole | extends `MCOffice`, `RecordsProofs` |
| `MC...` (7) | values for TLC and the composition of modules in a run | |

Operators called `Mutant...` are no part of a model: each is a plausible
mistake in the definition after it (a dropped guard, a missing reset, a stale
value) and is there to show that some property notices it.

### How a request is modelled

* One at a time (`Exclusivity`, `Pipeline`, `Delivery`): an action is a whole
  handler. These modules carry the rules of the business.
* Crossing (`ReviewTxn`, `PocTxn`, `Network`, `Learning`, `Library`,
  `Licences`, `Reminders`): an action *begins* a request, which reads the rows
  and passes its checks on them, and another *commits* it, which writes
  `Overlay(now, seen, new)`: the columns that changed between what it read and
  what it made of it, over whatever the row holds by now. That is SQLAlchemy's
  flush at READ COMMITTED. An attribute set to the value it had is not written,
  which matters (section 3).
* Statement by statement (`DealTxn`, `CommissionTxn`, `SignIn`): where row
  locks, a unique index or a second store decide the outcome.

None of the requests of the second kind locks anything, so two that cross can
break nearly every rule: the second writes although what it checked is gone. A
history variable (`undercut`, `torn`, `overlapped`, `raced`, `clobbered`,
`crossed`, `mixed`) records that this happened, as narrowly as the code allows,
and the properties then say what survives everything else: requests that cross
without writing over what the other checked, failures between two steps,
sweeps, days, and every order of the requests. What is lost in the excused
cases is listed in section 3.

### DealTables, Exclusivity, WindowLifecycle

State and code: `deals`, `requests` and `own` are the three tables (of `own`
only the active rows, because nothing reads the others), `earned` is the set of
deals with a commission, `country` and `programme` the two columns of
`companies` that the services read, `today` is `date.today()`. Two histories
are kept in the deal row: the days the approval granted (its audit row has
them) and the end date the last warning quoted.

Actions are handlers: `CreateDeal` with the conflict check, `RenewLicence`
without it (a renewal registers for the incumbent), `ApproveDeal` with the
ownership upsert and the commission, `RejectDeal`, `RequestExtension`,
`GrantExtension`, `RefuseExtension`, one pass of `SweepExclusivity` over all
registrations, and changes of a company's country or type. A customer name is a
value that stands for the spellings the weak normalisation makes equal, and
`Norm` maps it to what the strict one makes of it, which may be blank.

### DealTxn

The same operators, now with a schedule. A session reads (all its guards are
evaluated on what is committed), writes (its UPDATEs lock rows, then it reads
the ownership rows or the commission), and commits or rolls back.
`ExtendedOver`, `SweptOver` and `RowUpdated` write only changed columns. The
partial unique index refuses a second open request. Days pass only when no
transaction is open. With one session alone the module implements `Exclusivity`
(`SerialIsExclusivity`), so what `DealTxn` adds is interleaving and nothing
else. Locks of one transaction are taken together, so the module says nothing
of deadlocks: PostgreSQL ends one by aborting a side, and every transaction may
roll back at any moment here.

### CommissionTxn, CommissionLedger

A row, a lock, and sessions that select for update, then commit a valid
transition or refuse. `Ledger == INSTANCE CommissionLedger` is the refinement.

### TierRules, Pipeline, ReviewTxn

Timestamps are kept as ages in whole days, because the code only compares ages;
they stop at `MaxAge`, which lies beyond every threshold. `Reviewed` is
`review_company`: promote at once, settle, start the clock, wait, or demote.
`best` is a history of the best tier a company ever qualified for. A duplicate
that blocks a submission is a submission that does not happen. A review after a
certificate may be lost (its exception is swallowed), so `CompleteCourse` has
both outcomes. `ChangeEnrolment` stands for everything that moves the
completion rate without a review: enrolments, deactivated staff, deleted
courses.

`ReviewTxn` takes one opportunity apart. Its row has the status, the reviewer,
the three stamps of the ageing trail, and whether a rejection reason, a loss
reason, an outcome and `deleted_at` are set. A stamp is the number of the claim
it belongs to, because each claim has a time of its own and ages no longer
matter: a claim may be due for a stage whenever a pass looks. An edit by the
submitter writes none of these columns and is left out.

### Delivery

Accounts have a role, partners a company. An opportunity has a submitter, an
assigned rep, a company and, if it is a renewal, the original; a POC has a set
of live seats and an owner per stage. "draft" stands for draft and rejected,
"submitted" for pending and under review, since no action here tells them
apart; of the POC's final statuses only that it is closed matters. `reopened` is
a history. `CloseCompany` deletes the company's accounts with it, and only if
none of them holds work. Left out: companies held as channel manager (one more
kind of held work, with its own rule that the successor is an administrator),
dates, roles on a team, accounts that are locked or pending activation, and
refusals for reasons outside the module (terms not accepted, a duplicate),
which are requests that do not happen.

### SignIn

One account: accounts share nothing. Its row in `users` (status, password,
failed attempts, minutes of a lock), its second factor and recovery codes, and
what Redis keeps (refresh entries, the session version, open challenges). A
password is a number, fresh with each change, and a cookie or a token is the
password its session began with. A step of a handler ends where another request
can come between two of its accesses to shared data; what the row lock keeps
together is one step. Redis is written at once and not rolled back. A
refresh is three steps: its cookie is found, the account is read, and a token is
minted with the session version as it is by then. So a refresh that crosses a
change of password may mint, after the bump, an access token that is good until
it expires (15 minutes); `ChangeStrandsSessions` is about refresh cookies and
does not exclude it. `Traffics`
says which kinds of request occur together.

### Network, Screens

`Network` keeps the company rows with their type, parent and channel managers
(`firm`), the edit that each clerk has checked and not yet flushed, and the
pipeline as routes see it: of each opportunity its status, submitter, company
and rep, its POC's team, whether it has a licence. `Screens` has no state: an
operator per route gives the set of rows it is made of, for a viewer, each
translated from its own file, because the code works them out separately. A
count or a sum is a function of that set. The month windows of the dashboard's
series are left out with all dates (`MonthlyData` is the rows of every month),
and so is `list_extension_requests`: it joins extension requests to
registrations, and `Network` has neither.

### PocTxn

`Derived` is `derive_status`, applied where the code applies it. `StartPocAgain`
is `start_poc`, also of a POC that was un-started by clearing its VM stage.
`restarted` is the one history besides `torn`: a POC with other stages dated was
given a later start.

### Learning

A tab reads the enrolment and the course, works out the new row (`Ticked`,
`Sat`, `Advanced`) and commits. `EditCourse` changes the modules, the quiz and
the pass mark, or withdraws the course. `basis` remembers the course an
enrolment was completed on, `issued` counts certificates.

### Library

An upload is on disk before its transaction commits: `Begin...` stores it under
a new name, `Commit...` writes the rows. `Refuse` is a check or an exception
that fails later, upon which the handler deletes the file (`Unlinked`; the route
of an attachment does not). `DropUpload` is a process that dies, which leaves it.
A revision archives a snapshot of the document as it was when the request read
it. A file shared by a fulfilled request and the knowledge base has one name in
both.

### Licences, Reminders

`Licences` has a calendar, the licence rows, the derived status twice (as Python
and as SQL have it), the upsert and the renewal that each request has in hand,
the pass of each process, and how often people were told. A pass may fail and
is rolled back. `Reminders` has the entries, an edit in hand, and for each
server process the batch of due rows it has locked; `Sweep` takes rows that no
other process has (SKIP LOCKED), up to `BatchSize`.

## 3. The runs

| Run | Instance | Shows |
|---|---|---|
| `exclusivity` | 2 companies, 2 countries, 2 names (one blank under the strict normalisation), 2 deals, 1 request, 4 days, windows of 1 or 2 days | ownership and windows agree in both directions, warnings are current, commissions and decisions follow approvals |
| `promises` | desks: *windows* (1 company, 2 deals, 2 requests, 4 days), *commissions* (1 row, 3 sessions), *licences* (1 licence, 2 clerks, 2 processes, 2 days), *reminders* (2 entries, 1 editor, 2 processes, 3 hours) | `Exclusivity` implements `WindowLifecycle` and closes lapsed windows; `CommissionTxn` implements the ledger and gives locks back; notices and reminders go out, once |
| `txn` | crowds: two users and a sweep on 1 deal with 2 requests; one user and two sweeps on 2 deals; one transaction at a time for 2 companies | the index and the approval's lock keep out what the reads let through; what one user can rely on while both processes sweep; `DealTxn` implements `Exclusivity` |
| `pipeline` | 2 opportunities, 1 company, gold at one and platinum at two accepted and trained, grace 2 days, reminder at 1, escalation at 2 | claims are timed, tiers earned, wins free; stuck claims are escalated, short companies demoted, earned tiers given |
| `delivery` | 2 colleagues, 1 partner elsewhere, a rep, an administrator, 1 opportunity with its POC of one stage and its renewal, 1 registration | stage owners are on the team, pipelines stay with companies, a handover is complete, what a deactivated account can hold |
| `signin` | 2 requests at a time, 2 passwords, 2 sessions, 3 authenticator windows, 2 challenges, 1 recovery code, 6 traffics | a change of password strands every other session; codes and challenges are used once; a running lock stands |
| `office` | desks: *companies* (3 companies, 2 clerks), *screens* (an established network of 3, a manager, a rep, 1 opportunity), *reviews* (2 requests and a pass, 2 claims), *pocs* (2 clerks, 1 person, 2 stages, 2 dates), *courses* (1 learner, 2 tabs, scores to 2, with a quiz), *documents* (3 files, 3 documents, 1 request, 2 uploads, 1 attachment allowed) | the hierarchy stays two levels deep; routes and figures agree; reviews, POCs, completions, files and histories stand |
| `two_holders` (violated) | 2 companies, 2 deals | both approved: two holders of one customer |
| `late_grant` (violated) | same | an expired registration whose ownership is revived |
| `decided_twice` (violated) | 2 administrators | one extension request decided twice |
| `dead_login` (violated) | as `delivery` | live work assigned to an account that is switched off |
| `no_password` (violated) | traffic of links and administrators | an active account with a password nobody knows |

**Desks.** `promises` and `office` put several parts in one run. The parts of
such a run share no variable, so a property about one does not depend on the
steps of the others. A behaviour chooses one part, its *desk*, in the initial
state and takes steps of that part only; every part is explored completely and
no product of parts is. A liveness property of a part is checked under that
part's fairness, and holds where its desk is not chosen because nothing there
begins. **Crowds** (`txn`) and **traffics** (`signin`) choose in the same way
who is about: every pair of concurrent parties is covered, and not all parties
at once.

**Bounds.** Two companies are needed for a conflict, and a third would play the
part of the second; three for the hierarchy, where a company can have one above
and one below. Two registrations of one company make an ownership row be
shared. With windows of one and two days and four days, a window is approved,
warned of, extended, lapses, is swept and is followed by another. Two requests
cross in every way two can; `reviews` adds a pass of the sweep and `txn` a sweep
or two. In `pipeline` two opportunities reach all three tiers and each threshold
is crossed. In `delivery` the partners are the leaver, a colleague who may
receive and a stranger who may not; `Typed`, `Staffed` and `Followed` bound
which rows take part and are explained where they are declared. Three files are
a document, its successor and an upload that fails. One attachment stands for
the limit of five: what matters is being at it. One editor of reminders and one
reviewer keep the runs within minutes; claims are told apart by their number,
and the theorem `RemindersGoOutOnce` covers any number of editors. `MaxDay`,
`MaxRow`, `MaxAge`, `MaxClaim`, `Rate`, `LastDay`, `LastHour`, `MaxAborts`,
`MaxFailures`, `MaxPassword`, `MaxSession`, `MaxWindow` and `MaxFails` are the
remaining bounds.

The desks of `office` do not explore past a step that a property excuses: there
it holds whatever follows. `Relink` moves companies while the opportunity does
not move, since the screens are compared state by state.

Symmetry is used only in runs without liveness properties. Deadlock is checked
where some request or sweep can always run. In `promises` and `office` a desk
runs out of calendar, claims or files; in `signin` out of windows and
passwords; in `decided_twice` there is no sweeper; in `delivery`, `dead_login`
and `no_password` all work may be finished. There the model really may stop.

### What is violated, and what that means

* **Two holders.** `models/deal_extension.py` promises that while a window is
  open no other partner can register the customer. The check is made when a
  registration is created, against live windows, and never again: two pending
  registrations are both approved.
* **A late grant.** `decide_extension` does not look at the deal's status. A
  request made in time and granted after the sweep leaves a registration that
  reads expired, people who were told that others may register the customer,
  and an ownership row that blocks them.
* **Decided twice.** "This request was already ..." is checked on a row read
  without a lock.
* **A dead login.** Deactivation is refused while an account holds work,
  "otherwise it stays assigned to a login nobody can use"; assigning a rep does
  not ask whether the rep's account is active. `InactiveHoldsNothingFresh` is
  the part that does hold: apart from an assignment as rep, what an inactive
  account holds is a renewal it was copied onto or a seat on a reopened POC.
* **No password.** An invitation may be deactivated before it is accepted, and
  reactivation refuses only accounts that are still pending.

### Known disagreements that have no run

Reached by the models and excused in a property, each where it is named:

* `HierarchyStands`: two edits of companies that overlap can make each the
  parent of the other, or leave a reseller under a company that is none.
* `ReviewStands`: two outcomes recorded at once leave a won opportunity with a
  loss reason, because a win writes NULL over a NULL it read, that is, nothing.
  An approval by the administrator whose claim is released meanwhile leaves an
  approved row without `reviewed_by`, for the same reason. A release that
  crosses a decision takes the decision back. A pass of the sweep that read an
  old claim stamps the next one, whose holder is then never reminded.
* `PocStands`: a POC started again after its VM stage was cleared may have
  stages dated before its start (`start_poc` does not validate them). Setting a
  stage's owner while the member is removed leaves an owner who is not on the
  team (next item).
* `OwnerIsOnTeam` is about requests that do not cross, and two comments of the
  repository differ on it. `handover_service.py:293-295`, in `_move_poc_work`:
  "a stage owner is not always a team member any more (a member can be removed
  while the column still names them), and the tracker resolves owners against
  the live roster." `poc_service.py:126-128`, in `_stage_states`: "Team removal
  clears the stages that person owned (poc_team_service.remove_member), so this
  only bites on a hand-edited row". For requests one at a time the first is out
  of date: `remove_member` clears the owner columns
  (`poc_team_service.py:325-330`), an owner must have a live seat
  (`poc_service.py:585-601`), and a handover moves both tables, so the property
  holds and is proved. For requests that cross the first is right and the second
  is not: an owner set by a request that saw the member, committed after the
  removal read which stages to clear, stays in the column. `PocTxn` reaches that
  state, and `PocStands` excuses it as `torn`.
* `CompletionStands`: a tab that failed the quiz writes "in_progress" over a
  completion it did not see; the certificate remains.
* `HistoryKept`: two revisions of one document at once both archive the first
  version and one new file is lost to the history; a request can be fulfilled
  and declined; two uploads can both be the last one allowed. The handler of a
  fulfilment decides on the row it loaded before the upload.
* `NamedFilesExist` says nothing of the converse: an attachment that is refused
  leaves its file on disk, named by nothing.
* `LicencesStand`: passes of the two processes that overlap both notify, though
  the sweep means each once; two requests raise two renewals of one licence.
  `renewal_notified_at` is never cleared, so a licence whose expiry is corrected
  to a later year is not announced again.
* `RemindedOnce`: an edit that read its entry before the sweep stamped it moves
  the reminder and leaves `reminder_sent_at` set: the moved one never goes out.
* `RunningLockStands`, `UsedOnce`: failed attempts counted by two requests at
  once count as one; two sign-ins with one code at once both succeed.
* `RoutesAgree` (checked as `RoutesCompared`, on the desk that has screens): a
  channel manager may work on the POC of a direct deal and has it in no list;
  statements of a closed company are listed for the superadmin and cannot be
  opened; the POC of a removed opportunity can be reached by its own id.
  `FiguresAgree` (`FiguresCompared`): a closed company's opportunities are in
  the headline and in no region.
* `OneUserSafe`: with two users, a rejection that crosses an approval leaves the
  commission on a rejected registration, and two approvals insert two ownership
  rows, after which every grant fails.

Read and not modelled: a claim is escalated before its holder was reminded when
passes were missed; a rep who is both submitter and rep cannot be handed over
whole (one kind of work demands a partner, the other a rep); a customer
company's user can raise a renewal although the docstring sets "the same bar as
registering a deal"; `set_stage` can move the start past the target date; the
scorecard's rank counts closed and reclassified companies; bulk import of
opportunities has no savepoint per row, shares placeholder addresses between
companies and matches deleted companies.

### Fairness

`_daily` runs each sweep at startup and every 24 hours, and its `except` clause
lets no pass end the loop: weak fairness of each sweep, in each server process
(`SweepExclusivity`, `NoticesOf`, `SweepOf`, the sweeps of `Pipeline`, which
adds that days pass). A pass may fail, `MaxFailures` or `MaxAborts` times. No
fairness is assumed of any person. In `CommissionTxn` a session that has begun
ends, with a commit or a refusal, because `get_db` uses the session as a context
manager. `StuckIsEscalated` allows the claim to be given up instead,
`LapsedIsClosed` a late grant, `SentInTime` that what was due is moved, removed
or renewed first: people may always do the sweep's work for it.

## 4. The proofs

All proofs are checked by TLAPS for every value of the constants. Every
invariant and every action property that a passing run checks is stated by a
theorem; what is left to TLC alone is listed at the end of this section.

The assumptions are declared with the constants (`...Assumption` in each
module), and TLC evaluates each of them in some run: NULL is no value of a
column; a table of rules has its type; thresholds lie below the age at which a
model stops counting; bounds are numbers; `Opportunity` is finite because the
tier counts them, and `Sweeper` because notices are counted by process
(`ServerAssumption`); a member of staff has one role and is no company
(`PeopleAssumption`); the people and clerks that a composition names are members
of its sets, and its network is of three companies (`OfficeAssumption`,
`CrowdAssumption`).

* **ExclusivityProofs.** `IInv` is the conjunction of the invariants of run
  `exclusivity` with their parts, and the conjunction is what is inductive: that
  a live window is owned after a release needs `OwnershipBacked` (a row ends no
  later than its source, so the row of a lapsed deal covers no live one); that
  an approval leaves one row per key needs `OneRowPerKey` of the rows before;
  that a grant moves a window of a known deal needs `DecisionsInOrder`. First
  come four lemmas on `Upsert`, then one lemma per kind of step, then
  `Inductive` and the theorems that read off its parts.
  `WindowsLiveAsPromised` is the refinement `KeepsPromise` without its fairness:
  every handler is a step of `WindowLifecycle` or a stutter.
* **DealTxnProofs**, in four parts.
  *Any crowd.* `IInv` adds to the types what an open transaction is about
  (`Arguments`, `Inserting`), what stays so although it was read long ago
  (`Windows`, `Snapshots`: the start of a window is written once), which rows
  are locked (`LocksExclude`) and who is still to tell of a lapse
  (`ToldByEachOnce`, a count of sessions). `NoDuplicateCommission` then follows
  from the lock an approval holds, `OneOpenRequest` from the index.
  *One user beside the sweeps* (`OnlyServes(h)`). `UInv` says that what the
  user's transaction read is so when it commits (`StillAsRead`: a sweep only
  closes windows that are over) and that no ownership row has come since it
  found none (`NoneToUpdate`; a sweep takes rows away, which is no harm).
  `Accounts` is the sum of the grants, for which the module first proves what
  the library does not have: that `MapThenSumSet` over a finite set adds what
  is added. Those lemmas (`SumsExist`, `SumsAgree`, `SumsSplit`) argue by the
  least size at which they could fail, since an induction theorem that takes a
  predicate cannot be instantiated.
  *Alone* (`OnlyOpens`). `SInv` says that a lone transaction has read what is
  so, down to the ownership rows it will update (`AsRead`, `AsWritten`), and
  that the tables with ids and the sets of `Exclusivity` agree (`Unused`,
  `UpsertIsUpsert`). Each commit is then one handler of `Exclusivity`.
  *The crowds of the run.* `OneUserIsSafe` and `AloneIsSerial` conclude
  `OneUserSafe` and `SerialIsExclusivity` as the run checks them.
* **PipelineProofs.** `Inv` is types, `ClaimIsTimed`, `TierWithinBest` and
  `ClockIsForThisTier`. Nothing is added, but the parts need one another: that
  a demotion gives an earned tier needs that the tier held before was.
  `WinsCostNothing` is an action property: only `CloseOpportunity` makes a win,
  and both statuses count as accepted, so the set that is counted stays.
* **DeliveryProofs.** `OwnerIsOnTeam` and `PipelineStaysInCompany` are inductive
  with the types. `InactiveHoldsNothingFresh` is not: a POC row that does not
  exist must have nobody on it, or starting it would seat them
  (`UnstartedIsEmpty`). `OneHandoverIsEnough` needs no invariant but types:
  `CanReceive` forbids handing work to oneself, and each moved row then names
  the successor. The types are proved and no longer model-checked.
* **SignInProofs.** `IInv` says of each request under way what its step has
  (`Requests`), that one request at a time has flushed and holds the row
  (`RowLock`), that a challenge completes a login when it is spent and never
  again (`ChallengesCounted`), and that while no two requests with a code
  overlap the code that was matched is still good (`OneCodeAtATime`). `PasswordStrandsSessions` and
  `LocksStand` are action properties from it.
* **PromisesProofs.** `CInv` adds `OnARow` (a session that is not idle works
  on a row that exists) to `DecidesOnCurrent` (what a session read is what the
  row holds, which the lock is for) and `PaidOnce`. From it
  `CommissionsAreALedger` shows the refinement: every commit is a step of the
  ledger and everything else a stutter.
  `LicInv` has, of requests that did not cross, that upserts, passes and
  renewals under way are apart from one another (`UpsertsApart`, `PassesApart`,
  `RenewalsApart`), from which one notice and one renewal follow; that the
  status in Python and the status in SQL agree is a lemma on the dates
  (`StatusesAgree`).
  `RInv` has `BatchesStand` (what a pass has locked is due, unsent and in one
  batch only), `ToldOnce`, which counts notices against the stamp, and
  `EditStands`: an edit has the row as it is. The first needs no excuse; the
  others hold until an entry is written under an edit.
  `PromisesAreTheirParts` says that a step of the composition is one of a
  part's and leaves the other parts alone.
* **RecordsProofs.** `LInv`: `Earned` ties an enrolment to the certificate and
  to the course it was granted on, `Progress` says of every request under way
  that it takes nothing back and completes only what meets the course it read.
  `BInv`: that a named file exists is not inductive, since a failing request
  deletes its file by name, so nobody else may have it, neither a row nor what
  another request read and is about to archive (`KeptFiles`, `HeldFiles`).
  `FilesAreThere` has no excuse: it holds whatever crosses. `HInv` adds, while
  nothing crosses, that versions form chains that do not share a predecessor
  (`Chained`, `Unshared`), that an answer was given once (`OneAnswer`) and that
  attachments are within the limit (`FewAttached`).
* **OfficeProofs.** `NInv`: the tree stays two levels deep while edits do not
  overlap. `EditIsChecked` says that what the one edit under way checked
  (`Fits`) still holds when it flushes, and `OneEditor` that it is alone.
  `RoutesAlwaysAgree` and `FiguresAlwaysAgree` need the types only, which is the
  point: the routes agree because of how they are written and not because of
  the rows they happen to meet. The argument goes by kind of viewer
  (superadmin, manager, rep, partner), with one lemma on what each may see.
  `RvInv`: a review is `Sound` and so is what each turn has read, until one
  undercuts another; a turn writes `Meant` columns only. `PcInv`: the same for a
  POC (`Coherent`, `SeatsOwn`), with what each kind of request means to write
  (`MeantStart`, ..., `MeantLeave`).
  `OfficeInv` is the conjunction with `LInv` and `HInv`, inductive because each
  desk leaves the variables of the others alone (`StepsOfTheDesks`).

Model-checked only: the liveness properties `LapsedIsClosed`, `LockReleased`,
`SentInTime`, `StuckIsEscalated`, `ShortIsDemoted`, `EarnedIsPromoted`, and of
`KeepsPromise` that the abstract window's fairness is kept: fairness is stated
with ENABLED, which is beyond the prover. The five runs that expect a violation
are counterexamples and have nothing to prove.

## 5. Not modelled

`PROJECT.json` lists every part with the reason. In short: legal documents (a
user who has not accepted is a user who does not act), currencies and commission
amounts (arithmetic on decimals), notifications, mail and audit (rows in the
caller's transaction; what they say is kept where a property is about it, and a
notice counts when its transaction commits), AI (advisory text), bulk import (a
loop over modelled operations), seeds and migrations (before the program serves
anybody), frontend and deployment. `find_duplicates` is a query over five
similarity layers that may refuse a submission; the models let any submission
be refused, and keep the two normalisations. Of dashboards and exports the
models have which rows, not dates, sums or layout. A crash of a server process
is a rollback of its open transactions, plus, in `Library`, a file nobody
removes and, in `SignIn`, what Redis was told already.

## 6. Plan

Done: the deal lifecycle and its transactions; commissions; the pipeline with
reviews, ageing and tiers, one at a time and crossing; POCs; licences;
handovers; companies, access and what screens show; sign-in and the second
factor; learning; documents and files; reminders. Next, in this order:

1. Proofs: that a request of `ReviewTxn` or `PocTxn` that nothing crosses is a
   step of `Pipeline` or `Delivery`, as `AloneIsSerial` has it of deals; what
   the excused crossings still leave intact.
2. `find_duplicates` and `multi_partner_alert`, joined with `DealTables` and
   opportunities.
3. Companies held as channel manager in `Delivery`; roles on a POC team.
4. Legal documents, and bulk import over the create operations.
