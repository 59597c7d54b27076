# Vendor Catalog: TLA+ models, checks and proofs

Specifications of the Vendor Catalog (`src/app/vendor_catalog_app`): threads at the connection
pool, reads that fill caches while writes clear them, admin operations and edits whose statements
commit one by one, sessions that travel in cookies, approvals, imports that wait in memory, and
the handlers that enter, edit and map everything in the catalogue.

- `PROJECT.json` lists the components, the runs, the source lines behind every definition
  (`map`), the bugs each property catches (`mutants`), the hazards and the theorems.
- Sections: 1 the system, 2 its components, 3 the modules and the code, 4 the runs, 5 what the
  runs showed about the code, 6 the proofs, 7 what is not modelled, 8 what could come next.

## 1. The system

The Vendor Catalog is a FastAPI application with server-rendered pages over Databricks SQL, or
over SQLite for local work. One uvicorn process serves it. Four facts about how it runs decide
what can go wrong, and every module is built on them:

1. **Two kinds of handler.** Handlers of GET are plain `def` functions and run concurrently in
   the thread pool. Handlers of POST are `async def` functions that call the database
   synchronously: they run on the event loop, one at a time, and yield only where they await the
   form. Between any two statements of a POST handler the threads of GET handlers run, and GET
   handlers write as well (the user directory, the usage log).
2. **Every statement commits alone.** `DatabricksSQLClient.execute` opens, runs and commits one
   statement; there is no transaction around an operation. A statement may fail, or take effect
   and be reported as failed (`db.py:640-700`), and an exception ends the operation where it is.
3. **Reads go through caches.** The query cache of the client lies under the repository cache,
   whose keys load through each other. `execute` clears the first, `_execute_file` then clears
   the second. A read that fails is turned into an empty frame (`_query_or_empty`,
   `frame_utils.py:36`), which the repository cache keeps like an answer.
4. **The session is a signed cookie.** It holds a snapshot of the user's roles and the version of
   the terms the user agreed to. Of two responses to one browser the one that arrives last
   decides what the cookie holds.

| Interaction | Through | Modelled in |
|---|---|---|
| handler -> client | a connection from the pool, for one statement | `DbPool` |
| handler -> repository -> client | query cache, repository cache, statements | `CacheLayers` |
| user -> handler | decorator, locked mode, `can_edit`, approval level | `Rights`, `Handlers` |
| admin operation -> other requests | policy version row, session cookie | `SecurityPolicy` |
| admin operation -> grants and audit | two to four statements | `RoleGrants` |
| user -> approver -> grants | request row, workflow events, role grant | `ChangeRequests` |
| handler -> catalogue, history and audit | statements, any prefix of them | `Contracts`, `Offerings`, `VendorHistory`, `Projects`, `Demos` |
| file -> preview -> catalogue | staging tables, a store in memory, one row at a time | `Imports` |
| page -> directory -> owners | check, then insert; a loop of hand-overs | `UserDirectory` |
| administrator -> options of the forms | close and insert, row by row | `LookupOptions` |
| requests -> approver | level, scope, lines of business, read anew by queue, page and decision | `Approvals` |
| user -> own settings | one row read, changed, deleted, inserted | `UserSettings`, `Access` |
| client -> middleware | samples per address, a bounded table | `RateLimiter` |

The modules meet at the promises they make each other. `DbPool` implements `BoundedPool`, which
is all a caller knows of the pool: a statement runs alone on its connection, or fails. This is
what lets every other module treat a statement as one atomic step that may fail. `CacheLayers`
shows how long a cached answer may be old; `SecurityPolicy` takes that as its constants
`RoleBudget` and `VersionBudget`, `ChangeRequests` as the set `Seen` of rows a check may read,
`Access` as `StoredAcceptance`. `RoleGrants` shows that a user has one direct role;
`ChangeRequests` relies on that where it keeps `role[u]` as one value. `Rights` and `Handlers`
are the gate all modules of the catalogue share.

## 2. The components

For each: the state it keeps, its operations, what is hard, what makes it correct.

**Connection pool** (`infrastructure/db.py`). Idle list, counter of open connections, closed
flag, one condition variable. Acquire (reuse, create, wait, time out), return, discard, expire,
close. Hard: the lock is released to connect and to close; one `notify()` per release; `close()`
under threads that use connections. Correct when the counter equals what exists, a connection has
one holder, a sleeping thread is never forgotten, an acquire always returns, and a closed client
ends with no connection open.

**Query and execute** (`infrastructure/db.py`, `common/core/sql_io.py`). One statement at a time, a
policy on verbs (production allows INSERT and UPDATE only), clearing of the caches
after a reported success. Correct when a write that is reported is visible.

**Caches** (`infrastructure/cache.py`, `common/core/cache_runtime.py`). `LruTtlCache`: entries
with an expiry, a size limit, `get_or_load` without a lock around the load. Hard: a load that
straddles a write stores what it read afterwards; layers add their TTLs. Correct when staleness
is bounded and an unraced write is visible at once.

**Security policy and sessions** (`core/security.py`, `web/core/user_context_service.py`,
`domains/admin/policy.py`). Policy version (a row of `app_user_settings`), role data, snapshots.
Resolve a user, bump the version. Hard: the version is computed from a cached read, and stored by
DELETE and INSERT. Correct when no request acts for long on a role that was taken away.

**Role and scope grants** (`domains/admin/grants.py`). Rows with an active flag, audit records.
Grant, change, revoke for users, groups and scopes. Correct when a user has at most one active
direct role and the audit trail tells the grants.

**Change requests and approvals** (`web/routers/system/access_requests.py`,
`web/routers/pending_approvals/decisions.py`, `domains/workflow/requests.py`,
`domains/reporting/vendors.py`). Requests with a status, workflow events. Submit, decide, grant;
the queues, the page of a request. Hard: who may decide depends on level, scope grants and the
owner of the vendor, and is worked out in several places. Correct when decisions stand, a user has
one open access request, events tell what happened, roles are explained by approvals, and an
approver is shown exactly what he may decide.

**Vendor profile and its history** (`domains/workflow/requests.py`, `web/routers/vendors`). The
row of a vendor, its versions in `hist_vendor`. Create, update from three pages and from imports.
Hard: approved request, event, update, close, insert, audit are six statements, and the number of a
version is read before it is used. Correct when there is one current version, it is the vendor, and
a number follows the one before it.

**Offerings, owners and documents** (`domains/offering`, `web/routers/vendors`). Rows of eleven
kinds under a vendor or an offering. Hard: pages carry the identifiers of vendor, offering and row
apart; the audit record is a statement of its own whose failure is swallowed. Correct when a row
belongs to the vendor of its offering and the trail replays to the rows.

**Contracts** (`web/routers/vendors/contracts.py`, `domains/offering/write.py`). Enter, edit, map one or
many, cancel with an event. Correct when the flag and the status say the same, the dates are in
order and the offering is the vendor's.

**Projects** (`domains/project`, `web/routers/projects`,
`web/routers/vendors/projects.py`). Primary vendor, vendor and offering
maps, demos, notes; edited from pages of the project and of a vendor, and from imports, which name
one vendor and no offerings. Hard: maps are rewritten row by row, from what a read of them that may
fail returned. Correct when the primary vendor is attached and offerings bring their vendors.

**Demos** (`web/routers/demos`). Demos with stages, a library of review forms in versions, forms
attached, reviews submitted and scored, all kept as notes. Hard: submissions are found by the
login and stored by a reference of it; scores are computed from what a form says; a submission
without answers is stored but cannot be parsed again. Correct when a score is between nought and ten
and the summary counts each reviewer once, with the last score.

**Imports** (`web/routers/imports`). Upload, mapping of columns, matching, staging, a store of
previews in memory, application row by row with the areas of each row. Hard: what was matched may
be gone; a row fails half-way; what is known already is read once, which may fail, and compared by
keys that are not those of the tables; the store is pruned and lost on restart. Correct when nothing is
entered twice or under another's vendor, and the counts of a job are right.

**User directory** (`common/core/identity.py`) **and hand-over of owners**
(`domains/admin/grants.py`). Rows by login, found or inserted by any page; owners stand as
identifiers or logins. Correct when a hand-over of everything leaves nothing behind.

**Lookup options** (`domains/repository_lookup.py`). Versions with validity windows, rewritten
row by row. Hard: a read that fails becomes the default options, and saving goes on with them.
Correct when no two options valid on a day have one label and ranks have no gap.

**Terms and first administrator** (`web/core/terms.py`, `web/routers/system/access_requests.py`).
Acceptance per session and version, the middleware before the pages, the bootstrap. Correct when
a page is shown only to a user who agreed to the version in force.

**Settings of users** (`web/routers/reports/common.py`, `web/routers/imports/mappings.py`). Boards
and mapping profiles, each list one row. Correct when saving one item keeps the others.

**Request limits** (`web/security/controls.py`). Samples by client in a table of bounded size.
Correct when nobody exceeds the limit and the answer "come back in n seconds" is true.

**Metrics, usage log, help centre, runtime override, reports, pages, configuration, start-up
checks, schema and seeds.** Counting, reads, rendering and set-up; see section 7.

## 3. The modules and the code

Names follow the source. Operators whose name starts with `Bad` are plausible bugs (a forgotten
notify, a TTL renewed on a hit, clears in the wrong order, a flag not set, ...). No specification
uses one; they record which mistake each property would catch, and `mutants` in `PROJECT.json`
names, for each property, one that TLC refutes it with. Ghost variables are marked `ghost` at
their declaration. They keep history: properties read them, and so do the operators that say what
a cached read may return (`SeenVersions`, `SeenRoles`, `Seen`, `StoredAcceptance`), where they
stand for the caches the module leaves out. Beyond that, only the named bounds of section 4
depend on them.

### DbPool and BoundedPool
One action of `DbPool` is one critical section of `_pool_condition`, or one piece of code between
two. `Enter` begins `_acquire_pooled_connection`; `AcquireClosed`, `AcquireIdle`, `AcquireCreate`,
`AcquireTimeout` and `AcquireWait` are the branches of its loop; `Connect`, `ConnectFails` and
`ValidateFails` are what happens outside the lock once a slot is reserved; `Discard` and `Return`
end a statement; `Close` is `close()`, which leaves connections in use to their users;
`CloseTaken` closes the connections a thread took out of the pool. Notifications wake any
sleeper. Time is abstracted to what it decides: a deadline may pass at any moment (`overdue`),
and any prefix of the idle list, which is in release order, may have expired.

`BoundedPool` says the same without condition, deadlines or program counters: a set of idle
connections, who uses which, who is connecting, how many slots are lost. `DbPool!Promise` is the
refinement mapping, `KeepsPromise` the claim.

### CacheLayers
One row of the database, seen through `N` layers: layer 1 is the query cache, the layers above are
repository keys that load through each other. `Ask`, `Hit`, `Miss`, `Read`, `ReadFails`,
`ReadRaises`, `Fill` follow one load down and up without a lock; `Filled` leaves the cache alone
when the TTL is 0; `Evict` is the size limit; `Commit`, `CommitUnreported`, `ClearQueries`,
`ClearRepo` are a write. A load takes at most `MaxLoad`: that is an assumption on the
environment (statement timeouts, a page that runs to its end), and the clock waits for it.

### SecurityPolicy
`Begin`, `Change`, `Write`, `WriteFails`, `Bump`, `Delete`, `DeleteFails`, `Insert`, `Audit` are
an admin operation with its bump; `Arrive`, `ReadVersion`, `ReadRoles`, `Respond`, `Lose` a
request with its cookie. What cached reads may return (`SeenVersions`, `SeenRoles`) is the promise
of `CacheLayers`: current, or replaced less than the budget ago, or empty. `VersionOf` is
`max(1, int(...))`, so no row is version 1.

### RoleGrants
`active` and `revoked` count rows by principal and role. An operation is a plan of statements
(`UserPlan` for direct roles, which revokes every role before it inserts one, `GroupPlan` for
groups and for scopes) that `Execute`, `ExecuteFails` and `ExecuteUnreported` work off, and ends
with `Audit` or `AuditFails`. `LocalDb` adds the UNIQUE constraint of the local schema.

### ChangeRequests
`SubmitAccess`, `SubmitChange`, `DirectUpdate`, `Decide`, `AdminSetsRole` are the handlers, each one
action because it does not yield after its form arrived; inside them each statement may fail or be
reported to fail (`Recorded`, `NotRecorded`, `UpdateFails`, `UpdateSucceeds`, `Grant`). A check
reads `Seen(id)`: the row, or while the caches are not `clean` any earlier one. `CacheTurns` lets
the caches become stale or fresh between handlers.

### Rights and Handlers
`Rights` is `core/security.py` as functions: the approval levels, what the roles are by default,
`resolve_role_policy`, `can_apply_change`, `require_permission`, `can_review_level`. The names the
handlers are decorated with are not keys of `CHANGE_APPROVAL_LEVELS`, so a decorated write asks
for the default level 6 and a `vendor_editor` (level 4) gets 403 on every one of them, whatever
its own list of actions says. `Handlers` adds the gate in front of a write (`MayWrite`: decorator,
locked mode, `can_edit`), the one of the administrators' pages (`MayManage`), and rows that may be
absent (`Present`, `Unused`).

### The catalogue: Catalogue, Contracts, Offerings, VendorHistory, Projects, Demos
`Catalogue` has what they share: vendors, offerings, and whose an offering is (`VendorOf`: no
operation changes it). Each handler is one operator named like the function that serves the
request (`cancel_vendor_contract_submit`), which is its gate, its checks of ownership and the
repository operation it calls (`record_contract_cancellation`). A request is one step; a request
that is refused, that becomes a change request, or whose first statement fails changes nothing
here and is a stuttering step. Where an operation has several statements, `Faults` lets any prefix
take effect. What a row says is an opaque value where no property looks into it.

- `Contracts` keeps `core_contract` and counts cancellation events. `update_contract` checks a
  cleared date at its old value (`Checked`) and writes it as empty, as the code does.
- `Offerings` has one table of rows for eleven tables of one shape, `trail` (what a reader of the
  audit records would believe), and `untold` for the three known ways not to be told.
- `VendorHistory` keeps vendors, their versions and the offerings' own rows; `Continued` and
  `Interrupted` are what an update may leave of the history. `Numbers` has the next number as the
  table would tell it, and 1 for a read that failed. `import_vendor` and `import_offering` are what
  the rows of an import do to the same tables.
- `Projects` keeps the primary vendor beside both maps. `Maps` is a rewrite: any subset of the new
  rows when a statement fails, all of them otherwise. `_project_vendor_ids` and
  `list_project_offerings` are sets of answers: what the maps say, or what a failed read leaves of
  it. `import_project_merge` is an update with one vendor and no word on the offerings
  (`update_project_vendors`), after which `narrowed` remembers that the maps need not fit.
- `Demos` keeps notes in order of creation. Numbers of a form are in hundredths, `Round` rounds
  half to even as Python does, `_safe_float` keeps them within their bounds, and `SumOf` adds up
  a form as a recursive function. A submission knows whether it has an answer (`answered`), without
  which `build_review_summary` passes it over. `ParsedQuestion`, `_parse_template_v2`, `AnswerOK`,
  `Weighted`, `build_submission_from_form` are the functions of the code on those numbers.

### Imports
The mapping of source keys to targets, the matching of rows, the store with its pruning, and the
application as a small machine `run` (row, phase, counts, context) whose steps are `ApplyRow`,
`apply_stage_area_rows_for_row`, `RowApplied` and `finalize_import_staging_job`; `Restart` may
come between any two. A table is a function from the identifiers that have a row (`There`,
`Entered`). `Discarded` takes the one preview that was loaded out of the store. A file is its
rows; what `_mapping_candidate_score` returns is a constant. The catalogue starts as the pages may
have left it (`Catalogues`).

What an application takes for known is its context, `run.context`: for each `Place` the keys that
were read there (`_load_keys`), none if the read failed, and the names it added itself. The place of
a contract is its vendor, whichever the offering, as `_vendor_contract_number_keys` has it. The key
of an owner is the login that is read back (`StoredAs`; `get_vendor_business_owners` selects the
login of the directory row), while the name that is compared with it is the one of the file, so an
owner whom a file names otherwise is entered again. A project row is merged only under one of the
project's vendors (`ProjectUpdatable`), and has that vendor alone afterwards (`ProjectMerged`).

### Services: LookupOptions, UserDirectory, Access, RateLimiter, UserSettings, Approvals
- `LookupOptions` is one type of options. `Rewrite` closes the versions that change one by one and
  then inserts their successors, and may stop anywhere; `Rewritten` is what is left
  after so many of either, `Differ` the versions it touches. `_lookup_versions_frame` takes whether
  the read `failed`, in which case it is the default rows; closing one of those closes the stored row
  of the same identifier, if there is one (`Named`). `misled` remembers that an operation worked on
  such a read. `FilledIn` says whether a database is created
  with rows of the type; `OptionsInOrder` speaks of ranks without gaps only where it is.
- `UserDirectory` has the pages' check and insert as two steps of a thread, resolution of names
  as functions of two directories, and the hand-over as a loop `job` with an exception anywhere.
- `Access` has users who share browsers, releases of the terms (also back to an earlier one), the
  middleware, `record_terms_acceptance` with failures that are swallowed, and the bootstrap.
- `RateLimiter` is the sliding window on a clock of ticks, with `retry_after` in whole seconds;
  `events` and `last_seen` are dictionaries, functions from the clients they know.
- `UserSettings` is a list read through a cache, changed, and saved by DELETE and INSERT;
  `Without` takes the first item of a name out, as the code's filter does on lists without
  repetitions.
- `Approvals` has the owner of each vendor, the scope grants and the requests. The pages are
  operators (`_load_workflow_queue_view`, `workflow_next_pending`, `workflow_detail`), since they
  change nothing; the handlers are actions. The queue adds the owner of the vendor to the lines of
  business of a payload (`QueueOrgs`), the page and the decision complete the payload with it
  (`PayloadOrgs`). What a decision writes is left to `ChangeRequests`.

### Compositions
`MCCatalogue` and `MCServices` put the modules of their group side by side; a variable `focus`,
chosen at the start, says which one moves. The variables of two modules are disjoint. Most of the
tables behind them are too, and then the interleavings of two modules show nothing that either alone
does not. The exception is imports, which write vendors, offerings and projects through the same
operations of the repository as the pages do, under another gate. They are therefore in the model
twice: in `Imports` with what decides which row is written, over catalogues as the pages may have
left them; and in `VendorHistory` and `Projects` as actions of those modules (`import_vendor`,
`import_offering`, `import_project_new`, `import_project_merge`), interleaved with every action of
the pages. While an import runs nothing else does, since both are POST handlers. The properties that
span components (`FiledUnderItsVendor`) are stated in the compositions.

## 4. The runs

| Run | Instance | Question |
|---|---|---|
| `pool` | 3 threads, 4 connections, size 2, fair | slots and connections are never counted, held or woken wrongly; the pool implements `BoundedPool`; every acquire returns; a closed client closes everything |
| `pool_missing_settings` | 2 threads, 1 connection, size 1 | incomplete settings are reported as such (violated) |
| `caches` | 2 readers, 1 writer, 2 layers, TTL 1 and 2, load 1, 2 writes, clock to 5 | how old an answer gets; when a write is visible |
| `policy` | 2 requests of 1 browser, snapshot 2, roles uncached, version budget 1, 1 change, 2 versions, clock to 3, faults | how long a request acts on a revoked role; what the version promises |
| `policy_prod` | the same without faults, production verbs | a bump takes effect (violated) |
| `grants` | 1 user, 1 group, 2 roles, 3 rows of a kind, faults | one direct role; the audit trail replays to the grants |
| `grants_local` | the same on the local schema, no faults | operations that nothing disturbs succeed (violated) |
| `requests` | 2 users, 2 requests, 2 roles, 2 pending statuses, failing writes | decisions, open requests, events, granted roles |
| `requests_reads` | the same with failing reads | one open access request (violated) |
| `catalogue` | 2 vendors, 2 offerings, 2 rows or contracts, 3 versions, 1 project, 1 demo with 2 reviewers, 4 kinds of file on an empty and a filled catalogue, restarts, failing reads and writes | what is filed where; what histories, trails, scores and jobs say |
| `services` | 3 options, 2 employees with 4 names, 2 users at 1 browser with 2 releases, 3 clients at a table of 2, 3 items, 1 request on 1 vendor with 2 lines of business, an administrator and a scoped approver | the properties of the six services |
| `terms` | 1 user, 1 browser, 1 release, no faults | a user who is sent to the terms can read them (violated) |

**Why the bounds are enough.** *Pool*: with size 2 and three threads all of using, waiting and
barging in occur at once, and two idle connections are the least with an expired prefix that is
not all; four connections are open together at most (two counted, the others already taken out
and about to be closed). *Caches*: two layers are
the least where TTLs add up and a clear can come between them; the clock reaches 5, the budget of
the upper layer, so that entries at their very last moment occur; two writes are needed for a
value older than the previous one. *Policy*: two requests of one browser are the least where
cookies overwrite each other; the clock reaches one more than the snapshot lifetime, where
`BoundedRevocation` bites at its first instant; roles are read uncached because that is the
premise of `VersionGuards`, and what a cache of roles adds to the bound is in the theorem
`RevocationIsBounded`, for any `RoleBudget`; storing a version a second time takes a second
change, so in this run `VersionGuards` holds without its exception. *Grants*: principals do not share rows and one operation
runs at a time, so one of each kind suffices; two roles are the least for "two roles", and three
rows of a kind let a group be granted the same role repeatedly. *Requests*: two requests of one
user and one of another are covered by two ids and two users; `MaxPast` 3 lets a request be
decided twice. *Catalogue*: two vendors with an offering each are the least where something can be
filed wrongly; two rows let one be created and one be changed; two dates can cross; two versions
of a form let one replace another, and three of a vendor let a number be restarted between a first
and a third (`MaxVersions` bounds the versions of all forms together); two reviewers, one whose login is taken
for an identifier, take both ways a submission is found; the files name a vendor twice with a
contact that repeats within a row and between rows, an offering by name and by identifier, and a
project with an offering, and an owner by another name than the login; a form whose one question
may be left out gives submissions without an answer; the catalogues are an empty one and one where a
project has the vendor of an offering and another; one place whose keys cannot be read (`MaxUnread`)
suffices, since places do not share keys; a store of one preview is pruned by the second. *Services*: three
options, two of them default ones, make room for one that moves, one that is moved and one that
stays, also when the defaults take the place of what is stored; their windows all overlap, which is
where ranks matter (`OptionsStayInOrder` is proved for any windows); an employee with a
mail address and one who is found by a network name only take all the ways a name is resolved;
three clients overflow a table of two; three items overflow lists of two; requests do not affect
each other's approval, so one suffices, and two lines of business are the least where the vendor's
and the payload's differ.

Every bound is a named constant: `MaxVersion`, `MaxTime`, `MaxEpoch`, `MaxRows`, `MaxPast`,
`MaxStatements`, `MaxEvents`, `MaxHistory`, `MaxVersions`, `MaxReviews`, `MaxRemaps`,
`MaxOptions`, `MaxUnread`. A bound only stops the action that would pass it. Deadlock is checked
except in `catalogue`, `services` and `terms`: there a component comes to rest when its bounds are
used up or its work is done, which is not a deadlock of the program. Symmetry is used in the runs
without liveness; actions and properties treat the permuted sets uniformly, and the components of
a composition share their model values so that there are few permutations.

The user of `catalogue` and `services` is a `vendor_admin`; in `Approvals` there is also one with a
role of his own, who edits, submits and approves up to level 9 but applies only document links, so
that his changes become requests. By the gate described under `Rights`
a user either passes every decorated write or none; the pages that submit a change request
instead are the stuttering steps above.

**Fairness** is assumed in `pool` only (`DbPool!FairSpec`): weak fairness of each thread's
`Progress` (the scheduler runs threads; a driver call returns, with a result or an error) and of
`DeadlinePasses` (the clock runs). Nobody is obliged to ask for a connection or to close the
client. `AcquireReturns` holds because `wait()` is given the time left to the deadline;
`CloseDrains` because a connection returned to a closed client is closed instead of pooled.
The other modules state safety only: what a browser or an approver does next is nobody's duty.

**What each property says** stands above it in the module. The ones that took most to get right:

- `NoLostWakeup`: one `notify()` per freed slot is enough, because every thread that takes the
  notification and does not use what was freed is still on its way to look at it.
- `KeepsPromise`: a thread that reserved a slot counts as connecting until it is known to have
  failed, also while it closes what it took out.
- `BoundedStaleness`: the worst age is the sum of TTLs *and* load times of the layers below; a
  single TTL is not an upper bound.
- `UnracedWriteVisible`: the query cache must be cleared before the repository cache; in the
  opposite order a reader between the two refills the upper layer from the lower.
- `VersionGuards`: reading the version *before* the roles, and storing it *after* the change, is
  the right order; it holds up to a version that is stored twice (a failed or stale read of the
  version restarts the numbering, see the hazards), and then `BoundedRevocation` is what remains.
- `AuditTells`: a grant repeated for a group adds rows and records, and one revocation revokes
  every row; the trail still replays to the grants.
- `OneOpenRequest`, `DecisionsStand`, `EventsJoinUp`: hold while the caches hold no replaced row.
  The code has no conditional UPDATE, so this premise is part of what is true of it.
- `ContractsAgree`: a pair of dates is checked at old values and written as given; the order
  survives because a cleared date can only be entered again against the other one as it is.
- `HistoryTells`: the next number is taken from all versions, closed ones as well, so that a
  history that was cut short is made good by the next update. That numbers never repeat is not true:
  a read of the next number that fails is an empty frame, and the number is 1 again
  (`requests.py:197`). What is true is that only the first number can repeat, and that the version
  inserted last is the current one and the vendor all the same.
- `FiledUnderItsVendor`: the offerings of a project bring their vendors with them on every page, but
  an import that merges a project gives it one vendor and leaves its offerings, and attaching a
  vendor after a failed read gives it that vendor alone. The property names both (`narrowed`) and
  holds again once an edit wrote both maps.
- `TrailReplays`: names its exceptions, which a reader of the trail should know: a record that
  was lost, owners reassigned in bulk (no record is written), a row whose identifier is posted to
  another offering's page (a record is written although no row changes).
- `ChildrenOnce`, `JobsTell`: the context of an application is kept up with what it adds; a
  preview is discarded when applied, so that no second page applies it again. The exceptions are
  where the code does enter something twice: when the keys of its place could not be read, and when
  a file names an owner otherwise than by login. Within one run neither is one, since what the run
  added is remembered by the name in the file.
- `SummaryIsLatest`: a reviewer whose login is not its own reference gets a new submission each
  time, so only the newest by reviewer may count; weights and rescaling keep a score between
  nought and ten whatever the form says. A submission without an answer is told as 0.00 but passed
  over by the summary, which may then count an earlier one of the same reviewer.
- `OptionsInOrder`, `OthersStay`: a rewrite that stops anywhere keeps labels apart, because every
  version is closed before the first successor is inserted. The first property needs that no
  operation worked on a failed read: against the defaults a label may be given that a stored option
  has. The second does not: closing a default row that is not stored closes nothing.
- `QueueTells`: two ways of collecting the lines of business agree only because a request on a
  vendor never names an owner of its own in its payload; a form for that would make the queue show
  what cannot be decided.
- `NothingLeft`: identifiers, logins and the name that was typed all have to be looked for; a row
  entered by a page while the loop runs belongs to nobody yet. It speaks of the values the source was
  resolved to. Of a source typed in as an identifier the code looks up no login, so what the person
  owns under the login or under a second identifier stays.
- `TermsAgreed`: the session is keyed by user, not by browser; what failed to be saved is asked
  again, and what a cache still has was agreed to once.
- `RetryHonoured`: `int()` cuts off up to a second, so the answer is honest only up to that.

## 5. What the runs showed about the code

Five statements of the repository are contradicted by what the code does:

1. **A slot is lost when settings are missing** (`pool_missing_settings`). `_validate()` runs
   after the slot is reserved and outside the `try` that gives it back (`db.py:277`). Once
   `max_size` statements failed, the next ones report an exhausted pool, not the "Missing
   Databricks settings" of `docs/configuration/environment-variables.md:69`.
2. **A policy bump has no effect in production** (`policy_prod`). The version is saved by DELETE
   and INSERT; with production's verbs INSERT and UPDATE the DELETE is refused, the error is
   logged at debug level, and the INSERT never runs (`repository_identity.py:174`). The docstring
   at `policy.py:66` promises that session-cached policies refresh quickly; they live until they
   expire, which is what `BoundedRevocation` bounds.
3. **A role cannot be revoked twice on the local schema** (`grants_local`).
   `UNIQUE (user_principal, role_code, active_flag)` counts revoked rows, so the second revocation
   of a role raises within `grant_role`, `change_role_grant` or `revoke_role_grant`.
4. **A failed read counts as "no open request"** (`requests_reads`). `_query_or_empty` turns the
   failure into an empty frame, the handler's "Could not verify existing access requests right
   now" (`access_requests.py:311`) is never reached that way, and a second request is created.
5. **The page of the terms is an error** (`terms`). `access_terms_page` and
   `access_terms_view_page` call `terms_document(repo=repo)`, which takes no argument
   (`terms.py:61`); `tests/test_terms_acceptance.py:35` expects the page.

What the code does and the models keep, without a statement of the repository against it: a
bulk change of owners of offerings writes no audit record; a cancellation event may stand for a
contract that was not changed, and an edit may cancel a contract without an event; a reviewer
may have several submissions, of which the summary takes the newest; an import may create an
offering through the area of a row that is merged; two pages may enter two directory rows for one
login; the default options of a type vanish when the first option of the type is saved; a failed
read of the options puts the defaults in their place for 300 seconds, and what is saved meanwhile may
repeat a label; a failed read of the next version number makes a second version 1, which only the
UNIQUE constraint of the local schema refuses; an import that merges a project takes away all of its
vendors but one and leaves their offerings attached; an import whose read of the known contacts,
owners or contracts fails, or that names an owner by display name, enters them again; a review
without answers is told a score of 0.00 that the summary does not have; a hand-over from an
identifier leaves what stands under the login.

One more, which concerns SQLite only: `list_scope_grants` (`grants.py:120`) passes eight parameters
to `sql/reporting/list_scope_grants.sql`, which has no placeholder. SQLite refuses the statement,
`_query_or_empty` makes no rows of it, and an approver who is not an administrator has no scope: his
"my approvals" is empty and he decides nothing, where `tests/test_workflow_controls.py:245` expects
him to see the requests of his line of business. `LocalDb` of `Approvals` stands for it;
`QueueTells` holds either way, since queue and decision are misled alike.

## 6. The proofs

Checked by TLAPS for all values of the constants that satisfy the modules' named assumptions. No
fact is taken without proof. Each follows one scheme: an inductive invariant implied by `Init`,
kept by each action (one step per action, under it one per conjunct the action can disturb), from
which the properties follow; a last temporal step puts them together.

| Module | Assumptions | Inductive invariant | Theorems |
|---|---|---|---|
| `DbPool_proofs` | threads finite, size positive | the invariants of the run together | `TypeCorrect`, `SlotsAccountedFor`, `ConnectionsApart`, `NotifyIsEnough`, `ExpiredAreClosed`, `ClosedStaysEmpty`, `PromiseIsKept` |
| `CacheLayers_proofs` | each budget covers the budgets below, a load and a TTL | `CachedOnce`, `CarriedOnce`, `StaysLow`, `QuietWrite` | `TypeCorrect`, `StalenessIsBounded`, `QuietWritesAreVisible` |
| `SecurityPolicy_proofs` | positive bounds | `Dated`, `Stored`, `Guarded` | `TypeCorrect`, `RevocationIsBounded`, `VersionsGuardSnapshots` |
| `RoleGrants_proofs` | users and groups disjoint | `OneActiveRole`, `Story` | `TypeCorrect`, `OneRolePerUser`, `AuditIsComplete` |
| `ChangeRequests_proofs` | "submitted" pending, decisions not | `RoleIsExplained`, `EventsTellStatus` | `TypeCorrect`, `RolesAreExplained`, `EventsAreTrue`, `DecisionsAreFinal`, `OneOpenPerUser`, `EventsAreJoined` |
| `Catalogue_proofs` | an absent row is no row; dates are numbers; vendors are ranked; reviewers have different references; forms are lists of questions, answers lists of numbers | `Contracted`, `Kept`, `HistoryInv`, `Attached`, `Reviewed`, one per component | `ContractsAlwaysAgree`, `ContractsStayWithTheirVendor`, `TrailIsComplete`, `RowsStayWithTheirVendor`, `HistoryIsTold`, `PrimaryStaysAttached`, `OfferingsHaveTheirVendors`, `SummaryStaysLatest` |
| `Imports_proofs` | an absent row is no identifier and no number; files are lists of rows of a known layout; those of `Catalogue_proofs` | `ImportsInv` (`Copied`, `FiledRight`, `RunOK`, `Waiting`, `Accounts`); for the types `Linked`, `Stored`, `Statuses` | `NothingTwice`, `JobsAccount`, `ImportsFileRight`, `CatalogueFiledRight`, `CatalogueTyped` |
| `Services_proofs` | no version is "not agreed"; an employee is found under no other's login; "global" is no vendor; levels, dates and labels are numbers; the default options have different labels; the limits are positive | `Traced`, `HandOver`, `RequestsOwned`, `Limited`, `Ordered`, `Listed`; for the types also `Clocked` | `PagesAreAgreed`, `HandOverLeavesNothing`, `QueueIsWhatMayBeDecided`, `LimiterBound`, `LimiterRetry`, `OptionsStayInOrder`, `OthersAreNotLost`, `OthersAreKept`, `ServicesTyped` |

- **DbPool.** `NoLostWakeup` is inductive only beside `Accounting` (freed slots are real) and
  `NoSleepWithExpired` (nobody sleeps owing a close); `TypeOK` needs `Accounting` so that the
  `max(0, ...)` of the code never hides a mistake. Counting rests on lemmas about the cardinality
  of the owners when one thread comes or goes, and about what is left of the idle list when an
  expired prefix and the newest connection are taken from it. `PromiseIsKept` is the refinement:
  under that invariant each action maps to one of `BoundedPool` or to a stutter (`StepKeeps`),
  where a reservation needs `Accounting` and a new connection needs `OneHolder`.
- **CacheLayers.** `BoundedStaleness` speaks of entries; a value in a reader's hands must be
  covered too. `CarriedOnce` says it came from some layer below while that layer's budget
  lasted, at most `MaxLoad` ago; the assumption on `Budget` then closes the induction over layers
  without an induction over data. `QuietWrite` says what is current at each stage of a write that
  nobody raced.
- **SecurityPolicy.** `Dated` bounds the age of roles in cookies and in requests, wherever a
  cookie was overwritten; `Stored` says that any version anybody has seen was stored before or is
  the default; `Guarded` carries `VersionGuards` through snapshots.
- **RoleGrants.** `Story` relates the statements an operation has left to the grants its target
  holds and to the audit trail it will have.
- **ChangeRequests.** The two action properties follow from the type invariant and from what a
  clean read returns; `OneOpenPerUser` assumes `~ReadFaults`, which finding 4 shows is necessary.
- **Catalogue.** A step that leaves every contract alone or makes it `Sound` keeps all of them so;
  each handler is shown to do that once. `HistoryInv` adds to the property that a vendor which does
  not exist has no versions; that a number above one follows the greatest before it (`Numbered`) is
  kept because the next number is either the greatest and one more, or 1. `Attached` is the two
  properties of the maps together with their types; `broken` and `narrowed` have to be told apart,
  since an edit of the vendors alone ends neither. `Reviewed` says that what a reviewer was told last
  is his newest submission, wherever it is kept (`Tells`), and is passed over just when it has no
  answer; that the score lies between nought and ten rests on `WeightedFacts`, what the sums of a
  form can be.
- **Imports.** `ChildrenOnce` is not inductive: whether a child may be added depends on what the
  context of the application remembers. `RunOK` says that the counts of the job are the rows done and
  what the context `Remembers`: of the children of this application those it reported, by the names
  in the file, and of all others their keys, unless these could not be read (`Recalls`); a child of
  this application is always at a place that was looked up. `Uploaded` says that children come from
  uploads that have been applied, so that those of a run that begins are none of its own; `Copied`
  numbers the copies of a child from one on, so that a new one can be told from the old. `Waiting` says that an
  upload has one preview at most and that a preview in the store has not been applied, except the
  one that is being applied: without it a job could be finished twice. `FiledRight` and `Linked`
  say that what refers to an offering or a vendor finds it. `CatalogueFiledRight` puts the parts
  of the catalogue together: a behaviour of the composition is one of each component
  (`CatalogueAlone`).
- **Services.** `Traced` says that a version in a session, a setting or a cache is one this user
  agreed to. `HandOver` says that whatever has one of the values the source was resolved to is still to do
  (`StillToDo`), whether by what stands in it or by the login of that; it holds from the start because
  the listing of the assignments compares both with these values, for which `ResolvedHasLogin` says
  what a name is resolved to.
  `RequestsOwned` says that only a request without a vendor names an owner on top of its payload,
  from which `OrgsAgree`: queue and decision see the same lines of business. `Limited` relates the
  samples that are kept to the requests that were granted: of those inside the window none is
  missing, except those older than the last time more clients were active than the table holds, and
  a client that was blocked is told when its oldest sample leaves the window. `Ordered` says that, while nobody was misled by a failed
  read, the options which are valid together have different labels and, while nothing was cut short,
  the ranks from one to their number; what it says of the rest (`OptionSet`) holds after failed reads
  too and is what `OthersAreNotLost` needs; the proof that a rewrite keeps this counts the options that move. `Listed` says that a
  list has no item twice and that a cache which is not old has what is stored.

Sums and the least element with a property are needed in several of these proofs. The induction
theorems of the library take an operator as a parameter, which the provers cannot instantiate; the
lemmas use `WFMin` over the natural numbers instead, which takes a set: were there a number for
which the claim fails there would be a least one, and the definition of the function refutes it
(`UpTo` of `Catalogue_proofs`).

**Only model-checked:** `AcquireReturns` and `CloseDrains`, which are liveness under fairness and
out of TLAPS's reach, and the five refuted statements of section 5, which are not theorems (one
of them, `OneOpenRequest`, is one while reads do not fail). Every
other property of the runs is one, the type invariants and action properties included.

## 7. What is not modelled, and why

- **Reports, pages, templates, configuration, start-up checks, schema, seeds and notebooks**:
  reads, rendering, constants and set-up, with nothing a state would tell apart. The constraints
  of the schema that matter to a handler are constants of its module (`LocalDb`, `UniqueLogin`,
  `FilledIn`).
- **Metrics, usage log, help centre**: they count and write; nothing reads them back to decide.
- **Runtime override and connection lab**: a development aid, off unless enabled, whose client
  lives for one request.
- **Role definitions**: writing them is one more change followed by a bump (`SecurityPolicy`).
- Inside the modelled parts: the wording of messages, SQL text, recorded timings and logs, the
  profile fields of users and employees, documents of projects and demos, the contents of boards
  and mapping profiles, the syntax of the import formats. One thing is lost with the contents of
  boards: the loop that makes the identifier of a widget unique does not end for an identifier of
  80 characters that is taken (`reports/common.py:718`); it is listed under the hazards.
- The modules of the catalogue read rows as they are, unless a read fails. What a cache may return
  instead is bounded by `CacheLayers`; their handlers run one at a time and clear the caches with
  every write, so a stale row is one a page read while a write was under way.
- Failed reads (`query_or_empty`, `frame_utils.py:36`: an empty frame) are modelled where the code
  goes on with what they return: the open requests (`ChangeRequests`), the policy version and roles
  (`SecurityPolicy`), the lists of users (`UserSettings`), the acceptance of the terms (`Access`), the
  next number of a vendor (`VendorHistory`), the maps of a project (`Projects`), a reviewer's
  submission (`Demos`), what an import takes for known (`Imports`) and the options of a type
  (`LookupOptions`). Where a handler stops because a row it names was not found, the failed read is
  the stuttering step of a refused request. `UserDirectory` and `Approvals` leave failed reads out:
  a hand-over that lists nothing hands nothing over, and a queue that cannot be read shows nothing.
- The UNIQUE constraints of the local schema on options and on versions of a vendor
  (`06_create_functional_runtime_compat.sql:365`, `:223`): they only make a close or an insert fail,
  which `Faults` allows for every one of them.
- The wait for a form in `async` handlers: a permission read before it is used after it. It makes
  the interval between check and use as long as the upload; nothing in the code bounds it, so no
  property could. It is listed under the hazards.
- `core/permissions.py`: no handler uses it.
- Several server processes: the repository starts one (`main.py:11`, `launch_app.bat:162`), and the caches of
  others could not be cleared at all, so their staleness would be bounded by `BoundedStaleness`
  alone.
- Databricks and SQLite: external. A statement is atomic, may fail, or may take effect and be
  reported as failed.

## 8. What could come next

1. A register with bounded staleness as a module of its own, implemented by `CacheLayers` and
   used by `SecurityPolicy`, `ChangeRequests` and `Access` in place of their own sets.
2. One grant per approval as an abstract specification, implemented by `ChangeRequests` with
   `RoleGrants`.
3. `LruTtlCache` in detail, with its order of eviction.
