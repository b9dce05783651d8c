# PontuAll in TLA+

PontuAll is a time clock. A kiosk (Tauri, Rust, with a React window) reads
employee cards with a PC/SC reader and records punches in a local SQLite mirror;
PostgreSQL is the source of truth; a sidecar (Bun, Better Auth) serves logins, a
portal for employees and administrators, one-time codes for manual punches and
the missed-punch e-mails. This directory holds the TLA+ models of that program,
the TLC runs that check them on small instances and the TLAPS proofs of what
holds for every instance.

## 1. Inventory

| Component | State | Operations | Interacts with |
|---|---|---|---|
| Connectivity (`db/mod.rs`, `db/online.rs`) | `is_online`, the pool | probe and swap every 30 s, `mark_offline`, `start_backend_services` | every repository call reads the flag and clears it on an error; a transition to online spawns `run_sync` |
| Punch replication (`db/sync.rs`, `db/repo/time_entries.rs`, `db/repo/outbox.rs`) | `time_entries` in SQLite and PostgreSQL, `sync_outbox` | `set_field`, `delete_day`, `run_sync` (replay, pull, reap), `get_users_and_cache`; the portal's `setPunchField`, `deletePunchDay` | commands of the window, boot, the watch loop, the portal |
| Cards (`card/flows.rs`, `db/repo/cards.rs`, `reconcile_card`) | token on the card, `token_active`, `token_pending`, `token_counter`, `status` in both databases | tap (classify, mint, persist, write, promote), provision, reprovision, unprovision, block, replay of rotations | card service, outbox |
| Card service (`card/service.rs`, `card/layout.rs`) | the operation lock, the cancel flag, the sectors of the card | wait for a card, read and write the token, cancel, status, diagnosis | PC/SC reader; punch screen, settings, card dialogs |
| Punch screen (`Home.tsx`, `helpers/home.ts`) | the list of the day, two dialogs, the employee asked about, the source of the punch | tap, code, confirm, "Ponto de Saida" | card service, `update_cache_hour_data`, manual punches |
| Manual punches (`misc/punch.rs`, `db/repo/punch_audit.rs`, `sidecar/src/punch-otp.ts`) | `punch_otp` rows, the kiosk's log of attempts | request a code, verify it, limits and lock-out | mail, sidecar HTTP, `set_field` |
| Employees (`db/commands.rs`, `db/repo/employees.rs`, `addEmployee.tsx`, `employees.tsx`) | `employees` and their logins, cards | wizard, profile, days, change for many, terminate | accounts, cards, outbox |
| Accounts (`auth/commands.rs`, sidecar admin routes, `AccessAccounts.tsx`) | users of Better Auth, `auth_user_id` of employees | bootstrap, create, unlink, suspend, role, remove | employees, mail |
| Sessions and permissions (`auth/guard.rs`, `auth/state.rs`, `app-context.tsx`) | sidecar sessions, the terminal's token and its cache of 30 s, who the window shows | sign in, sign out, restore, resolve, require a permission | sidecar HTTP, every administrative page |
| Portal pages (`sidecar/portal/app.ts`, `sidecar/src/portal.ts`) | what one browser shows, its cookie, requests under way | sign in and out, own data, punches of others, visibility | sidecar routes, `time_entries` in PostgreSQL |
| Audit trail (`sidecar/src/audit.ts`, `AuditLog.tsx`) | a hash-chained table, the in-process queue of writers; the page that lists it | append, prune, verify, list, load more | every administrative route |
| Missed punches (`sidecar/src/missed-punch.ts`) | reminders already sent, the minute timer | lunch check, exit check | mail, schedule pushed by the kiosk |
| Set-up and working hours (`splashscreen.tsx`, `app-context.tsx`, `work_hours.rs`, `setup.rs`) | hours in localStorage, the page, the mirror, PostgreSQL, the sidecar | wizard, start, migration, edit, push to the sidecar | outbox, `run_sync`, missed punches |
| Mail settings and addresses (`misc/smtp.rs`, `misc/advanced.rs`, `Admin.tsx`, `sidecar/src/runtime.ts`) | keyring, `app_config`, the sidecar's memory | save, test, send, push | every mail and link |
| Settings of the reader (`Settings.tsx`, `card/commands.rs`) | the test, the diagnosis dialog | poll, test, diagnose, cancel | card service |
| Sidecar process (`auth/sidecar.rs`) | child process, port, secret | start, wait until ready, stop | boot, shutdown |
| Retention (`db/retention.rs`) | employees past their retention date | the daily pass, anonymisation, the sidecar's purge | PostgreSQL, sidecar |
| Reports (`excel/`), mail texts, UI components | - | formatting | - |

What is hard here: Tauri commands are asynchronous and run beside `run_sync`,
which runs beside the watch loop; every replicated operation is a local write
followed, in another statement on another database, by a remote write or by a
row in the outbox; PostgreSQL may go away between any two statements and the
flag only learns of it from a failing call; the portal writes PostgreSQL
without the kiosk; the card is a third store that keeps its token when either
database fails; the handlers of the sidecar interleave at every `await`; and
the pages keep copies (a list captured at a click, a selected employee, a form)
that an answer may overwrite after the user has gone on.

### What makes each component correct

- **Punch replication**: no punch is lost on the way to PostgreSQL; a newer
  version of a day is never replaced by an older one; the mirror only forgets
  what somebody deleted; the outbox drains and the two databases agree.
- **Cards**: a genuine card is never taken for a clone; a token is accepted
  once; a block stays; a newer token is never overwritten.
- **Card service, settings of the reader**: one operation at a time; a dialog
  that stays open is told something.
- **Punch screen**: what is shown is what is recorded; a confirmation acts for
  the employee it asked about; a punch is not recorded over another.
- **Manual punches**: a code is accepted once; guesses are limited.
- **Employees, accounts**: there is an administrator after set-up; logins and
  employees agree; whoever was terminated has neither card nor login; a form
  saves what it shows and nothing else.
- **Sessions**: window and program agree on who is signed in; a revoked session
  changes nothing.
- **Portal**: the page shows the data of whoever is signed in, and its table the
  days of one employee.
- **Audit trail**: the chain verifies as long as nobody tampers with it, and
  does not when somebody does; the page that lists it skips nothing.
- **Missed punches**: one reminder for each missed punch, and nobody forgotten.
- **Working hours, mail settings**: the copies agree; what was saved is used.

## 2. Plan

The most important behaviour first. Steps 1 to 13 are written.

| # | Module | Composes | Promise |
|---|---|---|---|
| 1 | `DbLink` | - | - |
| 2 | `PunchSync` (+ `PunchSyncProofs`) | `DbLink` (EXTENDS) | last write wins; nothing stranded; convergence |
| 3 | `CardToken` | its own link per terminal, the same code | one token accepted once |
| 4 | `AuditChain` (+ `SidecarProofs`) | refines `Trail` | a trail that only grows at its new end |
| 5 | `PunchOtp` | - | bounded guessing |
| 6 | `PunchScreen`, `PortalPage`, `EmployeeEditor` | commands and routes as calls that answer late | what is shown is what is recorded |
| 7 | `Accounts` | rows, accounts, cards and the session of each terminal | somebody administers; terminated means no card, no login |
| 8 | `Session` | sidecar, program, window, page of the accounts | a revoked session never acts |
| 9 | `WorkHours`, `MissedPunch` | wizard, two windows, boot, outbox; the timer | copies agree; one reminder |
| 10 | `AuditPage` (in `SidecarProofs`) | `AuditChain` (EXTENDS) | nothing skipped |
| 11 | `SettingsPages` | `CardDesk` and `MailSettings` (EXTENDS) | what is stored is what is used |
| 12 | `PunchOtpProofs`, `MissedPunchProofs`, `CardTokenProofs`, `SessionProofs`, `SettingsProofs`, `AccountsProofs`; more in `PunchSyncProofs` | the module each is named after (EXTENDS) | section 6 |
| 13 | second parts: `PunchScreen` in `PunchOtpProofs`, `PortalPage` in `SidecarProofs`, `EmployeeEditor` in `SettingsProofs`, `WorkHours` in `MissedPunchProofs` | both components (EXTENDS) | section 6 |
| 14 | `ReplicatedDay`: one day as a register that people write, refined by `PunchSync` | - | to do |
| 15 | `Retention`; the sector writes of one chip operation | - | to do |

A proof module of step 13 EXTENDS two components that touch in the program: the
code of the mail and the screen that asks for it, the sidecar's trail and its
portal, the administrator's two kinds of pages, the hours and the timer that fires
by them. Their names are kept apart for that (`ScreenInit`, `PortalNext`,
`EditorTypeOK`, `HoursSpec`). Nothing is composed: each part speaks of the
specification of its own component, and needs nothing of the other.

## 3. Modules and the code

A module whose property holds only while something has not happened keeps that
as a history variable (`happened`, `odd`, `mixed`, `orderly`, `crossed`): the
oddities are steps of the model like all others, TLC takes them in the listed
runs (only the overlap of commands in `Accounts` and commands that overtake one another in
`WorkHours` are left to runs by hand), and
each property names those that are known to break it. Section
5 has the counterexamples. `MaxOdd`, in
`WorkHours` `MaxHoursOdd`, bounds how many *different* oddities one
behaviour may meet.

### DbLink

`pgUp` is whether PostgreSQL answers; `online` is `DbState.is_online`; `probe`
is the answer `probe` got and `watch_loop` has not stored yet. `Probe` and
`SwapOnline` are two steps because the loop awaits between them. `CallFails` is
a statement that fails, with the `mark_offline` every caller makes. The handle
of the pool changes together with the flag and is folded into it.

### PunchSync

| State | Code |
|---|---|
| `lite`, `pg` | `time_entries` in SQLite and PostgreSQL: for each day the columns (as the time each was written) and `updated_at` |
| `outbox`, `nextId` | `sync_outbox` rows with `synced_at IS NULL` |
| `cmd` | the Tauri commands in flight: `set_field` between its local write, the re-read and the remote write or the enqueue; `delete_day` likewise |
| `job`, `wpc`, `todo`, `fetched`, `present` | `run_sync` (from boot or from the watch loop) and `get_users_and_cache`: program counter and local variables |
| `app` | the process: down, in `setup`, main window shown |
| `clock`, `deletedAt` | time of the last write; when a deletion was asked for |

Every statement on a database is a step. Reductions: `list_local` and the
deletes of `reap_local_absent` are one step (what a write in between leads to is
also reached by the write before the step or after it), the read of the flag is
merged with the local statement before it, stamp and write are one
step. Row ids, malformed outbox rows and `punch_sources` are abstracted
(`PortalPage` has the marks of the portal); there is one clock, which the kiosk
and the server share. A transition to online needs a free worker to run
`run_sync`. "overlap" in `happened` is a command beside a synchronisation, or
two synchronisations at once.

### CardToken

One UID. A token stands for its hash, and the row's id is the token it was
provisioned with (both are drawn then). `cmd` holds the local variables of a
command, above all the copy of the row that `tap` keeps from `find_by_uid` to
its two upserts. `Saves`, `Sends`/`SendFails`, `Queues` are `cards::upsert`;
`SyncCompares`, `SyncWrites`, `SyncMirrors`, `SyncMarks` are `reconcile_card`
and the loop around it; `TapReads` and `TapWrites` are the two chip operations,
and `TapWrites` may fail before or after the token block landed. `Restarts`
loses every command of the terminal. Reductions: the probe and the swap of the
watch loop are one step (a stale swap is an outage in between); one `run_sync`
per terminal; `reprovision` and `employee_terminate` block by the same calls as
`AdminStarts`; the counter block on the chip is never read and is left out.
Properties that speak of the only terminal with one command on the card at a time
say `OneByOne`; "recycle" in `Env` is a card that is provisioned again.

### AuditChain, Trail, AuditPage

`waiting` counts the events behind the end of `chainTail`, `writing` holds the
entries whose `prev_hash` has been read and whose INSERT has not been made.
`ReadsTail`/`Inserts` are the two halves of `writeEntry`. A row's `self_hash`
stands for the row, and `prev_hash` is the seq of the row it names; the walk of
`verifyAuditChain` becomes "each row names the one before it". `Prune` is
`runRetention`, with the event it logs. `Restart` resolves an INSERT that was
sent before the kill at once: a new sidecar takes seconds to start.
`orderly` is a history variable: FALSE from the first time that two sidecars
write at once or a clock is set back, which the code has no defence against.

`Trail` is what a reader of the trail may rely on: a chain to which one entry at
a time is appended, that is only cut at its old end, and that promises nothing
once `trusted` is gone. `IsTrail` maps the rows to `trail`, the last seq drawn
to `top` and `orderly` to `trusted`; it is a property of the run `audit_chain` and
the theorem `ImplementsTrail`.

`AuditPage` extends `AuditChain` with the table of `AuditLog.tsx`: `entries` and
`total` are its React state, `load` the request under way, and `SelectsRows`,
`CountsRows` the two queries of `listAudit`, between which the trail may grow or be
cut. A page that is opened again drops the load of the one before it.

### PunchOtp

One employee. `punch_otp` are the rows in PostgreSQL; `sent` and `failed` the
events of `punch_auth_log` that the limits count, on each terminal; `cmd` the
requests and verifications under way, each SQL statement, mail and log entry a
step. A code is the number of its request, and `accepted` the history of which
verification was told that its code is right. Reductions: the two counts of `ensure_can_request_otp` are one
step (if both pass one after the other, both pass at the first); a mail that is
delivered although SMTP reports an error is a lost answer.

### PunchScreen

`Home.tsx` and `home.ts`. `users` is the list of the React state and `row` what the
mirror has; `asking`, `noCard` and `dialog` are the two dialogs and the message,
`clockUser` and `source` the state that a confirmation uses. A `flow` is one
promise: the reading of a card, the verification of a code, or a punch on its
way; it carries `seen`, the list it captured at the click, because every
`setUsers` replaces the whole list by one made from that capture. `queue` and
`cancel` are `CardService`: callers in order, and a flag that the next caller
clears. `NextField`, `Records`, `Refusal` are `handleRegularDayLogic`: which of
the four punches comes next and when a dialog asks instead. A day is `<<>>` when
`hour_data` has none. `handleSkipValidation` updates twice; both calls are steps.
Oddities: flows that overlap, a write by the portal or another terminal, a
command that fails half-way, a dialog's "Ponto de Saida".

### PortalPage

One browser on the portal. `cookie`, `view`, `export`, `checked`, `options`,
`picked`, `rows`, `signing` are the page (`app.ts`); `days`, `marks`, `hidden`,
`admins`, `live` are the tables behind the routes. `req` holds the requests under
way: what a click captured, the cookie it was sent with, and the answer once the
sidecar gave it. `setPunchField` is two statements (`ReadsSources`, `Upserts`);
every other route is one. `Refuses` is the check of session and role that each
route repeats. Two accounts share the browser, one after the other. Left out:
the totals, the wording, and the mail form (one request that changes nothing on
the page).

### EmployeeEditor

`employees.tsx` and the change for many in `Admin.tsx`. Three copies of a day:
`row` and `profile` (the mirror), `users` (the list), `sel` (the employee that
is selected, which a save in the dialog does not refresh). `form`, `date`,
`editing` are the day in edition, `modal` the profile form. A `flow` is a save:
`HandleEdit` writes one key after the other (`WritesField`, in the order of
`Keys`, only what differs from `sel`), the profile save reads the list again and
replaces it, the change for many writes employee by employee. Oddities: saves
that overlap, a form taken from a stale selection, a failing command, somebody
else's write.

### Accounts

`emp` are the employees with status, role, e-mail and login; `acct` the users of
Better Auth; `card` whether a card works; `session` and `cached` what each
terminal holds; `cmd` the commands under way with the row each has read. A
command is the sequence of its calls: `Boots`, `SignsUp`, `Promotes`, `Enters`
(`auth_bootstrap_admin`); `Registers`, `Inserts`, `Provisions` (the wizard,
`wizard` is its state); `AsksAccount`, `MakesAccount`, `LinksAccount`, `MailsLink`
(`auth_create_account`); `AsksProfile`, `SavesProfile`, `SetsRoleOf`
(`update_employee`); `AsksTermination`, `BlocksCards`, `RemovesLogin`,
`MarksTerminated` (`employee_terminate`); `AsksRemoval`, `DropsUser`
(`auth_admin_remove_user`); role and suspension. Each call may fail (`Fails`).
A row is one value here, mirror and PostgreSQL together. `Gate` is the check of
an administrator, `CardGate` that of the card commands, which a supervisor passes
too.

### Session

Four places know who is signed in: `live` (sidecar), `current` and `cache` (the
program, `AuthState`), `screen`, `menu`, `page` (the window) and `list` (the page
of the accounts). `calls` are the commands under way; `pc` says at which call to
the sidecar each is, `ui` whether the part of the window that asked still
listens. `Stores` writes into the cache what the sidecar answered, after the
await, with whatever happened in between. `CacheExpires` is the end of the 30 s
and may come at any time. `Reloads`, `Restarts`, `Elsewhere` are the
environment, `Loses` a call that fails before or after its effect.

### WorkHours

Five copies of the hours: `page` of each window, `stored` (localStorage), `lite`,
`central`, `schedule` (sidecar). `calls` are the commands under way in the order
they were sent; a save is a local write, a row in the outbox and an upsert. Each
window that opens mounts an `AppProvider`, which reads the mirror and saves what
localStorage had. Configurations in `Refused` are those that
`save_work_hours_cmd` does not take because the tolerance is no `u32`: the fields
let a person type them, the page and localStorage keep them, and `Drops` is the
save that ends there, or at an error of SQLite ("failed"); whoever sent it goes on
(`Returns`). `Parsed` is what `parseInt(...) || 10` makes of the hours in
localStorage, a zero into a ten; "reread" is a start at which that happens while
the mirror, which would repair it, is empty. `chosen` is the last choice that is
not refused. `step` and `busy` are the wizard of `splashscreen.tsx`, `boot` the `setup`
of the program, `replay` its `run_sync`. Other tables of the outbox and of
PostgreSQL are in `PunchSync`.

### MissedPunch

`minute` and `day` are the machine's clock; `tick` the runs of the timer under
way, each in its exit check, the query of the lunch times, a lunch check or its
mails; `sent` is `sentChecks`, pairs of the date *at the write* and the check;
`hours`/`pushed` what the kiosk gave the sidecar. `AlreadySent` is read before
the query and `sent` written after it, as in `runExitCheck` and `runLunchChecks`.
`reminded`, `twice`, `waiting`, `ticked`, `spoilt`, `crossed` are history.

### SettingsPages = CardDesk + MailSettings

`CardDesk`: `waiting`, `holder`, `cancel` are the lock of `with_ctx` and its flag
(served in order, cleared by the next to take it); `stage` is how far each
`card_diagnostic` is, in two operations (wait for the card, read it); `diagOpen`,
`cardDiag`, `cardDataError`, `readerName` are `Settings.tsx`, `readerConnected`
the interval of `app-context.tsx`.

`MailSettings`: `smtp`, `address`, `manual` are what the terminal keeps (keyring,
`app_config`), `runtime` what the sidecar remembers (`runtime.ts`), `warm` what
`sidecar::start` is about to push, `calls` the commands under way and `tab` the
form of `Admin.tsx`. `mail` is the last mail sent: by which server, with which
address in its link, and what the command had read when it was asked. Commands
stop before every call to the keyring, to a database and to the sidecar.

A behaviour of `SettingsPages` has one of the two pages: the window shows one at
a time, forgets what it held when it is left, and the two share no state, so a
behaviour with both is an interleaving of two that are independent.

## 4. Runs

All runs pass: what the code is known not to do is excluded by name in the
property and shown in section 5.

| Run | Instance | What it asks |
|---|---|---|
| `punch_sync` | 1 day, 2 columns, 2 commands, 1 worker, all hazards but one at a time | can an older version replace a newer one; does reap remove only what was deleted elsewhere; is a punch that PostgreSQL lacks always on its way; are columns kept; do the outbox drain and the databases agree |
| `card_offline` | 1 terminal, 2 chips, 3 tokens, outages, crashes, copies, an administrator, overlap | false alarms, double use, blocks, replay; did every active token reach a chip first |
| `audit_chain` | 2 sidecars, 3 events, clock to 3, page of 1 row, 4 loads | does the chain verify, does a removal show, does the page skip an entry, does the chain implement `Trail` |
| `punch_otp` | 2 slots, 5 commands, every limit 1 | by how much can overlapping commands exceed the limits |
| `punch_screen` | 2 employees, 2 flows at once, 3 in all, clock to 2 | is the list true, does a dialog act for whom it asked, is a punch recorded once |
| `portal_page` | 2 accounts, 2 requests at once, 4 clicks, 1 date, 2 fields | whose data and whose rows does the page show |
| `editor` | 2 employees, 1 date, 2 keys, 2 times, 2 saves at once | is the list true, is a saved form stored, does a profile keep the rest |
| `accounts` | 2 employees, 2 logins, 2 e-mails, 1 terminal, 1 command at a time, 4 in all | is somebody left to administer, do logins and employees agree, what does "terminated" mean |
| `session` | 2 logins, 2 sessions, 2 commands at once, 4 acts | do window and program agree, is the page of accounts true, does a revoked session act |
| `work_hours` | 3 configurations (one refused, one read as another), 2 launches, 1 choice, one oddity | do the copies agree but for a refusal, does a choice that was taken stay, does PostgreSQL get it |
| `missed_punch` | 1 employee, 3 minutes in a day, 2 lunches, 2 ticks at once | is anybody reminded twice or forgotten |
| `settings` | 1 mail server, 2 passwords, 1 address, 2 diagnoses, 4 acts | is the password kept, do sidecar and terminal agree on addresses, where do links go, is every dialog told something |

**Bounds.** `MaxClock` bounds the writes people make to days: two are enough for
an old and a new version of a day, and with a portal edit for a version in
flight between them; `MaxOdd` 1 means that a behaviour meets one kind of hazard
(any number of times, as far as the other bounds go), which separates their
effects. `MaxTokens` 3 is a
card after provision and two rotations, so that active, pending and a stale
token are distinct; `MaxMixed` 2 bounds how many commands overlap a replay (the run
was also made with 3, which gave nothing new).
`MaxEvents` 3 gives a chain with a middle, and the event of a prune; `PageSize` 1
makes every page boundary a place where rows can shift. In `punch_otp` the
limits are 1, so that five commands exceed every one of them if they can; the
windows are 0 and 1 ticks, which separates "same window" from "later". In
`punch_screen` the hours of the day are 1, 1 and 2 with tolerance 0: early, due
and late are all there, and a day may begin with up to 2 punches. `Minutes` 3
has a minute before, at and after a check, and `LastMinutes` 3 is the first
minute of the next day. In `accounts` one slot means that a command is followed
by failures and further commands, not by overlap: the run asks about
partial failures, and section 5 about overlap. `MaxActs` 4 lets a save, another
save, a link and a restart follow each other. `MailInit` starts with no address
or with one that is public and trusted; the tab stores the other combinations. In `work_hours` the configurations are
the default, a tolerance of zero and one below zero; `MaxQueue` 3 lets a second start
find up to three rows, more than one save has queued.

**Fairness.** `PunchSync!FairSpec` and `CardToken!FairSpec` assume that the
tokio runtime polls every task that can run (WF on command and task steps),
that the watch loop wakes every 30 s (SF in `CardToken`, where a command may
disable it again and again). `SettingsPages!FairSpec` assumes that the lock of the reader is
served in order (it is tokio's mutex), that every wait for a card ends at its
deadline, and that a command is admitted or refused. `FairScreenSpec`,
`FairPortalSpec` and `FairHoursSpec` serve runs by hand; the last assumes that each
command of the window, `setup` and a replay go on. Nothing is
assumed of people, cards, the network, the sidecar or crashes: no command has to
start, and the liveness properties of `PunchSync` are conditional on PostgreSQL
staying up.

## 5. Counterexamples to run by hand

`tlc -config <file>.cfg <MC module>` finds each of these; they are not part of the
listed runs.

| File (module) | Property | What goes wrong |
|---|---|---|
| `punch_reaped` (`MCPunchSync`) | `ReapedWereDeleted` | a punch recorded between the snapshot of the outbox and the reap is removed from the mirror; `sync.rs:98` says "The outbox is now flushed, so any local time entry missing centrally was deleted elsewhere" |
| `punch_edit_lost` (`MCPunchSync`) | `AlwaysKeepsFields` | a punch on the kiosk erases a column the portal set: whole rows are sent |
| `punch_undeleted` (`MCPunchSync`) | `DeletedStaysDeleted` | a queued punch brings back a day that the portal deleted later |
| `card_conflict` (`MCCardToken`) | `BlockLasts` | the block that the replay raises is undone by the next queued row of the rotation |
| `card_overwritten` (`MCCardToken`) | `NewerTokenKept` | the row that is written as blocked carries the older tokens and counter |
| `card_wedged` (`MCCardToken`) | `RotationsReplayed` | a card recycled offline breaks UNIQUE(uid), and the replay stops at it for ever |
| `screen_punched_again` (`MCPunchScreen`) | `PunchOnce` | a code verified while the punch of a tap is on its way records the same punch again, over the first |
| `portal_day_back` (`MCPortalPage`) | `DeletedStays` | an edit of a row that is still shown while its deletion is under way brings the day back |

TLC also refutes these when they take the place of the properties of a listed
configuration, with the changes given (and `Spec` for `FairSpec` where the
formula is an invariant):

| File | Formula | What goes wrong |
|---|---|---|
| `punch_sync.cfg`, 1 field, 1 command, `MaxClock` 1, `Env` {"overlap"} | `QueueDrains` | a punch enqueued after the snapshot of the replay waits for the next outage |
| `punch_reaped.cfg`, `MaxClock` 3, `Env` {"kiosk_delete"} | `ReapedWereDeleted` | a deletion that the kiosk queued is replayed blindly and takes a punch that is later than it; the reap then removes that punch from the mirror |
| `card_offline.cfg`, 2 terminals | `alarmed => happened # {}` | a terminal that did not see the other's offline rotation takes the card for a clone |
| `card_offline.cfg`, 2 terminals | `BlockLasts` | a row queued by the other terminal undoes the block |
| `card_offline.cfg`, "recycle" in `Env` | `alarmed => happened # {}` | a card provisioned again offline: its row is refused, and the former one calls it a clone |
| `card_offline.cfg`, 2 slots, "concurrent" in `Env` | `alarmed => happened # {}`; `\A t \in Tokens : oks[t] <= 1` | two taps of one chip both read the token before either writes |
| `card_offline.cfg`, `MaxMixed` 3 | `\A t \in Tokens : oks[t] <= 1` | a replay that compared before a tap and writes after it puts the older token back, and a copy of the chip is accepted with it |
| `punch_screen.cfg`, `Env` {} | `FailureShown` | a punch that fails closes the dialog, and no dialog says so |
| `portal_page.cfg`, `MaxRequests` 3, `Env` {} | `SignedOutIsOut` | the sign-out fails, the page shows the login and the session goes on |
| `editor.cfg`, `Env` {"stale"} | `SavedAlways` | a day whose selected copy is stale is shown as saved although keys were not written |
| `accounts.cfg`, 2 slots | `StaysTerminated` | a command that read the row before the termination writes it back as active |
| `accounts.cfg` | `NeverLockedOut` | the only administrator removes or demotes itself |
| `missed_punch.cfg` | `NeverTwice` | a tick still in its loop at midnight finds an empty `sentChecks` under the new date |
| `missed_punch.cfg` | `OnlyActive` | whoever was terminated today is reminded too |
| `work_hours.cfg`, `HoursEnv` {} | `CanonicalKept` | a window that opens saves what localStorage had, as it reads it, over the hours of the mirror; `app-context.tsx` calls the mirror "canonical" |
| `work_hours.cfg`, `HoursEnv` {} | `CopiesSame` | a tolerance below zero stays in the page and localStorage alone, and nobody is told; the next start takes it back |
| `work_hours.cfg`, `HoursEnv` {"reread"} | `HoursStay` | a start with an empty mirror stores a tolerance of ten for the zero that was chosen; with "overtake" the save of what localStorage had passes the read of the mirror that would have mended it |
| `work_hours.cfg` | `ScheduleFollows` | hours edited while the sidecar runs reach it at the next start only |
| `settings.cfg` | `CopiesFresh` | the portal's recovery links and the reminders go by the mail server of before the last save |
| `settings.cfg` | `AddressStays` | clearing the public address leaves the sidecar without any until the next start |
| `settings.cfg` | `ShowsItsOwn` | a diagnosis that was cancelled answers into the next dialog |

`portal_page.cfg` with `FairPortalSpec`, `MaxRequests` 2 and `Env` {"crossing"} passes
`SigningEnds`: the login button is enabled again. `hours_start.cfg` (`MCWorkHours`)
passes `StartEnds`: a program that was set up opens its main window, although SQLite
refuses or fails the migration and PostgreSQL comes and goes.

### Where the code and its text disagree

- `sidecar/src/index.ts:481-492` sets `publicOrigin` to null when the public
  address is cleared, and a password link then fails (502) until the next start;
  `client.rs:290-292` and `Admin.tsx:863-866` say that the LAN address is used
  (`AddressStays`).
- `set_smtp_config_cmd` (`misc/punch.rs:52-84`) does not push to the running
  sidecar; `runtime.ts:5-8` says that the configuration is pushed with each
  internal request that triggers an e-mail, which recovery from the portal and
  reminders are not (`CopiesFresh`).
- `sync.rs:98`, `app-context.tsx`: see `punch_reaped`, `CanonicalKept`.
- `audit.ts:29` says that writes are serialised so that the chain cannot fork;
  two sidecars on one database fork it (`ChainVerifies` without `orderly`).
  `migrate.ts:89` says "Rows are never updated or deleted"; `pruneAuditLog` deletes.
- `sidecar.rs` says that the push of the hours lets the scheduler know when to
  fire; an edit is not pushed (`ScheduleFollows`), and `exitWeekend` is not used
  by the scheduler at all. An exit plus half the tolerance at or after 24:00 never
  fires.
- `HoursSetup.tsx:134` says that without a weekend exit the standard one is used;
  `splashscreen.tsx:146` stores 12:00:00.

Met while reading, outside every model: `Admin.tsx:284-285` reads the dates of a
report as UTC midnight and prints them as local ones, the day before when west
of UTC, and `employees.tsx:364-385` the other way round east of it;
`AuditLog.tsx` says that there are no events when its first load fails; two
kiosks with a sidecar each remind twice; the terminal's change of password keeps
the other sessions and the portal's ends them; a card read that is cancelled
while nothing holds the lock goes on, and may link the next card on the reader
to the employee of the closed dialog "Novo cartão".

## 6. What is proved

TLAPS checks these for every value of the constants that the assumptions of the
modules allow: any number of employees, commands, terminals, tokens and ticks,
any limits, and any `Env` and any number of oddities. Each theorem follows from
an inductive invariant that TLC checked on an instance before it was proved.
Working it out showed where a property had held by its bounds only:
`ReapsOnlyDeleted`, `CentralFieldsKept`, `NoFalseAlarm`, `ValidatesOnce` and
`BlockHolds` had to name more of what breaks them, and section 5 has the
behaviours.

**PunchSyncProofs.** `TypeCorrect`: `TypeOK` is inductive. `NeverStranded`: `NoPunchStranded`,
for any number of days, columns, overlapping commands and tasks and any `Env`
(the property speaks of behaviours without kiosk deletions and crashes so far).
`NoPunchStranded` alone is not inductive; `PunchInv` adds that every payload is
an upsert, that no row, payload or deletion is stamped later than the clock
(`StampsPast`), that an id names one outbox row in the table and in the
snapshots (`IdsNameEntries`, so that `mark_synced` drops what was replayed and
nothing else), that a row about to be marked is in PostgreSQL at least as new
(`ReplayedIsCentral`), and that what a pull has read is not newer than
PostgreSQL (`FetchedIsCentral`). `LastWriteAlwaysWins`: the action property,
from the type invariant and the guard of `UPSERT_ROW`, for any `Env`.
`OnlyDeletedReaped`: without overlap one task is under way (`OneAtATime`), the
outbox is empty once a task has replayed it (`Flushed`), and a row of the mirror
is then either central or was deleted since it was last central (`Tidy`), which is
what the reap relies on. `CentralFieldsAlwaysKept`: all versions of a day, in the
mirror, in the outbox, in a command and in a task, are ordered, a later one
keeps the columns of an earlier one (`VersionsOrdered`), none is newer than the
mirror's (`LiteNewest`), and a row that was reaped is not on its way any more
(`ReapedGone`).

**SidecarProofs.** The inductive invariant says, while `orderly` holds: a row
names a row before it, and no row lies between them; if the named row is gone
the row is the first; times grow with seq and none is ahead of the clock; at
most one entry is about to be inserted, and it fits behind the last row.
`PruneKeeps` is the core: because times grow with seq, what expires is a prefix,
so a row whose predecessor goes becomes the first. From it follow `TypeCorrect`,
`ChainAlwaysVerifies` and, with the least-number principle (`HasNext`),
`RemovalAlwaysShows`. `ImplementsTrail` is the refinement, one step per action: an
INSERT that takes effect is an `Append` of `Trail` (`ExecuteAppends`), also when
its answer is lost, a prune is a `CutOldEnd` (`PruneIsPrefix`), a second writer
or a clock that is set back is a `Breaks`, and everything else stutters. That two
entries do not have one hash is an assumption of the model.

`NothingEverSkipped` is about `AuditPage`, for any size of a page and any number of
loads. A page is a part of the trail sorted by seq, so the proof first shows that a
finite set of numbers can be sorted (`SortExists`: of the sets that could not be, one
of the least size is its least element and a smaller set) and that an entry's
position is how many are newer (`Places`). `PageInv` then says that whoever the table
misses is newer than all of it or at a position behind its end (`Covers`), also once
the answer under way is put to it (`Coming`), and that a table as long as the count it
was given misses nobody (`Complete`). Entries that are written take a position at the
front and a prune leaves the positions of the others (`TrailShifts`), so positions
never move towards the front, which would skip somebody.

**PunchOtpProofs.** `AcceptedAtMostOnce` and `GuessesAreLimited` count: the
acceptances of a code and the verifications that are past the check are at most
as many as there are slots (`FewGiven`); the attempts of a row and the wrong guesses
not yet written are at most `MaxAttempts` and the slots less one (`FewGuesses`). The
rest ties a verification to the row it read: codes are numbered and one row has
each (`Numbered`, `OneRow`), an employee's mail is its own (`MailsOwn`), a code that
was spent has no row (`Spent`).

**MissedPunchProofs.** `NobodyRemindedTwice`: a check that was sent today is in
`sentChecks` from before its first mail (`BusyMarked`, `RemindedMarked`), so one tick
at most is busy with it (`OneBusy`), and what that tick has mailed is not in its
rows any more (`NoMailLeft`). `EverybodyReminded`: whoever is owed a reminder at a
time that has come is reminded, in the hands of a tick, or the minute is not over
and no tick has come yet (`Attended`).

**CardTokenProofs.** `OnlyWrittenTokensActive`: the tokens on chips are among those
that have landed, and so is the active token of every row in a database, in a
command, in a queue and in a replay; a command's new token enters a row as active
only after the write of the chip.

The other three are about the only terminal, which runs one command on the card at
a time (`OneByOne`), and rest on a second invariant, `OneInv`, relative to the first.
It has two layers. The first holds whatever overlaps a replay: there is one command
(`OneCommand`); without a copy one chip at most holds a token, that token was not
answered Ok yet, and what a tap has minted nobody has seen (`ChipsTrue`). From it
follows half of `TokenValidatesOnce`: nothing shows a token again once it was
answered. The second holds even with a copy, as long as no command overlapped a
replay (`Kept`). A replay then has the head of the queue in hand and nothing
changes beside it (`Replaying`); the queue never puts an older row over a newer one
(`Ascends`); and the mirror's row, the row that the queue will leave on the server
(`Central`) and the row a command is about to store are all `Sound`: none is older
than the server's row or the queue, none knows a token that was answered Ok, which
is the other half of `TokenValidatesOnce`, and each knows the token on the chip
while the card was provisioned once and nothing was copied. So no tap meets an unknown token and no
replay an older counter, which is `NeverAFalseAlarm`. A decision to block is in
the mirror and in `Central`, or still in the hands of its command (`Blocking`),
and no tap goes on rotating a blocked card: `BlockedStaysBlocked`. TLC checked `OneInv` on an
instance with two chips and a queue of two before its proof. Each assumption is
needed: two terminals, two commands at once or an overlap break these properties,
which section 5 describes.

**SessionProofs.** `Typed`, and: what a command got from a revoked session it cannot
use (`DeadStay`), from which `RevokedActsNever`; without crossing sign-ins one
command at most is about to change who is signed in, and what it will say agrees
with the program (`Entered`), from which `ScreenAgrees`; as long as nothing odd
happened, the open page is an administrator's, one list at most is awaited, and
the page shows the accounts or will ask for them again (`Listed`), from which
`AccountsTrue`.

**SettingsProofs.** One save is under way at a time and has read what it will write
back (`OneSave`); the address in the program, in the sidecar or in the hands of a
command agree (`OneAddress`, `Handed`); a link waits for what its command read
(`OneLink`, `Stashed`). From these `PasswordAlwaysKept`, `AddressesAlwaysAgree`,
`LinksGoAsAsked`. `TypeCorrect` includes the lock of the reader, whose queue names
each user once and is therefore bounded by them (`OnceEach`).

**AccountsProofs.** `TypeCorrect`: no two employees share an e-mail or a login, no
two accounts an e-mail, whatever overlaps. The other three argue about what a
command holds. Without overlap there is one command (`Alone`) and the row it read is
still the one stored (`Fresh`), so that `employee_terminate` marks a row whose cards
are blocked and whose login is gone, and nothing else changes a status:
`TerminatedAlwaysLast`. Whoever changes accounts is an administrator with a row, and
what it changes is not its own account (`Sparing`): it is the witness for
`AdministratorAlwaysRemains`, after any failure. As long as nothing odd happened, an
account without an employee, or an employee whose login is gone, is in the hands
of a command that will link or forget it (`AccountsLinked`, `RowsLinked`,
`Promises`): `LoginsAlwaysLinked`.

**The punch screen** (in `PunchOtpProofs`). No property of it is inductive: the list
on the screen is wrong for as long as a flow has written the mirror and not yet
said so. `ScreenInv` says what holds in between. Whoever waits for a card holds the
lock (`Holds`). Without overlap there is one flow, and none while a dialog offers a
punch (`OneFlow`), and what the screen keeps belongs to the reading it is about
(`ActsOwn`), from which `ActsOnlyForAsked`. What a flow captured, the list and the
mirror are then the same but for the punch that the flow has written, through both
calls of `handleSkipValidation` (`Shown`): `ScreenStaysTrue`. The punch to be
recorded, by a flow or by the button of a dialog, has no value yet (`RecordsFree`),
so recording it overwrites none: `PunchesStay`.

**The portal** (in `SidecarProofs`). `SeesOnlyOwn`: whoever signs in or restores a
session does so alone, from outside the portal, and an answer with data is of the
cookie's account from the request on (`Signing`). `RowsAreOfOne`: one load of the
table at a time, and it fills an empty table (`Table`). Both need only that no
answer was crossed, or no two loads overlapped; every other oddity may have
happened. `PortalPageAssumption` has `Dates` finite, because the rows are a
sequence made of the set of days that the query found.

**The employees' pages** (in `SettingsProofs`). Without overlap there is one save,
and under an open profile form only its own (`OneUnderWay`); a form that was taken
from a selection that was not stale stays as recorded until its save has written it
(`FormFresh`): `ProfileIsKept`, of the only step that writes a profile. What an edit
has not to write any more is recorded as its form says (`EditTold`): at the click
because it did not differ, afterwards because it was written, and nobody else
writes. `SavedIsAlwaysStored` is its end. `ListKept` says, of each kind of save, in
what the list may differ from the mirror until the save is told: the day edited; the
employee whose day is gone; anything, once a list read afterwards is on its way
(`KeepsTrue`). From it `ListStaysTrue`. The first field left to write is one of them
because a least index exists (`FirstIs`), for which `EmployeeEditorAssumption` has
`Keys` a sequence; and there is a time to type.

**The working hours** (in `MissedPunchProofs`). The copies differ most of the time:
what is invariant is where the calls under way will take them. `Will` says that the
last call of a sequence that has yet to pass a stage brings a value, or that none has
to pass it and the value is there. As long as no command overtakes another and SQLite takes what it is given, calls
pass the stages in the order they were sent (`InLine`), a save that queued its row
has not seen it go (`RowsWait`), the migration reads no empty mirror
(`AsksFilled`), and there are hours that the backend takes on their way to the
mirror and to PostgreSQL, or there: the ones that the main window keeps in
localStorage, unless those are refused (`MainWord`). The splash screen may have read
other hours than the mirror has (`SplashWord`); whoever has still to read the mirror
mends it (`Mends`). `CopiesAlwaysAgree` and
`CentralIsOrWillBe` follow, whatever the program ended in. Without a crash and
such a start, the hours chosen last are on their way to the
mirror also through the windows that ask and answer (`ChosenComes`):
`HoursAreKept`. Of `Refused` and `Parsed` the proof uses that the default is taken
and read as itself (`WorkHoursAssumption`). `OneWindow` and `Guided` say which windows and senders there are at
each step of the wizard and of the boot.

**Only model-checked.** The liveness properties (`OfflineQueueDrains`, `Converges`,
`RotationsReplayed`, `DialogTold`): the prover has no rules for fairness. Every other
property of the runs is a theorem.

## 7. Not modelled

- **Retention of employees** (`retention.rs`, the sidecar's purge of sessions): it
  deletes rows that nothing else reads any more. The prune of the trail is in
  `AuditChain`.
- **UI components**: about 7,000 lines of widgets of third-party origin, without
  program logic. **Reports and mail texts**: formatting of rows read once.
- **Key derivation and APDU framing**: pure encodings. The sector writes of one
  chip operation are one step that may fail before or after its effect.
- **Employees' pages**: `total_hours`, which a saved day shows as it was when the
  date was selected (`employees.tsx:233-246`), and the access level in the profile
  form (`db/commands.rs:140-145`; `SetsRoleOf` of `Accounts` has it).
- **Sessions**: the page of the accounts lists 100 accounts at most
  (`auth/commands.rs:266`), and `AccountsTrue` speaks of no more; rate limits of the sign-in, expiry by age, the change of one's own
  password, display preferences. Better Auth is modelled as the code uses it.
- **PunchSync**: clock skew between kiosks and server, constraint errors of
  `time_entries`, malformed outbox rows.
- **Compositions**: the pages meet the databases as calls that succeed, fail or
  answer late; replication beneath them is in `PunchSync` only. The hours of the
  sidecar are a constant of `MissedPunch`'s start and their way there is in
  `WorkHours`.
- **Formulas without a configuration**: `FlowsEnd`, `AskedIsHeard`, `DayEnds`
  (`PunchScreen`), `EditsReachMirror` (`PunchSync`: an edit in the portal reaches a
  kiosk that stays connected only at its next start or refresh),
  `DoubleUseDetected` (`CardToken`: two terminals advance the same counter
  offline, and equal counters are no conflict), `MarksExact`, `RowsPicked`,
  `ListsEveryone`, `ProfileKeptAlways`, `HoursStay`; and the type invariants, which
  were checked on these instances while the modules were written.

What is still to do is steps 14 and 15 of section 2.
