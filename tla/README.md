# IncidentRelay: a TLA+ model of its alert handling

IncidentRelay receives alerts from monitoring systems, groups them, pages the
people on call, and follows them until they are resolved. This directory holds
TLA+ models of the parts of it whose correctness depends on the order in which
processes touch shared rows: what they do is checked with TLC on small
instances and, where the prover can reach it, proved with TLAPS for every value
of the constants. Paths below are relative to the repository.

## 1. The system

### Processes and shared state

The program is a set of processes around one SQL database (PostgreSQL, MySQL or
SQLite): web workers serve the API and the integrations' webhooks, one or more
scheduler processes (`app/scheduler_worker.py`) run interval jobs in APScheduler
threads, and the Slack and Telegram workers turn button presses into the same
service calls. No component talks to another except through rows. Three facts
about how rows are read and written decide what can go wrong:

- peewee's `row.save()` writes **every column** of the object, including the
  ones it read long ago; `save(only=[...])` and `Model.update(...).where(...)`
  write the named columns, the latter under a condition tested by the database;
- outside `atomic()` each statement is its own transaction, so a row may change
  between any two statements. Inside one the application sets no isolation level;
  the models assume READ COMMITTED, PostgreSQL's default. MySQL's REPEATABLE READ
  would let later reads of a transaction come from an older snapshot;
- some handlers take a lock first: acknowledge, resolve and shelve select their
  group `FOR UPDATE`; a reopen takes an advisory lock on the grouping identity
  (a row lock on the route, or `BEGIN IMMEDIATE`, on the other databases);
  every scheduler job runs under an `AppLock` row.

### Inventory

| component | state it keeps | operations | what is hard | what makes it correct |
|---|---|---|---|---|
| Scheduler job lock (`services/db_lock.py`, `modules/db/locks_repo.py`) | one `AppLock` row per job: owner, `expires_at` | insert, take over an expired row, release | processes that overrun the lease or die | a job body is not run twice inside a live lease; a dead owner's row does not block the job |
| Paused orchestration events (`services/orchestration/pending.py`) | `PendingOrchestratedEvent`: status, unique `active_key`, deadlines, attempts, claim token | store, retrigger, resolve, claim, activate, fail, requeue, retry, cancel, clean up | claims that outlive their holder, requests racing the worker, a crash between two statements | an event is activated at most once; ended rows stay ended; every event is eventually settled |
| Alert groups and child alerts (`services/alerts/lifecycle.py`, `actions.py`, `reopen.py`, `modules/db/alerts_repo.py`) | `AlertGroup`, `Alert`: statuses, counters, links | intake of a payload, acknowledge, resolve, reopen, merge, assign, recalculate | whole-row saves of copies; lookup and insert are not atomic | one open group per identity and one open alert per key; a resolution is not undone |
| Notification queue and reminders (`services/alerts/notification_queue.py`, `reminders.py`, `services/notifications/delivery.py`) | `notification_due_at`, `last_notification_at`, `reminder_count` on the group | enqueue, select due, re-check, deliver, mark or clear, remind | a delivery takes seconds, and the group changes meanwhile | whoever must be paged is paged; the save after a delivery does not undo what was decided meanwhile; the queue drains |
| Delayed recovery delivery (`notification_queue.py`) | the group's queue entry with reason `recovery`, a `RecoveryNotificationDelivery` per target | schedule, freeze, deliver, retry, cancel | a reopen or a second resolution racing the deadline | recipients are frozen once, told at most once, and never for a resolution that was reopened |
| User deliveries (`services/notifications/rules.py`) | `UserNotificationDelivery`: status, due time | create, claim, send, skip, cancel, reclaim | abandoned claims; a reopen or reassignment during the send | how often a message can leave is bounded; a resolved message is not sent after the reopen |
| Escalation (`services/alerts/escalation.py`) | rule, cycle and `next_escalation_at` on the group | advance, repeat, stop | holds that stop and restart the timer | it runs only while nothing pauses it, and comes back when nothing does |
| Shelving, silences, maintenance (`services/alerts/shelving.py`, `services/silences.py`, `services/maintenance.py`) | suppressions with an end | start, end, expire, release | several suppressions over one group | a group is released only when nothing suppresses it |
| Orchestration webhooks (`services/orchestration/webhooks.py`) | delivery rows: status, attempts, claim | enqueue, claim, deliver, retry, requeue | limits counted before the claim; requeues that do not count as attempts | bounded attempts, concurrency and rate |
| Incident workflow and responders (`services/incidents/*`) | incident status, `row_version`, links, requests | transitions, link, resume, accept, expire | optimistic versions next to row locks | transitions follow the table; a group has one open incident; an answer is not taken back by the expiry |
| Heartbeats (`services/heartbeats/service.py`) | last ping, status | ping, overdue check, recover | a ping during the check | a check that went silent gets an alert, whatever came before, if the batch reaches it |
| Login throttling (`services/auth_throttle.py`) | a counter per identity | fail, block, reset | lost increments | no more than the allowed failures in a window |
| Orchestration rules, routing, on-call rotations | none (pure functions of events, calendars and configuration) | evaluate, match, who is on call | precedence, date boundaries | the calendar shows whom a page reaches |
| Correlation, business impact (`services/alerts/correlation.py`, `services/business_services/*`, `services/service_catalog/impact.py`) | `AlertGroupCorrelation`, the status of business services, their impacts | refresh after each change of a group | refreshes after the commit, on copies, that may fail or overlap; cycles and a depth limit in the graph | stored rows are what the graph and the open groups imply, once something refreshes them |
| Service catalog, analytics, retention | recorded or expired rows | report, delete | little | no effect on the lifecycle above |
| Integrations, notifiers, API, SSO, RBAC, UI | none of their own | parse, format, send | external systems | out of scope |

`PROJECT.json` lists the same components with their files and status, and under
`hazards` every place found where a test would hardly reach what can go wrong.

## 2. The modules

| module | models | role |
|---|---|---|
| `AppLock`, `AppLockProofs` | the scheduler job lock | specification; theorems |
| `PendingEvent`, `MCPendingEvent`, `PendingEventProofs` | paused orchestration events and the requests and jobs that use them | specification; symmetry for the safety run; theorems |
| `AlertGroup`, `AlertGroupProofs` | groups, alerts, the queue and reminder workers, operators | specification; theorems |
| `MCAlertGroup` | two instances of `AlertGroup`, side by side: handlers that run alone and handlers that overlap | composition for TLC |
| `Recovery`, `RecoveryPromise`, `DeliveryProofs` | delayed recovery delivery | specification; what it promises, as an abstract specification; theorems |
| `UserDelivery`, `DeliveryProofs` | user notification deliveries | specification; theorems |
| `MCDelivery` | the two delivery queues, side by side | composition for TLC |
| `Webhook`, `WebhookProofs` | the orchestration webhook queue | specification, run directly; theorems |
| `Incident`, `MCIncident`, `IncidentProofs` | incidents, their links and the reopen of a linked group | specification; symmetry and a bound for TLC; theorems |
| `Hold`, `MCHold`, `HoldProofs` | shelves, maintenance windows and the escalation timer of one group | specification; the scenarios explored; theorems |
| `Silence` | silences and the alerts they hold | specification |
| `Heartbeat` | heartbeat checks, their pings and the overdue job | specification |
| `MCScheduler` | `AppLock`, `PendingEvent` and `Heartbeat`, side by side | composition for TLC |
| `Responder` | responder requests | specification |
| `OnCall` | one rotation layer, for the pager and for the calendar | two computations of the same thing |
| `MCServices`, `ServicesProofs` | `Silence`, `Responder` and `OnCall`, side by side | composition for TLC; theorems |
| `ServiceImpact` | service impact over the dependency graph, status of a business service | operators |
| `AlertContext`, `MCAlertContext` | correlations, business statuses and business impacts after a change of a group | specification; the catalogues explored |

The components meet in the alert group row. `AlertGroup` has that row with
every statement that touches it apart; the modules that need the group for
something else (`Recovery`, `UserDelivery`, `Hold`, `Silence`, `Incident`)
carry the columns they read and write and take the group's own life (it fires,
is resolved, is reopened) as short actions.

Definitions keep the name of the function they translate where there is one;
`PROJECT.json`'s `map` gives the lines. A definition introduced by "Defect",
"Variant" or "A plausible slip" is a deliberately wrong form of the one that
follows it: putting it in place of the right one shows that a property notices
(`mutants`).

### AppLock

State: the clock, the row (owner, `expires_at`), and per process the statement
of `acquire_lock` it is at, the owner id `make_owner` drew and the clock value
`acquire_lock` read on entry. `Insert`, `Check` and `TakeOver` are the INSERT,
the SELECT and the conditional UPDATE; `Finish` is the job's `finally`; `Crash`
is possible at every statement. A job may run as long as it likes, also past
its lease.

### PendingEvent

State: the table; whether an alert fires for each fingerprint; per scheduler
worker the stage of `process_due_pending_events`, its batch and the claim it
believes it holds; per request the stage of `_upsert_alert` and what it read.
Every SQL statement is a step, except that the activation transaction is one
step (it takes the row's lock with its first UPDATE and holds it until the
commit), and that the requeue of stale claims and the SELECT of due rows are one
(the SELECT only nominates rows: `Claim` tests them again). `Crash` loses a
worker between any two statements. Deadlines are kept as the time left, so the
state space is finite without a bound on the clock.

What is abstracted: the payload to its status; the alert lifecycle an activation
runs to `AlertAfter` or an exception (`MayRaise`); the rules to the disposition
they choose (`drop`, `pause`, `process`) and the retrigger mode. `PauseResolves`
says whether the pause rule also matches resolve events.

### AlertGroup

All payloads share one grouping identity, the case in which handlers meet; `Keys`
are the dedup keys inside it. State: the rows, and per handler the next statement
and the copies it holds. A handler is split at every statement outside a
transaction, and a save of a copy writes all of the copy's columns:

- a payload: `Arrive` (`find_existing_alert`), `FindGroup`
  (`find_open_alert_group` and the returns for orphan resolves), then for a known
  alert `UpdateAlert`, `SaveGroup`, `SaveAlert`, `Count`, `Recalculate`,
  `Enqueue` and perhaps `Notice`; for a new one the transaction `AddChild`, or
  `AddChildLocked` under the identity lock of a reopen policy, both with the
  recalculation they end in, then `EnqueueNew`;
- operators: `Acknowledge`, `Resolve`, one step each, under the row lock;
- the queue worker: `SelectDue`, then per group `Reload`, `Count`, `Recalculate`,
  `Send` (the re-check in `notify_alert`), `Deliver` (the channels, and
  `group.save()`), `Mark` or `Clear`;
- the reminder worker: `Remind`, `Send`, `Deliver`, `Mark`.

Due times are opaque stamps, compared for equality only; a queued notification
may become due at any time. `MaxInFlight` says how many handlers may overlap:
with 1 each handler runs alone, which separates what the sequential logic
guarantees from what overlapping adds. `AloneActs` confines operators to the
moments between handlers.

What is abstracted: titles, labels, priorities (saved with `only=`, so they
cannot overwrite a status); the reason of a queued notification, folded into its
stamp; channels, to an outcome: reached, no target, or an exception. A silence
only matches an alert at its creation. `RECOVERY_NOTIFICATION_DELAY_SECONDS` is
0, its default, so a resolved notification is sent by the request that resolves.
The reopen transaction is one step under the identity lock; the lookup of the
resolved group inside it and the first write are not separated.

### Recovery and RecoveryPromise

State: the clock; the group's status, the number of its resolution
(`resolved_at`) and its queue entry; the ledger of `RecoveryNotificationDelivery`
rows per resolution and target; the request between its save of the resolved
group and `schedule_recovery_notification`; the workers. `_process_due_recovery`
holds the identity lock and the row lock while it sends, so it is one step
(`ProcessRecovery`), or it sends something and is rolled back (`Abort`). The
other branch of the same job saves a whole row it read earlier (`ReloadFiring`,
`SaveFiring`) and may so write over a queued recovery. `Resolve` and `Reopen`
are the requests, `ResolveByHand` the operator, who is told at once.

`RecoveryPromise` says what is left when the statements are forgotten: a
resolution's recovery is open or not, its recipients are fixed once, each is
told at most once, and nobody is told when it is not open. `KeepsPromise` maps
the queue entry to `open`, the rows of the ledger to the recipients and the rows
with status `sent` to those told; every step of `Recovery` is one of the
promise's or changes none of the three.

### UserDelivery

State: the group's status, resolution number and assignee; the delivery rows; per
request and per run of `process_due_user_notifications` the next statement and
the row it is at. A page is checked and sent without a lock, in two steps; a
resolved message is sent in a transaction under the identity lock, in one, or it
leaves and the transaction is lost (`Rollback`). `Die` loses an actor at any
statement; `ReclaimSlow` takes a claim back from a worker that is only slow.
`Hold` stands for the acknowledgement and the shelf, which cancel pending pages,
and for a maintenance, which does not.

`MCDelivery` runs `Recovery` and `UserDelivery` in one state space. To the
recovery ledger the user rules are one target, a call that succeeds or fails, so
the two have no variable in common and in a behaviour only one of them moves.

### Webhook

State: `AutomationExecution` rows; per run of the job its candidates, the row it
works on and the result it got. The requeue of stale claims (`JobStart`), the
SELECT of candidates (`SelectDue`), the capacity count, the claim, the re-check of
the claim, the request and the write of its result are steps of their own. A claim
may be taken back while its worker lives, or not be taken back though it is dead;
each counts as a fault.

### Incident

State: incidents, links, groups, row locks, requests. A request reads and
validates (`BeginTransition`, `BeginLink`, `BeginReopen`), then works in a
transaction whose lock statements wait. A `row_version` is compared with the
version a request knows and with nothing else, so an incident keeps the set of
requests whose version is still current, and a `compare_and_swap` empties it:
the version needs no bound. A reopen locks the incident it finds linked and then
the group (`BeginReopen`, `Restart`), and before its commit reads the link again
and locks that incident (`ReadLink`, `LockLinked`, `CommitReopen`), which may be
another one. A cycle of waiting transactions is broken by the database
(`BreakDeadlock`).

### Hold

State: the columns of the group that shelves, maintenance windows and the
escalation timer read and write; the windows; the application of each window to
the group, ended ones with the status they remember (`latest`: which is the
newest); the shelf; the request between the commit of a window and its
reconciliation; the shelf the expiry job has selected. `Recomputed` is
`_recompute_group_effects`, the function every command, job and release ends in.
The bodies of the jobs and of the row-locked handlers are steps; what a stale
copy does to the same row is `AlertGroup`'s subject.

### Silence, Responder, OnCall and MCServices

- `Silence`: a handler reads silences, applications and alerts, then writes them
  in one transaction, so there is a step for the reads and one for the
  transaction. The API saves the silence first and reconciles in a second
  transaction, and may die in between; for a silence moved to a later start it
  clears `reconciled_at` in a save of its own after the release (`SaveScheduled`),
  and when the request dies before that save the silence is not taken up at its
  start. A new alert is committed first (`CreateAlert`) and its group queued
  afterwards, from the copy the intake holds (`Enqueue`). `raced` records that a
  handler read while another was about to write: the safety invariant is about
  histories in which none did, the liveness property about all of them.
- `Responder`: a request is looked for before it is created, an answer validated
  on a row read before; only the expiry job writes under a condition.
- `OnCall`: time is counted in units, a day has `Day` of them. Local time differs
  from UTC by `delta` from `Shift` on. `OnCallUser` is what `oncall.py` answers
  for an instant, `Segment` one turn of the loop in `calendar_service.py` that
  draws the range; `CalendarAgrees` compares them. The calendar goes by the
  periods that cover an instant (`Present`), the pager by those among them that
  are still active (`OnDuty`): a period that was ended as of a later date is
  inactive at once. `CalendarAgrees` leaves out the instants where the two differ,
  and section 3 says how the program gets there. `Layers` are the layers to
  draw (`LayerRows` says what a layer is); a calendar layer hands over every so
  many whole days. Every user counts as active: the calendar shows an inactive
  member (`calendar_service.py:132`), the pager skips one.
- `MCServices` runs the three in one state space. They share no rows, so in a
  behaviour one of them moves (`part`) and the others rest; nothing is lost,
  because a step of one cannot enable or disable a step of another. `MCScheduler`
  and `MCAlertGroup` are built in the same way.

### Heartbeat

State: the rows of the checks, whether each one's alert is open, per check a ping
under way with the row it read, and the overdue job with its batch of copies. A
ping and the job each save whole a row they read before. A ping resolves the
alert (`ResolveByPing`) and saves the row (`SavePing`); the job saves the row
(`MarkOverdue`), raises the alert (`Raise`, or intake gives no group:
`RaiseNothing`) and links it (`Link`); either may die in between. `Candidates` is
the job's query: the `Limit` checks whose deadline passed first, those already
reported among them. `next_expected_at` is kept as the order in which deadlines
passed. Interval mode only; some checks have `auto_resolve`.

### ServiceImpact and AlertContext

`ServiceImpact` has the scores, the weakening of an impact along a dependency,
the recursion of `_compute_service_impact` with its depth limit and its path of
services (`Compute`), the blast radius and the status of a business service,
over a graph given as the rows of `ServiceDependency`. Scores are integers;
`Rounded` is Python's `round`.

`AlertContext` is what a handler does with the graph after it has committed a
group: `Correlate` and `Record` (the search and the writes of
`refresh_alert_group_correlations`, which has no lock in between),
`RefreshBusiness` (each business service under its row lock), `PlanImpacts` and
`WriteImpact`, and for a new alert the second correlation at the end. `Raise` is
an exception in any of them, which is logged and forgotten; `Die` ends the request
between the commit and the last refresh.

Not every change is followed by refreshes. A silence or a maintenance window sets
the group's status and refreshes nothing (`Suppress`, `Release`), and neither does
an edit of the catalogue (`Edit`, the removal of a dependency). The views that show
a business service calculate and store its status first (`View`). Four histories
record what these leave behind: `raced` (groups whose refresh was overtaken),
`missed` (a group's correlations or impacts not refreshed since it changed),
`behind` (business services not calculated since they should have been) and `cut`
(impacts an edit has put out of the reach of their group). The next refresh, or for
a business status the next view, takes an entry out again, so the properties also
say that it repairs. What it does not repair is `cut`: an impact that is no longer
reached stays while the group has another one to write.

## 3. What is checked

Passing runs (`tlc -config <cfg> <module>`):

| run | instance | properties | shows |
|---|---|---|---|
| `scheduler` | lock: 2 processes, 3 owner ids, lease 2, clock up to 5; paused events: 1 worker, 1 request, 2 rows, 2 events, 1 crash, 2 attempts; heartbeats: 2 checks, one with `auto_resolve`, a batch of 1, 1 ping, 1 command, 1 failure | `LockInv`, `NoOverlapWithinLease`, `OrphanRecovered`; `PausedEventSettles`; `DeadIsReported` | whatever overruns and crashes happen, two job bodies do not overlap inside live leases, and a dead owner's row goes away; a paused event ends or is parked as failed; a dead producer is reported, whatever pings, crashes, pauses and resolutions by hand came before, unless reported checks fill the batch |
| `pending_safety` | 2 workers, 2 requests, 2 rows, 2 events, 1 crash, 2 attempts | `PendingInv`, `ActivatedOnce`, `SettledForGood`, `ClaimFenced` | a paused event becomes an alert at most once, ended rows stay ended, and only the holder of the current claim writes to a claimed row |
| `alerts` | alone: 2 keys, 4 payloads, one handler at a time; overlap: 1 key, 3 firing payloads, 3 handlers, a reopen policy, failing and raising deliveries | `AlertInv`, `ResolvedFinal`, `FirstPage`; `NoDuplicatesInOverlap`, `QueueDrainsInOverlap` | the sequential logic is right: statuses agree with the children, resolutions hold, nothing is opened twice, and every firing group is paged; under overlap the identity lock leaves one open group and one open alert, and although stale saves may restore or drop a queue entry, every entry leaves the queue |
| `deliveries` | ledger: 2 targets, 1 worker, 2 resolutions, 3 attempts, 1 rollback; users: 1 row, 1 request, 2 job runs, 3 resolutions, 2 faults, 2 early leases | `RecoveryInv`, `NoStaleRecovery`, `RecoveryKept`, `RecoverySettles`, `KeepsPromise`; `DeliveryInv`, `ResolvedFenced`, `ResolvedSettles` | a recovery leaves only for the resolution that queued it and after its delay, only a rollback repeats a message, the entry always settles, and the ledger implements the promise; a delayed page leaves once, an immediate one at most twice, a resolved message once, never after the reopen or to the old assignee, and its row always settles |
| `webhooks` | 2 rows, 2 job runs, 2 attempts, concurrency 1, 2 faults | `WebhookInv`, `FinalStays`, `WebhookSettles` | attempts and, unless job runs overlap, concurrency keep their limits; late answers change nothing, also when another run has requeued the claim and selected the row again; every request is answered for |
| `incidents` | 1 group, 2 incidents, 2 links, 2 requests, 5 of the 7 statuses | `IncidentInv`, `StatusGraph`, `ResumesIncident`, `DeadlockNeedsLateLink` | links stay unique, statuses follow the table, a reopened group leaves no linked incident resolved although links change while it waits, and requests deadlock only over a link made between a reopen's two reads |
| `holds` | 2 windows, or 1 window and up to 2 shelves; 2 rules | `HoldInv`, `ShelfKept`, `TimerRespectsHolds`, `EscalationResumes` | the status to return to is known, a newer shelf survives the expiry job, no release starts a timer another window pauses, and the last one does start it |
| `services` | 2 silences and 1 alert; 2 responder rows; 14 units of 4 a day | `SilenceInv`, `SilencedReleased`, `AnswerStands`, `CalendarAgrees` | a silence does not release what another holds and the last one does; an answer stands; the calendar shows whom a page reaches where no inactive period covers the instant |
| `alert_context` | 4 services in 4 graphs, 2 groups, 2 business services, 2 requests, 3 events (changes, silences, windows, removals, lost refreshes, deaths), depth 2 | `ContextInv` (with `BusinessCurrent` and `FlagsHonest`), `WorseNeverHelps` | once they are refreshed, stored correlations and impacts are those the graph implies, also where a cycle joins two groups in both directions; no business service keeps an old status over a refresh or a view; a score cut short by the depth limit says so; one more alert never makes a service look better |

Three runs end in a counterexample to what the documentation or a comment says:

| run | statement | what happens |
|---|---|---|
| `maintenance_deleted` | "Deleting the window ... always releases effects that no longer belong to the window." (`docs/concepts/maintenance-windows.md:451`); "The periodic scheduler rechecks every window and can repair a transient reconciliation failure" (`services/maintenance.py:62`) | the deletion commits, its reconciliation fails, and the scheduler reconciles the deleted window without `force_release`: with `reactivate_on_end` off the application is retained and the group keeps the effect for ever |
| `ack_lost` | "Reload before recalculation so a stale firing object does not overwrite the persisted acknowledged state." (`notification_queue.py:399-401`) | the reloaded object is held during the delivery and saved whole afterwards, by `notify_alert` and by `mark_alert_group_notification_sent`: an acknowledgement that commits during the delivery is overwritten (`WorkerKeepsAck`) |
| `impact_ends` | "When an alert is resolved or no longer affects the Business Service, the impact record is deactivated." (`docs/concepts/business-services.md:219`) | `impact.py:197` ends impacts only when nothing is affected: after the removal of a dependency the group's other impact keeps this one alive (`ImpactEnds`) |

### Races the properties exclude

Some properties hold under a condition because the code does not keep them
without it. Changing the condition in the configuration shows the trace:

- `ResolvedFinal` and `AlertInv` are checked for handlers that run one at a time;
  they do not catch what overlap does. With `MaxInFlight = 2` an acknowledgement
  is lost (`ack_lost`); a repeated firing payload
  revives an alert an operator resolved in between; and a request that counted
  the children before a reopen (with a reopen policy) saves `resolved` after it.
  One cause: a copy read
  without a lock is saved whole after another handler has committed.
- `NoDuplicatesInOverlap` needs `Reopen = TRUE`: without a reopen policy
  nothing serializes the lookup and the insert of a new alert. It also needs that
  no handler is under way when something is resolved: if an operator
  (`AloneActs = FALSE`) or a resolve payload closes a group, and a new payload
  opens the next one, a handler that still has the old row saves it as open.
- `OneOpenUnlessReopened` (in `IncidentInv`) excepts incidents that were closed and opened again:
  `transition_incident` does not look at links, so a group can then belong to
  two open incidents, which `docs/incidents/release-notes-2.3.md:63` excludes.
- `RecoveryKept` excepts a firing-branch worker that saves its old row;
  `WebhookInv` excepts overlapping runs of the job; `SilenceInv` overlapping
  handlers; `CalendarAgrees` handoffs and restriction edges inside the hour the
  clock change repeats or skips.
- `CalendarAgrees` also excepts instants an inactive period covers. Adding a member
  with a later `starts_at` (`rotations_repo.py:705-718`) makes the old period
  inactive at once and ends it at that date. The pager reads active periods only
  (`rotations_repo.py:635`), the calendar all of them (`658-697`): until that date
  the calendar shows a user whom no page reaches, although
  `docs/usage/calendar.md:14` says it "shows on-call duty calculated from
  rotations, rotation layers, layer member periods, restrictions and overrides."
  Without the condition `OnDuty(t) = Present(t)` the run `services` shows it.
- `ResumesIncident` excepts, like `OneOpenUnlessReopened`, incidents that were
  closed and opened again; `DeadlockNeedsLateLink` one cycle.
  `restart_resolved_group` locks the incident it found linked, then the group;
  `_resume_linked_incident`, in the same transaction, reads the link again and
  locks that incident. If the link was made in between, the reopen waits for an
  incident while it holds the group, and a request that links that incident to the
  group holds it and waits for the group, which "Respect the lock order used by
  Incident linking: Incident before AlertGroup." (`reopen.py:109-110`) means to
  exclude. The database then rolls one of them back (`BreakDeadlock`).
- `ContextInv` excepts groups whose correlation was overtaken: between the search
  and the writes another group can resolve, and the late write leaves an active
  row with a resolved group until one of the two changes again. It also excepts
  what was never refreshed: a silence, a maintenance window or an edit leaves
  correlations, impacts and business statuses as they were until the next change
  of the group, a business status until somebody views it. And it excepts the
  impacts in `cut` (`impact_ends`). `BusinessCurrent` holds over overlapping
  refreshes because each calculates under the row lock of the business service,
  which takes READ COMMITTED. `WorseNeverHelps` excepts services whose own status
  is `unknown`, which gives way to a smaller upstream impact; it is about scores.
- `DeadIsReported` excepts a check behind a full batch of reported ones
  (`Crowded`): `list_due_heartbeat_candidates` takes the oldest deadlines first,
  100 by default, `mark_heartbeat_overdue` leaves a check already reported as it
  is (`service.py:532-535`), and so the check behind them is never selected, although
  "When a heartbeat becomes overdue, IncidentRelay creates a normal alert group"
  (`docs/concepts/heartbeats.md:35`). Without the condition the run `scheduler`,
  where a batch takes one check, shows it. The property says nothing of the
  converse: a ping between the job's save and its link leaves an alert open for a
  check that is fine.
- A paused *resolve* event cannot be activated (it resolves its own row and is
  rolled back), and a resolve that meets a paused re-trigger never reaches the
  alert that already fires; `PendingEvent` has both behaviours.

### Bounds, and why they are enough

- Two workers and two requests: the protocols are pairwise. A claim, a lock or a
  copy is lost to one other actor; a third one meets the state the second left.
  `Recovery` has one worker: the job runs under an `AppLock`, which leaves one
  worker within its lease, and the row lock orders its transaction with a second
  one; the other writers are the requests.
- One crash puts a row in the only state a crash can leave (claimed or locked by
  nobody alive); two or three attempts distinguish a retry from the last one; the
  claim TTL and the pauses are one tick, so that each deadline can pass, and not
  pass, between any two statements.
- In `AlertGroup` a payload creates at most one alert and one group, so
  `MaxEvents` bounds both. Four payloads are enough for open, join, resolve and
  open again with two keys; the races need one to three.
- `Dues` has a stamp for every place that can hold one, so the stamps never run out.
- `Failures` is empty in the first instance of `MCAlertGroup` since `FirstPage` is a promise about
  deliveries that reach someone.
- `MaxTime` of `AppLock` stops the clock; a crash is allowed early enough for the
  row it leaves to expire before that.
- `UserDelivery` has one row: rows do not interact, except that a cancellation
  takes all of them. Three resolutions make a row older than the last but one.
- `Webhook` has two rows for a concurrency of one, so that the limit is felt.
- `Incident` has two incidents that compete for one group, and two links. Nobody
  asks for the statuses `identified` and `cancelled` (`Asked` in `MCIncident`): to
  links, locks and resumptions they are an investigated incident and a closed one
  that nobody opens again. The theorems have no such bound.
- `Hold` explores two windows with every pair of different behaviours, or one window and a
  shelf that is replaced; three effects at once add no new pair. `Rules = 2`
  without repeats has a rule to escalate to and a last one.
- `Heartbeat` has two checks and a batch of one, so that one can stand in the
  other's way; one ping, one command and one failure each leave every stale copy a
  row can get.
- `OnCall` draws fourteen units: three days and a half of four units, a week of
  two days, so that every restriction wraps a day and a week; the clock changes
  by two units in the middle, so that there is a time of day inside the change.
  `SampleLayers` has every restriction with every cadence and roster; the theorem
  has neither these bounds nor these layers.
- `AlertContext`: a depth limit of 2 and graphs of four services put something
  behind the limit, on a cycle inside it and on one that crosses it; two groups
  are a pair to correlate; three events (`MaxEvents`) open both and resolve, repeat,
  silence or cut off one, or lose a refresh. `Removable` names the dependencies an
  edit may remove. `impact_ends` has one group.
  `MaxTime` is more than twice the propagation delay, so that a pair qualifies
  or does not.
- `CHECK_DEADLOCK FALSE`: when the payloads, calls, pings and commands are used
  up and the queues are empty, the system rests.

### Fairness

- `AppLock`, `PendingEvent`: weak fairness of the clock, of each scheduler
  process (the interval trigger keeps firing the job, and a job goes on to its
  next statement) and of each accepted request. Nothing is assumed about
  arrivals, operators, crashes, cancellation or retention.
- `AlertGroup`: weak fairness of each request and of a reminder that has begun;
  strong fairness of the queue worker, because it shares `MaxInFlight` slots with
  the requests. That bound is the model's, not the code's: in the program the
  scheduler is a process of its own and is never kept from starting its job by a
  request.
- `Recovery`, `UserDelivery`, `Webhook`: weak fairness of the workers (and of the
  clock and the reclaim, which are part of the scheduler's job), and of a request
  that has begun. A rollback, a death or a lost lease is never fair.
- `Hold`: the lifecycle job, the expiry job, the queue and the reminder job are
  run again and again, a shelf has an end, and a request that does not die
  reconciles. Nothing is assumed of windows, commands and operators.
- `Silence`: the same of its job, its requests and the intake of an alert that has
  begun. `Heartbeat`: its job is run again and again and goes on to its next
  statement, deadlines pass, a ping that has begun goes on; a death and an intake
  without a group are never fair. `Responder`, `OnCall` and
  `AlertContext` have no liveness property.

## 4. What is proved

| theorem | module | statement |
|---|---|---|
| `LockInvariant`, `NoOverlap` | `AppLockProofs` | `Spec => []LockInv`, `Spec => []NoOverlapWithinLease` |
| `PendingInvariant`, `ActivationOnce` | `PendingEventProofs` | `Spec => []PendingInv`, `Spec => []ActivatedOnce` |
| `Settled`, `ClaimsFenced` | `PendingEventProofs` | `Spec => SettledForGood`, `Spec => ClaimFenced` |
| `AlertInvariant` | `AlertGroupProofs` | `MaxInFlight = 1`: `Spec => []AlertInv` |
| `ResolvedFinalHolds` | `AlertGroupProofs` | `MaxInFlight = 1`: `Spec => ResolvedFinal` |
| `NoDuplicatesHolds` | `AlertGroupProofs` | overlapping handlers, `Reopen`, `AloneActs`, no resolved payloads: `Spec => []NoDuplicates` |
| `RecoveryInvariant` | `DeliveryProofs` | `Spec => []RecoveryInv` |
| `NoStaleRecoveryHolds`, `RecoveryKeptHolds` | `DeliveryProofs` | `Spec => NoStaleRecovery`, `Spec => RecoveryKept` |
| `RecoveryRefinesPromise` | `DeliveryProofs` | `Spec => KeepsPromise`, that is `Spec => Promise!Spec` |
| `DeliveryInvariant`, `ResolvedFencedHolds` | `DeliveryProofs` | `D!Spec => []DeliveryInv`, `D!Spec => ResolvedFenced`, where `D` is `MCDelivery`'s instance of `UserDelivery` |
| `WebhookInvariant`, `FinalStaysHolds` | `WebhookProofs` | `Spec => []WebhookInv`, `Spec => FinalStays` |
| `IncidentInvariant`, `StatusGraphHolds` | `IncidentProofs` | `Spec => []IncidentInv`, `Spec => StatusGraph` |
| `ResumesIncidentHolds`, `DeadlockNeedsLateLinkHolds` | `IncidentProofs` | `Spec => ResumesIncident`, `Spec => []DeadlockNeedsLateLink` |
| `HoldInvariant`, `ShelfKeptHolds`, `TimerRespectsHoldsHolds` | `HoldProofs` | `Spec => []HoldInv`, `Spec => ShelfKept`, `Spec => TimerRespectsHolds` |
| `SilenceInvHolds`, `CalendarAgreesHolds`, `AnswerStandsHolds` | `ServicesProofs` | `Spec => []SilenceInv`, `Spec => []CalendarAgrees`, `Spec => AnswerStands`, where `Spec` is `MCServices`' |

They hold for every set of processes, requests, keys, rows, windows and targets
and every limit, under the named assumption of each module. Those say that the
constants have their types, that NULL is not a member of the set it stands
beside, and in a few places a little more: the intake, the job and the requests of
`Silence` are different handlers (`SilenceAssumption`); the clock changes by at
most a day and a calendar layer hands over after whole days (`OnCallAssumption`);
`Keys # {}` and `Groups # {}` (there is something to alert on),
`IsFiniteSet(Workers)` (a count of running requests
exists), and `2^n \in Nat` for the retry numbers, an arithmetic fact the prover's
backends do not know of their own. TLC evaluates every assumption in the runs.

*The lock.* Non-overlap is not inductive: nothing in it says why a process that
runs owns the row. `LockInv` adds that a process inside its lease owns the row
(`LeaseOwned`), that processes under way carry different owner ids
(`OwnersDistinct`), and that the clock value a process read is not in the future
(`ClockNotAhead`), which is what makes `TakeOver`'s test with an old clock value
safe: a row expired at an earlier time is expired now.

*Paused events.* `ActivatedOnce` needs to know that a claim belongs to one worker.
`PendingInv` is the conjunction of `TypeOK`; `KeyAgrees` (active rows have
different keys, what the unique index on `active_key` gives); `ClaimAgrees` (a
row is claimed exactly when it has a token, and tokens differ); `HolderAgrees`
(a worker past its claim has a token no other worker has, of the row it works
on, and knows the row's attempts if it still holds it); `IntakeAgrees`; and
`AttemptsBounded`. The proof does not go through every action for every
conjunct: `RowSteps` and `WorkerSteps` show once that each action changes the
rows and the workers in one of a few ways, and `RowsAgree`, `HoldersAgree` and
`IntakesAgree` are proved from those. `ClaimSteps` does the same for
`ClaimFenced`: a step leaves a claimed row unanswered, or is the claimant's own.

*Alert groups, handlers one at a time.* A status that agrees with its children is
not inductive, because a handler saves copies it read several statements ago.
`AlertInv` therefore carries what every handler knows between its statements
(`HandlerAgrees`): which alert and group it found, that its copies still have the
rows' statuses, that what it did not find is still absent, and which group is out
of step until its recalculation (`Updating`). All of it rests on `Sequential`,
which `MaxInFlight = 1` gives; with two handlers the statements are false, as
section 3 says.

*Alert groups, handlers overlapping.* Here copies are stale and nearly nothing
about them is true. `NoDuplicates` survives because of what overlapping firing
handlers cannot do: `OverlapInv` says that an open alert's group is open and the
other way round, that what a handler has in hand stays open, and that no copy
carries a status that would close it. The new row is inserted under the identity
lock after a second lookup, so only one handler finds nothing. The hypotheses are
those of the second instance of `MCAlertGroup`: a reopen policy (the only path with that lock),
operators between handlers, and no payload that resolves. None of
them can be dropped: section 3 says what happens without each.

*Delayed recovery.* `RecoveryInv` ties the queue entry to the resolution that
wrote it, the ledger rows to a resolution that was queued, and due times to the
moment it was queued plus the delay; the count of messages is bounded through the
rollbacks still possible (`AtLeastOnceOnly`). The refinement theorem shows that
the initial states map to initial states of `RecoveryPromise` and that every
action maps to one of its steps (`Resolve` and `ScheduleRecovery` to opening,
`ProcessRecovery` to fixing the recipients and telling some, `Reopen` and the
firing branch's save to closing) or to a stutter.

*User deliveries.* That a message leaves at most once or twice is a count of the
past. It becomes inductive by adding what may still leave: messages sent, plus
one if a request has the row in hand, plus one if it is pending or a job run
holds it, never exceeds the bound (`PageBounded`); `ActorsAgree` says who may hold
a row, so that a claim and a reclaim move the row between the summands.

*Webhooks.* `ConcurrencyKept` compares a cardinality with a limit counted two
statements earlier. While job runs do not overlap, the run that counted is the
only one to claim, so the capacity it saw is still there (`claim => Capacity`);
requeues and results only shrink the set of running rows. The attempts of a row
are bounded together with the attempt its holder is about to record
(`WorkerAgrees`, `RowBounded`).

*Incidents.* `LinksUnique` is tested before the insert; it holds after it because
the request has the row locks of the incident and of the group all the while
(`LocksHeld`) and what it tested cannot change under them (`InsertAllowed`).
`StatusGraph` holds for a status validated before the transaction because a
version that still matches was read with the status that was validated
(`VersionsKnown`). `ResumesIncident` needs that the incident a reopen read is
still the open one when it commits (`LinkRead`): from its read to its commit the
reopen holds the group, a new link needs that lock, and another incident left open
can only be one that was closed and opened again. For `DeadlockNeedsLateLink` the
proof knows exactly which rows a request may hold (`LocksHeld`, `OnlyLocks`): on a
cycle without a late link, whoever is waited for waits itself, so all it holds is
its incident and it waits for a group; whoever waits for it then waits for an
incident, and cannot be waited for.

*Holds.* `MaintenanceHeld` has to speak of all the windows in force: the status to
go back to is read from the application being released, the status to keep from
the others; an application that has ended still remembers a status, and `latest` says
which is the newest. For `TimerRespectsHolds` the proof shows that `_recompute_group_effects`
stops the timer whenever one of the remaining effects pauses, and that where none
remains the list of applications is empty, so nothing is left that could pause.
`ShelfKept` follows from `ExpiryAgrees`: shelf numbers only grow, and the one the
job selected was due.

*Silences.* A release frees the alerts that it read as silenced and as held by no
other silence, so `HeldStaysSilenced` needs to know that those reads are still
true when they are used. `SilenceIInv` adds: while nothing has raced, one handler
at a time is between its reads and its transaction and what it read is what the
tables hold (`OneReads`, `Fresh`); an alert that does not exist has no
application, so that a new one starts clean (`NothingBefore`); the group's status
is the one `recalculate_alert_group` gives (`GroupAgrees`), which makes a group
that comes to fire one that was silenced, and so one that
`_restart_group_after_unsilencing` queues; and a handler at work on a silence has
one (`Staged`). The actions fall into two kinds, and one lemma for each does the
common part: `HandlerReads` (the tables stay) and `HandlerWrites` (the writer was
the only reader, so nobody's reads go stale). A request may die anywhere.

*The calendar.* The proof is in three parts. Arithmetic: floor division by the day
has one quotient and one remainder (`DivUnique`, `SameRemainder`), and a local time
outside the changed hour is reached at the instant `ToUtc` names and not before
(`Edge`), which is where `Clean` is used. Restrictions: an instant lies in a window
of some day of the range exactly when `_restriction_matches` accepts it, where an
overnight restriction is today's window or yesterday's (`InWindow`, `WhichDay`,
`DaysSuffice`, `WindowsMatch`). Segments: until the end of a segment neither the
slot (`SlotLasts`), nor the members present (`MembersLast`), nor the window
(`WindowLasts`) changes, so one user is right for all of it (`SegmentRight`); where
every period that covers an instant is active, `OnDuty` is `Present` and the pager
answers the same. The
inductive invariant (`CalendarDrawn`) is that the range up to the cursor shows whom
a page would reach and the rest shows nobody. No induction over the range is
needed: the loop's own steps are the induction. The unit of time is arbitrary, so
minutes are an instance, and a zone that changes by half an hour or by a day too.

*Responders.* `AnswerStands` needs only what a request in flight has to write
(`RequestRows`); the expiry's condition on the row does the rest.

*Only model-checked.* Liveness (`OrphanRecovered`, `PausedEventSettles`,
`FirstPage`, `QueueDrains`, `RecoverySettles`, `ResolvedSettles`,
`WebhookSettles`, `EscalationResumes`, `SilencedReleased`, `DeadIsReported`) is
out of this prover's reach. `ContextInv` and `WorseNeverHelps` are about what
recursive operators compute over a graph (`Compute`, `Visit`, `Walk`), which the
prover cannot use, and which would need induction over the depth of the search.

## 5. What is not modelled

Of the modelled components: merging of groups and priorities; the scopes and
recurrence rules of maintenance windows (an occurrence begins and ends);
heartbeat instances and cron schedules; edits of the service graph other than the
removal of a dependency; the collapse of several rotation layers
and overrides; the matching of silences, notification rules and escalation
targets (an input); reminder intervals and retention of webhook rows; business
statuses set by hand, their history, and the environments, the limit of 100
groups and the timeline events of correlation.

Components left out: the orchestration engine and routing are pure functions of
an event and its configuration, long and mostly about labels and their syntax;
login throttling has no part in alert handling; the editing of the service
catalog, SLO and analytics are reporting nothing in the lifecycle reads back;
general retention is batched deletion of old rows.

Not at all: parsing of vendor payloads, formatting and sending of messages, the
HTTP API and its OpenAPI descriptions, permissions, sign-on and the UI, the
database schema beyond the rows above, migrations, the import tools for other
products and the demo data. They are input, output, presentation and tables, and
make up most of the repository's lines: the modelled code is a small part of
them, and the part in which processes meet.

## 6. Plan

Done: the job lock, paused events, alert groups, delayed recovery with its
abstract specification, user deliveries, webhooks, incidents, holds (shelves,
maintenance, escalation), silences, heartbeats, responders, the calendar of a
layer, service impact and what alert groups derive from it; theorems about the
safety properties of all of them except heartbeats and the last two.

Next: the collapse of several rotation layers and overrides on top of `OnCall`;
the two correlation and impact tables of `AlertContext` as a theorem, with the
searches of the graph as parameters of the specification.
