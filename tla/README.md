# Verification of the SkillBridge API

TLA+ models, model-checking runs and machine-checked proofs for the SkillBridge API
(NestJS, TypeORM over PostgreSQL, BullMQ over an optional Redis). The models are
translated from `src/`; PROJECT.json maps each definition to the lines it stands for.

## How the code is modelled

The server is one Node program. Every HTTP request, timer and queue job is a process of
it, and processes interleave only where the code awaits. The shared state is the database.
So in every module:

- the VARIABLES are the columns that decide something, plus one variable per kind of
  process, holding the local variables of the requests in progress. A process is a record
  whose `pc` names the statement it executes next;
- a handler is one action per stretch of code between two awaits *whose interleaving can
  matter*. One SQL statement is one step. A transaction that holds the row lock or advisory
  lock its competitors need is one step from the lock to COMMIT, and its rollbacks are
  steps of their own;
- `repo.save(entity)` reads the row again and writes every column in which the entity held
  in memory differs from it. An entity loaded before an await therefore *undoes* what was
  written meanwhile. `repo.update` and `increment` touch only the columns they name. This
  difference is behind most of the hazards below. It is modelled where the row decides
  something: the saves of an offer (`Offers`), of a role (`Offers`, `RoleInterests`), of an
  attempt (both assessments) and of the talent's profile (`Editors` in both assessments,
  `TalentProfile`). `RetakeNotices` leaves the profile's saves out: one can bring an old
  gate back there too, which is then told of as a gate that was set;
- a crash empties every process slot and loses in-memory work (timers, inline jobs); rows
  and Redis jobs survive. After a crash the process starts again;
- time is abstracted to the order of the events that depend on it (an offer falls due, a
  month ends, a session times out).

Variables marked *history* in a module record facts the code does not store, for the
properties only; no guard of a code action reads them.

## Inventory

| component | state | operations | hard because | right when |
|---|---|---|---|---|
| Offers | offers, distribution log, hire count | send a batch, respond, withdraw, view, list, hire, interview link; poller | conditional updates race unconditional ones; a monthly cap under an advisory lock; batches outlive what they checked | one active offer per pair; the cap holds; a settled offer stays settled; notifications are true |
| Employer roles | role row with two counters | create, update, close, reopen, attach and send an assessment | the row is saved whole while sends and interests increment its counters | counters are never overstated; caps hold |
| Role interests | interests, `interested_count` | mark interested | weekly limit under one lock, applicant cap under another | limit and cap hold |
| Skill assessment | attempts, responses, result, history, profile | start, submit, flag, guidance job | attempt limit checked before and inside a transaction; submit holds an entity across an AI call; other requests save a stale profile | at most one open session; one result; attempts bounded; a pass reaches the profile; a failure gets its report |
| Advanced assessment | attempts, gate, jobs, pool profile | start, submit, flag, submit job | a submission is answered by a queue job minutes later; failures on the way; submits overlap, and stale saves of the profile move the gate | a submission completes; one result; one session to answer; a job-ready candidate is in the pool |
| Employer assessments | assessments, invitations, applicants, submissions | create, deactivate, invite, register, submit | a limit counted under a row lock; invitations and submissions decided by unique indexes; people told after the commit | the limit holds; nobody is told twice; what is announced is on record; decided once |
| Accounts and sessions | user row with refresh hash, links to Google identities, three tables of codes | register, verify, resend, login, sign in through Google, refresh, log out, reset, change, delete | codes are withdrawn, hashed and inserted in three statements; nothing is locked | a code works once; a verified address was proven or given by an administrator; a token is exchanged once |
| Password reset queue | Redis jobs or callbacks in memory | enqueue, deliver | inline jobs die with the process, Redis jobs run again | part of the above |
| Job-ready digest | digests with a key per day | run at boot and weekly | a rolling window under a calendar key; the timer may be late and restarts with the process | one digest a day; windows of a process do not overlap; a run leaves nobody of its week out |
| Retake notices | notices with a key per date | hourly poll, dashboard | any number of senders on their own reading of the gate | one mail a date; a gate that comes is told |
| Talent profile, personal assessment | profile row | onboarding, settings, availability, personal assessment | created on first use by concurrent requests; read and saved unlocked | a finished assessment stays (it does not) |
| Admin accounts | user row with tier and active flag | invite, change address, update a user, change tier, deactivate | addresses are given with no code; the last super admin is protected by a count before the write | first three: as accounts; the rest is not modelled |
| Employer profile, AI reports, question bank | rows, caches | update, generate | locks in memory; a session-level advisory lock | not modelled |
| Read models, support, uploads, mail, seeds | – | queries, single writes | – | not modelled |

Components meet in shared rows rather than in messages: an advanced result makes a
candidate `ready` for offers and interests and stamps the `verified_at` the digest looks
for; sending offers and marking interest increment counters of the role an employer may be
saving; sending an assessment from a role inserts an invitation the assessment's own
requests look for; the advanced assessment moves the gate the retake notices watch; both
assessments, onboarding and settings write the talent profile; deleting an account removes
what others are about to write to.

## Plan

Done, in order of importance: `Offers` with `OfferLifecycle`; `SkillAssessment`;
`AdvancedAssessment`; `RoleInterests`; `EmployerAssessments` with `DecidedOnce`; `Accounts`
with `OneTimeCodes`; `JobReadyDigest`; `RetakeNotices`; `TalentProfile`; proofs of all but
the last.

What is left, in the order it would be taken:

1. `Assessments`: skill and advanced assessment composed over the shared profile row. Until
   then `SkillAssessment` has an action `AdvancedCompletes` in the place of the other, and
   `AdvancedAssessment` assumes that the candidate stays qualified. Both have the profile's
   other writers (`Editors`), each for the columns it looks at;
2. `AdminAccounts`: deactivation and the last super admin, counted before the write;
3. the employer's profile; the question bank's lock.

## Modules

| module | models | extends |
|---|---|---|
| `Offers` | offers and their expiry, the role row they share | |
| `OfferLifecycle` | abstract: the life of one offer; implemented by `Offers` | |
| `SkillAssessment` | a candidate's skill assessment and its report queue | |
| `AdvancedAssessment` | a candidate's advanced assessment, its submit queue, the pool row | |
| `RoleInterests` | expressions of interest, the role row they share | |
| `EmployerAssessments` | the assessments employers make, invitations, applicants, submissions | |
| `DecidedOnce` | abstract: a test a person takes is decided once; implemented by the above | |
| `Accounts` | accounts, sessions, sign-in through Google, one-time codes, deliveries of reset codes, what administrators assign | |
| `OneTimeCodes` | abstract: a code is accepted once, while it is out; implemented by the above | |
| `JobReadyDigest` | the weekly digest of job-ready candidates | |
| `RetakeNotices` | telling a talent that the advanced assessment can be taken again | |
| `TalentProfile` | a talent's profile row and the personal assessment in it | |
| `MC…` | values and symmetry for TLC | the module of that name |
| `…_proofs` | theorems and their proofs | the module of that name |

## Runs

| run | instance | question and answer |
|---|---|---|
| `offers_settle` | 1 employer, role, offer; 2 request slots; all requests; fair poller; 649 000 states | Who wins when accept, decline, withdraw and three kinds of expiry race? Exactly one; only the interview link's save and the expiry of a viewed offer overwrite it; notices of the others stay true; overdue offers expire |
| `offers_sends` | 2 sender slots, 1 role save, 2 months, cap 1, stale saves of offers; 989 000 states | Do concurrent batches break the cap, uniqueness or the counter? No, month by counted month |
| `skill_start` | limit 1, 3 attempts, 3 questions, 2 starts, 1 submit (of passes: no report jobs), 1 save of the profile; 666 000 states | How far can racing starts overrun the limit? One session open, one attempt above the limit |
| `skill_submit` | 2 attempts, 2 submits, 1 save of the profile, a bank of 1 question and sessions of 1, crashes, failing reports, a queue that refuses; fair worker; 657 000 states | What do double submits, stale saves and an exhausted bank do? First result stays and reaches the profile until a stale save undoes that, no question twice, every failure has a report or a kept job, or one of the three faults took it |
| `advanced_sessions` | 2 sessions, 2 submits, 1 save of the profile, crashes, a queue that refuses, undoing that fails; 1.8 million states | Sessions are brought back by stale saves: is one active? One that is guarded; a second only beside one whose gate another request opened |
| `advanced_queue` | 1 session, 2 submits, all six faults; fair requests and worker; 58 000 states | Is a result overwritten, a submission forgotten, or a pass not delivered? The first never, the others not without a fault |
| `interests_caps` | 2 talents, 2 roles, limit 1, cap 1, 2 clicks, 1 save, 2 weeks, no new click once 2 interests stand; 1.6 million states | Do overlapping clicks, saves and deletions break a limit? Only where the section below says so |
| `employer_assessments` | 1 employer, 2 assessments, 1 talent, 1 applicant from outside, limit 1, 2 requests; 747 000 states | Do overlapping creations, invitations and submits, closings, deletions and crashes break the limit, tell somebody twice or announce what is not on record? No |
| `accounts` | 2 accounts, 3 addresses, 2 requests, 4 begun in all, 3 codes; 357 000 states | Can a code work twice or after its withdrawal, an address that no administrator gave stand unproven, a token lead to two sessions? No |
| `digest` | 1 employer, 2 candidates, a day of 2 slots, a week of 4, 6 slots to run in, 2 starts, a timer that may be late; 3.6 million states | Does a restart, a late commit, a late timer or a shared edge of two windows repeat a candidate, or lose one of the week before a run? Not within a process |
| `retake_notices` | 2 talents, 1 poll, 1 dashboard, 1 fault; fair poll; 380 000 states | Is a gate told twice, or never? No |
| `profile_finished` | violation | A stale save rewrites a finished personal assessment |

The instances are small because the interesting cases are collisions: two processes on one
row, one process holding a copy while another writes, one unit at its limit. A limit of 1 is
reached and exceeded by the second actor; two months or weeks suffice for "counted in one,
stamped in the next"; two slots of a kind suffice because every guard looks at one row or at
a count. What `offers_settle` asks is asked of each offer by itself, so it has one, and
`offers_sends` the resends. Where a count goes beyond (candidates, attempts, caps, slots)
the theorems below hold for every value.

## Offers

`Offers.tla` models `offers.service.ts`, `offer-expiry.service.ts` and the role row they
share with `employer-roles.service.ts`. The n-th offer to a candidate for a role is a
triple; `status` is the row's status (`"none"` before the insert). `send` slots run
`POST employer/offers` (`SendStart` … `SendEnd`: role checked once, then per candidate the
`findOne` check, BEGIN, and the locked part of the transaction), `op` slots run requests
about one offer, `edit` slots load and save a role, `poll` is the expiry poller.
`createOffer` and `bulkCreateOffers` have no caller and are left out, as are the
server-sent-event subjects; `requestCall` writes nothing.

`OfferLifecycle.tla` is the abstract specification: an offer is sent once, settled once by
one of the racing requests and timers, expires only when due, and keeps what it was settled
with unless a write that did not check the status overwrites it. There are two such writes:
`LinkSave`, the save of the row `updateInterviewLink` loaded, and `ViewExpire`, the update by
id in `checkAndUpdateExpiry` of an offer that was pending when it was read. `overwritten`
(history) are the offers whose settled status one of them replaced; those may change again.
`LifecycleSpec` says that `Offers` implements it, whatever clients request, and `ToldTruth`
that every delivered acceptance, refusal or expiry of the others is still their status.
`Kinds`, the requests that clients make, only splits the state space between the runs.

Fairness: weak fairness of `Poller`. It is an interval timer started at boot that polls at
once, so it runs as long as the program does, and a crash is followed by a restart. Nothing
is assumed of clients.

Proofs. `OneActiveOffer` is inductive once every write of an active status is shown to be
guarded by the unique index or to come from `pending`, itself active, for the same row.
`CapHolds` needs only that a send adds one row to one month's count, under `UnderCap` of
the very set the count ranges over. `SentCountHolds` strengthens the property with the
copies in flight: no `edit` slot holds a count larger than the log, which never shrinks.
`LifecycleImplemented` needs what the two unchecked writes carry (`BlindInv`): an offer that
was loaded settled is still settled so or overwritten, and one loaded as overdue is due.
`ToldTruthHolds` adds an invariant on the messages not yet sent: the notice a slot or the
poller is about to deliver is the settled status, or the offer was overwritten.
`ToldOfSettledHolds` adds the withdrawals, whose notice may name the wrong outcome but never
an offer that is still open and was not overwritten. `OnlyBlindWritesUnsettleHolds` says
that the two writes are the only ones that change a settled offer, each its own.
`CapOverrunBoundedHolds` (for finitely many `Senders`) bounds what `MonthlyCapHolds` leaves
open: an offer counted after the month it is stamped with came from a send in progress at
that month's end, and what begins later is stamped later (`OverrunInv`). TLC reaches the
bound.

## Skill assessment

`SkillAssessment.tla` models one candidate in `skill-assessment.service.ts` and its report
queue. An attempt's row is its membership in `started`, `completed`, `forced`, `stale`;
`served` is the question history. A `start` slot goes through three stretches of its
transaction: `StartLock` (profile FOR UPDATE, the count of completed attempts), `StartFind`
(the open session, which a stale one is dropped from) and `StartInsert` (draw, insert,
COMMIT). `flag` and `submit` do not take the profile's lock, so they may come in between;
that is why the attempt limit can be overrun. A `submit` slot loads the attempt
(`SubmitLoad`), scores it (`SubmitScore`, which calls `enqueue` for the report of a failure
*before* the transaction commits and does not wait for it) and saves the loaded entity
(`SubmitSave`). An `edit` slot is any request outside the assessments that loads the profile
without a lock and saves it (`saveGoalStep`, `saveTrackStep`, `updateResume`, …):
`EditLoad`, `EditCompare` (TypeORM's comparison with the row as it is now) and `EditWrite`.
`setBack` (history) says that such a save has put the completion date back to null.

With Redis a call of `queue.add` is a count in `adding` until it answers (`QueueAdds`), or
fails and is only logged (`QueueRefuses`); without, the job is taken at once. `dropped`
(history) are the attempts of which a job is gone with no more than a log line: refused,
failed inline, or lost in a crash. A job that fails in Redis stays in `stuck`.

Bounds: `Attempts` (attempts a candidate ever makes), `MaxJobs` (waiting report jobs of one
attempt; without Redis there is no limit in the code; 0 in `skill_start`, whose submits
therefore pass). Fairness: weak fairness of `AddEnds`, a call of `queue.add` answers, and of
`GuidanceRun`, the worker takes the jobs it has. `GuidanceFails` competes with it, and
`FailureGuidedOrStuck` names every way a failed attempt can stay without its report.

Proofs, for every limit, bank and number of requests. `OneOpenSession`: while a start is
past its search no session is open but the one it drops (its own row lock keeps it there),
and the profile's lock keeps other starts out. `AttemptsBounded`: the sessions that are
neither completed nor open are none, so at most `MaxAttempts` completed ones and one open
one can exist when a start inserts; before the advanced assessment is done that bounds what
is started. `NoQuestionTwice` rests on the unique history row, `ScoredOnce` on the unique
result row. `ResultsReachProfileHolds`: result and profile are written in one transaction,
and a copy that says the assessment is done was loaded after a pass (`CopiesInv`), so a save
can only put the date back, which is `setBack`, until the next pass writes it. Two theorems
say how far two claims that fail (below) go. The limit itself holds as long as no session
was voided (`UnflaggedKeepTheLimitHolds`): without a flag nothing is completed between a
start's count and its insert that the count has not seen. And a voided session is scored
only by submits that had loaded it before (`VoidSettlesHolds`).

## Advanced assessment

`AdvancedAssessment.tla` models one qualified candidate in `advanced-assessment.service.ts`
and `advanced-assessment-queue.service.ts`. `Start` is one step: everything that could make
another session active waits for the same profile lock. `submit` is `SubmitValidate`
(unlocked: the only place that looks at the gate and the expiry), `SubmitLock`,
`SubmitCommit` (mark and gate), then `Enqueue`; when that fails, `ClearLoad`, `ClearSave`
and `Unlock` take mark and gate back in separate statements. The job is `JobTake`,
`JobScore` (an answer per question, minutes), `JobCommit` or `JobRollback`, `JobReport`,
`JobPool`. The `edit` slots save a loaded profile as in `SkillAssessment`; here the gate
`assessment_locked_until` is one of the columns that go back. With Redis one worker runs one
job at a time and a failed job stays under its id; without it every job runs at once and a
failure or a crash loses it. `Faults` says what may fail; `struck` remembers what has, for
the properties that hold only while nothing was lost.

`OneActiveSession`. Nothing keeps two submits of a candidate apart, nor the save of a profile
away from them, so a second session can be active (`OneSessionToAnswer` below). What the
code does ensure is that a submit that fails to enqueue brings its session back *before* it
takes its own lock off the gate. `unguarded` (history) are the sessions of which a submit was
at that (`Undoing`) when another request opened the gate, an overlapping submit's `Unlock` or
a stale save of the profile (`OpensUnder`). Of the other sessions one at most is active.

Bounds: `Attempts`. `advanced_queue` has no editor: nothing a submission or its job does
depends on the gate once it is under way, and the theorems have any number of editors.
Fairness: weak fairness of each request in progress and of each job,
i.e. the event loop and the worker go on; both include the step by which they fail.
`SubmissionSettles` and `PassIsDelivered` need nothing of clients, and except histories in
which a fault struck: after one they are false (`SubmissionEnds` below).

Proofs. `TypeCorrect` needs the requests' locals: what a failing submit restores is `void =>
done`, or restoring would leave a voided session uncompleted. `OneActiveSessionHolds`, for
any number of submits and saves: a session that is active, or that a failing submit may
still bring back, and that nobody has unguarded is the only one of its kind, and while it
can only be brought back the gate is locked (`ActiveInv`). `ResultsReachProfileHolds` is
argued as for the skill assessment. `SubmissionsTracked` is proved for any overlap from
`Hands`: a session is in the hand of one request, or else of its job, so the mark is never
taken back from a session whose job exists. `DeliveredWasPassedHolds`, for any faults: a
report is on a passing result and the pool row has a job-ready one behind it, since a result
that a job has loaded or written cannot change any more (`Deserved`).

## Role interests

`RoleInterests.tla` models `markInterested` with the saves of the role it increments. A
click is `MarkStart` (token and pool profile checked, week computed), `MarkBegin` (BEGIN
fixes `now()`, hence `created_at`) and `MarkInsert` or `MarkEnd`: under the talent's
advisory lock and the role's row lock nothing read there changes before COMMIT. A role
request loads the row and saves all of it. `DELETE users/:id` deletes the talent's interests
by cascade and leaves the counters. Bounds: `Weeks`, `MaxInterests` (two interests suffice to
pass a limit or a cap of 1; clicks in flight may still add a third). No fairness.

Proofs. `WeeklyLimitHolds`: the interests the property counts are among those the click
counted. `CapHolds` combines three invariants: a counter no save has changed equals the
insertions, the copies in flight do not exceed the insertions, and the interests there are
do not exceed them either. `WeekOverrunBoundedHolds` (for finitely many clicks, `Marks`)
bounds what `WeeklyLimitOfTheCalendar` leaves open: a calendar week's interests and the
clicks that may still add one to it from another week are fewer than the limit and the
clicks together, since the first to be counted within the week saw room. TLC reaches the
bound.

## Employer assessments

`EmployerAssessments.tla` models every operation of `employer-assessments.service.ts` that
writes, and `sendAssessmentToCandidate` of `employer-roles.service.ts`, which inserts an
invitation too. A creation is `CreateStart` (questions made, employer found), `CreateLock`
(the employer's row FOR UPDATE), `CreateCount`, `CreateInsert` (assessment, questions,
invitations, COMMIT) and one `Tell` or `TellFails` per person; an invitation is
`InviteFind`, `InviteSave`, then the same. A submit is `SubmitLoad` (the assessment, for an
applicant also the session), `SubmitCheck` (no submission yet), `SubmitSave` (the insert,
under a unique index and foreign keys) and `AnnounceStep` once or twice. `End` is any
request ending by a refusal or an error; `Crash` drops them all. `Busy` says which
assessments are taken: the others only count for the limit.

Bounds: with a limit of 1 the second creation is the one too many; one talent and one
applicant from outside are the two kinds of people, and two requests race for each row.
`DecidedOnce` needs no more than one outcome per test and person. No fairness.

Proofs, for every limit and every number of people and requests. `ActiveLimitHolds`: a
creation past its count holds the employer's lock and saw room, so all that is active then
plus one is within the limit (`LimitInv`). `ReachedAtMostOnceHolds`: who is still to be told
by a request is invited, not reached and in the hands of no other request (`ReachInv`); the
unique index on the invitation decides which. `NoticesTrueHolds`: a request that still has
to announce announces what is on record, or its person is gone (`NoticeInv`).
`ResultsImplemented` maps each step to an insertion, the deletion of a talent or a stutter.

## Accounts

`Accounts.tla` models `auth.service.ts` and what it calls in `users.service.ts`, the three
tables of codes and the queue that delivers reset codes. A request is a record in `request`
with the statement it executes next: `Consume` finds the account and the newest open code,
`Mark` is the conditional update, and `MarkVerified`, `UpdatePassword` or `UpdateEmail` is
what the code was for; `CloseOpen` and `Issue` are the two writes of `issue`, with the
hashing between them. `heirs` (history) counts the exchanges of a token, `taken` those of a
code. Of a password only whether there is one is kept: whoever logs in knows it. A limit of
codes an hour counts all of them, as if the hour did not end.

Administrators write accounts with no code. `Invite` and `InviteInsert` make an account that
is verified from the start; `UpdateUser` is `PATCH users/:id` by what it does to address and
password (`Assign`, `SetPassword`), sessions going on; `ChangeEmail` is `changeEmail`, which
ends the session. `assigned` (history) are the addresses an account was given so.

Sign-in through Google begins once Google has vouched for an address, so an identity is its
address here. `GoogleSignIn` and `GoogleLookup` are the two lookups, `Vouch` the
`markVerified` of an account that stood at the address, `Link` the row of
`user_oauth_accounts` (two unique indexes, and what `linkOauthAccountToUser` makes of a
violation), `Provision` the transaction that creates an account with its link, and `raced`
the second lookup after it lost. `vouched` (history) are the addresses vouched for. Deletion
leaves the link: the model shows that the identity of a deleted account can neither sign in
nor create an account again, since `Provision` meets the old link and the second lookup
finds nobody.

Bounds: `MaxStarts`, the requests begun: 4 take a reset from its request by a registered
account and its delivery to the new password, two refreshes of one token of an account
Google made beside an assigned address, or a change of address that finds the address taken,
two refreshes beside a verification by code, or a sign-in through Google that finds its
identity linked to a deleted account. `MaxCodes` is 3: the verification, and two more that
overlap. `MaxJobs` is 1, so a crash doubles a delivery at most. Two accounts and three
addresses: one for each and one to move to. No fairness.

Proofs, for every number of accounts, addresses and requests. `AddressProvenHolds`: until an
account is verified only an administrator changes its address, so what a code to verify it
or Google went by is the address it has, unless that is one it was given since (`Meets`).
Once it is verified, a change of address carries the address its code went to, whatever
happened since it looked, or one that is given (`Sound`). `ExchangedOnceHolds`: tokens are
numbered in the order of signing; every row holds one no larger than `signed`, and an
exchanged one is in no row (`TokensSound`). `CodesImplemented` maps `Mark` to the acceptance
of a code that is out, `CloseOpen` to a withdrawal, `Issue` to handing out. Four more say
what the interleavings of sessions leave intact. `RevokedForGoodHolds`: no row takes back a
token it or another row has dropped, since every write is of a token just signed or of none.
`NotRenewedOnceDeletedHolds`: deletion clears the token, and what a login stores in the row
afterwards is newer than all a refresh has read. `IdentityForGoodHolds`, among accounts that
only their owners delete, rests on the two unique indexes and on `Provision` creating
account and link in one transaction. `ResendOverrunBoundedHolds` (for a positive
`ResendLimit`): the codes sent again, and the requests that have counted and not yet sent,
stay below the limit and the requests together; with one request at a time the limit holds.

## Job-ready digest

`JobReadyDigest.tla` models the digest against `employer-pool-profile.service.ts`, whose
`upsert` reads the clock (`UpsertStart`) before its row is there (`UpsertSave`). `Boot` and
`TimerFires` load the candidates of the week that ends now; then one employer after the
other is skipped, notified or failed, and mailed. Time is counted in slots: `Key` is the day
a window starts in, the window itself is the week to the slot. `setInterval` calls back when
it is due or later, and both edges of the window are counted back from that instant: the
clock may pass `server.next`, `TimerFires` fires at any slot from then on and arms the timer
anew from there. `fired` (history) are the instants it has fired at. So the windows of a
process can leave a gap (`NoGap` below); `NobodyMissed` says that nobody verified in the week
before a run is left out of it. A run ends before the next, and a write takes one slot at
most (`Tick`); what comes later is in `late`, which `NobodyMissed` excepts.

Bounds: two slots to a day, so that a window can start inside one; two days to a week, so
that windows overlap and touch; two starts, at every distance; slots until the timer of the
first process has fired once, on time or one slot late. The system stops at the horizon, so
deadlock is not checked.

Proofs, for every number of employers and candidates, any length of a day, a week of at
least a day, any horizon and any restarts. The inductive invariant `DigestInv` orders times:
the runs of one process are a week or more apart (`RunsAWeekApart`), no stored digest has a key
later than that of the last run's window (`KeysBehind`), what this process has announced to
an employer was verified before the window it is turning to (`WindowsBehind`), what a
batch found is exactly the window's candidates (`FoundIsWindow`), and a mail is due only for
a digest that is stored (`MailDue`). `OneDigestADay` then comes from the key, and
`OncePerProcess` from windows that do not overlap. `NobodyMissed` needs one more
fact: a window that starts a week or more after the last has a later key, because a week is no
shorter than a day. So a run of the timer is never skipped for another run's digest
(`TimerSkipsNobodyHolds`); only the run at boot can be.

## Retake notices

`RetakeNotices.tla` models `dispatchAdvancedRetakeAvailable` with its two callers: polls,
one for each server, and dashboards, each with the gates it has read. `SetGate` and
`ClearGate` are what the advanced assessment does to the gate, `Create` is the insert under
the unique index on user, type and date, `Mail` follows it. `CreateFails` and `Crash` are
the faults, of which `MaxFaults` happen.

Bounds: a wait of 1 in 2 slots lets a gate come, be told, be moved and come again; a poll and
a dashboard are two senders of one notice. Fairness: weak fairness of a poll's start and of
its steps. The poll is an interval timer set at boot, a crash is followed by a restart, and
what it awaits ends; nothing is assumed of dashboards or of talents. `NoticeArrives` is
checked under it.

Proof. `MailedOnceHolds`, for every number of polls and dashboards: who is about to mail has
inserted the notice, has not mailed, and is the only one (`MailSound`, `MailAlone`).

## Talent profile

`TalentProfile.tla` models the row of one talent. Every operation outside the personal
assessment's own transactions is `FindOrCreate` (and `Insert`), `Edit`, `Compare` and
`Write`: TypeORM's `save` reads the row again, and writes the columns that differ from the
object. `SaveSection` and `Finish` hold the row's lock throughout and are one step. Its one
run finds that what they finish does not stay (below). Two requests and one question set
suffice: one request that reads before and saves after.

## What is proved, and from what

The theorems hold for every value of the constants that satisfies the named ASSUMEs, which
say that sets of rows are finite and limits positive. Each is an invariant or action
property of the full specification; the few extra assumptions are in the statements: finitely
many `Senders` or `Marks` where a bound counts them, as a server has; a positive
`ResendLimit`, as `env.ts` requires. No theorem restricts what clients request.
PROJECT.json lists them. Theorems that no run's property states are about what remains true
where a claim of the code fails; TLC agreed with them on the runs' instances before they
were proved.

Every invariant and action property that a passing run checks is stated by a theorem. Only
model-checked are `OverdueExpires`, `FailureGuidedOrStuck`, `SubmissionSettles`,
`PassIsDelivered` and `NoticeArrives`: they are liveness under fairness, which these provers
do not reach, since they do not reason about ENABLED. `FinishedStaysFinished` of
`TalentProfile` is refuted by TLC; `TalentProfile` has no theorems.

## Known divergences

`profile_finished` finds its trace; the other names are definitions in the modules, in the
section of claims the code does not keep, and TLC violates them on instances of the sizes of
the runs when they are added to a configuration.

- `profile_finished` (`FinishedStaysFinished`): any request that read the profile before the
  personal assessment was finished and saves it after puts the old answers and the missing
  completion date back. For the same reason sections and onboarding steps get lost, and
  `availability_status` and the pool row's `job_search_status` disagree after two overlapping
  changes.
- `PassedStaysDone`, in both assessments: the same saves put `skill_assessment_completed_at`
  and `advanced_assessment_completed_at` back to null after a pass (`saveGoalStep` and the
  like in `talent.service.ts`), until the next pass; `ResultsReachProfile` excepts it. They
  can open the gate of the advanced assessment, or lock it again, likewise.
- `SettledForGood`, `AnsweredNotExpired`: viewing an offer marks it expired by id after
  reading it (`checkAndUpdateExpiry`), so an answer given in between is overwritten;
  `offers.service.spec.ts:849` says of the expiry that a *list* makes that it 'should not
  affect already accepted/declined offers', and that one does not. `updateInterviewLink`
  saves a loaded row likewise. Nothing else does (`OnlyBlindWritesUnsettleHolds`).
- `MonthlyCapHolds`: the month is computed after the advisory lock but `sent_at` is the
  start of the transaction, so a batch waiting over the end of a month exceeds the old one,
  by no more than the sends in progress (`CapOverrunBoundedHolds`).
- `WithdrawnToldTruth`: withdraw does not look at the number of rows its update changed and
  tells the candidate anyway.
- `ClosedRolesSendNothing`: a batch checks the role once and goes on after it was closed.
- `HiresWereAccepted`: the hire count can be incremented again for the same offer.
- `VoidedStaysVoid`: a submit that loaded the session before the integrity event saves
  `force_submitted = false` and a result over the void.
- `RetryServes`: when too few unseen questions are left the draw takes the whole bank,
  where the history's unique constraint refuses what it draws; the tests replace the
  database and do not see it.
- `ThreeAttempts`: a flag between the count and the search lets a fourth session begin;
  without a flag none does (`UnflaggedKeepTheLimitHolds`).
- `MaxReachedIsTrue`: the refusal that counts a stale session rolls the mark back, so the
  count it reports is not stored.
- `FailuresKeepAJob`: a failed `queue.add` of the report's job is caught and logged
  (`skill-guidance-report-queue.service.ts:98`) while the failed result commits, and an
  inline job that fails or a crash before the answer of Redis leaves no more: the attempt
  then has neither report nor job.
- `GuidanceOnlyForFailures`: the report of a failing submit is enqueued before the result;
  if another submit commits a pass first, the report is written on that. If no result is
  there yet the job fails and is kept.
- `SubmissionEnds`: the job "will retry", but no retry is configured and a failed job is
  only replaced when the session is submitted again, which its mark forbids.
- A crash between COMMIT and enqueue has the same effect and leaves not even a failed job.
- `OneSessionToAnswer`: a submit that fails to enqueue can bring back a session that an
  integrity event has voided. If meanwhile an overlapping submit's failure path, or the save of
  a profile loaded before, has opened the gate, a second session may have been started, and
  both are active.
- The failure path of submit undoes a flag that came between its load and its save, and
  opens the gate of a voided session; the job's save undoes a flag likewise.
- Starting again after an abandoned session: its questions are in the history but the draw
  excludes only those of submitted ones, so the unique constraint can refuse the start.
- A job-ready candidate who takes the skill assessment again loses `job_ready` in the
  profile while the pool row stays visible ("Employer Flow.md" promises job-ready
  candidates only). It belongs to the composition planned next.
- `WeeklyLimitOfTheCalendar`: a click that waits for its lock over midnight on Sunday is
  counted in one week and created in the next; `WeekOverrunBoundedHolds` says how many may.
- The cap of a role whose counter a stale save has set back admits more talents than it
  says; `RefusalsAreTrue`: after a deletion it admits fewer.
- `InvitedAreReached`: invitations are saved before anybody is told, so a crash or a mail that
  fails leaves people invited whom every later request takes for told;
  `sendAssessmentToCandidate` tells nobody at all.
- `ClosedTakesNothing`: an assessment closed after a submit has loaded it takes that submit.
- `SkippedWasSent`: the key of a digest is a day, its content a rolling week. A restart on a
  day whose digest was sent skips candidates verified since, and the next run of the new
  process does not look back at them; a restart on another day announces candidates twice. A
  `verified_at` committed after the run it belongs to is in no digest, an insert that failed
  is not tried again, and a crash between notice and mail loses the mail.
- `NoGap`: `setInterval` fires late, and the window of each run is the week before that
  instant, not the time since the last run. Who is verified between a run and the start of
  the next window, which is as long as the timer was late, is in no digest.
- `VerifiedIsProven`: `PATCH users/:id` and the administrators' `changeEmail` give a verified
  account an address nobody has proven, and `invite` creates verified accounts, while
  `is_verified` is read as `email_verified` (`employer-verification.service.ts:94`). What
  users do themselves keeps it.
- Accounts: two overlapping issues leave two codes that work, and pass the limit an hour,
  which is counted before the rows are there. A code is spent though the address was taken
  meanwhile. A log-out with an older token ends a newer session; a login in progress during
  a change of password keeps its session; an `updateEmail` in progress when the account is
  deleted puts an address back on the deleted row, which then nobody can register.
- Retake notices: a crash or a mail that fails after the notice loses the mail, since the
  notice then refuses every later try; a poll that runs long can tell of a gate that a newer
  submission has replaced.

## Not modelled

PROJECT.json says why, component by component. Within the modelled ones: the choice and
scoring of questions (an outcome is chosen), texts of notifications and reports, SSE
streams, integrity counters below the threshold that voids a session, and the deletion of
users except in `RoleInterests`, `EmployerAssessments`, `Accounts` and `RetakeNotices`:
elsewhere it deletes rows by cascade that nothing in those modules counts again except
`offers_sent_count`, which would stay.

Of what administrators do to accounts, `Accounts` has what changes an address or a password.
It leaves out `DELETE users/:id` (which removes the row and, by cascade, its codes and links,
so that the identity is free again), the reset of an administrator's password by another
(`ForgotPassword` without its limit), deactivation and reactivation, changes of tier, and the
administrators' log-in with a role that `POST` or `PATCH users` gave: `adminLogin` asks for
the role, not for a verified address. One hazard is in these: `deactivate` and `changeRole`
count the active super admins (`ensureAnotherActiveSuperAdmin`) and update in a later
statement without a lock, so two that demote each other at once leave none.
