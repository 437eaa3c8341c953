# Harcerski System Stopni in TLA+

Formal models of the review of instructor applications, of the meetings of a
commission and of the sessions of the web application, with the TLC runs that check
them and the TLAPS proofs of what holds for every number of members, candidates,
rows and requests. Everything is translated from the sources under `src/`; paths
below are relative to the repository.

* [The system](#the-system): components, state, operations, interactions
* [What is hard](#what-is-hard)
* [Modules](#modules): which module models what, and how it corresponds to the code
* [Runs](#runs): what is checked, the bounds, fairness
* [Proofs](#proofs)
* [Findings](#findings) and [Divergences](#divergences)
* [What is not modelled](#what-is-not-modelled)
* [Plan](#plan)
* [Running it](#running-it)

## The system

A pnpm monorepo: a NestJS API (`apps/api`), a Next.js front end that is also the
backend-for-frontend holding the sessions (`apps/web`), the Prisma schema and its
migrations (`packages/database`), zod schemas and rules shared by both sides
(`packages/schemas`). State lives in PostgreSQL, in an S3-compatible bucket (the
attachments' bytes), in Redis (sessions) and in the browser's pages.

| Component | State | Operations that change it | What makes it correct | Modules |
|---|---|---|---|---|
| Commission review, `commission-review.service.ts` | status of the application, `approvedAt`, `archivedAt`; revision requests, their baseline and response snapshots; candidate annotations; internal notes | saveRevisionRequestDraft, createCandidateAnnotation, updateCandidateAnnotation, publishRevisionRequest, cancelRevisionRequest, changeStatus, notes | one open request; request, annotations and status agree; closed rounds are history; the snapshots of a round are adjacent | `ReviewDialogue`, `ReviewWorkflow`, `InternalNotes` |
| Review screens and pages of both sides | none: computed from the rows | - | what is offered is accepted; both sides are told of the same rounds | `ReviewScreens`, `ReviewPages` |
| Instructor application, `instructor-application.service.ts` | the form, requirements, snapshots (revisions) | create, update, updateRequirement, submit, deleteDraft | candidates write only what is unlocked; no edit is lost from the commission's view | `ReviewWorkflow`, `CandidateScope`, `FixRound` |
| One active application, `create` and a trigger | the statuses of a candidate's applications | all that insert, change or delete one | at most one active application for a degree | `ActiveDegree` |
| Attachments, `instructor-attachment.service.ts` | attachment rows, `hufcowyPresenceAttachmentUuid`, objects in the bucket | presign, confirm, delete, orphan cleanup | limit of 50, linked opinion is active, a row's object exists | `CandidateScope`, `AttachmentStore` |
| Edit scope, `instructor-application-edit-scope.ts`, `packages/schemas/.../editability.ts` | none: computed | - | what the commission unlocked, no more and no less, for the whole round | `CandidateScope`, `FixRound` |
| Change audit, `commission-review-change-audit.service.ts` | none: compares two snapshots | - | says the same as the candidate's editor | `FixRound` |
| Storage cleanup, `storage-cleanup.service.ts` | drafts older than 31 days become ARCHIVED, never-submitted ones archived over 14 days are deleted; orphaned objects | nightly run under an advisory lock | nothing submitted is deleted; stale drafts go in the end; no upload in use is deleted | `ReviewWorkflow`, `AttachmentStore` |
| Candidate's editor (front end) | draft, what counts as saved, rows with a debounce, the step | typing, leaving a step, uploads, submit | what was typed last is shown and submitted | `ApplicationEditor` |
| Panel of fixes (front end) | the application as it was when the page was opened | - | every fix that is asked for can be made | `FixRound` |
| Meetings, `meetings.service.ts` | slots, registrations | createSlots, createRegistration, cancelMyRegistration, cancelRegistration, reassignRegistration | a slot has one candidate, a candidate one active registration; slots are disjoint; cancellations stay | `BookingSheet`, `MeetingRegistrations`, `MeetingSlots` |
| Meeting screens (front end) and their summaries | none: computed | - | what is offered is granted; all screens agree | `MeetingScreens` |
| Sessions, `apps/web/src/auth.ts`, `bff-session.store.ts` | session record in Redis, refresh lock | login, touch, refresh, logout | timeouts hold; no request goes on with a stale token; the lock is its owner's | `Session` |
| Backend proxy and pages rendered on the server | none of their own | - | what they do with a session | `Session` |
| Idle timeout guard (front end) | the clock of each tab, messages between tabs | touch, status, extend, logout | every tab leaves; clocks agree | `IdleTimeoutGuard` |
| Audit services | audit events | one event per change | an event for each change | - |
| Profiles, units, users; guards, strategies, filters | plain rows; none | profile update; - | - | - |

**How they interact.** The candidate's and the commission's handlers and the
cleanup share the row of the application and serialise on it: each opens a
READ COMMITTED transaction whose first statement is `SELECT ... FOR UPDATE` on
that row, and only then reads. The commission's annotations reach the candidate
through the edit scope, recomputed in each handler. `submit` writes a snapshot
and resolves the published request with it. The creation of an application has no
row to lock; it relies on a check and on the trigger of migration
20260304142000. Uploads go from the browser straight to the bucket with a
presigned URL (valid 600 s) and become rows when confirmed; two cleanups remove
objects that have no row.

Meetings use a different discipline: Serializable transactions, a row lock on
the meeting taken *after* the transaction's snapshot, two partial unique indexes
as the last line of defence and up to three attempts after a conflict
(`withSerializableRetries`), except `cancelRegistration` and `createSlots`, which are
not retried. A booking reads the status of the candidate's application once, when it
begins. Nothing in the code moves a meeting out of OPEN_FOR_REGISTRATION.

Every request of the browser passes the backend proxy or a page rendered on the
server. Both call `auth()`, which reads the session record, refreshes the tokens
when they are about to expire and writes the record back.

## What is hard

`PROJECT.json` lists each hazard at its line with the properties that cover it. By kind:

* *Long sequences of legal calls.* Six commission handlers, six candidate handlers and
  the cleanup move the status and the open request together.
* *The same thing computed twice.* The API, its two audiences' pages and the browser each
  derive what is allowed or was done from rules of their own.
* *State read before a lock.* The purge selects drafts, then waits for each
  lock and deletes without reading again. Every check behind the lock of a
  meeting reads a snapshot older than the lock. A request refreshes with the token it
  decoded before it waited.
* *Checks without a lock.* The creation of an application and the trigger read committed rows only.
* *State that depends on itself.* The edit scope of a round is recomputed from
  attachments the candidate may delete in that round.
* *Conflicts, retries and waiting.* Serializable conflicts at each statement and at commit; requests
  hold the meeting while waiting for a registration that another request is writing.
* *Objects and rows.* No transaction spans the bucket and the database: uploads, confirms,
  deletions made after the commit and two cleanups interleave, fail and crash.
* *Late answers.* The editor goes on while it saves, its rows save themselves, and an answer
  replaces the draft; two tabs hear of a session's deadline in any order.

## Modules

### `ReviewDialogue` and `ReviewWorkflow`: the review of one application

`ReviewDialogue` is the abstract specification, what the review promises to both sides: a
dialogue in turns. The candidate writes and hands in; the commission may answer with one question, some
points about what was handed in last, and has the turn again when it is answered or taken back. Answered rounds
are kept as they were, and what was ever handed in is not deleted.

`ReviewWorkflow` is the code. One action per handler of the commission, of the candidate and of the cleanup.
A handler is one step because it holds the row lock from its first statement to
its commit; what it reads cannot change under it. The purge, which acts on what it read before the
lock, is `SelectStaleDraft` followed by `PurgeStaleDraft`, with any handlers in between.

| State | In the code |
|---|---|
| `status`, `approvedAt`, `archivedAt` | columns of `InstructorApplication`; `"DELETED"` when the row is gone; dates as null or set |
| `revision`, `data` | the latest `InstructorApplicationSnapshot`, and whether the application was written since |
| `request` | rows of `InstructorReviewRevisionRequest`: status, revision numbers of the baseline and response snapshots, `candidateFirstViewedAt`, `candidateLastEditedAt` |
| `annotation` | rows of `InstructorReviewCandidateAnnotation`: status, request, anchor type, author |
| `purge` | whether the running cleanup has the application in its batch |

Several choices of the handlers are left open: whether the form is complete at
`Submit`, how old a draft is, and the text of summaries and annotations.
`findFirst` of an open request is a choice of any, so that the model does not
assume what `SingleOpenRequest` states. `changeStatus` to `TO_FIX` calls
`publishRevisionRequest` in the code and is `PublishRevisionRequest` here.
`update` with an empty body is an action (`EmptyUpdate`): it writes no field but
counts as the candidate's edit.

The checks a handler makes before it writes, as far as the state decides them, are operators of their own
(`MayAnnotate`, `MayPublish`, `MayChangeStatus`, ...), so that the screens can be compared with them.

`Dialogue` maps the code to the dialogue:

| In the dialogue | In `ReviewWorkflow` |
|---|---|
| `turn` | the candidate's in DRAFT and TO_FIX, nobody's when the row is gone, else the commission's |
| `submissions`, `work` | `revision`, `data` |
| `question` | `OpenQuestion`: the published request, the snapshot it is about and its published annotations |
| `rounds` | `AnsweredRounds`: the resolved requests with their baseline, their response and their resolved annotations |

Drafting a request, its withdrawn annotations, activity marks, overrides between the commission's
statuses and most of the cleanup are no step of the dialogue. `ImplementsDialogue` is the refinement.

### `InternalNotes`: the notes of the commission

Adds the notes to the state: written under the same lock, allowed in UNDER_REVIEW,
changed by their authors only, gone with the application (`NotesCascade`). `DeskNext` is a step
of `ReviewWorkflow` or of a note, and `DeskIsReview` proves that it implements it.

### `ReviewScreens` and `ReviewPages`: what both sides are shown

No state of their own. `ReviewScreens` has what the API computes for the screens (permissions,
transitions, the inbox, the edit scope, the timeline, the list of audits) and the conditions under
which the web client draws each button: of the commission (`OffersAnnotating`, `OffersPublishing`,
`OffersStatus`, the drawer at an anchor, ...) and of the candidate (the list, the detail with its
notice of fixes, `OffersEditor`, `OffersInput`, `OffersDeletion`). `OfferedIsAccepted` says that each
button leads to a handler whose checks accept the call. It compares the condition of the button with the handler's
guard (`MayAnnotate` and the like, `MayChangeNote`); TLC found each guard equal to `ENABLED` of its handler
in every state of the run.

`ReviewPages` puts the pages together (`ApplicationDetail` with its tabs, badges, history and
audit, beside the candidate's detail) and states `RoundsTold`: two services that read
the same rows with queries of their own tell both sides of the same rounds, the open one and those before.

The pages are those of one moment. The detail of the commission is read by several queries without a transaction.

### `CandidateScope`: what a candidate may do to attachments

The attachments, the presence field and the opinion link of one application, with the edit
scope computed as in `buildInstructorApplicationCandidateEditScope`. `granted`
is a history variable, the scope at the moment of publication; properties
compare it with the present one. The statuses are folded to DRAFT, TO_FIX and
LOCKED, which is all the scope looks at. An upload can vanish before it is
confirmed (`RemoveUpload`); why is in `AttachmentStore`. The candidate's edits are
the disjunction `Edit`, and a step is `Edit`, `Submit`, a publication or a cancellation.

### `FixRound`: a round of fixes from both sides

Extends `CandidateScope` with the answers to the requirements, the last snapshot and the
editor's page, which remembers the application as it was when it was opened.

| Part | In the code |
|---|---|
| `Pending`, `SubmitOffered` | `buildEditApplicationProgress`: the annotations without a change since the page was opened; the button to submit is disabled while there are any |
| `Cards`, `ChangedCards`, `PanelGroups`, `BadgeDone`, `StepOf` | the panel of fixes, the badges of the steps and where a card leads |
| `PresenceInput`, `TextInput`, `FilesInput`, `GeneralInput`, `OpinionInput` | the inputs, unlocked by the scope of the API |
| `Unchanged`, `NotComparable` | the commission's comparison of the snapshots before and after |

`SidesAgree` compares the two sides; `FixReachable` says that what disables the button to submit can
be done at an input the panel leads to. Annotations of the whole application and of sections
are left out: they unlock and ask for what one on a general attachment does, and multiply the states.

### `AttachmentStore`: objects beside rows

The files of one application: `object` (by age), `url` (the presigned URLs), `row`, the requests under way (`job`) and the
nightly cleanup (`night`). A step is one call to the bucket or one transaction:

| Steps | In the code |
|---|---|
| `ListUploads`, `ReadRows`, `DeleteObject`..., `Finish` | `presignAttachment`: `cleanupOrphanedUploads`, then the URL |
| `Upload` | the browser's PUT, repeatable while the URL is valid |
| `HeadObject`, then `CommitConfirm` or `RejectConfirm`, `DeleteObject` | `confirmAttachment`, its validation and its error path |
| `DeleteAttachment`, `DeleteApplication`, then `DeleteObject`... | `deleteAttachment`, `deleteDraft` and the purge of stale drafts: rows first, objects after the commit |
| `StartNight`, `LookUp`, `DeleteOrphan`, `EndNight` or `AbortNight` | `cleanupOrphanedObjects` |
| `Crash` | the process stops; a request forgets what it owed |

No bound is put on how long a request takes; the ages are what protects. `late` and `tries` are
history: which keys were confirmed after half an hour, and how many confirms each key had.

### `ActiveDegree`: one active application

The applications of a candidate for one degree under READ COMMITTED: the check of `create`, the
insert with the trigger `enforce_active_degree_unique`, the handlers that lock a row, write it
through the same trigger and commit. A statement sees what is committed when it runs, and a commit is a step of its own.
What a handler may make of a row is in `SubmitMoves` to `PurgeMoves`, and `MovesAsInActiveDegree` proves that
the handlers of `ReviewWorkflow` make no other of it. The purge takes active rows too (`PurgeMoves`): an
archived draft may be revived between the select and the lock.

### `ApplicationEditor`: the form in the browser

| State | In the code |
|---|---|
| `app`, `saved` | `appRef` and `persistedAppRef` of `useInstructorApplicationDraftState` |
| `row`, `patches` | the mounted `RequirementRow`, its debounce, and its PATCH requests under way |
| `form` | what each field is: one of the first step, the presence of the hufcowy there, or one of the second step |
| `nav` | the step and the call of `navigateTo` that waits for an answer; `late` has what was typed in since it began |
| `server` | what the API stored |
| `upload` | the uploads and deletions under way: the PATCH of the opinion's presence sent or stored, or a file |
| `typed` | history: what was typed last, `"any"` once the text met a case the code does not handle |

Leaving a step saves, asks again where the code does (`Fetches`), validates and moves; the page can
be used meanwhile. Any fields may be in the first two steps, each with any texts and required or not;
the requirement is one, because each row saves only itself. A PATCH of the fields carries what differed
from `persistedAppRef` when it was sent (`nav.sent`); that it is stored and that the page learns it are two steps
(`PatchStored`, `PatchAnswered`). A click on the navigation takes the focus, so
`NavigateTo` finds the text of the row left (`~row.typing`).

Fields are also written outside `navigateTo`: an upload of the opinion first sends the presence by a PATCH of its own
(`StartOpinion`, then `OpinionStored` and `OpinionAnswered`, or `OpinionFails`), while the select stays usable and
`navigateTo` may run. Any number of uploads may be under way.

`typed` becomes `"any"` in these cases only, each named in its action:

* what was typed while `navigateTo` waited differs from what its GET answers, which replaces it, or is left with its step
  although the server has another text (`Overtaken`); where both agree with the text nothing is excepted;
* a field is set back to what the page believes saved while the server has another text (`Believed`);
* a PATCH took effect although `navigateTo` learned of an error, and the draft is back at what the page believes
  saved (`Strayed`);
* an upload marks typed and unsent fields as saved;
* the PATCH of the opinion reaches the server after another presence was chosen (`OpinionStored`), or its answer makes
  the page believe saved what the server has no longer (`OpinionAnswered`);
* the URL takes the page to another step, which saves nothing;
* a PATCH of the row failed or was overtaken by another, nothing is under way, and the text in the row is what the
  page loaded, blank, or gone with its step, so that nothing sends it again (`Settled`);
* the row is mounted again with another text than the one typed last (`Shown`);
* the row is made blank although it is required;
* a PATCH of the row is under way when the application is submitted.

### `BookingSheet` and `MeetingRegistrations`: bookings

`BookingSheet` says what the registrations of one meeting promise: a sheet on
which a name is put down, moved or struck out in one stroke, each candidate
once and each slot for one candidate. It is the abstract specification.

`MeetingRegistrations` is the code: any number of concurrent requests, each a Serializable
transaction.

| Step | In the code and in PostgreSQL |
|---|---|
| `Begin` | the first reads; the snapshot (`view`); the checks made before any lock |
| `Lock` | `lockMeetingRow`; the snapshot stays as it was |
| `Insert`, `Update` | the checks after the lock, on the snapshot; then the write: it waits for a concurrent writer of the same row or index entry, meets the unique index as it is *now*, and fails if the row was updated since the snapshot |
| `Commit` | the row becomes visible; the others note it in `missed` |
| `Abort` | a serialization failure, possible once anything was committed since the snapshot |
| `AfterConflict` | `withSerializableRetries`: back to `queued`, or `rethrown` at the last attempt |

The model relies on the two rules PostgreSQL is sure to enforce here, unique
indexes and first-updater-wins. Any other serialization failure is possible in the
model and never assumed, so the properties do not rest on SSI finding a cycle.
`SheetPlace` maps the table to the sheet, and `ImplementsSheet` is the refinement.

`WaitsFor` has whom a request waits for: the holder of the meeting, or the writers of its row and of the index
entries it would take. `reassignRegistration` and the bookings take the meeting first and then write a registration,
cancellations write one only. `NoCircularWait` says that PostgreSQL never finds a deadlock among them.

### `MeetingScreens`: what a candidate is shown of a meeting

No state of its own: the summary the API computes (`CanBook`, `BookingBlockedReason`,
`CanCancelMyRegistration`, the counts), the page with its views, months and filters, the rows of a card,
the list of my registrations and the dashboard's card. `OfferedIsGranted` compares the buttons with
what a request that runs alone would get; `ScreensAgree` compares the screens with each other.
A screen is one that was just read.

Three deadlines are in it: a booking may be cancelled by its candidate until the day before the meeting begins, made
until the meeting's day begins, and is on the list of my registrations until that day is over (`listMyRegistrationsForScout` asks for `meeting.date >= todayStart`;
`listForScout` and the day details do not). From then on my list and the dashboard omit what the calendar and
the list of its month still mark as mine. `ScreensAgree` says so, and that nothing can be done any more with what is omitted.

### `MeetingSlots`: adding slots

`createSlots` with its interval checks, the neighbour-wise comparison of the
sorted batch and the numbering. No index forbids overlapping slots, so two concurrent batches are
kept apart by SSI only: each reads what the other inserts, the cycle cannot commit. `Commit`
therefore requires that nothing was committed since the snapshot. Instants
are integers, and the day of the meeting is a set of them.

### `Session`: one session and its concurrent requests

| State | In the code |
|---|---|
| `record` | the value in Redis: tokens, last seen, both deadlines; Redis drops it when they pass |
| `lock` | the refresh lock (SET NX PX), with whose value it holds |
| `provider` | Keycloak: the last refresh token it issued, whether the SSO session lives |
| `req` | each request: decode, acquire the lock or wait for a peer, refresh, persist, release, encode, then answer or touch; or logout |

Each call to Redis or to the provider is a step, every step may fail, and the reply of a
call that took effect may be lost. `SessionOf` is what `auth()` returns, `BackendProxy` and
`ServerContext` what its two readers make of it.

### `IdleTimeoutGuard`: the tabs of a session

Each tab has a clock, answers under way (`flight`) and messages of the BroadcastChannel (`inbox`).
The server takes a request when it is sent; the answer arrives late, in any order, or never. A
touch of a page that is being left may reach the server later (`LateTouch`), and what was under way
for a page that was left is dropped. The races on the record behind the deadlines are `Session`'s.


## Runs

| Run | Instance | What it shows |
|---|---|---|
| `review` | 2 members (1 manager), 2 requests, 2 annotations, 1 note; fairness | the safety of the review, both sides are told of the same rounds, every button offered is accepted, refinement of `ReviewDialogue`, a stale archived draft is deleted or revived |
| `scope` | 1 requirement, 3 attachments, limit 2 | the opinion link, the limit, files stay unlocked, both sides of a round agree, every fix can be made |
| `fixes_reload` | the same | finding 3 |
| `store` | 1 key, 2 requests at a time; fairness | an attachment confirmed once and in time keeps its object; objects without a row go in the end |
| `registrations` | 2 candidates, 2 slots, 2 registrations, 2 requests at a time, 2 attempts | uniqueness, no circle of waiting requests, cancellations stay, refinement of `BookingSheet`, the screens agree with the handlers and with each other |
| `day_only` | 1 candidate, no slots, 2 registrations; fairness | every request ends, booking closes |
| `slots` | 2 requests at a time, batches of up to 3 of 5 intervals | slots are disjoint and numbered without a gap |
| `session` | 2 requests at a time; a token lives 1, idle timeout 1, absolute 2, time ends at 3; fairness | the absolute timeout holds, no request goes on with a token that ran out before it began, a lock is released by its owner, every request ends |
| `idle` | 2 tabs, 1 message under way, idle timeout 1, absolute 2, prompt 1; fairness | the clocks stay within the session, tabs come to agree, every tab leaves |
| `session_rotation` | 2 requests, idle timeout 2, absolute 3 | finding 1 |
| `create_duplicate` | 2 requests, 2 applications | finding 2 |
| `editor` | one field, in either step or the presence, one requirement with two texts, both required | what was typed last is what the screen shows and what is submitted |

**Bounds, and why they are enough.**

* Requests, annotations, notes, attachments and registrations are never reused once
  closed, so their number bounds the history of a run.
  Two requests give a round after a resolved one or after a cancelled one, and
  what relates requests relates two of them; the proofs hold for any number.
  Two annotations give a withdrawn one beside a live one, and two of different anchors in one request.
  One member who is not a manager shows what managers alone may do.
* Three attachments with a limit of two reach the limit, exceed it by an
  upload presigned earlier, and replace an opinion below it. One page is open at a
  time, and the answer to a requirement changes once.
* In `store` each race is between two requests, or a request and the nightly cleanup, over one key.
  Which key a replacement gets does not matter to the objects: the proof covers any number of keys.
* Two requests at a time are what every conflict in the meetings is made of: the
  rules of the database relate pairs of transactions. Two registrations allow a
  booking next to a cancelled one and two candidates competing for a slot.
  `IdentityLeft` names the bound on bookings: one starts only while an identity is left for it.
  The code's three attempts are two.
* `MaxBatch` bounds a batch at three: a sorted batch in which neighbours are disjoint while others overlap
  needs at least three. The intervals touch, nest and overlap; one leaves the day.
* `MaxTime` ends the clock of the sessions after the absolute timeout, so that both deadlines and the
  life of a token pass within a run (`idle`: with it). `MaxFlight` bounds what each tab has under way: at one, an answer
  is overtaken by messages of the other tab and by a mount, not by another answer of its own tab, which the proof of
  `ClockWithinAbsolute` covers and the liveness properties do not. With
  `Prompt` equal to the idle timeout the warning may show at any moment.
* In `editor` a field is blank or filled, as its validation tells them apart; the row has two texts beside the
  blank one, so that requests with different texts overtake each other. The text of the field is the presence for
  which an opinion is uploaded, where the field is the presence. `Apart` keeps uploads and the row's own requests from
  being under way together: the former write fields, the latter the row, and what they leave meets in the draft and at
  `submit` all the same (3.1 million states up to the symmetry of the texts); the proof is without that bound.
  Fields do not look at each other, except that they are sent together; the proof is for any number.
* Symmetry is used only where no liveness is checked, over sets whose members the module never tells apart.
* The type invariants that are proved are not repeated in the runs, and so is
  `SelectedNeverSubmitted`, which is a part of the proved invariant of the review.

Deadlock is checked for `MeetingSlots`, which always accepts another batch, and in the runs of the
findings `create_duplicate`. The others may stop: a deleted application, no identities
left, the end of the clock.

**Fairness.**

* `CleanupFairness`: the nightly cron job keeps selecting (weak fairness of
  `SelectStaleDraft`), and a draft selected again and again is deleted in the end (strong
  fairness of `PurgeStaleDraft`), because each batch takes the oldest rows first and a run
  that was cut short is followed by others.
* `Fairness` of the store: the cron job starts every night, the clock runs, and for each
  object there are nights on which the run comes to it and the bucket deletes it (strong fairness of `LookUp` and
  `DeleteOrphan`). Nothing is assumed of requests, which may crash or never go on.
* `Fairness` of the meetings: strong fairness of each request's own steps. Node
  runs each request to its end, and PostgreSQL queues the waiters of a row lock,
  so one that is free again and again is granted in the end. New requests, aborts and the
  commission's decisions are not assumed to happen. Time passes
  (weak fairness of `TimePasses`).
* `Fairness` of the sessions: each request goes on (weak fairness of its steps, which are
  always enabled or wait for the lock) and a lock runs out in Redis. The clock is not assumed to run, no
  call is assumed to succeed.
* `Fairness` of the tabs: effects, timers, the polling interval and the messages of the channel run in
  the end, and for each tab some answers arrive (strong fairness of `Receive`). Neither the user nor the
  clock of the server is assumed to do anything.

## Proofs

Eight modules, checked by TLAPS for every value of the constants. Each rests on the named
assumption of its module (managers are members, null values are none of the values, timeouts are positive) and on
the hypotheses named below. With them every safety property of the runs that pass is a theorem, and so is every
refinement: the review implements its dialogue, the bookings their sheet, the desk the review and the
round of fixes the scope.

| Module | Theorems | Inductive invariant |
|---|---|---|
| `ReviewWorkflow_proofs` | `TypeCorrect`, `OneOpenRequest`, `RequestsFit`, `AnnotationsConsistent`, `WorkRemains`, `SnapshotsConsistent`, `EditsTraceable`, `DatesConsistent`, `DeletionSafe`, `HistoryKept`; of the whole `ReviewIsDialogue`; of the desk `DeskIsReview`, `OffersAccepted`, `RoundsToldAlike` | `IInv`; with `RowsSound` and `Unwritten` for `RoundsToldAlike` |
| the same, about `ActiveDegree` | `MovesAsInActiveDegree`; `ActiveAlwaysBounded` for finitely many requests; `AloneUnique` for one | `IInv`; `DegreeInv` = `TypeOK`, `ComingBounded` |
| `FixRound_proofs`, about `CandidateScope` | `TypeCorrect`, `OpinionAlwaysLinked`, `FilesUnlockedAllRound`, `LimitAlwaysHolds` | `ScopeInv`; `LimitInv` |
| the same, about `FixRound` | `RoundIsScope`, `SidesAlwaysAgree`, `FixesReachable` | `RoundInv` = `ScopeInv` and what is remembered stays true |
| `AttachmentStore_proofs` | `TypeCorrect`, `ObjectKept` | `Inv`: per request `Keyed`, per key `Sound` |
| `MeetingScreens_proofs`, about `MeetingRegistrations` | `TypeCorrect`, `BookingsUnique`, `NobodyWaitsInCircles`, `CancelledForGood`, `SheetImplemented` | `Inv`: `Sound` requests, `WrittenApart`, `ActiveUnique` |
| the same, about `MeetingScreens` | `ScreensTruthful`; `ScreensConsistent` for finitely many slots | `ScreenInv` = `Inv`, `Placed`, `Fresh` |
| `MeetingSlots_proofs` | `NeighboursSuffice`, `TypeCorrect`, `SlotsApart`, `NumberedInOrder` | `Inv` = `TypeOK`, finitely many slots, `Apart`, `SortOrderTotal`, `Checked` requests |
| `Session_proofs` | `TypeCorrect`, `TimeoutKept`, `AnswersFresh`, `LockOwned`; `RotationAlone` for requests one at a time | `Inv` = `TypeOK`, `RecordKept`, `Sound` requests; `Latest` for `RotationAlone` |
| `IdleTimeoutGuard_proofs` | `TypeCorrect`, `ClocksBounded` | `Inv` = `TypeOK`, `Within` deadlines, `Quiet` tabs, `ClockWithinAbsolute` |
| `ApplicationEditor_proofs` | `TypeCorrect`, `WorkSubmitted`, `WorkShown` | `Inv` = `TypeOK`, `FieldKept`, `RowKept`, `NavKept` |

**The review.** Hardly any part of `IInv` is inductive alone, which is why they are proved together:

* creating a draft request keeps `SingleOpenRequest` only because nothing is
  open then; publishing keeps `RequestFitsStatus` because the request it
  publishes was the only open one;
* `PublishedHasWork` needs `AnnotationsFollowRequest`: the actionable annotation
  counted at publication was a draft and becomes published, and nothing withdraws a published annotation while the request stays published;
* `SnapshotLinks` at submit needs `RequestFitsStatus` (a published request
  exists in TO_FIX only, and is the only one) and its own first part (its baseline is the latest
  snapshot), which gives a response one above the baseline and above every earlier response;
* `UnsubmittedEditsTraceable` needs to know that after the first submit the candidate writes only
  in TO_FIX, hence `SelectedNeverSubmitted`: a DRAFT has no snapshot;
* `DeletionSparesSubmitted` is the interesting consequence. The purge deletes what it
  selected without reading it again, and it is `SelectedNeverSubmitted` that makes
  this harmless to submitted applications: a selected row is not DRAFT, and leaves
  ARCHIVED only for a status from which it can be edited by way of a
  published request alone, which needs a snapshot it does not have.

One lemma per handler shows that it keeps `IInv`; the action properties follow
from `IInv` and the definition of each step. `RoundsToldAlike` adds that the columns of one
row agree (`RowsSound`: only a published request has a baseline, was seen, edited and answered) and that unused annotations
belong to no request (`Unwritten`), so that the two services, which filter by different columns, find the same rounds.

`ReviewIsDialogue` has a lemma for each turn and one for what is no turn. It needs most of `IInv`: that a
question is open in TO_FIX only and is the only one (`RequestFitsStatus`, `SingleOpenRequest`), that it is about the last
snapshot (`SnapshotLinks`), that its points are not empty (`PublishedHasWork`), that `submit` resolves
exactly them (`AnnotationsFollowRequest`), that closed requests and their annotations stay, and that an override
never gives the candidate the turn.

`OffersAccepted` is one lemma per button. The screens compute their permissions from the status and the rows of the lists, the
handlers from the rows they lock; the two meet in `IInv`. The button to publish, for one, looks at the request in
DRAFT that the list shows, the handler at any open one.

**Scope and rounds.** `ScopeInv` adds `PublishedConfirmed` to the checked invariants: annotations point at
attachments that were confirmed. An upload confirmed later is therefore not annotated, so when it
becomes the opinion no annotated attachment drops out of the scope; this is where
`FilesStayUnlocked` would fail, and lemma `ScopeKept` says it once for all
handlers. `LimitHolds` rests on a separate induction over the cardinality of the active attachments,
which are finite although the identities need not be. `FixRound` implements `CandidateScope` (`RoundIsScope`),
and what a page or a snapshot remembers of files that are gone is true of each of them.

**Objects.** What protects a confirmed object is age and order: `Aged` (an old upload has no
usable URL left), `CleanupsWait` (a cleanup lists only what can no longer be overwritten, and deletes it only if no row was
confirmed in time), `OneClaim` (one
confirm holds a key that was confirmed once).

**Meetings.** `Sound` says of each request what its old snapshot is still worth: a row it read as registered still is, or the
request missed the change; a booking or a move holds the lock of the meeting up to its commit, and nothing came in
the way of what it wrote. `WrittenApart` says that two requests never write the same row. The refinement then
has one case per commit: an insert puts a name down, an update moves or strikes it out, all else stutters.
`NobodyWaitsInCircles` is the order of the locks: whoever is waited for is further on than who waits, and who has
written waits for nobody (`WaitsForward`).
`ScreensTruthful` adds that a request that ran alone reads what the screen was computed from.

**Sessions.** `RecordKept`: the deadlines of the record lie within those of its login. `Sound` carries the
same to what each request has decoded, so whatever a late write puts back, the absolute timeout holds, and what is
handed on ran out, if at all, after the request began.

`RotationAlone` is the other half of finding 1: when no two requests run at a time, the refresh token presented is the one
issued last, whatever fails. `Latest` follows every copy of the tokens, in the record and in the request; only while
the successor is on its way to the record (`persist`, `store`) is the record behind, and a request that fails there
loses an answer of the provider, which `RotationSafe` excepts.

**Slots.** The batch is sorted with whatever order `sort` finds. That there is one (`BatchSorted`) is selection sort:
one of the values from any place on is the least of them. The inductions are over naturals by the least
counterexample: a set of naturals that is not empty has a least element, which the well-foundedness of `<` gives, and
a number with the claim unproved and its predecessor with the claim proved contradict each other. In the same way
`NeighboursSuffice`: in a sorted batch of valid intervals neighbours that are disjoint put every interval behind all
before it, so `ensureSlotsDoNotOverlap` refuses exactly the overlapping batches. `Checked` says that what
a request found is true of its snapshot, `Commit` that the snapshot is the meeting. The numbers go on
at the cardinality of the slots, which is where the numbers of finitely many slots end.

**Tabs.** A deadline the server gave is within the absolute one, so every answer under way is, and a message, which is
cut at the clock of its sender, is too or lies in the past (`Within`). The part that is easily missed is `Quiet`:
a tab in which the guard does not run has nothing under way. Otherwise a page
that opens could take the answer to the page before it for its own, and count a deadline it only assumed as heard.

**The editor.** For a field: what differs from what the page believes saved is sent on leaving its step, so a field that
counts as saved or that the page is done with (`Believed`, `Done`) is on the server as typed (`FieldKept`). When an
answer replaces the draft (`"land"`), the server still has what it answered, except where the candidate typed
meanwhile (`late`) or the opinion's PATCH came between, which writes the presence alone and as the draft has it, unless
another was chosen. For the row: as
long as no PATCH is under way, the server has its text, or the row has something to send (`Unsent`), or a flush carries it
(`RowKept`). At `submit` the row is gone, so what is left to send is nothing, and a PATCH still under way makes the
row `"any"`.

**One active application.** Whoever makes a row active saw no other active one when it wrote. So the
active rows and those that come at a commit are then written rows of requests: no more than one for each.
`MovesAsInActiveDegree` failed at first: it showed that the purge may meet a revived, active row, which `ActiveDegree` then
left out.

**Checked by TLC only.** Liveness under fairness: `StaleArchivedGoes`, `RequestsEnd`, `BookingCloses`, `OrphansGo`,
`EveryTabLeaves`, `ClocksAgree`. It rests on `ENABLED`, which is beyond this prover. The findings and
the divergences are counterexamples, which are TLC's to show. Theorems about recursive definitions over data would be
out of reach too; the models have none.

## Findings

Each is a run that TLC finds violated, with the line it contradicts in
`PROJECT.json`.

1. `session_rotation`: the refresh lock is taken with the token decoded at the start of the request, and the
   record is not read again behind it. A request that decoded before a peer refreshed and acquires after the peer
   released presents a refresh token that is already rotated; the provider then revokes the session. `RotationAlone`
   shows that the interleaving is what it takes.
2. `create_duplicate`: at READ COMMITTED the check and the trigger see none of what an overlapping creation has
   not committed. Both commit, and the candidate has two active applications. `ActiveAlwaysBounded` says how many
   there can be; `AloneUnique` that overlap is what it takes.
3. `fixes_reload`: a candidate who deletes an annotated attachment of a requirement and opens the page again is
   led to the general attachments, and the button to submit stays disabled whatever is uploaded at the requirement.

## Divergences

Properties that the repository's documents or comments suggest and the models violate. They stay in the modules, each
with its comment; adding one to a configuration of its module shows the trace.

| Property | Module | What the code does |
|---|---|---|
| `ApprovedWasSubmitted` | `ReviewWorkflow` | `changeStatus` takes a draft that the cleanup archived to APPROVED, although the documents let the commission accept submitted applications only |
| `DrawerOfferAccepted` | `ReviewScreens` | the drawer offers a comment in a request a colleague drafted, which the handler refuses (`docs/0104-user-stories-acceptance.pl.md:164`: each commission role may comment) |
| `GeneralFilesStay`, `OpinionStaysUnlocked` | `CandidateScope` | an annotation on the linked opinion changes its meaning when the candidate deletes the opinion: general attachments become deletable, the opinion locked |
| `FixedMaySubmit` | `FixRound` | a page reopened in the middle of a round asks for what was already fixed |
| `UploaderShown` | `FixRound` | `RequirementRow.tsx:354` hides the uploader of a PLANNED row whose text is locked, although the scope unlocks its files |
| `ExhaustedRetriesAnswered` | `MeetingRegistrations` | `withSerializableRetries` rethrows the database's error at the last attempt, so the answer CONCURRENCY_CONFLICT is unreachable |
| `OnlyCommissionCancels` | `MeetingRegistrations` | candidates cancel their bookings, which two documents reserve to the commission |

`FixReachable` excepts what `UploaderShown` names and the annotations of finding 3.

Seen while modelling, without a property:

* `MeetingCalendarView.tsx:442`: after a booking the page renews its list but not the day details it has loaded,
  against `docs/0105-ux-flows.pl.md:240`.
* An annotation on a file that was added in a round later cancelled is NOT_COMPARABLE for the commission: neither snapshot has the file.
* The commission's detail computes a candidate's edit scope without the attachment map and the opinion; its pages never use it.
* The editor's `syncStepWithUrl` compares with the search parameters of its closure; a pending `router.replace`
  can take the candidate to another step without saving.

Behaviours that the models have and nothing in the repository contradicts are listed as hazards:
a draft revived by the commission after the cleanup selected it is still deleted; a registration outlives
the approval it was made on; a confirm repeated after it succeeded deletes the object of the confirmed attachment;
an upload marks typed and unsent fields as saved; the presence that an upload of the opinion saves
overtakes another one chosen meanwhile; what is typed while the editor waits for its GET is replaced by the answer; my list
and the dashboard drop a registration after the meeting's day while the calendar goes on marking it (the texts of
both, `messages/en/meetings.json:34` and `common.json:76`, speak of upcoming meetings, though the title of the empty
list, `meetings.json:35`, of active registrations); a touch or an encode can write back the tokens of before a refresh.

## What is not modelled

* Blanks around texts: the editor compares the texts of a round trimmed, the change audit as they are.
* Data no property is about: names, texts, dates as dates, the fields of the
  form beyond the ones named above; sorting, searching and paging of lists.
* Legacy fix requests: read by the code, created by nothing in it.
* The calendar's cache of day details, its grouping by month and day, and reads by several queries that straddle a
  write: screens are of one moment. The commission's pages of meetings; `createMeeting`, which inserts one row.
* Audit events, written after the commit by the review and inside the transaction by the meetings, and the loading
  of the audit panel.
* Encryption and cookies, login with the provider; the backend proxy's checks of host, CSRF, rate, body
  and headers.
* Authentication and roles, except where a handler distinguishes managers, authors
  and members; guards, strategies and filters keep no state. Profiles and units are plain rows.
* Downloads, the creation of the bucket.
* The foreign key of a registration locks the row of its application
  (FOR KEY SHARE), which the review's lock (FOR UPDATE) conflicts with: a booking may wait for a review
  handler. `MeetingRegistrations` has the effect of the review on bookings (`Review`) but not this wait.

The largest unmapped files are rendering (JSX and its wording), scripts (`run-lighthouse.mjs`, `seed.ts`), DTO and schema
declarations and Prisma SELECT constants: data and layout, with no state of their own.

## Plan

Done: every module above. What would come next:

1. Day details of the calendar as state, so that stale screens can be compared with what a booking then gets.
2. `ReviewTransactions`: the review at the level of statements, with the row lock, the audit events after the
   commit and reads by several queries, shown to implement `ReviewWorkflow`.
3. The liveness of the editor: what was typed is saved in the end, under fairness of its timers and answers.
4. Several applications at a time: the batches of the cleanup, lists and paging.
5. Abstract specifications of the store of attachments and of a session, as the review and the bookings have.

## Running it

In this directory, with the CommunityModules and the TLAPS library on the path:

    tlc -workers 2 -config MCReviewWorkflow.cfg MCReviewWorkflow
    tlapm ReviewWorkflow_proofs.tla

and likewise for each run and each `*_proofs` module. `PROJECT.json` lists the module and the configuration of each
run, the mutant that shows each property can fail (one per property, defined beside the operator it stands
for), the hazards, and the lines each definition models.
