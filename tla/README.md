# A verification model of okf-converter

okf-converter takes a document a user uploads (Markdown, HTML, text, CSV or
PDF) and turns it, in a background worker, into an OKF bundle: an index, a log
and one Markdown file per logical unit, zipped for download. This directory
holds TLA+ modules of its parts, the TLC configurations that check them, and
proofs that TLAPS checks. Paths are relative to the repository; line numbers
are those of the commit the modules were written from. `PROJECT.json` maps
every definition to its lines, lists the runs, the mutants that show each
property can fail, the hazards and the theorems.

## 1. Inventory

| Part | Source | State it keeps | Operations |
| --- | --- | --- | --- |
| API: enqueueing | `backend/cmd/api/main.go` | none of its own; request context | `EnqueueConversion`: insert the job, publish, mark both failed when refused |
| File endpoints | `backend/internal/files/handlers.go` | none | UploadURL, Confirm, Retry, List, Detail, Status, Outputs, DownloadBundle |
| File rows | `files/repository.go`, `database/init.sql` | `files.status`, `files.validation` | create, MarkReady, MarkRetrying (compare-and-set), UpdateStatus, SaveValidation, ClearValidation, delete |
| Job rows | `files/jobs.go` | `conversion_jobs.status`, `attempts`, `retry_of` | Create, Claim, Requeue, UpdateStatus, LatestForFile |
| Queue | `convert/queue.go` | RabbitMQ: work, retry (TTL) and dead queues | Enqueue, drain, process, handleFailure, resubscribe |
| Broker object | `convert/queue.go` | the cached connection and channel, under a mutex | channel, reset, close |
| Worker process | `cmd/worker/main.go` | context cancelled by SIGTERM, goroutines | start, drain on shutdown, exit |
| Pipeline | `convert/pipeline.go`, `files/outputs.go` | `file_outputs` rows, stored objects, archive | Convert, convert, validate, store |
| Text extraction | `convert/extract.go` | tokenizer position, dropped element, heading level | htmlToText, PDF and CSV readers |
| Segmentation | `convert/segment.go`, `units.go`, `extract.go` | headings found so far | detectHeadings, splitLevel, sections, paragraphs, CSV rows |
| Bundle | `bundle/bundle.go`, `frontmatter.go`, `validate.go` | the files in memory, the report | Build, Validate, SetValidation |
| Object storage | `storage/storage.go` | objects | presign, stat, get, put, remove |
| Dashboard | `frontend/.../dashboard.component.ts` | list shown, interval, requests under way, open panel and cached reports | poll, refresh, upload, retry, toggleDetail, destroy |
| Accounts | `auth/`, `middleware/auth.go` | users, the session cookie | Register, Login, Me, Logout, CheckEmail, ResetPassword |
| Sessions in the browser | `frontend/.../auth.service.ts`, `auth.guard.ts`, the three forms | user shown, page, requests under way | login, register, logout, loadCurrentUser, the forms |
| The rest | config, db, metrics, httpx, slugs, zip, scripts, containers | none | start-up and formatting |

How they meet: the API and the workers share the two tables and the three
queues and nothing else. A request handler writes a file row, inserts a job
row, and publishes; a worker goroutine takes a delivery, claims the job row,
runs the pipeline (which writes the file row, the output rows and the objects),
and then requeues or gives up and acknowledges. No transaction spans two of
these calls, so every pair of calls is a place where another actor, or a
fault, comes in between. The dashboard learns of all this by asking. Within a
process, handlers or goroutines share one broker object and its channel;
within a browser, the pages share one `AuthService` and one cookie.

What is hard here: deliveries that are duplicated, redelivered or lost;
workers that die or are told to stop in the middle of a conversion; a
database that fails after or before the effect; a user's retry racing the
automatic one; clients that hang up; responses that arrive late or overtake
each other; a channel one caller resets under another; and pure parts, text
extraction, segmentation and rendering, whose boundary cases are easy to get
wrong. What makes each part correct is listed with its module below; the
hazards of `PROJECT.json` name the line where each can go wrong.

## 2. Modules

| Module | Models | Extends |
| --- | --- | --- |
| `JobLifecycle` | abstract: what the status of a job row may do | |
| `JobQueue` | API enqueueing, queues, job and file rows, worker processes and goroutines | |
| `JobQueueProofs` | theorems about `JobQueue` | `JobQueue`, `TLAPS` |
| `FileRequests` | UploadURL, Confirm and Retry, composed with `JobQueue` | `JobQueue` |
| `FileRequestsProofs` | theorems about `FileRequests` | `FileRequests`, `TLAPS` |
| `Broker` | the cached connection and channel under publishers and the consuming loop | |
| `BrokerProofs` | theorems about `Broker` | `Broker`, `TLAPS` |
| `Release` | abstract: what publishing a file promises | |
| `Publication` | Convert, validate and store for one file, DownloadBundle, Outputs and its links | |
| `PublicationProofs` | theorems about `Publication` | `Publication`, `TLAPS` |
| `Dashboard` | the dashboard's requests, interval, callbacks and detail panel | |
| `DashboardProofs` | theorems about `Dashboard` | `Dashboard`, `TLAPS` |
| `Segmentation` | how a sequence of lines is divided into units | |
| `Documents` | htmlToText, and documents line by line, composed with the division | `Segmentation` |
| `SegmentationProofs` | theorems about the scan, the division and the pages of `Documents` | `Documents`, `TLAPS` |
| `Bundle` | how a bundle is rendered, scanned for links and validated | |
| `BundleProofs` | theorems about `Bundle` | `Bundle`, `TLAPS` |
| `Directory` | abstract: what the account endpoints promise | |
| `Accounts` | the handlers of internal/auth, the cookie, and the browser's pages | |
| `AccountsProofs` | theorems about `Accounts` | `Accounts`, `TLAPS` |

The `MC*` modules give the constants their values for TLC and hold nothing
else. A definition whose comment begins with "Variant" is a plausible bug of
the definition that follows; it is used by the mutants alone.

### JobQueue

One action per database call, publish and acknowledgement of
`Consumer.process`, `handleFailure` and `Convert`; `pc[w]` is the call a
goroutine makes next. A queue counts the copies it holds of each message,
redelivered ones apart, since nothing in the code depends on the order of two
jobs. `Claimable` is the WHERE clause of `Claim`. Conversion is one step that
works or fails (`Produce`); what it writes is `Publication`'s subject.

Faults are counted in `spent` and allowed up to `Budget`: a process killed, a
link dropped, a SIGTERM, a database call that fails, one whose answer is lost,
a publish duplicated, lost or refused, a body that is not a job, and an API
that dies. A SIGTERM sets the mode of the process to "stopping": from then on
each database call of its goroutines fails, as they use the context the signal
cancels.

Correct means: the message and the row never part (`NoJobAbandoned`,
`EveryJobSettles`), a job is converted by one goroutine at a time and once
(`SoleConversion`, `ConvertedIsFinal`, and refinement of `JobLifecycle`),
attempts are counted (`AttemptsAccounted`, `DeadLettersAreExhausted`), and the
two tables agree (`RowsAgree`, `RetryIsWaiting`). `RowsAgree` and
`RetryIsWaiting` are stated while nothing has disturbed the workers: with a
crash between two writes the rows differ until the redelivery, by design.

### FileRequests

Each request (a Confirm or a Retry) is in the call `at[r]`; its job carries
its name. `Disconnect` cancels the request's context, after which every call
of it fails, the failure marks of `EnqueueConversion` included. `Abandon` is
the API dying in the handler. The retry's compare-and-set is `MarkRetrying`.

A file is uploaded once: the presigned URL is not used again after a short
upload was removed.

`OneLiveJob` and `RetryHistoryIsChain` say what the compare-and-set is for.
`PublishedStays` says what may take a published bundle back: the two updates
that do not look at the status they replace, `MarkReady` of a second Confirm
(`ConfirmedOnce`) and `Requeue` of another attempt (`TriedOnce`). A second
Confirm does take it back, in the code and in the model; the run has one.
`NoFileStranded` and `FileSettles` say that a file in a waiting status is
waiting for something; `Untroubled` names the failures after which the code
does strand it: a call of a handler that fails once the row was moved, a client
that hangs up there, an API that dies there.

### Broker

The broker object by itself, which `JobQueue` knows only by its effect, a
publish that works, is refused or is lost. `channel`, `reset` and `close` hold
the mutex and are a step each; publishing does not, so a caller may lose the
channel it was given. `role` says whose object it is: the API's, whose handlers
call `Enqueue` (two attempts, a reset after a failed publish), or a worker's,
whose goroutines publish once each, on the channel its loop consumes from and
opens again. A connection may be dead before the process notices ("broken").

`NothingLeaked` says that what is open is what the object holds. `cost` counts
what the troubles met since a call began can have cost it, and
`FailureHasCause` says that `Enqueue` fails after no less than two attempts'
worth. `ConsumesAgain` is the promise of the loop.

### Publication

Runs of `Convert` on one file, call by call, against requests to
`DownloadBundle` or `Outputs` and clients that open a link of the latter. What
a run writes carries the run's name, so a mix of two runs is visible.
`PublishedIsWhole`: a converted file has the verdict, the rows, the objects and
the archive of one run. `RetryNeverCollides`: the rows a dead run left are gone
when the next run inserts its own. `RowsAreOneAttempt`: a list of the files is
never of two runs, though it may be cut short. `AnswersAreOfOneRun`: between
the read of the row, the stat, the get and the opening of a link nobody changes
what is read, but for the run again of a run that published and did not live to
say so. `Release` is what all this amounts to: a file is published in one step,
whole, and for good once the job is converted too; `ImplementsRelease` maps the
converted file to it.

The run has `Overlap` FALSE, runs one after the other, as the exclusive claim
gives them when no delivery is redelivered to a second worker; with `Overlap`
TRUE `PublishedIsWhole` fails, as two live conversions clear each other's rows.

### Dashboard

One file, seen from outside: its job waits, runs, saves its report, fails and
is put back while it has attempts. The page has list requests on the wire, each
with the permission to start polling its caller gave it, an interval, and one
upload or retry at a time. A response may come after the component is
destroyed, and start the interval then: no subscription is ended. `KeepsAsking`
relates the interval to what is shown, `ScreenCatchesUp` the screen to the
server, from some moment on and for good. `StaysStopped` says that a page that
has stopped starts again only for its user, and `PollingEnds` that the browser
is left without intervals once the file has settled, the component there or
not. Neither says that polling stops when the component is destroyed, for it
does not (section 3). The panel is opened on the verdict of a job, asks for the
report once and keeps it; reports are named by their jobs, so one that is kept
past a retry is visible (`PanelAnswers`).

### Segmentation and Documents

`Segmentation` divides a sequence of line kinds, given one line at a time as
`detectHeadings` scans it, which never looks ahead. `EndOfText` divides it:
`SplitLevel`, `Preamble`, `Section`, and the paths without headings. Units are
sets of line numbers, so losing, repeating or moving a line is visible
(`NothingLostOrMoved`). The kinds are those the regular expressions tell apart;
bytes are counted in lines. `FencedIsCode` and `OnlyBlankFails` compare the
scan with what a reader of the whole document would say, the first for
documents whose fences use one marker, and `DividesWhenItCan` and
`LoneTitleIsNoConcept` with the promises of `segmentText`'s comments.

`Documents` gives it its lines: any, for Markdown, text and CSV, and for HTML
those `htmlToText` makes of a page, one action per branch of the loop over the
tokenizer's tokens. The words of a page are named by their places in it, so
text that is lost, leaked or moved is visible (`PageTextIsKept`), and headings
are followed from the element, through the marks that are written, to what
`detectHeadings` makes of them (`HeadingsOfPage`). Both properties are about
pages that close their elements in turn; what the code does with others is
under section 3.

### Bundle

Text is a sequence of tokens (the characters of links and file names, space and
line break, "x" for other text, the bundle's file names). What the client sends
(`originalName`, `contentType`) and what the segmenter made of the document
(`title`, `body`) is rendered wherever the code writes it: the name raw in
index.md and log.md, its stem as the documents' title (`DocumentTitle`), its
extension in the object's key (`ObjectKey`), the content type raw in both. The
findings of a validation are in log.md twice, among the operations (`Steps`,
pipeline.go:193-195) and at its end (`Listing`). Of our own wording, only what
a link may be made of is kept. `Targets` follows
`markdownLinkRE` token by token. The module therefore shows what is easy to
miss in separate unit tests: what escaping does to text that another function
parses. `CleanSourceIsPublishable`, `NavigationChain`, `WarningsAreInherited`
and `ReportStillHolds` relate the source, the files and the report. The tokens
are a constant, as are the names of the concepts' files, `FileName`: the module
asks that they differ from each other and from the bundle's own words, as the
position at the front of a slug makes them.

### Accounts

Slots hold the requests under way, each where it is: sent, between the two
queries of Register, or answered. Every handler of `internal/auth` is an
action per query. A browser has one tab, a cookie, a page and the user its
`AuthService` shows; `tie` says who waits for a request: the page whose form
sent it, the service whatever the page, authGuard's navigation, or nobody. The
cookie and the token in it end together (both an hour, `cookie.go`, `jwt.go`),
so a session is the account it is of and `Expire` ends it. The browser applies
Set-Cookie as the application hears the answer.

`Directory` is the server without its queries: a request is decided at one
moment, against one map from addresses to passwords. `ImplementsDirectory`
therefore says what the two queries of Register, the unique index and the
normalised spelling are for. `ScreenNamesItsSession` says it of the browser:
whoever is shown is whose cookie goes out.

## 3. Runs

| Run | Instance | What it shows |
| --- | --- | --- |
| `JobQueue_faults` | 1 job, 2 processes of one goroutine, 2 attempts; link drop, SIGTERM, failing database call, refused and lost publish, once each | dead letters, retries that wait, agreement of rows |
| `JobQueue_crash` | the same instance, fairness; crash, duplicated publish, API crash, once each | no job abandoned, attempts, every job settles |
| `JobQueue_once` | 3 goroutines in 2 processes, 1 attempt; 2 duplicates, failing call, lost answer, refused publish, malformed body | sole conversion, refinement of `JobLifecycle` |
| `Broker_shared` | 2 callers, API's or worker's; 2 faults of link, channel and setup; fairness | channels, failures with a cause, consuming again |
| `FileRequests_api` | 1 file, a confirm and 2 retries, 1 goroutine, 1 attempt, fairness; lost answer, refused publish, API crash, one disconnect | requests against each other and against failures |
| `Publication_faults` | 3 runs, 2 files, 1 reader; a failing call, a lost answer and a crash, once each | what is published, listed, answered and left behind; refinement of `Release` |
| `Dashboard_single` | 2 jobs, 1 attempt, 1 list request in flight, failing requests, fairness | polling, what the screen ends with, and the detail panel |
| `Segmentation_documents` | every document of up to 5 lines of 11 kinds as Markdown, text and CSV, every page of up to 6 tokens; blocks of 2 lines | text of pages, division |
| `Bundle_rendered` | up to 3 concepts, every title of up to 2 tokens of 4, 5 bodies, 5 names, 6 content types | rendering and validation |
| `Accounts_sessions` | 1 browser, 2 requests under way, 2 addresses in 3 spellings, 2 passwords, 1 fault | the user shown; refinement of `Directory` |
| `JobQueue_sigterm` | one SIGTERM, nothing else | violates `NoJobAbandoned` |
| `JobQueue_duplicate` | one duplicated publish, 2 attempts | violates `SoleConversion` |

Why the bounds are enough. Jobs do not share state but through the file row,
and a goroutine holds one delivery, so one job with two goroutines has every
interleaving of two handlers of a job; the third goroutine of `JobQueue_once`
is there for two duplicates besides the original. Two attempts give the
retry, the last attempt and the dead letter. Each fault once, in every order,
reaches every window a single fault opens and every pair. A confirm and two
retries are the least in which two retries race for one failure, or follow
one another. Three runs give a dead run, a refused one and a good one, and a
reader that began with any of them. Two callers have one reset under the other,
and two faults cost both attempts of a call. Five lines hold a title, a
preamble and two sections, or a fence and what surrounds it; six tokens hold a
heading with text and text after it, or a dropped element with a heading in it
and text on either side. Three concepts have a first, a middle and a last; two
tokens of a title have each bracket first, last, and behind a backslash; the
names and content types hold a link, none, or half of one that what is written
next to it completes. Two
requests are the least that race or overtake each other; two addresses give a
session that is replaced by another's, and the third spelling two requests for
one address that do not look alike. One browser is enough for the page, which
shares nothing with other browsers, and its two requests for the handlers,
which do not know whom they serve. `CHECK_DEADLOCK` is off in every run:
requests, jobs and documents are finite and the system comes to rest.

Fairness. `JobQueue` has weak fairness for request handlers and goroutines
that can step, for the expiry of parked messages (the queue's TTL) and for a
process's way back (`Consumer.Start` resubscribes for ever, a stopping worker
closes and exits, the container restarts), and strong fairness of delivery per
message, since RabbitMQ serves a queue in order and a returned message keeps
its place. No fault is fair. `FileRequests` assumes the same of handlers,
broker and goroutines; nobody has to upload, confirm or retry. `Broker` has
weak fairness of the callers' and the loop's own steps, of the process
noticing a dead link (heartbeats) and of RabbitMQ coming back; `ConsumesAgain`
needs the last, as the loop asks for ever and can do no more. `Dashboard`
assumes that responses to lists and posts arrive (with an answer or an error),
that the interval ticks and that the server goes on; the user need not do
anything. The other modules state safety only and assume no fairness.

The two disagreements the violation runs show are told in `PROJECT.json` under
"findings". Others were met and have no run of their own; where a property is
named, TLC finds it violated when the instance of its run is changed as told:

- With two attempts per job `OneLiveJob` and `RetryHistoryIsChain` fail:
  `Convert` marks the file failed before `handleFailure` puts it back, and a
  Retry in between enqueues a second job for a job the queue still retries
  (handlers.go:237 says a retry "never double-enqueues").
- With two attempts `ScreenCatchesUp` fails for the same window: the dashboard
  may read "failed" in it and stop asking, and go on showing it when the next
  attempt has converted the file. README.md:538-541 gives this as the reason why
  the file goes back to `ready` between attempts.
- A list answer that arrives after `ngOnDestroy` with an active file starts the
  interval (dashboard.component.ts:83, 96-102), and it asks on until the file has
  settled. A test of the component is named 'deja de consultar al destruir el
  componente' (dashboard.component.spec.ts:169); its service answers at once, so
  nothing is under way when it destroys the component. `intervals = 0` whenever
  the component is gone is false of the model, as of the code.
- With two list requests in flight `KeepsAsking` fails, whether answers come in
  order or not: the list asked for before an upload, heard after the refresh
  that follows it, or a failed poll, stops the interval; the answer of another
  poll, which may not start one, then shows a file in an active status
  (dashboard.component.ts:96-113), and the page asks no more, though the comment
  at 21-22 says the dashboard "keeps asking".
- A second Confirm of a file that was converted sets it back to ready and
  converts it again (repository.go:201).
- `escapeLinkText` (bundle.go:444) leaves backslashes alone. A title that ends
  in one escapes the bracket after it, the link of the index is no link, and a
  bundle the generator made of a plain document is refused as invalid; the
  comments at bundle.go:442-443 and pipeline.go:78-80 say neither happens.
- In plain text a lone numbered title before its sections becomes a concept
  (segment.go:109-111 says it is not one); a fence of one marker inside a block
  of the other ends it (segment.go:176), and the rest of the code is read as
  headings, which the comment at 46-47 rules out; a setext underline stays in the
  body of its section, and levels deeper than 6 never divide.
- Of HTML: adjacent inline elements of a heading run together
  (extract.go:256 asks for `headingLevel == 0`; the comment at 271-272 says they
  do not). A dropped element that is self-closing, is not closed, or holds one
  of its own name swallows what follows or lets text through (extract.go:210).
  An empty heading leaves its marks behind as text, a block element in a
  heading ends its line, and text of the page that looks like Markdown is read
  as Markdown.
- A document whose name or content type holds a Markdown link, as
  `text/markdown; [a](b)`, puts that link in index.md (bundle.go:250) and is
  refused for it, where validate.go:205-206 says that a broken link there "is a
  defect of ours, not of the source". So is one whose name is no link, as
  `[\](x)` or `](x)[`: index.md holds the name in its frontmatter, where
  backslashes are doubled, and again in its text, a few words further on, and
  what is no link in one place is one in the other or reaches across both.
  `CleanSourceIsPublishable` is stated of names and content types without `](`.
- Of a bundle with a warning about log.md alone, the log that is stored may have
  none: the findings written among its operations can stand between a bracket
  the content type opens and the title that closed it (`ReportStillHolds`).
- When the insert of the job row fails, the 503 of README.md:555 comes without
  the file being marked failed (cmd/api/main.go:76-80), and `NoFileStranded`
  without the condition `Untroubled` fails.
- Another request's reset may close the channel a request was just given, and
  a connection that does not know it is dead costs both attempts, so that a
  failed `Enqueue` need not mean that RabbitMQ "is genuinely unreachable"
  (queue.go:203-207). On a link that is dead and not noticed a publish may
  return nil and be lost; `channel` redials after `Close`.
- The loser of a race of registrations is answered 500, not 409
  (auth/handlers.go:83). A 500, or a lost answer, may leave an account made. A
  query that fails in `UserFromRequest` is answered as "not authenticated". A
  logout that fails shows the login page and leaves the cookie; one that
  answers late ends a session opened after it was asked. The password form
  resets whatever address its field holds by then.
- A dashboard whose session has lapsed goes on showing its user until a
  navigation asks again.

## 4. Proofs

`tlapm` checks the eight proof modules to the last leaf. Assumptions are those
the component modules name on their constants, and what a theorem states
itself.

`JobQueueProofs`, for any jobs, files, workers, processes and attempts:

- `TypeCorrect`: type correctness under any budget of faults. One lemma per
  group of actions. The delicate part is `Redeliver`, which returns the
  unacknowledged deliveries of a set of goroutines to the queue by counting
  them; `RedeliverCounts` and `MainType` bound what it adds.
- `DeadLetters`: `DeadLettersAreExhausted` under any budget. It is not
  inductive: `Basics` adds that a goroutine about to publish a dead letter
  holds an attempt count that reached the limit, and that the row's count is
  never below it.
- `ExclusiveConversion`, `ConvertedStays` and `LifecycleImplemented`, when
  `MaxAttempts = 1` and no crash, drop or stop makes the broker redeliver.
  `Single` says that a goroutine that converts, or settles, has the row in
  the matching status, alone. With it every step of the row is one of
  `JobLifecycle` or a stutter. The assumption is needed: `JobQueue_duplicate`
  shows what two attempts do, and redelivery accepts a converting job.
- `NoneAbandoned`: `NoJobAbandoned` when crashes, duplicates, malformed or
  refused publishes and API crashes are the faults, and sessions, database and
  accepted publishes are sound. `Safe` follows a job through its messages: the
  copy a goroutine holds is unacknowledged until the next message of the job
  is in a queue. `JobQueue_sigterm` shows the assumption on stops is needed.

The second part of `JobQueueProofs` is about the rows, where a message and the
rows it speaks of are written one after the other:

- `RetriesWait` and `RowsTellTheSame` (`RetryIsWaiting`, `RowsAgree`), for files
  with one job each, until a fault disturbs the workers. The invariant
  `CalmSoFar` says of every call of `process` and `handleFailure` what it finds
  in the two rows (`Found`), what the API and the goroutines leave there
  (`Left`), and that a job has one message or delivery (`OneCopy`); with two
  copies one goroutine writes under another. A file with several jobs is
  `FileRequests`' subject: its row follows the last of them.
- `AttemptsBounded` (`AttemptsAccounted`), under crashes, duplicates, failing
  calls, refused and lost publishes. `Accounted` counts what a job may still be
  claimed for beside what it was: attempts, copies that may be claimed and the
  copy the API owes never exceed the allowance, which a duplicate raises by one
  and a crash by the number of goroutines. The assumption `NoStrayCopies`
  leaves out dropped links, stops and lost answers: each returns or leaves a
  delivery nobody counted, and TLC finds the property violated with any of
  them.

`FileRequestsProofs`, for any files, requests, workers and failures of the
handlers' calls, RabbitMQ and the API itself:

- `RequestsTypeCorrect`, and `NoneStranded` (`NoFileStranded`), with no
  assumption beside those of the module. `Orderly` says that a job
  has one message, in a queue or with one goroutine, and none before its
  request has come so far; `Promise` says, while nothing has failed, that the
  row of a job that will be claimed is queued, and that somebody is in charge
  of a file that waits: a request that moved it and has its job still to make
  or to publish, or a job with a message.
- `OneJobPerFile`, `ConvertedStays` and `HistoryIsChain` (`OneLiveJob`,
  `PublishedStays`, `RetryHistoryIsChain`), for files confirmed once, as long
  as no goroutine puts a job back, and so for one attempt per job without
  that (`OneJobSingleAttempt` and its like). `OneInCharge` is what the
  compare-and-set of `MarkRetrying` gives: of the requests and jobs of a file
  at most one is in charge, and the file waits for as long.
  `ConfirmFirst` and `InOrder` order the jobs, so that the one a Retry read as
  the latest still is when it inserts its own. The assumption is needed:
  `Convert` marks the file failed before `handleFailure` puts the job back
  (section 3).

`DashboardProofs`, for any number of jobs and attempts: `TypeCorrect`, and,
with any number of requests in flight, `PollingIsForActiveFiles` and
`SilentForGood` (`StaysStopped`), from the conjunction `Polling`, which is
inductive with no strengthening of the wire. The second says of every step that
a page without an interval, and without a request that may start one, gets one
by a step of its user only; what it leaves is an answer that may start one
after the component is destroyed. `AsksOn` (`KeepsAsking`) assumes one list
request in flight: `Asking` says that a page that shows a waiting file and has
nothing on the wire has its interval, or has said why not, and that a request
that may not start the interval is out only while there is one. With two
requests the property fails (section 3). `PanelHasAnswer` (`PanelAnswers`)
assumes that no job that saved its report runs again, which clears it, and
`PanelHasAnswerSingleAttempt` that jobs have one attempt, from which that
follows. `JobsInOrder` says that a job starts when the one before it is over;
`Reports`, that a report the page knows of, in its list, in a response on the
wire or in the panel, is the server's unless a later job has started; `Panel`,
that an open panel with nothing under way holds a report, or an error, or has
been overtaken by a later job.

`PublicationProofs`, for any runs, readers, files of a bundle and budget of
faults. `TypeCorrect` holds whether or not runs overlap. The others assume
`Overlap = FALSE`: `PublishedWhole`, `NoCollision`, `OneAttempt`,
`OneRunAnswers` and `ReleaseImplemented`. The invariant `IInv` says that at
most one run has steps to take, what that run has achieved by the call it is at
(`Stage`: rows empty from the clearing to the report, then its own up to its
position, then all, then the archive too), that a published file is whole by a
run past its publishing (`Whole`), and that a reader knows either a run that is
over or the one whose bundle is still there (`Met`). The assumption is what
the queue owes it: `ExclusiveConversion` proves that for one attempt and no
redelivery.

`BrokerProofs`, for any callers and any number of faults: `TypeCorrect`;
`NoLeak`, from `Tidy`, which adds that an open channel is one of a connection
that is not closed; and `EnqueueFailsWithCause`, from `AllPaid`: a caller at
its second attempt has been cost one, one whose channel is closed under it one
more than that, and while RabbitMQ is away or a dead link is not noticed every
caller has been cost both.

`AccountsProofs`, for any browsers, addresses, spellings, passwords and
requests under way: `TypeCorrect`, `SessionOnScreen` and
`DirectoryImplemented`. The invariant adds `Orderly`: a request at a stage
carries what that stage needs (`Sane`), and a guard waits only while its
navigation is its browser's last, so that the session it asked about is the one
there is or has lapsed (`Guarded`). The step of `Create` is where the unique
index matters: between the two queries nothing is assumed of the address.

`SegmentationProofs`, for documents and pages of any length, blocks of any size
and any kinds of line: `TypeCorrect`, `TextIsWhole` (`NothingLostOrMoved`),
`FencesHoldNoHeading` (`FencedIsCode`), `HeadingsDivide` (`DividesWhenItCan`),
`BlankAloneFails` (`OnlyBlankFails`) and `TitleIsNoConcept`
(`LoneTitleIsNoConcept`). The scan's part is the invariant: headings are in
the order of the document, on lines that are neither blank nor underlines, and
in markup are marked by their own line or the next (`HeadingsInOrder`,
`TitlesAreMarked`); the fences down to each are even in number (`Parity`). That
no heading is an underline is what keeps a section's own underline out of the
next one. The rest is about operators: what `InOrder` returns (`Ascending`),
what a section or the preamble holds of its lines (`Holds`), that blocks
cover and do not overlap (`BlocksCover`, `BlocksApart`, the arithmetic of
`splitOversizedBlock`), and that the whole of it is `Whole`. Sequences are
chosen by `InOrder`, a recursive function of the module, because the provers
know nothing of `SelectSeq` and sorting; that the function exists, and what it
returns, is shown by counting over a set of numbers (`Counting`), the form of
induction they can instantiate. `FencesHoldNoHeading` is about documents whose
fences use one marker, as its property is: there an even number of fences above
a line is a line outside code.

Of pages, of any length and however their elements are nested: `PageTextReaches`
(`PageTextIsKept`) and `PageHeadingsAreRead` (`HeadingsOfPage`). Both are about
pages that close their elements in turn, and the invariant is about the part of
the page read so far, `InTurn`, which a well-formed page never leaves because an
element closed out of turn stays at the bottom of the stack
(`WellFormedInTurn`). `htmlToText` keeps one name and one number where the
properties have a stack: `Elements` says that `skipping` is the outermost
dropped element that is open, and that `headingLevel` is 0 outside headings; it
needs that no dropped element holds another of its name, the condition of
`WellFormed` the code leaves unstated. `TextsKept` says that the words written
are the texts of the document proper, and `FlattenNext` is what the library's
`FlattenSeq` does with one block more. For the headings, `HInv`: a block with a
level and words began with a heading element whose next token was that text, and
every such element has its block (`Begun`, with the heading still without text
at the end); the lines scanned are those of the page as it was at its end
(`LinesGiven`); and without fences and underlines `detectHeadings` finds exactly
the lines with ATX marks (`AtxScanned`). Both sides are then ascending sequences
over one set of texts, and a set has only one (`AscendingIsOne`).
`DocumentsAssumption` asks that `blockTags`, `droppedTags` and the heading
elements have no name in common, as in `extract.go`, and that a dropped element
is not named like a kind of line, which is about the model's names only: the
kinds of line of a heading are named by its element.

`BundleProofs`, for any original names, content types, titles and bodies of any
length, any number of units, any file names of the kind assumed and any further
tokens: `CleanSourceIsPublishableAlways`, `NavigationChainAlways`,
`WarningsAreInheritedAlways` and `ReportStillHoldsAlways`. The inductive
invariant is `Inv`: the units are texts (`Units`), the bundle holds at each
step what has been rendered of them and nothing else (`Contents`, with `Stage`
and `Complete`), the report is the verdict of what the bundle holds, before
`SetValidation` and after (`Reported`), and a warning has its link in the
source. Most of the module is about what `TextEnd`, `Target` and `TargetsFrom`
make of texts that are put together of pieces, because a scanner that fails to
close one bracket goes on into the next piece, and a link found takes what
follows with it. Three sets of texts are closed under joining whole lines:
`Tidy(F)`, which hold no `](` but before files of F, `Tame(F)`, whose every
reading is a link to one of F or none, and `Calm`, which leave the scanner
where it would be without them. `LinkAfter` is a generated link,
`EscapeLinkText` makes a title without backslash `Calm` inside one, and
`FooterRead` and `IndexRead` say that the scanner finds what was meant: a
bracket left open before a generated link closes where the link's own does and
gives the same target, and a target left open ends with its line.
`ReportStillHolds` follows from what the findings are (`FindingsAre`): where no
rule about links fails there are none and log.md is rendered as it was
(`NothingLogged`), and otherwise the only rule whose outcome log.md can change
is the warning `concept-links`.

Only model-checked: liveness (`EveryJobSettles`, `FileSettles`,
`ScreenCatchesUp`, `PollingEnds`, `ConsumesAgain`), which TLAPS does not reach.
Every invariant a run checks, and every action property, has its theorem.

## 5. Not modelled

Reading PDF and CSV bytes, which third-party readers do, and detecting a format
from a name: pure functions of bytes. The wording of titles chosen out of a
body, slugs, zip and log formatting. Of object storage, start-up. A second
upload through a used URL, and with it a deletion of the row of a file that has
jobs. The fields every file the
generator writes has, and the rule that looks for them. Several tabs of one
browser, and an answer whose Set-Cookie arrives and whose body does not.
Configuration, metrics, containers.

## 6. Plan

Done so far, in the order it was written: `JobQueue`, `FileRequests`,
`Publication`, `Dashboard`, `Segmentation`, `Bundle`; proofs of `JobQueue` and
`Dashboard`; readers and `Release`, with their proofs; the detail panel;
`Broker` with its proofs; `Accounts` and `Directory` with theirs; `Documents`;
proofs of `FileRequests`, of the rows and attempts of `JobQueue`, of the rest
of `Dashboard`, of `Segmentation`, of `Bundle`, and of the pages of
`Documents`; the client's name and content type in `Bundle`.

Next:

1. Slugs and file names past 99 concepts; the standard-fields rule.
