# Valtionavustukset: models, checks and proofs

TLA+ modules of the parts of the valtionavustus (state grants) system where several
actors change the same rows, a process may die half way, and money or a decision
depends on the outcome, and of the three places in the browser where edits save
themselves. The code is the Clojure server under `src/server/src/clojure/oph/` (paths
below are relative to it unless they say otherwise) and the TypeScript of the browser
applications (`src/va-virkailija/web/va/`, `src/soresu-form/web/form/`). TLC checks
small instances, TLAPS proves the most important invariants for every value of the
constants.

## 1. The system

One server process (a single ECS task: `src/cdk/lib/va-service-stack.ts:184`)
serves two browser applications, va-hakija for applicants and va-virkailija for
officials, over one PostgreSQL database, and talks to Rondo (payments, SFTP), an
SMTP relay and a few outside services.

| Component | State | Operations | Talks to | Hard because |
|---|---|---|---|---|
| Maksatus send job (`va/virkailija/payment_batches_data.clj`, `payments_data.clj`) | `payments` (versioned rows), `payment_batches` (send status, counts) | start, send each maksatus, notify, finish; create, delete, mark paid | Rondo over SFTP, email outbox, täsmäytysraportti | background thread, timeout that does not cancel, crash, officials' edits, two eras |
| Payment responses (`rondo_scheduling.clj`) | files in Rondo, local files, `payments` | list, fetch, match, mark paid, delete | Rondo, `payments` | exceptions end the whole run, endless retry, overlapping runs, files deleted after the row |
| Hakemus and its answers (`va/hakija/handlers.clj`, `va/hakija/db.clj`, `va/hakemus/db.clj`, `soresu/form/db.clj`) | `hakemukset`, `form_submissions` (versioned) | autosave, submit, three edit submits, open edit, verify, refuse, status change, keskeytä aloittamatta | email outbox, officials' views | optimistic versions in some handlers, several transactions in others |
| Email outbox (`common/email.clj`, `va/virkailija/email.clj`) | `email`, `email_event`, an in-memory queue | store, send, record, retry each minute | SMTP relay | process death, lost events, overlapping retries, duplicates |
| Haku editing and its save queue (`va-virkailija/web/va/hakujen-hallinta-page/hakuReducer.ts`, `hakuSaveQueue.ts`) | the haku as the page shows it, a queue per haku, one save status | edit a field, project, tili, role row, an own action; select a haku; load | server, one request per save | debounces shared by rows, requests that overlap and fail, one indicator for all |
| Arvio editing (`va-virkailija/web/va/hakemusten-arviointi-page/arviointiReducer.ts`, `arviointiStore.tsx`) | arviot of the page, marks, a timer per hakemus, one save status | edit, save, score, comment, select, refresh, change the avustushaku | server | saves that clear marks of later edits, reads that replace the page |
| Applicant form loop (`soresu-form/web/form/FormStateTransitions.ts`, `FormStateLoop.ts`) | answers, known version, save status, LocalStorage | edit, two debounced saves, submit, attachments, leave | the hakemus handlers | optimistic versions, several posts at once, answers that overtake |
| Väliselvitys and loppuselvitys (`va/hakija/api.clj`, `va/hakija/selvitys/`) | child hakemukset, loppuselvitys columns | submit, verify in two stages, return | email outbox | mails inside transactions |
| Muutoshakemus (`va/hakija/api/muutoshakemus.clj`) | `muutoshakemus`, `paatos` | apply, decide | email outbox | one undecided at a time, decided twice |
| Päätös sending, refusal tokens (`va/virkailija/paatos.clj`) | `hakemus_paatokset`, `application_tokens` | send all, resend, refuse by token | `payments` (creates them), outbox | list read first, sent one by one |
| Maksuerä administration (`payment_batches_routes.clj`) | `payment_batches`, `batch_documents` | create era, document | send job | check-then-insert, no unique index |
| Attachments | `attachments` (versioned per field) | upload, delete | hakemus | existence read outside the transaction |
| Arvio, scoring, roles (`va/virkailija/db.clj`, `scoring.clj`) | `arviot`, `scores`, `avustushaku_roles` | save, score, assign | päätös, `payments` (payable or not) | changelog read-modify-write |
| Background jobs (`common/background_job_supervisor.clj`, `muistutus_scheduling.clj`, `notification_scheduler.clj`) | one agent, reminder marks | start, stop, remind | outbox | marks rolled back after mails went |
| Täsmäytysraportti | `tasmaytysraportti` | build, mail, record | send job, outbox | recorded as sent although the send failed |
| Pure rules (budget, first payment, form validation) | none | | | boundaries |
| Sessions and users, exports and reports, avustushaku administration, outside services, clients | plain rows, caches | | | little of what a model checker reaches |

### What makes each correct

* **Send job.** One job per era; an era that says `sending` is being sent; a row
  that is updated to `sent` is of a file Rondo has; progress never runs ahead of
  the rows; `completed` means that every counted maksatus went out and the emails
  are on their way; no second file without an attempt whose outcome could not be
  known; the era does not stay `sending`.
* **Responses.** No response is deleted before a maksatus it names is paid; a
  maksatus is paid only if it was invoiced, or an official said so; `paid` is
  final; a response that can be handled is handled in the end.
* **Hakemus.** One open version; closed versions are frozen; no autosave or
  submit overwrites what its client had not seen; saved answers, cancellation and
  refusal are not undone by accident.
* **Emails.** No stored mail is forgotten silently; `success` is true; copies need
  a reason; what is retried is what was stored.

* **Haku editing.** "Kaikki tiedot tallennettu" is true; what the server has of a
  haku's fields never goes back; an edit is saved or an error shown.
* **Arvio editing.** No edit disappears without an error; the indicator and the
  loading of a hakemus end.
* **Applicant form.** What the applicant typed is saved, or is going to be, or an
  error is shown; the page's own posts do not leave it behind the open version.

## 2. Modules

| Module | What it is |
|---|---|
| `PaymentRows` | operators on the versioned rows of one maksatus |
| `PaymentSending` | the send job, its requests, officials, SFTP, crash and restart |
| `PaymentSendingProofs` | theorems about it |
| `PaymentResponses` | the daily fetch of responses, with a loose sender |
| `PaymentResponsesProofs` | theorems about it |
| `PaymentFlow` | both together; the send job refines the loose sender |
| `PaymentFlowProofs` | that refinement proved, and what follows for both |
| `HakemusVersions` | one hakemus, its answers, and all handlers that write them |
| `HakemusVersionsProofs` | theorems about it |
| `EmailOutbox` | storing, sending and retrying mails |
| `EmailOutboxProofs` | theorems about it |
| `Autosave` | what an autosaving editor promises: the server's copy only moves forward |
| `HakuSaving` | editing avustushaut, the save queue and the save status; its queue refines `Autosave` |
| `HakuSavingProofs` | theorems about it |
| `ArvioSaving` | editing arviot, their timers, and reads that replace the page |
| `ArvioSavingProofs` | theorems about it |
| `ApplicantForm` | the applicant's form against a server that keeps versions |
| `ApplicantFormProofs` | theorems about it |
| `MC*` | values of the constants and symmetry for TLC, where a `.cfg` cannot say them |

Definitions called a *mutant* in their comment are wrong versions of a
definition; a property is kept only if such a plausible mistake breaks it.

### PaymentRows and PaymentSending

A maksatus is a history: `rows[p]` holds version v at index v + 1, each with its
status, whether it is open (`version_closed IS NULL`) and whether it is deleted.
`UpdatePayment` closes the version its *caller* holds and appends a new open row,
as `update-payment` does; the version is `MAX + 1` over undeleted rows while
deleted rows keep their keys, so an insert may collide (`InsertFits`).

A thread starts as a request and becomes the job. Its steps follow the code's
transactions: count (`CountPayments`), claim with the guarded UPDATE (`ClaimEra`,
`ClaimRefused` is the 409), then application by application because
`payments-to-send` is lazy (`PickApplication`), and for each maksatus the row
with the era's id (`AddBatchRow`), the put, the row `sent` (`MarkSent`) and the
count (`IncSentCount`); then `Notify` and `MarkSendFinished`. `Notify` hands the
emails to the mail queue and mails the täsmäytysraportti or not: its sender catches
and logs every exception (`tasmaytysraportti.clj:143`), and an SMTP failure does not
even reach it (`common/email.clj:236-239`), so that the job goes on either way.
`JobThrows` is any
exception the catch remembers, `JobEscapes` an exception out of the finally
block. A put may succeed, fail, fail after delivery, time out, or find that the
row is gone; one that timed out stays in `late` and arrives or is lost. `Crash`
loses every thread, `Restart` is `fail-stale-sending-batches!`, which runs before
requests are served. Officials' edits (`CreatePayment`, `DeleteGrantPayments`,
`CheckDeletable` and `DeletePayment`, `StartSettingPaid` ... `SetPaid`,
`ChangePayable`) are split at the same transactions. `CreatePayment` makes a row with
any status: `POST /payments` takes it from the body (`payments_routes.clj:8`,
`schema.clj:322`) and `payments_data.clj:110` inserts it as given, `sent` and `paid`
included.

`unsure` counts attempts whose outcome the job cannot know. It is a history
variable: no guard reads it. XML, file names, references, sums, users and logging
are left out. Refusal tokens are left out because `ChangePayable` lets an
application stop being payable at any time. SFTP is assumed to be enabled
(when it is not, a put succeeds without a file).

### PaymentResponses

Files are numbered in the order Rondo lists them; `about[f]` is the maksatus a
file answers, or junk: an unknown reference, XML that does not parse, no usable
reference. Responses name a register number and a phase, `Key[p]`, not a
maksatus. A run lists, fetches, and then one of: `PassOver` (nobody found, or
unreadable XML: logged, the file stays), `TakePaid` (already paid: the remote file goes),
`TakeSent` with `SetPaid`, `DeleteRemote`, `DeleteLocal`, or `ReadFails`. The
last includes everything `pop-remote-files` has no clause for. Its
`case` ends in `:else`, which Clojure's `case` compares as a literal, so several
payments, a payment that is not `sent` and a reference that does not parse leave
the loop, end the run and start `retry-job` again (`Stuck`; `Blocked` adds an
update that fails whenever it is tried). `TimesOut` is the
ten-minute limit of `get-statuses-of-payments`: the run goes on unattended.

`Sender` stands for everything that makes, sends and deletes maksatukset; it is
deliberately looser than the code, and `PaymentFlow` shows that it may be. Like the
code it makes rows with any status; `manual` remembers the maksatukset that were
made, or marked, as paid by an official.

### PaymentFlow

Extends `PaymentSending` and instantiates `PaymentResponses` with
`invoiced <- {p : rondo[p] > 0}`; the two share `rows` and `up`. `SendingStep` is
any step of the send side (a crash also ends fetch runs and their local files);
`FetchingStep` any step of the fetch side. The refinement `Responses!Spec` is the
property `SendingIsASender`. Thereby whatever holds of `PaymentResponses` with
its loose sender holds of the real one, which is how the safety properties of
responses are justified for the whole.

### HakemusVersions

`hakemus` and `answers` are histories; a row names the version of the answers it
shows (`form`) and the version that was submitted. `by` and `seen` are history: which
handler wrote the row and which version of the hakemus that handler had read.
Autosave, submit, the refusal's write and the status change each write in one
repeatable-read transaction, which PostgreSQL aborts when a row it writes has changed
since the transaction began; each is one step or none. What is read in an earlier
transaction is a step of its own: the route's `can-update-hakemus`, the three edit
submits (read, answers, row), opening an edit, verification on the first GET,
refusal, status change and its later mark of the submitted version. `RequestDies`
ends a request between two transactions; `PhaseEnds` ends the application period.

Whether answers validate is left open (`Refused`). A client may name any version
that exists. `vahvista-organisaatio` takes the same step as an autosave.
`keskeyta-aloittamatta` writes two versions in one transaction. An official may set
any status, as the route lets anyone do who calls it (`schema.clj:180`); of `refused`,
which the schema has and the database's enum has not, the write fails.

### EmailOutbox

`try-send-email!` and `try-send-msg-once` store a mail and send it in a go block
or in the caller's thread (`TrySendEmail`), `enqueue-message-to-be-send` puts it
on the bounded `mail-chan` (`Enqueue`, `PutOnQueue`) which one loop empties. An
attempt ends in an event (`StoreEvent`), or in none (`LoseEvent`, since
`create-email-event` catches its own exceptions; also when an attempt ends in an
Error). The retry job lists mails whose *latest* event is a failure, which a mail
without events is not. Quartz may start a run while one is under way. `whole` and
`bare` count copies the relay took, `overlapped` the attempts of a run whose list
was stale (history, like `unsure`): the retry builds the mail without cc
recipients and attachment, `Extras` are the mails where that matters. An invalid
message is one the relay rejects. A graceful stop is not told apart from a crash.
Not modelled: an Error, as opposed to an Exception, in the loop of the queue, which
would end the loop (`common/email.clj:248` catches exceptions only) and leave the
queue to fill up until the process is started anew.

### Autosave, HakuSaving

Callbacks of a browser run one at a time, so an action is one callback: a
dispatched edit, a timer, an answer. `local`, `shared` and `server` number the
edits of every document (the fields of a haku, its projects, its tilit, own
actions of a page, who has a role, two role rows) by one counter; `shared` is what
the store has of a row that its component edits in a state of its own.
`queue[h]` is `hakuSaveQueue.ts`: a pending save with its deadline
(`DeadlinePasses`) and the one timer (`TimerFires`), which run by different
clocks; `runReadySave` takes the haku as it is then, and `NextSave` runs it again
when an answer came. `haku_fulfilled` and `haku_rejected` count only the answer
to the latest revision (`pendingHakuSaves`). Projects, tilit and own actions post
at once (`updateProjects`, `replaceTalousarviotilit`, `startManuallySaving`),
role rows wait for one debounce or one timer of all rows (`debouncedSaveRole`,
`saveRoleImmediately`, `callSaveRole`), and some answers bring the lists of the
haku (`Brought`). A request is handled (`Handled`) and answered in two steps, or
fails before or after it was handled (`HakuFails`, `PartFails`, `LoadFails`).
`gaps` is history: the documents that met one of the cases where the code gives
no promise (below). `Autosave` has no code of its own: `SavesInOrder` is its
specification with the fields of the hakus as its documents.

### ArvioSaving

An arvio is the set of edits it contains. `setArvioValue` is the edit with
either of the thunks that start a save, each of which replaces the timer of the
hakemus; `TimerFires` is the save, which ends in an error (`SaveRefused`) when
there is no mark or no page. `Selected`, `Updated` and `fetchAvustushakuInfo`
replace the page; `SelectSavesDefaults` is the save inside `selectHakemus`. A
reducer that throws because its hakemus is not on the page changes nothing
(`AnswerMissed`). `warned`, `overtaken`, `dropped` and `lost` are history.

### ApplicantForm

`values` are the answers of the page and `savedObject` the version and status it
last got. `onUpdateField` and `onRemoveField` start the debounced or the
immediate save, `onSave` posts what the page has against the version it knows,
`onSubmit`, `onAttachment` and `onBeforeUnload` post without waiting for others;
`UnloadCancelled` is a page that is not left after all (`FormStateLoop.ts:182`).
The server is as much of `HakemusVersions` as the page sees: a post against the
open version makes a new one, any other is refused with 409, and with 405 when the
avustushaku is closed (`Handled`); `Other` is what somebody else does. A good
answer is taken as the state of the server (`onSaveCompleted`): the page compares
its answers with it, saves again when they differ, and takes them from the answer
when LocalStorage has none. `typed` and `gaps` are history. A transaction that
cannot be serialized is a 500, hence one of `Fails`. Rules and validation of fields
are left out, as are the refusal page, the submits of an edit that an official's
or a change request's token allows (`VaUrlCreator.js:42-57`), and that a refresh reads
the hakemus and its answers in two transactions (`va/hakija/handlers.clj:155-157`).

## 3. Runs

Each run takes less than three minutes with two workers. Deadlock checking
is off everywhere: the bounds on requests, edits, crashes and faults let every
model stop, and so may the system.

| Run | Asks | Bounds and why they are enough | States |
|---|---|---|---|
| `sending_serial` | is a send correct when officials leave the rows alone, and does it end? | fair; 2 maksatukset of 2 hakemukset, 2 requests, 1 crash: the second request meets the first one's job or what its crash left | 145,513 |
| `sending_eras` | two eras and officials' edits at once? | 2 eras, 2 requests, 1 crash, 2 edits over one maksatus, so the jobs and the edits meet on it: one edit that makes it, one between check and use | 3,560,099 |
| `hakemus_versions` | interleaved handlers of all kinds | 2 threads, 3 requests, 2 deaths: a reader, a writer in between, and what follows | 143,036 |
| `responses_keys` | two maksatukset under one key, two runs at once | deleted and made anew, 2 rows each before they are paid | 1,019,171 |
| `responses_faults` | is every response handled, once? | fair; 2 files, one in front of the other or a second answer to the same invoice; 1 fault or crash | 359,708 |
| `payment_flow` | send, edits and fetch together | 2 sends, 1 edit, 1 crash, 1 fault, 1 file | 513,158 |
| `emails` | is every mail sent, and how often? | fair; 2 mails so that the queue of 1 is full, 2 retry runs, 2 failures, 1 lost event, 1 crash | 375,219 |
| `haku_saving` | is "tallennettu" true, in order, and is everything saved? | fair; 2 hakus, 2 edits, 1 fault, 1 clock set back: an edit while another waits, runs, fails or was answered, of the same haku and of another | 101,680 |
| `arvio_saving` | is an edit ever lost silently? | fair; 2 hakemukset, 3 actions, 1 fault: an edit, one that meets its save, and a read that meets both | 157,087 |
| `applicant_form` | are the answers kept, and the version known? | fair; 2 values so that an edit may be taken back, 3 actions, 1 fault or write of somebody else | 589,115 |

Two runs show where the program differs from what it says of itself; each checks
the sentence as a property and TLC finds a behaviour that breaks it.

| Run | The sentence | What happens |
|---|---|---|
| `form_saving_stuck` | the form says "Tallennetaan…" (`src/server/resources/public/translations.json:67`) and disables its submit button while `saveInProgress` is set | Two posts overlap, one fails and starts the timer of its retry, the other is answered first and clears the changes; the timer finds none, posts nothing, and nobody lowers the mark until the next edit (`FormStateTransitions.ts:359`, `459`). |
| `emails_bare` | a message has "optionally a `reply-to` address, seq of `cc`, `bcc`, or an `attachment`" (`common/email.clj:343`) | The retry neither selects cc nor finds the attachment under the names it uses. |

### Limits of single properties

* `OneOpenRow`, `SentIsFinal` and `DuplicatesOnlyAfterUnsureOutcome` are checked
  in the serial run only. `update-payment` closes its caller's version without
  asking whether that is still the open one. With two eras, or officials marking
  maksatukset as paid during a send, two rows of a maksatus may be open and it
  may be sent by both. No document promises otherwise, so that is recorded here
  and not as a finding.
* `CompletedMeansEveryMaksatusWentOut` is checked serially: under edits it does
  not hold. `payment_batches_data.clj:68` says that the maksuerä succeeded only if
  "every maksatus went out", but the total is counted before the loop reads the
  maksatukset again: one that was counted may be replaced by one that was not,
  the numbers match, and the era reads `completed`.
* `CompletedMeansNotified` is about the emails only, because the code does not do for
  the report what it says. The flag beside the counts is there for "a throw after the
  payment loop - in the maksatus emails or the tasmaytysraportti"
  (`payment_batches_data.clj:69`), but `send-tasmaytysraportti` catches and logs the
  throw of sending it (`tasmaytysraportti.clj:143`): the flag stays down and the era
  reads `completed` without its report, in the model too, where
  `"report" \in era[e].notified` fails of completed eras. Only a throw of building
  the report reaches the job. A report whose SMTP delivery fails is even recorded as
  mailed (`tasmaytysraportti.clj:141`); the retry of failed mails sends it, without
  its attachment (`emails_bare`).
* `SentWasDelivered` and `ProgressIsEarned` speak of rows that were *updated* to
  `sent`, that is of any but the first row of a maksatus: `POST /payments` may make a
  first row `sent` that no file ever stood behind. `PaidMeansInvoiced` excepts the
  maksatukset made so, and those an official made or marked as paid.
* `DuplicatesOnlyAfterUnsureOutcome` does not say that a maksatus in Rondo "is
  never picked up again" (`payment_batches_data.clj:141`): a put that timed out or
  broke after delivery (`:125`) leaves the row unsent, and the next send takes it.
* `ForgottenOnlyAfterLoss` and `StoredIsSent` except mails without an event. "Sending
  is retried later if unsuccessful" (`common/email.clj:382`) does not hold of those:
  when the process dies after storing (`:402`), the retry's JOIN (`:289`) never
  finds them.
* `CopiesOnlyWhenUnsure` counts, beside the attempts no event tells the truth of,
  those of a run whose list another run overtook: overlapping runs do send copies.
* `PaidIsFinal` leaves out maksatukset an official marked as paid
  (`set-payments-paid` may do so while a job holds the row).
* `ResponsesAreHandled` excepts what ends every run: besides the responses nobody
  has a clause for, an update whose version collides with a deleted row
  (`Blocked`). Two jobs or officials' edits must have met on the maksatus before.
* `PaidStands` holds of every row that says `paid` against updates, deletes and
  overlapping runs; `PaidOncePerRun` allows one `paid` row per run because two
  runs that read the same `sent` row both write. Its run, `responses_faults`, has one
  run of the job, with its retries; of runs that overlap it is the theorem
  `PaidOnceEach` that says it.
* `ShownSavedIsSaved` promises the fields of every haku without exception, and any
  other document that met no gap. The gaps: two posts under one flag overlap, so
  that the first answer lowers it for both; a post without a failure handler fails;
  typing into one role row drops the debounce of another; a list that an answer
  brings replaces a row that was edited; and a row typed back to what the store has
  dispatches nothing while its earlier state is being saved.
* `EditsAreKept` of `ArvioSaving` excepts a post that an older one in flight may
  overtake (nothing keeps posts of one arvio apart), edits a read from before
  replaced on the page, and answers for a hakemus that is not on the page any more,
  whose reducer throws.
* The gaps of `ApplicantForm`: somebody else wrote or closed the avustushaku; an
  answer got lost after the server had handled its post, or a refresh was overtaken
  by a save, so that the next save meets 409 until the page is loaded again; a
  refresh after an attachment failed, so that the name of the file is shown and
  not saved; a late answer takes back the removal of a row when no field has
  been edited yet (only `onUpdateField` writes LocalStorage); and the page was
  left while a post was in flight, so that the last post may be refused. Own
  autosaves that overlap cause 409s too, but the answer of the first one makes the page
  save again, and the message of a refused submit is then cleared by that answer.
  Not in the model: `attachmentUploadsInProgress` is not reset when an upload fails.
  Nor is this: when the unload is cancelled and nothing had changed,
  `onBeforeUnload` has returned no state (`FormStateTransitions.ts:473`), and the page
  that stays takes no more input. The model counts it as left.
* The `...OnlyByStaleHandler` properties say exactly when answers or a status are
  undone: only by a handler that read in an earlier transaction. That such
  handlers can do it is the code's behaviour (`on-hakemus-applicant-edit-open`,
  `get-current-answers`, `update-hakemus-status`, the edit submits). A status an
  official sets undoes what it says: that is excepted.

### Fairness

`sending_serial`: a job goes on (every call returns or times out) and ECS
restarts the task. The job's escape from its finally block is excepted in the
property, because nothing but a restart helps then. `responses_faults`: Quartz
fires daily, a run goes on, ECS restarts; nothing is assumed of Rondo. A response
that ends every run is excepted, with those behind it. `emails`: the loop, go
blocks and runs go on, Quartz fires each minute; nothing is assumed of the relay
beyond the bound on failures. `haku_saving`, `arvio_saving`, `applicant_form`:
timers of a page that is open fire, and a request is answered or fails, as the
browser and the HTTP client see to; nothing is assumed of the user or of which
answer comes first. Symmetry is used only where no liveness is checked.

## 4. Proofs

TLAPS checks every leaf; nothing is assumed but the named assumptions on the
constants, which TLC evaluates too: sets of maksatukset, threads, fetch runs and
retry runs are finite, bounds are natural numbers, names of one kind are not names
of another. TLC checked every inductive invariant on
small instances of its component before it was proved, those with a premise on the
states that satisfy it.

**`PaymentSendingProofs`**, for any numbers of maksatukset, hakemukset, eras,
threads, requests, edits and crashes. It begins with lemmas on one history, for any
history: `update-payment` adds exactly one row with the status it was given and
touches no row but the one it closes, a delete changes no status, a query returns
versions that exist. Then:

* `TypeCorrect`: `TypeOK`. The invariant `TypeInv` adds what types alone do not
  give: a queued or held row id is a row of its history and histories only grow,
  so that an index a thread kept while others wrote is still one, and counted
  sets are finite.
* `OneOwner`: `SendingHasOneOwner`. `OwnerInv` adds that a process that is down
  has only idle threads, so that a restart may clear the eras.
* `UnsentInvariant`: a row that a job has queued, or is about to put, was unsent when
  it was made (`UnsentInv`). A job therefore never makes a row from one that is `sent`
  or `paid`, whoever made that.
* `SentMeansDelivered`: `SentWasDelivered`. `DeliveryInv` adds that a thread about
  to write `sent` has delivered. It uses that `rondo` only grows and that a further
  row that says `sent` is made by `MarkSent`: `AddBatchRow` copies an unsent one.
* `CompletedNotified`: `CompletedMeansNotified`. `NotifiedInv` adds that a job
  about to finish without an exception has sent the emails off, and needs `OneOwner`:
  another request of the era would reset what is known of it.
* `ProgressEarned`: `ProgressIsEarned`. `EarnedInv` adds that a job about to count
  has marked a row that no era has counted yet. It needs `OneOwner`: with two jobs
  on an era one marked row could be counted twice. First rows are not among the
  marked ones, so that one made `sent` does not count.

Four properties do not hold of every behaviour: two writers, or for two of them an
edit in the middle of a send, break them. Each theorem says exactly what is missing.
Timeouts, late puts, exceptions and crashes are all still there.

Two need `[]OneWriter`: at most one thread holds rows it may still write, as a job does
from its query for a hakemus to the hakemus's last row, and an official who marks
maksatukset as paid. Creating and deleting maksatukset, changing the hakemukset and
other requests may fall anywhere in between.

* `TopsInv`: only the last row of a history can be in force, it is if it has been sent
  or paid, and nothing follows a paid row (`Topped`); what a thread holds of a
  maksatus is its last row, unsent (`OnTop`), and the maksatus a job is putting is no
  longer in its queue. A deletion may close what a thread holds; the row the thread
  then adds is still on top. Hence `OneRowInForce` (`OneOpenRow`), and with
  `SentOnTop` (what has been sent is the last row) `SentStaysInForce`: a maksatus that
  was sent gets no further row, and the row that says so stays as it is.
* `FilesInv`: of a maksatus whose last row is unsent and that no job is about to mark,
  Rondo has, and may still get, no more files than there were unsure outcomes; the put
  that succeeds adds the one to spare. Hence `NoKnownDuplicates`
  (`DuplicatesOnlyAfterUnsureOutcome`).

Two need `[]Undisturbed`: `OneJob` (at most one thread is at a step of the job; other
requests may count, be refused and start later) and no edits. `SentIsFinal` says that
nothing at all of a sent maksatus changes, and a deletion reaches the superseded rows
too; what is left of it with edits is `SentStaysInForce`. A maksatus that was counted may be
replaced by one that was not.

* `SerialInv`: no row is deleted, the last is the open one and those before it are
  unsent; a queued row, and the row a job puts, is `Fresh` (the open one of an unsent
  maksatus). Hence `SentRowsStand` (`SentIsFinal`).
* `CoveredInv`, `CountedInv`: every unsent maksatus is one that the request counted, and
  the era counts at most those of them that were sent since; equal numbers are
  then equal sets. Hence `CompletedSentAll` (`CompletedMeansEveryMaksatusWentOut`).

`OneEraIsSerial` shows that `OneJob` follows from the code's own claim of the era when
the avustushaku has one maksuera, and `OneEraSends` states the four from constants alone.

**`PaymentResponsesProofs`**, for any maksatukset and keys (several maksatukset under
one key included), any number of overlapping runs, faults and crashes. A step
does one of five things to the rows of a maksatus (`RowsOf`); `Inv` adds to the types:

* `RunInv`: the row a run is about to replace said `sent` when the run found it, and
  a status never changes, so it still does, open or not; a file about to be deleted
  is of a settled response. Hence `ResponsesKept` (`NoResponseLost`) although another
  run may delete the same file, and `PaidRowsStand` (`PaidStands`): nothing ever
  replaces a `paid` row.
* `InvoiceInv`: it says of `sent` rows what `NothingPaidUnasked`
  (`PaidMeansInvoiced`) says of paid ones, because a row is paid from a `sent` one.
  A maksatus made `sent` is excepted, and its first row never changes its status.
* `ForceInv`, `OnceInv`: `paid` rows are in force, so a run that looks after one was
  written finds it and does not pay; the runs about to pay and the rows paid
  together are at most as many as the runs. Hence `PaidOnceEach` (`PaidOncePerRun`).

**`PaymentFlowProofs`**: the refinement `SendersAreSenders` (`SendingIsASender`).
`RowsFit`, its one hypothesis, keeps the histories within `MaxRows`, the bound of
PaymentResponses on its loose sender; `MaxRows` may be any number, and the run's is
never reached. `FlowInv` joins what was proved of the two sides, `DeliveryInv`,
`UnsentInv` and the responses' `Inv`. The proofs about the responses are instantiated
with `invoiced` replaced by what Rondo holds and used for the fetch side's steps;
each step of the send side is mapped to a creation, an update, a deletion, an
arriving invoice, a crash, a restart or nothing. It follows that the two jobs
together lose no response, pay nothing that was not invoiced (but for what an
official made `sent` or `paid`) and leave paid rows alone (`ResponsesToTheSendJob`),
and that `SentWasDelivered` survives the fetch job (`SentStillMeansDelivered`).

The properties of `payment_flow` and the two of one writer need more of the behaviour,
as each theorem says: `OneSender` or `OneWriter` as above, and `RunsApart`, that no two
runs of the fetch job are about to mark one maksatus. Runs overlap when the job stops
waiting for one; two that found the same `sent` row both write a `paid` one.
`FlowTop` extends `TopInv`: what a run is about to mark is the last row and says
`sent`. The two sides cannot then hold one maksatus: a job holds unsent rows on top, a
run one that was sent. Hence `PaidIsLeftAlone` (`PaidIsFinal`), where officials may mark
other maksatukset while the job works, and `OneRowInForceStill`. `StuckOnlyWhileUnknown`
(`StuckOnlyWhileOutcomeUnknown`) adds from `FilesInv` that a response to a maksatus whose
last row is unsent is of a file of unsure outcome, or of a job at its mark; it
needs `KeysApart`, because maksatukset under one key block each other's responses. All
these hold in the run's instance, of one thread, one run and one key, by its constants.
`OneEraLeavesPaidAlone` and `OneEraSendsAndPays` have no such premise: from one maksuera,
one run at a time and, for the second, keys apart and no edits, they derive it, since
the fetch job takes no era from its owner.

**`EmailOutboxProofs`**, for any mails, any finite set of retry runs, any capacity of the
queue and any numbers of failures, lost events and crashes; `Inv` is

* `TypeOK` (`TypesHold`), with the bound of the queue;
* `OriginInv`: the first attempt of a mail goes from its own worker over the queue
  to the loop and is at one of these only, and a retry run holds mails with an
  event only;
* `AcceptedInv`: a worker about to record a success has seen the relay take the
  mail; hence `NoFalseSuccess` (`SuccessWasAccepted`);
* `StoredInv`: a stored mail was sent, is held or queued, or has a failure the
  retry finds, or a loss was counted; hence `NothingForgotten`
  (`ForgottenOnlyAfterLoss`);
* `CountInv`: copies and attempts under way are within what `CopiesOnlyWhenUnsure`
  allows, and so are the copies of a failure that nobody retries, with one to
  spare. `CopiesAccountedFor` is not inductive without this: a retry starts from
  such a failure.

**`ApplicantFormProofs`**, for any answers and any numbers of edits, posts in flight
and faults: `TypesHold`, `EditsKept` (`EditsAreKept`) and `VersionKnown`
(`KnownVersion`) from one invariant; `TypesHold` adds to it that neither the page nor
a post names a version the server has not made (`NamedInv`). `AnswersInv`: versions
only grow, so an answer that tells the open version tells the open content.
`KnowsInv`: unless a gap misled it, the page knows the open version or an answer that
brings it is on its way. `KeptInv`: a difference between what was typed and what is
saved has a timer or an answer that will be compared. `LeftInv`: a page that was left
has at most one post on its way, against the version that is open.

**`HakemusVersionsProofs`**, for any numbers of threads, requests and deaths: one
inductive invariant `Inv` from which all safety properties of the module follow
(`VersionsTypeCorrect`, `OneOpen`, `NoLostUpdate`, `AnswersStand`, `StatusStands`,
`RefusalIsKept`), and the action property `ClosedStays` from the same invariant.
The invariant is the histories' shape (exactly the last version open), what is
known of each pair of neighbouring versions, and what a request knows of the
version it read: that version exists, its row was as the request remembers, and
answers it wrote come later than those of any version up to the one it read. Each
group of handlers has a lemma that its steps keep the invariant, from general
lemmas on appending a version and on writing answers.

**`HakuSavingProofs`**, for any finite set of hakus and any numbers of edits,
faults and set-backs: `Invariant` is `TypeInv`, `QueueInv` and `StatusInv`. The
queue's part says that at most one save of a haku is in flight, that what it
carries lies between what the server has and what the page shows, and that a save
of the latest revision carries what the page shows; without it an answer could
mark newer edits as saved. The status part ties revisions, errors and flags
together. From it follow `QueueIsAnAutosave`, `SavesInOrder` (the refinement of
`Autosave`: initial states map to initial states, every step to an `Edit`, a
`Store` or a stutter), and `ShownFieldsAreSaved`, the half of `ShownSavedIsSaved`
that is about the fields of hakus.

The other half needs `PartInv` (`PartsInvariant`), which says of each part that
met no known gap where it is: posted, and then its request is the only one under
its flag and no list on its way will replace it (`Sole`); waiting for a timer, and
then nothing of its flag is posted and no other row waits (`Waits`); or as the
server has it. In the first two its flag is up, and an answer that brings the part
brings what the server has (`Fresh`). A flag is no count, so without `Sole` the
first of two answers would lower it for both; that is why overlapping posts are a
gap. With all flags down everything is in the third case: `ShownIsSaved` is the
whole of `ShownSavedIsSaved`.

**`ArvioSavingProofs`**, for any hakemukset and any numbers of actions and failures:
`NoEditLostSilently` (`EditsAreKept`), although a save clears the mark of edits made
since it began. `HeldInv` says of each edit that nothing excuses (`Held`) where it
is: on the page as long as the avustushaku is; in every post that will still replace what
is stored, once it has been stored or posted, and stored when its post was handled;
and waiting for a timer until it has been posted. `EditsAreKept` alone is not
inductive: an edit that is on its way in one post could be overwritten by another,
and the answer of a handled post takes the post away.

Only model-checked is liveness, which with fairness and ENABLED is beyond this
prover: `SendingEnds`, `ResponsesAreHandled`, `StoredIsSent`, `EditsReachServer`,
`IndicatorEnds`, `SelectionEnds` and `EditsGetSaved`. Every invariant and action
property of the passing runs is proved, those of the payments under the premises named
above.

## 5. Plan

Done, in this order: the send job (money leaves here), hakemus versions (what
decisions rest on), responses and the flow of both, emails, and the three editors
in the browser that save by themselves.

A new component gets one run that carries its properties together, safety and
liveness, as the present ones do; where two runs of a component ask nearly the
same question they are merged first.

1. `LoppuselvitysVerification`: submission, information verified, returned for
   completion, taloustarkastus; invariants between status, verifiers and the
   mails sent; the handler that stores mails inside its transaction.
2. `Muutoshakemus`: one undecided per hakemus, päätös made twice, the accepted
   end date and menoluokat.
3. `PaatosSending`: sendall and resendall at once, tokens created, used, revoked;
   composed with `PaymentSending` through `create-grant-payments`.
4. `MaksueraAdministration`: eras and documents by check-then-insert; composed
   with `sending_eras`.
5. `Attachments`, `ArvioChangelog`, `Muistutukset`, `JobSupervisor`: small modules.
6. Pure rules: `get-first-payment-sum`, budget shares, against reference
   definitions over bounded inputs.
7. An abstract specification of a maksuera (unsent, sending, completed or failed,
   with what each promises) that `PaymentSending` implements.

Hazards these modules are for, beside those in `PROJECT.json`: an era and a document
per phase are looked for and then inserted (`payment_batches_routes.clj:28`), a
täsmäytysraportti is recorded as mailed although the failure to send it was swallowed
(`tasmaytysraportti.clj:141`),
a refusal token is looked for and then inserted (`va/virkailija/db.clj:725`), an
arvio's changelog is read, extended and written back (`va/virkailija/db.clj:476`), an
attachment's existence is read before the transaction that versions it
(`va/hakija/db.clj:943`), verifying a loppuselvitys stores mails and reads the
hakemus outside its transaction (`va/hakija/api.clj:828`), and a muutoshakemus gets a
päätös without a look whether it has one (`hakemus_routes.clj:67`).

## 6. Not modelled

`PROJECT.json` lists every component with its reason. In short: exports, reports,
search and code tables only read or write plain rows; sessions and users are
calls to outside services; form validation and decision pages walk or build
trees whose shape no protocol depends on; deployment and tests were read as
evidence. Of the browser clients, the parts that only show state, and dialogs and
lists with one request each, are left out, as are the editors of forms (`saveForm`,
`saveSelvitysForm`: saved by a button), `createHaku`, the refusal page, changing
contacts and what a new organisation brings (`applyServerHakemus`). Most lines of the
repository are of this kind (React components, styles, page objects of tests,
migrations), which is why the modules cover a small share of them.
Contents of answers, sums, references, XML and the wording of mails are abstracted
to what the properties tell apart.

## 7. Running

    tlasany PaymentSending.tla
    tlc -workers 2 -config sending_serial.cfg MCPaymentSending
    tlc -workers 2 -config haku_saving.cfg HakuSaving
    tlapm PaymentSendingProofs.tla
    tlapm PaymentFlowProofs.tla
