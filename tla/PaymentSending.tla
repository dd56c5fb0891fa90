--------------------------- MODULE PaymentSending ---------------------------
(***************************************************************************)
(* Sending the maksatukset of one avustushaku to Rondo.                    *)
(*                                                                         *)
(* An official posts a send request for a maksuera; the request counts the *)
(* unsent maksatukset, claims the era with a guarded UPDATE and hands the  *)
(* send to a background thread.  The thread works through the applications *)
(* and their maksatukset: new row, SFTP put with a ten second timeout, row *)
(* 'sent', progress count; then the emails, then the terminal status.      *)
(* Officials may create, delete or mark paid maksatukset at the same time, *)
(* the process may die at any moment, and a put that timed out goes on in  *)
(* its own thread and may still reach Rondo.                               *)
(***************************************************************************)
EXTENDS PaymentRows, FiniteSets

CONSTANTS
    Payments,        \* maksatus ids
    Applications,    \* hakemukset of the avustushaku
    AppOf,           \* the hakemus of each maksatus
    InitialPayments, \* maksatukset that exist when the behaviour starts
    Eras,            \* maksuerat (payment_batches) of the avustushaku
    Threads,         \* request threads, and the send jobs they become
    MaxStarts,       \* bound: send requests
    MaxEdits,        \* bound: what officials do to the rows meanwhile
    MaxCrashes       \* bound: times the process dies

ASSUME AppOfAssumption == AppOf \in [Payments -> Applications]
ASSUME InitialAssumption == InitialPayments \subseteq Payments
ASSUME SetsAssumption ==
    /\ IsFiniteSet(Payments) /\ Payments # {}
    /\ IsFiniteSet(Threads) /\ Eras # {}
ASSUME BoundsAssumption ==
    MaxStarts \in Nat /\ MaxEdits \in Nat /\ MaxCrashes \in Nat

VARIABLES
    rows,     \* [Payments -> history], the payments table
    payable,  \* applications that pass valid-for-send-payment?
    era,      \* [Eras -> record], the payment_batches rows
    thread,   \* [Threads -> record], request and job threads
    rondo,    \* [Payments -> Nat], invoice files Rondo has received
    late,     \* [Payments -> Nat], puts that timed out and still run
    unsure,   \* [Payments -> Nat], history: outcomes the job could not know
    up,       \* is the process running
    budget    \* what the environment may still do, by the three bounds

vars == <<rows, payable, era, thread, rondo, late, unsure, up, budget>>

SendStatuses == {"none", "sending", "completed", "failed"}

\* What a job sends after the maksatukset.
Notifications == {"emails", "report"}
JobSteps == {"pick", "send", "put", "mark", "count", "notify", "finish"}
Steps == JobSteps \cup {"idle", "counted", "escaped", "payPick", "pay", "delete"}
RowId == Payments \X Nat

Idle == [pc |-> "idle", era |-> CHOOSE e \in Eras : TRUE, counted |-> {},
         apps |-> {}, queue |-> {}, payment |-> CHOOSE p \in Payments : TRUE,
         version |-> 0, failed |-> FALSE]

\* One row per unsent maksatus of an application, as one query returns them.
UnsentRowsOf(a) ==
    UNION {{p} \X UnsentVersions(rows[p]) : p \in {q \in Payments : AppOf[q] = a}}

\* payments-to-send, when it is read all at once (for its count).
PaymentsToSend == UNION {UnsentRowsOf(a) : a \in payable}

Init ==
    /\ rows = [p \in Payments |->
                IF p \in InitialPayments THEN <<NewRow("created")>> ELSE <<>>]
    /\ payable = Applications
    /\ era = [e \in Eras |-> [status |-> "none", sent |-> 0, total |-> 0,
                              notified |-> {}]]
    /\ thread = [t \in Threads |-> Idle]
    /\ rondo = [p \in Payments |-> 0]
    /\ late = [p \in Payments |-> 0]
    /\ unsure = [p \in Payments |-> 0]
    /\ up = TRUE
    /\ budget = [starts |-> MaxStarts, edits |-> MaxEdits, crashes |-> MaxCrashes]

Spend(what) ==
    /\ budget[what] > 0
    /\ budget' = [budget EXCEPT ![what] = @ - 1]

-----------------------------------------------------------------------------
(* The request: start-send-job!                                            *)

\* The count is read before the era is claimed.
CountPayments(t, e) ==
    /\ up /\ thread[t].pc = "idle"
    /\ Spend("starts")
    /\ thread' = [thread EXCEPT ![t] =
                    [Idle EXCEPT !.pc = "counted", !.era = e,
                                 !.counted = PaymentsToSend]]
    /\ UNCHANGED <<rows, payable, era, rondo, late, unsure, up>>

\* Mutant of ClaimEra: the UPDATE has lost its condition.
ClaimAnyEra(t) ==
    LET e == thread[t].era IN
    /\ thread[t].pc = "counted"
    /\ era' = [era EXCEPT ![e] =
                [status |-> "sending", sent |-> 0,
                 total |-> Cardinality(thread[t].counted), notified |-> {}]]
    /\ thread' = [thread EXCEPT ![t].pc = "pick", ![t].apps = payable]
    /\ UNCHANGED <<rows, payable, rondo, late, unsure, up, budget>>

\* UPDATE ... WHERE send_status IS DISTINCT FROM 'sending': claims the era and
\* the thread goes on as the job, ...
ClaimEra(t) ==
    LET e == thread[t].era IN
    /\ thread[t].pc = "counted"
    /\ era[e].status # "sending"
    /\ era' = [era EXCEPT ![e] =
                [status |-> "sending", sent |-> 0,
                 total |-> Cardinality(thread[t].counted), notified |-> {}]]
    /\ thread' = [thread EXCEPT ![t].pc = "pick", ![t].apps = payable]
    /\ UNCHANGED <<rows, payable, rondo, late, unsure, up, budget>>

\* ... or the request is answered with 409.
ClaimRefused(t) ==
    /\ thread[t].pc = "counted"
    /\ era[thread[t].era].status = "sending"
    /\ thread' = [thread EXCEPT ![t] = Idle]
    /\ UNCHANGED <<rows, payable, era, rondo, late, unsure, up, budget>>

-----------------------------------------------------------------------------
(* The job: run-send-job!                                                  *)

\* The sequence is lazy: the rows of an application are read when the loop
\* reaches it, all of them in one query.
PickApplication(t) ==
    /\ thread[t].pc = "pick"
    /\ \E a \in thread[t].apps :
         thread' = [thread EXCEPT ![t].pc = "send", ![t].apps = @ \ {a},
                                  ![t].queue = UnsentRowsOf(a)]
    /\ UNCHANGED <<rows, payable, era, rondo, late, unsure, up, budget>>

ApplicationDone(t) ==
    /\ thread[t].pc = "send" /\ thread[t].queue = {}
    /\ thread' = [thread EXCEPT ![t].pc = "pick"]
    /\ UNCHANGED <<rows, payable, era, rondo, late, unsure, up, budget>>

AllApplicationsDone(t) ==
    /\ thread[t].pc = "pick" /\ thread[t].apps = {}
    /\ thread' = [thread EXCEPT ![t].pc = "notify"]
    /\ UNCHANGED <<rows, payable, era, rondo, late, unsure, up, budget>>

\* An exception ends the loop; the catch remembers it for the terminal status.
Throws(t) == thread' = [thread EXCEPT ![t].pc = "finish", ![t].failed = TRUE]

\* send-payment: a new row that carries the era's id, from the row as it was
\* when the application was picked.  The row inserted last has version Len.
AddBatchRow(t) ==
    /\ thread[t].pc = "send"
    /\ \E r \in thread[t].queue :
         LET p == r[1]
             v == r[2] IN
         \/ /\ InsertFits(rows[p])
            /\ rows' = [rows EXCEPT ![p] = UpdatePayment(@, v, At(@, v).status)]
            /\ thread' = [thread EXCEPT ![t].pc = "put", ![t].queue = @ \ {r},
                            ![t].payment = p, ![t].version = Len(rows[p])]
         \/ /\ ~InsertFits(rows[p])
            /\ Throws(t)
            /\ UNCHANGED rows
    /\ UNCHANGED <<payable, era, rondo, late, unsure, up, budget>>

\* get-payment sees no open row (deleted meanwhile): building the invoice
\* throws inside the timeout wrapper and the send counts as failed.
PutFindsNoRow(t) ==
    /\ thread[t].pc = "put"
    /\ OpenVersions(rows[thread[t].payment]) = {}
    /\ thread' = [thread EXCEPT ![t].pc = "send"]
    /\ UNCHANGED <<rows, payable, era, rondo, late, unsure, up, budget>>

Put(t) ==
    /\ thread[t].pc = "put"
    /\ OpenVersions(rows[thread[t].payment]) # {}
    /\ UNCHANGED <<rows, payable, era, up, budget>>

\* Mutant of PutSucceeds: progress is counted, the row is not updated.
SucceedsUnmarked(t) ==
    /\ Put(t)
    /\ rondo' = [rondo EXCEPT ![thread[t].payment] = @ + 1]
    /\ thread' = [thread EXCEPT ![t].pc = "count"]
    /\ UNCHANGED <<late, unsure>>

PutSucceeds(t) ==
    /\ Put(t)
    /\ rondo' = [rondo EXCEPT ![thread[t].payment] = @ + 1]
    /\ thread' = [thread EXCEPT ![t].pc = "mark"]
    /\ UNCHANGED <<late, unsure>>

\* Mutants of PutFails: the error is taken for success, or for progress.
FailureMarksSent(t) ==
    /\ Put(t)
    /\ thread' = [thread EXCEPT ![t].pc = "mark"]
    /\ UNCHANGED <<rondo, late, unsure>>

FailureCounts(t) ==
    /\ Put(t)
    /\ thread' = [thread EXCEPT ![t].pc = "count"]
    /\ UNCHANGED <<rondo, late, unsure>>

\* The SFTP call reports an error; the maksatus is left as it is and the loop
\* goes on to the next one.
PutFails(t) ==
    /\ Put(t)
    /\ thread' = [thread EXCEPT ![t].pc = "send"]
    /\ UNCHANGED <<rondo, late, unsure>>

\* The connection breaks after the file has been taken.
PutFailsAfterDelivery(t) ==
    /\ Put(t)
    /\ rondo' = [rondo EXCEPT ![thread[t].payment] = @ + 1]
    /\ unsure' = [unsure EXCEPT ![thread[t].payment] = @ + 1]
    /\ thread' = [thread EXCEPT ![t].pc = "send"]
    /\ UNCHANGED late

\* with-timeout gives up on the answer; the put itself is not cancelled.
PutTimesOut(t) ==
    /\ Put(t)
    /\ late' = [late EXCEPT ![thread[t].payment] = @ + 1]
    /\ unsure' = [unsure EXCEPT ![thread[t].payment] = @ + 1]
    /\ thread' = [thread EXCEPT ![t].pc = "send"]
    /\ UNCHANGED rondo

\* The row is 'sent'.  A row deleted before it is read back leaves nil to
\* update from; deleted after, the INSERT may still fit.
MarkSent(t) ==
    LET p == thread[t].payment
        v == thread[t].version IN
    /\ thread[t].pc = "mark"
    /\ \/ /\ InsertFits(rows[p])
          /\ rows' = [rows EXCEPT ![p] = UpdatePayment(@, v, "sent")]
          /\ thread' = [thread EXCEPT ![t].pc = "count"]
          /\ UNCHANGED unsure
       \/ /\ At(rows[p], v).deleted \/ ~InsertFits(rows[p])
          /\ unsure' = [unsure EXCEPT ![p] = @ + 1]
          /\ Throws(t)
          /\ UNCHANGED rows
    /\ UNCHANGED <<payable, era, rondo, late, up, budget>>

\* inc-sent-count!
IncSentCount(t) ==
    /\ thread[t].pc = "count"
    /\ era' = [era EXCEPT ![thread[t].era].sent = @ + 1]
    /\ thread' = [thread EXCEPT ![t].pc = "send"]
    /\ UNCHANGED <<rows, payable, rondo, late, unsure, up, budget>>

\* send-batch-emails stores the emails and puts them on the mail queue, or
\* throws.  send-tasmaytysraportti mails the report or not: it catches and logs
\* every exception, and so does try-send-msg-once.
Notify(t) ==
    /\ thread[t].pc = "notify"
    /\ \E report \in SUBSET {"report"} :
         era' = [era EXCEPT ![thread[t].era].notified = {"emails"} \cup report]
    /\ thread' = [thread EXCEPT ![t].pc = "finish"]
    /\ UNCHANGED <<rows, payable, rondo, late, unsure, up, budget>>

\* A database error, or an Error, anywhere in the try block, the building of the
\* report included.  At "mark" the file is in Rondo and no row says so.
JobThrows(t) ==
    /\ thread[t].pc \in JobSteps \ {"put", "finish"}
    /\ Throws(t)
    /\ unsure' = IF thread[t].pc = "mark"
                 THEN [unsure EXCEPT ![thread[t].payment] = @ + 1] ELSE unsure
    /\ UNCHANGED <<rows, payable, era, rondo, late, up, budget>>

\* Mutants of FinalStatus: only the counts decide, only the exception decides,
\* or the status is one no reader knows.
StatusByCounts(t) ==
    IF era[thread[t].era].sent # era[thread[t].era].total THEN "failed" ELSE "completed"

StatusByException(t) == IF thread[t].failed THEN "failed" ELSE "completed"

MisspeltStatus(t) == IF thread[t].failed THEN "failed" ELSE "complete"

\* mark-send-finished!
FinalStatus(t) ==
    IF thread[t].failed \/ era[thread[t].era].sent # era[thread[t].era].total
    THEN "failed" ELSE "completed"

MarkSendFinished(t) ==
    /\ thread[t].pc = "finish"
    /\ era' = [era EXCEPT ![thread[t].era].status = FinalStatus(t)]
    /\ thread' = [thread EXCEPT ![t] = Idle]
    /\ UNCHANGED <<rows, payable, rondo, late, unsure, up, budget>>

\* The finally block touches the database and may throw in turn: the future
\* ends and the era stays 'sending'.
JobEscapes(t) ==
    /\ thread[t].pc = "finish"
    /\ thread' = [thread EXCEPT ![t].pc = "escaped"]
    /\ UNCHANGED <<rows, payable, era, rondo, late, unsure, up, budget>>

-----------------------------------------------------------------------------
(* What happens to a put that timed out.                                   *)

LateArrival(p) ==
    /\ late[p] > 0
    /\ late' = [late EXCEPT ![p] = @ - 1]
    /\ rondo' = [rondo EXCEPT ![p] = @ + 1]
    /\ UNCHANGED <<rows, payable, era, thread, unsure, up, budget>>

LateLoss(p) ==
    /\ late[p] > 0
    /\ late' = [late EXCEPT ![p] = @ - 1]
    /\ UNCHANGED <<rows, payable, era, thread, rondo, unsure, up, budget>>

-----------------------------------------------------------------------------
(* The process dies with its threads; the next one marks the eras it finds *)
(* mid-flight before it serves requests (fail-stale-sending-batches!).     *)

Crash ==
    /\ up /\ Spend("crashes")
    /\ up' = FALSE
    /\ unsure' = [p \in Payments |->
                    unsure[p] + Cardinality({t \in Threads :
                        thread[t].payment = p /\ thread[t].pc \in {"put", "mark"}})]
    /\ \E taken \in SUBSET {t \in Threads : thread[t].pc = "put"} :
         rondo' = [p \in Payments |->
                    rondo[p] + Cardinality({t \in taken : thread[t].payment = p})]
    /\ thread' = [t \in Threads |-> Idle]
    /\ late' = [p \in Payments |-> 0]
    /\ UNCHANGED <<rows, payable, era>>

\* Mutant of Restart: the eras found mid-flight are left as they are.
RestartForgets ==
    /\ ~up
    /\ up' = TRUE
    /\ UNCHANGED <<rows, payable, era, thread, rondo, late, unsure, budget>>

Restart ==
    /\ ~up
    /\ up' = TRUE
    /\ era' = [e \in Eras |->
                IF era[e].status = "sending"
                THEN [era[e] EXCEPT !.status = "failed"] ELSE era[e]]
    /\ UNCHANGED <<rows, payable, thread, rondo, late, unsure, budget>>

-----------------------------------------------------------------------------
(* What officials and applicants do meanwhile.                             *)

\* create-grant-payments makes 'created' rows for payable applications that have
\* none; POST /payments makes a row for any application, with whichever status
\* its body names, 'sent' and 'paid' included.
CreatePayment(p) ==
    /\ up /\ rows[p] = <<>>
    /\ Spend("edits")
    /\ \E status \in Statuses : rows' = [rows EXCEPT ![p] = <<NewRow(status)>>]
    /\ UNCHANGED <<payable, era, thread, rondo, late, unsure, up>>

\* Refusal, keskeyta-aloittamatta or the arvio (status, should-pay) changes.
ChangePayable(a) ==
    /\ up /\ Spend("edits")
    /\ payable' = IF a \in payable THEN payable \ {a} ELSE payable \cup {a}
    /\ UNCHANGED <<rows, era, thread, rondo, late, unsure, up>>

DeleteGrantPayments ==
    /\ up /\ Spend("edits")
    /\ rows' = [p \in Payments |-> DeleteRows(rows[p], Unsent)]
    /\ UNCHANGED <<payable, era, thread, rondo, late, unsure, up>>

\* DELETE /payments/:id looks at the row first ...
CheckDeletable(t, p) ==
    /\ up /\ thread[t].pc = "idle"
    /\ \E v \in OpenVersions(rows[p]) :
         /\ At(rows[p], v).status = "waiting"
         /\ \A w \in OpenVersions(rows[p]) : w <= v
    /\ Spend("edits")
    /\ thread' = [thread EXCEPT ![t].pc = "delete", ![t].payment = p]
    /\ UNCHANGED <<rows, payable, era, rondo, late, unsure, up>>

\* ... and deletes afterwards, by status and id.
DeletePayment(t) ==
    /\ thread[t].pc = "delete"
    /\ rows' = [rows EXCEPT ![thread[t].payment] = DeleteRows(@, {"waiting"})]
    /\ thread' = [thread EXCEPT ![t] = Idle]
    /\ UNCHANGED <<payable, era, rondo, late, unsure, up, budget>>

\* set-payments-paid: the same loop as the job, one transaction per row.
StartSettingPaid(t) ==
    /\ up /\ thread[t].pc = "idle"
    /\ Spend("edits")
    /\ thread' = [thread EXCEPT ![t].pc = "payPick", ![t].apps = payable]
    /\ UNCHANGED <<rows, payable, era, rondo, late, unsure, up>>

PayPickApplication(t) ==
    /\ thread[t].pc = "payPick"
    /\ IF thread[t].apps = {}
       THEN thread' = [thread EXCEPT ![t] = Idle]
       ELSE \E a \in thread[t].apps :
              thread' = [thread EXCEPT ![t].pc = "pay", ![t].apps = @ \ {a},
                                       ![t].queue = UnsentRowsOf(a)]
    /\ UNCHANGED <<rows, payable, era, rondo, late, unsure, up, budget>>

SetPaid(t) ==
    /\ thread[t].pc = "pay"
    /\ IF thread[t].queue = {}
       THEN /\ thread' = [thread EXCEPT ![t].pc = "payPick"]
            /\ UNCHANGED rows
       ELSE \E r \in thread[t].queue :
              IF InsertFits(rows[r[1]])
              THEN /\ rows' = [rows EXCEPT ![r[1]] = UpdatePayment(@, r[2], "paid")]
                   /\ thread' = [thread EXCEPT ![t].queue = @ \ {r}]
              ELSE /\ thread' = [thread EXCEPT ![t] = Idle]
                   /\ UNCHANGED rows
    /\ UNCHANGED <<payable, era, rondo, late, unsure, up, budget>>

-----------------------------------------------------------------------------
JobStep(t) ==
    \/ ClaimEra(t) \/ ClaimRefused(t)
    \/ PickApplication(t) \/ ApplicationDone(t) \/ AllApplicationsDone(t)
    \/ AddBatchRow(t)
    \/ PutFindsNoRow(t) \/ PutSucceeds(t) \/ PutFails(t)
    \/ PutFailsAfterDelivery(t) \/ PutTimesOut(t)
    \/ MarkSent(t) \/ IncSentCount(t) \/ Notify(t)
    \/ JobThrows(t) \/ MarkSendFinished(t) \/ JobEscapes(t)

OfficialStep(t) ==
    \/ \E e \in Eras : CountPayments(t, e)
    \/ \E p \in Payments : CheckDeletable(t, p)
    \/ DeletePayment(t)
    \/ StartSettingPaid(t) \/ PayPickApplication(t) \/ SetPaid(t)

Environment ==
    \/ \E p \in Payments : LateArrival(p) \/ LateLoss(p) \/ CreatePayment(p)
    \/ \E a \in Applications : ChangePayable(a)
    \/ DeleteGrantPayments
    \/ Crash \/ Restart

Next == Environment \/ \E t \in Threads : JobStep(t) \/ OfficialStep(t)

Spec == Init /\ [][Next]_vars

\* A thread that has started a job goes on: every call it makes returns or
\* times out.  ECS keeps one task running, so a dead process comes back.
Fairness == WF_vars(Restart) /\ \A t \in Threads : WF_vars(JobStep(t))

FairSpec == Spec /\ Fairness
-----------------------------------------------------------------------------
(* Properties.                                                             *)

ThreadType ==
    [pc : Steps, era : Eras, counted : SUBSET RowId, apps : SUBSET Applications,
     queue : SUBSET RowId, payment : Payments, version : Nat, failed : BOOLEAN]

EraType ==
    [status : SendStatuses, sent : Nat, total : Nat, notified : SUBSET Notifications]

\* Every variable keeps its type.
TypeOK ==
    /\ rows \in [Payments -> Seq(Row)]
    /\ payable \subseteq Applications
    /\ era \in [Eras -> EraType]
    /\ thread \in [Threads -> ThreadType]
    /\ rondo \in [Payments -> Nat]
    /\ late \in [Payments -> Nat]
    /\ unsure \in [Payments -> Nat]
    /\ up \in BOOLEAN
    /\ budget \in [{"starts", "edits", "crashes"} -> Nat]

\* The threads that answer for an era.
Owns(t, e) == thread[t].pc \in JobSteps \cup {"escaped"} /\ thread[t].era = e

\* An era is 'sending' exactly while one job works on it (or has failed to
\* write its terminal status): two requests never start two jobs for one era,
\* and after a crash no era is left 'sending' (start-send-job!,
\* fail-stale-sending-batches!).
SendingHasOneOwner ==
    \A e \in Eras :
      /\ \A s, t \in Threads : Owns(s, e) /\ Owns(t, e) => s = t
      /\ up => (era[e].status = "sending" <=> \E t \in Threads : Owns(t, e))

\* A row was updated to 'sent' only of a maksatus whose file Rondo has received,
\* whatever times out, fails, dies or is edited meanwhile (run-send-job!).  Of the
\* first row (version 0) nothing is said: POST /payments may make it 'sent'.
SentWasDelivered ==
    \A p \in Payments :
      (\E i \in 2..Len(rows[p]) : rows[p][i].status = "sent") => rondo[p] > 0

\* The progress the officials see never counts more maksatukset than there
\* are rows that were updated to 'sent' (inc-sent-count! after the row is 'sent').
ProgressIsEarned ==
    \A e \in Eras :
      era[e].sent <= Cardinality(UNION {
          {p} \X {i \in 2..Len(rows[p]) : rows[p][i].status = "sent"} : p \in Payments})

\* A 'completed' era has handed its emails to the mail queue: matching counts
\* alone do not make a send complete (mark-send-finished!).  The report is not
\* promised: a failure to send it is swallowed.
CompletedMeansNotified ==
    \A e \in Eras : era[e].status = "completed" => "emails" \in era[e].notified

\* A job about to write 'completed' has sent every maksatus it counted
\* (mark-send-finished!: "every maksatus went out").
CompletedMeansEveryMaksatusWentOut ==
    \A t \in Threads :
      thread[t].pc = "finish" /\ FinalStatus(t) = "completed" =>
        \A r \in thread[t].counted : EverSent(rows[r[1]])

\* At most one row of a maksatus is in force (update-payment).
OneOpenRow == \A p \in Payments : Cardinality(OpenVersions(rows[p])) <= 1

\* Once a maksatus has been sent no further row is made for it by a send:
\* it is not sent a second time, whatever is retried (payments-to-send).
SentIsFinal ==
    [][\A p \in Payments : EverSent(rows[p]) => rows'[p] = rows[p]]_vars

\* Rondo gets a second file of a maksatus only after an attempt whose outcome
\* the job could not know: a timeout, a broken connection, a crash, or a
\* failure between the put and the row that says 'sent'.
DuplicatesOnlyAfterUnsureOutcome ==
    \A p \in Payments : rondo[p] + late[p] <= 1 + unsure[p]

\* A send comes to an end: the era leaves 'sending', unless the thread could
\* not write the terminal status; a restart clears what a crash left.
SendingEnds ==
    \A e \in Eras :
      era[e].status = "sending" ~>
        \/ era[e].status # "sending"
        \/ \E t \in Threads : thread[t].pc = "escaped" /\ thread[t].era = e
=============================================================================
