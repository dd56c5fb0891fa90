----------------------------- MODULE EmailOutbox -----------------------------
(***************************************************************************)
(* Sending emails, and sending again those that failed.                    *)
(*                                                                         *)
(* A mail is first stored (email).  The new way, try-send-email!, hands it *)
(* to a go block of its own; the old way, enqueue-message-to-be-send, puts *)
(* it on a bounded queue that one loop empties.  Every attempt ends with   *)
(* an event (email_event) that says whether the relay took the mail, and a *)
(* job looks every minute for mails whose latest event is a failure.  It   *)
(* builds the mail again from the email row.  A run of the job that takes  *)
(* longer than a minute is overlapped by the next.                         *)
(***************************************************************************)
EXTENDS Naturals, Sequences, FiniteSets

CONSTANTS
    Mails,
    Extras,      \* mails with cc recipients or an attachment
    Loop,        \* the loop that empties the queue
    Runs,        \* runs of the retry job
    QueueSize,   \* capacity of mail-chan
    MaxFailures, \* bound: attempts that fail
    MaxLosses,   \* bound: events that cannot be stored
    MaxCrashes   \* bound: times the process dies

ASSUME MailAssumption ==
    /\ IsFiniteSet(Mails) /\ Mails # {} /\ Extras \subseteq Mails
    /\ IsFiniteSet(Runs)
    /\ Loop \notin Mails \cup Runs /\ Mails \cap Runs = {}
ASSUME MailBounds ==
    /\ QueueSize \in Nat \ {0}
    /\ MaxFailures \in Nat /\ MaxLosses \in Nat /\ MaxCrashes \in Nat

VARIABLES
    stored,   \* mails with an email row
    event,    \* [Mails -> status], the latest event of each
    queue,    \* mail-chan
    worker,   \* [Workers -> record]
    whole,    \* [Mails -> Nat], copies the relay took, as the mail was stored
    bare,     \* [Mails -> Nat], copies without cc recipients and attachment
    unsure,   \* [Mails -> Nat], history: attempts no event tells the truth of
    overlapped, \* [Mails -> Nat], history: attempts of a run that another overtook
    up,       \* is the process running
    budget    \* what may still go wrong

vars == <<stored, event, queue, worker, whole, bare, unsure, overlapped, up, budget>>
mails == <<stored, event, queue, whole, bare, unsure, overlapped>>

\* The request or go block of a mail goes by the name of the mail.
Workers == Mails \cup {Loop} \cup Runs

Idle == [pc |-> "idle", mail |-> CHOOSE m \in Mails : TRUE, list |-> {}, ok |-> FALSE]

Copies(m) == whole[m] + bare[m]

Holders(m) == {w \in Workers : worker[w].pc \in {"put", "send", "event"} /\ worker[w].mail = m}

Init ==
    /\ stored = {}
    /\ event = [m \in Mails |-> "none"]
    /\ queue = <<>>
    /\ worker = [w \in Workers |-> Idle]
    /\ whole = [m \in Mails |-> 0] /\ bare = [m \in Mails |-> 0]
    /\ unsure = [m \in Mails |-> 0]
    /\ overlapped = [m \in Mails |-> 0]
    /\ up = TRUE
    /\ budget = [failures |-> MaxFailures, losses |-> MaxLosses, crashes |-> MaxCrashes]

Spend(what) ==
    /\ budget[what] > 0
    /\ budget' = [budget EXCEPT ![what] = @ - 1]

Goto(w, pc) == worker' = [worker EXCEPT ![w].pc = pc]

-----------------------------------------------------------------------------
(* The first attempt.                                                      *)

Store(m, pc) ==
    /\ up /\ m \notin stored
    /\ stored' = stored \cup {m}
    /\ worker' = [worker EXCEPT ![m] = [Idle EXCEPT !.pc = pc, !.mail = m]]
    /\ UNCHANGED <<event, queue, whole, bare, unsure, overlapped, up, budget>>

\* try-send-email!, and try-send-msg-once in the caller's thread.
TrySendEmail(m) == Store(m, "send")

\* enqueue-message-to-be-send; >!! waits while the queue is full.
Enqueue(m) == Store(m, "put")

\* Mutant of PutOnQueue: the queue has no limit.
PutAnyway(m) ==
    /\ worker[m].pc = "put"
    /\ queue' = Append(queue, m)
    /\ worker' = [worker EXCEPT ![m] = Idle]
    /\ UNCHANGED <<stored, event, whole, bare, unsure, overlapped, up, budget>>

PutOnQueue(m) ==
    /\ worker[m].pc = "put" /\ Len(queue) < QueueSize
    /\ queue' = Append(queue, m)
    /\ worker' = [worker EXCEPT ![m] = Idle]
    /\ UNCHANGED <<stored, event, whole, bare, unsure, overlapped, up, budget>>

TakeFromQueue ==
    /\ up /\ worker[Loop].pc = "idle" /\ queue # <<>>
    /\ queue' = Tail(queue)
    /\ worker' = [worker EXCEPT ![Loop] = [Idle EXCEPT !.pc = "send", !.mail = Head(queue)]]
    /\ UNCHANGED <<stored, event, whole, bare, unsure, overlapped, up, budget>>

-----------------------------------------------------------------------------
(* An attempt: try-send-msg and send-email-once!                           *)

\* get-messages-that-failed-to-send selects neither cc nor what try-send-msg
\* takes for an attachment.
Take(w) ==
    LET m == worker[w].mail IN
    IF w \in Runs /\ m \in Extras
    THEN bare' = [bare EXCEPT ![m] = @ + 1] /\ UNCHANGED whole
    ELSE whole' = [whole EXCEPT ![m] = @ + 1] /\ UNCHANGED bare

Answered(w, ok) == worker' = [worker EXCEPT ![w].pc = "event", ![w].ok = ok]

SmtpAccepts(w) ==
    /\ worker[w].pc = "send"
    /\ Take(w)
    /\ Answered(w, TRUE)
    /\ UNCHANGED <<stored, event, queue, unsure, overlapped, up, budget>>

\* Mutant of SmtpRejects: the exception does not reach the event.
RejectionIgnored(w) ==
    /\ worker[w].pc = "send" /\ Spend("failures")
    /\ Answered(w, TRUE)
    /\ UNCHANGED <<mails, up>>

SmtpRejects(w) ==
    /\ worker[w].pc = "send" /\ Spend("failures")
    /\ Answered(w, FALSE)
    /\ UNCHANGED <<mails, up>>

\* The relay has the mail, the server gets an exception.
SmtpBreaks(w) ==
    /\ worker[w].pc = "send" /\ Spend("failures")
    /\ Take(w)
    /\ unsure' = [unsure EXCEPT ![worker[w].mail] = @ + 1]
    /\ Answered(w, FALSE)
    /\ UNCHANGED <<stored, event, queue, overlapped, up>>

Proceed(w) == IF w \in Runs THEN Goto(w, "next") ELSE worker' = [worker EXCEPT ![w] = Idle]

\* Mutants of StoreEvent: only successes are stored; it always says failure.
SuccessStored(w) ==
    /\ worker[w].pc = "event"
    /\ event' = [event EXCEPT ![worker[w].mail] = IF worker[w].ok THEN "success" ELSE @]
    /\ Proceed(w)
    /\ UNCHANGED <<stored, queue, whole, bare, unsure, overlapped, up, budget>>

FailureStored(w) ==
    /\ worker[w].pc = "event"
    /\ event' = [event EXCEPT ![worker[w].mail] = "failure"]
    /\ Proceed(w)
    /\ UNCHANGED <<stored, queue, whole, bare, unsure, overlapped, up, budget>>

\* create-email-event
StoreEvent(w) ==
    /\ worker[w].pc = "event"
    /\ event' = [event EXCEPT ![worker[w].mail] = IF worker[w].ok THEN "success" ELSE "failure"]
    /\ Proceed(w)
    /\ UNCHANGED <<stored, queue, whole, bare, unsure, overlapped, up, budget>>

\* It catches and logs its own exceptions.
LoseEvent(w) ==
    /\ worker[w].pc = "event" /\ Spend("losses")
    /\ unsure' = [unsure EXCEPT ![worker[w].mail] = @ + 1]
    /\ Proceed(w)
    /\ UNCHANGED <<stored, event, queue, whole, bare, overlapped, up>>

-----------------------------------------------------------------------------
(* The retry job.                                                          *)

\* The JOIN leaves out mails without an event.
Failed == {m \in stored : event[m] = "failure"}

\* A run that finds nothing does nothing.
StartRetry(r) ==
    /\ up /\ worker[r].pc = "idle" /\ Failed # {}
    /\ worker' = [worker EXCEPT ![r] = [Idle EXCEPT !.pc = "next", !.list = Failed]]
    /\ UNCHANGED <<mails, up, budget>>

\* The list is not looked at again: another run may have sent a mail of it, or
\* be sending it.
Overtaken(m) == event[m] # "failure" \/ Holders(m) # {}

RetryNext(r) ==
    /\ worker[r].pc = "next"
    /\ \E m \in worker[r].list :
         /\ worker' = [worker EXCEPT ![r].pc = "send", ![r].mail = m, ![r].list = @ \ {m}]
         /\ overlapped' = [overlapped EXCEPT ![m] = IF Overtaken(m) THEN @ + 1 ELSE @]
    /\ UNCHANGED <<stored, event, queue, whole, bare, unsure, up, budget>>

RetryDone(r) ==
    /\ worker[r].pc = "next" /\ worker[r].list = {}
    /\ worker' = [worker EXCEPT ![r] = Idle]
    /\ UNCHANGED <<mails, up, budget>>

-----------------------------------------------------------------------------
(* The process dies with its queue and its go blocks; nothing is done on   *)
(* startup about mails that have no event.                                 *)

Queued(m) == {i \in 1..Len(queue) : queue[i] = m}

Crash ==
    /\ up /\ up' = FALSE
    /\ Spend("crashes")
    /\ \E taken \in SUBSET {w \in Workers : worker[w].pc = "send"} :
         LET Copied(m, kind) == Cardinality({w \in taken : worker[w].mail = m /\
                                  (w \in Runs /\ m \in Extras <=> kind = "bare")}) IN
         /\ whole' = [m \in Mails |-> whole[m] + Copied(m, "whole")]
         /\ bare' = [m \in Mails |-> bare[m] + Copied(m, "bare")]
    /\ unsure' = [m \in Mails |-> unsure[m] + Cardinality(Holders(m)) + Cardinality(Queued(m))]
    /\ worker' = [w \in Workers |-> Idle]
    /\ queue' = <<>>
    /\ UNCHANGED <<stored, event, overlapped>>

Restart ==
    /\ ~up /\ up' = TRUE
    /\ UNCHANGED <<mails, worker, budget>>

WorkerStep(w) ==
    \/ SmtpAccepts(w) \/ SmtpRejects(w) \/ SmtpBreaks(w)
    \/ StoreEvent(w) \/ LoseEvent(w)

RetryStep(r) == StartRetry(r) \/ RetryNext(r) \/ RetryDone(r)

Next ==
    \/ \E m \in Mails : TrySendEmail(m) \/ Enqueue(m) \/ PutOnQueue(m)
    \/ TakeFromQueue
    \/ \E w \in Workers : WorkerStep(w)
    \/ \E r \in Runs : RetryStep(r)
    \/ Crash \/ Restart

Spec == Init /\ [][Next]_vars

\* Threads and the loop go on, Quartz fires every minute, ECS restarts.
Fairness ==
    /\ WF_vars(TakeFromQueue) /\ WF_vars(Restart)
    /\ \A m \in Mails : WF_vars(PutOnQueue(m))
    /\ \A w \in Workers : WF_vars(WorkerStep(w))
    /\ \A r \in Runs : WF_vars(RetryStep(r))

FairSpec == Spec /\ Fairness
-----------------------------------------------------------------------------
(* Properties.                                                             *)

\* Every variable keeps its type, and the queue its capacity.
TypeOK ==
    /\ stored \subseteq Mails
    /\ event \in [Mails -> {"none", "failure", "success"}]
    /\ queue \in Seq(Mails) /\ Len(queue) <= QueueSize
    /\ worker \in [Workers -> [pc : {"idle", "put", "send", "event", "next"},
                               mail : Mails, list : SUBSET Mails, ok : BOOLEAN]]
    /\ whole \in [Mails -> Nat] /\ bare \in [Mails -> Nat] /\ unsure \in [Mails -> Nat]
    /\ overlapped \in [Mails -> Nat]
    /\ up \in BOOLEAN
    /\ budget \in [{"failures", "losses", "crashes"} -> Nat]

\* Somebody still has to send the mail.
InHand(m) == Holders(m) # {} \/ Queued(m) # {} \/ \E r \in Runs : m \in worker[r].list

\* Not sent, nobody is about to send it, and no retry will find it.
Forgotten(m) == m \in stored /\ Copies(m) = 0 /\ ~InHand(m) /\ event[m] # "failure"

\* A mail that the relay has not got, and nobody is about to send, will be found
\* by the retry job, unless its event was lost or the process died with it
\* (create-email-event, get-messages-that-failed-to-send).
ForgottenOnlyAfterLoss == \A m \in Mails : Forgotten(m) => unsure[m] > 0

\* An event says success only of a mail the relay has (try-send-msg).
SuccessWasAccepted == \A m \in Mails : event[m] = "success" => Copies(m) > 0

\* The relay gets a further copy only by an attempt whose outcome no event
\* tells, or by a run of the job that another one overtook (try-send-msg,
\* get-messages-that-failed-to-send).
CopiesOnlyWhenUnsure == \A m \in Mails : Copies(m) <= 1 + unsure[m] + overlapped[m]

\* What is retried is the mail that was stored, "plus optionally ... seq of `cc`,
\* `bcc`, or an `attachment`" (message).
AcceptedAsStored == \A m \in Mails : bare[m] = 0

\* A stored mail reaches the relay in the end, unless it was lost: failures,
\* a full queue and overlapping runs only delay it.
StoredIsSent == \A m \in Mails : m \in stored ~> Copies(m) > 0 \/ unsure[m] > 0
=============================================================================
