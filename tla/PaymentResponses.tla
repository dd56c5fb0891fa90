-------------------------- MODULE PaymentResponses --------------------------
(***************************************************************************)
(* Fetching the payment responses (maksupalautteet) of Rondo.              *)
(*                                                                         *)
(* Rondo leaves a response file for an invoice it has paid.  A daily job   *)
(* lists the files, fetches them one by one in the order of their names,   *)
(* marks the maksatus a response names as 'paid' and deletes the file.     *)
(* What the handler throws and does not catch by name ends the whole run,  *)
(* which starts again after a delay.  A run that takes ten minutes is left *)
(* to itself, and the next one may overlap it.                             *)
(*                                                                         *)
(* Whoever sends, deletes and edits maksatukset is one set of actions here *)
(* (Sender); PaymentFlow puts the send job of PaymentSending in its place. *)
(***************************************************************************)
EXTENDS PaymentRows, FiniteSets

CONSTANTS
    Payments,   \* maksatus ids
    Key,        \* the register number and phase that a response names
    MaxFiles,   \* bound: response files
    Fetches,    \* runs of the job, attended by Quartz or left to themselves
    MaxRows,    \* bound: rows of a maksatus that the sender makes
    MaxFaults   \* bound: errors of the network and the database, and crashes

Junk == {"unknown", "unreadable", "noReference"}

ASSUME KeyAssumption == DOMAIN Key = Payments
ASSUME FetchesAssumption == IsFiniteSet(Fetches)
ASSUME PaymentsAreNoJunk == Payments \cap (Junk \cup {"none"}) = {}
ASSUME ResponseBounds ==
    MaxFiles \in Nat /\ MaxRows \in Nat /\ MaxFaults \in Nat

VARIABLES
    rows,      \* the payments table
    invoiced,  \* maksatukset whose invoice Rondo has
    manual,    \* history: maksatukset that an official marked, or made, as paid
    about,     \* what each response file says
    remote,    \* files in Rondo's outgoing directory
    local,     \* files in the server's own directory
    fetch,     \* [Fetches -> record], the runs
    up,        \* is the process running
    faults     \* errors and crashes that may still happen

vars == <<rows, invoiced, manual, about, remote, local, fetch, up, faults>>
sender == <<invoiced, manual, about, up>>

Files == 1..MaxFiles
Idle == [pc |-> "idle", list |-> {}, file |-> 1, payment |-> CHOOSE p \in Payments : TRUE,
         version |-> 0, attended |-> FALSE]

Init ==
    /\ rows \in [Payments -> {<<>>, <<NewRow("created")>>}]
    /\ invoiced = {} /\ manual = {}
    /\ about = [f \in Files |-> "none"]
    /\ remote = {} /\ local = {}
    /\ fetch = [t \in Fetches |-> Idle]
    /\ up = TRUE
    /\ faults = MaxFaults

-----------------------------------------------------------------------------
(* Who makes, sends and deletes maksatukset.                               *)

others == <<about, remote, local, fetch, up, faults>>

\* POST /payments takes any status from its body.
Create(p) ==
    /\ rows[p] = <<>>
    /\ \E status \in Statuses :
         /\ rows' = [rows EXCEPT ![p] = <<NewRow(status)>>]
         /\ manual' = IF status = "paid" THEN manual \cup {p} ELSE manual
    /\ UNCHANGED <<invoiced, others>>

\* A new row from one that was unsent: with the era's id, 'sent', or 'paid'
\* by an official.  The row it is made from need not be open any more.
Update(p) ==
    /\ Len(rows[p]) < MaxRows /\ InsertFits(rows[p])
    /\ \E v \in Versions(rows[p]), status \in Statuses :
         /\ At(rows[p], v).status \in Unsent
         /\ status \in Unsent => status = At(rows[p], v).status
         /\ status = "sent" => p \in invoiced
         /\ rows' = [rows EXCEPT ![p] = UpdatePayment(@, v, status)]
         /\ manual' = IF status = "paid" THEN manual \cup {p} ELSE manual
    /\ UNCHANGED <<invoiced, others>>

Delete ==
    /\ \E deleted \in SUBSET Payments, statuses \in SUBSET Unsent :
         rows' = [p \in Payments |->
                    IF p \in deleted THEN DeleteRows(rows[p], statuses) ELSE rows[p]]
    /\ UNCHANGED <<invoiced, manual, others>>

InvoicesArrive ==
    \E sent \in SUBSET {p \in Payments : rows[p] # <<>>} : invoiced' = invoiced \cup sent

Invoice ==
    /\ InvoicesArrive
    /\ UNCHANGED <<rows, manual, others>>

Sender == Delete \/ Invoice \/ \E p \in Payments : Create(p) \/ Update(p)

\* Rondo answers an invoice, perhaps twice, or puts something else there.
Respond(f) ==
    /\ about[f] = "none"
    /\ \E subject \in invoiced \cup Junk : about' = [about EXCEPT ![f] = subject]
    /\ remote' = remote \cup {f}
    /\ UNCHANGED <<rows, invoiced, manual, local, fetch, up, faults>>

-----------------------------------------------------------------------------
(* A run of the job: get-statuses-of-payments in retry-job.                *)

Goto(t, pc) == fetch' = [fetch EXCEPT ![t].pc = pc]

\* An exception leaves the loop: the job sleeps and starts again, unless it
\* has stopped waiting for this run.
Thrown(t) ==
    IF fetch[t].attended THEN [Idle EXCEPT !.pc = "retry", !.attended = TRUE] ELSE Idle

Fails(t) ==
    /\ fetch' = [fetch EXCEPT ![t] = Thrown(t)]
    /\ UNCHANGED <<rows, remote, local, faults, sender>>

StartFetch(t) ==
    /\ up /\ fetch[t].pc = "idle"
    /\ fetch' = [fetch EXCEPT ![t] = [Idle EXCEPT !.pc = "list", !.attended = TRUE]]
    /\ UNCHANGED <<rows, remote, local, faults, sender>>

Retry(t) ==
    /\ fetch[t].pc = "retry"
    /\ Goto(t, "list")
    /\ UNCHANGED <<rows, remote, local, faults, sender>>

\* alt!! gives up on the run, which goes on.
TimesOut(t) ==
    /\ fetch[t].pc \notin {"idle", "retry"} /\ fetch[t].attended
    /\ fetch' = [fetch EXCEPT ![t].attended = FALSE]
    /\ UNCHANGED <<rows, remote, local, faults, sender>>

ListFiles(t) ==
    /\ fetch[t].pc = "list"
    /\ fetch' = [fetch EXCEPT ![t].pc = "get", ![t].list = remote]
    /\ UNCHANGED <<rows, remote, local, faults, sender>>

AllDone(t) ==
    /\ fetch[t].pc = "get" /\ fetch[t].list = {}
    /\ fetch' = [fetch EXCEPT ![t] = Idle]
    /\ UNCHANGED <<rows, remote, local, faults, sender>>

\* get-remote-file is outside the try.
GetFile(t) ==
    /\ fetch[t].pc = "get" /\ fetch[t].list # {}
    /\ LET f == Min(fetch[t].list) IN
       IF f \in remote
       THEN /\ fetch' = [fetch EXCEPT ![t].pc = "find", ![t].list = @ \ {f}, ![t].file = f]
            /\ local' = local \cup {f}
            /\ UNCHANGED <<rows, remote, faults, sender>>
       ELSE Fails(t)

\* find-payments-by-response: the open rows under the key of the response.
Found(subject) ==
    IF subject \in Payments
    THEN UNION {{q} \X OpenVersions(rows[q]) : q \in {p \in Payments : Key[p] = Key[subject]}}
    ELSE {}

FoundOne(subject, statuses) ==
    /\ Cardinality(Found(subject)) = 1
    /\ \A r \in Found(subject) : At(rows[r[1]], r[2]).status \in statuses

\* update-paymentstatus-by-response up to the update: "no-payment" and XML
\* that cannot be read, "already-paid", and what may be updated.
PassedOver(subject) ==
    \/ subject \in {"unknown", "unreadable"}
    \/ subject \in Payments /\ Found(subject) = {}

AlreadyPaid(subject) == FoundOne(subject, {"paid"})

\* Mutants of Payable: the status is not looked at, or only half of it.
PayableOnceMore(subject) == FoundOne(subject, {"sent", "paid"})
PayableUnsent(subject) == FoundOne(subject, Unsent \cup {"sent"})

Payable(subject) == FoundOne(subject, {"sent"})

\* Whatever else it throws ("multiple-payments", "paymentstatus-not-valid", a
\* reference that does not parse) has no clause in pop-remote-files.
Stuck(subject) == ~(PassedOver(subject) \/ AlreadyPaid(subject) \/ Payable(subject))

\* The other way to end every run: the number of the row to be inserted is
\* that of a deleted one.
Blocked(subject) ==
    \/ Stuck(subject)
    \/ Payable(subject) /\ \E r \in Found(subject) : ~InsertFits(rows[r[1]])

Subject(t) == about[fetch[t].file]

Reads(t) == fetch[t].pc = "find" /\ fetch[t].file \in local

\* Mutant of PassOver: the file is deleted.
PassOverAndDelete(t) ==
    /\ Reads(t) /\ PassedOver(Subject(t))
    /\ Goto(t, "drop")
    /\ UNCHANGED <<rows, remote, local, faults, sender>>

PassOver(t) ==
    /\ Reads(t) /\ PassedOver(Subject(t))
    /\ Goto(t, "get")
    /\ UNCHANGED <<rows, remote, local, faults, sender>>

\* Mutant of TakePaid: the file stays.
TakePaidAndKeep(t) ==
    /\ Reads(t) /\ AlreadyPaid(Subject(t))
    /\ Goto(t, "get")
    /\ UNCHANGED <<rows, remote, local, faults, sender>>

TakePaid(t) ==
    /\ Reads(t) /\ AlreadyPaid(Subject(t))
    /\ Goto(t, "drop")
    /\ UNCHANGED <<rows, remote, local, faults, sender>>

TakeSent(t) ==
    /\ Reads(t) /\ Payable(Subject(t))
    /\ \E r \in Found(Subject(t)) :
         fetch' = [fetch EXCEPT ![t].pc = "update", ![t].payment = r[1], ![t].version = r[2]]
    /\ UNCHANGED <<rows, remote, local, faults, sender>>

\* Another run may have deleted the local file.
ReadFails(t) ==
    /\ fetch[t].pc = "find"
    /\ fetch[t].file \notin local \/ Stuck(Subject(t))
    /\ Fails(t)

SetPaid(t) ==
    LET p == fetch[t].payment IN
    /\ fetch[t].pc = "update"
    /\ IF InsertFits(rows[p])
       THEN /\ rows' = [rows EXCEPT ![p] = UpdatePayment(@, fetch[t].version, "paid")]
            /\ Goto(t, "delete")
            /\ UNCHANGED <<remote, local, faults, sender>>
       ELSE Fails(t)

DeleteRemote(t) ==
    /\ fetch[t].pc \in {"delete", "drop"}
    /\ IF fetch[t].file \in remote
       THEN /\ remote' = remote \ {fetch[t].file}
            /\ Goto(t, IF fetch[t].pc = "delete" THEN "deleteLocal" ELSE "get")
            /\ UNCHANGED <<rows, local, faults, sender>>
       ELSE Fails(t)

DeleteLocal(t) ==
    /\ fetch[t].pc = "deleteLocal"
    /\ IF fetch[t].file \in local
       THEN /\ local' = local \ {fetch[t].file}
            /\ Goto(t, "get")
            /\ UNCHANGED <<rows, remote, faults, sender>>
       ELSE Fails(t)

\* The network or the database fails at any call.
Fault(t) ==
    /\ fetch[t].pc \notin {"idle", "retry"}
    /\ faults > 0 /\ faults' = faults - 1
    /\ fetch' = [fetch EXCEPT ![t] = Thrown(t)]
    /\ UNCHANGED <<rows, remote, local, sender>>

RunStep(t) ==
    \/ Retry(t) \/ ListFiles(t) \/ AllDone(t) \/ GetFile(t)
    \/ PassOver(t) \/ TakePaid(t) \/ TakeSent(t) \/ ReadFails(t)
    \/ SetPaid(t) \/ DeleteRemote(t) \/ DeleteLocal(t)

FetchStep(t) == StartFetch(t) \/ RunStep(t) \/ TimesOut(t) \/ Fault(t)

\* The next task runs in a new container, without the old one's files.  An
\* invoice on its way may still arrive.
Crash ==
    /\ up /\ up' = FALSE
    /\ faults > 0 /\ faults' = faults - 1
    /\ fetch' = [t \in Fetches |-> Idle]
    /\ local' = {}
    /\ InvoicesArrive
    /\ UNCHANGED <<rows, manual, about, remote>>

Restart ==
    /\ ~up /\ up' = TRUE
    /\ UNCHANGED <<rows, invoiced, manual, about, remote, local, fetch, faults>>

Next ==
    \/ Sender \/ Crash \/ Restart
    \/ \E f \in Files : Respond(f)
    \/ \E t \in Fetches : FetchStep(t)

Spec == Init /\ [][Next]_vars

\* Quartz fires every day, and a run that has begun goes on.
Fairness == WF_vars(Restart) /\ \A t \in Fetches : WF_vars(StartFetch(t)) /\ WF_vars(RunStep(t))
FairSpec == Spec /\ Fairness
-----------------------------------------------------------------------------
(* Properties.                                                             *)

PaidRows(h) == {i \in 1..Len(h) : h[i].status = "paid"}

\* The response to a maksatus is deleted only when a maksatus it names has been
\* marked as paid, whatever fails, overlaps or dies (pop-remote-files).
NoResponseLost ==
    \A f \in Files : about[f] \in Payments /\ f \notin remote =>
      \E p \in Payments : Key[p] = Key[about[f]] /\ PaidRows(rows[p]) # {}

\* A maksatus is paid only if Rondo has its invoice or an official said so, by
\* marking or making it as paid or by making it as 'sent': the response to a
\* deleted maksatus does not pay the unsent one that has taken its place
\* (update-paymentstatus-by-response).
PaidMeansInvoiced ==
    \A p \in Payments :
      PaidRows(rows[p]) # {} => p \in invoiced \cup manual \/ rows[p][1].status = "sent"

\* Responses mark a maksatus as paid at most once for every run under way.
PaidOncePerRun ==
    \A p \in Payments \ manual : Cardinality(PaidRows(rows[p])) <= Cardinality(Fetches)

\* A row that says 'paid' is in force for good: no later update, delete or
\* overlapping run closes or deletes it.
PaidStands ==
    [][\A p \in Payments : \A i \in PaidRows(rows[p]) : rows'[p][i] = rows[p][i]]_vars

\* A response is handled in the end, unless it or another one there is of a
\* kind that ends every run, or nobody is found for it (retry-job).
ResponsesAreHandled ==
    \A f \in Files :
      f \in remote ~> \/ f \notin remote \/ PassedOver(about[f])
                      \/ \E g \in remote : Blocked(about[g])
=============================================================================
