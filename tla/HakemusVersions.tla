-------------------------- MODULE HakemusVersions --------------------------
(***************************************************************************)
(* One hakemus and its answers, edited by several people at once.          *)
(*                                                                         *)
(* A hakemus is a history of rows (hakemukset, key (id, version)); its     *)
(* answers are a history of their own (form_submissions), and each hakemus *)
(* row names the version of the answers it shows.  A writer closes the     *)
(* open row and inserts a copy of it under the next version.  The          *)
(* autosave, the submit, the refusal's write and the status change each    *)
(* write in one repeatable-read transaction, which aborts when the rows it *)
(* writes have changed since it began: it is one step, or none.  The other *)
(* handlers read in one transaction and write in later ones, so anybody    *)
(* may come in between.                                                    *)
(***************************************************************************)
EXTENDS Naturals, Sequences

CONSTANTS
    Threads,      \* request threads
    MaxRequests,  \* bound: requests that start
    MaxDeaths     \* bound: requests that die between two transactions

ASSUME HakemusBounds == MaxRequests \in Nat /\ MaxDeaths \in Nat

VARIABLES
    hakemus,   \* the rows of the hakemus, version v at index v + 1
    answers,   \* the rows of its form submission, version v at index v + 1
    current,   \* is the avustushaku in phase "current"
    thread,    \* [Threads -> record], the requests
    budget     \* requests and deaths that may still happen

vars == <<hakemus, answers, current, thread, budget>>

Statuses == {"new", "draft", "submitted", "pending_change_request",
             "officer_edit", "applicant_edit", "cancelled"}

\* Mutant of OfficialStatuses: a status that the route's schema lets through too
\* and the enum of the database does not have.
AnyStatuses == Statuses \cup {"refused"}

\* The arviointi view asks for a few of these, the route takes any.
OfficialStatuses == Statuses

Submits == {"submit", "response", "officer", "applicant"}
Kinds == Submits \cup {"create", "update", "open", "verify", "refuse", "status",
                       "keskeyta"}

\* submitted = 0 stands for NULL: version 0 is never a submitted one.
\* by and seen are history: the handler that wrote the row, and the version of
\* the hakemus it had read.
HakemusRow ==
    [open : BOOLEAN, status : Statuses, form : Nat, submitted : Nat,
     refused : BOOLEAN, by : Kinds, seen : Nat]

Row(v) == hakemus[v + 1]
OpenAt(h) == CHOOSE i \in 1..Len(h) : h[i].open
OpenVersion == OpenAt(hakemus) - 1
OpenRow == Row(OpenVersion)
OpenForm == OpenAt(answers) - 1

\* Mutant of Visible: the query has lost its condition.
AlwaysVisible == TRUE

\* get-hakemus does not see a cancelled one.
Visible == OpenRow.status # "cancelled"

CloseOpen(h) == [i \in 1..Len(h) |-> [h[i] EXCEPT !.open = FALSE]]

\* Mutants of CopiedRow and AddVersion: the refusal is not among the copied
\* columns; the open row is not closed.
CopiedWithoutRefusal(by, seen) ==
    [OpenRow EXCEPT !.by = by, !.seen = seen, !.refused = FALSE]
AddWithoutClosing(row) == hakemus' = Append(hakemus, row)

\* create-new-hakemus-version: a copy of the open row, under the next version.
CopiedRow(by, seen) == [OpenRow EXCEPT !.by = by, !.seen = seen]
AddVersion(row) == hakemus' = Append(CloseOpen(hakemus), row)

\* update-submission! and update-submission-tx!
AddAnswers == answers' = Append(CloseOpen(answers), [open |-> TRUE])
NextForm == Len(answers)

\* submit-hakemus: new-update-status and set-submitted-version.
SubmittedRow(by, seen, form) ==
    [CopiedRow(by, seen) EXCEPT !.status = "submitted", !.form = form,
                                !.submitted = Len(hakemus)]

Idle == [pc |-> "idle", kind |-> "update", seen |-> 0, form |-> 0]

\* A hakemus as on-hakemus-create leaves it.
Init ==
    /\ hakemus = <<[open |-> TRUE, status |-> "new", form |-> 0, submitted |-> 0,
                    refused |-> FALSE, by |-> "create", seen |-> 0]>>
    /\ answers = <<[open |-> TRUE]>>
    /\ current = TRUE
    /\ thread = [t \in Threads |-> Idle]
    /\ budget = [requests |-> MaxRequests, deaths |-> MaxDeaths]

Spend(what) ==
    /\ budget[what] > 0
    /\ budget' = [budget EXCEPT ![what] = @ - 1]

Start(t, pc, kind, seen, form) ==
    /\ thread[t] = Idle
    /\ Spend("requests")
    /\ thread' = [thread EXCEPT ![t] =
                    [pc |-> pc, kind |-> kind, seen |-> seen, form |-> form]]
    /\ UNCHANGED <<hakemus, answers, current>>

At(t, pc, kinds) == thread[t].pc = pc /\ thread[t].kind \in kinds

Goto(t, pc) ==
    /\ thread' = [thread EXCEPT ![t].pc = pc]
    /\ UNCHANGED <<current, budget>>

Finish(t) ==
    /\ thread' = [thread EXCEPT ![t] = Idle]
    /\ UNCHANGED <<current, budget>>

-----------------------------------------------------------------------------
(* Saving answers.                                                         *)

\* An officer's edit needs the officer's token, which only these routes pass on.
Editable(kind, status) ==
    \/ status \in {"pending_change_request", "applicant_edit"}
    \/ status = "officer_edit" /\ kind \in {"update", "officer"}

\* can-update-hakemus, asked by the route in a transaction of its own.  The
\* client names a version it once got.
CanUpdate(t) ==
    \E kind \in Submits \cup {"update"}, base \in 0..(Len(hakemus) - 1) :
      /\ current \/ Editable(kind, OpenRow.status)
      /\ Start(t, "allowed", kind, base, 0)

\* Mutant of MaySave: a closed base version will do.
MaySaveOverAny(t) == current \/ Editable("update", Row(thread[t].seen).status)

\* on-hakemus-update: the row of the base version, and the phase as that row
\* allows it.
MaySave(t) ==
    LET row == Row(thread[t].seen) IN
    row.open /\ (current \/ Editable("update", row.status))

UpdateHakemus(t) ==
    /\ At(t, "allowed", {"update"})
    /\ MaySave(t)
    /\ AddAnswers
    /\ AddVersion([CopiedRow("update", thread[t].seen) EXCEPT !.form = NextForm])
    /\ Finish(t)

\* The base version of a submit must be the open one.
BaseIsOpen(t) == Visible /\ OpenVersion = thread[t].seen

SubmitHakemus(t) ==
    /\ At(t, "allowed", {"submit"})
    /\ current /\ BaseIsOpen(t)
    /\ AddAnswers
    /\ AddVersion(SubmittedRow("submit", thread[t].seen, NextForm))
    /\ Finish(t)

\* The three handlers that submit an edit read the hakemus first, ...
EditHandlers == {"response", "officer", "applicant"}

ReadForEdit(t) ==
    /\ At(t, "allowed", EditHandlers)
    /\ BaseIsOpen(t)
    /\ At(t, "allowed", {"response"}) =>
         current \/ OpenRow.status \in {"pending_change_request", "officer_edit",
                                        "applicant_edit"}
    /\ Goto(t, "answers")
    /\ UNCHANGED <<hakemus, answers>>

\* Mutant of WriteAnswers: the row is to name the answers read before.
WriteAnswersKeepForm(t) ==
    /\ At(t, "answers", EditHandlers)
    /\ AddAnswers
    /\ thread' = [thread EXCEPT ![t].pc = "row"]
    /\ UNCHANGED <<hakemus, current, budget>>

\* ... write the answers in a second transaction, ...
WriteAnswers(t) ==
    /\ At(t, "answers", EditHandlers)
    /\ AddAnswers
    /\ thread' = [thread EXCEPT ![t].pc = "row", ![t].form = NextForm]
    /\ UNCHANGED <<hakemus, current, budget>>

\* ... and the hakemus in a third, over whichever row is open by then.
SubmitEdit(t) ==
    /\ At(t, "row", EditHandlers)
    /\ AddVersion(SubmittedRow(thread[t].kind, thread[t].seen, thread[t].form))
    /\ Finish(t)
    /\ UNCHANGED answers

\* The conflict response, a phase that is over, or answers that do not
\* validate (which the model leaves open): nothing is written.
Refused(t) ==
    /\ thread[t].pc = "allowed"
    /\ Finish(t)
    /\ UNCHANGED <<hakemus, answers>>

-----------------------------------------------------------------------------
(* Handlers that read the hakemus and change its status later.             *)

\* on-hakemus-applicant-edit-open has no guard.
ReadToOpen(t) == Visible /\ Start(t, "row", "open", OpenVersion, OpenRow.form)

OpenApplicantEdit(t) ==
    /\ At(t, "row", {"open"})
    /\ AddVersion([CopiedRow("open", thread[t].seen)
                     EXCEPT !.status = "applicant_edit", !.form = thread[t].form])
    /\ Finish(t)
    /\ UNCHANGED answers

\* get-current-answers: the first GET of a new hakemus verifies it.  The open
\* answers are read after the hakemus.
ReadNew(t) ==
    OpenRow.status = "new" /\ Start(t, "form", "verify", OpenVersion, 0)

ReadOpenAnswers(t) ==
    /\ At(t, "form", {"verify"})
    /\ thread' = [thread EXCEPT ![t].pc = "row", ![t].form = OpenForm]
    /\ UNCHANGED <<hakemus, answers, current, budget>>

VerifyHakemus(t) ==
    /\ At(t, "row", {"verify"})
    /\ AddVersion([CopiedRow("verify", thread[t].seen)
                     EXCEPT !.status = "draft", !.form = thread[t].form])
    /\ Finish(t)
    /\ UNCHANGED answers

\* on-refuse-application: the version is compared in an earlier transaction.
ReadToRefuse(t) ==
    /\ Visible /\ ~OpenRow.refused
    /\ Start(t, "row", "refuse", OpenVersion, 0)

RefuseApplication(t) ==
    /\ At(t, "row", {"refuse"})
    /\ AddVersion([CopiedRow("refuse", thread[t].seen) EXCEPT !.refused = TRUE])
    /\ Finish(t)
    /\ UNCHANGED answers

\* POST status reads the hakemus, cancelled or not, and update-hakemus-status
\* writes the fields it read back, the version of the answers among them.
ReadToSetStatus(t) == Start(t, "row", "status", OpenVersion, OpenRow.form)

UpdateHakemusStatus(t) ==
    /\ At(t, "row", {"status"})
    /\ \E status \in OfficialStatuses :
         /\ AddVersion([CopiedRow("status", thread[t].seen)
                          EXCEPT !.status = status, !.form = thread[t].form])
         /\ IF status = "submitted" THEN Goto(t, "mark") ELSE Finish(t)
    /\ UNCHANGED answers

\* Mutant of UpdateSubmittedVersion: of the version the request had read.
MarkReadVersion(t) ==
    /\ At(t, "mark", {"status"})
    /\ hakemus' = [hakemus EXCEPT ![thread[t].seen + 1].submitted = thread[t].seen]
    /\ Finish(t)
    /\ UNCHANGED answers

\* update-submitted-hakemus-version, of whichever row is open by then.
UpdateSubmittedVersion(t) ==
    /\ At(t, "mark", {"status"})
    /\ hakemus' = [hakemus EXCEPT ![OpenAt(hakemus)].submitted = OpenVersion]
    /\ Finish(t)
    /\ UNCHANGED answers

\* PUT keskeyta-aloittamatta makes two versions in one transaction: refused or
\* not, then the flag (left out).
KeskeytaAloittamatta ==
    \E refused \in BOOLEAN :
      LET first == [CopiedRow("keskeyta", OpenVersion) EXCEPT !.refused = refused]
          second == [first EXCEPT !.seen = Len(hakemus)] IN
      /\ Spend("requests")
      /\ hakemus' = Append(CloseOpen(Append(CloseOpen(hakemus), first)), second)
      /\ UNCHANGED <<answers, current, thread>>

-----------------------------------------------------------------------------
\* A serialization failure, an exception or the end of the process between two
\* transactions of a request.
RequestDies(t) ==
    /\ thread[t] # Idle
    /\ Spend("deaths")
    /\ thread' = [thread EXCEPT ![t] = Idle]
    /\ UNCHANGED <<hakemus, answers, current>>

\* The application period ends.
PhaseEnds ==
    /\ current
    /\ current' = FALSE
    /\ UNCHANGED <<hakemus, answers, thread, budget>>

Request(t) ==
    \/ CanUpdate(t) \/ UpdateHakemus(t) \/ SubmitHakemus(t) \/ Refused(t)
    \/ ReadForEdit(t) \/ WriteAnswers(t) \/ SubmitEdit(t)
    \/ ReadToOpen(t) \/ OpenApplicantEdit(t)
    \/ ReadNew(t) \/ ReadOpenAnswers(t) \/ VerifyHakemus(t)
    \/ ReadToRefuse(t) \/ RefuseApplication(t)
    \/ ReadToSetStatus(t) \/ UpdateHakemusStatus(t) \/ UpdateSubmittedVersion(t)
    \/ RequestDies(t)

Next == PhaseEnds \/ KeskeytaAloittamatta \/ \E t \in Threads : Request(t)

Spec == Init /\ [][Next]_vars
-----------------------------------------------------------------------------
(* Properties.                                                             *)

\* Every variable keeps its type; a status is one the database's enum has.
TypeOK ==
    /\ hakemus \in Seq(HakemusRow)
    /\ answers \in Seq([open : BOOLEAN])
    /\ current \in BOOLEAN
    /\ thread \in [Threads -> [pc : {"idle", "allowed", "answers", "form", "row", "mark"},
                               kind : Kinds, seen : Nat, form : Nat]]
    /\ budget \in [{"requests", "deaths"} -> Nat]

LastIsOpen(h) == Len(h) > 0 /\ \A i \in 1..Len(h) : h[i].open <=> i = Len(h)

\* Of each history exactly the last row is open, whoever writes it: a reader
\* of "version_closed IS NULL" always gets one row (create-new-hakemus-version,
\* update-submission!).
OneOpenVersion == LastIsOpen(hakemus) /\ LastIsOpen(answers)

\* A version that was closed stays as it was: what a paatos was made of, or an
\* official has seen, cannot be rewritten later, not even by a write that was
\* delayed (update-submitted-hakemus-version).
ClosedIsFrozen ==
    [][\A i \in 1..Len(hakemus) :
         ~hakemus[i].open => i <= Len(hakemus') /\ hakemus'[i] = hakemus[i]]_vars

\* An accepted autosave or submit directly follows the version its client had:
\* nothing came in between unseen (on-hakemus-update, on-hakemus-submit).
SavesFollowWhatTheySaw ==
    \A v \in 1..(Len(hakemus) - 1) :
      Row(v).by \in {"update", "submit"} => Row(v).seen = v - 1

\* The hakemus goes back to older answers only by a handler that had read it
\* before its predecessor was written: with nobody in between, no sequence of
\* handlers, deaths included, loses saved answers.
AnswersLostOnlyByStaleHandler ==
    \A v \in 1..(Len(hakemus) - 1) :
      Row(v).form < Row(v - 1).form => Row(v).seen < v - 1

\* Row v revives a cancelled hakemus, or takes one back to being a draft.
StatusUndone(v) ==
    /\ Row(v).by # "status"
    /\ \/ Row(v - 1).status = "cancelled" /\ Row(v).status # "cancelled"
       \/ Row(v).status = "draft" /\ Row(v - 1).status \notin {"new", "draft"}

\* Likewise for what officials and submits decide: only a handler that had
\* read before it (or the official's own status change, which may set any)
\* revives a cancelled hakemus or makes a draft of one that was past being new.
StatusUndoneOnlyByStaleHandler ==
    \A v \in 1..(Len(hakemus) - 1) : StatusUndone(v) => Row(v).seen < v - 1

\* A refusal stands until an official undoes it: a save, edit or status change
\* that read the hakemus before the refusal does not wipe it out.
RefusalStands ==
    \A v \in 1..(Len(hakemus) - 1) :
      Row(v - 1).refused /\ ~Row(v).refused => Row(v).by = "keskeyta"
=============================================================================
