---------------------------- MODULE ApplicantForm ----------------------------
(***************************************************************************)
(* The applicant's form in the browser (FormStateTransitions.ts).          *)
(*                                                                         *)
(* The page holds the answers and the hakemus as the server last returned  *)
(* it.  An edit starts one of two debounced saves; a save posts all        *)
(* answers against the version the page knows, and the server refuses it   *)
(* when that is not the open version.  Nothing keeps two posts apart, a    *)
(* submit does not wait for the saves, and after a change of attachments   *)
(* the page reads the hakemus anew.  Every good answer is taken as the     *)
(* state of the server, in the order the answers come.                     *)
(*                                                                         *)
(* Answers are a value of a small set, so an applicant may type a thing    *)
(* and take it back.                                                       *)
(***************************************************************************)
EXTENDS Naturals, FiniteSets

CONSTANTS
    Values,     \* answers of the whole form
    Empty,      \* the answers of a new hakemus
    MaxEdits,   \* bound: what the applicant does
    MaxTroubles \* bound: requests that fail, or writes of others

ASSUME FormAssumption == Empty \in Values
ASSUME FormBounds == MaxEdits \in Nat /\ MaxTroubles \in Nat

VARIABLES
    values,   \* the answers of the page (saveStatus.values)
    typed,    \* history: the answers the applicant last gave
    savedObject,    \* version and status of the hakemus as last returned
    changes, saveInProgress, serverError,
    stored,   \* has LocalStorage the answers of this page
    timers,   \* the debounced saves that wait
    page,     \* "edit", "left" or "preview"
    requests, \* requests in flight
    server,   \* the open version of the hakemus
    closed,   \* does the server refuse edits (the avustushaku is not open)
    gaps,     \* history: what happened that no save of the page makes good
    budget

saveStatus == <<values, typed, savedObject, changes, saveInProgress, serverError>>
remote == <<server, closed>>
vars == <<saveStatus, stored, timers, page, requests, remote, gaps, budget>>

Debounced == {"autoSave", "autoSaveImmediate"}
Errors == {"unexpected-save-error", "unexpected-submit-error", "submit-validation-errors",
           "conflict-save-error"}

Init ==
    /\ values = Empty /\ typed = Empty
    /\ savedObject = [version |-> 0, status |-> "draft"]
    /\ changes = FALSE /\ saveInProgress = FALSE /\ serverError = ""
    /\ stored = FALSE /\ timers = {} /\ page = "edit" /\ requests = {}
    /\ server = [version |-> 0, status |-> "draft", values |-> Empty] /\ closed = FALSE
    /\ gaps = {} /\ budget = [edits |-> MaxEdits, troubles |-> MaxTroubles]

Spend(what) == budget[what] > 0 /\ budget' = [budget EXCEPT ![what] = @ - 1]

\* Two posts may be alike: the number, which has no counterpart in the code, keeps
\* them apart in the set.
Request(kind, version, content) ==
    [kind |-> kind, base |-> version, content |-> content, reply |-> <<>>,
     id |-> CHOOSE i \in 1..Cardinality(requests) + 1 : \A q \in requests : q.id # i]

\* What the page waits for before it knows what the server has.
Posts == {q \in requests : q.kind \in {"autoSave", "submit"}}
-----------------------------------------------------------------------------
(* The two debounced saves.  isSaveDraftAllowed: the page has a hakemus.   *)

\* Mutant of startAutoSave: it shows that it saves, without the timer.
StartWithoutTimer == saveInProgress' = TRUE /\ UNCHANGED timers

startAutoSave ==
    /\ saveInProgress' = TRUE
    /\ timers' = timers \cup {"autoSave"}

saveImmediately ==
    /\ saveInProgress' = TRUE
    /\ timers' = {"autoSaveImmediate"}

Edit(v) ==
    /\ page = "edit" /\ Spend("edits") /\ v # values
    /\ values' = v /\ typed' = v /\ changes' = TRUE
    /\ UNCHANGED <<savedObject, serverError, page, requests, remote, gaps>>

\* A text field waits for the autosave, any other is saved at once.
onUpdateField(v) ==
    /\ Edit(v)
    /\ stored' = TRUE
    /\ startAutoSave \/ saveImmediately

\* Removing a row of a growing field set does not reach LocalStorage.
onRemoveField(v) == Edit(v) /\ startAutoSave /\ UNCHANGED stored

\* updateOld: the answers of now against the version the page knows.
Post(kind) ==
    /\ requests' = requests \cup {Request(kind, savedObject.version, values)}
    /\ saveInProgress' = TRUE

\* A timer fires.  Without changes nothing is posted.
onSave(timer) ==
    /\ page = "edit" /\ timer \in timers
    /\ timers' = timers \ {timer}
    /\ IF changes THEN Post("autoSave") ELSE UNCHANGED <<requests, saveInProgress>>
    /\ UNCHANGED <<values, typed, savedObject, changes, serverError, stored, page, remote, gaps,
                   budget>>

\* The button is disabled while there are changes or a save in progress, and
\* once submitted.
onSubmit ==
    /\ page = "edit" /\ Spend("edits")
    /\ ~changes /\ ~saveInProgress /\ savedObject.status # "submitted"
    /\ Post("submit")
    /\ UNCHANGED <<values, typed, savedObject, changes, serverError, stored, timers, page,
                   remote, gaps>>

\* An attachment is uploaded or removed.
onAttachment ==
    /\ page = "edit" /\ Spend("edits")
    /\ requests' = requests \cup {Request("attachment", savedObject.version, values)}
    /\ UNCHANGED <<saveStatus, stored, timers, page, remote, gaps>>

\* The window is closed or goes elsewhere: the last save is posted, and nobody
\* is there for its answer.  (When the unload is cancelled and there was nothing to
\* post, the handler has returned no state and no later one finds any: that page
\* counts as left, too.)
onBeforeUnload ==
    /\ page = "edit" /\ Spend("edits")
    /\ IF changes THEN Post("autoSave") ELSE UNCHANGED <<requests, saveInProgress>>
    /\ page' = "left" /\ timers' = {}
    /\ gaps' = IF requests = {} THEN gaps ELSE gaps \cup {"left-busy"}
    /\ UNCHANGED <<values, typed, savedObject, changes, serverError, stored, remote>>

\* The browser asks whether to leave, and the applicant stays.
UnloadCancelled ==
    /\ page = "edit" /\ Spend("edits") /\ changes
    /\ Post("autoSave")
    /\ UNCHANGED <<values, typed, savedObject, changes, serverError, stored, timers, page,
                   remote, gaps>>
-----------------------------------------------------------------------------
(* The server, as the page uses it: one transaction per request.  (That a  *)
(* refresh reads the hakemus and its answers one after the other, and the  *)
(* submits of an edit that a token allows, are left out.  A transaction    *)
(* that fails to serialize is a 500, hence one of Fails.)                  *)

Answered(q, reply) == requests' = (requests \ {q}) \cup {[q EXCEPT !.reply = reply]}
Ok(s) == [status |-> 200, hakemus |-> s]
Refused(code) == [status |-> code, hakemus |-> server]

\* An update keeps the status of the hakemus, a submit changes it.
Write(q) ==
    /\ server' = [version |-> server.version + 1, values |-> q.content,
                  status |-> IF q.kind = "submit" THEN "submitted" ELSE server.status]
    /\ Answered(q, Ok(server'))

Handled(q) ==
    /\ q.reply = <<>>
    /\ \/ q \notin Posts /\ Answered(q, Ok(server)) /\ UNCHANGED server
       \/ q \in Posts /\ ~closed /\ q.base = server.version /\ Write(q)
       \/ /\ q \in Posts /\ (closed \/ q.base # server.version)
          /\ Answered(q, Refused(IF closed THEN 405 ELSE 409)) /\ UNCHANGED server
    /\ UNCHANGED <<saveStatus, stored, timers, page, closed, gaps, budget>>

\* The avustushaku closes, or somebody else writes the hakemus.  Only a request
\* that is handled can tell, so it is enough that it happens while one waits.
Other ==
    /\ page = "edit" /\ Spend("troubles") /\ \E q \in requests : q.reply = <<>>
    /\ \/ /\ \E q \in Posts : q.reply = <<>>
          /\ closed' = TRUE /\ UNCHANGED server
       \/ /\ \E v \in Values \ {server.values} :
               server' = [server EXCEPT !.version = @ + 1, !.values = v]
          /\ UNCHANGED closed
    /\ gaps' = gaps \cup {"others"}
    /\ UNCHANGED <<saveStatus, stored, timers, page, requests>>
-----------------------------------------------------------------------------
(* Answers.                                                                *)

Arrives(q) == q.reply # <<>> /\ page = "edit" /\ requests' = requests \ {q}

\* Mutant of Differs: an answer means that all is saved.
NeverDiffers(told) == FALSE

Differs(told) == values # told.values

\* Mutants of Known: the page keeps the version it had, or counts its own saves.
KnownBefore(told) == savedObject

KnownAhead(told) == [version |-> told.version + 1, status |-> told.status]

Known(told) == [version |-> told.version, status |-> told.status]

\* A good answer is what the server has: the page compares its answers with it
\* and saves them again when they differ.
onSaveCompleted(q) ==
    LET told == q.reply.hakemus IN
    /\ Arrives(q) /\ q.kind # "attachment" /\ q.reply.status = 200
    /\ changes' = Differs(told)
    /\ savedObject' = Known(told)
    /\ serverError' = ""
    /\ IF changes' THEN startAutoSave ELSE saveInProgress' = FALSE /\ UNCHANGED timers
    /\ values' = IF stored THEN values ELSE told.values
    /\ stored' = TRUE
    /\ gaps' = gaps \cup (IF told.version < savedObject.version THEN {"overtaken"} ELSE {})
                    \cup (IF values' # values THEN {"undone"} ELSE {})
    /\ UNCHANGED <<typed, page, remote, budget>>

\* The file name becomes the value of the field, and the hakemus is read anew:
\* only its answer marks the page as changed.
onAttachmentCompleted(q, v) ==
    /\ q.kind = "attachment" /\ q.reply # <<>> /\ page = "edit"
    /\ values' = v /\ typed' = v /\ stored' = TRUE
    /\ requests' = (requests \ {q}) \cup {Request("refresh", 0, values)}
    /\ UNCHANGED <<savedObject, changes, saveInProgress, serverError, timers, page, remote,
                   gaps, budget>>

\* onServerError: 405 takes the applicant to the preview, 409 and 400 are shown.
SaveRefused(q) ==
    /\ Arrives(q) /\ q.reply.status \in {405, 409}
    /\ IF q.reply.status = 405
       THEN page' = "preview" /\ timers' = {} /\ UNCHANGED <<saveInProgress, serverError>>
       ELSE /\ saveInProgress' = FALSE /\ serverError' = "conflict-save-error"
            /\ UNCHANGED <<page, timers>>
    /\ UNCHANGED <<values, typed, savedObject, changes, stored, remote, gaps, budget>>

Invalid(q) ==
    /\ q \in Posts /\ q.reply = <<>> /\ page = "edit" /\ Spend("troubles")
    /\ requests' = requests \ {q}
    /\ saveInProgress' = FALSE /\ serverError' = "submit-validation-errors"
    /\ UNCHANGED <<values, typed, savedObject, changes, stored, timers, page, remote, gaps>>

\* No answer, before or after the server handled the request.  An autosave is
\* tried again; nobody handles a failing refresh, and an alert tells of a
\* failing attachment.
Fails(q) ==
    /\ page = "edit" /\ Spend("troubles")
    /\ requests' = requests \ {q}
    /\ CASE q.kind = "autoSave" -> serverError' = "unexpected-save-error" /\ startAutoSave
         [] q.kind = "submit" -> /\ serverError' = "unexpected-submit-error"
                                 /\ saveInProgress' = FALSE /\ UNCHANGED timers
         [] OTHER -> UNCHANGED <<serverError, saveInProgress, timers>>
    /\ gaps' = gaps \cup (IF q.kind = "refresh" THEN {"refresh-lost"} ELSE {})
                    \cup (IF q \in Posts /\ q.reply # <<>> THEN {"answer-lost"} ELSE {})
    /\ UNCHANGED <<values, typed, savedObject, changes, stored, page, remote>>

\* Nobody takes the answers for a page that was left, and what was not handled
\* may never be.
Dropped(q) ==
    /\ page # "edit" /\ requests' = requests \ {q}
    /\ \/ q.reply # <<>> /\ UNCHANGED <<gaps, budget>>
       \/ q.reply = <<>> /\ Spend("troubles") /\ gaps' = gaps \cup {"dropped"}
    /\ UNCHANGED <<saveStatus, stored, timers, page, remote>>
-----------------------------------------------------------------------------
Applicant ==
    \/ \E v \in Values : onUpdateField(v) \/ onRemoveField(v)
    \/ onSubmit \/ onAttachment \/ onBeforeUnload \/ UnloadCancelled

Answer(q) ==
    \/ onSaveCompleted(q) \/ SaveRefused(q) \/ Dropped(q)
    \/ \E v \in Values : onAttachmentCompleted(q, v)

Next ==
    \/ Applicant \/ Other
    \/ \E timer \in Debounced : onSave(timer)
    \/ \E q \in requests : Handled(q) \/ Answer(q) \/ Invalid(q) \/ Fails(q)

Spec == Init /\ [][Next]_vars

\* Timers fire, and requests are answered or fail.
Fairness ==
    /\ \A timer \in Debounced : WF_vars(onSave(timer))
    /\ WF_vars(\E q \in requests : Handled(q) \/ Answer(q) \/ Invalid(q) \/ Fails(q))

FairSpec == Spec /\ Fairness
-----------------------------------------------------------------------------
(* Properties.                                                             *)

Statuses == {"draft", "submitted"}
Hakemus == [version : Nat, status : Statuses]
State == [version : Nat, status : Statuses, values : Values]
Reply == [status : {200, 405, 409}, hakemus : State]
RequestType ==
    [kind : {"autoSave", "submit", "attachment", "refresh"}, base : Nat, content : Values,
     reply : Reply \cup {<<>>}, id : Nat]
Gaps == {"left-busy", "others", "overtaken", "undone", "refresh-lost", "answer-lost", "dropped"}

\* Every variable keeps its type, and nobody names a version that the server has
\* not made: not the page, not a post, not an answer (the version comes from the
\* answers only, so that a save is never refused for being ahead).
TypeOK ==
    /\ values \in Values /\ typed \in Values
    /\ savedObject \in Hakemus /\ savedObject.version <= server.version
    /\ changes \in BOOLEAN /\ saveInProgress \in BOOLEAN
    /\ serverError \in Errors \cup {""}
    /\ stored \in BOOLEAN /\ timers \subseteq Debounced
    /\ page \in {"edit", "left", "preview"}
    /\ requests \subseteq RequestType
    /\ \A q \in requests :
         /\ q.base <= server.version
         /\ q.reply # <<>> => q.reply.hakemus.version <= server.version
    /\ server \in State /\ closed \in BOOLEAN
    /\ gaps \subseteq Gaps /\ budget \in [{"edits", "troubles"} -> Nat]

\* A save is on its way, or one more will be started by an answer or a timer.
SaveIsComing == (changes /\ timers # {}) \/ requests # {}

\* What the applicant typed is on the server, will be posted, or an error is
\* shown, also after leaving the page: edits made while a post is in flight,
\* typed back, or made while posts overlap are not forgotten.  The gaps are
\* the cases the code leaves open.
EditsAreKept ==
    typed = server.values \/ SaveIsComing \/ serverError # "" \/ gaps # {}

\* When all is quiet, the page knows the open version, or its next save is
\* refused: own posts that overlap do not leave it behind, unless an answer got
\* lost or a refresh that was overtaken brought an old version back.
KnownVersion ==
    page = "edit" /\ requests = {} =>
        savedObject.version = server.version \/ gaps \cap {"others", "answer-lost", "overtaken"} # {}

\* The form says "Tallennetaan..." (and keeps the submit button disabled) only
\* while a save waits or is being posted.
SavingIsTrue == page = "edit" /\ saveInProgress => timers # {} \/ requests # {}

\* An edit is saved in the end or the applicant is shown an error, whatever was
\* in flight when it was made; an autosave that fails is tried again.
EditsGetSaved ==
    typed # server.values ~> typed = server.values \/ serverError # "" \/ gaps # {}
=============================================================================
