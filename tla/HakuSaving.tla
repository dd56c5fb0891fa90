----------------------------- MODULE HakuSaving -----------------------------
(***************************************************************************)
(* Editing avustushaut in the officials' browser (hakuReducer.ts).         *)
(*                                                                         *)
(* The fields of a haku are saved by a queue (hakuSaveQueue.ts): edits     *)
(* wait for a timer, one save of a haku runs at a time, and a response     *)
(* counts only if nothing was scheduled since.  Projects, talousarviotilit *)
(* and own actions of a page post at once.  A role row waits for one       *)
(* debounce that all rows share, or for the timer of an immediate save.    *)
(* Everything reports to one save status, out of which the header says     *)
(* "Tallennetaan", an error or "Kaikki tiedot tallennettu".                *)
(*                                                                         *)
(* Documents are edit numbers, drawn from one counter.  Callbacks run one  *)
(* at a time; requests and timers interleave as they please.               *)
(***************************************************************************)
EXTENDS Naturals, FiniteSets

CONSTANTS
    Hakus,
    MaxEdits,    \* bound: actions of the user
    MaxFaults,   \* bound: requests that fail
    MaxSetBacks  \* bound: times the clock is set back past a deadline

ASSUME HakuAssumption == IsFiniteSet(Hakus) /\ Hakus # {}
ASSUME HakuBounds == MaxEdits \in Nat /\ MaxFaults \in Nat /\ MaxSetBacks \in Nat

\* Of the role rows of a haku, one is the vastuuvalmistelija's; members is who
\* has a row at all.
RoleRows == {"vastuuvalmistelija", "other"}
Parts == {"haku", "projects", "tilit", "own", "members"} \cup RoleRows
Docs == Parts \X Hakus

\* What role rows wait for.
Timers == {"debounced", "immediate"}

\* The flags of the save status, and which part raises which.
Flags == {"saveInProgress", "savingProjects", "savingTalousarviotilit",
          "savingManually", "savingRoles"}
FlagOf == [p \in Parts |->
    CASE p = "haku" -> "saveInProgress" [] p = "projects" -> "savingProjects"
      [] p = "tilit" -> "savingTalousarviotilit" [] p = "own" -> "savingManually"
      [] OTHER -> "savingRoles"]

VARIABLES
    local,      \* [Docs -> Nat], what the page shows
    shared,     \* [RoleRows \X Hakus -> Nat], the rows as the store has them
    server,     \* [Docs -> Nat]
    edits,      \* the edit counter
    queue,      \* [Hakus -> record], the save queue
    revisions,  \* [Hakus -> Nat], saves scheduled so far
    pendingHakuSaves, \* [Hakus -> Nat], the revision still to be saved, or 0
    hakuSaveErrors,   \* hakus whose last save failed
    roleTimer,  \* [Timers -> the row that waits], of all hakus together
    requests,   \* requests in flight
    saving,     \* the flags that are up
    saveTime,   \* is there a time of the last save
    serverError, \* "", or what the header says went wrong
    load,       \* is a haku being loaded, and did the last load fail
    gaps,       \* history: documents that met a known gap
    budget      \* what may still go wrong

status == <<saving, saveTime, serverError>>
documents == <<local, shared, server, edits>>
saves == <<queue, revisions, pendingHakuSaves, hakuSaveErrors>>
vars == <<documents, saves, roleTimer, requests, status, load, gaps, budget>>

NoSave == [rev |-> 0, delay |-> "later", due |-> FALSE]
NoRow == [doc |-> <<>>, value |-> 0, brings |-> {}]
NoReply == [d \in {} |-> 0]
Idle == [running |-> FALSE, pending |-> NoSave, timer |-> FALSE]

\* A haku may have no projects yet: their edit number is then 0.
Init ==
    /\ \E bare \in SUBSET Hakus :
         local = [d \in Docs |-> IF d[1] = "projects" /\ d[2] \notin bare THEN 1 ELSE 0]
    /\ shared = [d \in RoleRows \X Hakus |-> 0] /\ server = local /\ edits = 1
    /\ queue = [h \in Hakus |-> Idle]
    /\ revisions = [h \in Hakus |-> 0]
    /\ pendingHakuSaves = [h \in Hakus |-> 0]
    /\ hakuSaveErrors = {}
    /\ roleTimer = [kind \in Timers |-> NoRow]
    /\ requests = {}
    /\ saving = {} /\ saveTime = FALSE /\ serverError = ""
    /\ load = [loading |-> FALSE, error |-> FALSE]
    /\ gaps = {}
    /\ budget = [faults |-> MaxFaults, setBacks |-> MaxSetBacks]

Spend(what) == budget[what] > 0 /\ budget' = [budget EXCEPT ![what] = @ - 1]
NewEdit == edits <= MaxEdits /\ edits' = edits + 1

-----------------------------------------------------------------------------
(* The save status.                                                        *)

startSaving(flag) ==
    /\ saving' = saving \cup {flag}
    /\ saveTime' = FALSE

\* What is left of the errors: those of hakus only.
saveSuccess(flag, errors) ==
    /\ saving' = saving \ {flag}
    /\ saveTime' = TRUE
    /\ serverError' = IF errors # {} THEN "error" ELSE ""

saveFailure(flag) ==
    /\ saving' = saving \ {flag}
    /\ serverError' = "error"
    /\ UNCHANGED saveTime

-----------------------------------------------------------------------------
(* Requests.                                                               *)

\* The lists of a haku that a response may bring along.
RoleLists == RoleRows \cup {"members"}
AllLists == RoleLists \cup {"projects", "tilit"}

Request(part, h, value, rev, brings) ==
    [part |-> part, haku |-> h, value |-> value, rev |-> rev, brings |-> brings,
     stage |-> "sent", reply |-> NoReply]

\* The documents a response brings along.
Replied(q) == q.brings \X {q.haku}

Touches(q) == Replied(q) \cup ({<<q.part, q.haku>>} \cap Docs)

\* Role rows that wait for a timer, and documents being posted under a flag.
Timed(kinds) == {roleTimer[k].doc : k \in kinds} \ {<<>>}
Posted(flag) ==
    {<<q.part, q.haku>> : q \in {p \in requests : p.part \in Parts \ {"haku"} /\ FlagOf[p.part] = flag}}

\* A flag other than the hakus' is no count: the first answer lowers it for all
\* that are saved under it.  And lists on their way will replace what is edited.
Clash(d, kinds) ==
    LET others == Posted(FlagOf[d[1]]) \cup Timed(kinds) IN
    (IF others = {} THEN {} ELSE others \cup {d})
      \cup ({d} \cap UNION {Replied(q) : q \in requests})

Send(q) == requests' = requests \cup {q}

\* The server handles a request.  The lists a response brings are read after.
Handled(q) ==
    /\ q.stage = "sent"
    /\ server' = [d \in Docs |-> IF d = <<q.part, q.haku>> THEN q.value ELSE server[d]]
    /\ requests' = (requests \ {q}) \cup
         {[q EXCEPT !.stage = "handled", !.reply = [d \in Replied(q) |-> server'[d]]]}
    /\ UNCHANGED <<local, shared, edits, saves, roleTimer, status, load, gaps, budget>>

-----------------------------------------------------------------------------
(* The save queue of one haku.                                             *)

\* Mutant of Ready: a save starts while another one runs.
ReadyAnyway(s) == s.pending # NoSave /\ s.pending.due

Ready(s) == ~s.running /\ s.pending # NoSave /\ s.pending.due

\* The save reads the haku when it runs, not when it was scheduled.
SaveOf(h, s) ==
    IF Ready(s) THEN {Request("haku", h, local[<<"haku", h>>], s.pending.rev, {})} ELSE {}

runReadySave(s) == IF Ready(s) THEN [s EXCEPT !.running = TRUE, !.pending = NoSave] ELSE s

\* Mutant of afterSave: the haku leaves the queue whatever was scheduled.
LeaveQueue(s) == Idle

\* The haku leaves the queue, with any timer that has nothing to do any more,
\* unless edits were scheduled meanwhile.
afterSave(s) == IF s.pending = NoSave THEN Idle ELSE [s EXCEPT !.running = FALSE]

\* A normal edit takes the deadline of an immediate save that is waiting.
schedule(h, delay) ==
    LET rev == revisions[h] + 1
        waiting == queue[h].pending
        kept == waiting # NoSave /\ waiting.delay = "soon" /\ delay = "later"
    IN
    /\ revisions' = [revisions EXCEPT ![h] = rev]
    /\ pendingHakuSaves' = [pendingHakuSaves EXCEPT ![h] = rev]
    /\ queue' = [queue EXCEPT ![h].timer = TRUE,
                   ![h].pending = IF kept THEN [waiting EXCEPT !.rev = rev]
                                  ELSE [rev |-> rev, delay |-> delay, due |-> FALSE]]
    /\ UNCHANGED hakuSaveErrors

\* The deadline of a waiting save passes.
DeadlinePasses(h) ==
    /\ queue[h].pending # NoSave /\ ~queue[h].pending.due
    /\ queue' = [queue EXCEPT ![h].pending.due = TRUE]
    /\ UNCHANGED <<documents, revisions, pendingHakuSaves, hakuSaveErrors, roleTimer, requests,
                   status, load, gaps, budget>>

\* The timer runs by another clock than the deadline: when the clock of the
\* machine was set back, nothing is ready, and the timer is gone.
TimerFires(h) ==
    LET s == [queue[h] EXCEPT !.timer = FALSE] IN
    /\ queue[h].timer
    /\ \/ queue[h].pending.due /\ UNCHANGED budget
       \/ queue[h].pending = NoSave /\ UNCHANGED budget
       \/ queue[h].pending # NoSave /\ ~queue[h].pending.due /\ Spend("setBacks")
    /\ queue' = [queue EXCEPT ![h] = runReadySave(s)]
    /\ requests' = requests \cup SaveOf(h, s)
    /\ UNCHANGED <<documents, revisions, pendingHakuSaves, hakuSaveErrors, roleTimer, status,
                   load, gaps>>

-----------------------------------------------------------------------------
(* What the user does.                                                     *)

\* A field is read from the store, changed and written back in one step.
updateField(h, delay) ==
    /\ NewEdit
    /\ local' = [local EXCEPT ![<<"haku", h>>] = edits + 1]
    /\ schedule(h, delay)
    /\ startSaving("saveInProgress") /\ UNCHANGED serverError
    /\ UNCHANGED <<shared, server, roleTimer, requests, load, gaps, budget>>

\* Projects are posted at once, and schedule a save of the haku too.
updateProjects(h) ==
    /\ NewEdit
    /\ local' = [local EXCEPT ![<<"projects", h>>] = edits + 1]
    /\ Send(Request("projects", h, edits + 1, 0, {}))
    /\ gaps' = gaps \cup Clash(<<"projects", h>>, {})
    /\ schedule(h, "later")
    /\ saving' = saving \cup {"savingProjects", "saveInProgress"} /\ saveTime' = FALSE
    /\ UNCHANGED <<shared, server, roleTimer, serverError, load, budget>>

\* The selects are disabled while anything is being saved.
replaceTalousarviotilit(h) ==
    /\ NewEdit /\ saving = {}
    /\ local' = [local EXCEPT ![<<"tilit", h>>] = edits + 1]
    /\ Send(Request("tilit", h, edits + 1, 0, {}))
    /\ gaps' = gaps \cup Clash(<<"tilit", h>>, {})
    /\ startSaving("savingTalousarviotilit")
    /\ UNCHANGED <<shared, server, saves, roleTimer, serverError, load, budget>>

\* An own action of a page: lainsaadanto, raportointivelvoitteet, maksatukset.
startManuallySaving(h) ==
    /\ NewEdit
    /\ local' = [local EXCEPT ![<<"own", h>>] = edits + 1]
    /\ Send(Request("own", h, edits + 1, 0, {}))
    /\ gaps' = gaps \cup Clash(<<"own", h>>, {})
    /\ startSaving("savingManually")
    /\ UNCHANGED <<shared, server, saves, roleTimer, serverError, load, budget>>

\* createHakuRole and deleteRole: the row comes or goes with the answer.
changeMembers(h) ==
    /\ NewEdit
    /\ Send(Request("members", h, edits + 1, 0, RoleLists))
    /\ gaps' = gaps \cup Clash(<<"members", h>>, Timers)
    /\ startSaving("savingRoles")
    /\ UNCHANGED <<local, shared, server, saves, roleTimer, serverError, load, budget>>

\* Typing into a row.  The debounce keeps the last call, whichever row's it is.
debouncedSaveRole(r, h) ==
    LET d == <<r, h>>
        dropped == Timed({"debounced"}) \ {d}
    IN
    /\ NewEdit
    /\ local' = [local EXCEPT ![d] = edits + 1]
    /\ roleTimer' = [roleTimer EXCEPT !["debounced"] =
                       [doc |-> d, value |-> edits + 1,
                        brings |-> IF r = "vastuuvalmistelija" THEN RoleLists ELSE {}]]
    /\ startSaving("savingRoles")
    /\ gaps' = gaps \cup dropped \cup Clash(d, {"immediate"})
    /\ UNCHANGED <<shared, server, saves, requests, serverError, load, budget>>

\* Choosing the type of a row cancels the debounce and the immediate save of
\* any other row.  The list comes back if it became the vastuuvalmistelija.
saveRoleImmediately(h) ==
    LET d == <<"other", h>>
        dropped == Timed(Timers) \ {d}
    IN
    /\ NewEdit
    /\ local' = [local EXCEPT ![d] = edits + 1]
    /\ \E brings \in {RoleLists, {}} :
         roleTimer' = [kind \in Timers |->
             IF kind = "debounced" THEN NoRow
             ELSE [doc |-> d, value |-> edits + 1, brings |-> brings]]
    /\ startSaving("savingRoles")
    /\ gaps' = gaps \cup dropped \cup Clash(d, {})
    /\ UNCHANGED <<shared, server, saves, requests, serverError, load, budget>>

\* Typing a row back to what the store has dispatches nothing.
retypeRole(r, h) ==
    LET d == <<r, h>> IN
    /\ NewEdit /\ local[d] # shared[d]
    /\ local' = [local EXCEPT ![d] = shared[d]]
    /\ gaps' = gaps \cup {d}
    /\ UNCHANGED <<shared, server, saves, roleTimer, requests, status, load, budget>>

\* Every load is a request of its own: the value only tells them apart.
selectHaku(h) ==
    /\ NewEdit
    /\ Send(Request("load", h, edits + 1, 0, AllLists))
    /\ gaps' = gaps \cup ((AllLists \X {h}) \cap
                             (Timed(Timers) \cup UNION {Posted(flag) : flag \in Flags}))
    /\ load' = [load EXCEPT !.loading = TRUE]
    /\ UNCHANGED <<local, shared, server, saves, roleTimer, status, budget>>

callSaveRole(kind) ==
    LET row == roleTimer[kind] IN
    /\ row # NoRow
    /\ roleTimer' = [roleTimer EXCEPT ![kind] = NoRow]
    /\ Send(Request(row.doc[1], row.doc[2], row.value, 0, row.brings))
    /\ gaps' = gaps \cup Clash(row.doc, Timers \ {kind})
    /\ UNCHANGED <<documents, saves, status, load, budget>>

-----------------------------------------------------------------------------
(* Responses.  A save of the queue is followed by the next one at once.    *)

\* The next save of the haku starts in the same turn of the event loop.
NextSave(q) ==
    LET s == afterSave(queue[q.haku]) IN
    /\ queue' = [queue EXCEPT ![q.haku] = runReadySave(s)]
    /\ requests' = (requests \ {q}) \cup SaveOf(q.haku, s)
    /\ UNCHANGED revisions

\* Mutant of Awaited: any response counts.
AwaitedAlways(q) == TRUE

Awaited(q) == pendingHakuSaves[q.haku] = q.rev

\* A response must not replace edits scheduled while its request was in flight.
haku_fulfilled(q) ==
    IF Awaited(q)
    THEN /\ pendingHakuSaves' = [pendingHakuSaves EXCEPT ![q.haku] = 0]
         /\ hakuSaveErrors' = hakuSaveErrors \ {q.haku}
         /\ saving' = IF \E h \in Hakus : pendingHakuSaves'[h] # 0 THEN saving
                      ELSE saving \ {"saveInProgress"}
         /\ saveTime' = TRUE
         /\ serverError' = IF local[<<"projects", q.haku>>] = 0 THEN "validation-error"
                           ELSE IF hakuSaveErrors' # {} THEN "error" ELSE ""
    ELSE UNCHANGED <<pendingHakuSaves, hakuSaveErrors, status>>

haku_rejected(q) ==
    IF Awaited(q)
    THEN /\ pendingHakuSaves' = [pendingHakuSaves EXCEPT ![q.haku] = 0]
         /\ hakuSaveErrors' = hakuSaveErrors \cup {q.haku}
         /\ saving' = IF \E h \in Hakus : pendingHakuSaves'[h] # 0 THEN saving
                      ELSE saving \ {"saveInProgress"}
         /\ saveTime' = FALSE
         /\ serverError' = "error"
    ELSE UNCHANGED <<pendingHakuSaves, hakuSaveErrors, status>>

\* Only the answer to the latest update of projects counts.
Superseded(q) == q.part = "projects" /\ \E h \in Hakus : local[<<"projects", h>>] > q.value

HakuSaved(q) ==
    /\ q.part = "haku" /\ q.stage = "handled"
    /\ haku_fulfilled(q)
    /\ NextSave(q)
    /\ UNCHANGED <<documents, roleTimer, load, gaps, budget>>

\* The lists that came along replace those of the page, edited rows included.
Brought(q, old) ==
    [d \in DOMAIN old |-> IF d \in DOMAIN q.reply THEN q.reply[d] ELSE old[d]]

PartSaved(q) ==
    /\ q.part \notin {"haku", "load"} /\ q.stage = "handled"
    /\ requests' = requests \ {q}
    /\ local' = Brought(q, local)
    /\ shared' = Brought(q, shared)
    /\ IF Superseded(q) THEN UNCHANGED status
       ELSE saveSuccess(FlagOf[q.part], hakuSaveErrors)
    /\ UNCHANGED <<server, edits, saves, roleTimer, load, gaps, budget>>

Loaded(q) ==
    /\ q.part = "load" /\ q.stage = "handled"
    /\ requests' = requests \ {q}
    /\ local' = Brought(q, local)
    /\ shared' = Brought(q, shared)
    /\ load' = [loading |-> FALSE, error |-> FALSE]
    /\ UNCHANGED <<server, edits, saves, roleTimer, status, gaps, budget>>

\* A request fails, before the server handled it or with its answer.
HakuFails(q) ==
    /\ q.part = "haku" /\ Spend("faults")
    /\ haku_rejected(q)
    /\ NextSave(q)
    /\ UNCHANGED <<documents, roleTimer, load, gaps>>

\* Nobody handles a failure of role rows; some pages handle one of their own
\* actions, others do not.
PartFails(q) ==
    /\ q.part \notin {"haku", "load"} /\ Spend("faults")
    /\ requests' = requests \ {q}
    /\ \/ q.part \in {"projects", "tilit", "own"} /\ saveFailure(FlagOf[q.part])
       \/ q.part \in {"own", "members"} \cup RoleRows /\ UNCHANGED status
    /\ gaps' = gaps \cup Touches(q)
    /\ UNCHANGED <<documents, saves, roleTimer, load>>

LoadFails(q) ==
    /\ q.part = "load" /\ Spend("faults")
    /\ requests' = requests \ {q}
    /\ load' = [loading |-> FALSE, error |-> TRUE]
    /\ UNCHANGED <<documents, saves, roleTimer, status, gaps>>

-----------------------------------------------------------------------------
User(h) ==
    \/ \E delay \in {"soon", "later"} : updateField(h, delay)
    \/ updateProjects(h) \/ replaceTalousarviotilit(h) \/ startManuallySaving(h)
    \/ changeMembers(h) \/ saveRoleImmediately(h) \/ selectHaku(h)
    \/ \E r \in RoleRows : debouncedSaveRole(r, h) \/ retypeRole(r, h)

Respond(q) == Handled(q) \/ HakuSaved(q) \/ PartSaved(q) \/ Loaded(q)
Fail(q) == HakuFails(q) \/ PartFails(q) \/ LoadFails(q)

Next ==
    \/ \E h \in Hakus : User(h) \/ DeadlinePasses(h) \/ TimerFires(h)
    \/ \E kind \in Timers : callSaveRole(kind)
    \/ \E q \in requests : Respond(q) \/ Fail(q)

Spec == Init /\ [][Next]_vars

\* Timers fire, and requests are answered or fail.
Fairness ==
    /\ \A h \in Hakus : WF_vars(DeadlinePasses(h)) /\ WF_vars(TimerFires(h))
    /\ \A kind \in Timers : WF_vars(callSaveRole(kind))
    /\ WF_vars(\E q \in requests : Respond(q) \/ Fail(q))

FairSpec == Spec /\ Fairness
-----------------------------------------------------------------------------
(* Properties.                                                             *)

\* What the header says (HakujenHallintaApp, getNotificationContent).
AllSavedShown == saving = {} /\ serverError = "" /\ ~load.error /\ saveTime

FieldsSaved == \A h \in Hakus : local[<<"haku", h>>] = server[<<"haku", h>>]
PartsSaved == \A d \in Docs : local[d] = server[d] \/ d \in gaps

\* Whoever reads "Kaikki tiedot tallennettu" has every field of every haku on
\* the server, whatever failed or was edited meanwhile, and every other part
\* that did not meet one of the known gaps: overlapping or failed posts, a
\* debounce lost to another row, rows replaced by a list or typed back.
ShownSavedIsSaved == AllSavedShown => FieldsSaved /\ PartsSaved

\* The fields of the hakus as an autosaved document each.
HakuDocs == [h \in Hakus |-> local[<<"haku", h>>]]
HakuStored == [h \in Hakus |-> server[<<"haku", h>>]]

A == INSTANCE Autosave WITH Documents <- Hakus, draft <- HakuDocs, stored <- HakuStored

\* The server never goes back to older fields of a haku, however edits, timers,
\* slow responses and failures interleave (createHakuSaveQueue).
SavesInOrder == A!Spec

\* An edit of a haku is saved in the end, or the header shows that it failed, or
\* the clock was set back past its deadline (runReadySave).
EditsReachServer ==
    \A h \in Hakus : local[<<"haku", h>>] # server[<<"haku", h>>]
        ~> \/ local[<<"haku", h>>] = server[<<"haku", h>>]
           \/ h \in hakuSaveErrors \/ budget.setBacks < MaxSetBacks
=============================================================================
