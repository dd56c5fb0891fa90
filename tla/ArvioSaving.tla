----------------------------- MODULE ArvioSaving -----------------------------
(***************************************************************************)
(* Editing arviot of hakemukset in the officials' browser                  *)
(* (arviointiReducer.ts, arviointiStore.tsx).                              *)
(*                                                                         *)
(* An edit marks the arvio as changed and starts a timer of its hakemus.   *)
(* The save posts the whole arvio of the page and, when answered, clears   *)
(* the mark, whatever was edited meanwhile; a save that finds no mark is   *)
(* an error.  Nothing keeps two posts of one arvio apart, and reads of the *)
(* hakemus or of all hakemukset replace what the page has.  Other actions  *)
(* (scores, comments, payments, status) share the one save status.         *)
(*                                                                         *)
(* An arvio is the set of the edits it contains, each with a number.       *)
(***************************************************************************)
EXTENDS Naturals, FiniteSets

CONSTANTS
    Hakemukset,
    None,
    MaxActions, \* bound: actions of the user
    MaxFaults   \* bound: requests that fail

ASSUME ArvioAssumption == IsFiniteSet(Hakemukset) /\ None \notin Hakemukset
ASSUME ArvioBounds == MaxActions \in Nat /\ MaxFaults \in Nat

VARIABLES
    page,      \* [Hakemukset -> set of edits], the arviot the page has
    changed,   \* hakemukset whose arvio hasChanges
    server,    \* [Hakemukset -> set of edits], the arviot stored
    made,      \* [Hakemukset -> set of edits], history: all edits
    timers,    \* hakemukset with a save timer (pendingSaveTimers)
    requests,  \* requests in flight
    view,      \* "this" avustushaku, an"other" one, or "none" while one loads
    loadingHakemusId,
    status,    \* the save status
    warned,    \* history: edits whose save ended in an error the header showed
    overtaken, \* history: edits posted while an older post was in flight
    dropped,   \* history: edits that a read did not bring back
    lost,      \* history: answers that came while no avustushaku was loaded
    actions,   \* user actions so far
    faults     \* failures left

arviot == <<page, changed, server, made>>
history == <<warned, overtaken, dropped, lost>>
vars == <<arviot, timers, requests, view, loadingHakemusId, status, history, actions, faults>>

Idle == [inProgress |-> FALSE, saveTime |-> FALSE, error |-> FALSE]
InProgress == [Idle EXCEPT !.inProgress = TRUE]
Saved == [Idle EXCEPT !.saveTime = TRUE]
SaveError == [Idle EXCEPT !.error = TRUE]

Init ==
    /\ page = [h \in Hakemukset |-> {}] /\ server = page /\ made = page
    /\ changed = {} /\ timers = {} /\ requests = {}
    /\ view = "this" /\ loadingHakemusId = None /\ status = Idle
    /\ warned = {} /\ overtaken = {} /\ dropped = {} /\ lost = FALSE
    /\ actions = 0 /\ faults = MaxFaults

Act == actions < MaxActions /\ actions' = actions + 1

\* kind is "arvio", "own", "select", "defaults" (the save within a select),
\* "update" or "haku"; read is what a read found.
NoRead == [h \in Hakemukset |-> {}]
Request(kind, h, content, id) ==
    [kind |-> kind, hakemus |-> h, content |-> content, id |-> id, stage |-> "sent",
     read |-> NoRead]

Posts(h) == {q \in requests : q.kind \in {"arvio", "defaults"} /\ q.hakemus = h}

\* Edits of a hakemus that are on the page or being posted.
Posted(h) == UNION {q.content : q \in Posts(h)}
Alive(h) == page[h] \cup Posted(h)
Unsaved == UNION {page[h] \ (server[h] \cup Posted(h)) : h \in Hakemukset}

-----------------------------------------------------------------------------
(* Editing and saving an arvio.                                            *)

\* setArvioValue, with startHakemusArvioAutoSave or saveHakemusArvioSoon: either
\* replaces the timer of the hakemus.
setArvioValue(h) ==
    /\ Act /\ view = "this"
    /\ page' = [page EXCEPT ![h] = @ \cup {actions'}]
    /\ made' = [made EXCEPT ![h] = @ \cup {actions'}]
    /\ changed' = changed \cup {h}
    /\ timers' = timers \cup {h}
    /\ status' = InProgress
    /\ UNCHANGED <<server, requests, view, loadingHakemusId, history, faults>>

\* A save clears the timer and posts the arvio of the page.
Save(h) ==
    /\ timers' = timers \ {h}
    /\ status' = InProgress
    /\ overtaken' = IF Posts(h) = {} THEN overtaken ELSE overtaken \cup (page[h] \ Posted(h))

\* Mutant of SaveRefused: the save ends, and nobody says so.
RefusedSilently(h) ==
    /\ timers' = timers \ {h}
    /\ UNCHANGED <<status, warned, requests, overtaken>>

\* Without changes, or when its hakemus is not on the page any more, it ends in
\* an error.
SaveRefused(h) ==
    /\ timers' = timers \ {h}
    /\ status' = SaveError
    /\ warned' = warned \cup (made[h] \ server[h])
    /\ UNCHANGED <<requests, overtaken>>

TimerFires(h) ==
    /\ h \in timers
    /\ IF view = "this" /\ h \in changed
       THEN /\ Save(h)
            /\ requests' = requests \cup {Request("arvio", h, page[h], actions)}
            /\ UNCHANGED warned
       ELSE SaveRefused(h)
    /\ UNCHANGED <<arviot, view, loadingHakemusId, dropped, lost, actions, faults>>

\* Scores, comments, payments, the project, the status of a hakemus.
OwnAction(h) ==
    /\ Act /\ view = "this"
    /\ requests' = requests \cup {Request("own", h, {}, actions')}
    /\ status' = InProgress
    /\ UNCHANGED <<arviot, timers, view, loadingHakemusId, history, faults>>

-----------------------------------------------------------------------------
(* Reading hakemukset anew.                                                *)

Read(kind, h) == requests' = requests \cup {Request(kind, h, {}, actions')}

selectHakemus(h) ==
    /\ Act /\ view = "this" /\ loadingHakemusId # h
    /\ loadingHakemusId' = h
    /\ Read("select", h)
    /\ UNCHANGED <<arviot, timers, view, status, history, faults>>

updateHakemukset ==
    /\ Act /\ view = "this"
    /\ Read("update", None)
    /\ UNCHANGED <<arviot, timers, view, loadingHakemusId, status, history, faults>>

\* Choosing an avustushaku, this one or another, empties the page; timers stay.
fetchAvustushakuInfo ==
    /\ Act
    /\ \E h \in {None, CHOOSE h \in Hakemukset : TRUE} : Read("haku", h)
    /\ view' = "none"
    /\ page' = NoRead /\ changed' = {}
    /\ dropped' = dropped \cup Unsaved
    /\ UNCHANGED <<server, made, timers, loadingHakemusId, status, warned, overtaken, lost, faults>>

\* What a read brings replaces the page: edits not in it are dropped.
Replace(hakemukset, content) ==
    /\ page' = [h \in Hakemukset |-> IF h \in hakemukset THEN content[h] ELSE page[h]]
    /\ changed' = changed \ hakemukset
    /\ dropped' = dropped \cup UNION {(Alive(h) \cup server[h]) \ content[h] : h \in hakemukset}

\* The server handles a request.
Handled(q) ==
    /\ q.stage = "sent"
    /\ server' = [h \in Hakemukset |-> IF q \in Posts(h) THEN q.content ELSE server[h]]
    /\ requests' = (requests \ {q}) \cup {[q EXCEPT !.stage = "handled",
                      !.read = IF q.kind \in {"select", "update", "haku"} THEN server ELSE NoRead]}
    /\ UNCHANGED <<page, changed, made, timers, view, loadingHakemusId, status, history,
                   actions, faults>>

-----------------------------------------------------------------------------
(* Answers.                                                                *)

\* The reducer of an answer throws when its hakemus is not on the page: then
\* nothing changes at all.
Missed(q) ==
    \/ q.kind \in {"arvio", "defaults", "own"} /\ view # "this"
    \/ q.kind \in {"select", "update"} /\ view = "none"

AnswerMissed(q) ==
    /\ q.stage # "sent" /\ Missed(q)
    /\ requests' = requests \ {q}
    /\ lost' = TRUE
    /\ UNCHANGED <<arviot, timers, view, loadingHakemusId, status, warned, overtaken, dropped,
                   actions, faults>>

\* The mark goes, whatever was edited since the save began.
ArvioSaved(q) ==
    /\ q.kind \in {"arvio", "defaults"} /\ q.stage = "handled" /\ ~Missed(q)
    /\ changed' = changed \ {q.hakemus}
    /\ status' = Saved
    /\ requests' = requests \ {q}
    /\ UNCHANGED <<page, server, made, timers, view, loadingHakemusId, history, actions, faults>>

OwnActionDone(q) ==
    /\ q.kind = "own" /\ q.stage = "handled" /\ ~Missed(q)
    /\ status' = Saved
    /\ requests' = requests \ {q}
    /\ UNCHANGED <<arviot, timers, view, loadingHakemusId, history, actions, faults>>

\* Default values were put into what was read: the arvio of the page, which
\* lacks them, is marked and saved before the select goes on.
SelectSavesDefaults(q) ==
    /\ q.kind = "select" /\ q.stage = "handled" /\ view = "this"
    /\ changed' = changed \cup {q.hakemus}
    /\ Save(q.hakemus)
    /\ requests' = (requests \ {q}) \cup
         {[q EXCEPT !.stage = "saving"], Request("defaults", q.hakemus, page[q.hakemus], q.id)}
    /\ UNCHANGED <<page, server, made, view, loadingHakemusId, warned, dropped, lost,
                   actions, faults>>

Selected(q) ==
    /\ q.kind = "select" /\ ~Missed(q)
    /\ \/ q.stage = "handled"
       \/ q.stage = "saving" /\ \A p \in requests : p.kind = "defaults" => p.id # q.id
    /\ requests' = requests \ {q}
    /\ loadingHakemusId' = None
    /\ Replace(IF view = "this" THEN {q.hakemus} ELSE {}, q.read)
    /\ UNCHANGED <<server, made, timers, view, status, warned, overtaken, lost, actions, faults>>

\* An update of the hakemukset brings its avustushaku along, even if another one
\* was chosen meanwhile.
Updated(q) ==
    /\ q.kind \in {"update", "haku"} /\ q.stage = "handled" /\ ~Missed(q)
    /\ requests' = requests \ {q}
    /\ IF q.kind = "haku" /\ q.hakemus = None
       THEN /\ view' = "other"
            /\ page' = NoRead /\ changed' = {}
            /\ dropped' = dropped \cup Unsaved
       ELSE /\ view' = "this"
            /\ Replace(Hakemukset, q.read)
    /\ UNCHANGED <<server, made, timers, loadingHakemusId, status, warned, overtaken, lost,
                   actions, faults>>

\* Mutant of Fails: the hakemus stays as being loaded.
FailsWhileLoading(q) ==
    /\ faults > 0 /\ faults' = faults - 1
    /\ q.stage # "saving"
    /\ requests' = requests \ {q}
    /\ status' = IF q.kind \in {"arvio", "defaults", "own"} THEN SaveError ELSE status
    /\ UNCHANGED <<arviot, timers, view, loadingHakemusId, history, actions>>

\* A request fails, before it was handled or with its answer.
Fails(q) ==
    /\ faults > 0 /\ faults' = faults - 1
    /\ q.stage # "saving"
    /\ requests' = requests \ {q}
    /\ loadingHakemusId' = IF q.kind = "select" THEN None ELSE loadingHakemusId
    /\ status' = IF q.kind \in {"arvio", "defaults", "own"} THEN SaveError ELSE status
    /\ warned' = IF q.kind \in {"arvio", "defaults"}
                 THEN warned \cup (made[q.hakemus] \ server[q.hakemus]) ELSE warned
    /\ UNCHANGED <<arviot, timers, view, overtaken, dropped, lost, actions>>

-----------------------------------------------------------------------------
User ==
    \/ \E h \in Hakemukset : setArvioValue(h) \/ OwnAction(h) \/ selectHakemus(h)
    \/ updateHakemukset \/ fetchAvustushakuInfo

Respond(q) ==
    \/ Handled(q) \/ AnswerMissed(q) \/ ArvioSaved(q) \/ OwnActionDone(q)
    \/ SelectSavesDefaults(q) \/ Selected(q) \/ Updated(q) \/ Fails(q)

Next ==
    \/ User
    \/ \E h \in Hakemukset : TimerFires(h)
    \/ \E q \in requests : Respond(q)

Spec == Init /\ [][Next]_vars

\* Timers fire, and requests are answered or fail.
Fairness ==
    /\ \A h \in Hakemukset : WF_vars(TimerFires(h))
    /\ WF_vars(\E q \in requests : Respond(q))

FairSpec == Spec /\ Fairness
-----------------------------------------------------------------------------
(* Properties.                                                             *)

\* Somebody is still going to save the edit.
OnItsWay(h, n) == h \in timers \/ \E q \in Posts(h) : n \in q.content

\* An edit of an arvio is saved or about to be, or the header showed an error
\* after it was made, unless a post made meanwhile was overtaken by an older one
\* or a read from before replaced the page.  This holds although a save clears
\* the mark of later edits (saveHakemusArvio, pendingSaveTimers).
EditsAreKept ==
    \A h \in Hakemukset : \A n \in made[h] :
        n \in server[h] \cup warned \cup overtaken \cup dropped \/ OnItsWay(h, n)

\* "Tallennetaan" ends, unless an answer met no avustushaku to put it in
\* (saveStatusAwareActions).
IndicatorEnds == status.inProgress ~> ~status.inProgress \/ lost

\* A hakemus does not stay as being loaded, which would keep it from being
\* selected again, unless an answer met no avustushaku (selectHakemus).
SelectionEnds ==
    \A h \in Hakemukset : loadingHakemusId = h ~> loadingHakemusId # h \/ lost
=============================================================================
