-------------------------- MODULE ArvioSavingProofs --------------------------
(***************************************************************************)
(* Proofs about ArvioSaving, for any hakemukset and any numbers of actions *)
(* and failures: an edit of an arvio is saved or about to be, or the       *)
(* header has shown an error, unless its post may be overtaken or a read   *)
(* has replaced it on the page.                                            *)
(***************************************************************************)
EXTENDS ArvioSaving, TLAPS

-----------------------------------------------------------------------------
(* The inductive invariant.                                                *)

\* Edits are numbered by the action that makes them.
Edits == 1..actions

Arviot(E) == [Hakemukset -> SUBSET E]

\* A read of an avustushaku is of no hakemus, or stands for the avustushaku.
Subjects == Hakemukset \cup {None, CHOOSE h \in Hakemukset : TRUE}

RequestType(E) ==
    [kind : {"arvio", "own", "select", "defaults", "update", "haku"},
     hakemus : Subjects, content : SUBSET E, id : Nat,
     stage : {"sent", "handled", "saving"}, read : Arviot(E)]

\* Only reads of all hakemukset are not of one of them; only a select waits.
IsRequest(q, E) ==
    /\ q \in RequestType(E)
    /\ q.kind \notin {"update", "haku"} => q.hakemus \in Hakemukset
    /\ q.stage = "saving" => q.kind = "select"

TypeInv ==
    /\ actions \in Nat
    /\ page \in Arviot(Edits) /\ server \in Arviot(Edits) /\ made \in Arviot(Edits)
    /\ \A q \in requests : IsRequest(q, Edits)

\* What may happen to an edit that nobody is told of.
Excused == warned \cup overtaken \cup dropped

\* Where an edit is that is not excused: on the page as long as there is one, in
\* every post that will still replace what is stored or being posted, stored if
\* its post has been handled, and waiting for a timer if it has not been posted.
Held(h, n) ==
    /\ n \in page[h] \cup server[h] \cup Posted(h)
    /\ view = "this" => n \in page[h]
    /\ \A q \in Posts(h) :
         q.stage = "sent" /\ n \in server[h] \cup Posted(h) => n \in q.content
    /\ \A q \in Posts(h) : q.stage # "sent" /\ n \in q.content => n \in server[h]
    /\ n \in server[h] \cup Posted(h) \/ h \in timers

HeldInv == \A h \in Hakemukset : \A n \in made[h] \ Excused : Held(h, n)

-----------------------------------------------------------------------------
(* The types.                                                              *)

LEMMA NewRequest ==
    ASSUME NEW E, NEW kind \in {"arvio", "own", "select", "defaults", "update", "haku"},
           NEW h \in Subjects,
           kind \in {"update", "haku"} \/ h \in Hakemukset,
           NEW content \in SUBSET E, NEW id \in Nat
    PROVE  IsRequest(Request(kind, h, content, id), E)
BY DEF Request, NoRead, IsRequest, RequestType, Arviot

LEMMA MoreEdits ==
    ASSUME NEW E, NEW F, E \subseteq F
    PROVE  Arviot(E) \subseteq Arviot(F) /\ \A q : IsRequest(q, E) => IsRequest(q, F)
<1>1. Arviot(E) \subseteq Arviot(F)
  BY DEF Arviot
<1>2. RequestType(E) \subseteq RequestType(F)
  BY <1>1 DEF RequestType
<1> QED BY <1>1, <1>2 DEF IsRequest

\* A request that goes to its next stage.
LEMMA NextStage ==
    ASSUME NEW E, NEW q, IsRequest(q, E), NEW read \in Arviot(E)
    PROVE  /\ IsRequest([q EXCEPT !.stage = "handled", !.read = read], E)
           /\ q.kind = "select" => IsRequest([q EXCEPT !.stage = "saving"], E)
BY DEF IsRequest, RequestType

LEMMA TypeInit ==
    ASSUME Init
    PROVE  TypeInv
BY DEF Init, TypeInv, Arviot

\* What the user does.
LEMMA UserTyped ==
    ASSUME TypeInv, User
    PROVE  TypeInv'
<1>1. actions' = actions + 1 /\ actions' \in Nat /\ Edits \subseteq Edits' /\ actions' \in Edits'
  BY DEF User, setArvioValue, OwnAction, selectHakemus, updateHakemukset,
         fetchAvustushakuInfo, Act, TypeInv, Edits
<1>2. /\ page \in Arviot(Edits') /\ server \in Arviot(Edits') /\ made \in Arviot(Edits')
      /\ \A q \in requests : IsRequest(q, Edits')
  BY <1>1, MoreEdits DEF TypeInv
<1>3. NoRead \in Arviot(Edits')
  BY DEF NoRead, Arviot
<1>4. ASSUME NEW h \in Hakemukset, setArvioValue(h)
      PROVE  TypeInv'
  <2>1. /\ page' = [page EXCEPT ![h] = @ \cup {actions'}]
        /\ made' = [made EXCEPT ![h] = @ \cup {actions'}]
        /\ UNCHANGED <<server, requests>>
    BY <1>4 DEF setArvioValue
  <2>2. page' \in Arviot(Edits') /\ made' \in Arviot(Edits')
    BY <1>1, <1>2, <2>1 DEF Arviot
  <2> QED BY <1>1, <1>2, <2>1, <2>2 DEF TypeInv
<1>5. ASSUME NEW kind \in {"own", "select", "update", "haku"},
             NEW h \in Subjects,
             kind \in {"update", "haku"} \/ h \in Hakemukset,
             requests' = requests \cup {Request(kind, h, {}, actions')},
             page' \in {page, NoRead}, UNCHANGED <<server, made>>
      PROVE  TypeInv'
  <2>1. IsRequest(Request(kind, h, {}, actions'), Edits')
    BY <1>1, <1>5, NewRequest
  <2> QED BY <1>1, <1>2, <1>3, <1>5, <2>1 DEF TypeInv
<1>6. ASSUME NEW h \in Hakemukset, OwnAction(h) \/ selectHakemus(h)
      PROVE  TypeInv'
  BY <1>5, <1>6 DEF OwnAction, selectHakemus, Read, arviot, Subjects
<1>7. CASE updateHakemukset
  BY <1>5, <1>7 DEF updateHakemukset, Read, arviot, Subjects
<1>8. CASE fetchAvustushakuInfo
  <2>1. PICK h \in {None, CHOOSE h \in Hakemukset : TRUE} : Read("haku", h)
    BY <1>8 DEF fetchAvustushakuInfo
  <2>2. UNCHANGED <<server, made>> /\ page' = NoRead
    BY <1>8 DEF fetchAvustushakuInfo
  <2> QED BY <1>5, <2>1, <2>2 DEF Read, Subjects
<1> QED BY <1>4, <1>6, <1>7, <1>8 DEF User

\* What becomes of a request.
LEMMA RequestTyped ==
    ASSUME TypeInv, NEW q \in requests, Respond(q)
    PROVE  TypeInv'
<1>1. /\ page \in Arviot(Edits) /\ server \in Arviot(Edits) /\ made \in Arviot(Edits)
      /\ \A r \in requests : IsRequest(r, Edits)
      /\ IsRequest(q, Edits) /\ NoRead \in Arviot(Edits)
      /\ q.content \in SUBSET Edits /\ q.read \in Arviot(Edits) /\ q.id \in Nat
  BY DEF TypeInv, NoRead, Arviot, IsRequest, RequestType
<1>2. actions' = actions /\ Edits' = Edits /\ made' = made /\ actions \in Nat
  BY DEF Respond, Handled, AnswerMissed, ArvioSaved, OwnActionDone, SelectSavesDefaults,
         Selected, Updated, Fails, arviot, Edits, TypeInv
<1>3. ASSUME requests' \subseteq requests, server' = server, page' \in Arviot(Edits)
      PROVE  TypeInv'
  BY <1>1, <1>2, <1>3 DEF TypeInv
<1>4. CASE Handled(q)
  <2>1. server' \in Arviot(Edits)
    BY <1>1, <1>4 DEF Handled, Arviot
  <2>2. PICK read \in Arviot(Edits) :
          requests' = (requests \ {q}) \cup {[q EXCEPT !.stage = "handled", !.read = read]}
    BY <1>1, <1>4 DEF Handled
  <2>3. IsRequest([q EXCEPT !.stage = "handled", !.read = read], Edits)
    BY <1>1, NextStage
  <2>4. page' = page
    BY <1>4 DEF Handled
  <2> QED BY <1>1, <1>2, <2>1, <2>2, <2>3, <2>4 DEF TypeInv
<1>5. CASE SelectSavesDefaults(q)
  <2>1. /\ requests' = (requests \ {q}) \cup
             {[q EXCEPT !.stage = "saving"],
              Request("defaults", q.hakemus, page[q.hakemus], q.id)}
        /\ q.kind = "select" /\ page' = page /\ server' = server
    BY <1>5 DEF SelectSavesDefaults
  <2>2. q.hakemus \in Hakemukset /\ page[q.hakemus] \in SUBSET Edits
    BY <1>1, <2>1 DEF IsRequest, Arviot
  <2>3. IsRequest(Request("defaults", q.hakemus, page[q.hakemus], q.id), Edits)
    BY <1>1, <2>2, NewRequest DEF Subjects
  <2>4. IsRequest([q EXCEPT !.stage = "saving"], Edits)
    BY <1>1, <2>1, NextStage
  <2> QED BY <1>1, <1>2, <2>1, <2>3, <2>4 DEF TypeInv
<1>6. ASSUME NEW H, Replace(H, q.read)
      PROVE  page' \in Arviot(Edits)
  BY <1>1, <1>6 DEF Replace, Arviot
<1>7. CASE Selected(q) \/ Updated(q)
  <2>1. page' \in Arviot(Edits)
    BY <1>1, <1>6, <1>7 DEF Selected, Updated
  <2> QED BY <1>3, <1>7, <2>1 DEF Selected, Updated
<1>8. CASE AnswerMissed(q) \/ ArvioSaved(q) \/ OwnActionDone(q) \/ Fails(q)
  BY <1>1, <1>3, <1>8 DEF AnswerMissed, ArvioSaved, OwnActionDone, Fails, arviot
<1> QED BY <1>4, <1>5, <1>7, <1>8 DEF Respond

LEMMA TypeStep ==
    ASSUME TypeInv, [Next]_vars
    PROVE  TypeInv'
<1>1. ASSUME NEW h \in Hakemukset, TimerFires(h)
      PROVE  TypeInv'
  <2>1. /\ UNCHANGED <<page, server, made, actions>>
        /\ requests' = requests \/
             requests' = requests \cup {Request("arvio", h, page[h], actions)}
    BY <1>1 DEF TimerFires, SaveRefused, arviot
  <2>2. IsRequest(Request("arvio", h, page[h], actions), Edits)
    BY NewRequest DEF TypeInv, Arviot, Subjects
  <2> QED BY <2>1, <2>2 DEF TypeInv, Edits
<1>2. CASE UNCHANGED vars
  BY <1>2 DEF TypeInv, Edits, vars, arviot
<1> QED BY <1>1, <1>2, UserTyped, RequestTyped DEF Next

-----------------------------------------------------------------------------
(* What a step does to the place of one edit.                              *)

\* No post of the hakemus begins, ends or is handled.
LEMMA HeldStays ==
    ASSUME NEW h, NEW n, Held(h, n), server'[h] = server[h], Posts(h)' = Posts(h),
           n \in page'[h] \/ (n \in server[h] \cup Posted(h) /\ view' # "this")
                          \/ page'[h] = page[h],
           view' = "this" => n \in page'[h] \/ (view = "this" /\ page'[h] = page[h]),
           h \in timers => h \in timers' \/ n \in server[h] \cup Posted(h)
    PROVE  Held(h, n)'
<1>1. Posted(h)' = Posted(h)
  BY DEF Posted
<1> QED BY <1>1 DEF Held

\* The arvio of the page is posted.
LEMMA HeldPosted ==
    ASSUME NEW h, NEW n, Held(h, n), view = "this", NEW r,
           Posts(h)' = Posts(h) \cup {r}, r.content = page[h], r.stage = "sent",
           Save(h), n \notin overtaken', UNCHANGED <<page, server, view>>
    PROVE  Held(h, n)'
<1>1. n \in page[h] /\ n \in r.content
  BY DEF Held
<1>2. Posted(h)' = Posted(h) \cup r.content
  BY DEF Posted
<1>3. ASSUME NEW q \in Posts(h), q.stage = "sent"
      PROVE  n \in q.content
  <2>1. n \in Posted(h)
    BY <1>1, <1>3 DEF Save
  <2> QED BY <1>3, <2>1 DEF Held
<1> QED BY <1>1, <1>2, <1>3 DEF Held

\* A post is stored.
LEMMA HeldHandled ==
    ASSUME NEW h, NEW n, Held(h, n), NEW q \in Posts(h), q.stage = "sent", NEW r,
           Posts(h)' = (Posts(h) \ {q}) \cup {r},
           r.content = q.content, r.stage = "handled",
           server'[h] = q.content, UNCHANGED <<page, view, timers>>
    PROVE  Held(h, n)'
<1>1. Posted(h)' = Posted(h)
  BY DEF Posted
<1>2. n \in server[h] \cup Posted(h) => n \in q.content
  BY DEF Held
<1>3. q.content \subseteq Posted(h)
  BY DEF Posted
<1> QED BY <1>1, <1>2, <1>3 DEF Held

\* A post ends, and the edit is stored or was not in it.
LEMMA HeldAnswered ==
    ASSUME NEW h, NEW n, Held(h, n), NEW q, Posts(h)' = Posts(h) \ {q},
           n \in server[h] \/ n \notin q.content,
           server'[h] = server[h], UNCHANGED <<page, view, timers>>
    PROVE  Held(h, n)'
<1>1. Posted(h)' \subseteq Posted(h) /\ Posted(h) \subseteq Posted(h)' \cup q.content
  BY DEF Posted
<1> QED BY <1>1 DEF Held

-----------------------------------------------------------------------------
(* The invariant is inductive.                                             *)

\* An excuse is not taken back.
LEMMA ExcusedStay ==
    ASSUME [Next]_vars
    PROVE  Excused \subseteq Excused'
<1>1. warned \subseteq warned' /\ overtaken \subseteq overtaken' /\ dropped \subseteq dropped'
  BY DEF Next, vars, arviot, history, User, setArvioValue, OwnAction, selectHakemus,
         updateHakemukset, fetchAvustushakuInfo, TimerFires, Save, SaveRefused, Respond,
         Handled, AnswerMissed, ArvioSaved, OwnActionDone, SelectSavesDefaults, Selected,
         Updated, Replace, Fails
<1> QED BY <1>1 DEF Excused

LEMMA UserKeeps ==
    ASSUME TypeInv, HeldInv, User, NEW h \in Hakemukset, NEW n \in made'[h] \ Excused',
           n \notin Excused
    PROVE  Held(h, n)'
<1>1. ASSUME NEW r, r.kind \notin {"arvio", "defaults"}, requests' = requests \cup {r}
      PROVE  Posts(h)' = Posts(h)
  BY <1>1 DEF Posts
<1>2. \A kind, g, content, id : Request(kind, g, content, id).kind = kind
  BY DEF Request
<1>3. ASSUME NEW g \in Hakemukset, setArvioValue(g)
      PROVE  Held(h, n)'
  <2>1. /\ actions' = actions + 1 /\ view = "this"
        /\ page' = [page EXCEPT ![g] = @ \cup {actions'}]
        /\ made' = [made EXCEPT ![g] = @ \cup {actions'}]
        /\ timers' = timers \cup {g} /\ UNCHANGED <<server, requests, view>>
    BY <1>3 DEF setArvioValue, Act
  <2>2. page[h] \subseteq page'[h] /\ (h = g => n \in page'[h] \/ n \in made[h])
        /\ (h # g => n \in made[h] /\ page'[h] = page[h])
    BY <2>1 DEF TypeInv, Arviot
  <2>3. CASE n \in made[h]
    <3>1. Held(h, n)
      BY <2>3 DEF HeldInv
    <3>2. n \in page'[h]
      BY <2>1, <2>2, <3>1 DEF Held
    <3>3. Posts(h)' = Posts(h)
      BY <2>1 DEF Posts
    <3> QED BY <2>1, <3>1, <3>2, <3>3, HeldStays
  <2>4. CASE n \notin made[h]
    <3>1. h = g /\ n = actions + 1 /\ n \in page'[h] /\ h \in timers'
      BY <2>1, <2>2, <2>4 DEF TypeInv, Arviot
    <3>2. n \notin Edits
      BY <3>1 DEF TypeInv, Edits
    <3>3. n \notin server[h] /\ \A q \in Posts(h) : n \notin q.content
      BY <3>2 DEF TypeInv, Arviot, Posts, IsRequest, RequestType
    <3>4. Posts(h)' = Posts(h) /\ Posted(h)' = Posted(h) /\ n \notin Posted(h)
      BY <2>1, <3>3 DEF Posts, Posted
    <3> QED BY <2>1, <3>1, <3>3, <3>4 DEF Held
  <2> QED BY <2>3, <2>4
<1>4. ASSUME made' = made
      PROVE  Held(h, n)
  BY <1>4 DEF HeldInv
<1>5. ASSUME NEW g \in Hakemukset, OwnAction(g) \/ selectHakemus(g)
      PROVE  Held(h, n)'
  <2>1. PICK r : r.kind \in {"own", "select"} /\ requests' = requests \cup {r}
    BY <1>2, <1>5 DEF OwnAction, selectHakemus, Read
  <2>2. UNCHANGED <<page, server, made, timers, view>>
    BY <1>5 DEF OwnAction, selectHakemus, arviot
  <2> QED BY <1>1, <1>4, <2>1, <2>2, HeldStays
<1>6. CASE updateHakemukset
  <2>1. PICK r : r.kind = "update" /\ requests' = requests \cup {r}
    BY <1>2, <1>6 DEF updateHakemukset, Read
  <2>2. UNCHANGED <<page, server, made, timers, view>>
    BY <1>6 DEF updateHakemukset, arviot
  <2> QED BY <1>1, <1>4, <2>1, <2>2, HeldStays
<1>7. CASE fetchAvustushakuInfo
  <2>1. PICK r : r.kind = "haku" /\ requests' = requests \cup {r}
    BY <1>2, <1>7 DEF fetchAvustushakuInfo, Read
  <2>2. view' = "none" /\ dropped' = dropped \cup Unsaved /\ UNCHANGED <<server, made, timers>>
    BY <1>7 DEF fetchAvustushakuInfo
  <2>3. n \notin page[h] \ (server[h] \cup Posted(h))
    BY <2>2 DEF Unsaved, Excused
  <2>4. Held(h, n)
    BY <1>4, <2>2
  <2>5. n \in server[h] \cup Posted(h)
    BY <2>3, <2>4 DEF Held
  <2> QED BY <1>1, <2>1, <2>2, <2>4, <2>5, HeldStays
<1> QED BY <1>3, <1>5, <1>6, <1>7 DEF User

LEMMA TimerKeeps ==
    ASSUME TypeInv, NEW g \in Hakemukset, TimerFires(g), NEW h \in Hakemukset,
           NEW n \in made[h] \ Excused', Held(h, n)
    PROVE  Held(h, n)'
<1>1. /\ UNCHANGED <<page, server, made, view>> /\ timers' = timers \ {g}
      /\ warned' \subseteq Excused' /\ overtaken' \subseteq Excused'
  BY DEF TimerFires, Save, SaveRefused, arviot, Excused
<1>2. ASSUME requests' = requests, h = g => n \in server[h]
      PROVE  Held(h, n)'
  <2>1. Posts(h)' = Posts(h)
    BY <1>2 DEF Posts
  <2> QED BY <1>1, <1>2, <2>1, HeldStays
<1>3. CASE SaveRefused(g) /\ UNCHANGED <<requests, overtaken>>
  <2>1. h = g => n \in server[h]
    BY <1>1, <1>3 DEF SaveRefused
  <2> QED BY <1>2, <1>3, <2>1
<1>4. CASE /\ view = "this" /\ Save(g)
           /\ requests' = requests \cup {Request("arvio", g, page[g], actions)}
  <2> DEFINE r == Request("arvio", g, page[g], actions)
  <2>1. r.kind = "arvio" /\ r.hakemus = g /\ r.content = page[g] /\ r.stage = "sent"
    BY DEF Request
  <2>2. CASE h = g
    <3>1. Posts(h)' = Posts(h) \cup {r}
      BY <1>4, <2>1, <2>2 DEF Posts
    <3> HIDE DEF r
    <3>2. n \notin overtaken'
      BY <1>1
    <3> QED BY <1>1, <1>4, <2>1, <2>2, <3>1, <3>2, HeldPosted
  <2>3. CASE h # g
    <3>1. Posts(h)' = Posts(h)
      BY <1>4, <2>1, <2>3 DEF Posts
    <3> QED BY <1>1, <2>3, <3>1, HeldStays
  <2> QED BY <2>2, <2>3
<1> QED BY <1>3, <1>4 DEF TimerFires, SaveRefused

\* What becomes of a request that is no post.
LEMMA ReadKeeps ==
    ASSUME TypeInv, NEW q \in requests, q.kind \notin {"arvio", "defaults"}, Respond(q),
           ~SelectSavesDefaults(q), NEW h \in Hakemukset, NEW n \in made[h] \ Excused',
           Held(h, n)
    PROVE  Held(h, n)'
<1>1. q \notin Posts(h) /\ \A r : r.kind = q.kind => r \notin Posts(h) \cup Posts(h)'
  BY DEF Posts
<1>2. ASSUME NEW r, r.kind = q.kind, requests' = (requests \ {q}) \cup {r}
      PROVE  Posts(h)' = Posts(h)
  BY <1>1, <1>2 DEF Posts
<1>3. ASSUME requests' = requests \ {q}
      PROVE  Posts(h)' = Posts(h)
  BY <1>1, <1>3 DEF Posts
<1>4. CASE Handled(q)
  <2>1. PICK r : r.kind = q.kind /\ requests' = (requests \ {q}) \cup {r}
    <3>1. PICK read :
            requests' = (requests \ {q}) \cup {[q EXCEPT !.stage = "handled", !.read = read]}
      BY <1>4 DEF Handled
    <3>2. q \in RequestType(Edits)
      BY DEF TypeInv, IsRequest
    <3>3. [q EXCEPT !.stage = "handled", !.read = read].kind = q.kind
      BY <3>2 DEF RequestType
    <3> QED BY <3>1, <3>3
  <2>2. server'[h] = server[h] /\ UNCHANGED <<page, view, timers>>
    BY <1>1, <1>4 DEF Handled
  <2> QED BY <1>2, <2>1, <2>2, HeldStays
<1>5. ASSUME requests' = requests \ {q}, UNCHANGED <<page, server, view, timers>>
      PROVE  Held(h, n)'
  BY <1>3, <1>5, HeldStays
<1>6. CASE AnswerMissed(q) \/ OwnActionDone(q) \/ Fails(q)
  BY <1>5, <1>6 DEF AnswerMissed, OwnActionDone, Fails, arviot
\* What replaces the page brings the edit along, or drops it.
<1>7. ASSUME NEW H, Replace(H, q.read), h \in H
      PROVE  n \in page'[h]
  <2>1. page'[h] = q.read[h]
    BY <1>7 DEF Replace
  <2>2. n \notin (Alive(h) \cup server[h]) \ q.read[h]
    BY <1>7 DEF Replace, Excused
  <2>3. n \in Alive(h) \cup server[h]
    BY DEF Held, Alive
  <2> QED BY <2>1, <2>2, <2>3
<1>8. CASE Selected(q)
  <2>1. /\ requests' = requests \ {q} /\ UNCHANGED <<server, timers, view>>
        /\ Replace(IF view = "this" THEN {q.hakemus} ELSE {}, q.read)
    BY <1>8 DEF Selected
  <2>2. n \in page'[h] \/ page'[h] = page[h]
    BY <1>7, <2>1 DEF Replace
  <2> QED BY <1>3, <2>1, <2>2, HeldStays
<1>9. CASE Updated(q)
  <2>1. requests' = requests \ {q} /\ UNCHANGED <<server, timers>>
    BY <1>9 DEF Updated
  <2>2. CASE view' = "this" /\ Replace(Hakemukset, q.read)
    BY <1>3, <1>7, <2>1, <2>2, HeldStays
  <2>3. CASE view' = "other" /\ dropped' = dropped \cup Unsaved
    <3>1. n \notin page[h] \ (server[h] \cup Posted(h))
      BY <2>3 DEF Unsaved, Excused
    <3>2. n \in server[h] \cup Posted(h)
      BY <3>1 DEF Held
    <3> QED BY <1>3, <2>1, <2>3, <3>2, HeldStays
  <2> QED BY <1>9, <2>2, <2>3 DEF Updated
<1>10. ~ArvioSaved(q)
  BY DEF ArvioSaved
<1> QED BY <1>4, <1>6, <1>8, <1>9, <1>10 DEF Respond

\* What becomes of a post, and the post within a select.
LEMMA PostKeeps ==
    ASSUME TypeInv, NEW q \in requests, q.kind \in {"arvio", "defaults"}, Respond(q),
           NEW h \in Hakemukset, NEW n \in made[h] \ Excused', Held(h, n)
    PROVE  Held(h, n)'
<1>1. /\ q \in RequestType(Edits) /\ q.hakemus \in Hakemukset /\ q.stage # "saving"
      /\ q \in Posts(h) <=> h = q.hakemus
  BY DEF TypeInv, IsRequest, Posts
<1>2. CASE Handled(q)
  <2>1. PICK r : /\ r.kind = q.kind /\ r.hakemus = q.hakemus /\ r.content = q.content
                 /\ r.stage = "handled" /\ requests' = (requests \ {q}) \cup {r}
    <3>1. PICK read :
            requests' = (requests \ {q}) \cup {[q EXCEPT !.stage = "handled", !.read = read]}
      BY <1>2 DEF Handled
    <3> DEFINE r == [q EXCEPT !.stage = "handled", !.read = read]
    <3>2. /\ r.kind = q.kind /\ r.hakemus = q.hakemus /\ r.content = q.content
          /\ r.stage = "handled"
      BY <1>1 DEF RequestType
    <3> QED BY <3>1, <3>2
  <2>2. /\ q.stage = "sent" /\ UNCHANGED <<page, view, timers>>
        /\ server'[h] = IF q \in Posts(h) THEN q.content ELSE server[h]
    BY <1>2 DEF Handled
  <2>3. CASE h = q.hakemus
    <3>1. Posts(h)' = (Posts(h) \ {q}) \cup {r}
      BY <2>1, <2>3 DEF Posts
    <3> QED BY <1>1, <2>1, <2>2, <2>3, <3>1, HeldHandled
  <2>4. CASE h # q.hakemus
    <3>1. Posts(h)' = Posts(h)
      BY <2>1, <2>4 DEF Posts
    <3> QED BY <1>1, <2>2, <2>4, <3>1, HeldStays
  <2> QED BY <2>3, <2>4
<1>3. ASSUME requests' = requests \ {q}, UNCHANGED <<page, server, view, timers>>,
             h = q.hakemus => n \in server[h] \/ n \notin q.content
      PROVE  Held(h, n)'
  <2>1. Posts(h)' = Posts(h) \ {q}
    BY <1>3 DEF Posts
  <2>2. CASE h = q.hakemus
    BY <1>3, <2>1, <2>2, HeldAnswered
  <2>3. CASE h # q.hakemus
    <3>1. Posts(h)' = Posts(h)
      BY <1>1, <2>1, <2>3
    <3> QED BY <1>3, <3>1, HeldStays
  <2> QED BY <2>2, <2>3
<1>4. CASE AnswerMissed(q) \/ ArvioSaved(q)
  <2>1. /\ q.stage # "sent" /\ requests' = requests \ {q}
        /\ UNCHANGED <<page, server, view, timers>>
    BY <1>4 DEF AnswerMissed, ArvioSaved, arviot
  <2>2. h = q.hakemus => n \in server[h] \/ n \notin q.content
    BY <1>1, <2>1 DEF Held
  <2> QED BY <1>3, <2>1, <2>2
<1>5. CASE Fails(q)
  <2>1. /\ requests' = requests \ {q} /\ UNCHANGED <<page, server, made, view, timers>>
        /\ warned' = warned \cup (made[q.hakemus] \ server[q.hakemus])
    BY <1>5 DEF Fails, arviot
  <2>2. h = q.hakemus => n \in server[h]
    BY <2>1 DEF Excused
  <2> QED BY <1>3, <2>1, <2>2
<1>6. ~(OwnActionDone(q) \/ SelectSavesDefaults(q) \/ Selected(q) \/ Updated(q))
  BY DEF OwnActionDone, SelectSavesDefaults, Selected, Updated
<1> QED BY <1>2, <1>4, <1>5, <1>6 DEF Respond

LEMMA DefaultsKeep ==
    ASSUME TypeInv, NEW q \in requests, SelectSavesDefaults(q), NEW h \in Hakemukset,
           NEW n \in made[h] \ Excused', Held(h, n)
    PROVE  Held(h, n)'
<1> DEFINE g == q.hakemus
           r == Request("defaults", g, page[g], q.id)
           w == [q EXCEPT !.stage = "saving"]
<1>1. /\ q.kind = "select" /\ view = "this" /\ Save(g)
      /\ requests' = (requests \ {q}) \cup {w, r} /\ UNCHANGED <<page, server, view>>
  BY DEF SelectSavesDefaults
<1>2. r.kind = "defaults" /\ r.hakemus = g /\ r.content = page[g] /\ r.stage = "sent"
  BY DEF Request
<1>3. w.kind = "select"
  <2>1. q \in RequestType(Edits)
    BY DEF TypeInv, IsRequest
  <2> QED BY <1>1, <2>1 DEF RequestType
<1>4. n \notin overtaken' /\ timers' = timers \ {g}
  BY <1>1 DEF Save, Excused
<1> HIDE DEF r, w
<1>5. CASE h = g
  <2>1. Posts(h)' = Posts(h) \cup {r}
    BY <1>1, <1>2, <1>3, <1>5 DEF Posts
  <2> QED BY <1>1, <1>2, <1>4, <1>5, <2>1, HeldPosted
<1>6. CASE h # g
  <2>1. Posts(h)' = Posts(h)
    BY <1>1, <1>2, <1>3, <1>6 DEF Posts
  <2> QED BY <1>1, <1>4, <1>6, <2>1, HeldStays
<1> QED BY <1>5, <1>6

LEMMA HeldStep ==
    ASSUME TypeInv, HeldInv, [Next]_vars
    PROVE  HeldInv'
<1> SUFFICES ASSUME NEW h \in Hakemukset, NEW n \in made'[h] \ Excused'
             PROVE  Held(h, n)'
  BY DEF HeldInv
<1>1. n \notin Excused
  BY ExcusedStay
<1>2. ASSUME made' = made
      PROVE  n \in made[h] /\ Held(h, n)
  BY <1>1, <1>2 DEF HeldInv
<1>3. CASE User
  BY <1>1, <1>3, UserKeeps
<1>4. ASSUME NEW g \in Hakemukset, TimerFires(g)
      PROVE  Held(h, n)'
  <2>1. made' = made
    BY <1>4 DEF TimerFires, arviot
  <2> QED BY <1>2, <1>4, <2>1, TimerKeeps
<1>5. ASSUME NEW q \in requests, Respond(q)
      PROVE  Held(h, n)'
  <2>1. made' = made
    BY <1>5 DEF Respond, Handled, AnswerMissed, ArvioSaved, OwnActionDone,
                SelectSavesDefaults, Selected, Updated, Fails, arviot
  <2>2. n \in made[h] \ Excused' /\ Held(h, n)
    BY <1>2, <2>1
  <2> QED BY <1>5, <2>2, ReadKeeps, PostKeeps, DefaultsKeep
<1>6. CASE UNCHANGED vars
  <2>1. made' = made /\ UNCHANGED <<page, server, requests, view, timers>>
    BY <1>6 DEF vars, arviot
  <2>2. Posts(h)' = Posts(h)
    BY <2>1 DEF Posts
  <2> QED BY <1>2, <2>1, <2>2, HeldStays
<1> QED BY <1>3, <1>4, <1>5, <1>6 DEF Next

-----------------------------------------------------------------------------
(* Theorems.                                                               *)

\* HeldInv holds of every reachable state.
THEOREM ArvioInvariant == Spec => [](TypeInv /\ HeldInv)
<1>1. Init => TypeInv /\ HeldInv
  <2>1. Init => HeldInv
    BY DEF Init, HeldInv
  <2> QED BY <2>1, TypeInit
<1>2. TypeInv /\ HeldInv /\ [Next]_vars => TypeInv' /\ HeldInv'
  BY TypeStep, HeldStep
<1> QED BY <1>1, <1>2, PTL DEF Spec

\* An edit of an arvio is saved or about to be, or the header has shown an error,
\* unless a post made meanwhile may be overtaken by an older one or a read from
\* before replaced the page (saveHakemusArvio, pendingSaveTimers).
THEOREM NoEditLostSilently == Spec => []EditsAreKept
<1>1. HeldInv => EditsAreKept
  <2> SUFFICES ASSUME HeldInv, NEW h \in Hakemukset, NEW n \in made[h]
               PROVE  n \in server[h] \cup warned \cup overtaken \cup dropped \/ OnItsWay(h, n)
    BY DEF EditsAreKept
  <2>1. CASE n \in Excused
    BY <2>1 DEF Excused
  <2>2. CASE n \notin Excused
    <3>1. n \in server[h] \cup Posted(h) \/ h \in timers
      BY <2>2 DEF HeldInv, Held
    <3> QED BY <3>1 DEF OnItsWay, Posted
  <2> QED BY <2>1, <2>2
<1> QED BY <1>1, ArvioInvariant, PTL
=============================================================================
