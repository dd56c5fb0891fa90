-------------------------- MODULE HakuSavingProofs --------------------------
(***************************************************************************)
(* Proofs about HakuSaving: the save queue keeps the order of the edits,   *)
(* and the header does not claim that fields are saved which are not.      *)
(***************************************************************************)
EXTENDS HakuSaving, TLAPS

-----------------------------------------------------------------------------
(* The inductive invariant.                                                *)

Local(h) == local[<<"haku", h>>]
Server(h) == server[<<"haku", h>>]

\* What a list of the server may bring: never the fields of a haku.
Listed == (Parts \ {"haku"}) \X Hakus
Replies == UNION {[S -> Nat] : S \in SUBSET Listed}
Requests ==
    [part : Parts \cup {"load"}, haku : Hakus, value : Nat, rev : Nat, brings : SUBSET (Parts \ {"haku"}),
     stage : {"sent", "handled"}, reply : Replies]
Rows == {NoRow} \cup [doc : RoleRows \X Hakus, value : Nat, brings : {RoleLists, {}}]
Saves == [rev : Nat, delay : {"soon", "later"}, due : BOOLEAN]
Queues == [running : BOOLEAN, timer : BOOLEAN, pending : Saves]

TypeInv ==
    /\ local \in [Docs -> Nat] /\ server \in [Docs -> Nat] /\ edits \in Nat
    /\ shared \in [RoleRows \X Hakus -> Nat]
    /\ queue \in [Hakus -> Queues]
    /\ revisions \in [Hakus -> Nat] /\ pendingHakuSaves \in [Hakus -> Nat]
    /\ requests \subseteq Requests
    /\ roleTimer \in [Timers -> Rows]

\* What is scheduled is the latest edit of its haku.
Scheduled(h) ==
    /\ pendingHakuSaves[h] \in {0, revisions[h]}
    /\ queue[h].pending # NoSave =>
          queue[h].pending.rev = revisions[h] /\ revisions[h] > 0

\* A save in flight lies between what the server has and what the page shows,
\* and a save of the latest revision carries what the page shows.
InFlight(q) ==
    /\ queue[q.haku].running
    /\ Server(q.haku) <= q.value /\ q.value <= Local(q.haku)
    /\ q.stage = "handled" => Server(q.haku) = q.value
    /\ 0 < q.rev /\ q.rev <= revisions[q.haku]
    /\ q.rev = revisions[q.haku] => q.value = Local(q.haku)

HakuRequests == {q \in requests : q.part = "haku"}

QueueInv ==
    /\ \A h \in Hakus : Server(h) <= Local(h) /\ Local(h) <= edits /\ Scheduled(h)
    /\ \A q \in HakuRequests : InFlight(q)
    /\ \A p, q \in HakuRequests : p.haku = q.haku => p = q

\* What is neither pending nor an error is saved, and the header knows both.
StatusInv ==
    /\ \A h \in Hakus : pendingHakuSaves[h] = 0 => h \in hakuSaveErrors \/ Local(h) = Server(h)
    /\ \A h \in Hakus : pendingHakuSaves[h] # 0 => "saveInProgress" \in saving
    /\ hakuSaveErrors # {} => serverError # ""

Inv == TypeInv /\ QueueInv /\ StatusInv

-----------------------------------------------------------------------------
(* Documents, requests and queues.                                         *)

LEMMA HakuFacts ==
    /\ \A h \in Hakus : <<"haku", h>> \in Docs /\ <<"haku", h>> \notin Listed
    /\ \A h, i \in Hakus : <<"haku", h>> = <<"haku", i>> => h = i
    /\ Listed \subseteq Docs
    /\ RoleRows \X Hakus \subseteq Listed
BY DEF Docs, Listed, Parts, RoleRows

LEMMA NoReplyType == NoReply \in Replies
BY DEF NoReply, Replies

LEMMA RequestType ==
    ASSUME NEW part \in Parts \cup {"load"}, NEW h \in Hakus, NEW value \in Nat, NEW rev \in Nat,
           NEW brings \in SUBSET (Parts \ {"haku"})
    PROVE  /\ Request(part, h, value, rev, brings) \in Requests
           /\ Request(part, h, value, rev, brings).part = part
           /\ Request(part, h, value, rev, brings).haku = h
           /\ Request(part, h, value, rev, brings).value = value
           /\ Request(part, h, value, rev, brings).rev = rev
           /\ Request(part, h, value, rev, brings).stage = "sent"
BY NoReplyType DEF Request, Requests

LEMMA ReplyType ==
    ASSUME NEW q \in Requests
    PROVE  /\ DOMAIN q.reply \subseteq Listed
           /\ \A d \in DOMAIN q.reply : q.reply[d] \in Nat
BY DEF Requests, Replies

LEMMA ReadType ==
    ASSUME NEW f \in [Docs -> Nat], NEW q \in Requests
    PROVE  [d \in Replied(q) |-> f[d]] \in Replies
<1>1. Replied(q) \subseteq Listed
    BY DEF Replied, Listed, Requests, RoleRows, Parts
<1>2. [d \in Replied(q) |-> f[d]] \in [Replied(q) -> Nat]
    BY <1>1, HakuFacts
<1> QED BY <1>1, <1>2 DEF Replies

LEMMA BroughtType ==
    ASSUME NEW q \in Requests, NEW S \in SUBSET Docs, NEW old \in [S -> Nat]
    PROVE  /\ Brought(q, old) \in [S -> Nat]
           /\ \A h \in Hakus : <<"haku", h>> \in S =>
                  Brought(q, old)[<<"haku", h>>] = old[<<"haku", h>>]
BY ReplyType, HakuFacts DEF Brought

LEMMA OtherDocument ==
    ASSUME NEW f \in [Docs -> Nat], NEW d \in Listed, NEW v \in Nat
    PROVE  /\ [f EXCEPT ![d] = v] \in [Docs -> Nat]
           /\ \A h \in Hakus : [f EXCEPT ![d] = v][<<"haku", h>>] = f[<<"haku", h>>]
BY HakuFacts

LEMMA OtherRequests ==
    ASSUME NEW q, q.part # "haku",
           requests' \in {requests \cup {q}, requests \ {q}}
    PROVE  HakuRequests' = HakuRequests
BY DEF HakuRequests

LEMMA QueueFacts ==
    ASSUME NEW s \in Queues
    PROVE  /\ NoSave \in Saves /\ Idle \in Queues
           /\ runReadySave(s) \in Queues /\ afterSave(s) \in Queues
           /\ runReadySave(s).running \in BOOLEAN
           /\ runReadySave(s).pending \in {s.pending, NoSave}
           /\ afterSave(s).pending = s.pending /\ ~afterSave(s).running
           /\ Ready(s) => runReadySave(s).running /\ runReadySave(s).pending = NoSave
           /\ ~Ready(s) => runReadySave(s) = s
BY DEF Queues, Saves, NoSave, Idle, runReadySave, afterSave, Ready

-----------------------------------------------------------------------------
(* Initial states, and steps that leave the fields of the hakus alone.     *)

LEMMA Initially == Init => Inv
<1> SUFFICES ASSUME Init PROVE Inv
    OBVIOUS
<1>1. local \in [Docs -> Nat] /\ \A h \in Hakus : Local(h) = 0
  <2>1. PICK bare \in SUBSET Hakus :
            local = [d \in Docs |-> IF d[1] = "projects" /\ d[2] \notin bare THEN 1 ELSE 0]
      BY DEF Init
  <2>2. \A h \in Hakus : <<"haku", h>>[1] # "projects"
      OBVIOUS
  <2> QED BY <2>1, <2>2, HakuFacts DEF Local
<1>2. Idle \in Queues /\ Idle.pending = NoSave
    BY DEF Idle, Queues, Saves, NoSave
<1>3. TypeInv
    BY <1>1, <1>2 DEF Init, TypeInv, Rows
<1>4. QueueInv
  <2>1. \A h \in Hakus : Server(h) = 0 /\ Local(h) = 0
      BY <1>1 DEF Init, Local, Server
  <2>2. edits = 1 /\ HakuRequests = {}
      BY DEF Init, HakuRequests
  <2>3. \A h \in Hakus : Scheduled(h)
      BY <1>2 DEF Init, Scheduled
  <2> QED BY <2>1, <2>2, <2>3 DEF QueueInv
<1>5. StatusInv
    BY <1>1 DEF Init, StatusInv, Local, Server
<1> QED BY <1>3, <1>4, <1>5 DEF Inv

\* What most actions share: nothing they do concerns the fields of a haku.
Untouched ==
    /\ \A h \in Hakus : Local(h)' = Local(h) /\ Server(h)' = Server(h)
    /\ UNCHANGED saves
    /\ HakuRequests' = HakuRequests
    /\ edits <= edits'
    /\ "saveInProgress" \in saving => "saveInProgress" \in saving'
    /\ hakuSaveErrors # {} /\ serverError # "" => serverError' # ""

LEMMA UntouchedKeeps ==
    ASSUME Inv, TypeInv', Untouched
    PROVE  Inv'
<1> USE DEF Inv, Untouched, saves
<1>1. QueueInv'
  <2>1. \A h \in Hakus : Local(h) \in Nat
      BY HakuFacts DEF TypeInv, Local
  <2>2. \A h \in Hakus : (Server(h) <= Local(h) /\ Local(h) <= edits /\ Scheduled(h))'
    <3> SUFFICES ASSUME NEW h \in Hakus
                 PROVE  (Server(h) <= Local(h) /\ Local(h) <= edits /\ Scheduled(h))'
        OBVIOUS
    <3>1. Server(h) <= Local(h) /\ Local(h) <= edits /\ Scheduled(h)
        BY DEF QueueInv
    <3>2. edits \in Nat /\ edits' \in Nat
        BY DEF TypeInv
    <3>3. Scheduled(h)'
        BY <3>1 DEF Scheduled
    <3>4. Local(h)' = Local(h) /\ Server(h)' = Server(h) /\ edits <= edits'
        OBVIOUS
    <3> HIDE DEF Untouched
    <3> QED BY <2>1, <3>1, <3>2, <3>3, <3>4
  <2>3. \A q \in HakuRequests : q.haku \in Hakus
      BY DEF HakuRequests, TypeInv, Requests
  <2>4. \A q \in HakuRequests : InFlight(q)'
      BY <2>3 DEF QueueInv, InFlight
  <2> QED BY <2>2, <2>4 DEF QueueInv
<1>2. StatusInv'
    BY DEF StatusInv
<1> QED BY <1>1, <1>2

-----------------------------------------------------------------------------
(* The other parts of a haku.                                              *)

\* A post at once of a part: its document changes, its flag goes up.
LEMMA PostsAtOnce ==
    ASSUME Inv, NEW h \in Hakus,
           \/ replaceTalousarviotilit(h) \/ startManuallySaving(h)
    PROVE  TypeInv' /\ Untouched
<1> USE DEF Inv
<1>1. PICK part \in {"tilit", "own"} :
          /\ edits' = edits + 1
          /\ local' = [local EXCEPT ![<<part, h>>] = edits + 1]
          /\ requests' = requests \cup {Request(part, h, edits + 1, 0, {})}
          /\ UNCHANGED <<shared, server, saves, roleTimer, serverError>>
          /\ saving \subseteq saving'
    BY DEF replaceTalousarviotilit, startManuallySaving, NewEdit, Send, startSaving
<1>2. <<part, h>> \in Listed /\ part \in Parts /\ part # "haku"
    BY DEF Listed, Parts
<1>3. edits \in Nat /\ edits + 1 \in Nat /\ edits <= edits + 1 /\ 0 \in Nat
    BY DEF TypeInv
<1>4. Request(part, h, edits + 1, 0, {}) \in Requests
      /\ Request(part, h, edits + 1, 0, {}).part = part
    BY <1>2, <1>3, RequestType
<1>5. /\ local' \in [Docs -> Nat]
      /\ \A i \in Hakus : local'[<<"haku", i>>] = local[<<"haku", i>>]
    BY <1>1, <1>2, <1>3, OtherDocument DEF TypeInv
<1>6. TypeInv'
    BY <1>1, <1>3, <1>4, <1>5 DEF TypeInv, saves
<1>7. HakuRequests' = HakuRequests
    BY <1>1, <1>2, <1>4, OtherRequests
<1> QED BY <1>1, <1>3, <1>5, <1>6, <1>7 DEF Untouched, Local, Server

LEMMA MembersChange ==
    ASSUME Inv, NEW h \in Hakus, changeMembers(h) \/ selectHaku(h)
    PROVE  TypeInv' /\ Untouched
<1> USE DEF Inv
<1>1. PICK part \in {"members", "load"}, value \in Nat, brings \in {RoleLists, AllLists} :
          /\ edits' = edits + 1
          /\ requests' = requests \cup {Request(part, h, value, 0, brings)}
          /\ UNCHANGED <<local, shared, server, saves, roleTimer, serverError>>
          /\ saving \subseteq saving'
  <2>1. edits + 1 \in Nat /\ 0 \in Nat
      BY DEF TypeInv
  <2>2. CASE changeMembers(h)
      BY <2>1, <2>2 DEF changeMembers, NewEdit, Send, startSaving
  <2>3. CASE selectHaku(h)
      BY <2>1, <2>3 DEF selectHaku, NewEdit, Send, status
  <2> QED BY <2>2, <2>3
<1>2. Request(part, h, value, 0, brings) \in Requests
      /\ Request(part, h, value, 0, brings).part = part /\ part # "haku"
  <2>1. part \in Parts \cup {"load"} /\ 0 \in Nat /\ brings \in SUBSET (Parts \ {"haku"})
      BY DEF Parts, RoleLists, AllLists, RoleRows
  <2> QED BY <2>1, RequestType
<1>3. TypeInv'
    BY <1>1, <1>2 DEF TypeInv, saves
<1>4. HakuRequests' = HakuRequests
    BY <1>1, <1>2, OtherRequests
<1>5. edits <= edits'
    BY <1>1 DEF TypeInv
<1> QED BY <1>1, <1>3, <1>4, <1>5 DEF Untouched, Local, Server

\* Role rows wait for a timer: no request yet.
LEMMA RowsWait ==
    ASSUME Inv, NEW h \in Hakus, NEW r \in RoleRows,
           debouncedSaveRole(r, h) \/ saveRoleImmediately(h) \/ retypeRole(r, h)
    PROVE  TypeInv' /\ Untouched
<1> USE DEF Inv
<1>1. edits' = edits + 1 /\ edits \in Nat /\ edits' \in Nat /\ edits <= edits'
    BY DEF debouncedSaveRole, saveRoleImmediately, retypeRole, NewEdit, TypeInv
<1>2. /\ UNCHANGED <<shared, server, saves, requests, serverError>>
      /\ saving \subseteq saving'
  <2>1. CASE debouncedSaveRole(r, h)
      BY <2>1 DEF debouncedSaveRole, startSaving
  <2>2. CASE saveRoleImmediately(h)
      BY <2>2 DEF saveRoleImmediately, startSaving
  <2>3. CASE retypeRole(r, h)
      BY <2>3 DEF retypeRole, status
  <2> QED BY <2>1, <2>2, <2>3
<1>3. PICK row \in RoleRows, v \in Nat : local' = [local EXCEPT ![<<row, h>>] = v]
  <2>1. CASE debouncedSaveRole(r, h)
      BY <1>1, <2>1 DEF debouncedSaveRole
  <2>2. CASE saveRoleImmediately(h)
      BY <1>1, <2>2 DEF saveRoleImmediately, RoleRows
  <2>3. CASE retypeRole(r, h)
    <3>1. shared[<<r, h>>] \in Nat
        BY DEF TypeInv
    <3> QED BY <2>3, <3>1 DEF retypeRole
  <2> QED BY <2>1, <2>2, <2>3
<1>4. <<row, h>> \in Listed
    BY HakuFacts
<1>5. /\ local' \in [Docs -> Nat]
      /\ \A i \in Hakus : local'[<<"haku", i>>] = local[<<"haku", i>>]
    BY <1>3, <1>4, OtherDocument DEF TypeInv
<1>6. roleTimer' \in [Timers -> Rows]
  <2>1. \A rr \in RoleRows, brings \in {RoleLists, {}} :
            [doc |-> <<rr, h>>, value |-> edits + 1, brings |-> brings] \in Rows
      BY <1>1 DEF Rows, RoleLists, RoleRows, Parts
  <2>2. NoRow \in Rows /\ "other" \in RoleRows
      BY DEF Rows, RoleRows
  <2>3. roleTimer \in [Timers -> Rows]
      BY DEF TypeInv
  <2>4. CASE debouncedSaveRole(r, h)
      BY <2>1, <2>3, <2>4 DEF debouncedSaveRole
  <2>5. CASE saveRoleImmediately(h)
    <3>1. PICK brings \in {RoleLists, {}} :
              roleTimer' = [kind \in Timers |->
                  IF kind = "debounced" THEN NoRow
                  ELSE [doc |-> <<"other", h>>, value |-> edits + 1, brings |-> brings]]
        BY <2>5 DEF saveRoleImmediately
    <3> QED BY <2>1, <2>2, <3>1
  <2>6. CASE retypeRole(r, h)
      BY <2>3, <2>6 DEF retypeRole
  <2> QED BY <2>4, <2>5, <2>6
<1>7. TypeInv'
    BY <1>1, <1>2, <1>5, <1>6 DEF TypeInv, saves
<1> QED BY <1>1, <1>2, <1>5, <1>7 DEF Untouched, Local, Server, HakuRequests

LEMMA TimersCall ==
    ASSUME Inv, NEW kind \in Timers, callSaveRole(kind)
    PROVE  TypeInv' /\ Untouched
<1> USE DEF Inv
<1> DEFINE row == roleTimer[kind]
           q == Request(row.doc[1], row.doc[2], row.value, 0, row.brings)
<1>1. row \in [doc : RoleRows \X Hakus, value : Nat, brings : SUBSET (Parts \ {"haku"})]
  <2>1. row \in [doc : RoleRows \X Hakus, value : Nat, brings : {RoleLists, {}}]
      BY DEF callSaveRole, TypeInv, Rows
  <2>2. RoleLists \in SUBSET (Parts \ {"haku"})
      BY DEF RoleLists, RoleRows, Parts
  <2> QED BY <2>1, <2>2
<1>2. row.doc[1] \in RoleRows /\ row.doc[2] \in Hakus /\ row.value \in Nat /\ row.brings \in SUBSET (Parts \ {"haku"})
    BY <1>1
<1>3. row.doc[1] \in Parts /\ row.doc[1] # "haku"
    BY <1>2 DEF RoleRows, Parts
<1>4. q \in Requests /\ q.part # "haku"
  <2>1. row.doc[1] \in Parts \cup {"load"} /\ 0 \in Nat
      BY <1>3
  <2> QED BY <1>2, <1>3, <2>1, RequestType
<1>5. /\ requests' = requests \cup {q}
      /\ roleTimer' = [roleTimer EXCEPT ![kind] = NoRow]
      /\ UNCHANGED <<documents, saves, status>>
    BY DEF callSaveRole, Send
<1>6. HakuRequests' = HakuRequests
    BY <1>4, <1>5, OtherRequests
<1>7. TypeInv'
    BY <1>4, <1>5 DEF TypeInv, saves, documents, Rows
<1>8. UNCHANGED <<local, server, edits, saves, saving, serverError>> /\ edits <= edits'
    BY <1>5 DEF documents, status, TypeInv
<1> QED BY <1>6, <1>7, <1>8 DEF Untouched, Local, Server

\* Answers about the other parts, and lists that come along.
LEMMA PartsAnswered ==
    ASSUME Inv, NEW q \in requests, PartSaved(q) \/ Loaded(q) \/ PartFails(q) \/ LoadFails(q)
    PROVE  TypeInv' /\ Untouched
<1> USE DEF Inv
<1>1. q \in Requests /\ q.part # "haku"
    BY DEF TypeInv, PartSaved, Loaded, PartFails, LoadFails
<1>2. requests' = requests \ {q} /\ UNCHANGED <<server, edits, saves, roleTimer>>
    BY DEF PartSaved, Loaded, PartFails, LoadFails, documents
<1>3. /\ local' \in [Docs -> Nat] /\ shared' \in [RoleRows \X Hakus -> Nat]
      /\ \A h \in Hakus : local'[<<"haku", h>>] = local[<<"haku", h>>]
  <2>1. CASE PartSaved(q) \/ Loaded(q)
    <3>1. local' = Brought(q, local) /\ shared' = Brought(q, shared)
        BY <2>1 DEF PartSaved, Loaded
    <3>2. Docs \in SUBSET Docs /\ RoleRows \X Hakus \in SUBSET Docs
        BY HakuFacts
    <3>3. local \in [Docs -> Nat] /\ shared \in [RoleRows \X Hakus -> Nat]
        BY DEF TypeInv
    <3>4. /\ Brought(q, local) \in [Docs -> Nat]
          /\ \A h \in Hakus : Brought(q, local)[<<"haku", h>>] = local[<<"haku", h>>]
        BY <1>1, <3>2, <3>3, BroughtType, HakuFacts
    <3>5. Brought(q, shared) \in [RoleRows \X Hakus -> Nat]
        BY <1>1, <3>2, <3>3, BroughtType
    <3> QED BY <3>1, <3>4, <3>5
  <2>2. CASE PartFails(q) \/ LoadFails(q)
      BY <2>2 DEF PartFails, LoadFails, documents, TypeInv
  <2> QED BY <2>1, <2>2
<1>4. TypeInv'
    BY <1>2, <1>3 DEF TypeInv, saves
<1>5. HakuRequests' = HakuRequests
    BY <1>1, <1>2, OtherRequests
<1>6. /\ "saveInProgress" \in saving => "saveInProgress" \in saving'
      /\ hakuSaveErrors # {} /\ serverError # "" => serverError' # ""
  <2>1. q.part \in Parts \ {"haku"} => FlagOf[q.part] # "saveInProgress"
      BY DEF FlagOf, Parts, RoleRows
  <2>2. q.part # "load" => q.part \in Parts \ {"haku"}
      BY <1>1 DEF Requests
  <2>3. CASE PartSaved(q)
      BY <2>1, <2>2, <2>3 DEF PartSaved, saveSuccess, status
  <2>4. CASE Loaded(q) \/ LoadFails(q)
      BY <2>4 DEF Loaded, LoadFails, status
  <2>5. CASE PartFails(q)
      BY <2>1, <2>2, <2>5 DEF PartFails, saveFailure, status
  <2> QED BY <2>3, <2>4, <2>5
<1>7. edits <= edits'
    BY <1>2 DEF TypeInv
<1> QED BY <1>2, <1>3, <1>4, <1>5, <1>6, <1>7 DEF Untouched, Local, Server

-----------------------------------------------------------------------------
(* The save queue.                                                         *)

LEMMA SchedulesTypes ==
    ASSUME TypeInv, NEW h \in Hakus, NEW delay \in {"soon", "later"}, schedule(h, delay)
    PROVE  /\ queue' \in [Hakus -> Queues]
           /\ revisions' \in [Hakus -> Nat] /\ pendingHakuSaves' \in [Hakus -> Nat]
<1>1. revisions[h] + 1 \in Nat
    BY DEF TypeInv
<1>2. queue[h].pending \in Saves
    BY DEF TypeInv, Queues
<1>3. PICK p \in Saves : queue' = [queue EXCEPT ![h].timer = TRUE, ![h].pending = p]
    BY <1>1, <1>2 DEF schedule, Saves
<1>4. queue' \in [Hakus -> Queues]
    BY <1>3 DEF TypeInv, Queues
<1> QED BY <1>1, <1>4 DEF schedule, TypeInv

\* Scheduling a save after an edit of the haku, or of its projects.
LEMMA Schedules ==
    ASSUME Inv, NEW h \in Hakus, NEW delay \in {"soon", "later"}, schedule(h, delay),
           TypeInv', HakuRequests' = HakuRequests, UNCHANGED server,
           edits <= edits',
           \A i \in Hakus \ {h} : Local(i)' = Local(i),
           Local(h) <= Local(h)', Local(h)' <= edits',
           "saveInProgress" \in saving', UNCHANGED serverError
    PROVE  Inv'
<1> USE DEF Inv
<1>1. /\ revisions' = [revisions EXCEPT ![h] = revisions[h] + 1]
      /\ pendingHakuSaves' = [pendingHakuSaves EXCEPT ![h] = revisions[h] + 1]
      /\ UNCHANGED hakuSaveErrors
    BY DEF schedule
<1>2. revisions[h] \in Nat /\ revisions'[h] = revisions[h] + 1 /\ revisions'[h] > 0
      /\ pendingHakuSaves'[h] = revisions[h] + 1
      /\ \A i \in Hakus \ {h} : revisions'[i] = revisions[i]
                                /\ pendingHakuSaves'[i] = pendingHakuSaves[i]
    BY <1>1 DEF TypeInv
<1>3. \A i \in Hakus : queue'[i].running = queue[i].running
  <2> DEFINE p == queue'[h].pending
  <2>1. PICK p0 : queue' = [queue EXCEPT ![h].timer = TRUE, ![h].pending = p0]
      BY DEF schedule
  <2> QED BY <2>1 DEF TypeInv, Queues
<1>4. queue'[h].pending.rev = revisions[h] + 1
  <2> DEFINE waiting == queue[h].pending
             new == [rev |-> revisions[h] + 1, delay |-> delay, due |-> FALSE]
  <2>1. PICK p0 \in {[waiting EXCEPT !.rev = revisions[h] + 1], new} :
            queue' = [queue EXCEPT ![h].timer = TRUE, ![h].pending = p0]
      BY DEF schedule
  <2>2. waiting \in Saves
      BY DEF TypeInv, Queues
  <2>3. p0.rev = revisions[h] + 1
      BY <2>1, <2>2 DEF Saves
  <2> QED BY <2>1, <2>3 DEF TypeInv, Queues
<1>5. \A i \in Hakus \ {h} : queue'[i] = queue[i]
    BY DEF schedule, TypeInv
<1>6. \A i \in Hakus : Server(i)' = Server(i) /\ Local(i) \in Nat /\ Server(i) \in Nat
    BY HakuFacts DEF Server, Local, TypeInv
<1>7. edits \in Nat /\ edits' \in Nat /\ Local(h)' \in Nat
    BY HakuFacts DEF TypeInv, Local
<1>8. \A i \in Hakus : Scheduled(i)'
  <2> SUFFICES ASSUME NEW i \in Hakus PROVE Scheduled(i)'
      OBVIOUS
  <2>1. CASE i = h
      BY <1>2, <1>4, <2>1 DEF Scheduled
  <2>2. CASE i # h
      BY <1>2, <1>5, <2>2 DEF Scheduled, QueueInv
  <2> QED BY <2>1, <2>2
<1>9. \A i \in Hakus : (Server(i) <= Local(i) /\ Local(i) <= edits)'
    BY <1>6, <1>7 DEF QueueInv
<1>10. \A q \in HakuRequests : InFlight(q)'
  <2> SUFFICES ASSUME NEW q \in HakuRequests PROVE InFlight(q)'
      OBVIOUS
  <2>1. InFlight(q) /\ q.haku \in Hakus /\ q.value \in Nat /\ q.rev \in Nat
      BY DEF QueueInv, HakuRequests, TypeInv, Requests
  <2>2. queue'[q.haku].running
      BY <1>3, <2>1 DEF InFlight
  <2>3. CASE q.haku = h
      BY <1>2, <1>6, <1>7, <2>1, <2>2, <2>3 DEF InFlight
  <2>4. CASE q.haku # h
      BY <1>2, <1>6, <2>1, <2>2, <2>4 DEF InFlight
  <2> QED BY <2>3, <2>4
<1>11. QueueInv'
    BY <1>8, <1>9, <1>10 DEF QueueInv
<1>12. StatusInv'
  <2>1. ASSUME NEW i \in Hakus, pendingHakuSaves'[i] = 0
        PROVE  i \in hakuSaveErrors' \/ Local(i)' = Server(i)'
    <3>1. i # h /\ pendingHakuSaves[i] = 0
        BY <1>2, <2>1
    <3> QED BY <1>1, <1>6, <3>1 DEF StatusInv
  <2>2. hakuSaveErrors' # {} => serverError' # ""
      BY <1>1 DEF StatusInv
  <2> QED BY <2>1, <2>2 DEF StatusInv
<1> QED BY <1>11, <1>12

LEMMA FieldsAreUpdated ==
    ASSUME Inv, NEW h \in Hakus, NEW delay \in {"soon", "later"}, updateField(h, delay)
    PROVE  /\ Inv'
           /\ Local(h) < Local(h)' /\ UNCHANGED server
           /\ \A i \in Hakus \ {h} : Local(i)' = Local(i)
<1> USE DEF Inv
<1>1. /\ edits' = edits + 1 /\ local' = [local EXCEPT ![<<"haku", h>>] = edits + 1]
      /\ schedule(h, delay)
      /\ saving' = saving \cup {"saveInProgress"}
      /\ UNCHANGED <<shared, server, roleTimer, requests, serverError>>
    BY DEF updateField, NewEdit, startSaving
<1>2. edits \in Nat /\ Local(h) \in Nat /\ Local(h) <= edits /\ local \in [Docs -> Nat]
    BY HakuFacts DEF TypeInv, Local, QueueInv
<1>3. local' \in [Docs -> Nat] /\ Local(h)' = edits + 1
      /\ \A i \in Hakus \ {h} : Local(i)' = Local(i)
    BY <1>1, <1>2, HakuFacts DEF Local
<1>4. TypeInv'
    BY <1>1, <1>2, <1>3, SchedulesTypes DEF TypeInv
<1>5. HakuRequests' = HakuRequests
    BY <1>1 DEF HakuRequests
<1>6. edits <= edits' /\ Local(h) <= Local(h)' /\ Local(h)' <= edits' /\ Local(h) < Local(h)'
    BY <1>1, <1>2, <1>3
<1> QED BY <1>1, <1>3, <1>4, <1>5, <1>6, Schedules

LEMMA ProjectsAreUpdated ==
    ASSUME Inv, NEW h \in Hakus, updateProjects(h)
    PROVE  Inv' /\ UNCHANGED server /\ \A i \in Hakus : Local(i)' = Local(i)
<1> USE DEF Inv
<1> DEFINE q == Request("projects", h, edits + 1, 0, {})
<1>1. /\ edits' = edits + 1 /\ local' = [local EXCEPT ![<<"projects", h>>] = edits + 1]
      /\ schedule(h, "later")
      /\ "saveInProgress" \in saving'
      /\ requests' = requests \cup {q}
      /\ UNCHANGED <<shared, server, roleTimer, serverError>>
    BY DEF updateProjects, NewEdit, Send
<1>2. edits \in Nat /\ edits + 1 \in Nat /\ 0 \in Nat /\ local \in [Docs -> Nat]
    BY DEF TypeInv
<1>3. <<"projects", h>> \in Listed
    BY DEF Listed, Parts
<1>4. local' \in [Docs -> Nat] /\ \A i \in Hakus : Local(i)' = Local(i)
    BY <1>1, <1>2, <1>3, OtherDocument DEF Local
<1>5. q \in Requests /\ q.part = "projects"
  <2>1. "projects" \in Parts \cup {"load"} /\ {} \in SUBSET (Parts \ {"haku"})
      BY DEF Parts
  <2> QED BY <1>2, <2>1, RequestType
<1>6. TypeInv'
    BY <1>1, <1>2, <1>4, <1>5, SchedulesTypes DEF TypeInv
<1>7. HakuRequests' = HakuRequests
    BY <1>1, <1>5, OtherRequests
<1>8. edits <= edits' /\ \A i \in Hakus : Local(i) \in Nat /\ Local(i) <= Local(i) /\ Local(i) <= edits'
    BY <1>1, <1>2, HakuFacts DEF Local, QueueInv
<1> HIDE DEF q
<1>9. Local(h) <= Local(h)' /\ Local(h)' <= edits'
    BY <1>4, <1>8
<1>10. Inv'
    BY <1>1, <1>4, <1>6, <1>7, <1>8, <1>9, Schedules
<1> QED BY <1>1, <1>4, <1>10

\* A save starts if it is ready, and the queue is free of saves then.
LEMMA SaveStarts ==
    ASSUME TypeInv, QueueInv, NEW h \in Hakus, NEW s \in Queues, NEW R \in SUBSET requests,
           s.pending = queue[h].pending,
           \A q \in R : q.part = "haku" /\ q.haku = h => s.running,
           queue' = [queue EXCEPT ![h] = runReadySave(s)],
           requests' = R \cup SaveOf(h, s),
           UNCHANGED <<local, shared, server, edits, revisions, roleTimer>>,
           pendingHakuSaves' \in [Hakus -> Nat],
           \A i \in Hakus : pendingHakuSaves'[i] \in {0, revisions[i]}
    PROVE  TypeInv' /\ QueueInv'
<1> DEFINE new == Request("haku", h, Local(h), s.pending.rev, {})
<1>1. /\ queue' \in [Hakus -> Queues] /\ queue'[h] = runReadySave(s)
      /\ \A i \in Hakus \ {h} : queue'[i] = queue[i]
    BY QueueFacts DEF TypeInv
<1>2. \A i \in Hakus : /\ Local(i)' = Local(i) /\ Server(i)' = Server(i)
                       /\ Local(i) \in Nat /\ Server(i) \in Nat /\ Server(i) <= Local(i)
    BY HakuFacts DEF Local, Server, TypeInv, QueueInv
<1>3. /\ new \in Requests /\ new.part = "haku" /\ new.haku = h /\ new.value = Local(h)
      /\ new.rev = s.pending.rev /\ new.stage = "sent"
  <2>1. "haku" \in Parts \cup {"load"} /\ {} \in SUBSET (Parts \ {"haku"}) /\ s.pending.rev \in Nat
      BY DEF Parts, Queues, Saves
  <2> QED BY <1>2, <2>1, RequestType
<1>4. SaveOf(h, s) = IF Ready(s) THEN {new} ELSE {}
    BY DEF SaveOf, Local
<1> HIDE DEF new
<1>5. TypeInv'
    BY <1>1, <1>3, <1>4 DEF TypeInv
<1>6. \A i \in Hakus : Scheduled(i)'
  <2> SUFFICES ASSUME NEW i \in Hakus PROVE Scheduled(i)'
      OBVIOUS
  <2>1. queue'[i].pending \in {queue[i].pending, NoSave}
      BY <1>1, QueueFacts
  <2>2. Scheduled(i)
      BY DEF QueueInv
  <2> QED BY <2>1, <2>2 DEF Scheduled
<1>7. Ready(s) => new.rev = revisions[h] /\ revisions[h] > 0 /\ ~s.running
  <2> SUFFICES ASSUME Ready(s) PROVE new.rev = revisions[h] /\ revisions[h] > 0 /\ ~s.running
      OBVIOUS
  <2>1. s.pending # NoSave /\ ~s.running
      BY DEF Ready
  <2>2. Scheduled(h)
      BY DEF QueueInv
  <2> QED BY <1>3, <2>1, <2>2 DEF Scheduled
<1>8. \A q \in HakuRequests' : (q \in HakuRequests /\ q \in R) \/ (q = new /\ Ready(s))
  <2>1. \A q \in requests' : q \in R \/ (q = new /\ Ready(s))
    <3>1. CASE Ready(s)
        BY <1>4, <3>1
    <3>2. CASE ~Ready(s)
      <4>1. SaveOf(h, s) = {}
          BY <1>4, <3>2
      <4> QED BY <4>1
    <3> QED BY <3>1, <3>2
  <2> QED BY <2>1 DEF HakuRequests
<1>9. \A q \in HakuRequests' : InFlight(q)'
  <2> SUFFICES ASSUME NEW q \in HakuRequests' PROVE InFlight(q)'
      OBVIOUS
  <2>1. CASE q = new /\ Ready(s)
    <3>1. queue'[h].running /\ revisions[h] \in Nat
        BY <1>1, <2>1, QueueFacts DEF TypeInv
    <3> QED BY <1>2, <1>3, <1>7, <2>1, <3>1 DEF InFlight
  <2>2. CASE q \in HakuRequests /\ q \in R
    <3>1. InFlight(q) /\ q.haku \in Hakus /\ q.part = "haku"
        BY <2>2 DEF QueueInv, HakuRequests, TypeInv, Requests
    <3>2. queue'[q.haku].running
      <4>1. CASE q.haku = h
        <5>1. s.running /\ ~Ready(s)
            BY <2>2, <3>1, <4>1 DEF Ready
        <5> QED BY <1>1, <4>1, <5>1, QueueFacts
      <4>2. CASE q.haku # h
          BY <1>1, <3>1, <4>2 DEF InFlight
      <4> QED BY <4>1, <4>2
    <3> QED BY <1>2, <3>1, <3>2 DEF InFlight
  <2> QED BY <1>8, <2>1, <2>2
<1>10. \A p, q \in HakuRequests' : p.haku = q.haku => p = q
  <2> SUFFICES ASSUME NEW p \in HakuRequests', NEW q \in HakuRequests', p.haku = q.haku
               PROVE  p = q
      OBVIOUS
  <2>1. \A r \in HakuRequests : r \in R /\ Ready(s) => r.haku # h
      BY <1>7 DEF HakuRequests
  <2>2. \A r, t \in HakuRequests : r.haku = t.haku => r = t
      BY DEF QueueInv
  <2> QED BY <1>3, <1>8, <2>1, <2>2
<1>11. edits' = edits /\ \A i \in Hakus : Local(i) <= edits
    BY DEF QueueInv
<1> QED BY <1>2, <1>5, <1>6, <1>9, <1>10, <1>11 DEF QueueInv

LEMMA TimersFire ==
    ASSUME Inv, NEW h \in Hakus, DeadlinePasses(h) \/ TimerFires(h)
    PROVE  /\ Inv' /\ UNCHANGED <<local, server>>
<1> USE DEF Inv
<1>1. UNCHANGED <<local, shared, server, edits, revisions, pendingHakuSaves, hakuSaveErrors,
                  roleTimer, saving, serverError>>
    BY DEF DeadlinePasses, TimerFires, documents, status
<1>2. \A i \in Hakus : Local(i)' = Local(i) /\ Server(i)' = Server(i)
    BY <1>1 DEF Local, Server
<1>3. StatusInv'
    BY <1>1, <1>2 DEF StatusInv
<1>4. CASE TimerFires(h)
  <2> DEFINE s == [queue[h] EXCEPT !.timer = FALSE]
  <2>1. s \in Queues /\ s.pending = queue[h].pending /\ s.running = queue[h].running
      BY DEF TypeInv, Queues
  <2>2. queue' = [queue EXCEPT ![h] = runReadySave(s)] /\ requests' = requests \cup SaveOf(h, s)
      BY <1>4 DEF TimerFires
  <2>3. \A q \in requests : q.part = "haku" /\ q.haku = h => s.running
      BY <2>1 DEF QueueInv, HakuRequests, InFlight
  <2>4. \A i \in Hakus : pendingHakuSaves'[i] \in {0, revisions[i]}
      BY <1>1 DEF QueueInv, Scheduled
  <2>5. pendingHakuSaves' \in [Hakus -> Nat]
      BY <1>1 DEF TypeInv
  <2> HIDE DEF s
  <2>6. TypeInv' /\ QueueInv'
      BY <1>1, <2>1, <2>2, <2>3, <2>4, <2>5, SaveStarts
  <2> QED BY <1>1, <1>3, <2>6
<1>5. CASE DeadlinePasses(h)
  <2>1. queue' = [queue EXCEPT ![h].pending.due = TRUE] /\ UNCHANGED requests
      BY <1>5 DEF DeadlinePasses
  <2>2. queue[h] \in Queues /\ queue[h].pending \in Saves
      BY DEF TypeInv, Queues
  <2>3. queue' \in [Hakus -> Queues]
      BY <2>1, <2>2 DEF TypeInv, Queues, Saves
  <2>4. \A i \in Hakus : queue'[i].running = queue[i].running
                        /\ queue'[i].pending.rev = queue[i].pending.rev
                        /\ (i # h => queue'[i] = queue[i])
      BY <2>1, <2>2 DEF TypeInv, Queues, Saves
  <2>5. TypeInv'
      BY <1>1, <2>1, <2>3 DEF TypeInv
  <2>6. \A i \in Hakus : Scheduled(i)'
    <3> SUFFICES ASSUME NEW i \in Hakus PROVE Scheduled(i)'
        OBVIOUS
    <3>1. Scheduled(i)
        BY DEF QueueInv
    <3>2. queue[h].pending # NoSave
        BY <1>5 DEF DeadlinePasses
    <3> QED BY <1>1, <2>4, <3>1, <3>2 DEF Scheduled
  <2>7. \A q \in HakuRequests' : q \in HakuRequests /\ q.haku \in Hakus
      BY <2>1 DEF HakuRequests, TypeInv, Requests
  <2>8. \A q \in HakuRequests' : InFlight(q)'
      BY <1>1, <1>2, <2>4, <2>7 DEF QueueInv, InFlight
  <2>9. QueueInv'
      BY <1>1, <1>2, <2>6, <2>7, <2>8 DEF QueueInv
  <2> QED BY <1>1, <1>3, <2>5, <2>9
<1> QED BY <1>4, <1>5

\* The answer to a save of the queue, good or bad, whether it still counts or not.
LEMMA SavesAreAnswered ==
    ASSUME Inv, NEW q \in requests, HakuSaved(q) \/ HakuFails(q)
    PROVE  Inv' /\ UNCHANGED <<local, server>>
<1> USE DEF Inv
<1> DEFINE h == q.haku
           s == afterSave(queue[h])
<1>1. /\ q \in HakuRequests /\ q \in Requests /\ h \in Hakus /\ InFlight(q)
      /\ (haku_fulfilled(q) /\ q.stage = "handled") \/ haku_rejected(q)
      /\ UNCHANGED <<local, shared, server, edits, revisions, roleTimer>>
      /\ queue' = [queue EXCEPT ![h] = runReadySave(s)]
      /\ requests' = (requests \ {q}) \cup SaveOf(h, s)
  <2>1. q \in Requests /\ q.part = "haku"
      BY DEF TypeInv, HakuSaved, HakuFails
  <2>2. q \in HakuRequests /\ h \in Hakus /\ InFlight(q)
      BY <2>1 DEF HakuRequests, QueueInv, Requests
  <2>3. CASE HakuSaved(q)
      BY <2>1, <2>2, <2>3 DEF HakuSaved, NextSave, documents
  <2>4. CASE HakuFails(q)
      BY <2>1, <2>2, <2>4 DEF HakuFails, NextSave, documents
  <2> QED BY <2>3, <2>4
<1>2. \A i \in Hakus : /\ Local(i)' = Local(i) /\ Server(i)' = Server(i)
    BY <1>1 DEF Local, Server
<1> HIDE DEF h
<1>3. pendingHakuSaves' \in {pendingHakuSaves, [pendingHakuSaves EXCEPT ![h] = 0]}
    BY <1>1 DEF haku_fulfilled, haku_rejected, h
<1>4. /\ pendingHakuSaves' \in [Hakus -> Nat]
      /\ \A i \in Hakus : pendingHakuSaves'[i] \in {0, revisions[i]}
      /\ \A i \in Hakus \ {h} : pendingHakuSaves'[i] = pendingHakuSaves[i]
    BY <1>1, <1>3 DEF TypeInv, QueueInv, Scheduled
<1>5. TypeInv' /\ QueueInv'
  <2>1. s \in Queues /\ s.pending = queue[h].pending
      BY <1>1, QueueFacts DEF TypeInv
  <2>2. \A p \in requests \ {q} : p.part = "haku" /\ p.haku = h => s.running
      BY <1>1 DEF QueueInv, HakuRequests, h
  <2>3. requests \ {q} \in SUBSET requests
      OBVIOUS
  <2> HIDE DEF s
  <2> QED BY <1>1, <1>4, <2>1, <2>2, <2>3, SaveStarts
<1>6. \A i \in Hakus \ {h} : pendingHakuSaves'[i] = 0 => i \in hakuSaveErrors \/ Local(i)' = Server(i)'
    BY <1>2, <1>4 DEF StatusInv
<1>7. CASE Awaited(q) /\ haku_fulfilled(q) /\ q.stage = "handled"
  <2>1. /\ hakuSaveErrors' = hakuSaveErrors \ {h}
        /\ (\E i \in Hakus : pendingHakuSaves'[i] # 0) => saving' = saving
        /\ hakuSaveErrors' # {} => serverError' # ""
      BY <1>7 DEF haku_fulfilled, h
  <2>2. Local(h) = Server(h)
    <3>1. pendingHakuSaves[h] = q.rev /\ q.rev > 0
        BY <1>1, <1>7 DEF Awaited, InFlight, Requests, h
    <3>2. q.rev = revisions[h]
        BY <1>1, <3>1 DEF QueueInv, Scheduled
    <3> QED BY <1>1, <1>7, <3>2 DEF InFlight, h
  <2>3. \A i \in Hakus : pendingHakuSaves'[i] = 0 => i \in hakuSaveErrors' \/ Local(i)' = Server(i)'
      BY <1>2, <1>6, <2>1, <2>2
  <2>4. \A i \in Hakus : pendingHakuSaves'[i] # 0 => pendingHakuSaves[i] # 0 \/ i = h
      BY <1>4
  <2>5. \A i \in Hakus : pendingHakuSaves'[i] # 0 => "saveInProgress" \in saving'
    <3> SUFFICES ASSUME NEW i \in Hakus, pendingHakuSaves'[i] # 0
                 PROVE  "saveInProgress" \in saving'
        OBVIOUS
    <3>1. saving' = saving
        BY <2>1
    <3>2. pendingHakuSaves[h] # 0
        BY <1>1, <1>7 DEF Awaited, InFlight, Requests, h
    <3> QED BY <1>1, <2>4, <3>1, <3>2 DEF StatusInv
  <2>6. StatusInv'
      BY <2>1, <2>3, <2>5 DEF StatusInv
  <2> QED BY <1>1, <1>5, <2>6
<1>8. CASE Awaited(q) /\ haku_rejected(q)
  <2>1. /\ hakuSaveErrors' = hakuSaveErrors \cup {h}
        /\ (\E i \in Hakus : pendingHakuSaves'[i] # 0) => saving' = saving
        /\ serverError' = "error"
      BY <1>8 DEF haku_rejected, h
  <2>2. \A i \in Hakus : pendingHakuSaves'[i] = 0 => i \in hakuSaveErrors' \/ Local(i)' = Server(i)'
      BY <1>6, <2>1
  <2>3. \A i \in Hakus : pendingHakuSaves'[i] # 0 => "saveInProgress" \in saving'
    <3> SUFFICES ASSUME NEW i \in Hakus, pendingHakuSaves'[i] # 0
                 PROVE  "saveInProgress" \in saving'
        OBVIOUS
    <3>1. saving' = saving
        BY <2>1
    <3>2. pendingHakuSaves[h] # 0
        BY <1>1, <1>8 DEF Awaited, InFlight, Requests, h
    <3> QED BY <1>1, <1>4, <3>1, <3>2 DEF StatusInv
  <2>4. StatusInv'
      BY <2>1, <2>2, <2>3 DEF StatusInv
  <2> QED BY <1>1, <1>5, <2>4
<1>9. CASE ~Awaited(q)
  <2>1. UNCHANGED <<pendingHakuSaves, hakuSaveErrors, saving, serverError>>
      BY <1>1, <1>9 DEF haku_fulfilled, haku_rejected, status
  <2>2. StatusInv'
      BY <1>2, <2>1 DEF StatusInv
  <2> QED BY <1>1, <1>5, <2>2
<1> QED BY <1>1, <1>7, <1>8, <1>9

-----------------------------------------------------------------------------
(* The server.                                                             *)

LEMMA ServerHandles ==
    ASSUME Inv, NEW q \in requests, Handled(q)
    PROVE  /\ Inv'
           /\ UNCHANGED local
           /\ \/ \A i \in Hakus : Server(i)' = Server(i)
              \/ /\ q.part = "haku" /\ q.haku \in Hakus
                 /\ Server(q.haku)' = q.value
                 /\ Server(q.haku) <= q.value /\ q.value <= Local(q.haku)
                 /\ \A i \in Hakus \ {q.haku} : Server(i)' = Server(i)
<1> USE DEF Inv
<1> DEFINE d == <<q.part, q.haku>>
           q2 == [q EXCEPT !.stage = "handled", !.reply = [e \in Replied(q) |-> server'[e]]]
<1>1. /\ server' = [e \in Docs |-> IF e = d THEN q.value ELSE server[e]]
      /\ requests' = (requests \ {q}) \cup {q2}
      /\ UNCHANGED <<local, shared, edits, saves, roleTimer, status>>
    BY DEF Handled
<1>2. q \in Requests /\ q.value \in Nat /\ q.haku \in Hakus
    BY DEF TypeInv, Requests
<1>3. server' \in [Docs -> Nat]
    BY <1>1, <1>2 DEF TypeInv
<1>4. /\ q2 \in Requests /\ q2.part = q.part /\ q2.haku = q.haku /\ q2.value = q.value
      /\ q2.rev = q.rev
  <2>1. [e \in Replied(q) |-> server'[e]] \in Replies
      BY <1>2, <1>3, ReadType
  <2> QED BY <1>2, <2>1 DEF Requests
<1> HIDE DEF q2
<1>5. TypeInv'
    BY <1>1, <1>3, <1>4 DEF TypeInv, saves
<1>6. \A i \in Hakus : Local(i)' = Local(i)
    BY <1>1 DEF Local
<1>7. CASE q.part # "haku"
  <2>1. \A i \in Hakus : Server(i)' = Server(i)
      BY <1>1, <1>7, HakuFacts DEF Server
  <2>2. HakuRequests' = HakuRequests
      BY <1>1, <1>4, <1>7 DEF HakuRequests
  <2>3. Untouched
    <3>1. UNCHANGED <<saves, edits, saving, serverError>> /\ edits <= edits'
        BY <1>1 DEF status, TypeInv
    <3> QED BY <1>6, <2>1, <2>2, <3>1 DEF Untouched
  <2> QED BY <1>1, <1>5, <2>1, <2>3, UntouchedKeeps
<1>8. CASE q.part = "haku"
  <2> DEFINE h == q.haku
  <2>1. q \in HakuRequests /\ InFlight(q)
      BY <1>8 DEF HakuRequests, QueueInv
  <2>2. /\ Server(h)' = q.value
        /\ \A i \in Hakus \ {h} : Server(i)' = Server(i)
      BY <1>1, <1>2, <1>8, HakuFacts DEF Server
  <2>3. /\ Server(h) <= q.value /\ q.value <= Local(h)
        /\ 0 < q.rev /\ q.rev <= revisions[h] /\ queue[h].running
        /\ q.rev = revisions[h] => q.value = Local(h)
      BY <2>1 DEF InFlight
  <2>4. \A p \in HakuRequests' : p = q2 \/ (p \in HakuRequests /\ p # q)
    <3>1. requests' = (requests \ {q}) \cup {q2}
        BY <1>1
    <3> QED BY <3>1 DEF HakuRequests
  <2>5. \A p \in HakuRequests : p # q => p.haku # h
      BY <2>1 DEF QueueInv
  <2>6. \A i \in Hakus : Local(i) \in Nat /\ Server(i) \in Nat
      BY HakuFacts DEF Local, Server, TypeInv
  <2>7. UNCHANGED <<queue, revisions, pendingHakuSaves, hakuSaveErrors, edits, saving, serverError>>
      BY <1>1 DEF saves, status
  <2>8. \A i \in Hakus : (Server(i) <= Local(i) /\ Local(i) <= edits /\ Scheduled(i))'
    <3> SUFFICES ASSUME NEW i \in Hakus
                 PROVE  (Server(i) <= Local(i) /\ Local(i) <= edits /\ Scheduled(i))'
        OBVIOUS
    <3>1. Server(i) <= Local(i) /\ Local(i) <= edits /\ Scheduled(i)
        BY DEF QueueInv
    <3>2. Scheduled(i)'
        BY <2>7, <3>1 DEF Scheduled
    <3>3. Server(i)' <= Local(i)
        BY <1>2, <2>2, <2>3, <3>1
    <3> QED BY <1>6, <2>7, <3>1, <3>2, <3>3
  <2>9. \A p \in HakuRequests' : InFlight(p)'
    <3> SUFFICES ASSUME NEW p \in HakuRequests' PROVE InFlight(p)'
        OBVIOUS
    <3>1. CASE p = q2
      <4>1. p.haku = h /\ p.value = q.value /\ p.rev = q.rev
          BY <1>4, <3>1
      <4>2. q.value \in Nat /\ q.value <= q.value
          BY <1>2
      <4> QED BY <1>2, <1>6, <2>2, <2>3, <2>7, <4>1, <4>2 DEF InFlight, Local, Server
    <3>2. CASE p \in HakuRequests /\ p # q
      <4>1. p.haku # h /\ p.haku \in Hakus /\ InFlight(p)
          BY <2>5, <3>2 DEF HakuRequests, TypeInv, Requests, QueueInv
      <4> QED BY <1>6, <2>2, <2>7, <4>1 DEF InFlight
    <3> QED BY <2>4, <3>1, <3>2
  <2>10. \A p, r \in HakuRequests' : p.haku = r.haku => p = r
    <3> SUFFICES ASSUME NEW p \in HakuRequests', NEW r \in HakuRequests', p.haku = r.haku
                 PROVE  p = r
        OBVIOUS
    <3>1. \A t, u \in HakuRequests : t.haku = u.haku => t = u
        BY DEF QueueInv
    <3> QED BY <1>4, <2>4, <2>5, <3>1
  <2>11. StatusInv'
    <3>1. ASSUME NEW i \in Hakus, pendingHakuSaves'[i] = 0
          PROVE  i \in hakuSaveErrors' \/ Local(i)' = Server(i)'
      <4>1. i \in hakuSaveErrors \/ Local(i) = Server(i)
          BY <2>7, <3>1 DEF StatusInv
      <4>2. i = h /\ Local(i) = Server(i) => q.value = Local(i)
          BY <1>2, <2>3, <2>6
      <4> QED BY <1>6, <2>2, <2>7, <4>1, <4>2
    <3>2. \A i \in Hakus : pendingHakuSaves'[i] # 0 => "saveInProgress" \in saving'
        BY <2>7 DEF StatusInv
    <3>3. hakuSaveErrors' # {} => serverError' # ""
        BY <2>7 DEF StatusInv
    <3> QED BY <3>1, <3>2, <3>3 DEF StatusInv
  <2> QED BY <1>1, <1>2, <1>5, <1>8, <2>2, <2>3, <2>8, <2>9, <2>10, <2>11 DEF QueueInv
<1> QED BY <1>7, <1>8

-----------------------------------------------------------------------------
(* Steps: what each keeps, and what it is for the autosaved documents.     *)

\* Steps that neither change fields nor what the server has of them.
LEMMA NothingHappens ==
    ASSUME Inv, \A i \in Hakus : Local(i)' = Local(i) /\ Server(i)' = Server(i)
    PROVE  UNCHANGED <<HakuDocs, HakuStored>>
BY DEF HakuDocs, HakuStored, Local, Server

LEMMA UserSteps ==
    ASSUME Inv, NEW h \in Hakus, User(h)
    PROVE  Inv' /\ [A!Next]_(A!vars)
<1>1. CASE \E delay \in {"soon", "later"} : updateField(h, delay)
  <2>1. /\ Inv' /\ Local(h) < Local(h)' /\ UNCHANGED server
        /\ \A i \in Hakus \ {h} : Local(i)' = Local(i)
      BY <1>1, FieldsAreUpdated
  <2>2. A!Edit(h)
      BY <2>1 DEF A!Edit, HakuDocs, HakuStored, Local, Inv, TypeInv
  <2> QED BY <2>1, <2>2 DEF A!Next
<1>2. CASE updateProjects(h)
  <2>1. Inv' /\ \A i \in Hakus : Local(i)' = Local(i) /\ Server(i)' = Server(i)
      BY <1>2, ProjectsAreUpdated DEF Server
  <2> QED BY <2>1, NothingHappens DEF A!vars
<1>3. CASE ~(\E delay \in {"soon", "later"} : updateField(h, delay)) /\ ~updateProjects(h)
  <2>1. TypeInv' /\ Untouched
    <3>1. CASE replaceTalousarviotilit(h) \/ startManuallySaving(h)
        BY <3>1, PostsAtOnce
    <3>2. CASE changeMembers(h) \/ selectHaku(h)
        BY <3>2, MembersChange
    <3>3. CASE saveRoleImmediately(h)
      <4>1. "other" \in RoleRows
          BY DEF RoleRows
      <4> QED BY <3>3, <4>1, RowsWait
    <3>4. CASE \E r \in RoleRows : debouncedSaveRole(r, h) \/ retypeRole(r, h)
        BY <3>4, RowsWait
    <3> QED BY <1>3, <3>1, <3>2, <3>3, <3>4 DEF User
  <2>2. Inv'
      BY <2>1, UntouchedKeeps
  <2>3. \A i \in Hakus : Local(i)' = Local(i) /\ Server(i)' = Server(i)
      BY <2>1 DEF Untouched
  <2> QED BY <2>2, <2>3, NothingHappens DEF A!vars
<1> QED BY <1>1, <1>2, <1>3

LEMMA RequestSteps ==
    ASSUME Inv, NEW q \in requests, Respond(q) \/ Fail(q)
    PROVE  Inv' /\ [A!Next]_(A!vars)
<1>1. CASE Handled(q)
  <2>1. Inv' /\ UNCHANGED local
      BY <1>1, ServerHandles
  <2>2. \A i \in Hakus : Local(i)' = Local(i)
      BY <2>1 DEF Local
  <2>3. CASE \A i \in Hakus : Server(i)' = Server(i)
      BY <2>1, <2>2, <2>3, NothingHappens DEF A!vars
  <2>4. CASE ~ \A i \in Hakus : Server(i)' = Server(i)
    <3> DEFINE h == q.haku
    <3>1. /\ h \in Hakus /\ Server(h)' = q.value
          /\ Server(h) <= q.value /\ q.value <= Local(h)
          /\ \A i \in Hakus \ {h} : Server(i)' = Server(i)
        BY <1>1, <2>4, ServerHandles
    <3>2. q.value \in Nat /\ Server(h) \in Nat /\ Local(h) \in Nat
        BY <3>1, HakuFacts DEF Inv, TypeInv, Requests, Server, Local
    <3>3. Server(h) # q.value
        BY <2>4, <3>1
    <3>4. q.value \in (Server(h) + 1)..Local(h)
        BY <3>1, <3>2, <3>3
    <3>5. HakuStored' = [HakuStored EXCEPT ![h] = q.value]
        BY <3>1 DEF HakuStored, Server
    <3>6. UNCHANGED HakuDocs
        BY <2>1 DEF HakuDocs
    <3>7. HakuStored[h] = Server(h) /\ HakuDocs[h] = Local(h)
        BY <3>1 DEF HakuStored, HakuDocs, Server, Local
    <3>8. A!Store(h)
        BY <3>4, <3>5, <3>6, <3>7 DEF A!Store
    <3> QED BY <2>1, <3>1, <3>8 DEF A!Next
  <2> QED BY <2>3, <2>4
<1>2. CASE HakuSaved(q) \/ HakuFails(q)
  <2>1. Inv' /\ \A i \in Hakus : Local(i)' = Local(i) /\ Server(i)' = Server(i)
      BY <1>2, SavesAreAnswered DEF Local, Server
  <2> QED BY <2>1, NothingHappens DEF A!vars
<1>3. CASE PartSaved(q) \/ Loaded(q) \/ PartFails(q) \/ LoadFails(q)
  <2>1. TypeInv' /\ Untouched
      BY <1>3, PartsAnswered
  <2>2. Inv'
      BY <2>1, UntouchedKeeps
  <2>3. \A i \in Hakus : Local(i)' = Local(i) /\ Server(i)' = Server(i)
      BY <2>1 DEF Untouched
  <2> QED BY <2>2, <2>3, NothingHappens DEF A!vars
<1> QED BY <1>1, <1>2, <1>3 DEF Respond, Fail

LEMMA Steps ==
    ASSUME Inv, [Next]_vars
    PROVE  Inv' /\ [A!Next]_(A!vars)
<1>1. CASE \E h \in Hakus : User(h)
    BY <1>1, UserSteps
<1>2. CASE \E h \in Hakus : DeadlinePasses(h) \/ TimerFires(h)
  <2>1. Inv' /\ \A i \in Hakus : Local(i)' = Local(i) /\ Server(i)' = Server(i)
      BY <1>2, TimersFire DEF Local, Server
  <2> QED BY <2>1, NothingHappens DEF A!vars
<1>3. CASE \E kind \in Timers : callSaveRole(kind)
  <2>1. TypeInv' /\ Untouched
      BY <1>3, TimersCall
  <2>2. Inv'
      BY <2>1, UntouchedKeeps
  <2>3. \A i \in Hakus : Local(i)' = Local(i) /\ Server(i)' = Server(i)
      BY <2>1 DEF Untouched
  <2> QED BY <2>2, <2>3, NothingHappens DEF A!vars
<1>4. CASE \E q \in requests : Respond(q) \/ Fail(q)
    BY <1>4, RequestSteps
<1>5. CASE UNCHANGED vars
  <2>1. TypeInv' /\ Untouched
    <3>1. UNCHANGED <<local, shared, server, edits, queue, revisions, pendingHakuSaves,
                      hakuSaveErrors, roleTimer, requests, saving, serverError>>
        BY <1>5 DEF vars, documents, saves, status
    <3>2. TypeInv' /\ edits <= edits'
        BY <3>1 DEF Inv, TypeInv
    <3> QED BY <3>1, <3>2 DEF Untouched, Local, Server, HakuRequests, saves
  <2>2. Inv'
      BY <2>1, UntouchedKeeps
  <2>3. \A i \in Hakus : Local(i)' = Local(i) /\ Server(i)' = Server(i)
      BY <2>1 DEF Untouched
  <2> QED BY <2>2, <2>3, NothingHappens DEF A!vars
<1> QED BY <1>1, <1>2, <1>3, <1>4, <1>5 DEF Next

-----------------------------------------------------------------------------
(* The parts that are posted on their own.                                 *)

LEMMA ListedFacts ==
    ASSUME NEW d \in Listed
    PROVE  /\ d[1] \in Parts \ {"haku"} /\ d[2] \in Hakus /\ d = <<d[1], d[2]>>
           /\ d \in Docs /\ d # <<>> /\ \A h : d # <<"haku", h>>
BY DEF Listed, Docs

LEMMA FlagFacts ==
    /\ \A p \in Parts \ {"haku"} : FlagOf[p] \in Flags /\ FlagOf[p] # "saveInProgress"
    /\ \A p \in RoleLists : p \in Parts \ {"haku"} /\ FlagOf[p] = "savingRoles"
    /\ \A p \in Parts : FlagOf[p] = "savingRoles" => p \in RoleLists
    /\ FlagOf["projects"] = "savingProjects" /\ FlagOf["tilit"] = "savingTalousarviotilit"
    /\ FlagOf["own"] = "savingManually" /\ FlagOf["members"] = "savingRoles"
    /\ \A p \in Parts : FlagOf[p] = "savingProjects" => p = "projects"
    /\ \A p \in Parts : FlagOf[p] = "savingTalousarviotilit" => p = "tilit"
    /\ \A p \in Parts : FlagOf[p] = "savingManually" => p = "own"
    /\ {"projects", "tilit", "own", "members"} \subseteq Parts \ {"haku"}
BY DEF FlagOf, Flags, Parts, RoleLists, RoleRows

LEMMA RowFacts ==
    ASSUME TypeInv, NEW k \in Timers
    PROVE  /\ roleTimer[k] = NoRow \/ roleTimer[k].doc \in RoleRows \X Hakus
           /\ roleTimer[k] = NoRow <=> roleTimer[k].doc = <<>>
           /\ roleTimer[k].brings \in {RoleLists, {}}
<1>1. roleTimer[k] \in Rows
    BY DEF TypeInv
<1>2. CASE roleTimer[k] = NoRow
    BY <1>2 DEF NoRow
<1>3. CASE roleTimer[k] # NoRow
  <2>1. roleTimer[k] \in [doc : RoleRows \X Hakus, value : Nat, brings : {RoleLists, {}}]
      BY <1>1, <1>3 DEF Rows
  <2>2. roleTimer[k].doc \in RoleRows \X Hakus /\ roleTimer[k].brings \in {RoleLists, {}}
      BY <2>1
  <2>3. roleTimer[k].doc # <<>>
      BY <2>2
  <2> QED BY <1>3, <2>2, <2>3
<1> QED BY <1>2, <1>3

\* What a flag says of a document holds for every request of the same flag.
Under(q, d) == q.part \in Parts \ {"haku"} /\ FlagOf[q.part] = FlagOf[d[1]]
Own(q, d) == <<q.part, q.haku>> = d
Free(d) == (\A q \in requests : ~Own(q, d)) /\ (\A k \in Timers : roleTimer[k].doc # d)

\* An answer that brings a document brings what the server has of it.
Fresh(d) ==
    \A q \in requests : q.stage = "handled" =>
        /\ d \in DOMAIN q.reply <=> d \in Replied(q)
        /\ d \in DOMAIN q.reply => q.reply[d] = server[d]

\* A post of a document is the only one under its flag, and nothing else will
\* replace the document: the flag comes down with its own answer.
Sole(q, d) ==
    /\ FlagOf[d[1]] \in saving
    /\ IF d[1] = "members" THEN d \in Replied(q) ELSE q.value = local[d]
    /\ q.stage = "handled" => server[d] = q.value
    /\ \A r \in requests : Under(r, d) \/ d \in Replied(r) => r = q
    /\ FlagOf[d[1]] = "savingRoles" => \A k \in Timers : roleTimer[k] = NoRow

\* A row that waits for a timer: no post yet, and no other row waits.
Waits(k, d) ==
    /\ FlagOf[d[1]] \in saving
    /\ roleTimer[k].value = local[d]
    /\ \A r \in requests : ~Under(r, d) /\ d \notin Replied(r)
    /\ \A j \in Timers : roleTimer[j] # NoRow => j = k

PartKept(d) ==
    /\ Fresh(d)
    /\ \A q \in requests : Own(q, d) => Sole(q, d)
    /\ \A k \in Timers : roleTimer[k].doc = d => Waits(k, d)
    /\ Free(d) => local[d] = server[d]

\* Whatever did not meet a known gap is kept.
PartInv == \A d \in Listed : d \in gaps \/ PartKept(d)

LEMMA OwnIsUnder ==
    ASSUME NEW d \in Listed, NEW q, Own(q, d)
    PROVE  Under(q, d) /\ q.part = d[1] /\ q.haku = d[2]
BY ListedFacts DEF Own, Under

\* What a step must leave alone to keep a document.
LEMMA KeptAlone ==
    ASSUME NEW d \in Listed, PartKept(d),
           local'[d] = local[d], server'[d] = server[d], roleTimer' = roleTimer,
           FlagOf[d[1]] \in saving => FlagOf[d[1]] \in saving',
           \A r \in requests' \ requests :
               ~Under(r, d) /\ r.stage = "sent" /\ (d \in Replied(r) => Free(d)),
           \A r \in requests \ requests' : ~Own(r, d)
    PROVE  PartKept(d)'
<1>1. Fresh(d)'
    BY DEF PartKept, Fresh
<1>2. \A q \in requests' : Own(q, d) => q \in requests
    BY OwnIsUnder
<1>3. ASSUME NEW q \in requests', Own(q, d)
      PROVE  Sole(q, d)'
  <2>1. Sole(q, d) /\ ~Free(d) /\ q \in requests
      BY <1>2, <1>3 DEF PartKept, Free
  <2> QED BY <2>1 DEF Sole
<1>4. ASSUME NEW k \in Timers, roleTimer'[k].doc = d
      PROVE  Waits(k, d)'
  <2>1. Waits(k, d) /\ ~Free(d)
      BY <1>4 DEF PartKept, Free
  <2> QED BY <2>1 DEF Waits
<1>5. Free(d)' => Free(d)
    BY DEF Free
<1> QED BY <1>1, <1>3, <1>4, <1>5 DEF PartKept, Own

\* A document of which nothing is on its way.
LEMMA KeptFree ==
    ASSUME NEW d \in Listed, Fresh(d)', Free(d)', local'[d] = server'[d]
    PROVE  PartKept(d)'
BY DEF PartKept, Free

\* What is not posted or timed is as the server has it.
LEMMA FreeOf ==
    ASSUME TypeInv, NEW d \in Listed, PartKept(d), d \notin Posted(FlagOf[d[1]]), d \notin Timed(Timers)
    PROVE  Free(d) /\ local[d] = server[d]
<1>1. \A q \in requests : ~Own(q, d)
    BY OwnIsUnder DEF Posted, Under, Own
<1>2. \A k \in Timers : roleTimer[k].doc # d
    BY ListedFacts DEF Timed
<1> QED BY <1>1, <1>2 DEF Free, PartKept

\* A document that met no clash, when it is edited itself.
LEMMA NoClash ==
    ASSUME TypeInv, NEW d \in Listed, NEW kinds \in SUBSET Timers, d \notin Clash(d, kinds)
    PROVE  /\ \A r \in requests : ~Under(r, d) /\ d \notin Replied(r)
           /\ \A k \in kinds : roleTimer[k] = NoRow
<1>1. Posted(FlagOf[d[1]]) = {} /\ Timed(kinds) = {}
    BY DEF Clash
<1>2. \A r \in requests : ~Under(r, d)
    BY <1>1 DEF Posted, Under
<1>3. \A r \in requests : d \notin Replied(r)
    BY DEF Clash
<1>4. \A k \in kinds : roleTimer[k] = NoRow
    BY <1>1, RowFacts DEF Timed
<1> QED BY <1>2, <1>3, <1>4

\* Every other document under the flag of an edit is free, or met the clash.
LEMMA ClashOfOthers ==
    ASSUME NEW d, NEW e, NEW kinds, d \notin Clash(e, kinds)
    PROVE  d \notin Posted(FlagOf[e[1]]) /\ d \notin Timed(kinds)
BY DEF Clash

LEMMA NewRequest ==
    ASSUME NEW part, NEW h, NEW value, NEW rev, NEW brings
    PROVE  LET q == Request(part, h, value, rev, brings) IN
           /\ q.part = part /\ q.haku = h /\ q.value = value /\ q.stage = "sent"
           /\ Replied(q) = brings \X {h}
BY DEF Request, Replied

\* A part is posted at once.
LEMMA PostKeeps ==
    ASSUME TypeInv, NEW d \in Listed, PartKept(d), d \notin gaps',
           NEW part \in {"projects", "tilit", "own"}, NEW h \in Hakus, NEW v \in Nat,
           local' = [local EXCEPT ![<<part, h>>] = v],
           requests' = requests \cup {Request(part, h, v, 0, {})},
           Clash(<<part, h>>, {}) \subseteq gaps',
           UNCHANGED <<server, roleTimer>>,
           saving \cup {FlagOf[part]} \subseteq saving'
    PROVE  PartKept(d)'
<1> DEFINE e == <<part, h>>
           q == Request(part, h, v, 0, {})
<1>1. q.part = part /\ q.haku = h /\ q.value = v /\ q.stage = "sent" /\ d \notin Replied(q)
    BY NewRequest
<1>2. e \in Listed /\ part \in Parts \ {"haku"} /\ FlagOf[part] # "savingRoles" /\ e[1] = part
    BY FlagFacts DEF Listed
<1>3. local \in [Docs -> Nat] /\ d \in Docs
    BY ListedFacts DEF TypeInv
<1>4. FlagOf[d[1]] = FlagOf[part] => \A k \in Timers : roleTimer[k].doc # d
    BY <1>2, RowFacts, FlagFacts, ListedFacts DEF RoleLists
<1>5. d \notin Clash(e, {})
    OBVIOUS
<1> HIDE DEF q
<1>6. requests' = requests \cup {q}
    BY DEF q
<1>7. CASE d = e
  <2>1. \A r \in requests : ~Under(r, d) /\ d \notin Replied(r)
      BY <1>5, <1>7, NoClash
  <2>2. local'[d] = v /\ d[1] = part
      BY <1>3, <1>7
  <2>3. Fresh(d)'
      BY <1>1, <1>6 DEF PartKept, Fresh
  <2>4. Own(q, d)
      BY <1>1, <1>7 DEF Own
  <2>5. \A r \in requests' : Own(r, d) => r = q
      BY <1>6, <2>1, OwnIsUnder
  <2>6. Sole(q, d)'
    <3>1. \A r \in requests' : Under(r, d) \/ d \in Replied(r) => r = q
        BY <1>6, <2>1
    <3> QED BY <1>1, <1>2, <2>2, <3>1 DEF Sole
  <2>7. \A k \in Timers : roleTimer'[k].doc # d
      BY <1>4, <2>2
  <2>8. ~Free(d)'
      BY <1>6, <2>4 DEF Free
  <2> QED BY <2>3, <2>5, <2>6, <2>7, <2>8 DEF PartKept
<1>8. CASE d # e /\ FlagOf[d[1]] = FlagOf[part]
  <2>1. Free(d) /\ local[d] = server[d]
    <3>1. d \notin Posted(FlagOf[d[1]])
        BY <1>2, <1>5, <1>8, ClashOfOthers
    <3>2. d \notin Timed(Timers)
        BY <1>4, <1>8 DEF Timed
    <3> QED BY <3>1, <3>2, FreeOf
  <2>2. local'[d] = local[d]
      BY <1>3, <1>8
  <2>3. Fresh(d)'
      BY <1>1, <1>6 DEF PartKept, Fresh
  <2>4. Free(d)'
      BY <1>1, <1>6, <1>8, <2>1 DEF Free, Own
  <2> QED BY <2>1, <2>2, <2>3, <2>4, KeptFree
<1>9. CASE FlagOf[d[1]] # FlagOf[part]
  <2>1. d # e
      BY <1>2, <1>9
  <2>2. local'[d] = local[d]
      BY <1>3, <2>1
  <2>3. ~Under(q, d)
      BY <1>1, <1>9 DEF Under
  <2> QED BY <1>1, <1>6, <2>2, <2>3, KeptAlone
<1> QED BY <1>7, <1>8, <1>9

\* A row is created or deleted.
LEMMA MembersKeep ==
    ASSUME TypeInv, NEW d \in Listed, PartKept(d), d \notin gaps', NEW h \in Hakus, changeMembers(h)
    PROVE  PartKept(d)'
<1> DEFINE e == <<"members", h>>
<1>0. PICK q : q = Request("members", h, edits + 1, 0, RoleLists)
    OBVIOUS
<1>1. q.part = "members" /\ q.haku = h /\ q.stage = "sent" /\ Replied(q) = RoleLists \X {h}
    BY <1>0, NewRequest
<1>2. e \in Listed /\ FlagOf["members"] = "savingRoles" /\ e[1] = "members" /\ e \in Replied(q)
    BY <1>1, FlagFacts DEF Listed, RoleLists
<1>3. /\ requests' = requests \cup {q} /\ d \notin Clash(e, Timers)
      /\ UNCHANGED <<local, server, roleTimer>>
      /\ saving' = saving \cup {"savingRoles"}
    BY <1>0 DEF changeMembers, Send, startSaving
<1>4. Fresh(d)'
    BY <1>1, <1>3 DEF PartKept, Fresh
<1>5. CASE d = e
  <2>1. /\ \A r \in requests : ~Under(r, d) /\ d \notin Replied(r)
        /\ \A k \in Timers : roleTimer[k] = NoRow
      BY <1>3, <1>5, NoClash
  <2>2. Own(q, d)
      BY <1>1, <1>5 DEF Own
  <2>3. \A r \in requests' : Own(r, d) => r = q
      BY <1>3, <2>1, OwnIsUnder
  <2>4. Sole(q, d)'
    <3>1. \A r \in requests' : Under(r, d) \/ d \in Replied(r) => r = q
        BY <1>3, <2>1
    <3>2. \A k \in Timers : roleTimer'[k] = NoRow
        BY <1>3, <2>1
    <3>3. d[1] = "members" /\ FlagOf[d[1]] \in saving' /\ d \in Replied(q)
        BY <1>2, <1>3, <1>5
    <3> QED BY <1>1, <3>1, <3>2, <3>3 DEF Sole
  <2>5. \A k \in Timers : roleTimer'[k].doc # d
      BY <1>3, <2>1, ListedFacts DEF NoRow
  <2>6. ~Free(d)'
      BY <1>3, <2>2 DEF Free
  <2>7. \A r \in requests' : Own(r, d) => Sole(r, d)'
      BY <2>3, <2>4
  <2> QED BY <1>4, <2>5, <2>6, <2>7 DEF PartKept
<1>6. CASE d # e /\ FlagOf[d[1]] = "savingRoles"
  <2>1. Free(d) /\ local[d] = server[d]
    <3>1. d \notin Posted(FlagOf[d[1]]) /\ d \notin Timed(Timers)
        BY <1>2, <1>3, <1>6, ClashOfOthers
    <3> QED BY <3>1, FreeOf
  <2>2. Free(d)'
      BY <1>1, <1>3, <1>6, <2>1 DEF Free, Own
  <2> QED BY <1>3, <1>4, <2>1, <2>2, KeptFree
<1>7. CASE FlagOf[d[1]] # "savingRoles"
  <2>1. ~Under(q, d)
      BY <1>1, <1>2, <1>7 DEF Under
  <2>2. d \notin Replied(q)
      BY <1>1, <1>7, FlagFacts
  <2> QED BY <1>1, <1>3, <2>1, <2>2, KeptAlone
<1> QED BY <1>5, <1>6, <1>7

\* A row is edited and waits for a timer; the edit cancels what it met.
LEMMA RowKeeps ==
    ASSUME TypeInv, NEW d \in Listed, PartKept(d), NEW row \in RoleRows \X Hakus,
           NEW v \in Nat, NEW kind \in Timers,
           local' = [local EXCEPT ![row] = v],
           roleTimer'[kind].doc = row, roleTimer'[kind].value = v,
           \A j \in Timers \ {kind} : roleTimer'[j] \in {roleTimer[j], NoRow},
           saving' = saving \cup {"savingRoles"}, UNCHANGED <<server, requests>>,
           d = row => /\ \A r \in requests : ~Under(r, d) /\ d \notin Replied(r)
                      /\ \A j \in Timers \ {kind} : roleTimer'[j] = NoRow,
           d # row /\ FlagOf[d[1]] = "savingRoles" =>
               d \notin Posted(FlagOf[d[1]]) /\ d \notin Timed(Timers)
    PROVE  PartKept(d)'
<1>1. row \in Listed /\ row \in Docs /\ FlagOf[row[1]] = "savingRoles" /\ local \in [Docs -> Nat]
  <2>1. row[1] \in RoleLists
      BY DEF RoleLists
  <2> QED BY <2>1, FlagFacts, HakuFacts DEF TypeInv
<1>2. Fresh(d)'
    BY DEF PartKept, Fresh
<1>3. CASE d = row
  <2>1. local'[d] = v
      BY <1>1, <1>3
  <2>2. \A r \in requests' : ~Own(r, d)
      BY <1>3, OwnIsUnder
  <2>3. \A k \in Timers : roleTimer'[k].doc = d => k = kind
      BY <1>3, ListedFacts DEF NoRow
  <2>4. Waits(kind, d)'
      BY <1>1, <1>3, <2>1 DEF Waits
  <2>5. ~Free(d)'
      BY <1>3 DEF Free
  <2> QED BY <1>2, <2>2, <2>3, <2>4, <2>5 DEF PartKept
<1>4. CASE d # row
  <2>1. local'[d] = local[d]
      BY <1>1, <1>4, ListedFacts
  <2>2. CASE FlagOf[d[1]] = "savingRoles"
    <3>1. Free(d) /\ local[d] = server[d]
        BY <1>4, <2>2, FreeOf
    <3>2. \A k \in Timers : roleTimer'[k].doc # d
        BY <1>4, <3>1, ListedFacts DEF Free, NoRow
    <3>3. Free(d)'
        BY <3>1, <3>2 DEF Free
    <3> QED BY <1>2, <2>1, <3>1, <3>3, KeptFree
  <2>3. CASE FlagOf[d[1]] # "savingRoles"
    <3>1. \A k \in Timers : roleTimer'[k].doc # d /\ roleTimer[k].doc # d
      <4>1. d \notin RoleRows \X Hakus
          BY <2>3, FlagFacts DEF RoleLists
      <4> QED BY <1>4, <4>1, RowFacts, ListedFacts DEF NoRow
    <3>2. \A q \in requests' : Own(q, d) => Sole(q, d)'
        BY <2>1, <2>3 DEF PartKept, Sole
    <3>3. Free(d)' => local'[d] = server'[d]
        BY <2>1, <3>1 DEF PartKept, Free
    <3> QED BY <1>2, <3>1, <3>2, <3>3 DEF PartKept
  <2> QED BY <2>2, <2>3
<1> QED BY <1>3, <1>4

LEMMA RowsKeep ==
    ASSUME TypeInv, NEW d \in Listed, PartKept(d), d \notin gaps', NEW r \in RoleRows, NEW h \in Hakus,
           debouncedSaveRole(r, h) \/ (r = "other" /\ saveRoleImmediately(h))
    PROVE  PartKept(d)'
<1> DEFINE row == <<r, h>>
<1>1. row \in RoleRows \X Hakus /\ row \in Listed /\ FlagOf[row[1]] = "savingRoles"
  <2>1. row[1] \in RoleLists /\ row \in RoleRows \X Hakus
      BY DEF RoleLists
  <2> QED BY <2>1, FlagFacts, HakuFacts
<1>2. PICK v \in Nat : v = edits + 1
    BY DEF TypeInv
<1>3. CASE debouncedSaveRole(r, h)
  <2>1. /\ local' = [local EXCEPT ![row] = v]
        /\ roleTimer' = [roleTimer EXCEPT !["debounced"] =
               [doc |-> row, value |-> v, brings |-> IF r = "vastuuvalmistelija" THEN RoleLists ELSE {}]]
        /\ saving' = saving \cup {"savingRoles"}
        /\ UNCHANGED <<server, requests>>
        /\ d \notin Timed({"debounced"}) \ {row} /\ d \notin Clash(row, {"immediate"})
      BY <1>2, <1>3 DEF debouncedSaveRole, startSaving
  <2>2. /\ roleTimer'["debounced"].doc = row /\ roleTimer'["debounced"].value = v
        /\ \A j \in Timers \ {"debounced"} : j = "immediate" /\ roleTimer'[j] = roleTimer[j]
      BY <2>1 DEF TypeInv, Timers
  <2>3. d = row => /\ \A q \in requests : ~Under(q, d) /\ d \notin Replied(q)
                   /\ \A j \in Timers \ {"debounced"} : roleTimer'[j] = NoRow
    <3> SUFFICES ASSUME d = row
                 PROVE  /\ \A q \in requests : ~Under(q, d) /\ d \notin Replied(q)
                        /\ \A j \in Timers \ {"debounced"} : roleTimer'[j] = NoRow
        OBVIOUS
    <3>1. {"immediate"} \in SUBSET Timers
        BY DEF Timers
    <3>2. /\ \A q \in requests : ~Under(q, d) /\ d \notin Replied(q)
          /\ roleTimer["immediate"] = NoRow
        BY <2>1, <3>1, NoClash
    <3> QED BY <2>2, <3>2
  <2>4. d # row /\ FlagOf[d[1]] = "savingRoles" => d \notin Posted(FlagOf[d[1]]) /\ d \notin Timed(Timers)
    <3>1. d \notin Posted(FlagOf[row[1]]) /\ d \notin Timed({"immediate"})
        BY <2>1, ClashOfOthers
    <3> QED BY <1>1, <2>1, <3>1 DEF Timed, Timers
  <2>5. "debounced" \in Timers
      BY DEF Timers
  <2> QED BY <1>1, <2>1, <2>2, <2>3, <2>4, <2>5, RowKeeps
<1>4. CASE r = "other" /\ saveRoleImmediately(h)
  <2>1. PICK brings \in {RoleLists, {}} :
            roleTimer' = [kind \in Timers |-> IF kind = "debounced" THEN NoRow
                                              ELSE [doc |-> row, value |-> v, brings |-> brings]]
      BY <1>2, <1>4 DEF saveRoleImmediately
  <2>2. /\ local' = [local EXCEPT ![row] = v]
        /\ saving' = saving \cup {"savingRoles"}
        /\ UNCHANGED <<server, requests>>
        /\ d \notin Timed(Timers) \ {row} /\ d \notin Clash(row, {})
      BY <1>2, <1>4 DEF saveRoleImmediately, startSaving
  <2>3. /\ roleTimer'["immediate"].doc = row /\ roleTimer'["immediate"].value = v
        /\ \A j \in Timers \ {"immediate"} : roleTimer'[j] = NoRow
      BY <2>1 DEF Timers
  <2>4. d = row => \A q \in requests : ~Under(q, d) /\ d \notin Replied(q)
      BY <2>2, NoClash
  <2>5. d # row /\ FlagOf[d[1]] = "savingRoles" => d \notin Posted(FlagOf[d[1]]) /\ d \notin Timed(Timers)
      BY <1>1, <2>2, ClashOfOthers
  <2>6. "immediate" \in Timers
      BY DEF Timers
  <2>7. \A j \in Timers \ {"immediate"} : roleTimer'[j] \in {roleTimer[j], NoRow}
      BY <2>3
  <2>8. d = row => /\ \A q \in requests : ~Under(q, d) /\ d \notin Replied(q)
                   /\ \A j \in Timers \ {"immediate"} : roleTimer'[j] = NoRow
      BY <2>3, <2>4
  <2> HIDE DEF row
  <2> QED BY <1>1, <2>2, <2>3, <2>5, <2>6, <2>7, <2>8, RowKeeps
<1> QED BY <1>3, <1>4

\* A timer of the role rows fires: the row is posted.
LEMMA CallKeeps ==
    ASSUME TypeInv, NEW d \in Listed, PartKept(d), d \notin gaps', NEW kind \in Timers, callSaveRole(kind)
    PROVE  PartKept(d)'
<1>1. PICK row \in RoleRows \X Hakus : row = roleTimer[kind].doc
    BY RowFacts DEF callSaveRole
<1>2. PICK q : q = Request(row[1], row[2], roleTimer[kind].value, 0, roleTimer[kind].brings)
    OBVIOUS
<1>3. /\ q.part = row[1] /\ q.haku = row[2] /\ q.value = roleTimer[kind].value /\ q.stage = "sent"
      /\ Replied(q) = roleTimer[kind].brings \X {row[2]}
    BY <1>2, NewRequest
<1>4. /\ requests' = requests \cup {q} /\ d \notin Clash(row, Timers \ {kind})
      /\ roleTimer' = [roleTimer EXCEPT ![kind] = NoRow]
      /\ UNCHANGED <<local, server, saving>>
    BY <1>1, <1>2 DEF callSaveRole, Send, documents, status
<1>5. row \in Listed /\ FlagOf[row[1]] = "savingRoles" /\ row = <<row[1], row[2]>> /\ row[1] # "members"
  <2>1. row[1] \in RoleLists /\ row[1] # "members"
      BY DEF RoleLists, RoleRows
  <2> QED BY <2>1, FlagFacts, HakuFacts
<1>6. \A j \in Timers : roleTimer'[j] = IF j = kind THEN NoRow ELSE roleTimer[j]
    BY <1>4 DEF TypeInv
<1>7. Fresh(d)'
    BY <1>3, <1>4 DEF PartKept, Fresh
<1>8. CASE d = row
  <2>1. Waits(kind, d)
      BY <1>1, <1>8 DEF PartKept
  <2>2. \A k \in Timers : roleTimer'[k] = NoRow
      BY <1>6, <2>1 DEF Waits
  <2>3. \A r \in requests' : Own(r, d) => r = q
      BY <1>4, <2>1, OwnIsUnder DEF Waits
  <2>4. Own(q, d)
      BY <1>3, <1>5, <1>8 DEF Own
  <2>5. Sole(q, d)'
    <3>1. \A r \in requests' : Under(r, d) \/ d \in Replied(r) => r = q
        BY <1>4, <2>1 DEF Waits
    <3>2. FlagOf[d[1]] \in saving' /\ q.value = local'[d] /\ d[1] # "members"
        BY <1>3, <1>4, <1>5, <1>8, <2>1 DEF Waits
    <3> QED BY <1>3, <2>2, <3>1, <3>2 DEF Sole
  <2>6. \A k \in Timers : roleTimer'[k].doc # d
      BY <2>2, ListedFacts DEF NoRow
  <2>7. ~Free(d)'
      BY <1>4, <2>4 DEF Free
  <2> QED BY <1>7, <2>3, <2>5, <2>6, <2>7 DEF PartKept
<1>9. CASE d # row /\ FlagOf[d[1]] = "savingRoles"
  <2>1. d \notin Posted(FlagOf[d[1]]) /\ d \notin Timed(Timers \ {kind})
      BY <1>4, <1>5, <1>9, ClashOfOthers
  <2>2. d \notin Timed(Timers)
      BY <1>1, <1>9, <2>1 DEF Timed
  <2>3. Free(d) /\ local[d] = server[d]
      BY <2>1, <2>2, FreeOf
  <2>4. \A k \in Timers : roleTimer'[k].doc # d
      BY <1>6, <2>3, ListedFacts DEF Free, NoRow
  <2>5. ~Own(q, d)
      BY <1>3, <1>5, <1>9 DEF Own
  <2>6. Free(d)'
      BY <1>4, <2>3, <2>4, <2>5 DEF Free
  <2> QED BY <1>4, <1>7, <2>3, <2>6, KeptFree
<1>10. CASE FlagOf[d[1]] # "savingRoles"
  <2>1. d \notin RoleRows \X Hakus /\ d[1] \notin RoleLists
      BY <1>10, FlagFacts DEF RoleLists
  <2>2. ~Under(q, d) /\ d \notin Replied(q)
      BY <1>3, <1>5, <1>10, <2>1, RowFacts DEF Under
  <2>3. \A k \in Timers : roleTimer[k].doc # d /\ roleTimer'[k].doc # d
      BY <1>6, <2>1, RowFacts, ListedFacts DEF NoRow
  <2>4. \A r \in requests' : Own(r, d) => r \in requests
      BY <1>4, <2>2, OwnIsUnder
  <2>5. ASSUME NEW r \in requests', Own(r, d)
        PROVE  Sole(r, d)'
    <3>1. Sole(r, d)
        BY <2>4, <2>5 DEF PartKept
    <3> QED BY <1>4, <1>10, <2>2, <3>1 DEF Sole
  <2>6. Free(d)' => Free(d)
      BY <1>4, <2>3 DEF Free
  <2> QED BY <1>4, <1>7, <2>3, <2>5, <2>6 DEF PartKept
<1> QED BY <1>8, <1>9, <1>10

\* The server handles a request, and reads the lists its answer brings.
LEMMA HandlingKeeps ==
    ASSUME TypeInv, NEW d \in Listed, PartKept(d), NEW q \in requests, Handled(q)
    PROVE  PartKept(d)'
<1>1. PICK q2 : q2 = [q EXCEPT !.stage = "handled", !.reply = [e \in Replied(q) |-> server'[e]]]
    OBVIOUS
<1>2. /\ requests' = (requests \ {q}) \cup {q2}
      /\ server' = [e \in Docs |-> IF e = <<q.part, q.haku>> THEN q.value ELSE server[e]]
      /\ UNCHANGED <<local, roleTimer, saving>>
    BY <1>1 DEF Handled, status
<1>3. q \in Requests
    BY DEF TypeInv
<1>4. /\ q2.part = q.part /\ q2.haku = q.haku /\ q2.value = q.value /\ q2.brings = q.brings
      /\ q2.stage = "handled" /\ q2.reply = [e \in Replied(q) |-> server'[e]]
    BY <1>1, <1>3 DEF Requests
<1>5. Replied(q2) = Replied(q) /\ (Own(q2, d) <=> Own(q, d)) /\ (Under(q2, d) <=> Under(q, d))
    BY <1>4 DEF Replied, Own, Under
<1>6. server'[d] = IF Own(q, d) THEN q.value ELSE server[d]
    BY <1>2, ListedFacts DEF Own
<1>7. Fresh(d)'
  <2> SUFFICES ASSUME NEW r \in requests', r.stage = "handled"
               PROVE  /\ d \in DOMAIN r.reply <=> d \in Replied(r)
                      /\ d \in DOMAIN r.reply => r.reply[d] = server'[d]
      BY DEF Fresh, Replied
  <2>1. CASE r = q2
      BY <1>4, <1>5, <2>1
  <2>2. CASE r # q2
    <3>1. r \in requests /\ r # q
        BY <1>2, <2>2
    <3>2. /\ d \in DOMAIN r.reply <=> d \in Replied(r)
          /\ d \in DOMAIN r.reply => r.reply[d] = server[d]
        BY <3>1 DEF PartKept, Fresh
    <3>3. Own(q, d) => d \notin Replied(r)
        BY <3>1 DEF PartKept, Sole
    <3> QED BY <1>6, <3>2, <3>3
  <2> QED BY <2>1, <2>2
<1>8. ASSUME NEW p \in requests', Own(p, d)
      PROVE  Sole(p, d)'
  <2>1. CASE p = q2
    <3>1. Own(q, d)
        BY <1>5, <1>8, <2>1
    <3>2. Sole(q, d)
        BY <3>1 DEF PartKept
    <3>3. \A r \in requests' : Under(r, d) \/ d \in Replied(r) => r = q2
        BY <1>2, <3>2 DEF Sole
    <3>4. server'[d] = p.value
        BY <1>4, <1>6, <2>1, <3>1
    <3> QED BY <1>2, <1>4, <1>5, <2>1, <3>2, <3>3, <3>4 DEF Sole
  <2>2. CASE p # q2
    <3>1. p \in requests /\ p # q /\ Sole(p, d)
        BY <1>2, <1>8, <2>2 DEF PartKept
    <3>2. ~Under(q, d) /\ d \notin Replied(q) /\ ~Own(q, d)
        BY <3>1, OwnIsUnder DEF Sole
    <3>3. \A r \in requests' : Under(r, d) \/ d \in Replied(r) => r = p
        BY <1>2, <1>5, <3>1, <3>2 DEF Sole
    <3> QED BY <1>2, <1>6, <3>1, <3>2, <3>3 DEF Sole
  <2> QED BY <2>1, <2>2
<1>9. ASSUME NEW k \in Timers, roleTimer'[k].doc = d
      PROVE  Waits(k, d)'
  <2>1. Waits(k, d)
      BY <1>2, <1>9 DEF PartKept
  <2>2. \A r \in requests' : ~Under(r, d) /\ d \notin Replied(r)
      BY <1>2, <1>5, <2>1 DEF Waits
  <2> QED BY <1>2, <2>1, <2>2 DEF Waits
<1>10. Free(d)' => local'[d] = server'[d]
  <2> SUFFICES ASSUME Free(d)' PROVE local'[d] = server'[d]
      OBVIOUS
  <2>1. ~Own(q, d)
      BY <1>2, <1>5 DEF Free
  <2>2. Free(d)
      BY <1>2, <2>1 DEF Free
  <2> QED BY <1>2, <1>6, <2>1, <2>2 DEF PartKept
<1> QED BY <1>7, <1>8, <1>9, <1>10 DEF PartKept

\* An answer about a part, or a list: it is what the server has, and the flag
\* that comes down is that of the request, or none.
LEMMA AnswersKeep ==
    ASSUME TypeInv, NEW d \in Listed, PartKept(d), d \notin gaps', NEW q \in requests,
           PartSaved(q) \/ Loaded(q) \/ PartFails(q) \/ LoadFails(q)
    PROVE  PartKept(d)'
<1>1. requests' = requests \ {q} /\ UNCHANGED <<server, roleTimer>>
    BY DEF PartSaved, Loaded, PartFails, LoadFails, documents
<1>2. q \in Requests /\ q.part # "haku" /\ local \in [Docs -> Nat] /\ d \in Docs
    BY ListedFacts DEF TypeInv, PartSaved, Loaded, PartFails, LoadFails
<1>3. saving \subseteq saving' \/ (q.part \in Parts \ {"haku"} /\ saving' = saving \ {FlagOf[q.part]})
    BY <1>2 DEF PartSaved, Loaded, PartFails, LoadFails, saveSuccess, saveFailure, status, Requests
<1>4. \/ /\ q.stage = "handled"
         /\ local'[d] = IF d \in Replied(q) THEN server[d] ELSE local[d]
      \/ /\ local'[d] = local[d]
         /\ ~Own(q, d)
         /\ d \in Replied(q) => q.part = "load"
  <2>1. CASE PartSaved(q) \/ Loaded(q)
    <3>1. q.stage = "handled" /\ local' = Brought(q, local)
        BY <2>1 DEF PartSaved, Loaded
    <3>2. local'[d] = IF d \in DOMAIN q.reply THEN q.reply[d] ELSE local[d]
        BY <1>2, <3>1 DEF Brought
    <3> QED BY <2>1, <3>1, <3>2 DEF PartKept, Fresh
  <2>2. CASE PartFails(q)
    <3>1. d \notin Touches(q) /\ local' = local
        BY <2>2 DEF PartFails, documents
    <3> QED BY <1>2, <3>1 DEF Touches, Own
  <2>3. CASE LoadFails(q)
    <3>1. ~Own(q, d)
        BY <2>3, OwnIsUnder DEF Under, LoadFails, Parts, RoleRows
    <3> QED BY <2>3, <3>1 DEF LoadFails, documents
  <2> QED BY <2>1, <2>2, <2>3
<1>5. Fresh(d)'
    BY <1>1 DEF PartKept, Fresh
<1>6. CASE Own(q, d)
  <2>1. Sole(q, d)
      BY <1>6 DEF PartKept
  <2>2. \A r \in requests' : ~Own(r, d)
      BY <1>1, <2>1, OwnIsUnder DEF Sole
  <2>3. \A k \in Timers : roleTimer'[k].doc # d
      BY <1>1, <1>6, OwnIsUnder DEF PartKept, Waits
  <2>4. local'[d] = server'[d]
    <3>1. q.stage = "handled" /\ local'[d] = IF d \in Replied(q) THEN server[d] ELSE local[d]
        BY <1>4, <1>6
    <3>2. d \in Replied(q) \/ local[d] = server[d]
        BY <2>1, <3>1 DEF Sole
    <3> QED BY <1>1, <3>1, <3>2
  <2>5. Free(d)'
      BY <2>2, <2>3 DEF Free
  <2> QED BY <1>5, <2>4, <2>5, KeptFree
<1>7. CASE ~Own(q, d) /\ Free(d)
  <2>1. Free(d)' /\ local[d] = server[d]
      BY <1>1, <1>7 DEF Free, PartKept
  <2>2. local'[d] = server'[d]
      BY <1>1, <1>4, <2>1
  <2> QED BY <1>5, <2>1, <2>2, KeptFree
<1>8. CASE ~Own(q, d) /\ ~Free(d)
  <2>1. ~Under(q, d) /\ d \notin Replied(q)
      BY <1>8 DEF Free, PartKept, Sole, Waits
  <2>2. local'[d] = local[d]
      BY <1>4, <2>1
  <2>3. FlagOf[d[1]] \in saving => FlagOf[d[1]] \in saving'
      BY <1>3, <2>1 DEF Under
  <2> QED BY <1>1, <1>8, <2>2, <2>3, KeptAlone
<1> QED BY <1>6, <1>7, <1>8

\* The queue of a haku: its saves bring no lists, and its flag is its own.
LEMMA QueueKeeps ==
    ASSUME TypeInv, NEW d \in Listed, PartKept(d), NEW h \in Hakus,
           \/ \E delay \in {"soon", "later"} : updateField(h, delay)
           \/ DeadlinePasses(h) \/ TimerFires(h)
           \/ \E q \in requests : HakuSaved(q) \/ HakuFails(q)
    PROVE  PartKept(d)'
<1>1. d \in Docs /\ (\A i : d # <<"haku", i>>) /\ FlagOf[d[1]] # "saveInProgress"
    BY ListedFacts, FlagFacts
<1>2. local'[d] = local[d]
    BY <1>1 DEF updateField, DeadlinePasses, TimerFires, HakuSaved, HakuFails, documents, TypeInv
<1>3. UNCHANGED <<server, roleTimer>>
    BY DEF updateField, DeadlinePasses, TimerFires, HakuSaved, HakuFails, documents
<1>4. FlagOf[d[1]] \in saving => FlagOf[d[1]] \in saving'
    BY <1>1 DEF updateField, DeadlinePasses, TimerFires, HakuSaved, HakuFails, haku_fulfilled,
          haku_rejected, status, startSaving
<1>5. \A i, s : \A r \in SaveOf(i, s) : ~Under(r, d) /\ r.stage = "sent" /\ d \notin Replied(r)
    BY NewRequest DEF SaveOf, Under
<1>6. /\ \A r \in requests' \ requests : \E i, s : r \in SaveOf(i, s)
      /\ \A r \in requests \ requests' : r.part = "haku"
  <2>1. CASE \/ \E delay \in {"soon", "later"} : updateField(h, delay)
             \/ DeadlinePasses(h)
      BY <2>1 DEF updateField, DeadlinePasses
  <2>2. CASE TimerFires(h)
    <3>1. requests' = requests \cup SaveOf(h, [queue[h] EXCEPT !.timer = FALSE])
        BY <2>2 DEF TimerFires
    <3> QED BY <3>1
  <2>3. CASE \E q \in requests : HakuSaved(q) \/ HakuFails(q)
    <3>1. PICK q \in requests : q.part = "haku" /\ NextSave(q)
        BY <2>3 DEF HakuSaved, HakuFails
    <3>2. requests' = (requests \ {q}) \cup SaveOf(q.haku, afterSave(queue[q.haku]))
        BY <3>1 DEF NextSave
    <3> QED BY <3>1, <3>2
  <2> QED BY <2>1, <2>2, <2>3
<1>7. \A r \in requests \ requests' : ~Own(r, d)
    BY <1>1, <1>6 DEF Own
<1> QED BY <1>2, <1>3, <1>4, <1>5, <1>6, <1>7, KeptAlone

\* A load is a gap for what is posted or waits; typing a row back is one.
LEMMA LoadsKeep ==
    ASSUME TypeInv, NEW d \in Listed, PartKept(d), d \notin gaps', NEW h \in Hakus, selectHaku(h)
    PROVE  PartKept(d)'
<1>1. PICK q : q = Request("load", h, edits + 1, 0, AllLists)
    OBVIOUS
<1>2. q.part = "load" /\ q.stage = "sent" /\ Replied(q) = AllLists \X {h}
    BY <1>1, NewRequest
<1>3. /\ requests' = requests \cup {q} /\ UNCHANGED <<local, server, roleTimer, saving>>
      /\ d \notin (AllLists \X {h}) \cap (Timed(Timers) \cup UNION {Posted(flag) : flag \in Flags})
    BY <1>1 DEF selectHaku, Send, status
<1>4. ~Under(q, d)
    BY <1>2 DEF Under, Parts, RoleRows
<1>5. d \in Replied(q) => Free(d)
  <2>1. FlagOf[d[1]] \in Flags
      BY ListedFacts, FlagFacts
  <2> QED BY <1>2, <1>3, <2>1, FreeOf
<1> QED BY <1>2, <1>3, <1>4, <1>5, KeptAlone

LEMMA RetypedKeeps ==
    ASSUME TypeInv, NEW d \in Listed, PartKept(d), d \notin gaps', NEW r \in RoleRows, NEW h \in Hakus,
           retypeRole(r, h)
    PROVE  PartKept(d)'
<1>1. UNCHANGED <<server, roleTimer, requests, saving>> /\ d # <<r, h>>
    BY DEF retypeRole, status
<1>2. local'[d] = local[d]
    BY <1>1, ListedFacts DEF retypeRole, TypeInv
<1> QED BY <1>1, <1>2, KeptAlone

\* A gap is never forgotten.
LEMMA GapsStay ==
    ASSUME [Next]_vars
    PROVE  gaps \subseteq gaps'
BY DEF Next, User, Respond, Fail, vars, updateField, updateProjects, replaceTalousarviotilit,
       startManuallySaving, changeMembers, saveRoleImmediately, selectHaku, debouncedSaveRole,
       retypeRole, DeadlinePasses, TimerFires, callSaveRole, Handled, HakuSaved, PartSaved, Loaded,
       HakuFails, PartFails, LoadFails

LEMMA PartsKeep ==
    ASSUME TypeInv, PartInv, [Next]_vars
    PROVE  PartInv'
<1> SUFFICES ASSUME NEW d \in Listed, d \notin gaps'
             PROVE  PartKept(d)'
    BY DEF PartInv, Listed
<1>1. PartKept(d)
    BY GapsStay DEF PartInv
<1>2. edits + 1 \in Nat
    BY DEF TypeInv
<1>3. ASSUME NEW h \in Hakus, User(h)
      PROVE  PartKept(d)'
  <2>1. CASE \E delay \in {"soon", "later"} : updateField(h, delay)
      BY <1>1, <2>1, QueueKeeps
  <2>2. CASE updateProjects(h) \/ replaceTalousarviotilit(h) \/ startManuallySaving(h)
    <3>1. PICK v \in Nat, part \in {"projects", "tilit", "own"} :
              /\ local' = [local EXCEPT ![<<part, h>>] = v]
              /\ requests' = requests \cup {Request(part, h, v, 0, {})}
              /\ Clash(<<part, h>>, {}) \subseteq gaps'
              /\ UNCHANGED <<server, roleTimer>>
              /\ saving \cup {FlagOf[part]} \subseteq saving'
        BY <1>2, <2>2, FlagFacts DEF updateProjects, replaceTalousarviotilit, startManuallySaving,
              Send, startSaving
    <3> QED BY <1>1, <3>1, PostKeeps
  <2>3. CASE changeMembers(h)
      BY <1>1, <2>3, MembersKeep
  <2>4. CASE saveRoleImmediately(h) \/ \E r \in RoleRows : debouncedSaveRole(r, h)
    <3>1. "other" \in RoleRows
        BY DEF RoleRows
    <3> QED BY <1>1, <2>4, <3>1, RowsKeep
  <2>5. CASE selectHaku(h)
      BY <1>1, <2>5, LoadsKeep
  <2>6. CASE \E r \in RoleRows : retypeRole(r, h)
      BY <1>1, <2>6, RetypedKeeps
  <2> QED BY <1>3, <2>1, <2>2, <2>3, <2>4, <2>5, <2>6 DEF User
<1>4. CASE \E h \in Hakus : DeadlinePasses(h) \/ TimerFires(h)
    BY <1>1, <1>4, QueueKeeps
<1>5. CASE \E kind \in Timers : callSaveRole(kind)
    BY <1>1, <1>5, CallKeeps
<1>6. ASSUME NEW q \in requests, Respond(q) \/ Fail(q)
      PROVE  PartKept(d)'
  <2>1. CASE Handled(q)
      BY <1>1, <2>1, HandlingKeeps
  <2>2. CASE HakuSaved(q) \/ HakuFails(q)
    <3>1. q.haku \in Hakus
        BY DEF TypeInv, Requests
    <3> QED BY <1>1, <2>2, <3>1, QueueKeeps
  <2>3. CASE PartSaved(q) \/ Loaded(q) \/ PartFails(q) \/ LoadFails(q)
      BY <1>1, <2>3, AnswersKeep
  <2> QED BY <1>6, <2>1, <2>2, <2>3 DEF Respond, Fail
<1>7. CASE UNCHANGED vars
    BY <1>1, <1>7, KeptAlone DEF vars, documents, status
<1> QED BY <1>3, <1>4, <1>5, <1>6, <1>7 DEF Next

LEMMA PartsInitially == Init => PartInv
<1> SUFFICES ASSUME Init, NEW d \in Listed
             PROVE  PartKept(d)
    BY DEF PartInv
<1>1. requests = {} /\ local[d] = server[d] /\ \A k \in Timers : roleTimer[k].doc # d
    BY ListedFacts DEF Init, NoRow
<1> QED BY <1>1 DEF PartKept, Fresh

-----------------------------------------------------------------------------
(* Theorems.                                                               *)

\* The inductive invariant of the save queue, its requests and the status.
THEOREM Invariant == Spec => []Inv
<1>1. Init => Inv
    BY Initially
<1>2. Inv /\ [Next]_vars => Inv'
    BY Steps
<1> QED BY <1>1, <1>2, PTL DEF Spec

\* HakuSaving implements Autosave: whatever is edited, answered late or fails, the
\* server moves only forward through the edits of a haku (createHakuSaveQueue).
THEOREM QueueIsAnAutosave == Spec => SavesInOrder
<1>1. Init => A!Init
    BY HakuFacts DEF Init, A!Init, HakuDocs, HakuStored
<1>2. Inv /\ [Next]_vars => [A!Next]_(A!vars)
    BY Steps
<1> QED BY <1>1, <1>2, Invariant, PTL DEF Spec, SavesInOrder, A!Spec

\* Whoever reads "Kaikki tiedot tallennettu" has every field of every haku on the
\* server (haku_fulfilled and haku_rejected): the first half of ShownSavedIsSaved.
THEOREM ShownFieldsAreSaved == Spec => [](AllSavedShown => FieldsSaved)
<1>1. Inv => (AllSavedShown => FieldsSaved)
    BY DEF Inv, StatusInv, AllSavedShown, FieldsSaved, Local, Server
<1> QED BY <1>1, Invariant, PTL

\* Every part that met no known gap is posted alone, waits alone, or is as the
\* server has it (the inductive invariant of the parts).
THEOREM PartsInvariant == Spec => []PartInv
<1>1. Init => PartInv
    BY PartsInitially
<1>2. Inv /\ PartInv /\ [Next]_vars => PartInv'
    BY PartsKeep DEF Inv
<1> QED BY <1>1, <1>2, Invariant, PTL DEF Spec

\* Whoever reads "Kaikki tiedot tallennettu" has everything on the server that did
\* not meet a known gap, whatever was edited, answered late, replaced by a list
\* or failed (startSaving, saveSuccess and the debounce of the role rows).
THEOREM ShownIsSaved == Spec => []ShownSavedIsSaved
<1>1. Inv /\ PartInv => ShownSavedIsSaved
  <2> SUFFICES ASSUME Inv, PartInv, AllSavedShown
               PROVE  FieldsSaved /\ PartsSaved
      BY DEF ShownSavedIsSaved
  <2>1. FieldsSaved
      BY DEF Inv, StatusInv, AllSavedShown, FieldsSaved, Local, Server
  <2>2. ASSUME NEW d \in Listed, d \notin gaps
        PROVE  local[d] = server[d]
    <3>1. PartKept(d) /\ saving = {}
        BY <2>2 DEF PartInv, AllSavedShown
    <3>2. Free(d)
        BY <3>1 DEF PartKept, Free, Sole, Waits
    <3> QED BY <3>1, <3>2 DEF PartKept
  <2>3. \A d \in Docs : d \in Listed \/ \E h \in Hakus : d = <<"haku", h>>
      BY DEF Docs, Listed, Parts
  <2> QED BY <2>1, <2>2, <2>3 DEF FieldsSaved, PartsSaved
<1> QED BY <1>1, Invariant, PartsInvariant, PTL
=============================================================================
