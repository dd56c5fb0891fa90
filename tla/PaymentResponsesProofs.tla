----------------------- MODULE PaymentResponsesProofs -----------------------
(***************************************************************************)
(* Proofs about PaymentResponses, for any maksatukset, keys, files, runs   *)
(* and bounds: no response is lost, nothing is paid that Rondo has no      *)
(* invoice of, a paid row stands, and overlapping runs pay at most once    *)
(* each.                                                                   *)
(***************************************************************************)
EXTENDS PaymentResponses, FiniteSetTheorems, TLAPS

-----------------------------------------------------------------------------
(* The inductive invariant.                                                *)

Pcs == {"idle", "retry", "list", "get", "find", "update", "delete", "deleteLocal", "drop"}

Run == [pc : Pcs, list : SUBSET Files, file : Nat, payment : Payments \cup {Idle.payment},
        version : Nat, attended : BOOLEAN]

TypeInv ==
    /\ rows \in [Payments -> Seq(Row)]
    /\ invoiced \subseteq Payments /\ manual \subseteq Payments
    /\ about \in [Files -> Payments \cup Junk \cup {"none"}]
    /\ remote \subseteq Files /\ local \subseteq Files
    /\ fetch \in [Fetches -> Run]
    /\ up \in BOOLEAN /\ faults \in Nat

\* A maksatus under the key of the response is paid.
Settled(subject) ==
    subject \in Payments /\ \E p \in Payments : Key[p] = Key[subject] /\ PaidRows(rows[p]) # {}

\* A run about to mark a maksatus as paid.
Updates(t, p) == fetch[t].pc = "update" /\ fetch[t].payment = p

\* The row a run is about to replace said 'sent' when the run found it, and
\* still does, open or not; a file is on its way out only of what is settled.
RunInv ==
    \A t \in Fetches :
      /\ fetch[t].pc = "update" =>
           /\ fetch[t].payment \in Payments /\ fetch[t].file \in Files
           /\ about[fetch[t].file] \in Payments
           /\ Key[fetch[t].payment] = Key[about[fetch[t].file]]
           /\ fetch[t].version < Len(rows[fetch[t].payment])
           /\ At(rows[fetch[t].payment], fetch[t].version).status = "sent"
      /\ fetch[t].pc \in {"drop", "delete", "deleteLocal"} =>
           fetch[t].file \in Files /\ Settled(about[fetch[t].file])

\* What was sent or paid, an official paid or made as 'sent', or Rondo has the
\* invoice of: the first row of a maksatus tells how it was made.
InvoiceInv ==
    \A p \in Payments :
      EverSent(rows[p]) => p \in invoiced \cup manual \/ rows[p][1].status = "sent"

\* Paid rows are in force.
ForceInv ==
    \A p \in Payments : \A i \in PaidRows(rows[p]) : rows[p][i].open /\ ~rows[p][i].deleted

\* Each run pays at most once, and only what it found before anybody had paid.
Updaters(p) == {t \in Fetches : Updates(t, p)}

OnceInv ==
    \A p \in Payments \ manual :
      Cardinality(PaidRows(rows[p])) + Cardinality(Updaters(p)) <= Cardinality(Fetches)

Inv == TypeInv /\ RunInv /\ NoResponseLost /\ InvoiceInv /\ ForceInv /\ OnceInv

-----------------------------------------------------------------------------
(* The rows.                                                               *)

\* g continues h: no row is lost and none changes its status.
Continues(g, h) ==
    /\ Len(g) >= Len(h)
    /\ \A i \in 1..Len(h) : g[i].status = h[i].status

\* The versions of a history are 0 up to its length.
LEMMA VersionsAre ==
    ASSUME NEW h \in Seq(Row)
    PROVE  /\ Versions(h) = {v \in Nat : v < Len(h)}
           /\ \A v \in Versions(h) : v + 1 \in 1..Len(h) /\ At(h, v) = h[v + 1]
<1>1. \A i \in 1..Len(h) : i - 1 \in Nat /\ i - 1 < Len(h)
    OBVIOUS
<1>2. \A v \in Nat : v < Len(h) => v + 1 \in 1..Len(h) /\ (v + 1) - 1 = v
    OBVIOUS
<1> QED BY <1>1, <1>2 DEF Versions, At

\* A history whose rows change in place, but not their status.
LEMMA InPlace ==
    ASSUME NEW h \in Seq(Row), NEW g, g = [i \in 1..Len(h) |-> g[i]],
           \A i \in 1..Len(h) : g[i] \in Row /\ g[i].status = h[i].status
    PROVE  g \in Seq(Row) /\ Len(g) = Len(h) /\ Continues(g, h)
<1>1. g \in Seq(Row) /\ Len(g) = Len(h)
    OBVIOUS
<1> QED BY <1>1 DEF Continues

\* What a replaced row that is not paid leaves of the others.
LEMMA UpdateOfUnpaid ==
    ASSUME NEW h \in Seq(Row), NEW v \in Nat, v < Len(h), At(h, v).status # "paid",
           NEW status \in Statuses
    PROVE  LET g == UpdatePayment(h, v, status) IN
           /\ g \in Seq(Row) /\ Continues(g, h)
           /\ Len(g) = Len(h) + 1 /\ g[Len(h) + 1] = NewRow(status)
           /\ \A i \in PaidRows(h) : g[i] = h[i]
<1> DEFINE c == CloseVersion(h, v)
<1>1. \A r \in Row : LET q == [r EXCEPT !.open = FALSE] IN q \in Row /\ q.status = r.status
    BY DEF Row
<1>2. \A i \in 1..Len(h) : c[i] \in Row /\ c[i].status = h[i].status
    BY <1>1 DEF CloseVersion
<1>3. c = [i \in 1..Len(h) |-> c[i]]
    BY DEF CloseVersion
<1>4. \A i \in PaidRows(h) : i \in 1..Len(h) /\ c[i] = h[i]
    BY DEF PaidRows, At, CloseVersion
<1> HIDE DEF c
<1>5. c \in Seq(Row) /\ Len(c) = Len(h) /\ Continues(c, h)
    BY <1>2, <1>3, InPlace
<1>6. NewRow(status) \in Row
    BY DEF NewRow, Row
<1>7. LET g == Append(c, NewRow(status)) IN
        /\ g \in Seq(Row) /\ Len(g) = Len(h) + 1 /\ g[Len(h) + 1] = NewRow(status)
        /\ \A i \in 1..Len(h) : g[i] = c[i]
    BY <1>5, <1>6
<1> QED BY <1>4, <1>5, <1>7 DEF UpdatePayment, Continues, c

LEMMA DeleteOfUnsent ==
    ASSUME NEW h \in Seq(Row), NEW S \in SUBSET Unsent
    PROVE  LET g == DeleteRows(h, S) IN
           /\ g \in Seq(Row) /\ Continues(g, h) /\ Len(g) = Len(h)
           /\ \A i \in PaidRows(h) : g[i] = h[i]
<1> DEFINE g == DeleteRows(h, S)
<1>1. \A r \in Row : LET q == [r EXCEPT !.deleted = TRUE] IN q \in Row /\ q.status = r.status
    BY DEF Row
<1>2. \A i \in 1..Len(h) : g[i] \in Row /\ g[i].status = h[i].status
    BY <1>1 DEF DeleteRows
<1>3. g = [i \in 1..Len(h) |-> g[i]]
    BY DEF DeleteRows
<1>4. \A i \in PaidRows(h) : g[i] = h[i]
    BY DEF PaidRows, Unsent, DeleteRows
<1> HIDE DEF g
<1> QED BY <1>2, <1>3, <1>4, InPlace DEF g

LEMMA NewRows ==
    ASSUME NEW status \in Statuses
    PROVE  /\ <<NewRow(status)>> \in Seq(Row) /\ NewRow(status).status = status
           /\ NewRow(status).open /\ ~NewRow(status).deleted
           /\ Len(<<NewRow(status)>>) = 1 /\ <<NewRow(status)>>[1] = NewRow(status)
BY DEF NewRow, Row

\* What may happen to the rows of a maksatus in one step.
Stands(p) ==
    /\ rows'[p] \in Seq(Row) /\ Continues(rows'[p], rows[p])
    /\ \A i \in PaidRows(rows[p]) : rows'[p][i] = rows[p][i]

Grows(p, status) ==
    /\ Len(rows'[p]) = Len(rows[p]) + 1
    /\ rows'[p][Len(rows[p]) + 1] = NewRow(status)

RowsOf(p) ==
    /\ Stands(p)
    /\ \/ Len(rows'[p]) = Len(rows[p])
       \/ \E status \in Unsent : Grows(p, status)
       \/ Grows(p, "sent") /\ (p \in invoiced \/ Len(rows[p]) = 0)
       \/ Grows(p, "paid") /\ p \in manual'
       \/ Grows(p, "paid") /\ \E t \in Fetches : SetPaid(t) /\ Updates(t, p)

LEMMA SameRows ==
    ASSUME TypeInv, NEW p \in Payments, rows'[p] = rows[p]
    PROVE  RowsOf(p)
<1>1. rows[p] \in Seq(Row)
    BY DEF TypeInv
<1> QED BY <1>1 DEF RowsOf, Stands, Continues

LEMMA RowsOfSenders ==
    ASSUME TypeInv, Sender
    PROVE  /\ rows' \in [Payments -> Seq(Row)] /\ \A p \in Payments : RowsOf(p)
           /\ fetch' = fetch /\ about' = about /\ remote' = remote
           /\ invoiced \subseteq invoiced' /\ manual \subseteq manual'
<1>1. rows \in [Payments -> Seq(Row)]
    BY DEF TypeInv
<1>2. ASSUME NEW p \in Payments, Create(p)
      PROVE  rows' \in [Payments -> Seq(Row)] /\ \A q \in Payments : RowsOf(q)
  <2>1. PICK status \in Statuses :
          /\ rows' = [rows EXCEPT ![p] = <<NewRow(status)>>]
          /\ manual' = IF status = "paid" THEN manual \cup {p} ELSE manual
      BY <1>2 DEF Create
  <2>2. rows[p] = <<>>
      BY <1>2 DEF Create
  <2>3. rows' \in [Payments -> Seq(Row)]
      BY <1>1, <2>1, <2>2, NewRows
  <2>4. rows'[p] = <<NewRow(status)>> /\ Len(rows'[p]) = 1 /\ rows'[p][1] = NewRow(status)
      BY <1>1, <2>1, <2>2, NewRows
  <2>5. Len(rows[p]) = 0 /\ PaidRows(rows[p]) = {}
      BY <2>2 DEF PaidRows
  <2>6. Stands(p) /\ Grows(p, status)
    <3>1. rows'[p] \in Seq(Row)
        BY <2>3
    <3>2. Len(rows[p]) + 1 = 1 /\ 1..Len(rows[p]) = {}
        BY <2>5
    <3>3. Continues(rows'[p], rows[p])
        BY <2>4, <2>5, <3>2 DEF Continues
    <3> QED BY <2>4, <2>5, <3>1, <3>2, <3>3 DEF Stands, Grows
  <2>7. \A q \in Payments \ {p} : rows'[q] = rows[q]
      BY <1>1, <2>1
  <2>8. \A q \in Payments \ {p} : RowsOf(q)
      BY <2>7, SameRows
  <2>9. status \in Unsent \/ status = "sent" \/ status = "paid"
      BY DEF Statuses, Unsent
  <2>10. RowsOf(p)
      BY <2>1, <2>5, <2>6, <2>9 DEF RowsOf
  <2> QED BY <2>3, <2>8, <2>10
<1>3. ASSUME NEW p \in Payments, Update(p)
      PROVE  rows' \in [Payments -> Seq(Row)] /\ \A q \in Payments : RowsOf(q)
  <2>1. PICK v \in Versions(rows[p]), status \in Statuses :
          /\ At(rows[p], v).status \in Unsent
          /\ status = "sent" => p \in invoiced
          /\ rows' = [rows EXCEPT ![p] = UpdatePayment(@, v, status)]
          /\ manual' = IF status = "paid" THEN manual \cup {p} ELSE manual
      BY <1>3 DEF Update
  <2>2. v \in Nat /\ v < Len(rows[p]) /\ At(rows[p], v).status # "paid"
      BY <1>1, <2>1, VersionsAre DEF Unsent
  <2>3. rows'[p] = UpdatePayment(rows[p], v, status)
      BY <1>1, <2>1
  <2>4. Stands(p) /\ Grows(p, status)
      BY <1>1, <2>2, <2>3, UpdateOfUnpaid DEF Stands, Grows
  <2>5. rows' \in [Payments -> Seq(Row)] /\ \A q \in Payments \ {p} : rows'[q] = rows[q]
      BY <1>1, <2>1, <2>3, <2>4 DEF Stands
  <2>6. \A q \in Payments \ {p} : RowsOf(q)
      BY <2>5, SameRows
  <2>7. status \in Unsent \/ status = "sent" \/ status = "paid"
      BY DEF Statuses, Unsent
  <2>8. RowsOf(p)
      BY <2>1, <2>4, <2>7 DEF RowsOf
  <2> QED BY <2>5, <2>6, <2>8
<1>4. ASSUME Delete
      PROVE  rows' \in [Payments -> Seq(Row)] /\ \A q \in Payments : RowsOf(q)
  <2>1. PICK deleted \in SUBSET Payments, statuses \in SUBSET Unsent :
          rows' = [p \in Payments |->
                     IF p \in deleted THEN DeleteRows(rows[p], statuses) ELSE rows[p]]
      BY <1>4 DEF Delete
  <2>2. ASSUME NEW q \in Payments PROVE RowsOf(q)
    <3>1. CASE q \in deleted
      <4>1. rows'[q] = DeleteRows(rows[q], statuses)
          BY <2>1, <3>1
      <4> QED BY <1>1, <4>1, DeleteOfUnsent DEF RowsOf, Stands
    <3>2. CASE q \notin deleted
      <4>1. rows'[q] = rows[q]
          BY <2>1, <3>2
      <4> QED BY <4>1, SameRows
    <3> QED BY <3>1, <3>2
  <2>3. \A q \in Payments : rows'[q] \in Seq(Row)
      BY <2>2 DEF RowsOf, Stands
  <2> QED BY <2>1, <2>2, <2>3
<1>5. ASSUME Invoice
      PROVE  rows' \in [Payments -> Seq(Row)] /\ \A q \in Payments : RowsOf(q)
    BY <1>1, <1>5, SameRows DEF Invoice
<1>6. rows' \in [Payments -> Seq(Row)] /\ \A q \in Payments : RowsOf(q)
    BY <1>2, <1>3, <1>4, <1>5 DEF Sender
<1>7. invoiced \subseteq invoiced' /\ manual \subseteq manual'
    BY DEF Sender, Create, Update, Delete, Invoice, InvoicesArrive
<1>8. fetch' = fetch /\ about' = about /\ remote' = remote
    BY DEF Sender, Create, Update, Delete, Invoice, others
<1> QED BY <1>6, <1>7, <1>8

-----------------------------------------------------------------------------
(* The runs.                                                               *)

LEMMA IdleRun ==
    /\ Idle \in Run /\ Idle.pc = "idle"
    /\ \A pc \in Pcs, b \in BOOLEAN : LET r == [Idle EXCEPT !.pc = pc, !.attended = b] IN
         r \in Run /\ r.pc = pc
BY DEF Idle, Run, Pcs

LEMMA ThrownRun ==
    ASSUME TypeInv, NEW t \in Fetches
    PROVE  Thrown(t) \in Run /\ Thrown(t).pc \in {"idle", "retry"}
BY IdleRun DEF Thrown, Pcs

\* What makes a run ready to pay or to delete.
Kept(t) == /\ fetch'[t].pc = fetch[t].pc /\ fetch'[t].file = fetch[t].file
           /\ fetch'[t].payment = fetch[t].payment /\ fetch'[t].version = fetch[t].version

Advances(t) ==
    \/ fetch'[t].pc \in {"idle", "retry", "list", "get", "find"}
    \/ Kept(t)
    \/ TakePaid(t) /\ fetch'[t].pc = "drop" /\ fetch'[t].file = fetch[t].file
    \/ /\ TakeSent(t) /\ fetch'[t].pc = "update" /\ fetch'[t].file = fetch[t].file
       /\ <<fetch'[t].payment, fetch'[t].version>> \in Found(Subject(t))
    \/ SetPaid(t) /\ fetch'[t].pc = "delete" /\ fetch'[t].file = fetch[t].file
    \/ fetch[t].pc = "delete" /\ fetch'[t].pc = "deleteLocal" /\ fetch'[t].file = fetch[t].file

\* The open rows under the key of a response.
LEMMA FoundAre ==
    ASSUME TypeInv, NEW subject \in Payments \cup Junk \cup {"none"}, NEW r \in Found(subject)
    PROVE  /\ subject \in Payments /\ r[1] \in Payments /\ r[2] \in Nat /\ r = <<r[1], r[2]>>
           /\ Key[r[1]] = Key[subject] /\ r[2] < Len(rows[r[1]])
           /\ At(rows[r[1]], r[2]) = rows[r[1]][r[2] + 1]
<1>1. subject \in Payments
    BY DEF Found
<1>2. PICK q \in Payments : Key[q] = Key[subject] /\ r \in {q} \X OpenVersions(rows[q])
    BY <1>1 DEF Found
<1>3. r[1] = q /\ r[2] \in OpenVersions(rows[q]) /\ r = <<r[1], r[2]>>
    BY <1>2
<1>4. r[2] \in Versions(rows[q])
    BY <1>3 DEF OpenVersions, Undeleted
<1>5. rows[q] \in Seq(Row)
    BY DEF TypeInv
<1> QED BY <1>1, <1>2, <1>3, <1>4, <1>5, VersionsAre

LEMMA FilesAreNumbers == Files \subseteq Nat
BY ResponseBounds DEF Files

LEMMA GotoStep ==
    ASSUME TypeInv, NEW t \in Fetches, NEW pc \in Pcs, Goto(t, pc)
    PROVE  /\ \A u \in Fetches \ {t} : fetch'[u] = fetch[u]
           /\ fetch' \in [Fetches -> Run]
           /\ fetch'[t].pc = pc /\ fetch'[t].file = fetch[t].file
           /\ fetch'[t].payment = fetch[t].payment /\ fetch'[t].version = fetch[t].version
<1>1. fetch \in [Fetches -> Run] /\ fetch[t] \in Run
    BY DEF TypeInv
<1>2. fetch' = [fetch EXCEPT ![t] = [fetch[t] EXCEPT !.pc = pc]]
    BY <1>1 DEF Goto
<1>3. [fetch[t] EXCEPT !.pc = pc] \in Run
    BY <1>1 DEF Run
<1> QED BY <1>1, <1>2, <1>3 DEF Run

LEMMA FailsStep ==
    ASSUME TypeInv, NEW t \in Fetches, fetch' = [fetch EXCEPT ![t] = Thrown(t)]
    PROVE  /\ \A u \in Fetches \ {t} : fetch'[u] = fetch[u]
           /\ fetch' \in [Fetches -> Run]
           /\ fetch'[t].pc \in {"idle", "retry"}
BY ThrownRun DEF TypeInv

\* A run changes by its own steps, one at a time.
Steps(t) ==
    /\ \A u \in Fetches \ {t} : fetch'[u] = fetch[u]
    /\ fetch' \in [Fetches -> Run]
    /\ Advances(t)

LEMMA RunSteps ==
    ASSUME TypeInv, NEW t \in Fetches, FetchStep(t)
    PROVE  Steps(t)
<1>1. fetch \in [Fetches -> Run] /\ fetch[t] \in Run
    BY DEF TypeInv
<1>2. CASE StartFetch(t)
  <2>1. [Idle EXCEPT !.pc = "list", !.attended = TRUE] \in Run
        /\ [Idle EXCEPT !.pc = "list", !.attended = TRUE].pc = "list"
      BY IdleRun DEF Pcs
  <2> QED BY <1>1, <1>2, <2>1 DEF StartFetch, Steps, Advances
<1>3. CASE TimesOut(t)
  <2>1. fetch' = [fetch EXCEPT ![t] = [fetch[t] EXCEPT !.attended = FALSE]]
      BY <1>1, <1>3 DEF TimesOut
  <2>2. [fetch[t] EXCEPT !.attended = FALSE] \in Run
      BY <1>1 DEF Run
  <2>3. Kept(t)
      BY <1>1, <2>1 DEF Kept, Run
  <2> QED BY <1>1, <2>1, <2>2, <2>3 DEF Steps, Advances
<1>4. CASE Fault(t)
    BY <1>4, FailsStep DEF Fault, Steps, Advances
<1>5. CASE Retry(t)
    BY <1>5, GotoStep DEF Retry, Steps, Advances, Pcs
<1>6. CASE ListFiles(t)
  <2>1. fetch' = [fetch EXCEPT ![t] = [fetch[t] EXCEPT !.pc = "get", !.list = remote]]
      BY <1>1, <1>6 DEF ListFiles
  <2>2. [fetch[t] EXCEPT !.pc = "get", !.list = remote] \in Run
      BY <1>1 DEF Run, Pcs, TypeInv
  <2>3. fetch'[t].pc = "get"
      BY <1>1, <2>1 DEF Run
  <2> QED BY <1>1, <2>1, <2>2, <2>3 DEF Steps, Advances
<1>7. CASE AllDone(t)
    BY <1>1, <1>7, IdleRun DEF AllDone, Steps, Advances
<1>8. CASE GetFile(t)
  <2> DEFINE f == Min(fetch[t].list)
  <2>1. CASE f \in remote
    <3>1. f \in Nat
        BY <2>1, FilesAreNumbers DEF TypeInv
    <3>2. fetch' = [fetch EXCEPT ![t] =
                      [fetch[t] EXCEPT !.pc = "find", !.list = fetch[t].list \ {f}, !.file = f]]
        BY <1>1, <1>8, <2>1 DEF GetFile
    <3> HIDE DEF f
    <3>3. [fetch[t] EXCEPT !.pc = "find", !.list = fetch[t].list \ {f}, !.file = f] \in Run
        BY <1>1, <3>1 DEF Run, Pcs
    <3>4. fetch'[t].pc = "find"
        BY <1>1, <3>2 DEF Run
    <3> QED BY <1>1, <3>2, <3>3, <3>4 DEF Steps, Advances
  <2>2. CASE f \notin remote
      BY <1>8, <2>2, FailsStep DEF GetFile, Fails, Steps, Advances
  <2> QED BY <2>1, <2>2
<1>9. CASE PassOver(t)
    BY <1>9, GotoStep DEF PassOver, Steps, Advances, Pcs
<1>10. CASE TakePaid(t)
    BY <1>10, GotoStep DEF TakePaid, Steps, Advances, Pcs
<1>11. CASE TakeSent(t)
  <2>1. PICK r \in Found(Subject(t)) :
          fetch' = [fetch EXCEPT ![t].pc = "update", ![t].payment = r[1], ![t].version = r[2]]
      BY <1>11 DEF TakeSent
  <2>2. r[1] \in Payments /\ r[2] \in Nat /\ r = <<r[1], r[2]>>
    <3>1. Subject(t) \in Payments \cup Junk \cup {"none"}
        \/ Found(Subject(t)) = {}
        BY DEF Subject, Found
    <3> QED BY <3>1, FoundAre
  <2>3. fetch' = [fetch EXCEPT ![t] =
                    [fetch[t] EXCEPT !.pc = "update", !.payment = r[1], !.version = r[2]]]
      BY <1>1, <2>1
  <2>4. [fetch[t] EXCEPT !.pc = "update", !.payment = r[1], !.version = r[2]] \in Run
      BY <1>1, <2>2 DEF Run, Pcs
  <2>5. /\ fetch'[t].pc = "update" /\ fetch'[t].file = fetch[t].file
        /\ fetch'[t].payment = r[1] /\ fetch'[t].version = r[2]
      BY <1>1, <2>3 DEF Run
  <2> QED BY <1>1, <1>11, <2>1, <2>2, <2>3, <2>4, <2>5 DEF Steps, Advances
<1>12. CASE ReadFails(t)
    BY <1>12, FailsStep DEF ReadFails, Fails, Steps, Advances
<1>13. CASE SetPaid(t)
  <2>1. CASE InsertFits(rows[fetch[t].payment])
      BY <1>13, <2>1, GotoStep DEF SetPaid, Steps, Advances, Pcs
  <2>2. CASE ~InsertFits(rows[fetch[t].payment])
      BY <1>13, <2>2, FailsStep DEF SetPaid, Fails, Steps, Advances
  <2> QED BY <2>1, <2>2
<1>14. CASE DeleteRemote(t)
  <2>1. CASE fetch[t].file \notin remote
      BY <1>14, <2>1, FailsStep DEF DeleteRemote, Fails, Steps, Advances
  <2>2. CASE fetch[t].file \in remote /\ fetch[t].pc = "delete"
      BY <1>14, <2>2, GotoStep DEF DeleteRemote, Steps, Advances, Pcs
  <2>3. CASE fetch[t].file \in remote /\ fetch[t].pc = "drop"
      BY <1>14, <2>3, GotoStep DEF DeleteRemote, Steps, Advances, Pcs
  <2> QED BY <1>14, <2>1, <2>2, <2>3 DEF DeleteRemote
<1>15. CASE DeleteLocal(t)
  <2>1. CASE fetch[t].file \notin local
      BY <1>15, <2>1, FailsStep DEF DeleteLocal, Fails, Steps, Advances
  <2>2. CASE fetch[t].file \in local
      BY <1>15, <2>2, GotoStep DEF DeleteLocal, Steps, Advances, Pcs
  <2> QED BY <2>1, <2>2
<1> QED BY <1>2, <1>3, <1>4, <1>5, <1>6, <1>7, <1>8, <1>9, <1>10, <1>11, <1>12, <1>13, <1>14, <1>15
        DEF FetchStep, RunStep

\* The steps that are nobody's: the rows, the runs and what is known of the
\* files, all in one.
LEMMA RunsStep ==
    ASSUME TypeInv, [Next]_vars
    PROVE  /\ fetch' \in [Fetches -> Run] /\ \A t \in Fetches : Advances(t)
           /\ invoiced \subseteq invoiced' /\ manual \subseteq manual'
           /\ \A f \in Files : about[f] # "none" => about'[f] = about[f]
<1>1. fetch \in [Fetches -> Run] /\ about \in [Files -> Payments \cup Junk \cup {"none"}]
    BY DEF TypeInv
<1>2. CASE Sender
    BY <1>1, <1>2, RowsOfSenders DEF Advances, Kept
<1>3. CASE \E t \in Fetches : FetchStep(t)
  <2>1. PICK t \in Fetches : FetchStep(t)
      BY <1>3
  <2>2. UNCHANGED sender
      BY <2>1 DEF FetchStep, RunStep, StartFetch, TimesOut, Fault, Retry, ListFiles, AllDone,
                  GetFile, PassOver, TakePaid, TakeSent, ReadFails, SetPaid, DeleteRemote,
                  DeleteLocal, Fails
  <2>3. Steps(t)
      BY <2>1, RunSteps
  <2> QED BY <2>2, <2>3 DEF Steps, Advances, Kept, sender
<1>4. CASE Crash
    BY <1>1, <1>4, IdleRun DEF Crash, InvoicesArrive, Advances
<1>5. CASE \E f \in Files : Respond(f)
    BY <1>1, <1>5 DEF Respond, Advances, Kept
<1>6. CASE Restart \/ UNCHANGED vars
    BY <1>1, <1>6 DEF Restart, vars, Advances, Kept
<1> QED BY <1>2, <1>3, <1>4, <1>5, <1>6 DEF Next

LEMMA RowsOfPaying ==
    ASSUME TypeInv, RunInv, NEW t \in Fetches, SetPaid(t), InsertFits(rows[fetch[t].payment])
    PROVE  /\ rows' \in [Payments -> Seq(Row)] /\ \A p \in Payments : RowsOf(p)
           /\ fetch[t].payment \in Payments /\ Grows(fetch[t].payment, "paid")
           /\ \A q \in Payments \ {fetch[t].payment} : rows'[q] = rows[q]
<1>1. rows \in [Payments -> Seq(Row)] /\ "paid" \in Statuses
    BY DEF TypeInv, Statuses
<1>2. PICK p \in Payments : p = fetch[t].payment
    BY DEF SetPaid, RunInv
<1>3. PICK v \in Nat : v = fetch[t].version
    BY DEF TypeInv, Run
<1>4. /\ v < Len(rows[p]) /\ At(rows[p], v).status = "sent" /\ Updates(t, p)
      /\ rows' = [rows EXCEPT ![p] = UpdatePayment(@, v, "paid")]
    BY <1>2, <1>3 DEF SetPaid, RunInv, Updates
<1>5. rows'[p] = UpdatePayment(rows[p], v, "paid") /\ \A q \in Payments \ {p} : rows'[q] = rows[q]
    BY <1>1, <1>4
<1>6. At(rows[p], v).status # "paid"
    BY <1>4
<1>7. Stands(p) /\ Grows(p, "paid")
    BY <1>1, <1>4, <1>5, <1>6, UpdateOfUnpaid DEF Stands, Grows
<1>8. RowsOf(p)
    BY <1>4, <1>7 DEF RowsOf
<1>9. \A q \in Payments \ {p} : RowsOf(q)
    BY <1>5, SameRows
<1>10. \A q \in Payments : rows'[q] \in Seq(Row)
    BY <1>8, <1>9 DEF RowsOf, Stands
<1>11. rows' \in [Payments -> Seq(Row)]
    BY <1>1, <1>4, <1>10
<1> QED BY <1>2, <1>5, <1>7, <1>8, <1>9, <1>11

LEMMA RowsStep ==
    ASSUME TypeInv, RunInv, [Next]_vars
    PROVE  rows' \in [Payments -> Seq(Row)] /\ \A p \in Payments : RowsOf(p)
<1>1. CASE rows' = rows
    BY <1>1, SameRows DEF TypeInv
<1>2. CASE Sender
    BY <1>2, RowsOfSenders
<1>3. CASE \E t \in Fetches : SetPaid(t) /\ InsertFits(rows[fetch[t].payment])
    BY <1>3, RowsOfPaying
<1>4. CASE \E t \in Fetches : SetPaid(t) /\ ~InsertFits(rows[fetch[t].payment])
    BY <1>1, <1>4 DEF SetPaid, Fails
<1>5. ASSUME Next, ~Sender, ~\E t \in Fetches : SetPaid(t)
      PROVE  rows' = rows
    BY <1>5 DEF Next, Crash, Restart, Respond, FetchStep, RunStep, StartFetch, TimesOut, Fault,
                Retry, ListFiles, AllDone, GetFile, PassOver, TakePaid, TakeSent, ReadFails,
                DeleteRemote, DeleteLocal, Fails
<1> QED BY <1>1, <1>2, <1>3, <1>4, <1>5 DEF vars

\* What is gone from Rondo's directory has been deleted by a run.
LEMMA FilesStep ==
    ASSUME TypeInv, [Next]_vars
    PROVE  /\ remote' \subseteq Files /\ local' \subseteq Files
           /\ \A f \in remote \ remote' :
                \E t \in Fetches : fetch[t].file = f /\ fetch[t].pc \in {"delete", "drop"}
<1>1. remote \subseteq Files /\ local \subseteq Files
    BY DEF TypeInv
<1>2. CASE \E t \in Fetches : DeleteRemote(t)
    BY <1>1, <1>2 DEF DeleteRemote, Fails
<1>3. CASE \E t \in Fetches : DeleteLocal(t) \/ GetFile(t)
    BY <1>1, <1>3 DEF DeleteLocal, GetFile, Fails
<1>4. CASE \E f \in Files : Respond(f)
    BY <1>1, <1>4 DEF Respond
<1>5. CASE Crash
    BY <1>1, <1>5 DEF Crash
<1>6. CASE UNCHANGED <<remote, local>>
    BY <1>1, <1>6
<1>7. ASSUME Next PROVE \/ \E t \in Fetches : DeleteRemote(t)
                        \/ \E t \in Fetches : DeleteLocal(t) \/ GetFile(t)
                        \/ \E f \in Files : Respond(f)
                        \/ Crash \/ UNCHANGED <<remote, local>>
    BY <1>7 DEF Next, Sender, Create, Update, Delete, Invoice, others, Restart, FetchStep, RunStep,
                StartFetch, TimesOut, Fault, Retry, ListFiles, AllDone, PassOver, TakePaid,
                TakeSent, ReadFails, SetPaid, Fails
<1> QED BY <1>2, <1>3, <1>4, <1>5, <1>6, <1>7 DEF vars

LEMMA Types ==
    ASSUME TypeInv, RunInv, [Next]_vars
    PROVE  TypeInv'
<1>1. rows' \in [Payments -> Seq(Row)] /\ fetch' \in [Fetches -> Run]
      /\ remote' \subseteq Files /\ local' \subseteq Files
    BY RowsStep, RunsStep, FilesStep
<1>2. /\ invoiced' \subseteq Payments /\ manual' \subseteq Payments
      /\ about' \in [Files -> Payments \cup Junk \cup {"none"}]
      /\ up' \in BOOLEAN /\ faults' \in Nat
  <2>1. CASE UNCHANGED <<invoiced, manual, about, up, faults>>
      BY <2>1 DEF TypeInv
  <2>2. CASE Sender
      BY <2>2 DEF TypeInv, Sender, Create, Update, Delete, Invoice, InvoicesArrive, others
  <2>3. CASE \E t \in Fetches : FetchStep(t)
    <3>1. UNCHANGED sender
        BY <2>3 DEF FetchStep, RunStep, StartFetch, TimesOut, Fault, Retry, ListFiles, AllDone,
                    GetFile, PassOver, TakePaid, TakeSent, ReadFails, SetPaid, DeleteRemote,
                    DeleteLocal, Fails
    <3>2. faults' \in Nat
      <4>1. faults \in Nat
          BY DEF TypeInv
      <4>2. CASE \E t \in Fetches : Fault(t)
          BY <4>1, <4>2 DEF Fault
      <4>3. CASE \E t \in Fetches : StartFetch(t) \/ RunStep(t) \/ TimesOut(t)
        <5>1. UNCHANGED faults
            BY <4>3 DEF RunStep, StartFetch, TimesOut, Retry, ListFiles, AllDone, GetFile, PassOver,
                        TakePaid, TakeSent, ReadFails, SetPaid, DeleteRemote, DeleteLocal, Fails
        <5> QED BY <4>1, <5>1
      <4> QED BY <2>3, <4>2, <4>3 DEF FetchStep
    <3> QED BY <3>1, <3>2 DEF TypeInv, sender
  <2>4. CASE Crash
    <3>1. /\ UNCHANGED <<manual, about>> /\ up' = FALSE
          /\ faults > 0 /\ faults' = faults - 1
        BY <2>4 DEF Crash
    <3>2. invoiced' \subseteq Payments
        BY <2>4 DEF Crash, InvoicesArrive, TypeInv
    <3>3. faults \in Nat
        BY DEF TypeInv
    <3>4. faults' \in Nat
        BY <3>1, <3>3
    <3> QED BY <3>1, <3>2, <3>4 DEF TypeInv
  <2>5. CASE \E f \in Files : Respond(f)
      BY <2>5 DEF TypeInv, Respond
  <2>6. CASE Restart
      BY <2>6 DEF TypeInv, Restart
  <2> QED BY <2>1, <2>2, <2>3, <2>4, <2>5, <2>6 DEF Next, vars
<1> QED BY <1>1, <1>2 DEF TypeInv

-----------------------------------------------------------------------------
(* What is settled stays settled.                                          *)

LEMMA StandsMeans ==
    ASSUME NEW p \in Payments, Stands(p)
    PROVE  PaidRows(rows[p]) \subseteq PaidRows(rows'[p])
BY DEF Stands, Continues, PaidRows

LEMMA StaysSettled ==
    ASSUME TypeInv, RunInv, [Next]_vars, NEW subject, Settled(subject)
    PROVE  Settled(subject)'
<1>1. PICK p \in Payments : Key[p] = Key[subject] /\ PaidRows(rows[p]) # {}
    BY DEF Settled
<1>2. PaidRows(rows'[p]) # {}
    BY <1>1, RowsStep, StandsMeans DEF RowsOf
<1> QED BY <1>1, <1>2 DEF Settled

LEMMA PaidIsSettled ==
    ASSUME TypeInv, NEW t \in Fetches, TakePaid(t)
    PROVE  fetch[t].file \in Files /\ Settled(about[fetch[t].file])
<1>1. PICK subject \in Payments \cup Junk \cup {"none"} : subject = about[fetch[t].file]
    BY DEF TakePaid, Reads, TypeInv
<1>2. FoundOne(subject, {"paid"}) /\ fetch[t].file \in Files
    BY <1>1 DEF TakePaid, AlreadyPaid, Subject, Reads, TypeInv
<1>3. Found(subject) # {}
    BY <1>2, FS_EmptySet DEF FoundOne
<1>4. PICK r \in Found(subject) : At(rows[r[1]], r[2]).status = "paid"
    BY <1>2, <1>3 DEF FoundOne
<1>5. /\ subject \in Payments /\ r[1] \in Payments /\ r[2] \in Nat /\ Key[r[1]] = Key[subject]
      /\ r[2] < Len(rows[r[1]]) /\ rows[r[1]][r[2] + 1].status = "paid"
    BY <1>4, FoundAre
<1>6. r[2] + 1 \in 1..Len(rows[r[1]])
    BY <1>5 DEF TypeInv
<1>7. r[2] + 1 \in PaidRows(rows[r[1]])
    BY <1>5, <1>6 DEF PaidRows
<1> QED BY <1>1, <1>2, <1>5, <1>7 DEF Settled

LEMMA SentIsFound ==
    ASSUME TypeInv, NEW t \in Fetches, TakeSent(t),
           <<fetch'[t].payment, fetch'[t].version>> \in Found(Subject(t))
    PROVE  /\ fetch[t].file \in Files /\ about[fetch[t].file] \in Payments
           /\ fetch'[t].payment \in Payments /\ fetch'[t].version \in Nat
           /\ Key[fetch'[t].payment] = Key[about[fetch[t].file]]
           /\ fetch'[t].version < Len(rows[fetch'[t].payment])
           /\ \A r \in Found(Subject(t)) : At(rows[r[1]], r[2]).status = "sent"
           /\ UNCHANGED <<rows, about>>
<1> DEFINE r == <<fetch'[t].payment, fetch'[t].version>>
<1>1. fetch[t].file \in Files /\ Subject(t) = about[fetch[t].file]
      /\ Subject(t) \in Payments \cup Junk \cup {"none"}
    BY DEF TakeSent, Reads, TypeInv, Subject
<1>2. r \in Found(Subject(t)) /\ r[1] = fetch'[t].payment /\ r[2] = fetch'[t].version
    OBVIOUS
<1>3. /\ Subject(t) \in Payments /\ r[1] \in Payments /\ r[2] \in Nat
      /\ Key[r[1]] = Key[Subject(t)] /\ r[2] < Len(rows[r[1]])
    BY <1>1, <1>2, FoundAre
<1>4. \A q \in Found(Subject(t)) : At(rows[q[1]], q[2]).status = "sent"
    BY DEF TakeSent, Payable, FoundOne
<1>5. UNCHANGED <<rows, about>>
    BY DEF TakeSent, sender
<1> QED BY <1>1, <1>2, <1>3, <1>4, <1>5

LEMMA RunsStayReady ==
    ASSUME TypeInv, RunInv, [Next]_vars
    PROVE  RunInv'
<1> SUFFICES ASSUME NEW t \in Fetches
             PROVE  /\ fetch'[t].pc = "update" =>
                         /\ fetch'[t].payment \in Payments /\ fetch'[t].file \in Files
                         /\ about'[fetch'[t].file] \in Payments
                         /\ Key[fetch'[t].payment] = Key[about'[fetch'[t].file]]
                         /\ fetch'[t].version < Len(rows'[fetch'[t].payment])
                         /\ At(rows'[fetch'[t].payment], fetch'[t].version).status = "sent"
                    /\ fetch'[t].pc \in {"drop", "delete", "deleteLocal"} =>
                         fetch'[t].file \in Files /\ Settled(about[fetch[t].file])'
    BY DEF RunInv
<1>1. Advances(t)
    BY RunsStep
<1>2. ASSUME fetch'[t].pc = "update"
      PROVE  /\ fetch'[t].payment \in Payments /\ fetch'[t].file \in Files
             /\ about'[fetch'[t].file] \in Payments
             /\ Key[fetch'[t].payment] = Key[about'[fetch'[t].file]]
             /\ fetch'[t].version < Len(rows'[fetch'[t].payment])
             /\ At(rows'[fetch'[t].payment], fetch'[t].version).status = "sent"
  <2>1. PICK p, v, f : p = fetch'[t].payment /\ v = fetch'[t].version /\ f = fetch'[t].file
      OBVIOUS
  <2>2. /\ p \in Payments /\ f \in Files /\ v \in Nat /\ about[f] \in Payments
        /\ Key[p] = Key[about[f]] /\ v < Len(rows[p]) /\ At(rows[p], v).status = "sent"
    <3>1. CASE Kept(t)
        BY <1>2, <2>1, <3>1 DEF Kept, RunInv, TypeInv, Run
    <3>2. CASE /\ TakeSent(t) /\ fetch'[t].file = fetch[t].file
               /\ <<fetch'[t].payment, fetch'[t].version>> \in Found(Subject(t))
        BY <2>1, <3>2, SentIsFound
    <3> QED BY <1>1, <1>2, <3>1, <3>2 DEF Advances
  <2>3. about'[f] = about[f]
      BY <2>2, RunsStep, PaymentsAreNoJunk
  <2>4. Continues(rows'[p], rows[p]) /\ v + 1 \in 1..Len(rows[p])
        /\ Len(rows[p]) \in Nat /\ Len(rows'[p]) \in Nat
      BY <2>2, RowsStep DEF RowsOf, Stands, TypeInv
  <2>5. v < Len(rows'[p]) /\ At(rows'[p], v).status = "sent"
      BY <2>2, <2>4 DEF Continues, At
  <2> QED BY <2>1, <2>2, <2>3, <2>5
<1>3. ASSUME fetch'[t].pc \in {"drop", "delete", "deleteLocal"}
      PROVE  fetch'[t].file \in Files /\ Settled(about[fetch[t].file])'
  <2>1. PICK f : f = fetch'[t].file
      OBVIOUS
  <2>2. CASE SetPaid(t) /\ fetch'[t].pc = "delete" /\ fetch'[t].file = fetch[t].file
    <3>1. InsertFits(rows[fetch[t].payment])
        BY <1>3, <2>2, FailsStep DEF SetPaid, Fails
    <3>2. PICK p \in Payments : p = fetch[t].payment
        BY <2>2 DEF SetPaid, RunInv
    <3>3. f \in Files /\ about[f] \in Payments /\ Key[p] = Key[about[f]]
        BY <2>1, <2>2, <3>2 DEF SetPaid, RunInv
    <3>4. Grows(p, "paid") /\ rows[p] \in Seq(Row)
        BY <2>2, <3>1, <3>2, RowsOfPaying DEF TypeInv
    <3>5. Len(rows[p]) + 1 \in PaidRows(rows'[p])
        BY <3>4, NewRows DEF Grows, PaidRows, Statuses
    <3>6. PICK subject \in Payments : subject = about[f]
        BY <3>3
    <3>7. Settled(subject)'
        BY <3>3, <3>5, <3>6 DEF Settled
    <3>8. about'[f] = subject
        BY <3>3, <3>6, RunsStep, PaymentsAreNoJunk
    <3> QED BY <2>1, <3>3, <3>7, <3>8
  <2>3. CASE f \in Files /\ Settled(about[f])
    <3>1. PICK subject \in Payments : subject = about[f]
        BY <2>3 DEF Settled
    <3>2. Settled(subject)'
        BY <2>3, <3>1, StaysSettled
    <3>3. about'[f] = subject
        BY <2>3, <3>1, RunsStep, PaymentsAreNoJunk
    <3> QED BY <2>1, <2>3, <3>2, <3>3
  <2>4. CASE Kept(t) \/ (fetch[t].pc = "delete" /\ fetch'[t].file = fetch[t].file)
      BY <1>3, <2>1, <2>3, <2>4 DEF Kept, RunInv
  <2>5. CASE TakePaid(t) /\ fetch'[t].file = fetch[t].file
      BY <2>1, <2>3, <2>5, PaidIsSettled
  <2>6. \/ Kept(t)
        \/ fetch[t].pc = "delete" /\ fetch'[t].file = fetch[t].file
        \/ TakePaid(t) /\ fetch'[t].file = fetch[t].file
        \/ SetPaid(t) /\ fetch'[t].pc = "delete" /\ fetch'[t].file = fetch[t].file
      BY <1>1, <1>3 DEF Advances
  <2> QED BY <2>2, <2>4, <2>5, <2>6
<1> QED BY <1>2, <1>3

-----------------------------------------------------------------------------
(* Responses, invoices, and the rows in force.                             *)

LEMMA ResponsesStay ==
    ASSUME TypeInv, RunInv, NoResponseLost, [Next]_vars
    PROVE  NoResponseLost'
<1> SUFFICES ASSUME NEW f \in Files, about'[f] \in Payments, f \notin remote'
             PROVE  \E p \in Payments : Key[p] = Key[about'[f]] /\ PaidRows(rows'[p]) # {}
    BY DEF NoResponseLost
<1>1. about[f] = about'[f]
  <2>1. CASE \E g \in Files : Respond(g)
    <3>1. PICK g \in Files : Respond(g)
        BY <2>1
    <3>2. g # f
        BY <3>1 DEF Respond
    <3> QED BY <3>1, <3>2 DEF Respond, TypeInv
  <2>2. CASE \E t \in Fetches : FetchStep(t)
      BY <2>2 DEF FetchStep, RunStep, StartFetch, TimesOut, Fault, Retry, ListFiles, AllDone,
                  GetFile, PassOver, TakePaid, TakeSent, ReadFails, SetPaid, DeleteRemote,
                  DeleteLocal, Fails, sender
  <2>3. CASE Sender
      BY <2>3, RowsOfSenders
  <2>4. CASE Crash \/ Restart \/ UNCHANGED vars
      BY <2>4 DEF Crash, Restart, vars
  <2> QED BY <2>1, <2>2, <2>3, <2>4 DEF Next
<1>2. PICK subject \in Payments : subject = about[f]
    BY <1>1
<1>3. Settled(subject)
  <2>1. CASE f \notin remote
      BY <1>2, <2>1 DEF NoResponseLost, Settled
  <2>2. CASE f \in remote
    <3>1. PICK t \in Fetches : fetch[t].file = f /\ fetch[t].pc \in {"delete", "drop"}
        BY <2>2, FilesStep
    <3> QED BY <1>2, <3>1 DEF RunInv
  <2> QED BY <2>1, <2>2
<1>4. Settled(subject)'
    BY <1>3, StaysSettled
<1> QED BY <1>1, <1>2, <1>4 DEF Settled

\* A row that was not there before is the last one.
LEMMA LastRow ==
    ASSUME TypeInv, NEW p \in Payments, RowsOf(p), NEW i \in 1..Len(rows'[p])
    PROVE  \/ i \in 1..Len(rows[p]) /\ rows'[p][i].status = rows[p][i].status
           \/ i = Len(rows[p]) + 1 /\ Len(rows'[p]) = Len(rows[p]) + 1
<1>1. rows[p] \in Seq(Row) /\ rows'[p] \in Seq(Row) /\ Continues(rows'[p], rows[p])
    BY DEF TypeInv, RowsOf, Stands
<1>2. Len(rows'[p]) \in {Len(rows[p]), Len(rows[p]) + 1}
    BY DEF RowsOf, Grows
<1> QED BY <1>1, <1>2 DEF Continues

LEMMA InvoicesStay ==
    ASSUME TypeInv, RunInv, InvoiceInv, [Next]_vars
    PROVE  InvoiceInv'
<1> SUFFICES ASSUME NEW p \in Payments, NEW i \in 1..Len(rows'[p]),
                    rows'[p][i].status \in {"sent", "paid"}
             PROVE  p \in invoiced' \cup manual' \/ rows'[p][1].status = "sent"
    BY DEF InvoiceInv, EverSent
<1>1. RowsOf(p) /\ invoiced \subseteq invoiced' /\ manual \subseteq manual'
    BY RowsStep, RunsStep
<1>2. CASE EverSent(rows[p])
  <2>1. p \in invoiced \cup manual \/ rows[p][1].status = "sent"
      BY <1>2 DEF InvoiceInv
  <2>2. rows[p] \in Seq(Row) /\ Len(rows[p]) > 0
      BY <1>2 DEF EverSent, TypeInv
  <2>3. 1 \in 1..Len(rows[p])
      BY <2>2
  <2>4. rows'[p][1].status = rows[p][1].status
      BY <1>1, <2>3 DEF RowsOf, Stands, Continues
  <2> QED BY <1>1, <2>1, <2>4
<1>3. CASE i = Len(rows[p]) + 1 /\ Len(rows'[p]) = Len(rows[p]) + 1
  <2>1. rows[p] \in Seq(Row) /\ Len(rows[p]) # Len(rows[p]) + 1
      BY DEF TypeInv
  <2>2. \A status \in Statuses : Grows(p, status) => rows'[p][i].status = status
      BY <1>3, NewRows DEF Grows
  <2>3. CASE \E status \in Unsent : Grows(p, status)
      BY <2>2, <2>3 DEF Unsent, Statuses
  <2>4. CASE \E t \in Fetches : SetPaid(t) /\ Updates(t, p)
    <3>1. PICK t \in Fetches : SetPaid(t) /\ Updates(t, p)
        BY <2>4
    <3>2. PICK v \in Nat : v = fetch[t].version
        BY DEF TypeInv, Run
    <3>3. v < Len(rows[p]) /\ rows[p][v + 1].status = "sent"
        BY <3>1, <3>2 DEF Updates, RunInv, At
    <3>4. v + 1 \in 1..Len(rows[p])
        BY <2>1, <3>3
    <3>5. EverSent(rows[p])
        BY <3>3, <3>4 DEF EverSent
    <3> QED BY <1>2, <3>5
  <2>5. CASE Grows(p, "sent") /\ Len(rows[p]) = 0
    <3>1. rows'[p][1] = NewRow("sent")
        BY <2>5 DEF Grows
    <3> QED BY <3>1 DEF NewRow
  <2> QED BY <1>1, <1>3, <2>1, <2>3, <2>4, <2>5 DEF RowsOf
<1>4. CASE i \in 1..Len(rows[p]) /\ rows'[p][i].status = rows[p][i].status
  <2>1. EverSent(rows[p])
      BY <1>4 DEF EverSent
  <2> QED BY <1>2, <2>1
<1> QED BY <1>1, <1>3, <1>4, LastRow

\* The paid rows after a step are those before it, and perhaps the last one.
LEMMA PaidRowsStep ==
    ASSUME TypeInv, NEW p \in Payments, RowsOf(p)
    PROVE  /\ \A i \in PaidRows(rows'[p]) :
                \/ i \in PaidRows(rows[p])
                \/ i = Len(rows[p]) + 1 /\ Grows(p, "paid")
           /\ PaidRows(rows[p]) \subseteq PaidRows(rows'[p])
<1>1. PaidRows(rows[p]) \subseteq PaidRows(rows'[p])
    BY StandsMeans DEF RowsOf
<1>2. ASSUME NEW i \in PaidRows(rows'[p]), i \notin PaidRows(rows[p])
      PROVE  i = Len(rows[p]) + 1 /\ Grows(p, "paid")
  <2>1. i \in 1..Len(rows'[p]) /\ rows'[p][i].status = "paid"
      BY DEF PaidRows
  <2>2. i = Len(rows[p]) + 1 /\ Len(rows'[p]) = Len(rows[p]) + 1
      BY <1>2, <2>1, LastRow DEF PaidRows
  <2>3. rows[p] \in Seq(Row) /\ Len(rows[p]) # Len(rows[p]) + 1
      BY DEF TypeInv
  <2>4. \A status \in Statuses : Grows(p, status) => status = "paid"
      BY <2>1, <2>2, NewRows DEF Grows
  <2> QED BY <2>2, <2>3, <2>4 DEF RowsOf, Unsent, Statuses
<1> QED BY <1>1, <1>2

LEMMA ForceStays ==
    ASSUME TypeInv, RunInv, ForceInv, [Next]_vars
    PROVE  ForceInv'
<1> SUFFICES ASSUME NEW p \in Payments, NEW i \in PaidRows(rows'[p])
             PROVE  rows'[p][i].open /\ ~rows'[p][i].deleted
    BY DEF ForceInv
<1>1. RowsOf(p)
    BY RowsStep
<1>2. CASE i \in PaidRows(rows[p])
    BY <1>1, <1>2 DEF ForceInv, RowsOf, Stands
<1>3. CASE i = Len(rows[p]) + 1 /\ Grows(p, "paid")
    BY <1>3, NewRows DEF Grows, Statuses
<1> QED BY <1>1, <1>2, <1>3, PaidRowsStep

-----------------------------------------------------------------------------
(* Once for every run.                                                     *)

LEMMA PaidRowsFinite ==
    ASSUME NEW h \in Seq(Row)
    PROVE  IsFiniteSet(PaidRows(h)) /\ Cardinality(PaidRows(h)) \in Nat
<1>1. PaidRows(h) \subseteq 1..Len(h)
    BY DEF PaidRows
<1>2. Len(h) \in Nat
    OBVIOUS
<1>3. IsFiniteSet(1..Len(h))
    BY <1>2, FS_Interval
<1> QED BY <1>1, <1>3, FS_Subset, FS_CardinalityType

LEMMA UpdatersFinite ==
    ASSUME NEW S \in SUBSET Fetches
    PROVE  /\ IsFiniteSet(S) /\ Cardinality(S) \in Nat
           /\ Cardinality(S) <= Cardinality(Fetches) /\ Cardinality(Fetches) \in Nat
BY FetchesAssumption, FS_Subset, FS_CardinalityType

\* What somebody has paid is not found to be 'sent'.
LEMMA FoundUnpaid ==
    ASSUME TypeInv, ForceInv, NEW t \in Fetches, TakeSent(t),
           <<fetch'[t].payment, fetch'[t].version>> \in Found(Subject(t))
    PROVE  PaidRows(rows[fetch'[t].payment]) = {}
<1>1. PICK p \in Payments : p = fetch'[t].payment
    BY SentIsFound
<1>2. PICK subject \in Payments : subject = Subject(t) /\ Key[p] = Key[subject]
    BY <1>1, SentIsFound DEF Subject
<1>3. \A r \in Found(subject) : At(rows[r[1]], r[2]).status = "sent"
    BY <1>2, SentIsFound
<1>4. ASSUME NEW i \in PaidRows(rows[p]) PROVE FALSE
  <2>1. i \in 1..Len(rows[p]) /\ rows[p][i].status = "paid"
        /\ rows[p][i].open /\ ~rows[p][i].deleted
      BY DEF PaidRows, ForceInv
  <2>2. i - 1 \in Versions(rows[p]) /\ At(rows[p], i - 1) = rows[p][i]
      BY <2>1 DEF Versions, At
  <2>3. i - 1 \in OpenVersions(rows[p])
      BY <2>1, <2>2 DEF OpenVersions, Undeleted
  <2>4. <<p, i - 1>> \in Found(subject)
      BY <1>2, <2>3 DEF Found
  <2> QED BY <1>3, <2>1, <2>2, <2>4
<1> QED BY <1>1, <1>4

LEMMA OnceStays ==
    ASSUME TypeInv, RunInv, ForceInv, OnceInv, [Next]_vars
    PROVE  OnceInv'
<1> SUFFICES ASSUME NEW p \in Payments \ manual'
             PROVE  Cardinality(PaidRows(rows'[p])) + Cardinality(Updaters(p)') <= Cardinality(Fetches)
    BY DEF OnceInv
<1>1. /\ RowsOf(p) /\ rows[p] \in Seq(Row) /\ rows'[p] \in Seq(Row) /\ p \notin manual
      /\ \A t \in Fetches : Advances(t)
    BY RowsStep, RunsStep DEF TypeInv
<1>2. Cardinality(PaidRows(rows[p])) + Cardinality(Updaters(p)) <= Cardinality(Fetches)
    BY <1>1 DEF OnceInv
<1>3. /\ Updaters(p) \in SUBSET Fetches /\ Updaters(p)' \in SUBSET Fetches
      /\ IsFiniteSet(PaidRows(rows[p])) /\ Cardinality(PaidRows(rows[p])) \in Nat
      /\ Cardinality(PaidRows(rows'[p])) \in Nat
    BY <1>1, PaidRowsFinite DEF Updaters
<1>4. /\ IsFiniteSet(Updaters(p)) /\ Cardinality(Updaters(p)) \in Nat
      /\ Cardinality(Updaters(p)') \in Nat /\ Cardinality(Updaters(p)') <= Cardinality(Fetches)
      /\ Cardinality(Fetches) \in Nat
    BY <1>3, UpdatersFinite
<1>5. CASE \E t \in Fetches : Updates(t, p)' /\ ~Updates(t, p)
  <2>1. PICK t \in Fetches : Updates(t, p)' /\ ~Updates(t, p)
      BY <1>5
  <2>2. /\ TakeSent(t) /\ fetch'[t].payment = p
        /\ <<fetch'[t].payment, fetch'[t].version>> \in Found(Subject(t))
      BY <1>1, <2>1 DEF Advances, Kept, Updates
  <2>3. PaidRows(rows[p]) = {} /\ rows' = rows
      BY <2>2, FoundUnpaid, SentIsFound
  <2>4. Cardinality(PaidRows(rows'[p])) = 0
      BY <2>3, FS_EmptySet
  <2> QED BY <1>3, <1>4, <2>4
<1>6. CASE Grows(p, "paid") /\ ~\E t \in Fetches : Updates(t, p)' /\ ~Updates(t, p)
  <2>1. Len(rows[p]) # Len(rows[p]) + 1 /\ Len(rows'[p]) = Len(rows[p]) + 1
        /\ rows'[p][Len(rows[p]) + 1].status = "paid"
      BY <1>1, <1>6, NewRows DEF Grows, Statuses
  <2>2. PICK t \in Fetches : SetPaid(t) /\ Updates(t, p)
    <3>1. \A status \in Statuses : Grows(p, status) => status = "paid"
        BY <2>1, NewRows DEF Grows
    <3> QED BY <1>1, <2>1, <3>1 DEF RowsOf, Unsent, Statuses
  <2>3. ~Updates(t, p)'
    <3>1. InsertFits(rows[p])
        BY <2>1, <2>2 DEF SetPaid, Updates, Fails
    <3>2. fetch'[t].pc = "delete"
        BY <2>2, <3>1, GotoStep DEF SetPaid, Updates, Pcs
    <3> QED BY <3>2 DEF Updates
  <2>4. Updaters(p)' \subseteq Updaters(p) \ {t} /\ t \in Updaters(p)
      BY <1>6, <2>2, <2>3 DEF Updaters
  <2>5. IsFiniteSet(Updaters(p) \ {t})
        /\ Cardinality(Updaters(p) \ {t}) = Cardinality(Updaters(p)) - 1
      BY <1>4, <2>4, FS_RemoveElement
  <2>6. Cardinality(Updaters(p)') <= Cardinality(Updaters(p)) - 1
      BY <2>4, <2>5, FS_Subset
  <2>7. PaidRows(rows'[p]) \subseteq PaidRows(rows[p]) \cup {Len(rows[p]) + 1}
      BY <1>1, PaidRowsStep
  <2>8. /\ IsFiniteSet(PaidRows(rows[p]) \cup {Len(rows[p]) + 1})
        /\ Cardinality(PaidRows(rows[p]) \cup {Len(rows[p]) + 1}) <= Cardinality(PaidRows(rows[p])) + 1
    <3>1. Len(rows[p]) + 1 \notin PaidRows(rows[p])
        BY <1>1 DEF PaidRows
    <3>2. /\ IsFiniteSet(PaidRows(rows[p]) \cup {Len(rows[p]) + 1})
          /\ Cardinality(PaidRows(rows[p]) \cup {Len(rows[p]) + 1}) =
               Cardinality(PaidRows(rows[p])) + 1
        BY <1>3, <3>1, FS_AddElement
    <3> QED BY <1>3, <3>2
  <2>9. Cardinality(PaidRows(rows'[p])) <= Cardinality(PaidRows(rows[p]) \cup {Len(rows[p]) + 1})
      BY <2>7, <2>8, FS_Subset
  <2>10. Cardinality(PaidRows(rows[p]) \cup {Len(rows[p]) + 1}) \in Nat
      BY <2>8, FS_CardinalityType
  <2> QED BY <1>2, <1>3, <1>4, <2>6, <2>8, <2>9, <2>10
<1>7. CASE ~Grows(p, "paid") /\ ~\E t \in Fetches : Updates(t, p)' /\ ~Updates(t, p)
  <2>1. PaidRows(rows'[p]) = PaidRows(rows[p])
      BY <1>1, <1>7, PaidRowsStep
  <2>2. Updaters(p)' \subseteq Updaters(p)
      BY <1>7 DEF Updaters
  <2>3. Cardinality(Updaters(p)') <= Cardinality(Updaters(p))
      BY <1>4, <2>2, FS_Subset
  <2> QED BY <1>2, <1>3, <1>4, <2>1, <2>3
<1> QED BY <1>5, <1>6, <1>7

-----------------------------------------------------------------------------
(* Theorems.                                                               *)

LEMMA Initially == Init => Inv
<1> SUFFICES ASSUME Init PROVE Inv
    OBVIOUS
<1> USE DEF Init
<1>1. rows \in [Payments -> Seq(Row)] /\ fetch \in [Fetches -> Run]
  <2>1. <<NewRow("created")>> \in Seq(Row) /\ <<>> \in Seq(Row)
      BY NewRows DEF Statuses
  <2> QED BY <2>1, IdleRun
<1>2. TypeInv
    BY <1>1, ResponseBounds DEF TypeInv
<1>3. \A p \in Payments : \A i \in 1..Len(rows[p]) : rows[p][i].status = "created"
  <2>1. \A h \in {<<>>, <<NewRow("created")>>} : \A i \in 1..Len(h) : h[i].status = "created"
      BY NewRows DEF Statuses
  <2> QED BY <2>1
<1>4. \A p \in Payments : PaidRows(rows[p]) = {} /\ ~EverSent(rows[p])
    BY <1>3 DEF PaidRows, EverSent
<1>5. RunInv
    BY IdleRun DEF RunInv
<1>6. NoResponseLost /\ InvoiceInv /\ ForceInv
    BY <1>4, PaymentsAreNoJunk DEF NoResponseLost, InvoiceInv, ForceInv
<1>7. OnceInv
  <2>1. \A p \in Payments : Updaters(p) \in SUBSET Fetches
      BY DEF Updaters
  <2>2. \A p \in Payments : Cardinality(PaidRows(rows[p])) = 0
      BY <1>4, FS_EmptySet
  <2>3. \A p \in Payments : Cardinality(Updaters(p)) \in Nat
                            /\ Cardinality(Updaters(p)) <= Cardinality(Fetches)
      BY <2>1, UpdatersFinite
  <2> QED BY <2>2, <2>3 DEF OnceInv
<1> QED BY <1>2, <1>5, <1>6, <1>7 DEF Inv

LEMMA StepKeepsInv == Inv /\ [Next]_vars => Inv'
BY Types, RunsStayReady, ResponsesStay, InvoicesStay, ForceStays, OnceStays DEF Inv

\* Inv holds of every reachable state.
THEOREM Invariant == Spec => []Inv
BY Initially, StepKeepsInv, PTL DEF Spec

\* The file of a response goes only when a maksatus under its key is paid,
\* however many runs overlap, fail or die (pop-remote-files).
THEOREM ResponsesKept == Spec => []NoResponseLost
<1>1. Inv => NoResponseLost
    BY DEF Inv
<1> QED BY <1>1, Invariant, PTL

\* A maksatus is paid only of which Rondo has the invoice, or which an official
\* marked or made as paid, or made as 'sent' (update-paymentstatus-by-response).
THEOREM NothingPaidUnasked == Spec => []PaidMeansInvoiced
<1>1. Inv => PaidMeansInvoiced
    BY DEF Inv, InvoiceInv, PaidMeansInvoiced, PaidRows, EverSent
<1> QED BY <1>1, Invariant, PTL

\* A row that says 'paid' stays as it is: the row a run replaces was 'sent'
\* when the run found it, and a status never changes (update-payment).
THEOREM PaidRowsStand == Spec => PaidStands
<1>1. Inv /\ [Next]_vars => [\A p \in Payments : \A i \in PaidRows(rows[p]) :
                                rows'[p][i] = rows[p][i]]_vars
    BY RowsStep DEF Inv, RowsOf, Stands
<1> QED BY <1>1, Invariant, PTL DEF Spec, PaidStands

\* Overlapping runs may each mark a maksatus as paid, but a run that finds it
\* after one has done so does not (find-payments-by-response).
THEOREM PaidOnceEach == Spec => []PaidOncePerRun
<1>1. ASSUME Inv PROVE PaidOncePerRun
  <2> SUFFICES ASSUME NEW p \in Payments \ manual
               PROVE  Cardinality(PaidRows(rows[p])) <= Cardinality(Fetches)
      BY DEF PaidOncePerRun
  <2>1. Cardinality(PaidRows(rows[p])) \in Nat
      BY <1>1, PaidRowsFinite DEF Inv, TypeInv
  <2>2. Cardinality(Updaters(p)) \in Nat /\ Cardinality(Fetches) \in Nat
      BY UpdatersFinite DEF Updaters
  <2> QED BY <1>1, <2>1, <2>2 DEF Inv, OnceInv
<1>2. Inv => PaidOncePerRun
    BY <1>1
<1> QED BY <1>2, Invariant, PTL
=============================================================================
