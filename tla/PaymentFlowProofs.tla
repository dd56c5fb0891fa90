------------------------- MODULE PaymentFlowProofs -------------------------
(***************************************************************************)
(* Proofs about sending and responses together.  The send job and the      *)
(* officials of PaymentSending are senders as PaymentResponses expects     *)
(* them, so that what is proved of the responses there holds here, of the  *)
(* real send job.                                                          *)
(***************************************************************************)
EXTENDS PaymentFlow, PaymentSendingProofs

\* The proofs about the responses, for the invoices that Rondo has got.
R == INSTANCE PaymentResponsesProofs WITH invoiced <- Invoiced

-----------------------------------------------------------------------------
(* The inductive invariant.                                                *)

FlowInv == TypeInv /\ DeliveryInv /\ UnsentInv /\ R!Inv

\* The bound of PaymentResponses on the histories that a sender makes.
RowsFit == \A p \in Payments : Len(rows[p]) < MaxRows

-----------------------------------------------------------------------------
(* The responses as PaymentFlow and as the proofs know them are the same.  *)

LEMMA SameInit == Responses!Init <=> R!Init
BY DEF Responses!Init, R!Init, Responses!NewRow, R!NewRow, Responses!Files, R!Files,
       Responses!Idle, R!Idle

LEMMA SameVars == Responses!vars = R!vars
BY DEF Responses!vars, R!vars

LEMMA SameSenders == Responses!Sender <=> R!Sender
BY DEF Responses!Sender, R!Sender, Responses!Delete, R!Delete, Responses!Invoice,
       R!Invoice, Responses!InvoicesArrive, R!InvoicesArrive, Responses!Create, R!Create,
       Responses!Update, R!Update, Responses!others, R!others, Responses!NewRow, R!NewRow,
       Responses!Unsent, R!Unsent, Responses!Statuses, R!Statuses, Responses!InsertFits,
       R!InsertFits, Responses!NextVersion, R!NextVersion, Responses!Max, R!Max,
       Responses!Versions, R!Versions, Responses!Undeleted, R!Undeleted, Responses!At,
       R!At, Responses!UpdatePayment, R!UpdatePayment, Responses!CloseVersion,
       R!CloseVersion, Responses!DeleteRows, R!DeleteRows

LEMMA SameProcess == /\ Responses!Crash <=> R!Crash
                     /\ Responses!Restart <=> R!Restart
<1>1. Responses!Crash <=> R!Crash
  BY DEF Responses!Crash, R!Crash, Responses!InvoicesArrive, R!InvoicesArrive,
         Responses!Idle, R!Idle
<1>2. Responses!Restart <=> R!Restart
  BY DEF Responses!Restart, R!Restart
<1> QED BY <1>1, <1>2

LEMMA SameRespond ==
    ASSUME NEW f
    PROVE  Responses!Respond(f) <=> R!Respond(f)
BY DEF Responses!Respond, R!Respond, Responses!Junk, R!Junk

LEMMA SameFetchSteps ==
    ASSUME NEW t
    PROVE  Responses!FetchStep(t) <=> R!FetchStep(t)
BY DEF Responses!FetchStep, R!FetchStep, Responses!StartFetch, R!StartFetch,
       Responses!RunStep, R!RunStep, Responses!TimesOut, R!TimesOut, Responses!Fault,
       R!Fault, Responses!Retry, R!Retry, Responses!ListFiles, R!ListFiles,
       Responses!AllDone, R!AllDone, Responses!GetFile, R!GetFile,
       Responses!PassOver, R!PassOver, Responses!TakePaid, R!TakePaid,
       Responses!TakeSent, R!TakeSent, Responses!ReadFails, R!ReadFails,
       Responses!SetPaid, R!SetPaid, Responses!DeleteRemote, R!DeleteRemote,
       Responses!DeleteLocal, R!DeleteLocal, Responses!Fails, R!Fails,
       Responses!Thrown, R!Thrown, Responses!Goto, R!Goto, Responses!Idle, R!Idle,
       Responses!sender, R!sender, Responses!Subject, R!Subject, Responses!Reads,
       R!Reads, Responses!PassedOver, R!PassedOver, Responses!AlreadyPaid,
       R!AlreadyPaid, Responses!Payable, R!Payable, Responses!Stuck, R!Stuck,
       Responses!FoundOne, R!FoundOne, Responses!Found, R!Found,
       Responses!OpenVersions, R!OpenVersions, Responses!Undeleted, R!Undeleted,
       Responses!Versions, R!Versions, Responses!At, R!At, Responses!Cardinality,
       R!Cardinality, Responses!InsertFits, R!InsertFits, Responses!NextVersion,
       R!NextVersion, Responses!Max, R!Max, Responses!Min, R!Min,
       Responses!UpdatePayment, R!UpdatePayment, Responses!CloseVersion,
       R!CloseVersion, Responses!NewRow, R!NewRow

LEMMA SameNext == Responses!Next <=> R!Next
<1>1. Responses!Files = R!Files
  BY DEF Responses!Files, R!Files
<1>2. (\E f \in Responses!Files : Responses!Respond(f)) <=> \E f \in R!Files : R!Respond(f)
  BY <1>1, SameRespond
<1>3. (\E t \in Fetches : Responses!FetchStep(t)) <=> \E t \in Fetches : R!FetchStep(t)
  BY SameFetchSteps
<1> QED BY <1>2, <1>3, SameSenders, SameProcess DEF Responses!Next, R!Next

LEMMA SameSpec == Responses!Spec <=> R!Spec
<1>1. [Responses!Next]_Responses!vars <=> [R!Next]_R!vars
  BY SameNext DEF Responses!vars, R!vars
<1> QED BY <1>1, SameInit, PTL DEF Responses!Spec, R!Spec

\* So are the operators on rows.
LEMMA SameRows ==
    ASSUME NEW h, NEW v, NEW status
    PROVE  /\ R!InsertFits(h) <=> InsertFits(h)
           /\ R!UpdatePayment(h, v, status) = UpdatePayment(h, v, status)
           /\ R!DeleteRows(h, status) = DeleteRows(h, status)
           /\ R!At(h, v) = At(h, v) /\ R!Versions(h) = Versions(h)
           /\ R!NewRow(status) = NewRow(status)
<1>1. R!At(h, v) = At(h, v) /\ R!Versions(h) = Versions(h)
  BY DEF R!At, At, R!Versions, Versions
<1>2. R!NewRow(status) = NewRow(status)
  BY DEF R!NewRow, NewRow
<1>3. R!DeleteRows(h, status) = DeleteRows(h, status)
  BY DEF R!DeleteRows, DeleteRows
<1>4. R!UpdatePayment(h, v, status) = UpdatePayment(h, v, status)
  BY DEF R!UpdatePayment, UpdatePayment, R!CloseVersion, CloseVersion, R!NewRow, NewRow
<1>5. R!InsertFits(h) <=> InsertFits(h)
  BY DEF R!InsertFits, InsertFits, R!NextVersion, NextVersion, R!Versions, Versions,
         R!Undeleted, Undeleted, R!At, At, R!Max, Max
<1> QED BY <1>1, <1>2, <1>3, <1>4, <1>5

LEMMA SameSets == R!Unsent = Unsent /\ R!Statuses = Statuses /\ R!Row = Row
BY DEF R!Unsent, Unsent, R!Statuses, Statuses, R!Row, Row

\* What the proofs about the responses assume of their constants.
LEMMA SameAssumptions ==
    /\ DOMAIN Key = Payments
    /\ R!IsFiniteSet(Fetches) /\ IsFiniteSet(Fetches)
    /\ Payments \cap (R!Junk \cup {"none"}) = {}
    /\ MaxFiles \in Nat /\ MaxRows \in Nat /\ MaxFaults \in Nat
BY FlowAssumption DEF R!IsFiniteSet, IsFiniteSet, R!Junk, Responses!Junk

-----------------------------------------------------------------------------
(* Which rows are paid.                                                    *)

PaidOf(h) == {i \in 1..Len(h) : h[i].status = "paid"}

LEMMA PaidRowsAre == \A h : Responses!PaidRows(h) = PaidOf(h) /\ R!PaidRows(h) = PaidOf(h)
BY DEF Responses!PaidRows, R!PaidRows, PaidOf

\* A new row makes a maksatus paid, or more paid, if and only if it says so.
LEMMA PaidByUpdate ==
    ASSUME NEW h \in Seq(Row), NEW v \in Nat, NEW status \in Statuses
    PROVE  (PaidOf(UpdatePayment(h, v, status)) # PaidOf(h)) <=> status = "paid"
<1> DEFINE g == UpdatePayment(h, v, status)
<1>1. /\ Len(g) = Len(h) + 1 /\ g[Len(h) + 1].status = status
      /\ \A i \in 1..Len(h) : g[i].status = h[i].status
  BY UpdateContinues DEF Continues
<1> HIDE DEF g
<1>2. Len(h) \in Nat
  OBVIOUS
<1>3. \A i : i \in 1..Len(g) <=> i \in 1..Len(h) \/ i = Len(h) + 1
  BY <1>1, <1>2
<1>4. Len(h) + 1 \notin PaidOf(h)
  BY <1>2 DEF PaidOf
<1>5. CASE status = "paid"
  BY <1>1, <1>3, <1>4, <1>5 DEF PaidOf, g
<1>6. CASE status # "paid"
  <2>1. \A i : i \in PaidOf(g) <=> i \in PaidOf(h)
    BY <1>1, <1>3, <1>6 DEF PaidOf
  <2>2. PaidOf(g) = PaidOf(h)
    BY <2>1
  <2> QED BY <1>6, <2>2 DEF g
<1> QED BY <1>5, <1>6

LEMMA PaidByDelete ==
    ASSUME NEW h \in Seq(Row), NEW S
    PROVE  PaidOf(DeleteRows(h, S)) = PaidOf(h)
BY DeleteContinues DEF PaidOf, Continues

LEMMA PaidByCreation ==
    ASSUME NEW status \in Statuses
    PROVE  (PaidOf(<<NewRow(status)>>) # PaidOf(<<>>)) <=> status = "paid"
<1>1. /\ Len(<<NewRow(status)>>) = 1 /\ <<NewRow(status)>>[1].status = status
      /\ Len(<<>>) = 0
  BY DEF NewRow
<1>2. PaidOf(<<>>) = {}
  BY <1>1 DEF PaidOf
<1>3. 1 \in PaidOf(<<NewRow(status)>>) <=> status = "paid"
  BY <1>1 DEF PaidOf
<1>4. PaidOf(<<NewRow(status)>>) \subseteq {1}
  BY <1>1 DEF PaidOf
<1> QED BY <1>2, <1>3, <1>4

-----------------------------------------------------------------------------
(* What the send job and the officials do to the rows.                     *)

\* A row from one that was unsent, with its status, or 'sent' once Rondo has the
\* invoice, or 'paid'.
Made(p, v, status) ==
    /\ UnsentAt(p, v) /\ InsertFits(rows[p])
    /\ status \in Unsent => status = At(rows[p], v).status
    /\ status = "sent" => rondo[p] > 0
    /\ rows' = [rows EXCEPT ![p] = UpdatePayment(@, v, status)]

Created(p, status) == rows[p] = <<>> /\ rows' = [rows EXCEPT ![p] = <<NewRow(status)>>]

Deleted(deleted, statuses) ==
    rows' = [p \in Payments |-> IF p \in deleted THEN DeleteRows(rows[p], statuses) ELSE rows[p]]

RowsChange ==
    /\ UNCHANGED <<rondo, up>>
    /\ \/ \E p \in Payments, status \in Statuses : Created(p, status)
       \/ \E p \in Payments, v \in Nat, status \in Statuses : Made(p, v, status)
       \/ \E deleted \in SUBSET Payments, statuses \in SUBSET Unsent :
            Deleted(deleted, statuses)

LEMMA JobChangesRows ==
    ASSUME TypeInv, DeliveryInv, UnsentInv, NEW t \in Threads,
           AddBatchRow(t) \/ MarkSent(t) \/ SetPaid(t), rows' # rows
    PROVE  RowsChange
<1>1. rows \in [Payments -> Seq(Row)]
  BY DEF TypeInv, TypeOK
<1>2. \A r \in thread[t].queue : r[1] \in Payments /\ r[2] \in Nat /\ UnsentAt(r[1], r[2])
  BY ThreadFields DEF TypeInv, RowId, UnsentInv
<1>3. Unsent \subseteq Statuses /\ "sent" \in Statuses /\ "paid" \in Statuses
      /\ "sent" \notin Unsent /\ "paid" \notin Unsent
  BY DEF Unsent, Statuses
<1>4. CASE AddBatchRow(t)
  <2>1. UNCHANGED <<rondo, up>>
    BY <1>4 DEF AddBatchRow
  <2>2. PICK r \in thread[t].queue :
          /\ InsertFits(rows[r[1]])
          /\ rows' = [rows EXCEPT ![r[1]] = UpdatePayment(@, r[2], At(@, r[2]).status)]
    BY <1>4 DEF AddBatchRow
  <2>3. PICK p \in Payments, v \in Nat : p = r[1] /\ v = r[2] /\ UnsentAt(p, v)
    BY <1>2
  <2>4. PICK status \in Unsent : status = At(rows[p], v).status
    BY <2>3 DEF UnsentAt
  <2>5. rows' = [rows EXCEPT ![p] = UpdatePayment(@, v, status)]
    BY <1>1, <2>2, <2>3, <2>4
  <2>6. Made(p, v, status)
    BY <1>3, <2>2, <2>3, <2>4, <2>5 DEF Made
  <2> QED BY <1>3, <2>1, <2>6 DEF RowsChange
<1>5. CASE MarkSent(t)
  <2>1. UNCHANGED <<rondo, up>> /\ thread[t].pc = "mark"
    BY <1>5 DEF MarkSent
  <2>2. PICK p \in Payments, v \in Nat : p = thread[t].payment /\ v = thread[t].version
    BY ThreadFields DEF TypeInv
  <2>3. InsertFits(rows[p]) /\ rows' = [rows EXCEPT ![p] = UpdatePayment(@, v, "sent")]
    BY <1>5, <2>2 DEF MarkSent
  <2>4. UnsentAt(p, v) /\ rondo[p] > 0
    BY <2>1, <2>2 DEF UnsentInv, DeliveryInv
  <2>5. Made(p, v, "sent")
    BY <1>3, <2>3, <2>4 DEF Made
  <2> QED BY <1>3, <2>1, <2>5 DEF RowsChange
<1>6. CASE SetPaid(t)
  <2>1. UNCHANGED <<rondo, up>>
    BY <1>6 DEF SetPaid
  <2>2. PICK r \in thread[t].queue :
          /\ InsertFits(rows[r[1]])
          /\ rows' = [rows EXCEPT ![r[1]] = UpdatePayment(@, r[2], "paid")]
    BY <1>6 DEF SetPaid
  <2>3. PICK p \in Payments, v \in Nat : p = r[1] /\ v = r[2] /\ UnsentAt(p, v)
    BY <1>2
  <2>4. Made(p, v, "paid")
    BY <1>3, <2>2, <2>3 DEF Made
  <2> QED BY <1>3, <2>1, <2>4 DEF RowsChange
<1> QED BY <1>4, <1>5, <1>6

LEMMA SendingChangesRows ==
    ASSUME TypeInv, DeliveryInv, UnsentInv, Next, rows' # rows
    PROVE  RowsChange
<1>1. rows \in [Payments -> Seq(Row)]
  BY DEF TypeInv, TypeOK
<1>2. ASSUME NEW p \in Payments, CreatePayment(p)
      PROVE  RowsChange
  BY <1>2 DEF CreatePayment, RowsChange, Created
<1>3. CASE DeleteGrantPayments
  <2>1. rows' = [p \in Payments |-> IF p \in Payments THEN DeleteRows(rows[p], Unsent) ELSE rows[p]]
    BY <1>3 DEF DeleteGrantPayments
  <2>2. Deleted(Payments, Unsent)
    BY <2>1 DEF Deleted
  <2>3. UNCHANGED <<rondo, up>>
    BY <1>3 DEF DeleteGrantPayments
  <2> QED BY <2>2, <2>3 DEF RowsChange
<1>4. ASSUME NEW t \in Threads, DeletePayment(t)
      PROVE  RowsChange
  <2>1. PICK p \in Payments : p = thread[t].payment
    BY ThreadFields DEF TypeInv
  <2>2. rows' = [rows EXCEPT ![p] = DeleteRows(@, {"waiting"})] /\ UNCHANGED <<rondo, up>>
    BY <1>4, <2>1 DEF DeletePayment
  <2>3. Deleted({p}, {"waiting"})
    BY <1>1, <2>2 DEF Deleted
  <2>4. {p} \in SUBSET Payments /\ {"waiting"} \in SUBSET Unsent
    BY DEF Unsent
  <2> QED BY <2>2, <2>3, <2>4 DEF RowsChange
<1>5. ASSUME NEW t \in Threads, JobStep(t)
      PROVE  AddBatchRow(t) \/ MarkSent(t)
  BY <1>5
     DEF JobStep, ClaimEra, ClaimRefused, PickApplication, ApplicationDone,
         AllApplicationsDone, PutFindsNoRow, Put, PutSucceeds, PutFails,
         PutFailsAfterDelivery, PutTimesOut, IncSentCount, Notify, JobThrows,
         MarkSendFinished, JobEscapes
<1>6. ASSUME NEW t \in Threads, OfficialStep(t)
      PROVE  SetPaid(t) \/ DeletePayment(t)
  BY <1>6 DEF OfficialStep, CountPayments, CheckDeletable, StartSettingPaid,
              PayPickApplication
<1>7. CASE Environment
  BY <1>2, <1>3, <1>7
     DEF Environment, LateArrival, LateLoss, ChangePayable, Crash, Restart
<1> QED BY <1>4, <1>5, <1>6, <1>7, JobChangesRows DEF Next

-----------------------------------------------------------------------------
(* The refinement, step by step.                                           *)

\* Rondo gets files only of maksatukset that have a row.
LEMMA InvoicesAreOfRows ==
    ASSUME TypeInv, UnsentInv, [Next]_vars, NEW p \in Payments, rondo'[p] # rondo[p]
    PROVE  rows[p] # <<>>
<1>1. rondo \in [Payments -> Nat] /\ rows \in [Payments -> Seq(Row)]
  BY DEF TypeInv, TypeOK
<1>2. ASSUME NEW t \in Threads, thread[t].pc = "put"
      PROVE  rows[thread[t].payment] # <<>>
  <2>1. thread[t].version \in Nat /\ thread[t].version < Len(rows[thread[t].payment])
    BY <1>2, ThreadFields DEF UnsentInv, UnsentAt, TypeInv
  <2>2. rows[thread[t].payment] = <<>> => Len(rows[thread[t].payment]) = 0
    OBVIOUS
  <2> QED BY <2>1, <2>2
<1>3. ASSUME NEW t \in Threads, JobStep(t)
      PROVE  rows[p] # <<>>
  <2>1. PutSucceeds(t) \/ PutFailsAfterDelivery(t)
    BY <1>3 DEF JobStep, ClaimEra, ClaimRefused, PickApplication, ApplicationDone,
                AllApplicationsDone, AddBatchRow, PutFindsNoRow, PutFails,
                PutTimesOut, MarkSent, IncSentCount, Notify, JobThrows,
                MarkSendFinished, JobEscapes
  <2>2. /\ thread[t].pc = "put"
        /\ rondo' = [rondo EXCEPT ![thread[t].payment] = @ + 1]
    BY <2>1 DEF PutSucceeds, PutFailsAfterDelivery, Put
  <2>3. p = thread[t].payment
    BY <1>1, <2>2
  <2> QED BY <1>2, <2>2, <2>3
<1>4. ASSUME NEW t \in Threads, OfficialStep(t)
      PROVE  FALSE
  BY <1>4 DEF OfficialStep, CountPayments, CheckDeletable, DeletePayment,
              StartSettingPaid, PayPickApplication, SetPaid
<1>5. CASE Crash
  <2>1. PICK taken \in SUBSET {t \in Threads : thread[t].pc = "put"} :
          rondo' = [q \in Payments |->
                      rondo[q] + Cardinality({t \in taken : thread[t].payment = q})]
    BY <1>5 DEF Crash
  <2>2. rondo'[p] = rondo[p] + Cardinality({t \in taken : thread[t].payment = p})
    BY <2>1
  <2>3. rondo[p] \in Nat
    BY <1>1
  <2>4. CASE {t \in taken : thread[t].payment = p} = {}
    <3>1. Cardinality({t \in taken : thread[t].payment = p}) = 0
      BY <2>4, FS_EmptySet
    <3> QED BY <2>2, <2>3, <3>1
  <2>5. ASSUME NEW t \in taken, thread[t].payment = p
        PROVE  rows[p] # <<>>
    BY <1>2, <2>5
  <2> QED BY <2>4, <2>5
<1>6. CASE Environment
  <2>1. ASSUME NEW q \in Payments, LateArrival(q)
        PROVE  rows[p] # <<>>
    <3>1. late[q] > 0 /\ rondo' = [rondo EXCEPT ![q] = @ + 1]
      BY <2>1 DEF LateArrival
    <3>2. p = q
      BY <1>1, <3>1
    <3> QED BY <3>1, <3>2 DEF UnsentInv
  <2> QED BY <1>5, <1>6, <2>1 DEF Environment, LateLoss, CreatePayment,
                                  ChangePayable, DeleteGrantPayments, Restart
<1> QED BY <1>3, <1>4, <1>6 DEF Next, vars

\* The new invoices arrive as PaymentResponses says.
LEMMA InvoicesArriving ==
    ASSUME TypeInv, UnsentInv, [Next]_vars
    PROVE  R!InvoicesArrive
<1>1. rondo \in [Payments -> Nat]
  BY DEF TypeInv, TypeOK
<1>2. \A p \in Payments : rondo'[p] >= rondo[p]
  BY RondoGrows
<1>3. \A p \in Payments : p \in Invoiced => p \in Invoiced'
  <2>1. ASSUME NEW p \in Payments, rondo[p] > 0
        PROVE  rondo'[p] > 0
    <3>1. rondo[p] \in Nat /\ rondo'[p] \in Nat
      BY <1>1, DataStaysTyped
    <3> QED BY <1>2, <2>1, <3>1
  <2> QED BY <2>1 DEF Invoiced
<1> DEFINE sent == Invoiced' \ Invoiced
<1>4. sent \in SUBSET {p \in Payments : rows[p] # <<>>}
  <2>1. ASSUME NEW p \in sent PROVE p \in Payments /\ rows[p] # <<>>
    <3>1. p \in Payments /\ rondo'[p] # rondo[p]
      BY DEF Invoiced
    <3> QED BY <3>1, InvoicesAreOfRows
  <2> QED BY <2>1
<1>5. Invoiced' = Invoiced \cup sent
  BY <1>3 DEF Invoiced
<1> HIDE DEF sent
<1> QED BY <1>4, <1>5 DEF R!InvoicesArrive

\* A change of the rows is a step of a sender, for the history of who was paid by
\* hand that PaymentFlow keeps.
LEMMA RowsChangeRefines ==
    ASSUME TypeInv, RowsFit, RowsChange, UNCHANGED <<about, remote, local, fetch, faults>>,
           manual' = manual \cup {p \in Payments : PaidOf(rows'[p]) # PaidOf(rows[p])}
    PROVE  R!Sender
<1>1. rows \in [Payments -> Seq(Row)]
  BY DEF TypeInv, TypeOK
<1>2. UNCHANGED <<Invoiced, R!others>>
  BY DEF RowsChange, Invoiced, R!others
<1>3. ASSUME NEW p \in Payments, NEW status \in Statuses, Created(p, status)
      PROVE  R!Sender
  <2>1. /\ rows[p] = <<>> /\ rows'[p] = <<NewRow(status)>>
        /\ \A q \in Payments \ {p} : rows'[q] = rows[q]
    BY <1>1, <1>3 DEF Created
  <2>2. (PaidOf(rows'[p]) # PaidOf(rows[p])) <=> status = "paid"
    BY <2>1, PaidByCreation
  <2>3. manual' = IF status = "paid" THEN manual \cup {p} ELSE manual
    BY <2>1, <2>2
  <2>4. R!Create(p)
    BY <1>2, <1>3, <2>3, SameRows, SameSets DEF Created, R!Create
  <2> QED BY <2>4 DEF R!Sender
<1>4. ASSUME NEW p \in Payments, NEW v \in Nat, NEW status \in Statuses, Made(p, v, status)
      PROVE  R!Sender
  <2>1. /\ rows' = [rows EXCEPT ![p] = UpdatePayment(@, v, status)]
        /\ rows'[p] = UpdatePayment(rows[p], v, status)
        /\ \A q \in Payments \ {p} : rows'[q] = rows[q]
    BY <1>1, <1>4 DEF Made
  <2>2. (PaidOf(rows'[p]) # PaidOf(rows[p])) <=> status = "paid"
    BY <1>1, <2>1, PaidByUpdate
  <2>3. manual' = IF status = "paid" THEN manual \cup {p} ELSE manual
    BY <2>1, <2>2
  <2>4. v \in Versions(rows[p])
    BY <1>1, <1>4, VersionsAre DEF Made, UnsentAt
  <2>5. status = "sent" => p \in Invoiced
    BY <1>4 DEF Made, Invoiced
  <2>6. /\ Len(rows[p]) < MaxRows /\ InsertFits(rows[p])
        /\ At(rows[p], v).status \in Unsent
        /\ status \in Unsent => status = At(rows[p], v).status
    BY <1>4 DEF Made, UnsentAt, RowsFit
  <2>7. R!InsertFits(rows[p]) /\ v \in R!Versions(rows[p])
        /\ R!At(rows[p], v) = At(rows[p], v)
        /\ R!UpdatePayment(rows[p], v, status) = UpdatePayment(rows[p], v, status)
    BY <2>4, <2>6, SameRows
  <2>8. rows' = [rows EXCEPT ![p] = R!UpdatePayment(@, v, status)]
    BY <1>1, <2>1, <2>7
  <2>9. R!Update(p)
    BY <1>2, <2>3, <2>5, <2>6, <2>7, <2>8, SameSets DEF R!Update
  <2> QED BY <2>9 DEF R!Sender
<1>5. ASSUME NEW deleted \in SUBSET Payments, NEW statuses \in SUBSET Unsent,
             Deleted(deleted, statuses)
      PROVE  R!Sender
  <2>1. \A q \in Payments : PaidOf(rows'[q]) = PaidOf(rows[q])
    BY <1>1, <1>5, PaidByDelete DEF Deleted
  <2>2. UNCHANGED manual
    BY <2>1
  <2>3. \A p \in Payments : R!DeleteRows(rows[p], statuses) = DeleteRows(rows[p], statuses)
    BY SameRows
  <2>4. rows' = [p \in Payments |->
                   IF p \in deleted THEN R!DeleteRows(rows[p], statuses) ELSE rows[p]]
    BY <1>5, <2>3 DEF Deleted
  <2>5. R!Delete
    BY <1>2, <2>2, <2>4, SameSets DEF R!Delete
  <2> QED BY <2>5 DEF R!Sender
<1> QED BY <1>3, <1>4, <1>5 DEF RowsChange

\* What becomes of the process.
LEMMA ProcessChanges ==
    ASSUME Next
    PROVE  /\ UNCHANGED up \/ Crash \/ Restart
           /\ Crash => up /\ ~up' /\ up' = FALSE /\ UNCHANGED rows
           /\ Restart => ~up /\ up' /\ up' = TRUE /\ UNCHANGED <<rows, rondo>>
<1>1. ASSUME NEW t \in Threads, JobStep(t)
      PROVE  UNCHANGED up
  BY <1>1
     DEF JobStep, ClaimEra, ClaimRefused, PickApplication, ApplicationDone,
         AllApplicationsDone, AddBatchRow, PutFindsNoRow, Put, PutSucceeds, PutFails,
         PutFailsAfterDelivery, PutTimesOut, MarkSent, IncSentCount, Notify, JobThrows,
         MarkSendFinished, JobEscapes
<1>2. ASSUME NEW t \in Threads, OfficialStep(t)
      PROVE  UNCHANGED up
  BY <1>2 DEF OfficialStep, CountPayments, CheckDeletable, DeletePayment,
              StartSettingPaid, PayPickApplication, SetPaid
<1>3. ASSUME Environment
      PROVE  UNCHANGED up \/ Crash \/ Restart
  BY <1>3 DEF Environment, LateArrival, LateLoss, CreatePayment, ChangePayable,
              DeleteGrantPayments
<1>4. Crash => up /\ ~up' /\ up' = FALSE /\ UNCHANGED rows
  BY DEF Crash
<1>5. Restart => ~up /\ up' /\ up' = TRUE /\ UNCHANGED <<rows, rondo>>
  BY DEF Restart
<1> QED BY <1>1, <1>2, <1>3, <1>4, <1>5 DEF Next

\* The history of who was paid by hand, as the proofs about rows put it.
LEMMA ManualIs ==
    ASSUME SendingStep
    PROVE  manual' = manual \cup {p \in Payments : PaidOf(rows'[p]) # PaidOf(rows[p])}
<1>1. \A p \in Payments : /\ Responses!PaidRows(rows[p]) = PaidOf(rows[p])
                          /\ Responses!PaidRows(rows'[p]) = PaidOf(rows'[p])
  BY PaidRowsAre
<1> QED BY <1>1 DEF SendingStep

\* A step of the send job or of an official is a step of a sender, or none.
LEMMA SendingRefines ==
    ASSUME TypeInv, DeliveryInv, UnsentInv, RowsFit, SendingStep
    PROVE  R!Next \/ UNCHANGED R!vars
<1>1. Next
  BY DEF SendingStep
<1>2. CASE Crash
  <2>1. up /\ ~up' /\ up' = FALSE /\ UNCHANGED rows
    BY <1>1, <1>2, ProcessChanges
  <2>2. /\ faults > 0 /\ faults' = faults - 1
        /\ fetch' = [t \in Fetches |-> Responses!Idle]
        /\ local' = {} /\ UNCHANGED <<about, remote>>
    BY <2>1 DEF SendingStep
  <2>3. Responses!Idle = R!Idle
    BY DEF Responses!Idle, R!Idle
  <2>4. UNCHANGED manual
    BY <2>1, ManualIs
  <2>5. R!Crash
    BY <1>1, <2>1, <2>2, <2>3, <2>4, InvoicesArriving DEF R!Crash
  <2> QED BY <2>5 DEF R!Next
<1>3. CASE Restart
  <2>1. ~up /\ up' /\ up' = TRUE /\ UNCHANGED <<rows, rondo>>
    BY <1>1, <1>3, ProcessChanges
  <2>2. UNCHANGED <<about, remote, local, fetch, faults>>
    BY <2>1 DEF SendingStep
  <2>3. UNCHANGED manual
    BY <2>1, ManualIs
  <2>4. R!Restart
    BY <2>1, <2>2, <2>3 DEF R!Restart, Invoiced
  <2> QED BY <2>4 DEF R!Next
<1>4. CASE UNCHANGED up
  <2>1. UNCHANGED <<about, remote, local, fetch, faults>>
    BY <1>4 DEF SendingStep
  <2>2. CASE rows' # rows
    <3>1. RowsChange
      BY <1>1, <2>2, SendingChangesRows
    <3> QED BY <2>1, <3>1, ManualIs, RowsChangeRefines DEF R!Next
  <2>3. CASE rows' = rows
    <3>1. UNCHANGED manual
      BY <2>3, ManualIs
    <3>2. R!InvoicesArrive
      BY <1>1, InvoicesArriving
    <3>3. R!Invoice
      BY <1>4, <2>1, <2>3, <3>1, <3>2 DEF R!Invoice, R!others
    <3> QED BY <3>3 DEF R!Next, R!Sender
  <2> QED BY <2>2, <2>3
<1> QED BY <1>1, <1>2, <1>3, <1>4, ProcessChanges

LEMMA FetchingRefines ==
    ASSUME FetchingStep
    PROVE  R!Next
<1>1. Responses!Files = R!Files
  BY DEF Responses!Files, R!Files
<1>2. \/ \E t \in Fetches : R!FetchStep(t)
      \/ \E f \in R!Files : R!Respond(f)
  BY <1>1, SameFetchSteps, SameRespond DEF FetchingStep
<1> QED BY <1>2 DEF R!Next

LEMMA FlowRefines ==
    ASSUME TypeInv, DeliveryInv, UnsentInv, RowsFit, [FlowNext]_flowVars
    PROVE  [R!Next]_R!vars
<1>1. CASE UNCHANGED flowVars
  BY <1>1 DEF flowVars, vars, responseVars, R!vars, Invoiced
<1> QED BY <1>1, SendingRefines, FetchingRefines DEF FlowNext

-----------------------------------------------------------------------------
(* The invariant is inductive.                                             *)

\* The fetch job leaves the send job's invariant as it is: it adds 'paid' rows
\* only, to maksatukset that are not its to send any more.
LEMMA FetchingKeeps ==
    ASSUME FlowInv, FetchingStep
    PROVE  TypeInv' /\ DeliveryInv' /\ UnsentInv'
<1>1. UNCHANGED <<payable, era, thread, rondo, late, unsure, budget>>
  BY DEF FetchingStep
<1>2. R!TypeInv /\ R!RunInv /\ [R!Next]_R!vars
  BY FetchingRefines DEF FlowInv, R!Inv
<1>3. rows' \in [Payments -> Seq(R!Row)] /\ \A p \in Payments : R!RowsOf(p)
  BY <1>2, R!RowsStep, SameAssumptions
<1>4. up' \in BOOLEAN
  BY <1>2, R!Types, SameAssumptions DEF R!TypeInv
<1>5. /\ rows \in [Payments -> Seq(Row)] /\ rows' \in [Payments -> Seq(Row)]
      /\ \A p \in Payments : Continues(rows'[p], rows[p])
  BY <1>3, SameSets DEF FlowInv, TypeInv, TypeOK, R!RowsOf, R!Stands, R!Continues, Continues
<1>6. TypeInv'
  <2>1. TypeOK'
    BY <1>1, <1>4, <1>5 DEF FlowInv, TypeInv, TypeOK
  <2>2. ASSUME NEW t \in Threads, NEW p \in Payments, NEW v \in Nat,
               <<p, v>> \in thread'[t].queue
        PROVE  v < Len(rows'[p])
    <3>1. v < Len(rows[p])
      BY <1>1, <2>2 DEF FlowInv, TypeInv, QueueInv
    <3>2. Len(rows[p]) \in Nat /\ Len(rows'[p]) \in Nat /\ Len(rows'[p]) >= Len(rows[p])
      BY <1>5 DEF Continues
    <3> QED BY <3>1, <3>2
  <2>3. \A t \in Threads : IsFiniteSet(thread'[t].counted)
    BY <1>1 DEF FlowInv, TypeInv, QueueInv
  <2> QED BY <2>1, <2>2, <2>3 DEF TypeInv, QueueInv
<1>7. DeliveryInv'
  <2>1. ASSUME NEW p \in Payments, SaysSent(rows'[p])
        PROVE  rondo'[p] > 0
    <3>1. PICK i \in 2..Len(rows'[p]) : rows'[p][i].status = "sent"
      BY <2>1 DEF SaysSent
    <3>2. CASE i \in 2..Len(rows[p])
      <4>1. rows[p][i].status = "sent"
        BY <1>5, <3>1, <3>2 DEF Continues
      <4>2. SaysSent(rows[p])
        BY <3>2, <4>1 DEF SaysSent
      <4> QED BY <1>1, <4>2 DEF FlowInv, DeliveryInv
    <3>3. CASE i \notin 2..Len(rows[p])
      <4>1. i = Len(rows[p]) + 1 /\ Len(rows'[p]) = Len(rows[p]) + 1
        <5>1. i \in 1..Len(rows'[p]) /\ i \notin 1..Len(rows[p])
          BY <1>5, <3>1, <3>3
        <5> QED BY <1>2, <1>3, <5>1, R!LastRow, SameAssumptions
      <4>2. Len(rows'[p]) # Len(rows[p]) /\ Len(rows[p]) # 0
        <5>1. Len(rows[p]) \in Nat /\ i >= 2
          BY <1>5, <3>1
        <5> QED BY <4>1, <5>1
      <4>3. \A status : R!Grows(p, status) => status = "sent"
        BY <3>1, <4>1 DEF R!Grows, R!NewRow
      <4>4. p \in Invoiced
        BY <1>3, <4>2, <4>3 DEF R!RowsOf, R!Unsent
      <4> QED BY <1>1, <4>4 DEF Invoiced
    <3> QED BY <3>2, <3>3
  <2>2. \A t \in Threads : thread'[t].pc = "mark" => rondo'[thread'[t].payment] > 0
    BY <1>1 DEF FlowInv, DeliveryInv
  <2> QED BY <2>1, <2>2 DEF DeliveryInv, SaysSent
<1>8. UnsentInv'
  <2>1. \A p \in Payments, v \in Nat : UnsentAt(p, v) => UnsentAt(p, v)'
    BY <1>5, UnsentAtStays
  <2>2. ASSUME NEW t \in Threads, NEW r \in thread'[t].queue
        PROVE  UnsentAt(r[1], r[2])'
    <3>1. r[1] \in Payments /\ r[2] \in Nat /\ UnsentAt(r[1], r[2])
      BY <1>1, ThreadFields DEF FlowInv, TypeInv, RowId, UnsentInv
    <3> QED BY <2>1, <3>1
  <2>3. ASSUME NEW t \in Threads, thread'[t].pc \in {"put", "mark"}
        PROVE  UnsentAt(thread[t].payment, thread[t].version)'
    <3>1. PICK p \in Payments, v \in Nat : p = thread[t].payment /\ v = thread[t].version
      BY ThreadFields DEF FlowInv, TypeInv
    <3>2. UnsentAt(p, v)'
      BY <1>1, <2>1, <2>3, <3>1 DEF FlowInv, UnsentInv
    <3> QED BY <1>1, <3>1, <3>2
  <2>4. ASSUME NEW p \in Payments, late'[p] > 0
        PROVE  rows'[p] # <<>>
    <3>1. rows[p] # <<>>
      BY <1>1, <2>4 DEF FlowInv, UnsentInv
    <3>2. Len(rows[p]) > 0 /\ Len(rows'[p]) >= Len(rows[p]) /\ Len(rows'[p]) \in Nat
      BY <1>5, <3>1 DEF Continues
    <3>3. rows'[p] = <<>> => Len(rows'[p]) = 0
      OBVIOUS
    <3> QED BY <3>2, <3>3
  <2> QED BY <2>2, <2>3, <2>4 DEF UnsentInv
<1> QED BY <1>6, <1>7, <1>8

LEMMA FlowInitially ==
    ASSUME FlowInit
    PROVE  R!Init /\ FlowInv
<1>1. Init
  BY DEF FlowInit
<1>2. TypeInv /\ DeliveryInv
  BY <1>1, TypeInit, DeliveryInit
<1>3. UnsentInv
  BY <1>1, UnsentInit
<1>4. R!Init
  <2>1. rows \in [Payments -> {<<>>, <<NewRow("created")>>}]
    BY <1>1 DEF Init
  <2>2. Invoiced = {}
    BY <1>1 DEF Init, Invoiced
  <2>3. R!NewRow("created") = NewRow("created")
    BY DEF R!NewRow, NewRow
  <2>4. Responses!Files = R!Files /\ Responses!Idle = R!Idle
    BY DEF Responses!Files, R!Files, Responses!Idle, R!Idle
  <2> QED BY <1>1, <2>1, <2>2, <2>3, <2>4 DEF FlowInit, Init, R!Init
<1> QED BY <1>2, <1>3, <1>4, R!Initially, SameAssumptions DEF FlowInv

LEMMA FlowStep ==
    ASSUME FlowInv, RowsFit, [FlowNext]_flowVars
    PROVE  FlowInv'
<1>1. TypeInv /\ DeliveryInv /\ UnsentInv /\ R!Inv
  BY DEF FlowInv
<1>2. R!Inv'
  BY <1>1, FlowRefines, R!StepKeepsInv, SameAssumptions
<1>3. CASE FetchingStep
  BY <1>2, <1>3, FetchingKeeps DEF FlowInv
<1>4. CASE SendingStep \/ UNCHANGED flowVars
  <2>1. [Next]_vars
    BY <1>4 DEF SendingStep, flowVars
  <2> QED BY <1>1, <1>2, <2>1, TypeStep, DeliveryStep, UnsentStep DEF FlowInv
<1> QED BY <1>3, <1>4 DEF FlowNext

-----------------------------------------------------------------------------
(* What is on top of a history, with runs of the fetch job under way.      *)

\* No two runs of the fetch job are about to mark the same maksatus as paid.
RunsApart ==
    \A s, t \in Fetches, p \in Payments : R!Updates(s, p) /\ R!Updates(t, p) => s = t

\* A run is about to mark the row on top of the history h, and that says 'sent'.
MarksTop(r, p, h) ==
    r.pc = "update" /\ r.payment = p => r.version + 1 = Len(h) /\ h[Len(h)].status = "sent"

FlowTop(p, W) == TopInv(p, W) /\ \A t \in Fetches : MarksTop(fetch[t], p, rows[p])

\* What a step does to a maksatus: it keeps the invariant, what has been sent
\* stays so, and what has been paid gets no row.
FlowTopStays(p, W) ==
    /\ FlowTop(p, W)'
    /\ Pending(rows'[p]) => Pending(rows[p])
    /\ PaidOf(rows[p]) # {} => Len(rows'[p]) = Len(rows[p])

\* Only the row on top can be paid.
LEMMA PaidIsOnTop ==
    ASSUME NEW h \in Seq(Row), Topped(h), PaidOf(h) # {}
    PROVE  Len(h) \in Nat \ {0} /\ h[Len(h)].status = "paid" /\ ~Pending(h)
<1>1. PICK i \in 1..Len(h) : h[i].status = "paid"
  BY DEF PaidOf
<1>2. ~(i < Len(h)) /\ Len(h) \in Nat
  BY <1>1 DEF Topped
<1>3. i = Len(h)
  BY <1>2
<1> QED BY <1>1, <1>2, <1>3 DEF Pending, Unsent

\* What the send job and the officials do.
LEMMA SendingKeepsTop ==
    ASSUME FlowInv, NEW p \in Payments, NEW W, Working \subseteq W, W \subseteq Writing,
           Alone(W), FlowTop(p, W), SendingStep \/ UNCHANGED flowVars,
           "pay" \in W \/ p \notin manual'
    PROVE  FlowTopStays(p, W)
<1>1. TypeInv /\ UnsentInv /\ TopInv(p, W) /\ [Next]_vars
  BY DEF FlowInv, FlowTop, SendingStep, flowVars
<1>2. rows \in [Payments -> Seq(Row)] /\ rows' \in [Payments -> Seq(Row)]
      /\ Continues(rows'[p], rows[p]) /\ Topped(rows[p])
  BY <1>1, DataStaysTyped, RowsContinue DEF TypeInv, TypeOK, TopInv
<1>3. \A t \in Threads : SendsUnsent(t)
  <2>1. ASSUME NEW t \in Threads, NEW r \in thread[t].queue
        PROVE  At(rows[r[1]], r[2]).status \in Unsent
    BY <1>1 DEF UnsentInv, UnsentAt
  <2> QED BY <2>1 DEF SendsUnsent
<1>4. ASSUME "pay" \notin W, NEW t \in Threads, SetPaid(t)
      PROVE  rows'[p] = rows[p]
  <2>1. PaidOf(rows'[p]) = PaidOf(rows[p])
    <3>1. CASE SendingStep
      BY <1>4, <3>1, ManualIs
    <3>2. CASE UNCHANGED flowVars
      BY <3>2 DEF flowVars, vars
    <3> QED BY <3>1, <3>2
  <2>2. CASE rows' = rows
    BY <2>2
  <2>3. ASSUME NEW r \in thread[t].queue,
               rows' = [rows EXCEPT ![r[1]] = UpdatePayment(@, r[2], "paid")]
        PROVE  rows'[p] = rows[p]
    <3>1. r[1] \in Payments /\ r[2] \in Nat /\ "paid" \in Statuses
      BY <1>1, ThreadFields DEF TypeInv, RowId, Statuses
    <3>2. CASE r[1] = p
      <4>1. rows'[p] = UpdatePayment(rows[p], r[2], "paid")
        BY <1>2, <2>3, <3>1, <3>2
      <4> QED BY <1>2, <2>1, <3>1, <4>1, PaidByUpdate
    <3>3. CASE r[1] # p
      BY <1>2, <2>3, <3>1, <3>3
    <3> QED BY <3>2, <3>3
  <2> QED BY <1>4, <2>2, <2>3 DEF SetPaid
<1>5. TopStays(p, W)
  BY <1>1, <1>3, <1>4, TopStep
<1>6. ASSUME NEW t \in Fetches
      PROVE  MarksTop(fetch'[t], p, rows'[p])
  <2>1. MarksTop(fetch[t], p, rows[p])
    BY DEF FlowTop
  <2>2. CASE fetch' = [u \in Fetches |-> Responses!Idle]
    BY <2>2 DEF MarksTop, Responses!Idle
  <2>3. CASE fetch' = fetch
    <3>1. SUFFICES ASSUME fetch[t].pc = "update", fetch[t].payment = p
                   PROVE  /\ fetch[t].version + 1 = Len(rows'[p])
                          /\ rows'[p][Len(rows'[p])].status = "sent"
      BY <2>3 DEF MarksTop
    <3>2. fetch[t].version + 1 = Len(rows[p]) /\ rows[p][Len(rows[p])].status = "sent"
      BY <2>1, <3>1 DEF MarksTop
    <3>3. fetch[t].version \in Nat
      BY DEF FlowInv, R!Inv, R!TypeInv, R!Run
    <3>4. Len(rows[p]) \in 1..Len(rows[p]) /\ ~Pending(rows[p])
      BY <1>2, <3>2, <3>3 DEF Pending, Unsent
    <3>5. Len(rows'[p]) = Len(rows[p])
      BY <1>5, <3>4 DEF TopStays
    <3> QED BY <1>2, <3>2, <3>4, <3>5 DEF Continues
  <2> QED BY <2>2, <2>3 DEF SendingStep, flowVars, responseVars
<1>7. PaidOf(rows[p]) # {} => Len(rows'[p]) = Len(rows[p])
  BY <1>2, <1>5, PaidIsOnTop DEF TopStays
<1> QED BY <1>5, <1>6, <1>7 DEF FlowTop, FlowTopStays, TopStays

\* The rows that a response finds, as PaymentRows names them.
LEMMA FoundAreOpen ==
    /\ \A h : Responses!OpenVersions(h) = OpenVersions(h) /\ R!OpenVersions(h) = OpenVersions(h)
    /\ \A subject, p, v : <<p, v>> \in R!Found(subject) => v \in OpenVersions(rows[p])
<1>1. \A h : Responses!OpenVersions(h) = OpenVersions(h) /\ R!OpenVersions(h) = OpenVersions(h)
  BY DEF Responses!OpenVersions, R!OpenVersions, OpenVersions, Responses!Undeleted,
         R!Undeleted, Undeleted, Responses!Versions, R!Versions, Versions,
         Responses!At, R!At, At
<1>2. ASSUME NEW subject, NEW p, NEW v, <<p, v>> \in R!Found(subject)
      PROVE  v \in OpenVersions(rows[p])
  <2>1. PICK q \in Payments : <<p, v>> \in {q} \X R!OpenVersions(rows[q])
    BY <1>2 DEF R!Found
  <2>2. p = q /\ v \in R!OpenVersions(rows[q])
    BY <2>1
  <2> QED BY <1>1, <2>2
<1> QED BY <1>1, <1>2

\* What the runs of the fetch job do: the row they mark is the one they found, on
\* top and 'sent', unless another run has marked it in between.
LEMMA FetchingKeepsTop ==
    ASSUME FlowInv, RunsApart, NEW p \in Payments, NEW W, FlowTop(p, W), FetchingStep
    PROVE  FlowTopStays(p, W)
<1>1. /\ rows \in [Payments -> Seq(Row)] /\ thread \in [Threads -> ThreadType]
      /\ rows[p] \in Seq(Row) /\ Topped(rows[p])
      /\ \A t \in Threads : TopHeld(thread[t], p, rows[p], W)
      /\ \A t \in Fetches : MarksTop(fetch[t], p, rows[p])
  BY DEF FlowInv, TypeInv, TypeOK, FlowTop, TopInv
<1>2. R!TypeInv /\ R!RunInv /\ UNCHANGED thread
  BY DEF FlowInv, R!Inv, FetchingStep
<1>3. ASSUME rows'[p] = rows[p], \A t \in Fetches : MarksTop(fetch'[t], p, rows[p])
      PROVE  FlowTopStays(p, W)
  BY <1>1, <1>2, <1>3 DEF FlowTopStays, FlowTop, TopInv
<1>4. ASSUME NEW s \in Fetches, R!FetchStep(s)
      PROVE  FlowTopStays(p, W)
  <2>1. R!Advances(s) /\ \A t \in Fetches \ {s} : fetch'[t] = fetch[t]
    BY <1>2, <1>4, R!RunSteps, SameAssumptions DEF R!Steps
  <2>2. CASE R!SetPaid(s) /\ rows'[p] # rows[p]
    <3>1. PICK v \in Nat : v = fetch[s].version
      BY <1>2 DEF R!TypeInv, R!Run
    <3>2. /\ fetch[s].pc = "update"
          /\ rows' = [rows EXCEPT ![fetch[s].payment] =
                        R!UpdatePayment(@, fetch[s].version, "paid")]
      BY <2>2 DEF R!SetPaid, R!Fails
    <3>3. fetch[s].payment = p /\ rows'[p] = UpdatePayment(rows[p], v, "paid")
      BY <1>1, <2>2, <3>1, <3>2, SameRows
    <3>4. /\ v + 1 = Len(rows[p]) /\ rows[p][Len(rows[p])].status = "sent"
          /\ "paid" \in Statuses
      BY <1>1, <3>1, <3>2, <3>3 DEF MarksTop, Statuses
    <3>5. /\ rows'[p] \in Seq(Row) /\ Topped(rows'[p])
          /\ Len(rows'[p]) = Len(rows[p]) + 1 /\ rows'[p][Len(rows'[p])].status = "paid"
      BY <1>1, <3>3, <3>4, UpdateTopped
    <3>6. ~Pending(rows'[p])
      <4>1. Len(rows'[p]) > 0
        BY <1>1, <3>5
      <4> QED BY <3>5, <4>1 DEF Pending, Unsent
    <3>7. \A w \in Nat : ~OnTop(rows[p], w)
      BY <3>4 DEF OnTop, Unsent
    <3>8. ASSUME NEW t \in Threads
          PROVE  TopHeld(thread'[t], p, rows'[p], W)
      <4>1. thread[t].version \in Nat /\ thread'[t] = thread[t]
        BY <1>1, <1>2 DEF ThreadType
      <4> QED BY <1>1, <3>7, <4>1 DEF TopHeld
    <3>9. ASSUME NEW t \in Fetches, fetch'[t].pc = "update", fetch'[t].payment = p
          PROVE  FALSE
      <4>1. t = s
        <5>1. t # s => R!Updates(t, p)
          BY <2>1, <3>9 DEF R!Updates
        <5>2. R!Updates(s, p)
          BY <3>2, <3>3 DEF R!Updates
        <5> QED BY <5>1, <5>2 DEF RunsApart
      <4>2. R!Goto(s, "delete")
        BY <2>2 DEF R!SetPaid, R!Fails
      <4>3. fetch'[s].pc = "delete"
        BY <1>2, <4>2 DEF R!Goto, R!TypeInv, R!Run
      <4> QED BY <3>9, <4>1, <4>3
    <3>10. \A t \in Fetches : MarksTop(fetch'[t], p, rows'[p])
      BY <3>9 DEF MarksTop
    <3>11. PaidOf(rows[p]) = {}
      BY <1>1, <3>4, PaidIsOnTop
    <3> QED BY <3>5, <3>6, <3>8, <3>10, <3>11 DEF FlowTopStays, FlowTop, TopInv
  <2>3. CASE rows'[p] = rows[p]
    <3>1. ASSUME NEW t \in Fetches
          PROVE  MarksTop(fetch'[t], p, rows[p])
      <4>1. CASE t # s \/ R!Kept(s)
        BY <1>1, <2>1, <4>1 DEF MarksTop, R!Kept
      <4>2. CASE t = s /\ ~R!Kept(s)
        <5> SUFFICES ASSUME fetch'[s].pc = "update", fetch'[s].payment = p
                     PROVE  /\ fetch'[s].version + 1 = Len(rows[p])
                            /\ rows[p][Len(rows[p])].status = "sent"
          BY <4>2 DEF MarksTop
        <5> DEFINE r == <<fetch'[s].payment, fetch'[s].version>>
        <5>1. R!TakeSent(s) /\ r \in R!Found(R!Subject(s))
          BY <2>1, <4>2 DEF R!Advances
        <5>2. \A q \in R!Found(R!Subject(s)) : R!At(rows[q[1]], q[2]).status = "sent"
          BY <1>2, <5>1, R!SentIsFound, SameAssumptions
        <5>3. R!At(rows[p], fetch'[s].version).status = "sent"
          <6>1. r[1] = p /\ r[2] = fetch'[s].version
            OBVIOUS
          <6> HIDE DEF r
          <6> QED BY <5>1, <5>2, <6>1
        <5>4. PICK v : v = fetch'[s].version
          OBVIOUS
        <5>5. v \in OpenVersions(rows[p]) /\ At(rows[p], v).status = "sent"
          BY <5>1, <5>3, <5>4, FoundAreOpen, SameRows
        <5> QED BY <1>1, <5>4, <5>5, ToppedQueries
      <4> QED BY <4>1, <4>2
    <3> QED BY <1>3, <2>3, <3>1
  <2>4. ~R!SetPaid(s) => UNCHANGED rows
    BY <1>4 DEF R!FetchStep, R!RunStep, R!StartFetch, R!TimesOut, R!Fault, R!Retry,
                R!ListFiles, R!AllDone, R!GetFile, R!PassOver, R!TakePaid, R!TakeSent,
                R!ReadFails, R!DeleteRemote, R!DeleteLocal, R!Fails
  <2> QED BY <2>2, <2>3, <2>4
<1>5. ASSUME NEW f, R!Respond(f)
      PROVE  FlowTopStays(p, W)
  BY <1>1, <1>3, <1>5 DEF R!Respond
<1> QED BY <1>4, <1>5, SameFetchSteps, SameRespond DEF FetchingStep

LEMMA FlowTopStep ==
    ASSUME FlowInv, RunsApart, NEW p \in Payments, NEW W, Working \subseteq W,
           W \subseteq Writing, Alone(W), FlowTop(p, W), [FlowNext]_flowVars,
           "pay" \in W \/ p \notin manual'
    PROVE  FlowTopStays(p, W)
BY SendingKeepsTop, FetchingKeepsTop DEF FlowNext

LEMMA FlowTopInit ==
    ASSUME FlowInit, NEW p \in Payments, NEW W, Working \subseteq W, W \subseteq Writing
    PROVE  FlowTop(p, W)
<1>1. \A t \in Fetches : MarksTop(fetch[t], p, rows[p])
  BY DEF FlowInit, Responses!Idle, MarksTop
<1> QED BY <1>1, TopInit DEF FlowInit, FlowTop

\* Who has been paid by hand stays known, and so do the invoices Rondo has.
LEMMA HistoryGrows ==
    ASSUME FlowInv, RowsFit, [FlowNext]_flowVars
    PROVE  manual \subseteq manual' /\ Invoiced \subseteq Invoiced'
<1>1. R!TypeInv /\ [R!Next]_R!vars
  BY FlowRefines DEF FlowInv, R!Inv
<1> QED BY <1>1, R!RunsStep, SameAssumptions

\* A response names only a maksatus whose invoice Rondo has.
AboutInv == \A f \in Responses!Files : about[f] \in Payments => about[f] \in Invoiced

LEMMA AboutStep ==
    ASSUME FlowInv, RowsFit, AboutInv, [FlowNext]_flowVars
    PROVE  AboutInv'
<1> SUFFICES ASSUME NEW f \in Responses!Files, about'[f] \in Payments
             PROVE  about'[f] \in Invoiced'
  BY DEF AboutInv, Responses!Files
<1>1. CASE about'[f] = about[f]
  BY <1>1, HistoryGrows DEF AboutInv
<1>2. ASSUME NEW g, Responses!Respond(g)
      PROVE  about'[f] \in Invoiced'
  <2>1. PICK subject \in Invoiced \cup Responses!Junk :
          about' = [about EXCEPT ![g] = subject]
    BY <1>2 DEF Responses!Respond
  <2>2. about \in [Responses!Files -> Payments \cup R!Junk \cup {"none"}]
    BY DEF FlowInv, R!Inv, R!TypeInv, R!Files, Responses!Files
  <2>3. CASE f = g
    <3>1. about'[f] = subject /\ subject \notin Responses!Junk
      BY <2>1, <2>2, <2>3, FlowAssumption
    <3>2. subject \in Invoiced
      BY <2>1, <3>1
    <3> QED BY <3>1, <3>2, HistoryGrows
  <2>4. CASE f # g
    BY <1>1, <2>1, <2>2, <2>4
  <2> QED BY <2>3, <2>4
<1>3. ASSUME NEW t, Responses!FetchStep(t)
      PROVE  UNCHANGED about
  <2>1. R!FetchStep(t)
    BY <1>3, SameFetchSteps
  <2> QED
    BY <2>1 DEF R!FetchStep, R!RunStep, R!StartFetch, R!TimesOut, R!Fault, R!Retry,
                R!ListFiles, R!AllDone, R!GetFile, R!PassOver, R!TakePaid, R!TakeSent,
                R!ReadFails, R!SetPaid, R!DeleteRemote, R!DeleteLocal, R!Fails, R!sender
<1> QED BY <1>1, <1>2, <1>3
        DEF FlowNext, SendingStep, FetchingStep, flowVars, responseVars

\* The fetch job touches neither Rondo's files of invoices nor the send job.
LEMMA FetchingKeepsFiles ==
    ASSUME FilesInv, FetchingStep,
           \A p \in Payments : Pending(rows'[p]) => Pending(rows[p])
    PROVE  FilesInv'
<1>1. UNCHANGED <<thread, rondo, late, unsure>>
  BY DEF FetchingStep
<1>2. \A p \in Payments : Unmarked(p)' => Unmarked(p)
  BY <1>1 DEF Unmarked
<1>3. ASSUME NEW p \in Payments
      PROVE  /\ rondo'[p] + late'[p] <= 1 + unsure'[p]
             /\ Pending(rows'[p]) /\ Unmarked(p)' => rondo'[p] + late'[p] <= unsure'[p]
  <2>1. /\ rondo[p] + late[p] <= 1 + unsure[p]
        /\ Pending(rows[p]) /\ Unmarked(p) => rondo[p] + late[p] <= unsure[p]
    BY DEF FilesInv, FilesOf
  <2> QED BY <1>1, <1>2, <2>1
<1> QED BY <1>3 DEF FilesInv, FilesOf

\* One writer and one run: every maksatus has a top, and Rondo's files are counted.
FlowTopsInv == (\A p \in Payments : FlowTop(p, Writing)) /\ FilesInv /\ AboutInv

LEMMA FlowTopsStep ==
    ASSUME FlowInv, FlowInv', RowsFit, OneWriter, RunsApart, FlowTopsInv,
           [FlowNext]_flowVars
    PROVE  FlowTopsInv'
<1>1. \A p \in Payments : FlowTopStays(p, Writing)
  BY FlowTopStep DEF OneWriter, Writing, FlowTopsInv
<1>2. FilesInv'
  <2>1. CASE FetchingStep
    BY <1>1, <2>1, FetchingKeepsFiles DEF FlowTopsInv, FlowTopStays
  <2>2. CASE SendingStep \/ UNCHANGED flowVars
    <3>1. [Next]_vars
      BY <2>2 DEF SendingStep, flowVars
    <3>2. TypeInv /\ TypeInv' /\ TopsInv
      BY DEF FlowInv, FlowTopsInv, FlowTop, TopsInv
    <3> QED BY <3>1, <3>2, FilesStep DEF FlowTopsInv
  <2> QED BY <2>1, <2>2 DEF FlowNext
<1>3. AboutInv'
  BY AboutStep DEF FlowTopsInv
<1>4. (\A p \in Payments : FlowTop(p, Writing))'
  BY <1>1 DEF FlowTopStays
<1> QED BY <1>2, <1>3, <1>4 DEF FlowTopsInv

-----------------------------------------------------------------------------
(* Theorems.                                                               *)

\* FlowInv holds of every reachable state.
THEOREM FlowInvariant == FlowSpec /\ []RowsFit => []FlowInv
<1>1. FlowInit => FlowInv
  BY FlowInitially
<1>2. FlowInv /\ RowsFit /\ [FlowNext]_flowVars => FlowInv'
  BY FlowStep
<1> QED BY <1>1, <1>2, PTL DEF FlowSpec

\* The send job and the officials are senders as PaymentResponses describes
\* them: they make rows from unsent ones only, update to 'sent' only what Rondo
\* has, and delete nothing else (run-send-job!, set-payments-paid,
\* delete-payment, delete-grant-payments).
THEOREM SendersAreSenders == FlowSpec /\ []RowsFit => SendingIsASender
<1>1. FlowInit => R!Init
  BY FlowInitially
<1>2. FlowInv /\ RowsFit /\ [FlowNext]_flowVars => [R!Next]_R!vars
  BY FlowRefines DEF FlowInv
<1>3. FlowSpec /\ []RowsFit => R!Spec
  BY <1>1, <1>2, FlowInvariant, PTL DEF FlowSpec, R!Spec
<1> QED BY <1>3, SameSpec DEF SendingIsASender

\* A row was updated to 'sent' only of what Rondo has received, responses or not
\* (run-send-job!, update-paymentstatus-by-response).
THEOREM SentStillMeansDelivered == FlowSpec /\ []RowsFit => []SentWasDelivered
<1>1. FlowInv => SentWasDelivered
  BY DEF FlowInv, DeliveryInv, SentWasDelivered, SaysSent
<1> QED BY <1>1, FlowInvariant, PTL

\* With the send job for its sender, the fetch job loses no response, pays nothing
\* that Rondo has no invoice of but what an official made as 'sent', and what is
\* paid stands (pop-remote-files, update-paymentstatus-by-response, update-payment).
THEOREM ResponsesToTheSendJob ==
    FlowSpec /\ []RowsFit =>
      /\ [](Responses!NoResponseLost /\ Responses!PaidMeansInvoiced)
      /\ Responses!PaidStands
<1>1. Responses!NoResponseLost <=> R!NoResponseLost
  BY DEF Responses!NoResponseLost, R!NoResponseLost, Responses!Files, R!Files,
         Responses!PaidRows, R!PaidRows
<1>2. FlowInv => Responses!NoResponseLost
  BY <1>1 DEF FlowInv, R!Inv
<1>3. FlowInv => Responses!PaidMeansInvoiced
  BY DEF FlowInv, R!Inv, R!InvoiceInv, R!EverSent, Responses!PaidMeansInvoiced,
         Responses!PaidRows
<1>4. FlowInv /\ RowsFit /\ [FlowNext]_flowVars =>
        [\A p \in Payments : \A i \in Responses!PaidRows(rows[p]) :
           rows'[p][i] = rows[p][i]]_Responses!vars
  <2> SUFFICES ASSUME FlowInv, RowsFit, [FlowNext]_flowVars
               PROVE  \A p \in Payments : \A i \in Responses!PaidRows(rows[p]) :
                        rows'[p][i] = rows[p][i]
    OBVIOUS
  <2>1. R!TypeInv /\ R!RunInv /\ [R!Next]_R!vars
    BY FlowRefines DEF FlowInv, R!Inv
  <2>2. \A p \in Payments : R!RowsOf(p)
    BY <2>1, R!RowsStep, SameAssumptions
  <2> QED BY <2>2 DEF R!RowsOf, R!Stands, R!PaidRows, Responses!PaidRows
<1>5. FlowSpec /\ []RowsFit => Responses!PaidStands
  BY <1>4, FlowInvariant, PTL DEF FlowSpec, Responses!PaidStands
<1> QED BY <1>2, <1>3, <1>5, FlowInvariant, PTL

\* A maksatus that Rondo has paid is left alone, by the send job, which may be
\* between its put and its row when the response comes, and by the fetch job:
\* as long as one send job at a time is at work, and no two runs of the fetch
\* job are about to mark one maksatus.  Officials may create, delete and mark
\* others as paid meanwhile (run-send-job!, update-paymentstatus-by-response).
THEOREM PaidIsLeftAlone ==
    FlowSpec /\ []RowsFit /\ []OneSender /\ []RunsApart => PaidIsFinal
<1> DEFINE PaidInv == \A p \in Payments \ manual : FlowTop(p, Working)
           Final == \A p \in Payments \ manual' :
                      Responses!PaidRows(rows[p]) # {} => Len(rows'[p]) = Len(rows[p])
           Premise == FlowInv /\ RowsFit /\ OneSender /\ RunsApart
<1>1. FlowInit => PaidInv
  BY FlowTopInit DEF Writing
<1>2. ASSUME Premise, PaidInv, [FlowNext]_flowVars
      PROVE  \A p \in Payments \ manual' : FlowTopStays(p, Working)
  <2>1. manual \subseteq manual'
    BY <1>2, HistoryGrows
  <2>2. Working \subseteq Writing /\ Alone(Working)
    BY <1>2 DEF OneSender, Writing
  <2> QED BY <1>2, <2>1, <2>2, FlowTopStep
<1>3. Premise /\ PaidInv /\ [FlowNext]_flowVars => PaidInv'
  BY <1>2 DEF FlowTopStays
<1>4. Premise /\ PaidInv /\ [FlowNext]_flowVars => [Final]_flowVars
  BY <1>2, PaidRowsAre DEF FlowTopStays
<1> HIDE DEF PaidInv, Final
<1>5. FlowSpec /\ []RowsFit /\ []OneSender /\ []RunsApart => [][Final]_flowVars
  BY <1>1, <1>3, <1>4, FlowInvariant, PTL DEF FlowSpec
<1> QED BY <1>5 DEF Final, PaidIsFinal

LEMMA FlowTopsInvariant ==
    FlowSpec /\ []RowsFit /\ []OneWriter /\ []RunsApart => []FlowTopsInv
<1>1. FlowInit => FlowTopsInv
  <2> SUFFICES ASSUME FlowInit PROVE FlowTopsInv
    OBVIOUS
  <2>1. \A p \in Payments : FlowTop(p, Writing)
    BY FlowTopInit DEF Writing
  <2>2. FilesInv
    BY DEF FlowInit, Init, FilesInv, FilesOf
  <2>3. AboutInv
    BY FlowAssumption DEF FlowInit, AboutInv
  <2> QED BY <2>1, <2>2, <2>3 DEF FlowTopsInv
<1>2. FlowInv /\ FlowInv' /\ RowsFit /\ OneWriter /\ RunsApart /\ FlowTopsInv
      /\ [FlowNext]_flowVars => FlowTopsInv'
  BY FlowTopsStep
<1> QED BY <1>1, <1>2, FlowInvariant, PTL DEF FlowSpec

\* With the responses, too, at most one row of a maksatus is in force, and Rondo
\* gets no second file of one except after an outcome that the job could not
\* know, as long as one thread at a time works through the unsent maksatukset
\* and the runs of the fetch job stay apart (update-payment, run-send-job!).
THEOREM OneRowInForceStill ==
    FlowSpec /\ []RowsFit /\ []OneWriter /\ []RunsApart =>
      [](OneOpenRow /\ DuplicatesOnlyAfterUnsureOutcome)
<1>1. FlowInv /\ FlowTopsInv => OneOpenRow
  BY TopsMean DEF FlowInv, FlowTopsInv, FlowTop, TopsInv
<1>2. FlowTopsInv => DuplicatesOnlyAfterUnsureOutcome
  BY DEF FlowTopsInv, FilesInv, FilesOf, DuplicatesOnlyAfterUnsureOutcome
<1> QED BY <1>1, <1>2, FlowInvariant, FlowTopsInvariant, PTL

\* No two maksatukset share the key that a response carries.
KeysApart == \A p, q \in Payments : Key[p] = Key[q] => p = q

\* Then a response finds the row in force of its own maksatus, or none, and ends a
\* run only if that row has not been sent.
LEMMA BlockedIsPending ==
    ASSUME KeysApart, TypeInv, NEW p \in Payments, Topped(rows[p]), Responses!Blocked(p)
    PROVE  Pending(rows[p])
<1> DEFINE F == Responses!Found(p)
           O == OpenVersions(rows[p])
           Last == rows[p][Len(rows[p])]
<1>1. F = {p} \X O
  <2>1. {q \in Payments : Key[q] = Key[p]} = {p}
    BY DEF KeysApart
  <2>2. F = UNION {{q} \X Responses!OpenVersions(rows[q]) :
                     q \in {q \in Payments : Key[q] = Key[p]}}
    BY DEF Responses!Found
  <2> HIDE DEF F
  <2>3. F = UNION {{q} \X Responses!OpenVersions(rows[q]) : q \in {p}}
    BY <2>1, <2>2
  <2> QED BY <2>3, FoundAreOpen
<1>2. rows[p] \in Seq(Row)
  BY DEF TypeInv, TypeOK
<1>3. /\ \A v \in O : v \in Nat /\ v + 1 = Len(rows[p]) /\ At(rows[p], v) = Last
      /\ O # {} => InsertFits(rows[p])
  BY <1>2, ToppedQueries
<1>4. \A S : Responses!Cardinality(S) = Cardinality(S)
  BY DEF Responses!Cardinality, Cardinality
<1> HIDE DEF F, O
<1>5. CASE O = {}
  <2>1. F = {} /\ Cardinality(F) = 0
    BY <1>1, <1>5, FS_EmptySet
  <2>2. Responses!PassedOver(p)
    BY <2>1 DEF Responses!PassedOver, F
  <2>3. ~Responses!Payable(p)
    BY <1>4, <2>1 DEF Responses!Payable, Responses!FoundOne, F
  <2> QED BY <2>2, <2>3 DEF Responses!Blocked, Responses!Stuck
<1>6. CASE O # {}
  <2>1. PICK v : v \in O
    BY <1>6
  <2>2. O = {v} /\ v + 1 = Len(rows[p]) /\ v \in Nat
    BY <1>3, <2>1
  <2>3. F = {<<p, v>>} /\ Cardinality(F) = 1
    <3>1. F = {<<p, v>>}
      BY <1>1, <2>2
    <3> QED BY <3>1, FS_Singleton
  <2>4. \A r \in F : /\ Responses!At(rows[r[1]], r[2]) = Last
                     /\ Responses!InsertFits(rows[r[1]])
    <3>1. Responses!At(rows[p], v) = At(rows[p], v)
      BY DEF Responses!At, At
    <3>2. Responses!InsertFits(rows[p]) <=> InsertFits(rows[p])
      BY DEF Responses!InsertFits, InsertFits, Responses!NextVersion, NextVersion,
             Responses!Versions, Versions, Responses!Undeleted, Undeleted,
             Responses!At, At, Responses!Max, Max
    <3> QED BY <1>3, <1>6, <2>1, <2>3, <3>1, <3>2
  <2>5. Responses!Stuck(p)
    BY <2>4 DEF Responses!Blocked, F
  <2>6. Last.status # "paid"
    BY <1>4, <2>3, <2>4, <2>5
       DEF Responses!Stuck, Responses!AlreadyPaid, Responses!FoundOne, F
  <2>7. Last.status # "sent"
    BY <1>4, <2>3, <2>4, <2>5
       DEF Responses!Stuck, Responses!Payable, Responses!FoundOne, F
  <2>8. Last.status \in Statuses
    <3>1. Len(rows[p]) \in 1..Len(rows[p])
      BY <1>2, <2>2
    <3>2. Last \in Row
      BY <1>2, <3>1
    <3> QED BY <3>2 DEF Row
  <2> QED BY <2>6, <2>7, <2>8 DEF Pending, Statuses, Unsent
<1> QED BY <1>5, <1>6

\* If no two maksatukset share a key, then the response to one ends the runs that
\* meet it only while the send job is between its put and its row, or after a send
\* whose outcome it could not know (pop-remote-files, run-send-job!).
THEOREM StuckOnlyWhileUnknown ==
    ASSUME KeysApart
    PROVE  FlowSpec /\ []RowsFit /\ []OneWriter /\ []RunsApart =>
             []StuckOnlyWhileOutcomeUnknown
<1>1. ASSUME FlowInv, FlowTopsInv
      PROVE  StuckOnlyWhileOutcomeUnknown
  <2> SUFFICES ASSUME NEW f \in remote, about[f] \in Payments, Responses!Blocked(about[f])
               PROVE  \/ unsure[about[f]] > 0
                      \/ \E t \in Threads :
                           thread[t].pc = "mark" /\ thread[t].payment = about[f]
    BY DEF StuckOnlyWhileOutcomeUnknown
  <2>1. TypeInv /\ f \in Responses!Files
    BY <1>1 DEF FlowInv, R!Inv, R!TypeInv, R!Files, Responses!Files
  <2>2. PICK p \in Payments : p = about[f]
    OBVIOUS
  <2>3. p \in Invoiced /\ Topped(rows[p]) /\ FilesOf(p)
    BY <1>1, <2>1, <2>2 DEF FlowTopsInv, AboutInv, FlowTop, TopInv, FilesInv
  <2>4. Pending(rows[p])
    BY <2>1, <2>2, <2>3, BlockedIsPending
  <2>5. rondo[p] > 0 /\ rondo[p] \in Nat /\ late[p] \in Nat /\ unsure[p] \in Nat
    BY <2>1, <2>3 DEF Invoiced, TypeInv, TypeOK
  <2>6. CASE Unmarked(p)
    <3>1. rondo[p] + late[p] <= unsure[p]
      BY <2>3, <2>4, <2>6 DEF FilesOf
    <3> QED BY <2>2, <2>5, <3>1
  <2>7. CASE ~Unmarked(p)
    BY <2>2, <2>7 DEF Unmarked
  <2> QED BY <2>6, <2>7
<1> QED BY <1>1, FlowInvariant, FlowTopsInvariant, PTL

-----------------------------------------------------------------------------
(* The premises, from constants.                                           *)

\* One maksuera, and one run of the fetch job at a time.
OneEra == \A d, e \in Eras : d = e
OneRun == \A s, t \in Fetches : s = t

\* The fetch job does not restart the process.
LEMMA FetchingStaysUp ==
    ASSUME FetchingStep
    PROVE  UNCHANGED up
<1>1. ASSUME NEW t, R!FetchStep(t)
      PROVE  UNCHANGED up
  BY <1>1 DEF R!FetchStep, R!RunStep, R!StartFetch, R!TimesOut, R!Fault, R!Retry, R!ListFiles,
              R!AllDone, R!GetFile, R!PassOver, R!TakePaid, R!TakeSent, R!ReadFails,
              R!SetPaid, R!DeleteRemote, R!DeleteLocal, R!Fails, R!sender
<1>2. ASSUME NEW f, R!Respond(f)
      PROVE  UNCHANGED up
  BY <1>2 DEF R!Respond
<1> QED BY <1>1, <1>2, SameFetchSteps, SameRespond DEF FetchingStep

\* Every era has one owner still: the fetch job knows of no eras.
LEMMA FlowOwnerStep ==
    ASSUME TypeInv, TypeInv', OwnerInv, [FlowNext]_flowVars
    PROVE  OwnerInv'
<1>1. CASE SendingStep \/ UNCHANGED flowVars
  <2>1. [Next]_vars
    BY <1>1 DEF SendingStep, flowVars
  <2> QED BY <2>1, OwnerStep
<1>2. CASE FetchingStep
  <2>1. UNCHANGED <<thread, era, up>>
    BY <1>2, FetchingStaysUp DEF FetchingStep
  <2>2. \A t \in Threads, e \in Eras : Owns(t, e)' <=> Owns(t, e)
    BY <2>1 DEF Owns
  <2> QED BY <2>1, <2>2 DEF OwnerInv, SendingHasOneOwner
<1> QED BY <1>1, <1>2 DEF FlowNext

LEMMA FlowOwners == FlowSpec /\ []RowsFit => []OwnerInv
<1>1. FlowInit => OwnerInv
  BY OwnerInit DEF FlowInit
<1>2. TypeInv /\ TypeInv' /\ OwnerInv /\ [FlowNext]_flowVars => OwnerInv'
  BY FlowOwnerStep
<1>3. FlowInv => TypeInv
  BY DEF FlowInv
<1> QED BY <1>1, <1>2, <1>3, FlowInvariant, PTL DEF FlowSpec


\* With nothing to edit, no official's thread is at work.
LEMMA FlowQuietStep ==
    ASSUME FlowInv, QuietInv, [FlowNext]_flowVars
    PROVE  QuietInv'
<1>1. CASE SendingStep \/ UNCHANGED flowVars
  <2>1. TypeInv /\ [Next]_vars
    BY <1>1 DEF FlowInv, SendingStep, flowVars
  <2>2. \A t \in Threads : SendsUnsent(t)
    BY DEF FlowInv, UnsentInv, UnsentAt, SendsUnsent
  <2> QED BY <2>1, <2>2, QuietStep
<1>2. CASE FetchingStep
  BY <1>2 DEF FetchingStep, QuietInv
<1> QED BY <1>1, <1>2 DEF FlowNext

LEMMA FlowQuiet ==
    ASSUME MaxEdits = 0
    PROVE  FlowSpec /\ []RowsFit => []QuietInv
<1>1. FlowInit => QuietInv
  BY QuietInit DEF FlowInit
<1>2. FlowInv /\ QuietInv /\ [FlowNext]_flowVars => QuietInv'
  BY FlowQuietStep
<1> QED BY <1>1, <1>2, FlowInvariant, PTL DEF FlowSpec

\* One run is apart from itself.
LEMMA OneRunIsApart ==
    ASSUME OneRun
    PROVE  RunsApart
BY DEF OneRun, RunsApart

\* With one maksuera, and with one run of the fetch job at a time, what Rondo has
\* paid is left alone, whatever officials edit meanwhile (run-send-job!,
\* update-paymentstatus-by-response).
THEOREM OneEraLeavesPaidAlone ==
    ASSUME OneEra, OneRun
    PROVE  FlowSpec /\ []RowsFit => PaidIsFinal
<1>1. TypeInv /\ OwnerInv => OneSender
  <2>1. OneJob => OneSender
    BY DEF OneJob, OneSender, Alone, Working, JobSteps
  <2>2. TypeInv /\ OwnerInv => OneJob
    BY OneEraOneJob DEF OneEra, OwnerInv
  <2> QED BY <2>1, <2>2
<1>2. FlowInv => TypeInv
  BY DEF FlowInv
<1> QED BY <1>1, <1>2, OneRunIsApart, FlowInvariant, FlowOwners, PaidIsLeftAlone, PTL

\* When nobody edits the maksatukset either, one row of each is in force, Rondo
\* gets no second file that the job could have known of, and if no two share a key
\* a response ends the runs only while the outcome of its send is not known.
THEOREM OneEraSendsAndPays ==
    ASSUME OneEra, OneRun, KeysApart, MaxEdits = 0
    PROVE  FlowSpec /\ []RowsFit =>
             /\ []OneOpenRow /\ []DuplicatesOnlyAfterUnsureOutcome
             /\ []StuckOnlyWhileOutcomeUnknown
<1>1. TypeInv /\ OwnerInv /\ QuietInv => OneWriter
  BY OneEraOneJob, QuietIsAlone DEF OneEra, OwnerInv
<1>2. FlowInv => TypeInv
  BY DEF FlowInv
<1>3. FlowSpec /\ []RowsFit => []OneWriter
  BY <1>1, <1>2, FlowInvariant, FlowOwners, FlowQuiet, PTL
<1> QED BY <1>3, OneRunIsApart, OneRowInForceStill, StuckOnlyWhileUnknown, PTL

=============================================================================
