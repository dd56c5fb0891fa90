------------------------ MODULE PaymentSendingProofs ------------------------
(***************************************************************************)
(* Proofs about PaymentSending for any payments, applications, eras,       *)
(* threads and bounds.  The argument has layers, each an inductive         *)
(* invariant that uses the ones before it:                                 *)
(*   TypeInv     the types, with the ranges that keep them,                *)
(*   OwnerInv    who works on an era that is 'sending',                    *)
(*   UnsentInv   what the threads hold of the rows was unsent,             *)
(*   DeliveryInv what Rondo holds when a row says 'sent',                  *)
(*   NotifiedInv what a 'completed' era has done,                          *)
(*   EarnedInv   what the progress of an era counts;                       *)
(* while one thread at a time works on the rows, whatever officials edit,  *)
(*   TopsInv     what can be in force of a history, and who holds it,      *)
(*   FilesInv    the files of a maksatus that Rondo has or may get;        *)
(* and, when nobody edits the maksatukset either,                          *)
(*   SerialInv   the histories, and what a job holds of them,              *)
(*   CoveredInv, CountedInv  what a job has sent of what it counted.       *)
(***************************************************************************)
EXTENDS PaymentSending, FiniteSetTheorems, TLAPS

-----------------------------------------------------------------------------
(* What update-payment, delete-payment and the queries do to the history of *)
(* a maksatus.                                                              *)

\* g continues h: no row is lost and none changes its status.
Continues(g, h) ==
    /\ Len(g) >= Len(h)
    /\ \A i \in 1..Len(h) : g[i].status = h[i].status

\* update-payment adds one row with the status it was given, and changes no
\* status of the rows that were there.
LEMMA UpdateContinues ==
    ASSUME NEW h \in Seq(Row), NEW v \in Nat, NEW status \in Statuses
    PROVE  LET g == UpdatePayment(h, v, status) IN
           /\ g \in Seq(Row)
           /\ Continues(g, h)
           /\ Len(g) = Len(h) + 1
           /\ g[Len(h) + 1].status = status
<1> DEFINE c == CloseVersion(h, v)
<1>1. c \in Seq(Row) /\ Len(c) = Len(h) /\ \A i \in 1..Len(h) : c[i].status = h[i].status
  <2>1. \A i \in 1..Len(h) : h[i] \in Row
    OBVIOUS
  <2>2. \A r \in Row : LET q == [r EXCEPT !.open = FALSE] IN
          q \in Row /\ q.status = r.status
    BY DEF Row
  <2>3. \A i \in 1..Len(h) : c[i] \in Row /\ c[i].status = h[i].status
    BY <2>1, <2>2 DEF CloseVersion
  <2>4. c = [i \in 1..Len(h) |-> c[i]]
    BY DEF CloseVersion
  <2>5. QED
    BY <2>3, <2>4
<1>2. NewRow(status) \in Row /\ NewRow(status).status = status
  BY DEF NewRow, Row
<1>3. QED
  BY <1>1, <1>2 DEF UpdatePayment, Continues

\* A DELETE (an UPDATE of the deleted column) leaves the statuses alone.
LEMMA DeleteContinues ==
    ASSUME NEW h \in Seq(Row), NEW S
    PROVE  LET g == DeleteRows(h, S) IN
           g \in Seq(Row) /\ Continues(g, h) /\ Len(g) = Len(h)
<1> DEFINE g == DeleteRows(h, S)
<1>1. \A i \in 1..Len(h) : h[i] \in Row
  OBVIOUS
<1>2. \A r \in Row : LET q == [r EXCEPT !.deleted = TRUE] IN
        q \in Row /\ q.status = r.status
  BY DEF Row
<1>3. \A i \in 1..Len(h) : g[i] \in Row /\ g[i].status = h[i].status
  BY <1>1, <1>2 DEF DeleteRows
<1>4. g = [i \in 1..Len(h) |-> g[i]]
  BY DEF DeleteRows
<1>5. QED
  BY <1>3, <1>4 DEF Continues

\* A history that nobody touches continues itself.
LEMMA ContinuesItself ==
    ASSUME NEW h \in Seq(Row)
    PROVE  Continues(h, h)
BY DEF Continues

\* The versions a query returns are versions of rows that exist.
LEMMA UnsentAreRows ==
    ASSUME NEW h \in Seq(Row), NEW v \in UnsentVersions(h)
    PROVE  v \in Nat /\ v < Len(h) /\ At(h, v).status \in Statuses
<1>1. v \in Versions(h)
  BY DEF UnsentVersions, OpenVersions, Undeleted
<1>2. PICK i \in 1..Len(h) : v = i - 1
  BY <1>1 DEF Versions
<1>3. h[i] \in Row /\ At(h, v) = h[i]
  BY <1>2 DEF At
<1>4. QED
  BY <1>2, <1>3 DEF Row

\* get-application-unsent-payments returns finitely many rows.
LEMMA UnsentFinite ==
    ASSUME NEW h \in Seq(Row)
    PROVE  IsFiniteSet(UnsentVersions(h))
<1>1. UnsentVersions(h) \in SUBSET (0..Len(h))
  BY UnsentAreRows
<1>2. IsFiniteSet(0..Len(h))
  BY FS_Interval
<1>3. QED
  BY <1>1, <1>2, FS_Subset

\* update-payment changes no row but the one it closes.
LEMMA UpdateKeeps ==
    ASSUME NEW h \in Seq(Row), NEW v \in Nat, NEW status \in Statuses
    PROVE  LET g == UpdatePayment(h, v, status) IN
           /\ g[Len(h) + 1] = NewRow(status)
           /\ \A i \in 1..Len(h) : i # v + 1 => g[i] = h[i]
<1> DEFINE c == CloseVersion(h, v)
<1>1. c \in Seq(Row) /\ Len(c) = Len(h)
  <2>1. \A i \in 1..Len(h) : h[i] \in Row
    OBVIOUS
  <2>2. \A r \in Row : [r EXCEPT !.open = FALSE] \in Row
    BY DEF Row
  <2>3. \A i \in 1..Len(h) : c[i] \in Row
    BY <2>1, <2>2 DEF CloseVersion
  <2>4. c = [i \in 1..Len(h) |-> c[i]]
    BY DEF CloseVersion
  <2>5. QED
    BY <2>3, <2>4
<1>2. \A i \in 1..Len(h) : i # v + 1 => c[i] = h[i]
  BY DEF CloseVersion
<1>3. NewRow(status) \in Row
  BY DEF NewRow, Row
<1>4. QED
  BY <1>1, <1>2, <1>3 DEF UpdatePayment

\* A DELETE leaves alone the rows whose status it does not name.
LEMMA DeleteKeeps ==
    ASSUME NEW h \in Seq(Row), NEW S, NEW i \in 1..Len(h), h[i].status \notin S
    PROVE  DeleteRows(h, S)[i] = h[i]
BY DEF DeleteRows

\* The versions of a history are 0 up to its length.
LEMMA VersionsAre ==
    ASSUME NEW h \in Seq(Row)
    PROVE  /\ Versions(h) = {v \in Nat : v < Len(h)}
           /\ \A v \in Versions(h) : v + 1 \in 1..Len(h) /\ At(h, v) = h[v + 1]
<1>1. \A i \in 1..Len(h) : i - 1 \in Nat /\ i - 1 < Len(h)
  OBVIOUS
<1>2. \A v \in Nat : v < Len(h) => v + 1 \in 1..Len(h) /\ (v + 1) - 1 = v
  OBVIOUS
<1>3. QED
  BY <1>1, <1>2 DEF Versions, At

\* A history as sends alone leave it: no row deleted, the last row in force and
\* the others superseded before they were sent.
Orderly(h) ==
    \A i \in 1..Len(h) :
      /\ ~h[i].deleted
      /\ h[i].open <=> i = Len(h)
      /\ i < Len(h) => h[i].status \in Unsent

\* The version that a send may work on: the last row, of an unsent maksatus.
Fresh(h, v) == v + 1 = Len(h) /\ ~EverSent(h)

\* The rows of an unsent maksatus are all unsent.
LEMMA NeverSent ==
    ASSUME NEW h \in Seq(Row)
    PROVE  ~EverSent(h) <=> \A i \in 1..Len(h) : h[i].status \in Unsent
<1>1. \A i \in 1..Len(h) : h[i] \in Row
  OBVIOUS
<1>2. \A i \in 1..Len(h) : h[i].status \in {"sent", "paid"} <=> h[i].status \notin Unsent
  BY <1>1 DEF Row, Statuses, Unsent
<1>3. QED
  BY <1>2 DEF EverSent

\* A maksatus that has been sent stays so.
LEMMA SentStays ==
    ASSUME NEW h \in Seq(Row), NEW g \in Seq(Row), Continues(g, h), EverSent(h)
    PROVE  EverSent(g)
BY DEF EverSent, Continues

\* Working on the row in force leaves the history orderly.
LEMMA UpdateOrderly ==
    ASSUME NEW h \in Seq(Row), Orderly(h), NEW v \in Nat, Fresh(h, v),
           NEW status \in Statuses
    PROVE  LET g == UpdatePayment(h, v, status) IN
           /\ g \in Seq(Row) /\ Orderly(g) /\ Len(g) = Len(h) + 1
           /\ EverSent(g) <=> status \in {"sent", "paid"}
<1> DEFINE g == UpdatePayment(h, v, status)
           n == Len(h)
<1>1. /\ g \in Seq(Row) /\ Len(g) = n + 1 /\ n \in Nat /\ n = v + 1
      /\ g[n + 1] = NewRow(status)
      /\ \A i \in 1..n : g[i].status = h[i].status
      /\ \A i \in 1..n : i # n => g[i] = h[i]
  <2>1. n \in Nat /\ n = v + 1
    BY DEF Fresh
  <2>2. /\ g \in Seq(Row) /\ Continues(g, h) /\ Len(g) = n + 1
    BY UpdateContinues
  <2>3. \A i \in 1..n : g[i].status = h[i].status
    BY <2>2 DEF Continues
  <2>4. g[n + 1] = NewRow(status) /\ \A i \in 1..n : i # v + 1 => g[i] = h[i]
    BY UpdateKeeps
  <2>5. QED
    BY <2>1, <2>2, <2>3, <2>4
<1>2. n \in 1..n /\ h[n] \in Row /\ ~h[n].deleted
  BY <1>1 DEF Orderly
<1>3. g[n] = [h[n] EXCEPT !.open = FALSE]
  <2> DEFINE c == CloseVersion(h, v)
  <2>1. c = [i \in 1..n |-> IF i = v + 1 /\ ~h[i].deleted
                            THEN [h[i] EXCEPT !.open = FALSE] ELSE h[i]]
    BY DEF CloseVersion
  <2>2. c[n] = [h[n] EXCEPT !.open = FALSE]
    BY <1>1, <1>2, <2>1
  <2>3. c \in Seq(Row) /\ Len(c) = n
    <3>1. \A i \in 1..n : h[i] \in Row
      OBVIOUS
    <3>2. \A r \in Row : [r EXCEPT !.open = FALSE] \in Row
      BY DEF Row
    <3>3. \A i \in 1..n : c[i] \in Row
      BY <2>1, <3>1, <3>2
    <3>4. QED
      BY <1>1, <2>1, <3>3
  <2>4. NewRow(status) \in Row
    BY DEF NewRow, Row
  <2>5. g = Append(c, NewRow(status))
    BY DEF UpdatePayment
  <2>6. QED
    BY <1>1, <1>2, <2>2, <2>3, <2>4, <2>5
<1>4. g[n].open = FALSE /\ ~g[n].deleted
  BY <1>2, <1>3 DEF Row
<1>5. \A i \in 1..n : h[i].status \in Unsent
  BY NeverSent DEF Fresh
<1>6. g[n + 1].open = TRUE /\ ~g[n + 1].deleted /\ g[n + 1].status = status
  BY <1>1 DEF NewRow
<1> HIDE DEF g
<1>7. Orderly(g)
  <2>1. ASSUME NEW i \in 1..Len(g)
        PROVE  /\ ~g[i].deleted
               /\ g[i].open <=> i = Len(g)
               /\ i < Len(g) => g[i].status \in Unsent
    <3>1. CASE i < n
      <4>1. g[i] = h[i] /\ i \in 1..n /\ i # n /\ i # Len(g)
        BY <1>1, <3>1
      <4>2. QED
        BY <1>5, <4>1 DEF Orderly
    <3>2. CASE i = n
      BY <1>1, <1>2, <1>4, <1>5, <3>2
    <3>3. CASE i = n + 1
      BY <1>1, <1>6, <3>3
    <3>4. QED
      BY <1>1, <3>1, <3>2, <3>3
  <2>2. QED
    BY <2>1 DEF Orderly
<1>8. EverSent(g) <=> status \in {"sent", "paid"}
  <2>1. \A i \in 1..n : g[i].status \notin {"sent", "paid"}
    BY <1>1, <1>5 DEF Unsent
  <2>2. \A i \in 1..Len(g) : i \in 1..n \/ i = n + 1
    BY <1>1
  <2>3. n + 1 \in 1..Len(g)
    BY <1>1
  <2>4. QED
    BY <1>6, <2>1, <2>2, <2>3 DEF EverSent
<1>9. QED
  BY <1>1, <1>7, <1>8 DEF g

\* The queries on an orderly history: the row in force is the last one, and it
\* is found as long as the maksatus is unsent.
LEMMA OrderlyQueries ==
    ASSUME NEW h \in Seq(Row), Orderly(h)
    PROVE  /\ Cardinality(OpenVersions(h)) <= 1
           /\ \A v \in UnsentVersions(h) : Fresh(h, v)
           /\ h # <<>> /\ ~EverSent(h) => Len(h) - 1 \in UnsentVersions(h)
<1>1. /\ Versions(h) = {v \in Nat : v < Len(h)}
      /\ \A v \in Versions(h) : v + 1 \in 1..Len(h) /\ At(h, v) = h[v + 1]
  BY VersionsAre
<1>2. \A v \in OpenVersions(h) : v \in Nat /\ v + 1 = Len(h) /\ At(h, v) = h[v + 1]
  BY <1>1 DEF OpenVersions, Undeleted, Orderly
<1>3. Cardinality(OpenVersions(h)) <= 1
  <2>1. OpenVersions(h) \subseteq {Len(h) - 1}
    BY <1>2
  <2>2. IsFiniteSet({Len(h) - 1}) /\ Cardinality({Len(h) - 1}) = 1
    BY FS_Singleton
  <2>3. QED
    BY <2>1, <2>2, FS_Subset
<1>4. ASSUME NEW v \in UnsentVersions(h)
      PROVE  Fresh(h, v)
  <2>1. v + 1 = Len(h) /\ h[v + 1].status \in Unsent
    BY <1>2 DEF UnsentVersions
  <2>2. \A i \in 1..Len(h) : h[i].status \in Unsent
    BY <2>1 DEF Orderly
  <2>3. QED
    BY <2>1, <2>2, NeverSent DEF Fresh
<1>5. ASSUME h # <<>>, ~EverSent(h)
      PROVE  Len(h) - 1 \in UnsentVersions(h)
  <2> DEFINE v == Len(h) - 1
  <2>1. v \in Nat /\ v < Len(h) /\ v + 1 = Len(h) /\ Len(h) \in 1..Len(h)
    BY <1>5
  <2>2. v \in Versions(h) /\ At(h, v) = h[Len(h)]
    BY <1>1, <2>1
  <2>3. ~h[Len(h)].deleted /\ h[Len(h)].open /\ h[Len(h)].status \in Unsent
    BY <1>5, <2>1, NeverSent DEF Orderly
  <2>4. QED
    BY <2>2, <2>3 DEF UnsentVersions, OpenVersions, Undeleted
<1>6. QED
  BY <1>3, <1>4, <1>5
-----------------------------------------------------------------------------
(* Histories that are edited as well: rows may be deleted, and the last one *)
(* may have been marked as paid.                                            *)

\* The last row, if there is one, has not been sent.
Pending(h) == Len(h) > 0 => h[Len(h)].status \in Unsent

\* Only the last row can be in force, and it is if it has been sent or paid;
\* nothing follows a paid row.
Topped(h) ==
    /\ \A i \in 1..Len(h) : i < Len(h) => (h[i].deleted \/ ~h[i].open) /\ h[i].status # "paid"
    /\ ~Pending(h) => h[Len(h)].open /\ ~h[Len(h)].deleted

\* The version that may be worked on: the last row, not yet sent.
OnTop(h, v) == v + 1 = Len(h) /\ h[Len(h)].status \in Unsent

\* The row that update-payment closes.
LEMMA UpdateCloses ==
    ASSUME NEW h \in Seq(Row), NEW v \in Nat, v < Len(h), NEW status \in Statuses
    PROVE  LET g == UpdatePayment(h, v, status) IN g[v + 1].deleted \/ ~g[v + 1].open
<1> DEFINE c == CloseVersion(h, v)
           n == Len(h)
<1>1. v + 1 \in 1..n /\ \A i \in 1..n : h[i] \in Row
  OBVIOUS
<1>2. c = [i \in 1..n |-> IF i = v + 1 /\ ~h[i].deleted
                          THEN [h[i] EXCEPT !.open = FALSE] ELSE h[i]]
  BY DEF CloseVersion
<1>3. \A r \in Row : LET q == [r EXCEPT !.open = FALSE] IN q \in Row /\ ~q.open
  BY DEF Row
<1>4. c[v + 1].deleted \/ ~c[v + 1].open
  BY <1>1, <1>2, <1>3
<1>5. c \in Seq(Row) /\ Len(c) = n
  <2>1. \A i \in 1..n : c[i] \in Row
    BY <1>1, <1>2, <1>3
  <2>2. QED
    BY <1>2, <2>1
<1>6. NewRow(status) \in Row
  BY DEF NewRow, Row
<1>7. Append(c, NewRow(status))[v + 1] = c[v + 1]
  BY <1>1, <1>5, <1>6
<1>8. QED
  BY <1>4, <1>7 DEF UpdatePayment

\* A row made from the last one, unless that is paid, comes on top.
LEMMA UpdateTopped ==
    ASSUME NEW h \in Seq(Row), Topped(h), NEW v \in Nat, v + 1 = Len(h),
           h[Len(h)].status # "paid", NEW status \in Statuses
    PROVE  LET g == UpdatePayment(h, v, status) IN
           /\ g \in Seq(Row) /\ Topped(g) /\ Len(g) = Len(h) + 1
           /\ g[Len(g)].status = status
<1> DEFINE g == UpdatePayment(h, v, status)
           n == Len(h)
<1>1. /\ g \in Seq(Row) /\ Len(g) = n + 1 /\ Continues(g, h)
      /\ n \in Nat /\ n = v + 1 /\ v < n
  BY UpdateContinues
<1>2. g[n + 1] = NewRow(status) /\ \A i \in 1..n : i # n => g[i] = h[i]
  BY <1>1, UpdateKeeps
<1>3. g[n].deleted \/ ~g[n].open
  BY <1>1, UpdateCloses
<1>4. g[n].status # "paid"
  BY <1>1 DEF Continues
<1>5. g[n + 1].open /\ ~g[n + 1].deleted /\ g[n + 1].status = status
  BY <1>2 DEF NewRow
<1> HIDE DEF g
<1>6. ASSUME NEW i \in 1..Len(g), i < Len(g)
      PROVE  (g[i].deleted \/ ~g[i].open) /\ g[i].status # "paid"
  <2>1. i \in 1..n
    BY <1>1, <1>6
  <2>2. CASE i = n
    BY <1>3, <1>4, <2>2
  <2>3. CASE i # n
    <3>1. i < n /\ g[i] = h[i]
      BY <1>1, <1>2, <2>1, <2>3
    <3>2. QED
      BY <2>1, <3>1 DEF Topped
  <2>4. QED
    BY <2>2, <2>3
<1>7. Topped(g)
  BY <1>1, <1>5, <1>6 DEF Topped
<1>8. QED
  BY <1>1, <1>5, <1>7 DEF g

\* Deleting rows that have not been sent leaves the top where it is.
LEMMA DeleteTopped ==
    ASSUME NEW h \in Seq(Row), Topped(h), NEW S \in SUBSET Unsent
    PROVE  Topped(DeleteRows(h, S))
<1> DEFINE g == DeleteRows(h, S)
           n == Len(h)
<1>1. g \in Seq(Row) /\ Len(g) = n /\ Continues(g, h) /\ n \in Nat
  BY DeleteContinues
<1>2. \A i \in 1..n : h[i] \in Row /\ g[i].status = h[i].status
  BY <1>1 DEF Continues
<1>3. \A i \in 1..n : g[i] = h[i] \/ g[i].deleted
  BY <1>2 DEF DeleteRows, Row
<1>4. \A i \in 1..n : h[i].status \notin Unsent => g[i] = h[i]
  BY DeleteKeeps
<1> HIDE DEF g
<1>5. \A i \in 1..n : i < n => (g[i].deleted \/ ~g[i].open) /\ g[i].status # "paid"
  BY <1>2, <1>3 DEF Topped
<1>6. ASSUME ~Pending(g)
      PROVE  g[n].open /\ ~g[n].deleted
  <2>1. n \in 1..n /\ h[n].status \notin Unsent
    BY <1>1, <1>2, <1>6 DEF Pending
  <2>2. h[n].open /\ ~h[n].deleted
    BY <1>1, <2>1 DEF Topped, Pending
  <2>3. QED
    BY <1>4, <2>1, <2>2
<1>7. QED
  BY <1>1, <1>5, <1>6 DEF Topped, g

\* The queries on such a history: what is in force is the last row, and the next
\* version number is free.
LEMMA ToppedQueries ==
    ASSUME NEW h \in Seq(Row), Topped(h)
    PROVE  /\ Cardinality(OpenVersions(h)) <= 1
           /\ \A v \in OpenVersions(h) : v \in Nat /\ v + 1 = Len(h) /\ At(h, v) = h[Len(h)]
           /\ \A v \in UnsentVersions(h) : v \in Nat /\ OnTop(h, v)
           /\ OpenVersions(h) # {} => InsertFits(h)
<1>1. /\ Versions(h) = {v \in Nat : v < Len(h)}
      /\ \A v \in Versions(h) : v + 1 \in 1..Len(h) /\ At(h, v) = h[v + 1]
  BY VersionsAre
<1>2. ASSUME NEW v \in OpenVersions(h)
      PROVE  v \in Nat /\ v + 1 = Len(h) /\ At(h, v) = h[Len(h)]
  <2>1. v \in Versions(h) /\ ~At(h, v).deleted /\ At(h, v).open
    BY DEF OpenVersions, Undeleted
  <2>2. v \in Nat /\ v + 1 \in 1..Len(h) /\ At(h, v) = h[v + 1]
    BY <1>1, <2>1
  <2>3. ~(v + 1 < Len(h))
    BY <2>1, <2>2 DEF Topped
  <2>4. v + 1 = Len(h)
    BY <2>2, <2>3
  <2>5. QED
    BY <2>2, <2>4
<1>3. Cardinality(OpenVersions(h)) <= 1
  <2>1. OpenVersions(h) \subseteq {Len(h) - 1}
    BY <1>2
  <2>2. IsFiniteSet({Len(h) - 1}) /\ Cardinality({Len(h) - 1}) = 1
    BY FS_Singleton
  <2>3. QED
    BY <2>1, <2>2, FS_Subset
<1>4. ASSUME NEW v \in UnsentVersions(h)
      PROVE  v \in Nat /\ OnTop(h, v)
  <2>1. v \in OpenVersions(h) /\ At(h, v).status \in Unsent
    BY DEF UnsentVersions
  <2>2. QED
    BY <1>2, <2>1 DEF OnTop
<1>5. ASSUME OpenVersions(h) # {}
      PROVE  InsertFits(h)
  <2>1. PICK v \in OpenVersions(h) : v \in Nat /\ v + 1 = Len(h)
    BY <1>2, <1>5
  <2>2. v \in Undeleted(h)
    BY <2>1 DEF OpenVersions
  <2> DEFINE U == {0} \cup Undeleted(h)
  <2>3. v \in U /\ \A w \in U : w \in Nat /\ w <= v
    <3>1. \A w \in Undeleted(h) : w \in Nat /\ w < Len(h)
      BY <1>1 DEF Undeleted
    <3>2. QED
      BY <2>1, <2>2, <3>1
  <2>4. Max(U) = v
    <3>1. \E m \in U : \A w \in U : m >= w
      BY <2>1, <2>3
    <3>2. Max(U) \in U /\ \A w \in U : Max(U) >= w
      BY <3>1 DEF Max
    <3>3. Max(U) \in Nat /\ Max(U) <= v /\ v <= Max(U)
      BY <2>3, <3>2
    <3> HIDE DEF U
    <3>4. QED
      BY <2>1, <3>3
  <2>5. NextVersion(h) = 1 + v
    BY <2>4 DEF NextVersion
  <2>6. QED
    BY <1>1, <2>1, <2>5 DEF InsertFits
<1>6. QED
  BY <1>2, <1>3, <1>4, <1>5

\* At first there is nothing, or one row in force, whatever its status.
LEMMA FirstTopped ==
    /\ Topped(<<>>) /\ Pending(<<>>) /\ \A v \in Nat : ~OnTop(<<>>, v)
    /\ \A status \in Statuses :
         Topped(<<NewRow(status)>>) /\ (status \in Unsent => Pending(<<NewRow(status)>>))
<1>1. Len(<<>>) = 0
  OBVIOUS
<1>2. \A v \in Nat : ~OnTop(<<>>, v)
  BY <1>1 DEF OnTop
<1>3. Topped(<<>>) /\ Pending(<<>>)
  BY <1>1 DEF Topped, Pending
<1>4. ASSUME NEW status \in Statuses
      PROVE  Topped(<<NewRow(status)>>) /\ (status \in Unsent => Pending(<<NewRow(status)>>))
  <2>1. /\ Len(<<NewRow(status)>>) = 1 /\ <<NewRow(status)>>[1].status = status
        /\ <<NewRow(status)>>[1].open /\ ~<<NewRow(status)>>[1].deleted
    BY DEF NewRow
  <2>2. QED
    BY <2>1 DEF Topped, Pending
<1>5. QED
  BY <1>2, <1>3, <1>4

\* What keeps the statuses and adds no row keeps the top.
LEMMA SameTop ==
    ASSUME NEW h \in Seq(Row), NEW g \in Seq(Row), Continues(g, h), Len(g) = Len(h)
    PROVE  (Pending(g) <=> Pending(h)) /\ \A v \in Nat : OnTop(g, v) <=> OnTop(h, v)
<1>1. Len(h) \in Nat /\ (Len(h) > 0 => g[Len(h)].status = h[Len(h)].status)
  BY DEF Continues
<1>2. Pending(g) <=> Pending(h)
  BY <1>1 DEF Pending
<1>3. QED
  BY <1>1, <1>2 DEF OnTop, Pending

-----------------------------------------------------------------------------
(* Types.                                                                  *)

\* A queue names rows that exist; the count of an era is that of a finite set.
QueueInv ==
    \A t \in Threads :
      /\ IsFiniteSet(thread[t].counted)
      /\ \A p \in Payments, v \in Nat :
           <<p, v>> \in thread[t].queue => v < Len(rows[p])

TypeInv == TypeOK /\ QueueInv

\* What one query for the unsent maksatukset of an application returns.
LEMMA QueryType ==
    ASSUME TypeOK, NEW a \in Applications
    PROVE  /\ UnsentRowsOf(a) \subseteq RowId
           /\ \A p \in Payments, v \in Nat :
                <<p, v>> \in UnsentRowsOf(a) => v < Len(rows[p])
BY UnsentAreRows DEF TypeOK, UnsentRowsOf, RowId

\* What start-send-job! counts is a finite set of rows.
LEMMA CountType ==
    ASSUME TypeOK
    PROVE  PaymentsToSend \subseteq RowId /\ IsFiniteSet(PaymentsToSend)
<1> DEFINE Of(p) == {p} \X UnsentVersions(rows[p])
           All == UNION {Of(p) : p \in Payments}
<1>1. PaymentsToSend \subseteq RowId
  BY QueryType DEF PaymentsToSend, TypeOK
<1>2. \A p \in Payments : IsFiniteSet(Of(p))
  <2> TAKE p \in Payments
  <2>1. IsFiniteSet({p}) /\ IsFiniteSet(UnsentVersions(rows[p]))
    BY FS_Singleton, UnsentFinite DEF TypeOK
  <2>2. QED
    BY <2>1, FS_Product
<1>3. IsFiniteSet(All)
  <2>1. IsFiniteSet({Of(p) : p \in Payments})
    <3>1. [p \in Payments |-> Of(p)] \in Surjection(Payments, {Of(p) : p \in Payments})
      BY DEF Surjection
    <3>2. QED
      BY <3>1, SetsAssumption, FS_Surjection
  <2>2. QED
    BY <1>2, <2>1, FS_UNION
<1>4. PaymentsToSend \in SUBSET All
  BY DEF PaymentsToSend, UnsentRowsOf
<1>5. QED
  BY <1>1, <1>3, <1>4, FS_Subset

\* A thread that has ended is typed.
LEMMA IdleType == Idle \in ThreadType /\ Idle.queue = {} /\ IsFiniteSet(Idle.counted)
<1>1. (CHOOSE e \in Eras : TRUE) \in Eras /\ (CHOOSE p \in Payments : TRUE) \in Payments
  BY SetsAssumption
<1>2. QED
  BY <1>1, FS_EmptySet DEF Idle, ThreadType, Steps, JobSteps

\* The type of a thread, field by field.
LEMMA ThreadFields ==
    ASSUME TypeOK, NEW t \in Threads
    PROVE  /\ thread[t] \in ThreadType
           /\ thread[t].pc \in Steps /\ thread[t].era \in Eras
           /\ thread[t].apps \subseteq Applications
           /\ thread[t].queue \subseteq RowId /\ thread[t].counted \subseteq RowId
           /\ thread[t].payment \in Payments /\ thread[t].version \in Nat
           /\ rows[thread[t].payment] \in Seq(Row)
BY DEF TypeOK, ThreadType

\* No step loses a row or changes the status of one: histories only grow.
LEMMA RowsContinue ==
    ASSUME TypeInv, [Next]_vars
    PROVE  /\ rows' \in [Payments -> Seq(Row)]
           /\ \A p \in Payments : Continues(rows'[p], rows[p])
<1>1. rows \in [Payments -> Seq(Row)]
  BY DEF TypeInv, TypeOK
<1>2. CASE UNCHANGED rows
  BY <1>1, <1>2, ContinuesItself
<1>3. ASSUME NEW t \in Threads, AddBatchRow(t), rows' # rows
      PROVE  rows' \in [Payments -> Seq(Row)]
             /\ \A p \in Payments : Continues(rows'[p], rows[p])
  <2>1. PICK r \in thread[t].queue :
          rows' = [rows EXCEPT ![r[1]] = UpdatePayment(@, r[2], At(@, r[2]).status)]
    BY <1>3 DEF AddBatchRow
  <2>2. r[1] \in Payments /\ r[2] \in Nat /\ r[2] < Len(rows[r[1]])
    BY ThreadFields DEF TypeInv, QueueInv, RowId
  <2>3. At(rows[r[1]], r[2]).status \in Statuses
    <3>1. r[2] + 1 \in 1..Len(rows[r[1]]) /\ rows[r[1]] \in Seq(Row)
      BY <1>1, <2>2
    <3>2. At(rows[r[1]], r[2]) \in Row
      BY <3>1 DEF At
    <3>3. QED
      BY <3>2 DEF Row
  <2>4. QED
    BY <1>1, <2>1, <2>2, <2>3, UpdateContinues, ContinuesItself
<1>4. ASSUME NEW t \in Threads, MarkSent(t), rows' # rows
      PROVE  rows' \in [Payments -> Seq(Row)]
             /\ \A p \in Payments : Continues(rows'[p], rows[p])
  <2>1. rows' = [rows EXCEPT ![thread[t].payment] =
                   UpdatePayment(@, thread[t].version, "sent")]
    BY <1>4 DEF MarkSent
  <2>2. QED
    BY <1>1, <2>1, ThreadFields, UpdateContinues, ContinuesItself
       DEF TypeInv, Statuses
<1>5. ASSUME NEW t \in Threads, SetPaid(t), rows' # rows
      PROVE  rows' \in [Payments -> Seq(Row)]
             /\ \A p \in Payments : Continues(rows'[p], rows[p])
  <2>1. PICK r \in thread[t].queue :
          rows' = [rows EXCEPT ![r[1]] = UpdatePayment(@, r[2], "paid")]
    BY <1>5 DEF SetPaid
  <2>2. r[1] \in Payments /\ r[2] \in Nat
    BY ThreadFields DEF TypeInv, RowId
  <2>3. QED
    BY <1>1, <2>1, <2>2, UpdateContinues, ContinuesItself DEF Statuses
<1>6. ASSUME NEW p \in Payments, CreatePayment(p)
      PROVE  rows' \in [Payments -> Seq(Row)]
             /\ \A q \in Payments : Continues(rows'[q], rows[q])
  <2>1. PICK status \in Statuses :
          rows[p] = <<>> /\ rows' = [rows EXCEPT ![p] = <<NewRow(status)>>]
    BY <1>6 DEF CreatePayment
  <2>2. NewRow(status) \in Row
    BY DEF NewRow, Row
  <2>3. <<NewRow(status)>> \in Seq(Row) /\ Continues(<<NewRow(status)>>, <<>>)
    BY <2>2 DEF Continues
  <2>4. QED
    BY <1>1, <2>1, <2>3, ContinuesItself
<1>7. CASE DeleteGrantPayments
  BY <1>1, <1>7, DeleteContinues DEF DeleteGrantPayments
<1>8. ASSUME NEW t \in Threads, DeletePayment(t)
      PROVE  rows' \in [Payments -> Seq(Row)]
             /\ \A p \in Payments : Continues(rows'[p], rows[p])
  BY <1>1, <1>8, ThreadFields, DeleteContinues, ContinuesItself
     DEF DeletePayment, TypeInv
<1>9. CASE Environment
  BY <1>2, <1>6, <1>7, <1>9
     DEF Environment, LateArrival, LateLoss, ChangePayable, Crash, Restart
<1>10. ASSUME NEW t \in Threads, JobStep(t), rows' # rows
       PROVE  AddBatchRow(t) \/ MarkSent(t)
  BY <1>10
     DEF JobStep, ClaimEra, ClaimRefused, PickApplication, ApplicationDone,
         AllApplicationsDone, PutFindsNoRow, Put, PutSucceeds, PutFails,
         PutFailsAfterDelivery, PutTimesOut, IncSentCount, Notify, JobThrows,
         MarkSendFinished, JobEscapes
<1>11. ASSUME NEW t \in Threads, OfficialStep(t), rows' # rows
       PROVE  SetPaid(t) \/ DeletePayment(t)
  BY <1>11 DEF OfficialStep, CountPayments, CheckDeletable, StartSettingPaid,
               PayPickApplication
<1>12. CASE UNCHANGED vars
  BY <1>2, <1>12 DEF vars
<1>13. QED
  BY <1>2, <1>3, <1>4, <1>5, <1>8, <1>9, <1>10, <1>11, <1>12 DEF Next

\* What a step leaves in a thread: a record of the type, whose queue is what
\* is left of the old one or the answer to a query.
ThreadStaysTyped(t) ==
    /\ thread'[t] \in ThreadType
    /\ IsFiniteSet(thread'[t].counted)
    /\ \/ thread'[t].queue \subseteq thread[t].queue
       \/ \E a \in Applications : thread'[t].queue = UnsentRowsOf(a)

\* Every step keeps each thread typed, and its queue holds rows that exist.
LEMMA ThreadsStayTyped ==
    ASSUME TypeInv, [Next]_vars
    PROVE  /\ thread' \in [Threads -> ThreadType]
           /\ \A t \in Threads : ThreadStaysTyped(t)
<1> DEFINE Goal == /\ thread' \in [Threads -> ThreadType]
                   /\ \A t \in Threads : ThreadStaysTyped(t)
<1>1. thread \in [Threads -> ThreadType] /\ \A t \in Threads : IsFiniteSet(thread[t].counted)
  BY DEF TypeInv, TypeOK, QueueInv
<1>2. CASE UNCHANGED thread
  BY <1>1, <1>2 DEF ThreadStaysTyped
\* A step of one thread, from what it makes of that thread.
<1>3. ASSUME NEW t \in Threads, NEW r \in ThreadType,
             thread' = [thread EXCEPT ![t] = r], IsFiniteSet(r.counted),
             \/ r.queue \subseteq thread[t].queue
             \/ \E a \in Applications : r.queue = UnsentRowsOf(a)
      PROVE  Goal
  BY <1>1, <1>3 DEF ThreadStaysTyped
\* The steps that only move the program counter, or go idle.
<1>4. ASSUME NEW t \in Threads, NEW pc \in Steps, thread' = [thread EXCEPT ![t].pc = pc]
      PROVE  Goal
  <2> DEFINE r == [thread[t] EXCEPT !.pc = pc]
  <2>1. r \in ThreadType /\ r.counted = thread[t].counted /\ r.queue = thread[t].queue
    BY <1>1 DEF ThreadType
  <2>2. thread' = [thread EXCEPT ![t] = r]
    BY <1>4
  <2>3. QED
    BY <1>1, <1>3, <2>1, <2>2
<1>5. ASSUME NEW t \in Threads, thread' = [thread EXCEPT ![t] = Idle]
      PROVE  Goal
  BY <1>3, <1>5, IdleType
<1>6. ASSUME NEW t \in Threads, Throws(t)
      PROVE  Goal
  <2> DEFINE r == [thread[t] EXCEPT !.pc = "finish", !.failed = TRUE]
  <2>1. r \in ThreadType /\ r.counted = thread[t].counted /\ r.queue = thread[t].queue
    BY <1>1 DEF ThreadType, Steps, JobSteps
  <2>2. thread' = [thread EXCEPT ![t] = r]
    BY <1>6 DEF Throws
  <2>3. QED
    BY <1>1, <1>3, <2>1, <2>2
<1>7. ASSUME NEW t \in Threads, NEW e \in Eras, CountPayments(t, e)
      PROVE  Goal
  <2> DEFINE r == [Idle EXCEPT !.pc = "counted", !.era = e, !.counted = PaymentsToSend]
  <2>1. PaymentsToSend \subseteq RowId /\ IsFiniteSet(PaymentsToSend)
    BY CountType DEF TypeInv
  <2>2. r \in ThreadType /\ r.counted = PaymentsToSend /\ r.queue = {}
    BY IdleType, <2>1 DEF ThreadType, Steps
  <2>3. thread' = [thread EXCEPT ![t] = r]
    BY <1>7 DEF CountPayments
  <2>4. QED
    BY <1>3, <2>1, <2>2, <2>3
<1>8. ASSUME NEW t \in Threads, ClaimEra(t)
      PROVE  Goal
  <2> DEFINE r == [thread[t] EXCEPT !.pc = "pick", !.apps = payable]
  <2>1. r \in ThreadType /\ r.counted = thread[t].counted /\ r.queue = thread[t].queue
    BY <1>1 DEF ThreadType, Steps, JobSteps, TypeInv, TypeOK
  <2>2. thread' = [thread EXCEPT ![t] = r]
    BY <1>8 DEF ClaimEra
  <2>3. QED
    BY <1>1, <1>3, <2>1, <2>2
<1>9. ASSUME NEW t \in Threads, NEW a \in thread[t].apps, NEW pc \in Steps,
             thread' = [thread EXCEPT ![t].pc = pc, ![t].apps = @ \ {a},
                                      ![t].queue = UnsentRowsOf(a)]
      PROVE  Goal
  <2> DEFINE r == [thread[t] EXCEPT !.pc = pc, !.apps = @ \ {a}, !.queue = UnsentRowsOf(a)]
  <2>1. a \in Applications /\ UnsentRowsOf(a) \subseteq RowId
    BY QueryType, ThreadFields DEF TypeInv
  <2>2. r \in ThreadType /\ r.counted = thread[t].counted /\ r.queue = UnsentRowsOf(a)
    BY <1>1, <2>1 DEF ThreadType
  <2>3. thread' = [thread EXCEPT ![t] = r]
    BY <1>9
  <2>4. QED
    BY <1>1, <1>3, <2>1, <2>2, <2>3
<1>10. ASSUME NEW t \in Threads, AddBatchRow(t)
       PROVE  Goal
  <2>1. PICK q \in thread[t].queue :
          \/ thread' = [thread EXCEPT ![t].pc = "put", ![t].queue = @ \ {q},
                            ![t].payment = q[1], ![t].version = Len(rows[q[1]])]
          \/ Throws(t)
    BY <1>10 DEF AddBatchRow
  <2> DEFINE r == [thread[t] EXCEPT !.pc = "put", !.queue = @ \ {q},
                            !.payment = q[1], !.version = Len(rows[q[1]])]
  <2>2. q[1] \in Payments /\ Len(rows[q[1]]) \in Nat
    BY ThreadFields DEF TypeInv, TypeOK, RowId
  <2>3. r \in ThreadType /\ r.counted = thread[t].counted
        /\ r.queue \subseteq thread[t].queue
    BY <1>1, <2>2 DEF ThreadType, Steps, JobSteps
  <2>4. thread' = [thread EXCEPT ![t] = r] \/ Throws(t)
    BY <2>1
  <2>5. QED
    BY <1>1, <1>3, <1>6, <2>3, <2>4
<1>11. ASSUME NEW t \in Threads, NEW p \in Payments, CheckDeletable(t, p)
       PROVE  Goal
  <2> DEFINE r == [thread[t] EXCEPT !.pc = "delete", !.payment = p]
  <2>1. r \in ThreadType /\ r.counted = thread[t].counted /\ r.queue = thread[t].queue
    BY <1>1 DEF ThreadType, Steps
  <2>2. thread' = [thread EXCEPT ![t] = r]
    BY <1>11 DEF CheckDeletable
  <2>3. QED
    BY <1>1, <1>3, <2>1, <2>2
<1>12. ASSUME NEW t \in Threads, StartSettingPaid(t)
       PROVE  Goal
  <2> DEFINE r == [thread[t] EXCEPT !.pc = "payPick", !.apps = payable]
  <2>1. r \in ThreadType /\ r.counted = thread[t].counted /\ r.queue = thread[t].queue
    BY <1>1 DEF ThreadType, Steps, TypeInv, TypeOK
  <2>2. thread' = [thread EXCEPT ![t] = r]
    BY <1>12 DEF StartSettingPaid
  <2>3. QED
    BY <1>1, <1>3, <2>1, <2>2
<1>13. ASSUME NEW t \in Threads, NEW q \in thread[t].queue,
              thread' = [thread EXCEPT ![t].queue = @ \ {q}]
       PROVE  Goal
  <2> DEFINE r == [thread[t] EXCEPT !.queue = @ \ {q}]
  <2>1. r \in ThreadType /\ r.counted = thread[t].counted
        /\ r.queue \subseteq thread[t].queue
    BY <1>1 DEF ThreadType
  <2>2. thread' = [thread EXCEPT ![t] = r]
    BY <1>13
  <2>3. QED
    BY <1>1, <1>3, <2>1, <2>2
<1>14. ASSUME NEW t \in Threads, JobStep(t)
       PROVE  Goal
  <2>1. CASE ClaimEra(t) \/ AddBatchRow(t)
    BY <1>8, <1>10, <2>1
  <2>2. CASE ClaimRefused(t) \/ MarkSendFinished(t)
    BY <1>5, <2>2 DEF ClaimRefused, MarkSendFinished
  <2>3. CASE PickApplication(t)
    BY <1>9, <2>3 DEF PickApplication, Steps, JobSteps
  <2>4. CASE JobThrows(t)
    BY <1>6, <2>4 DEF JobThrows
  <2>5. CASE MarkSent(t)
    BY <1>4, <1>6, <2>5 DEF MarkSent, Steps, JobSteps
  <2>6. CASE ApplicationDone(t) \/ AllApplicationsDone(t) \/ IncSentCount(t)
             \/ Notify(t) \/ JobEscapes(t)
    BY <1>4, <2>6 DEF ApplicationDone, AllApplicationsDone, IncSentCount, Notify,
                      JobEscapes, Steps, JobSteps
  <2>7. CASE PutFindsNoRow(t) \/ PutSucceeds(t) \/ PutFails(t)
             \/ PutFailsAfterDelivery(t) \/ PutTimesOut(t)
    BY <1>4, <2>7 DEF PutFindsNoRow, PutSucceeds, PutFails,
                      PutFailsAfterDelivery, PutTimesOut, Steps, JobSteps
  <2>8. QED
    BY <1>14, <2>1, <2>2, <2>3, <2>4, <2>5, <2>6, <2>7 DEF JobStep
<1>15. ASSUME NEW t \in Threads, OfficialStep(t)
       PROVE  Goal
  <2>1. CASE DeletePayment(t)
    BY <1>5, <2>1 DEF DeletePayment
  <2>2. CASE PayPickApplication(t)
    BY <1>5, <1>9, <2>2 DEF PayPickApplication, Steps
  <2>3. CASE SetPaid(t)
    BY <1>4, <1>5, <1>13, <2>3 DEF SetPaid, Steps
  <2>4. QED
    BY <1>7, <1>11, <1>12, <1>15, <2>1, <2>2, <2>3 DEF OfficialStep
<1>16. CASE Environment
  <2>1. CASE Crash
    BY <2>1, IdleType DEF Crash, ThreadStaysTyped
  <2>2. QED
    BY <1>2, <1>16, <2>1 DEF Environment, LateArrival, LateLoss, CreatePayment,
                             ChangePayable, DeleteGrantPayments, Restart
<1>17. CASE UNCHANGED vars
  BY <1>2, <1>17 DEF vars
<1>18. QED
  BY <1>14, <1>15, <1>16, <1>17 DEF Next

\* The other variables.
LEMMA DataStaysTyped ==
    ASSUME TypeInv, [Next]_vars
    PROVE  /\ payable' \subseteq Applications
           /\ era' \in [Eras -> EraType]
           /\ rondo' \in [Payments -> Nat] /\ late' \in [Payments -> Nat]
           /\ unsure' \in [Payments -> Nat]
           /\ up' \in BOOLEAN
           /\ budget' \in [{"starts", "edits", "crashes"} -> Nat]
<1> DEFINE Data == /\ payable' \subseteq Applications
                   /\ era' \in [Eras -> EraType]
                   /\ rondo' \in [Payments -> Nat] /\ late' \in [Payments -> Nat]
                   /\ unsure' \in [Payments -> Nat]
                   /\ up' \in BOOLEAN
                   /\ budget' \in [{"starts", "edits", "crashes"} -> Nat]
<1>1. /\ payable \subseteq Applications
      /\ era \in [Eras -> EraType]
      /\ rondo \in [Payments -> Nat] /\ late \in [Payments -> Nat]
      /\ unsure \in [Payments -> Nat]
      /\ up \in BOOLEAN
      /\ budget \in [{"starts", "edits", "crashes"} -> Nat]
  BY DEF TypeInv, TypeOK
<1>2. CASE UNCHANGED <<payable, era, rondo, late, unsure, up, budget>>
  BY <1>1, <1>2
<1>3. ASSUME NEW what \in {"starts", "edits", "crashes"}, Spend(what)
      PROVE  budget' \in [{"starts", "edits", "crashes"} -> Nat]
  BY <1>1, <1>3 DEF Spend
<1>4. ASSUME NEW t \in Threads, JobStep(t)
      PROVE  Data
  <2>1. thread[t].era \in Eras /\ thread[t].payment \in Payments
    BY ThreadFields DEF TypeInv
  <2>2. ASSUME NEW x \in EraType,
               era' = [era EXCEPT ![thread[t].era] = x],
               UNCHANGED <<payable, rondo, late, unsure, up, budget>>
        PROVE  Data
    BY <1>1, <2>1, <2>2
  <2>3. CASE ClaimEra(t)
    <3> DEFINE x == [status |-> "sending", sent |-> 0,
                     total |-> Cardinality(thread[t].counted), notified |-> {}]
    <3>1. Cardinality(thread[t].counted) \in Nat
      BY FS_CardinalityType DEF TypeInv, QueueInv
    <3>2. x \in EraType
      BY <3>1 DEF EraType, SendStatuses
    <3>3. QED
      BY <2>2, <2>3, <3>2 DEF ClaimEra
  <2>4. CASE IncSentCount(t)
    <3> DEFINE x == [era[thread[t].era] EXCEPT !.sent = @ + 1]
    <3>1. x \in EraType
      BY <1>1, <2>1 DEF EraType
    <3>2. era' = [era EXCEPT ![thread[t].era] = x]
      BY <2>4 DEF IncSentCount
    <3>3. QED
      BY <2>2, <2>4, <3>1, <3>2 DEF IncSentCount
  <2>5. CASE Notify(t)
    <3>1. PICK report \in SUBSET {"report"} :
            era' = [era EXCEPT ![thread[t].era].notified = {"emails"} \cup report]
      BY <2>5 DEF Notify
    <3> DEFINE x == [era[thread[t].era] EXCEPT !.notified = {"emails"} \cup report]
    <3>2. {"emails"} \cup report \in SUBSET Notifications
      BY DEF Notifications
    <3>3. x \in EraType
      BY <1>1, <2>1, <3>2 DEF EraType
    <3>4. era' = [era EXCEPT ![thread[t].era] = x]
      BY <3>1
    <3>5. QED
      BY <2>2, <2>5, <3>3, <3>4 DEF Notify
  <2>6. CASE MarkSendFinished(t)
    <3> DEFINE x == [era[thread[t].era] EXCEPT !.status = FinalStatus(t)]
    <3>1. FinalStatus(t) \in SendStatuses
      BY DEF FinalStatus, SendStatuses
    <3>2. x \in EraType
      BY <1>1, <2>1, <3>1 DEF EraType
    <3>3. era' = [era EXCEPT ![thread[t].era] = x]
      BY <2>6 DEF MarkSendFinished
    <3>4. QED
      BY <2>2, <2>6, <3>2, <3>3 DEF MarkSendFinished
  <2>7. CASE PutSucceeds(t) \/ PutFailsAfterDelivery(t) \/ PutTimesOut(t) \/ PutFails(t)
    BY <1>1, <2>1, <2>7 DEF PutSucceeds, PutFailsAfterDelivery, PutTimesOut, PutFails, Put
  <2>8. CASE MarkSent(t) \/ JobThrows(t)
    BY <1>1, <2>1, <2>8 DEF MarkSent, JobThrows
  <2>9. QED
    BY <1>2, <1>4, <2>3, <2>4, <2>5, <2>6, <2>7, <2>8
       DEF JobStep, ClaimRefused, PickApplication, ApplicationDone,
           AllApplicationsDone, AddBatchRow, PutFindsNoRow, JobEscapes
<1>5. ASSUME NEW t \in Threads, OfficialStep(t)
      PROVE  Data
  BY <1>1, <1>3, <1>5 DEF OfficialStep, CountPayments, CheckDeletable, DeletePayment,
                          StartSettingPaid, PayPickApplication, SetPaid
<1>6. CASE Crash
  <2>1. \A p \in Payments, S \in SUBSET Threads :
          Cardinality({t \in S : thread[t].payment = p}) \in Nat
    BY SetsAssumption, FS_Subset, FS_CardinalityType
  <2>2. \A p \in Payments :
          Cardinality({t \in Threads : thread[t].payment = p
                                       /\ thread[t].pc \in {"put", "mark"}}) \in Nat
    BY SetsAssumption, FS_Subset, FS_CardinalityType
  <2>3. unsure' \in [Payments -> Nat]
    BY <1>1, <1>6, <2>2 DEF Crash
  <2>4. rondo' \in [Payments -> Nat]
    <3>1. PICK S \in SUBSET Threads :
            rondo' = [p \in Payments |->
                        rondo[p] + Cardinality({t \in S : thread[t].payment = p})]
      BY <1>6 DEF Crash
    <3>2. \A p \in Payments :
            rondo[p] + Cardinality({t \in S : thread[t].payment = p}) \in Nat
      <4> TAKE p \in Payments
      <4>1. rondo[p] \in Nat /\ Cardinality({t \in S : thread[t].payment = p}) \in Nat
        BY <1>1, <2>1
      <4>2. QED
        BY <4>1
    <3>3. QED
      BY <3>1, <3>2
  <2>5. QED
    BY <1>1, <1>3, <1>6, <2>3, <2>4 DEF Crash
<1>7. CASE Restart
  <2>1. \A e \in Eras : [era[e] EXCEPT !.status = "failed"] \in EraType
    BY <1>1 DEF EraType, SendStatuses
  <2>2. QED
    BY <1>1, <1>7, <2>1 DEF Restart
<1>8. CASE Environment
  <2>1. ASSUME NEW p \in Payments, LateArrival(p) \/ LateLoss(p)
        PROVE  Data
    BY <1>1, <2>1 DEF LateArrival, LateLoss
  <2>2. ASSUME NEW p \in Payments, CreatePayment(p)
        PROVE  Data
    BY <1>1, <1>3, <2>2 DEF CreatePayment
  <2>3. ASSUME NEW a \in Applications, ChangePayable(a)
        PROVE  Data
    BY <1>1, <1>3, <2>3 DEF ChangePayable
  <2>4. CASE DeleteGrantPayments
    BY <1>1, <1>3, <2>4 DEF DeleteGrantPayments
  <2>5. QED
    BY <1>6, <1>7, <1>8, <2>1, <2>2, <2>3, <2>4 DEF Environment
<1>9. CASE UNCHANGED vars
  BY <1>2, <1>9 DEF vars
<1>10. QED
  BY <1>4, <1>5, <1>8, <1>9 DEF Next

\* The initial state is typed.
LEMMA TypeInit == Init => TypeInv
<1> SUFFICES ASSUME Init PROVE TypeInv
  OBVIOUS
<1>1. rows \in [Payments -> Seq(Row)]
  <2>1. <<NewRow("created")>> \in Seq(Row) /\ <<>> \in Seq(Row)
    BY DEF NewRow, Row, Statuses
  <2>2. QED
    BY <2>1 DEF Init
<1>2. era \in [Eras -> EraType]
  BY DEF Init, EraType, SendStatuses
<1>3. thread \in [Threads -> ThreadType]
  BY IdleType DEF Init
<1>4. budget \in [{"starts", "edits", "crashes"} -> Nat]
  BY BoundsAssumption DEF Init
<1>5. QED
  BY <1>1, <1>2, <1>3, <1>4, IdleType DEF Init, TypeInv, TypeOK, QueueInv

\* Every step keeps the types and the ranges they rest on.
LEMMA TypeStep == TypeInv /\ [Next]_vars => TypeInv'
<1> SUFFICES ASSUME TypeInv, [Next]_vars PROVE TypeInv'
  OBVIOUS
<1>1. TypeOK'
  BY RowsContinue, ThreadsStayTyped, DataStaysTyped DEF TypeOK
<1>2. ASSUME NEW t \in Threads, NEW p \in Payments, NEW v \in Nat,
             <<p, v>> \in thread'[t].queue
      PROVE  v < Len(rows'[p])
  <2>1. v < Len(rows[p])
    BY <1>2, ThreadsStayTyped, QueryType DEF ThreadStaysTyped, TypeInv, QueueInv
  <2>2. Len(rows'[p]) >= Len(rows[p])
    BY RowsContinue DEF Continues
  <2>3. rows[p] \in Seq(Row) /\ rows'[p] \in Seq(Row)
    BY RowsContinue DEF TypeInv, TypeOK
  <2>4. QED
    BY <2>1, <2>2, <2>3
<1>3. QED
  BY <1>1, <1>2, ThreadsStayTyped DEF TypeInv, QueueInv, ThreadStaysTyped

\* Types, and that a queued row or the row being sent exists in its history.
THEOREM TypeInvariant == Spec => []TypeInv
<1>1. QED
  BY TypeInit, TypeStep, PTL DEF Spec

\* Every variable keeps its type, for any number of maksatukset, eras and
\* threads.
THEOREM TypeCorrect == Spec => []TypeOK
<1>1. TypeInv => TypeOK
  BY DEF TypeInv
<1>2. QED
  BY <1>1, TypeInvariant, PTL

-----------------------------------------------------------------------------
(* Who works on an era.                                                    *)

\* The thread that claimed an era keeps it until the terminal status.  A dead
\* process has no threads, so the restart may fail every era it finds.
OwnerInv ==
    /\ SendingHasOneOwner
    /\ \A e \in Eras, t \in Threads : Owns(t, e) => era[e].status = "sending"
    /\ ~up => \A t \in Threads : thread[t].pc = "idle"

OwnerSteps == JobSteps \cup {"escaped"}

\* No era has an owner at first.
LEMMA OwnerInit == Init => OwnerInv
<1> SUFFICES ASSUME Init PROVE OwnerInv
  OBVIOUS
<1>1. \A t \in Threads : thread[t].pc = "idle"
  BY DEF Init, Idle
<1>2. \A e \in Eras : era[e].status = "none" /\ \A t \in Threads : ~Owns(t, e)
  BY <1>1 DEF Init, Owns, JobSteps
<1>3. QED
  BY <1>1, <1>2 DEF OwnerInv, SendingHasOneOwner

\* Steps that leave every thread where it was or move it within one side of
\* the line between owning and not owning change no owner.
LEMMA SameOwners ==
    ASSUME TypeInv, TypeInv', OwnerInv,
           \A t \in Threads :
             /\ thread'[t].pc \in OwnerSteps <=> thread[t].pc \in OwnerSteps
             /\ thread[t].pc \in OwnerSteps => thread'[t].era = thread[t].era,
           \A e \in Eras : era'[e].status = era[e].status,
           up' = up,
           up \/ \A t \in Threads : thread'[t].pc = "idle"
    PROVE  OwnerInv'
<1>1. \A t \in Threads, e \in Eras : Owns(t, e)' <=> Owns(t, e)
  BY DEF Owns, OwnerSteps
<1>2. QED
  BY <1>1 DEF OwnerInv, SendingHasOneOwner

\* Claiming, finishing, dying and restarting keep one owner to an era.
LEMMA OwnerStep == TypeInv /\ TypeInv' /\ OwnerInv /\ [Next]_vars => OwnerInv'
<1> SUFFICES ASSUME TypeInv, TypeInv', OwnerInv, [Next]_vars PROVE OwnerInv'
  OBVIOUS
<1> USE DEF OwnerSteps, JobSteps
<1>1. /\ thread \in [Threads -> ThreadType] /\ era \in [Eras -> EraType]
      /\ thread' \in [Threads -> ThreadType] /\ era' \in [Eras -> EraType]
      /\ up \in BOOLEAN
  BY DEF TypeInv, TypeOK
\* A thread at work means that the process is running.
<1>2. ASSUME NEW t \in Threads, thread[t].pc # "idle"
      PROVE  up
  BY <1>1, <1>2 DEF OwnerInv
<1>3. CASE UNCHANGED <<thread, era, up>>
  BY <1>3, SameOwners DEF OwnerInv
\* A step of one thread that changes neither whether it owns nor what.
<1>4. ASSUME NEW t \in Threads,
             \A s \in Threads \ {t} : thread'[s] = thread[s],
             thread'[t].pc \in OwnerSteps <=> thread[t].pc \in OwnerSteps,
             thread[t].pc \in OwnerSteps => thread'[t].era = thread[t].era,
             \A e \in Eras : era'[e].status = era[e].status,
             up, up' = up
      PROVE  OwnerInv'
  BY <1>4, SameOwners
<1>5. ASSUME NEW t \in Threads, ClaimEra(t)
      PROVE  OwnerInv'
  <2> DEFINE e == thread[t].era
  <2>1. /\ thread[t].pc = "counted" /\ era[e].status # "sending" /\ e \in Eras
        /\ up /\ up' = up
    BY <1>1, <1>2, <1>5 DEF ClaimEra, ThreadType
  <2>2. /\ thread'[t].pc = "pick" /\ thread'[t].era = e
        /\ \A s \in Threads \ {t} : thread'[s] = thread[s]
    BY <1>1, <1>5 DEF ClaimEra, ThreadType
  <2>3. /\ era'[e].status = "sending"
        /\ \A d \in Eras \ {e} : era'[d] = era[d]
    BY <1>1, <1>5, <2>1 DEF ClaimEra
  <2>4. \A s \in Threads : ~Owns(s, e)
    BY <2>1 DEF OwnerInv
  <2>5. \A s \in Threads, d \in Eras :
          Owns(s, d)' <=> (IF s = t THEN d = e ELSE Owns(s, d))
    BY <2>2 DEF Owns
  <2>6. ~\E d \in Eras : Owns(t, d)
    BY <2>1 DEF Owns
  <2>7. QED
    BY <2>1, <2>3, <2>4, <2>5, <2>6 DEF OwnerInv, SendingHasOneOwner
<1>6. ASSUME NEW t \in Threads, MarkSendFinished(t)
      PROVE  OwnerInv'
  <2> DEFINE e == thread[t].era
  <2>1. thread[t].pc = "finish" /\ e \in Eras /\ up /\ up' = up
    BY <1>1, <1>2, <1>6 DEF MarkSendFinished, ThreadType
  <2>2. /\ thread'[t].pc = "idle"
        /\ \A s \in Threads \ {t} : thread'[s] = thread[s]
    BY <1>1, <1>6 DEF MarkSendFinished, Idle
  <2>3. /\ era'[e].status # "sending"
        /\ \A d \in Eras \ {e} : era'[d] = era[d]
    <3>1. FinalStatus(t) # "sending"
      BY DEF FinalStatus
    <3>2. era' = [era EXCEPT ![e].status = FinalStatus(t)]
      BY <1>6 DEF MarkSendFinished
    <3>3. era[e] \in EraType
      BY <1>1, <2>1
    <3>4. QED
      BY <1>1, <2>1, <3>1, <3>2, <3>3 DEF EraType
  <2>4. Owns(t, e)
    BY <2>1 DEF Owns
  <2>5. \A s \in Threads, d \in Eras : Owns(s, d)' <=> s # t /\ Owns(s, d)
    BY <2>2 DEF Owns
  <2>6. \A s \in Threads : Owns(s, e) => s = t
    BY <2>1, <2>4 DEF OwnerInv, SendingHasOneOwner
  <2>7. \A d \in Eras : Owns(t, d) => d = e
    BY DEF Owns
  <2>8. QED
    BY <2>1, <2>3, <2>4, <2>5, <2>6, <2>7 DEF OwnerInv, SendingHasOneOwner
<1>7. ASSUME NEW t \in Threads, IncSentCount(t) \/ Notify(t)
      PROVE  OwnerInv'
  <2>1. \A e \in Eras : era'[e].status = era[e].status
    <3>1. CASE IncSentCount(t)
      BY <1>1, <3>1 DEF IncSentCount, EraType
    <3>2. CASE Notify(t)
      BY <1>1, <3>2 DEF Notify, EraType
    <3>3. QED
      BY <1>7, <3>1, <3>2
  <2>2. /\ up /\ up' = up
        /\ \A s \in Threads \ {t} : thread'[s] = thread[s]
        /\ thread[t].pc \in OwnerSteps /\ thread'[t].pc \in OwnerSteps
        /\ thread'[t].era = thread[t].era
    BY <1>1, <1>2, <1>7 DEF IncSentCount, Notify, ThreadType
  <2>3. QED
    BY <1>4, <2>1, <2>2
<1>8. ASSUME NEW t \in Threads, ClaimRefused(t)
      PROVE  OwnerInv'
  BY <1>1, <1>2, <1>4, <1>8 DEF ClaimRefused, Idle, ThreadType
\* The other steps of a job move it from one of its steps to another.
<1>9. ASSUME NEW t \in Threads,
             \/ PickApplication(t) \/ ApplicationDone(t) \/ AllApplicationsDone(t)
             \/ AddBatchRow(t) \/ JobThrows(t) \/ JobEscapes(t) \/ MarkSent(t)
             \/ PutFindsNoRow(t) \/ PutSucceeds(t) \/ PutFails(t)
             \/ PutFailsAfterDelivery(t) \/ PutTimesOut(t)
      PROVE  OwnerInv'
  <2>1. era' = era /\ up' = up /\ thread[t].pc \in JobSteps
    BY <1>9 DEF PickApplication, ApplicationDone, AllApplicationsDone, AddBatchRow,
                JobThrows, JobEscapes, MarkSent, Put, PutFindsNoRow, PutSucceeds,
                PutFails, PutFailsAfterDelivery, PutTimesOut
  <2> DEFINE Stays == /\ \A s \in Threads \ {t} : thread'[s] = thread[s]
                      /\ thread'[t].pc \in OwnerSteps
                      /\ thread'[t].era = thread[t].era
  <2>2. Stays
    <3>1. ASSUME NEW pc \in OwnerSteps, thread' = [thread EXCEPT ![t].pc = pc]
          PROVE  Stays
      BY <1>1, <3>1 DEF ThreadType
    <3>2. CASE Throws(t)
      BY <1>1, <3>2 DEF Throws, ThreadType
    <3>3. CASE PickApplication(t)
      <4>1. PICK a \in thread[t].apps :
              thread' = [thread EXCEPT ![t].pc = "send", ![t].apps = @ \ {a},
                                       ![t].queue = UnsentRowsOf(a)]
        BY <3>3 DEF PickApplication
      <4>2. QED
        BY <1>1, <4>1 DEF ThreadType
    <3>4. CASE AddBatchRow(t)
      <4>1. PICK q \in thread[t].queue :
              \/ thread' = [thread EXCEPT ![t].pc = "put", ![t].queue = @ \ {q},
                                ![t].payment = q[1], ![t].version = Len(rows[q[1]])]
              \/ Throws(t)
        BY <3>4 DEF AddBatchRow
      <4>2. QED
        BY <1>1, <3>2, <4>1 DEF ThreadType
    <3>5. CASE MarkSent(t)
      BY <3>1, <3>2, <3>5 DEF MarkSent
    <3>6. CASE ApplicationDone(t) \/ AllApplicationsDone(t) \/ JobEscapes(t)
      BY <3>1, <3>6 DEF ApplicationDone, AllApplicationsDone, JobEscapes
    <3>7. CASE PutFindsNoRow(t) \/ PutSucceeds(t) \/ PutFails(t)
               \/ PutFailsAfterDelivery(t) \/ PutTimesOut(t)
      BY <3>1, <3>7 DEF PutFindsNoRow, PutSucceeds, PutFails, PutFailsAfterDelivery,
                        PutTimesOut
    <3>8. CASE JobThrows(t)
      BY <3>2, <3>8 DEF JobThrows
    <3>9. QED
      BY <1>9, <3>3, <3>4, <3>5, <3>6, <3>7, <3>8
  <2>3. QED
    BY <1>2, <1>4, <2>1, <2>2
<1>10. ASSUME NEW t \in Threads, OfficialStep(t)
       PROVE  OwnerInv'
  <2>1. era' = era /\ up' = up /\ thread[t].pc \notin OwnerSteps
    BY <1>10 DEF OfficialStep, CountPayments, CheckDeletable, DeletePayment,
                 StartSettingPaid, PayPickApplication, SetPaid
  <2>2. up
    BY <1>2, <1>10 DEF OfficialStep, CountPayments, CheckDeletable, DeletePayment,
                       StartSettingPaid, PayPickApplication, SetPaid
  <2> DEFINE Stays == /\ \A s \in Threads \ {t} : thread'[s] = thread[s]
                      /\ thread'[t].pc \notin OwnerSteps
  <2>3. Stays
    <3>1. CASE thread' = [thread EXCEPT ![t] = Idle]
      BY <1>1, <3>1 DEF Idle
    <3>2. ASSUME NEW e \in Eras, CountPayments(t, e)
          PROVE  Stays
      BY <1>1, <3>2 DEF CountPayments, Idle
    <3>3. ASSUME NEW p \in Payments, CheckDeletable(t, p)
          PROVE  Stays
      BY <1>1, <3>3 DEF CheckDeletable, ThreadType
    <3>4. CASE StartSettingPaid(t)
      BY <1>1, <3>4 DEF StartSettingPaid, ThreadType
    <3>5. CASE PayPickApplication(t)
      <4>1. ASSUME NEW a \in thread[t].apps,
                   thread' = [thread EXCEPT ![t].pc = "pay", ![t].apps = @ \ {a},
                                            ![t].queue = UnsentRowsOf(a)]
            PROVE  Stays
        BY <1>1, <4>1 DEF ThreadType
      <4>2. QED
        BY <3>1, <3>5, <4>1 DEF PayPickApplication
    <3>6. CASE SetPaid(t)
      <4>1. CASE thread' = [thread EXCEPT ![t].pc = "payPick"]
        BY <1>1, <4>1 DEF ThreadType
      <4>2. ASSUME NEW r \in thread[t].queue,
                   thread' = [thread EXCEPT ![t].queue = @ \ {r}]
            PROVE  Stays
        BY <1>1, <2>1, <4>2 DEF ThreadType
      <4>3. QED
        BY <3>1, <3>6, <4>1, <4>2 DEF SetPaid
    <3>7. QED
      BY <1>10, <3>1, <3>2, <3>3, <3>4, <3>5, <3>6 DEF OfficialStep, DeletePayment
  <2>4. QED
    BY <1>4, <2>1, <2>2, <2>3
<1>11. CASE Crash
  BY <1>1, <1>11 DEF Crash, Idle, OwnerInv, SendingHasOneOwner, Owns
<1>12. CASE Restart
  <2>1. /\ up' = TRUE /\ thread' = thread
        /\ \A t \in Threads : thread[t].pc = "idle"
    BY <1>12 DEF Restart, OwnerInv
  <2>2. \A e \in Eras : era'[e].status # "sending"
    BY <1>1, <1>12 DEF Restart, EraType
  <2>3. \A t \in Threads, e \in Eras : ~Owns(t, e)'
    BY <2>1 DEF Owns
  <2>4. QED
    BY <2>1, <2>2, <2>3 DEF OwnerInv, SendingHasOneOwner
<1>13. CASE Environment
  BY <1>3, <1>11, <1>12, <1>13
     DEF Environment, LateArrival, LateLoss, CreatePayment, ChangePayable,
         DeleteGrantPayments
<1>14. CASE UNCHANGED vars
  BY <1>3, <1>14 DEF vars
<1>15. QED
  BY <1>5, <1>6, <1>7, <1>8, <1>9, <1>10, <1>13, <1>14 DEF Next, JobStep

\* An era is 'sending' exactly while one job works on it: two requests never
\* start two jobs for one maksuera, however many requests, jobs and crashes
\* there are (start-send-job!, fail-stale-sending-batches!).
THEOREM OneOwner == Spec => []SendingHasOneOwner
<1>1. OwnerInv => SendingHasOneOwner
  BY DEF OwnerInv
<1>2. QED
  BY <1>1, OwnerInit, OwnerStep, TypeInvariant, PTL DEF Spec

-----------------------------------------------------------------------------
(* What the threads hold of the rows.                                      *)

\* A row that was unsent when it was made, and what it is made from.
UnsentAt(p, v) == v < Len(rows[p]) /\ At(rows[p], v).status \in Unsent

\* What the job and the officials hold are unsent rows: a status never changes,
\* whatever becomes of the row; only what has a row can be on its way to Rondo.
UnsentInv ==
    /\ \A t \in Threads : \A r \in thread[t].queue : UnsentAt(r[1], r[2])
    /\ \A t \in Threads : thread[t].pc \in {"put", "mark"} =>
         UnsentAt(thread[t].payment, thread[t].version)
    /\ \A p \in Payments : late[p] > 0 => rows[p] # <<>>

\* Nobody holds anything at first.
LEMMA UnsentInit == Init => UnsentInv
BY DEF Init, Idle, UnsentInv

\* A row that was unsent stays one that was.
LEMMA UnsentAtStays ==
    ASSUME NEW p \in Payments, NEW v \in Nat, UnsentAt(p, v),
           rows[p] \in Seq(Row), rows'[p] \in Seq(Row), Continues(rows'[p], rows[p])
    PROVE  UnsentAt(p, v)'
<1>1. v < Len(rows[p]) /\ rows[p][v + 1].status \in Unsent
  BY DEF UnsentAt, At
<1>2. Len(rows[p]) \in Nat /\ Len(rows'[p]) \in Nat /\ Len(rows'[p]) >= Len(rows[p])
  BY DEF Continues
<1>3. v + 1 \in 1..Len(rows[p]) /\ v < Len(rows'[p])
  BY <1>1, <1>2
<1>4. rows'[p][v + 1].status \in Unsent
  BY <1>1, <1>3 DEF Continues
<1> QED BY <1>3, <1>4 DEF UnsentAt, At

\* What a query for unsent maksatukset returns.
LEMMA QueriedAreUnsent ==
    ASSUME TypeOK, NEW a \in Applications, NEW r \in UnsentRowsOf(a)
    PROVE  r[1] \in Payments /\ r[2] \in Nat /\ UnsentAt(r[1], r[2])
<1>1. PICK p \in Payments : r \in {p} \X UnsentVersions(rows[p])
  BY DEF UnsentRowsOf
<1>2. PICK v \in UnsentVersions(rows[p]) : r[1] = p /\ r[2] = v
  BY <1>1
<1>3. v \in Nat /\ v < Len(rows[p])
  BY UnsentAreRows DEF TypeOK
<1>4. At(rows[p], v).status \in Unsent
  BY DEF UnsentVersions
<1> QED BY <1>2, <1>3, <1>4 DEF UnsentAt

\* A job at its put or between the put and the row that says 'sent'.
AtPut(t) == thread[t].pc \in {"put", "mark"}

StaysAtPut(t) ==
    /\ AtPut(t)
    /\ thread'[t].payment = thread[t].payment /\ thread'[t].version = thread[t].version

ComesWithRow(t) ==
    \E r \in thread[t].queue :
      /\ thread'[t].payment = r[1] /\ thread'[t].version = Len(rows[r[1]])
      /\ rows' = [rows EXCEPT ![r[1]] = UpdatePayment(@, r[2], At(@, r[2]).status)]

\* A job comes to its put with a new row, made from one in its queue.
LEMMA ComesToPut ==
    ASSUME TypeInv, [Next]_vars, NEW t \in Threads, AtPut(t)'
    PROVE  StaysAtPut(t) \/ ComesWithRow(t)
<1> DEFINE Goal == StaysAtPut(t) \/ ComesWithRow(t)
<1>1. /\ thread \in [Threads -> ThreadType] /\ thread[t] \in ThreadType
      /\ thread'[t].pc \in {"put", "mark"}
  BY DEF TypeInv, TypeOK, AtPut
<1>2. CASE thread'[t] = thread[t]
  BY <1>1, <1>2 DEF StaysAtPut, AtPut
<1>3. ASSUME NEW s \in Threads, thread' = [thread EXCEPT ![s] = Idle]
      PROVE  Goal
  BY <1>1, <1>2, <1>3 DEF Idle
<1>4. ASSUME NEW s \in Threads, NEW pc \in Steps \ {"put", "mark"},
             thread' = [thread EXCEPT ![s].pc = pc]
      PROVE  Goal
  <2>1. t # s
    BY <1>1, <1>4 DEF ThreadType
  <2> QED BY <1>1, <1>2, <1>4, <2>1
<1>5. ASSUME NEW s \in Threads, Throws(s)
      PROVE  Goal
  <2>1. t # s
    BY <1>1, <1>5 DEF Throws, ThreadType
  <2> QED BY <1>1, <1>2, <1>5, <2>1 DEF Throws
<1>6. ASSUME NEW s \in Threads, NEW r, r.pc \notin {"put", "mark"},
             thread' = [thread EXCEPT ![s] = r]
      PROVE  Goal
  BY <1>1, <1>2, <1>6
<1>7. ASSUME NEW s \in Threads, NEW a, NEW pc \in {"send", "pay"},
             thread' = [thread EXCEPT ![s].pc = pc, ![s].apps = @ \ {a},
                                      ![s].queue = UnsentRowsOf(a)]
      PROVE  Goal
  <2>1. t # s
    BY <1>1, <1>7 DEF ThreadType
  <2> QED BY <1>1, <1>2, <1>7, <2>1
<1>8. ASSUME NEW s \in Threads, JobStep(s)
      PROVE  Goal
  <2>1. CASE ClaimEra(s)
    <3>1. t # s
      BY <1>1, <2>1 DEF ClaimEra, ThreadType
    <3> QED BY <1>1, <1>2, <2>1, <3>1 DEF ClaimEra
  <2>2. CASE ClaimRefused(s) \/ MarkSendFinished(s)
    BY <1>3, <2>2 DEF ClaimRefused, MarkSendFinished
  <2>3. CASE PickApplication(s)
    BY <1>7, <2>3 DEF PickApplication
  <2>4. CASE JobThrows(s)
    BY <1>5, <2>4 DEF JobThrows
  <2>5. CASE MarkSent(s)
    BY <1>4, <1>5, <2>5 DEF MarkSent, Steps, JobSteps
  <2>6. CASE ApplicationDone(s) \/ AllApplicationsDone(s) \/ IncSentCount(s)
             \/ Notify(s) \/ JobEscapes(s)
    BY <1>4, <2>6 DEF ApplicationDone, AllApplicationsDone, IncSentCount, Notify,
                      JobEscapes, Steps, JobSteps
  <2>7. CASE PutFindsNoRow(s) \/ PutFails(s) \/ PutFailsAfterDelivery(s)
             \/ PutTimesOut(s)
    BY <1>4, <2>7 DEF PutFindsNoRow, PutFails, PutFailsAfterDelivery, PutTimesOut,
                      Steps, JobSteps
  <2>8. CASE PutSucceeds(s)
    <3>1. CASE t = s
      BY <1>1, <2>8, <3>1 DEF PutSucceeds, Put, ThreadType, StaysAtPut, AtPut
    <3>2. CASE t # s
      BY <1>1, <1>2, <2>8, <3>2 DEF PutSucceeds
    <3> QED BY <3>1, <3>2
  <2>9. CASE AddBatchRow(s)
    <3>1. PICK r \in thread[s].queue :
            \/ /\ rows' = [rows EXCEPT ![r[1]] = UpdatePayment(@, r[2], At(@, r[2]).status)]
               /\ thread' = [thread EXCEPT ![s].pc = "put", ![s].queue = @ \ {r},
                               ![s].payment = r[1], ![s].version = Len(rows[r[1]])]
            \/ Throws(s)
      BY <2>9 DEF AddBatchRow
    <3>2. CASE t # s
      BY <1>1, <1>2, <1>5, <3>1, <3>2
    <3>3. CASE t = s
      <4>1. Throws(s) \/ (/\ thread'[t].payment = r[1]
                          /\ thread'[t].version = Len(rows[r[1]]))
        BY <1>1, <3>1, <3>3 DEF ThreadType
      <4> QED BY <1>5, <3>1, <3>3, <4>1 DEF ComesWithRow
    <3> QED BY <3>2, <3>3
  <2> QED BY <1>8, <2>1, <2>2, <2>3, <2>4, <2>5, <2>6, <2>7, <2>8, <2>9 DEF JobStep
<1>9. ASSUME NEW s \in Threads, OfficialStep(s)
      PROVE  Goal
  <2>1. ASSUME NEW e \in Eras, CountPayments(s, e)
        PROVE  Goal
    BY <1>6, <2>1 DEF CountPayments, Idle
  <2>2. ASSUME NEW p \in Payments, CheckDeletable(s, p)
        PROVE  Goal
    <3>1. t # s
      BY <1>1, <2>2 DEF CheckDeletable, ThreadType
    <3> QED BY <1>1, <1>2, <2>2, <3>1 DEF CheckDeletable
  <2>3. CASE StartSettingPaid(s)
    <3>1. t # s
      BY <1>1, <2>3 DEF StartSettingPaid, ThreadType
    <3> QED BY <1>1, <1>2, <2>3, <3>1 DEF StartSettingPaid
  <2>4. CASE PayPickApplication(s)
    BY <1>3, <1>7, <2>4 DEF PayPickApplication
  <2>5. CASE SetPaid(s)
    <3>1. ASSUME NEW r \in thread[s].queue,
                 thread' = [thread EXCEPT ![s].queue = @ \ {r}]
          PROVE  Goal
      <4>1. t # s
        BY <1>1, <2>5, <3>1 DEF SetPaid, ThreadType
      <4> QED BY <1>1, <1>2, <3>1, <4>1
    <3> QED BY <1>3, <1>4, <2>5, <3>1 DEF SetPaid, Steps
  <2>6. CASE DeletePayment(s)
    BY <1>3, <2>6 DEF DeletePayment
  <2> QED BY <1>9, <2>1, <2>2, <2>3, <2>4, <2>5, <2>6 DEF OfficialStep
<1>10. CASE Environment
  <2>1. CASE Crash
    BY <1>1, <2>1 DEF Crash, Idle
  <2> QED BY <1>2, <1>10, <2>1 DEF Environment, LateArrival, LateLoss, CreatePayment,
                                   ChangePayable, DeleteGrantPayments, Restart
<1> QED BY <1>2, <1>8, <1>9, <1>10 DEF Next, vars

\* What is on its way to Rondo after a step was on its way, or has just timed out.
LEMMA ComesToBeLate ==
    ASSUME TypeInv, [Next]_vars, NEW p \in Payments, late'[p] > 0
    PROVE  \/ late[p] > 0
           \/ \E t \in Threads : thread[t].pc = "put" /\ thread[t].payment = p
<1>1. late \in [Payments -> Nat]
  BY DEF TypeInv, TypeOK
<1>2. ASSUME NEW t \in Threads, JobStep(t), late' # late
      PROVE  PutTimesOut(t)
  BY <1>2 DEF JobStep, ClaimEra, ClaimRefused, PickApplication, ApplicationDone,
              AllApplicationsDone, AddBatchRow, PutFindsNoRow, PutSucceeds, PutFails,
              PutFailsAfterDelivery, MarkSent, IncSentCount, Notify, JobThrows,
              MarkSendFinished, JobEscapes
<1>3. ASSUME NEW t \in Threads, PutTimesOut(t)
      PROVE  late[p] > 0 \/ (thread[t].pc = "put" /\ thread[t].payment = p)
  <2>1. thread[t].pc = "put" /\ late' = [late EXCEPT ![thread[t].payment] = @ + 1]
    BY <1>3 DEF PutTimesOut, Put
  <2> QED BY <1>1, <2>1
<1>4. ASSUME NEW t \in Threads, OfficialStep(t)
      PROVE  late' = late
  BY <1>4 DEF OfficialStep, CountPayments, CheckDeletable, DeletePayment,
              StartSettingPaid, PayPickApplication, SetPaid
<1>5. CASE Environment
  <2>1. ASSUME NEW q \in Payments, LateArrival(q) \/ LateLoss(q)
        PROVE  late[p] > 0
    <3>1. late[q] > 0 /\ late' = [late EXCEPT ![q] = @ - 1]
      BY <2>1 DEF LateArrival, LateLoss
    <3> QED BY <1>1, <3>1
  <2>2. CASE Crash
    BY <2>2 DEF Crash
  <2>3. CASE late' = late
    BY <2>3
  <2> QED BY <1>5, <2>1, <2>2, <2>3 DEF Environment, CreatePayment, ChangePayable,
                                        DeleteGrantPayments, Restart
<1> QED BY <1>2, <1>3, <1>4, <1>5 DEF Next, vars

LEMMA UnsentStep ==
    ASSUME TypeInv, TypeInv', UnsentInv, [Next]_vars
    PROVE  UnsentInv'
<1>1. /\ rows \in [Payments -> Seq(Row)] /\ rows' \in [Payments -> Seq(Row)]
      /\ \A p \in Payments : Continues(rows'[p], rows[p])
  BY RowsContinue DEF TypeInv, TypeOK
<1>2. \A p \in Payments, v \in Nat : UnsentAt(p, v) => UnsentAt(p, v)'
  BY <1>1, UnsentAtStays
<1>3. ASSUME NEW t \in Threads, NEW r \in thread'[t].queue
      PROVE  UnsentAt(r[1], r[2])'
  <2>1. \A q \in thread[t].queue : q[1] \in Payments /\ q[2] \in Nat /\ UnsentAt(q[1], q[2])
    BY ThreadFields DEF TypeInv, RowId, UnsentInv
  <2>2. r \in thread[t].queue \/ \E a \in Applications : r \in UnsentRowsOf(a)
    BY <1>3, ThreadsStayTyped DEF ThreadStaysTyped
  <2>3. r[1] \in Payments /\ r[2] \in Nat /\ UnsentAt(r[1], r[2])
    BY <2>1, <2>2, QueriedAreUnsent DEF TypeInv
  <2> QED BY <1>2, <2>3
<1>4. ASSUME NEW t \in Threads, AtPut(t)'
      PROVE  UnsentAt(thread[t].payment, thread[t].version)'
  <2>1. PICK p \in Payments, v \in Nat : p = thread'[t].payment /\ v = thread'[t].version
    BY DEF TypeInv, TypeOK, ThreadType
  <2>2. CASE StaysAtPut(t)
    <3>1. UnsentAt(p, v)
      BY <2>1, <2>2 DEF StaysAtPut, AtPut, UnsentInv
    <3> QED BY <1>2, <2>1, <3>1
  <2>3. CASE ComesWithRow(t)
    <3>1. PICK r \in thread[t].queue :
            /\ p = r[1] /\ v = Len(rows[r[1]])
            /\ rows' = [rows EXCEPT ![r[1]] = UpdatePayment(@, r[2], At(@, r[2]).status)]
      BY <2>1, <2>3 DEF ComesWithRow
    <3>2. r[2] \in Nat /\ UnsentAt(p, r[2])
      BY <3>1, ThreadFields DEF TypeInv, RowId, UnsentInv
    <3>3. PICK status \in Unsent : status = At(rows[p], r[2]).status
      BY <3>2 DEF UnsentAt
    <3>4. rows'[p] = UpdatePayment(rows[p], r[2], status) /\ status \in Statuses
      BY <1>1, <3>1, <3>3 DEF Unsent, Statuses
    <3>5. Len(rows'[p]) = Len(rows[p]) + 1 /\ rows'[p][Len(rows[p]) + 1].status = status
      BY <1>1, <3>2, <3>4, UpdateContinues
    <3>6. Len(rows[p]) \in Nat
      BY <1>1
    <3>7. UnsentAt(p, v)'
      BY <3>1, <3>3, <3>5, <3>6 DEF UnsentAt, At
    <3> QED BY <2>1, <3>7
  <2> QED BY <1>4, <2>2, <2>3, ComesToPut
<1>5. ASSUME NEW p \in Payments, late'[p] > 0
      PROVE  rows'[p] # <<>>
  <2>1. rows[p] # <<>>
    <3>1. ASSUME NEW t \in Threads, thread[t].pc = "put", thread[t].payment = p
          PROVE  rows[p] # <<>>
      <4>1. thread[t].version \in Nat /\ thread[t].version < Len(rows[p])
        BY <3>1, ThreadFields DEF UnsentInv, UnsentAt, TypeInv
      <4>2. rows[p] = <<>> => Len(rows[p]) = 0
        OBVIOUS
      <4> QED BY <4>1, <4>2
    <3> QED BY <1>5, <3>1, ComesToBeLate DEF UnsentInv
  <2>2. Len(rows[p]) > 0 /\ Len(rows'[p]) >= Len(rows[p]) /\ Len(rows'[p]) \in Nat
    BY <1>1, <2>1 DEF Continues
  <2>3. rows'[p] = <<>> => Len(rows'[p]) = 0
    OBVIOUS
  <2> QED BY <2>2, <2>3
<1> QED BY <1>3, <1>4, <1>5 DEF UnsentInv, AtPut

LEMMA UnsentInvariant == Spec => []UnsentInv
BY UnsentInit, UnsentStep, TypeInvariant, PTL DEF Spec

-----------------------------------------------------------------------------
(* What Rondo holds.                                                       *)

\* Some row says 'sent' that is not the one the maksatus was made with.
SaysSent(h) == \E i \in 2..Len(h) : h[i].status = "sent"

\* A job that is about to write 'sent' has seen its put succeed.
DeliveryInv ==
    /\ \A p \in Payments : SaysSent(rows[p]) => rondo[p] > 0
    /\ \A t \in Threads : thread[t].pc = "mark" => rondo[thread[t].payment] > 0

\* update-payment makes a history say 'sent' only if it was asked to.
LEMMA UpdateSaysSent ==
    ASSUME NEW h \in Seq(Row), NEW v \in Nat, NEW status \in Statuses,
           SaysSent(UpdatePayment(h, v, status))
    PROVE  SaysSent(h) \/ status = "sent"
<1> DEFINE g == UpdatePayment(h, v, status)
<1>1. PICK i \in 2..Len(g) : g[i].status = "sent"
  BY DEF SaysSent
<1>2. /\ Len(g) = Len(h) + 1 /\ g[Len(h) + 1].status = status
      /\ \A j \in 1..Len(h) : g[j].status = h[j].status
  BY UpdateContinues DEF Continues
<1>3. i \in 2..Len(h) \/ i = Len(h) + 1
  BY <1>2
<1>4. QED
  BY <1>1, <1>2, <1>3 DEF SaysSent

\* Deleting rows does not make a history say 'sent'.
LEMMA DeleteSaysSent ==
    ASSUME NEW h \in Seq(Row), NEW S, SaysSent(DeleteRows(h, S))
    PROVE  SaysSent(h)
BY DeleteContinues DEF SaysSent, Continues

\* Rondo never gives a file back.
LEMMA RondoGrows ==
    ASSUME TypeInv, [Next]_vars, NEW p \in Payments
    PROVE  rondo'[p] >= rondo[p]
<1>1. rondo \in [Payments -> Nat]
  BY DEF TypeInv, TypeOK
<1>2. CASE UNCHANGED rondo
  BY <1>1, <1>2
<1>3. ASSUME NEW t \in Threads, JobStep(t), rondo' # rondo
      PROVE  rondo'[p] >= rondo[p]
  <2>1. PutSucceeds(t) \/ PutFailsAfterDelivery(t)
    BY <1>3 DEF JobStep, ClaimEra, ClaimRefused, PickApplication, ApplicationDone,
                AllApplicationsDone, AddBatchRow, PutFindsNoRow, PutFails,
                PutTimesOut, MarkSent, IncSentCount, Notify, JobThrows,
                MarkSendFinished, JobEscapes
  <2>2. rondo' = [rondo EXCEPT ![thread[t].payment] = @ + 1]
    BY <2>1 DEF PutSucceeds, PutFailsAfterDelivery
  <2>3. QED
    BY <1>1, <2>2
<1>4. ASSUME NEW t \in Threads, OfficialStep(t)
      PROVE  UNCHANGED rondo
  BY <1>4 DEF OfficialStep, CountPayments, CheckDeletable, DeletePayment,
              StartSettingPaid, PayPickApplication, SetPaid
<1>5. CASE Crash
  <2>1. PICK S \in SUBSET Threads :
          rondo' = [q \in Payments |->
                      rondo[q] + Cardinality({t \in S : thread[t].payment = q})]
    BY <1>5 DEF Crash
  <2>2. Cardinality({t \in S : thread[t].payment = p}) \in Nat
    BY SetsAssumption, FS_Subset, FS_CardinalityType
  <2>3. rondo'[p] = rondo[p] + Cardinality({t \in S : thread[t].payment = p})
    BY <2>1
  <2>4. rondo[p] \in Nat
    BY <1>1
  <2>5. QED
    BY <2>2, <2>3, <2>4
<1>6. CASE Environment
  <2>1. ASSUME NEW q \in Payments, LateArrival(q)
        PROVE  rondo'[p] >= rondo[p]
    BY <1>1, <2>1 DEF LateArrival
  <2>2. QED
    BY <1>2, <1>5, <1>6, <2>1 DEF Environment, LateLoss, CreatePayment,
                                  ChangePayable, DeleteGrantPayments, Restart
<1>7. CASE UNCHANGED vars
  BY <1>2, <1>7 DEF vars
<1>8. QED
  BY <1>2, <1>3, <1>4, <1>6, <1>7 DEF Next

\* A step makes a history say 'sent' only where a job stood at "mark".
LEMMA NewlySent ==
    ASSUME TypeInv, UnsentInv, [Next]_vars, NEW p \in Payments, SaysSent(rows'[p])
    PROVE  \/ SaysSent(rows[p])
           \/ \E t \in Threads : thread[t].pc = "mark" /\ thread[t].payment = p
<1>1. rows \in [Payments -> Seq(Row)]
  BY DEF TypeInv, TypeOK
<1>2. ASSUME NEW t \in Threads, AddBatchRow(t), rows' # rows
      PROVE  SaysSent(rows[p])
  <2>1. PICK r \in thread[t].queue :
          rows' = [rows EXCEPT ![r[1]] = UpdatePayment(@, r[2], At(@, r[2]).status)]
    BY <1>2 DEF AddBatchRow
  <2>2. r[1] \in Payments /\ r[2] \in Nat /\ r[2] < Len(rows[r[1]])
    BY ThreadFields DEF TypeInv, QueueInv, RowId
  <2>3. CASE p # r[1]
    BY <1>1, <2>1, <2>2, <2>3
  <2>4. CASE p = r[1]
    <3>1. At(rows[p], r[2]).status \in Unsent
      BY <2>4 DEF UnsentInv, UnsentAt
    <3>2. At(rows[p], r[2]).status \in Statuses /\ At(rows[p], r[2]).status # "sent"
      BY <3>1 DEF Unsent, Statuses
    <3>3. rows'[p] = UpdatePayment(rows[p], r[2], At(rows[p], r[2]).status)
      BY <1>1, <2>1, <2>4
    <3>4. QED
      BY <1>1, <2>2, <3>2, <3>3, UpdateSaysSent
  <2>5. QED
    BY <2>3, <2>4
<1>3. ASSUME NEW t \in Threads, MarkSent(t), rows' # rows
      PROVE  SaysSent(rows[p]) \/ (thread[t].pc = "mark" /\ thread[t].payment = p)
  <2>1. /\ thread[t].pc = "mark"
        /\ rows' = [rows EXCEPT ![thread[t].payment] =
                       UpdatePayment(@, thread[t].version, "sent")]
    BY <1>3 DEF MarkSent
  <2>2. QED
    BY <1>1, <2>1
<1>4. ASSUME NEW t \in Threads, SetPaid(t), rows' # rows
      PROVE  SaysSent(rows[p])
  <2>1. PICK r \in thread[t].queue :
          rows' = [rows EXCEPT ![r[1]] = UpdatePayment(@, r[2], "paid")]
    BY <1>4 DEF SetPaid
  <2>2. r[1] \in Payments /\ r[2] \in Nat
    BY ThreadFields DEF TypeInv, RowId
  <2>3. "paid" \in Statuses /\ "paid" # "sent"
    BY DEF Statuses
  <2>4. QED
    BY <1>1, <2>1, <2>2, <2>3, UpdateSaysSent
<1>5. ASSUME NEW q \in Payments, CreatePayment(q)
      PROVE  SaysSent(rows[p])
  <2>1. PICK status \in Statuses :
          rows[q] = <<>> /\ rows' = [rows EXCEPT ![q] = <<NewRow(status)>>]
    BY <1>5 DEF CreatePayment
  <2>2. ~SaysSent(<<NewRow(status)>>)
    BY DEF SaysSent
  <2>3. QED
    BY <1>1, <2>1, <2>2
<1>6. CASE DeleteGrantPayments
  BY <1>1, <1>6, DeleteSaysSent DEF DeleteGrantPayments
<1>7. ASSUME NEW t \in Threads, DeletePayment(t)
      PROVE  SaysSent(rows[p])
  BY <1>1, <1>7, ThreadFields, DeleteSaysSent DEF DeletePayment, TypeInv
<1>8. CASE Environment
  BY <1>5, <1>6, <1>8
     DEF Environment, LateArrival, LateLoss, ChangePayable, Crash, Restart
<1>9. ASSUME NEW t \in Threads, JobStep(t), rows' # rows
      PROVE  AddBatchRow(t) \/ MarkSent(t)
  BY <1>9
     DEF JobStep, ClaimEra, ClaimRefused, PickApplication, ApplicationDone,
         AllApplicationsDone, PutFindsNoRow, Put, PutSucceeds, PutFails,
         PutFailsAfterDelivery, PutTimesOut, IncSentCount, Notify, JobThrows,
         MarkSendFinished, JobEscapes
<1>10. ASSUME NEW t \in Threads, OfficialStep(t), rows' # rows
       PROVE  SetPaid(t) \/ DeletePayment(t)
  BY <1>10 DEF OfficialStep, CountPayments, CheckDeletable, StartSettingPaid,
               PayPickApplication
<1>11. CASE UNCHANGED vars
  BY <1>11 DEF vars
<1>12. QED
  BY <1>2, <1>3, <1>4, <1>7, <1>8, <1>9, <1>10, <1>11 DEF Next

\* A thread comes to "mark" by a put that succeeded, and by nothing else.
LEMMA ComesToMark ==
    ASSUME TypeInv, [Next]_vars, NEW t \in Threads, thread'[t].pc = "mark"
    PROVE  /\ thread'[t].payment = thread[t].payment
           /\ thread[t].pc = "mark" \/ PutSucceeds(t)
<1> DEFINE Goal == /\ thread'[t].payment = thread[t].payment
                   /\ thread[t].pc = "mark" \/ PutSucceeds(t)
<1>1. thread \in [Threads -> ThreadType] /\ thread[t] \in ThreadType
  BY DEF TypeInv, TypeOK
<1>2. CASE thread'[t] = thread[t]
  BY <1>2
<1>3. ASSUME NEW s \in Threads, thread' = [thread EXCEPT ![s] = Idle]
      PROVE  Goal
  BY <1>1, <1>3 DEF Idle
<1>4. ASSUME NEW s \in Threads, NEW pc \in Steps \ {"mark"},
             thread' = [thread EXCEPT ![s].pc = pc]
      PROVE  Goal
  BY <1>1, <1>4 DEF ThreadType
<1>5. ASSUME NEW s \in Threads, Throws(s)
      PROVE  Goal
  BY <1>1, <1>5 DEF Throws, ThreadType
<1>6. ASSUME NEW s \in Threads, NEW a, NEW pc \in {"send", "pay"},
             thread' = [thread EXCEPT ![s].pc = pc, ![s].apps = @ \ {a},
                                      ![s].queue = UnsentRowsOf(a)]
      PROVE  Goal
  BY <1>1, <1>6 DEF ThreadType
<1>7. ASSUME NEW s \in Threads, JobStep(s)
      PROVE  Goal
  <2>1. CASE ClaimEra(s)
    BY <1>1, <2>1 DEF ClaimEra, ThreadType
  <2>2. CASE ClaimRefused(s) \/ MarkSendFinished(s)
    BY <1>3, <2>2 DEF ClaimRefused, MarkSendFinished
  <2>3. CASE PickApplication(s)
    BY <1>6, <2>3 DEF PickApplication
  <2>4. CASE JobThrows(s)
    BY <1>5, <2>4 DEF JobThrows
  <2>5. CASE MarkSent(s)
    BY <1>4, <1>5, <2>5 DEF MarkSent, Steps, JobSteps
  <2>6. CASE ApplicationDone(s) \/ AllApplicationsDone(s) \/ IncSentCount(s)
             \/ Notify(s) \/ JobEscapes(s)
    BY <1>4, <2>6 DEF ApplicationDone, AllApplicationsDone, IncSentCount, Notify,
                      JobEscapes, Steps, JobSteps
  <2>7. CASE PutFindsNoRow(s) \/ PutFails(s) \/ PutFailsAfterDelivery(s)
             \/ PutTimesOut(s)
    BY <1>4, <2>7 DEF PutFindsNoRow, PutFails, PutFailsAfterDelivery, PutTimesOut,
                      Steps, JobSteps
  <2>8. CASE PutSucceeds(s)
    BY <1>1, <2>8 DEF PutSucceeds, ThreadType
  <2>9. CASE AddBatchRow(s)
    <3>1. PICK q \in thread[s].queue :
            \/ thread' = [thread EXCEPT ![s].pc = "put", ![s].queue = @ \ {q},
                              ![s].payment = q[1], ![s].version = Len(rows[q[1]])]
            \/ Throws(s)
      BY <2>9 DEF AddBatchRow
    <3>2. QED
      BY <1>1, <1>5, <3>1 DEF ThreadType
  <2>10. QED
    BY <1>7, <2>1, <2>2, <2>3, <2>4, <2>5, <2>6, <2>7, <2>8, <2>9 DEF JobStep
<1>8. ASSUME NEW s \in Threads, OfficialStep(s)
      PROVE  Goal
  <2>1. ASSUME NEW e \in Eras, CountPayments(s, e)
        PROVE  Goal
    BY <1>1, <2>1 DEF CountPayments, Idle
  <2>2. ASSUME NEW p \in Payments, CheckDeletable(s, p)
        PROVE  Goal
    BY <1>1, <2>2 DEF CheckDeletable, ThreadType
  <2>3. CASE StartSettingPaid(s)
    BY <1>1, <2>3 DEF StartSettingPaid, ThreadType
  <2>4. CASE PayPickApplication(s)
    BY <1>3, <1>6, <2>4 DEF PayPickApplication
  <2>5. CASE SetPaid(s)
    <3>1. ASSUME NEW r \in thread[s].queue,
                 thread' = [thread EXCEPT ![s].queue = @ \ {r}]
          PROVE  Goal
      BY <1>1, <3>1 DEF ThreadType
    <3>2. QED
      BY <1>3, <1>4, <2>5, <3>1 DEF SetPaid, Steps
  <2>6. CASE DeletePayment(s)
    BY <1>3, <2>6 DEF DeletePayment
  <2>7. QED
    BY <1>8, <2>1, <2>2, <2>3, <2>4, <2>5, <2>6 DEF OfficialStep
<1>9. CASE Environment
  <2>1. CASE Crash
    BY <2>1 DEF Crash, Idle
  <2>2. QED
    BY <1>2, <1>9, <2>1 DEF Environment, LateArrival, LateLoss, CreatePayment,
                            ChangePayable, DeleteGrantPayments, Restart
<1>10. CASE UNCHANGED vars
  BY <1>2, <1>10 DEF vars
<1>11. QED
  BY <1>7, <1>8, <1>9, <1>10 DEF Next

\* No row says it is sent at first.
LEMMA DeliveryInit == Init => DeliveryInv
<1> SUFFICES ASSUME Init PROVE DeliveryInv
  OBVIOUS
<1>1. ~SaysSent(<<>>) /\ ~SaysSent(<<NewRow("created")>>)
  BY DEF SaysSent
<1>2. QED
  BY <1>1 DEF Init, Idle, DeliveryInv

\* Every step that writes 'sent' comes after a put that succeeded.
LEMMA DeliveryStep ==
    TypeInv /\ TypeInv' /\ UnsentInv /\ DeliveryInv /\ [Next]_vars => DeliveryInv'
<1> SUFFICES ASSUME TypeInv, TypeInv', UnsentInv, DeliveryInv, [Next]_vars
             PROVE  DeliveryInv'
  OBVIOUS
<1>1. rondo \in [Payments -> Nat] /\ rondo' \in [Payments -> Nat]
  BY DEF TypeInv, TypeOK
<1>2. ASSUME NEW p \in Payments, rondo[p] > 0
      PROVE  rondo'[p] > 0
  BY <1>1, <1>2, RondoGrows
<1>3. ASSUME NEW p \in Payments, SaysSent(rows'[p])
      PROVE  rondo'[p] > 0
  BY <1>2, <1>3, NewlySent DEF DeliveryInv
<1>4. ASSUME NEW t \in Threads, thread'[t].pc = "mark"
      PROVE  rondo'[thread'[t].payment] > 0
  <2>1. thread[t].payment \in Payments /\ thread'[t].payment = thread[t].payment
    BY <1>4, ComesToMark, ThreadFields DEF TypeInv
  <2>2. CASE thread[t].pc = "mark"
    BY <1>2, <2>1, <2>2 DEF DeliveryInv
  <2>3. CASE PutSucceeds(t)
    BY <1>1, <2>1, <2>3 DEF PutSucceeds
  <2>4. QED
    BY <1>4, <2>2, <2>3, ComesToMark
<1>5. QED
  BY <1>3, <1>4 DEF DeliveryInv, SaysSent

\* No row was updated to 'sent' of a maksatus that Rondo has not received, for any
\* interleaving of requests, jobs, edits, timeouts and crashes (run-send-job!).
\* Of the row a maksatus was made with nothing is said: its status is whatever
\* POST /payments was given.
THEOREM SentMeansDelivered == Spec => []SentWasDelivered
<1>1. DeliveryInv => SentWasDelivered
  BY DEF DeliveryInv, SentWasDelivered, SaysSent
<1>2. QED
  BY <1>1, DeliveryInit, DeliveryStep, UnsentInvariant, TypeInvariant, PTL DEF Spec

-----------------------------------------------------------------------------
(* What a 'completed' era has done.                                        *)

NotifiedInv ==
    /\ CompletedMeansNotified
    /\ \A t \in Threads :
         thread[t].pc = "finish" /\ thread[t].failed = FALSE
           => "emails" \in era[thread[t].era].notified

\* A job comes to its last step unharmed only from the notifications.
LEMMA ComesToFinish ==
    ASSUME TypeInv, [Next]_vars, NEW t \in Threads,
           thread'[t].pc = "finish", thread'[t].failed = FALSE
    PROVE  /\ thread'[t].era = thread[t].era
           /\ \/ thread[t].pc = "finish" /\ thread[t].failed = FALSE
              \/ Notify(t)
<1> DEFINE Goal == /\ thread'[t].era = thread[t].era
                   /\ \/ thread[t].pc = "finish" /\ thread[t].failed = FALSE
                      \/ Notify(t)
<1>1. thread \in [Threads -> ThreadType] /\ thread[t] \in ThreadType
  BY DEF TypeInv, TypeOK
<1>2. CASE thread'[t] = thread[t]
  BY <1>2
<1>3. ASSUME NEW s \in Threads, thread' = [thread EXCEPT ![s] = Idle]
      PROVE  Goal
  BY <1>1, <1>3 DEF Idle
<1>4. ASSUME NEW s \in Threads, NEW pc \in Steps \ {"finish"},
             thread' = [thread EXCEPT ![s].pc = pc]
      PROVE  Goal
  BY <1>1, <1>4 DEF ThreadType
<1>5. ASSUME NEW s \in Threads, Throws(s)
      PROVE  Goal
  BY <1>1, <1>5 DEF Throws, ThreadType
<1>6. ASSUME NEW s \in Threads, NEW a, NEW pc \in {"send", "pay"},
             thread' = [thread EXCEPT ![s].pc = pc, ![s].apps = @ \ {a},
                                      ![s].queue = UnsentRowsOf(a)]
      PROVE  Goal
  BY <1>1, <1>6 DEF ThreadType
<1>7. ASSUME NEW s \in Threads, JobStep(s)
      PROVE  Goal
  <2>1. CASE ClaimEra(s)
    BY <1>1, <2>1 DEF ClaimEra, ThreadType
  <2>2. CASE ClaimRefused(s) \/ MarkSendFinished(s)
    BY <1>3, <2>2 DEF ClaimRefused, MarkSendFinished
  <2>3. CASE PickApplication(s)
    BY <1>6, <2>3 DEF PickApplication
  <2>4. CASE JobThrows(s)
    BY <1>5, <2>4 DEF JobThrows
  <2>5. CASE MarkSent(s)
    BY <1>4, <1>5, <2>5 DEF MarkSent, Steps, JobSteps
  <2>6. CASE ApplicationDone(s) \/ AllApplicationsDone(s) \/ IncSentCount(s)
             \/ JobEscapes(s) \/ PutSucceeds(s)
    BY <1>4, <2>6 DEF ApplicationDone, AllApplicationsDone, IncSentCount,
                      JobEscapes, PutSucceeds, Steps, JobSteps
  <2>7. CASE PutFindsNoRow(s) \/ PutFails(s) \/ PutFailsAfterDelivery(s)
             \/ PutTimesOut(s)
    BY <1>4, <2>7 DEF PutFindsNoRow, PutFails, PutFailsAfterDelivery, PutTimesOut,
                      Steps, JobSteps
  <2>8. CASE Notify(s)
    BY <1>1, <2>8 DEF Notify, ThreadType
  <2>9. CASE AddBatchRow(s)
    <3>1. PICK q \in thread[s].queue :
            \/ thread' = [thread EXCEPT ![s].pc = "put", ![s].queue = @ \ {q},
                              ![s].payment = q[1], ![s].version = Len(rows[q[1]])]
            \/ Throws(s)
      BY <2>9 DEF AddBatchRow
    <3>2. CASE t # s
      BY <1>1, <1>2, <1>5, <3>1, <3>2
    <3>3. CASE t = s
      <4>1. thread[t].pc # "finish" /\ ~Throws(t) => thread'[t].pc = "put"
        BY <1>1, <3>1, <3>3 DEF ThreadType
      <4>2. QED
        BY <1>5, <2>9, <3>3, <4>1 DEF AddBatchRow
    <3>4. QED
      BY <3>2, <3>3
  <2>10. QED
    BY <1>7, <2>1, <2>2, <2>3, <2>4, <2>5, <2>6, <2>7, <2>8, <2>9 DEF JobStep
<1>8. ASSUME NEW s \in Threads, OfficialStep(s)
      PROVE  Goal
  <2>1. ASSUME NEW e \in Eras, CountPayments(s, e)
        PROVE  Goal
    BY <1>1, <2>1 DEF CountPayments, Idle
  <2>2. ASSUME NEW p \in Payments, CheckDeletable(s, p)
        PROVE  Goal
    BY <1>1, <2>2 DEF CheckDeletable, ThreadType
  <2>3. CASE StartSettingPaid(s)
    BY <1>1, <2>3 DEF StartSettingPaid, ThreadType
  <2>4. CASE PayPickApplication(s)
    BY <1>3, <1>6, <2>4 DEF PayPickApplication
  <2>5. CASE SetPaid(s)
    <3>1. ASSUME NEW r \in thread[s].queue,
                 thread' = [thread EXCEPT ![s].queue = @ \ {r}]
          PROVE  Goal
      BY <1>1, <3>1 DEF ThreadType
    <3>2. QED
      BY <1>3, <1>4, <2>5, <3>1 DEF SetPaid, Steps
  <2>6. CASE DeletePayment(s)
    BY <1>3, <2>6 DEF DeletePayment
  <2>7. QED
    BY <1>8, <2>1, <2>2, <2>3, <2>4, <2>5, <2>6 DEF OfficialStep
<1>9. CASE Environment
  <2>1. CASE Crash
    BY <2>1 DEF Crash, Idle
  <2>2. QED
    BY <1>2, <1>9, <2>1 DEF Environment, LateArrival, LateLoss, CreatePayment,
                            ChangePayable, DeleteGrantPayments, Restart
<1>10. CASE UNCHANGED vars
  BY <1>2, <1>10 DEF vars
<1>11. QED
  BY <1>7, <1>8, <1>9, <1>10 DEF Next

\* No era is completed at first.
LEMMA NotifiedInit == Init => NotifiedInv
BY DEF Init, Idle, NotifiedInv, CompletedMeansNotified

\* A job that ends well has been through its notifications.
LEMMA NotifiedStep ==
    TypeInv /\ TypeInv' /\ OwnerInv /\ NotifiedInv /\ [Next]_vars => NotifiedInv'
<1> SUFFICES ASSUME TypeInv, TypeInv', OwnerInv, NotifiedInv, [Next]_vars
             PROVE  NotifiedInv'
  OBVIOUS
<1>1. /\ era \in [Eras -> EraType] /\ thread \in [Threads -> ThreadType]
      /\ \A t \in Threads : thread[t].era \in Eras /\ thread[t].failed \in BOOLEAN
  BY DEF TypeInv, TypeOK, ThreadType
\* The finished threads keep their notification, and the completed eras theirs.
<1>2. ASSUME \A e \in Eras : era'[e].status = "completed" => "emails" \in era'[e].notified,
             \A t \in Threads :
               thread[t].pc = "finish" /\ "emails" \in era[thread[t].era].notified
               /\ thread'[t].pc = "finish" => "emails" \in era'[thread[t].era].notified,
             \A t \in Threads : Notify(t) => "emails" \in era'[thread[t].era].notified
      PROVE  NotifiedInv'
  BY <1>2, ComesToFinish DEF NotifiedInv, CompletedMeansNotified
<1>3. CASE UNCHANGED era
  <2>1. ASSUME NEW t \in Threads, Notify(t)
        PROVE  "emails" \in era'[thread[t].era].notified
    BY <1>1, <2>1 DEF Notify, EraType
  <2>2. QED
    BY <1>2, <1>3, <2>1 DEF NotifiedInv, CompletedMeansNotified
<1>4. ASSUME NEW s \in Threads, ClaimEra(s)
      PROVE  NotifiedInv'
  <2>1. /\ era[thread[s].era].status # "sending"
        /\ era'[thread[s].era].status = "sending"
        /\ \A e \in Eras \ {thread[s].era} : era'[e] = era[e]
    BY <1>1, <1>4 DEF ClaimEra
  <2>2. \A t \in Threads : thread[t].pc = "finish" => thread[t].era # thread[s].era
    BY <1>1, <2>1 DEF OwnerInv, Owns, JobSteps
  <2>3. \A t \in Threads : ~Notify(t)
    <3>1. ASSUME NEW t \in Threads, Notify(t)
          PROVE  FALSE
      <4>1. thread[t].pc = "notify" /\ thread'[t].pc = "finish"
        BY <1>1, <3>1 DEF Notify, ThreadType
      <4>2. thread[s].pc = "counted" /\ thread' = [thread EXCEPT ![s].pc = "pick",
                                                              ![s].apps = payable]
        BY <1>4 DEF ClaimEra
      <4>3. QED
        BY <1>1, <4>1, <4>2
    <3>2. QED
      BY <3>1
  <2>4. QED
    BY <1>1, <1>2, <2>1, <2>2, <2>3 DEF NotifiedInv, CompletedMeansNotified
<1>5. ASSUME NEW s \in Threads, IncSentCount(s)
      PROVE  NotifiedInv'
  <2>1. \A e \in Eras : /\ era'[e].status = era[e].status
                        /\ era'[e].notified = era[e].notified
    BY <1>1, <1>5 DEF IncSentCount, EraType
  <2>2. \A t \in Threads : Notify(t) => "emails" \in era'[thread[t].era].notified
    BY <1>1 DEF Notify, EraType
  <2>3. QED
    BY <1>1, <1>2, <2>1, <2>2 DEF NotifiedInv, CompletedMeansNotified
<1>6. ASSUME NEW s \in Threads, Notify(s)
      PROVE  NotifiedInv'
  <2>1. \A e \in Eras : /\ era'[e].status = era[e].status
                        /\ "emails" \in era[e].notified => "emails" \in era'[e].notified
    BY <1>1, <1>6 DEF Notify, EraType
  <2>2. \A t \in Threads : Notify(t) => "emails" \in era'[thread[t].era].notified
    BY <1>1 DEF Notify, EraType
  <2>3. QED
    BY <1>1, <1>2, <2>1, <2>2 DEF NotifiedInv, CompletedMeansNotified
<1>7. ASSUME NEW s \in Threads, MarkSendFinished(s)
      PROVE  NotifiedInv'
  <2> DEFINE e == thread[s].era
  <2>1. /\ thread[s].pc = "finish" /\ e \in Eras
        /\ era' = [era EXCEPT ![e].status = FinalStatus(s)]
    BY <1>1, <1>7 DEF MarkSendFinished
  <2>2. \A d \in Eras : /\ era'[d].notified = era[d].notified
                        /\ d # e => era'[d].status = era[d].status
    BY <1>1, <2>1 DEF EraType
  <2>3. era'[e].status = "completed" => "emails" \in era[e].notified
    <3>1. era'[e].status = FinalStatus(s)
      BY <1>1, <2>1 DEF EraType
    <3>2. FinalStatus(s) = "completed" => thread[s].failed = FALSE
      BY <1>1 DEF FinalStatus
    <3>3. QED
      BY <2>1, <3>1, <3>2 DEF NotifiedInv
  <2>4. \A t \in Threads : Notify(t) => "emails" \in era'[thread[t].era].notified
    BY <1>1 DEF Notify, EraType
  <2>5. QED
    BY <1>1, <1>2, <2>2, <2>3, <2>4 DEF NotifiedInv, CompletedMeansNotified
<1>8. CASE Restart
  <2>1. \A e \in Eras : /\ era'[e].notified = era[e].notified
                        /\ era'[e].status = "completed" => era[e].status = "completed"
    BY <1>1, <1>8 DEF Restart, EraType
  <2>2. \A t \in Threads : Notify(t) => "emails" \in era'[thread[t].era].notified
    BY <1>1 DEF Notify, EraType
  <2>3. QED
    BY <1>1, <1>2, <2>1, <2>2 DEF NotifiedInv, CompletedMeansNotified
<1>9. ASSUME NEW t \in Threads, JobStep(t), era' # era
      PROVE  ClaimEra(t) \/ IncSentCount(t) \/ Notify(t) \/ MarkSendFinished(t)
  BY <1>9 DEF JobStep, ClaimRefused, PickApplication, ApplicationDone,
              AllApplicationsDone, AddBatchRow, PutFindsNoRow, Put, PutSucceeds,
              PutFails, PutFailsAfterDelivery, PutTimesOut, MarkSent, JobThrows,
              JobEscapes
<1>10. ASSUME NEW t \in Threads, OfficialStep(t)
       PROVE  UNCHANGED era
  BY <1>10 DEF OfficialStep, CountPayments, CheckDeletable, DeletePayment,
               StartSettingPaid, PayPickApplication, SetPaid
<1>11. CASE Environment
  BY <1>3, <1>8, <1>11 DEF Environment, LateArrival, LateLoss, CreatePayment,
                           ChangePayable, DeleteGrantPayments, Crash
<1>12. CASE UNCHANGED vars
  BY <1>3, <1>12 DEF vars
<1>13. QED
  BY <1>3, <1>4, <1>5, <1>6, <1>7, <1>9, <1>10, <1>11, <1>12 DEF Next

\* A 'completed' maksuera has handed its emails to the mail queue: a job that threw
\* never reports success (run-send-job!, mark-send-finished!).  That its report was
\* sent as well is not so: a failure of that is swallowed.
THEOREM CompletedNotified == Spec => []CompletedMeansNotified
<1>1. NotifiedInv => CompletedMeansNotified
  BY DEF NotifiedInv
<1>2. QED
  BY <1>1, NotifiedInit, NotifiedStep, OwnerInit, OwnerStep, TypeInvariant, PTL DEF Spec

-----------------------------------------------------------------------------
(* What the progress counts.                                               *)

\* A step of a job leaves the other threads alone, ...
LEMMA OthersStand ==
    ASSUME TypeInv, NEW s \in Threads, NEW t \in Threads \ {s}, JobStep(s)
    PROVE  thread'[t] = thread[t]
<1>1. thread \in [Threads -> ThreadType]
  BY DEF TypeInv, TypeOK
<1>2. CASE ClaimEra(s) \/ ClaimRefused(s) \/ PickApplication(s)
           \/ ApplicationDone(s) \/ AllApplicationsDone(s)
  BY <1>1, <1>2 DEF ClaimEra, ClaimRefused, PickApplication, ApplicationDone,
                    AllApplicationsDone
<1>3. CASE AddBatchRow(s)
  BY <1>1, <1>3 DEF AddBatchRow, Throws
<1>4. CASE PutFindsNoRow(s) \/ PutSucceeds(s) \/ PutFails(s)
           \/ PutFailsAfterDelivery(s) \/ PutTimesOut(s)
  BY <1>1, <1>4 DEF PutFindsNoRow, PutSucceeds, PutFails, PutFailsAfterDelivery,
                    PutTimesOut
<1>5. CASE MarkSent(s) \/ IncSentCount(s) \/ Notify(s) \/ JobThrows(s)
           \/ MarkSendFinished(s) \/ JobEscapes(s)
  BY <1>1, <1>5 DEF MarkSent, IncSentCount, Notify, JobThrows, Throws,
                    MarkSendFinished, JobEscapes
<1>6. QED
  BY <1>2, <1>3, <1>4, <1>5 DEF JobStep

\* ... and any step changes another thread only by ending it, in a crash.
LEMMA OwnStep ==
    ASSUME TypeInv, [Next]_vars, NEW t \in Threads
    PROVE  \/ thread'[t] = thread[t] \/ thread'[t] = Idle
           \/ JobStep(t) \/ OfficialStep(t)
<1>1. thread \in [Threads -> ThreadType]
  BY DEF TypeInv, TypeOK
<1>2. ASSUME NEW s \in Threads \ {t}, OfficialStep(s)
      PROVE  thread'[t] = thread[t]
  BY <1>1, <1>2 DEF OfficialStep, CountPayments, CheckDeletable, DeletePayment,
                    StartSettingPaid, PayPickApplication, SetPaid
<1>3. CASE Environment
  BY <1>3 DEF Environment, LateArrival, LateLoss, CreatePayment, ChangePayable,
              DeleteGrantPayments, Crash, Restart
<1>4. CASE UNCHANGED vars
  BY <1>4 DEF vars
<1>5. QED
  BY <1>2, <1>3, <1>4, OthersStand DEF Next

\* A job is about to count only what it has just marked.
LEMMA ComesToCount ==
    ASSUME TypeInv, [Next]_vars, NEW t \in Threads, thread'[t].pc = "count"
    PROVE  /\ thread'[t].era = thread[t].era
           /\ \/ thread'[t] = thread[t]
              \/ /\ thread[t].pc = "mark"
                 /\ thread' = [thread EXCEPT ![t].pc = "count"]
                 /\ rows' = [rows EXCEPT ![thread[t].payment] =
                               UpdatePayment(@, thread[t].version, "sent")]
                 /\ UNCHANGED <<payable, era, rondo, late, unsure, up, budget>>
<1>1. thread \in [Threads -> ThreadType] /\ thread[t] \in ThreadType
  BY DEF TypeInv, TypeOK
<1>2. CASE thread'[t] = thread[t] \/ thread'[t] = Idle
  BY <1>2 DEF Idle
<1>3. CASE JobStep(t)
  <2>1. CASE MarkSent(t)
    BY <1>1, <2>1 DEF MarkSent, Throws, ThreadType
  <2>2. ~(ClaimEra(t) \/ ClaimRefused(t) \/ ApplicationDone(t)
          \/ AllApplicationsDone(t) \/ PickApplication(t))
    <3>1. ~PickApplication(t)
      <4>1. ASSUME NEW a,
                   thread' = [thread EXCEPT ![t].pc = "send", ![t].apps = @ \ {a},
                                            ![t].queue = UnsentRowsOf(a)]
            PROVE  FALSE
        BY <1>1, <4>1 DEF ThreadType
      <4>2. QED
        BY <4>1 DEF PickApplication
    <3>2. QED
      BY <1>1, <3>1 DEF ClaimEra, ClaimRefused, ApplicationDone, AllApplicationsDone,
                        Idle, ThreadType
  <2>3. ~AddBatchRow(t)
    <3>1. ASSUME NEW q,
                 thread' = [thread EXCEPT ![t].pc = "put", ![t].queue = @ \ {q},
                                ![t].payment = q[1], ![t].version = Len(rows[q[1]])]
          PROVE  FALSE
      BY <1>1, <3>1 DEF ThreadType
    <3>2. ~Throws(t)
      BY <1>1 DEF Throws, ThreadType
    <3>3. QED
      BY <3>1, <3>2 DEF AddBatchRow
  <2>4. ~(PutFindsNoRow(t) \/ PutSucceeds(t) \/ PutFails(t)
          \/ PutFailsAfterDelivery(t) \/ PutTimesOut(t))
    BY <1>1 DEF PutFindsNoRow, PutSucceeds, PutFails, PutFailsAfterDelivery,
                PutTimesOut, ThreadType
  <2>5. ~(IncSentCount(t) \/ Notify(t) \/ JobThrows(t) \/ MarkSendFinished(t)
          \/ JobEscapes(t))
    BY <1>1 DEF IncSentCount, Notify, JobThrows, Throws, MarkSendFinished,
                JobEscapes, Idle, ThreadType
  <2>6. QED
    BY <1>3, <2>1, <2>2, <2>3, <2>4, <2>5 DEF JobStep
<1>4. CASE OfficialStep(t)
  <2>1. ~(\E e \in Eras : CountPayments(t, e))
    BY <1>1 DEF CountPayments, Idle
  <2>2. ~(\E p \in Payments : CheckDeletable(t, p)) /\ ~StartSettingPaid(t)
    BY <1>1 DEF CheckDeletable, StartSettingPaid, ThreadType
  <2>3. ~DeletePayment(t) /\ ~PayPickApplication(t)
    <3>1. ASSUME NEW a,
                 thread' = [thread EXCEPT ![t].pc = "pay", ![t].apps = @ \ {a},
                                          ![t].queue = UnsentRowsOf(a)]
          PROVE  FALSE
      BY <1>1, <3>1 DEF ThreadType
    <3>2. thread' # [thread EXCEPT ![t] = Idle]
      BY <1>1 DEF Idle
    <3>3. QED
      BY <3>1, <3>2 DEF DeletePayment, PayPickApplication
  <2>4. ~SetPaid(t)
    BY <1>1 DEF SetPaid, Idle, ThreadType
  <2>5. QED
    BY <1>4, <2>1, <2>2, <2>3, <2>4 DEF OfficialStep
<1>5. QED
  BY <1>2, <1>3, <1>4, OwnStep

\* The rows that say 'sent' in the histories of a table, the rows that the
\* maksatukset were made with excepted.
SentIds(table) ==
    UNION {{p} \X {i \in 2..Len(table[p]) : table[p][i].status = "sent"} :
             p \in Payments}

\* A job about to count has marked a row that no era has counted yet.
EarnedInv ==
    /\ \A e \in Eras : era[e].sent <= Cardinality(SentIds(rows))
    /\ \A t \in Threads :
         thread[t].pc = "count" =>
           era[thread[t].era].sent + 1 <= Cardinality(SentIds(rows))

\* Such a row, named.
LEMMA SentIdsAre ==
    \A table, p, i :
      <<p, i>> \in SentIds(table) <=>
        p \in Payments /\ i \in 2..Len(table[p]) /\ table[p][i].status = "sent"
BY DEF SentIds

\* There are finitely many of them.
LEMMA SentIdsFinite ==
    ASSUME NEW table \in [Payments -> Seq(Row)]
    PROVE  IsFiniteSet(SentIds(table)) /\ Cardinality(SentIds(table)) \in Nat
<1> DEFINE Of(p) == {p} \X {i \in 2..Len(table[p]) : table[p][i].status = "sent"}
<1>1. \A p \in Payments : IsFiniteSet(Of(p))
  <2> TAKE p \in Payments
  <2>1. IsFiniteSet(2..Len(table[p]))
    BY FS_Interval
  <2>2. IsFiniteSet({i \in 2..Len(table[p]) : table[p][i].status = "sent"})
    BY <2>1, FS_Subset
  <2>3. QED
    BY <2>2, FS_Singleton, FS_Product
<1>2. IsFiniteSet({Of(p) : p \in Payments})
  <2>1. [p \in Payments |-> Of(p)] \in Surjection(Payments, {Of(p) : p \in Payments})
    BY DEF Surjection
  <2>2. QED
    BY <2>1, SetsAssumption, FS_Surjection
<1>3. IsFiniteSet(SentIds(table))
  BY <1>1, <1>2, FS_UNION DEF SentIds
<1>4. QED
  BY <1>3, FS_CardinalityType

\* Rows that say 'sent' are never lost.
LEMMA SentIdsGrow ==
    ASSUME TypeInv, [Next]_vars
    PROVE  /\ SentIds(rows) \subseteq SentIds(rows')
           /\ Cardinality(SentIds(rows)) <= Cardinality(SentIds(rows'))
<1>1. rows' \in [Payments -> Seq(Row)] /\ rows \in [Payments -> Seq(Row)]
      /\ \A p \in Payments : Continues(rows'[p], rows[p])
  BY RowsContinue DEF TypeInv, TypeOK
<1>2. ASSUME NEW x \in SentIds(rows)
      PROVE  x \in SentIds(rows')
  <2>1. PICK p \in Payments, i \in Nat :
          x = <<p, i>> /\ i \in 2..Len(rows[p]) /\ rows[p][i].status = "sent"
    BY DEF SentIds
  <2>2. i \in 2..Len(rows'[p]) /\ rows'[p][i].status = "sent"
    BY <1>1, <2>1 DEF Continues
  <2>3. QED
    BY <2>1, <2>2, SentIdsAre
<1>3. QED
  BY <1>1, <1>2, SentIdsFinite, FS_Subset

\* Nothing is counted at first.
LEMMA EarnedInit == Init => EarnedInv
<1> SUFFICES ASSUME Init PROVE EarnedInv
  OBVIOUS
<1>1. rows \in [Payments -> Seq(Row)]
  BY TypeInit DEF TypeInv, TypeOK
<1>2. Cardinality(SentIds(rows)) \in Nat
  BY <1>1, SentIdsFinite
<1>3. \A e \in Eras : era[e].sent = 0
  BY DEF Init
<1>4. \A t \in Threads : thread[t].pc = "idle"
  BY DEF Init, Idle
<1>5. QED
  BY <1>2, <1>3, <1>4 DEF EarnedInv

\* Each count follows a mark of its own, and an era starts again from zero.
LEMMA EarnedStep ==
    TypeInv /\ TypeInv' /\ OwnerInv /\ UnsentInv /\ EarnedInv /\ [Next]_vars => EarnedInv'
<1> SUFFICES ASSUME TypeInv, TypeInv', OwnerInv, UnsentInv, EarnedInv, [Next]_vars
             PROVE  EarnedInv'
  OBVIOUS
<1> DEFINE N == Cardinality(SentIds(rows))
           M == Cardinality(SentIds(rows'))
<1>1. /\ thread \in [Threads -> ThreadType] /\ era \in [Eras -> EraType]
      /\ \A t \in Threads : thread[t].era \in Eras
      /\ \A e \in Eras : era[e].sent \in Nat /\ era'[e].sent \in Nat
  BY DEF TypeInv, TypeOK, ThreadType, EraType
<1>2. N \in Nat /\ M \in Nat /\ N <= M
  BY SentIdsFinite, SentIdsGrow DEF TypeInv, TypeOK
\* A job that stands at "count" was there before, or has marked a row.
<1>3. ASSUME NEW t \in Threads, thread'[t].pc = "count"
      PROVE  /\ thread'[t].era = thread[t].era
             /\ \/ thread'[t] = thread[t]
                \/ UNCHANGED era /\ era[thread[t].era].sent + 1 <= M
  <2>1. CASE thread'[t] = thread[t]
    BY <2>1
  <2>2. CASE thread'[t] # thread[t]
    <3> DEFINE p == thread[t].payment
               new == <<p, Len(rows[p]) + 1>>
    <3>1. /\ p \in Payments /\ thread[t].version \in Nat /\ rows[p] \in Seq(Row)
          /\ rows' = [rows EXCEPT ![p] = UpdatePayment(@, thread[t].version, "sent")]
          /\ UNCHANGED era /\ thread'[t].era = thread[t].era
      BY <1>3, <2>2, ComesToCount, ThreadFields DEF TypeInv
    <3>2. Len(rows'[p]) = Len(rows[p]) + 1
          /\ rows'[p][Len(rows[p]) + 1].status = "sent"
      <4>1. rows'[p] = UpdatePayment(rows[p], thread[t].version, "sent")
        BY <3>1 DEF TypeInv, TypeOK
      <4>2. QED
        BY <3>1, <4>1, UpdateContinues DEF Statuses, Continues
    <3>3. new \in SentIds(rows')
      <4>1. thread[t].version < Len(rows[p])
        BY <1>3, <2>2, ComesToCount DEF UnsentInv, UnsentAt
      <4>2. Len(rows[p]) + 1 \in 2..Len(rows'[p])
        BY <3>1, <3>2, <4>1
      <4>3. QED
        BY <3>1, <3>2, <4>2, SentIdsAre
    <3>4. new \notin SentIds(rows)
      BY <3>1, SentIdsAre
    <3>5. SentIds(rows) \cup {new} \subseteq SentIds(rows') /\ IsFiniteSet(SentIds(rows'))
          /\ IsFiniteSet(SentIds(rows))
      BY <3>3, SentIdsGrow, SentIdsFinite DEF TypeInv, TypeOK
    <3>6. Cardinality(SentIds(rows) \cup {new}) = N + 1
      BY <3>4, <3>5, FS_AddElement
    <3>7. Cardinality(SentIds(rows) \cup {new}) <= M
      BY <3>5, FS_Subset
    <3>8. era[thread[t].era].sent <= N
      BY <1>1 DEF EarnedInv
    <3>9. QED
      BY <1>1, <1>2, <3>1, <3>6, <3>7, <3>8
  <2>3. QED
    BY <2>1, <2>2
<1> HIDE DEF N, M
\* It is enough to look at the eras that move.
<1>4. ASSUME \A e \in Eras : era'[e].sent = era[e].sent \/ era'[e].sent <= N,
             \A t \in Threads :
               thread[t].pc = "count" /\ thread'[t] = thread[t]
                 => era'[thread[t].era].sent = era[thread[t].era].sent
      PROVE  EarnedInv'
  <2>1. ASSUME NEW e \in Eras
        PROVE  era'[e].sent <= M
    <3>1. era[e].sent <= N
      BY DEF EarnedInv, N
    <3>2. QED
      BY <1>1, <1>2, <1>4, <3>1
  <2>2. ASSUME NEW t \in Threads, thread'[t].pc = "count"
        PROVE  era'[thread'[t].era].sent + 1 <= M
    <3>1. CASE thread'[t] = thread[t]
      <4>1. era[thread[t].era].sent + 1 <= N
        BY <2>2, <3>1 DEF EarnedInv, N
      <4>2. QED
        BY <1>1, <1>2, <1>4, <2>2, <3>1, <4>1
    <3>2. CASE thread'[t] # thread[t]
      BY <1>3, <2>2, <3>2
    <3>3. QED
      BY <3>1, <3>2
  <2>3. QED
    BY <2>1, <2>2 DEF EarnedInv, M
<1>5. CASE UNCHANGED era
  BY <1>4, <1>5
<1>6. ASSUME NEW s \in Threads, ClaimEra(s)
      PROVE  EarnedInv'
  <2>1. /\ era[thread[s].era].status # "sending" /\ thread[s].pc = "counted"
        /\ era'[thread[s].era].sent = 0
        /\ \A e \in Eras \ {thread[s].era} : era'[e] = era[e]
    BY <1>1, <1>6 DEF ClaimEra
  <2>2. \A t \in Threads : thread[t].pc = "count" => thread[t].era # thread[s].era
    BY <1>1, <2>1 DEF OwnerInv, SendingHasOneOwner, Owns, JobSteps
  <2>3. QED
    BY <1>1, <1>2, <1>4, <2>1, <2>2
<1>7. ASSUME NEW s \in Threads, IncSentCount(s)
      PROVE  EarnedInv'
  <2>1. /\ thread[s].pc = "count" /\ thread'[s].pc = "send"
        /\ era'[thread[s].era].sent = era[thread[s].era].sent + 1
        /\ \A e \in Eras \ {thread[s].era} : era'[e] = era[e]
    BY <1>1, <1>7 DEF IncSentCount, ThreadType, EraType
  <2>2. \A t \in Threads \ {s} : thread[t].pc = "count" => thread[t].era # thread[s].era
    BY <1>1, <2>1 DEF OwnerInv, SendingHasOneOwner, Owns, JobSteps
  <2>3. era'[thread[s].era].sent <= N
    BY <2>1 DEF EarnedInv, N
  <2>4. \A t \in Threads : thread[t].pc = "count" /\ thread'[t] = thread[t] =>
          t # s /\ thread[t].era # thread[s].era
    BY <2>1, <2>2
  <2>5. QED
    BY <1>1, <1>4, <2>1, <2>3, <2>4
<1>8. ASSUME \A e \in Eras : era'[e].sent = era[e].sent
      PROVE  EarnedInv'
  BY <1>1, <1>4, <1>8
<1>9. ASSUME NEW s \in Threads, Notify(s) \/ MarkSendFinished(s)
      PROVE  EarnedInv'
  <2>1. CASE Notify(s)
    BY <1>1, <1>8, <2>1 DEF Notify, EraType
  <2>2. CASE MarkSendFinished(s)
    BY <1>1, <1>8, <2>2 DEF MarkSendFinished, EraType
  <2>3. QED
    BY <1>9, <2>1, <2>2
<1>10. CASE Restart
  BY <1>1, <1>8, <1>10 DEF Restart, EraType
<1>11. ASSUME NEW t \in Threads, JobStep(t), era' # era
       PROVE  ClaimEra(t) \/ IncSentCount(t) \/ Notify(t) \/ MarkSendFinished(t)
  BY <1>11 DEF JobStep, ClaimRefused, PickApplication, ApplicationDone,
               AllApplicationsDone, AddBatchRow, PutFindsNoRow, Put, PutSucceeds,
               PutFails, PutFailsAfterDelivery, PutTimesOut, MarkSent, JobThrows,
               JobEscapes
<1>12. ASSUME NEW t \in Threads, OfficialStep(t)
       PROVE  UNCHANGED era
  BY <1>12 DEF OfficialStep, CountPayments, CheckDeletable, DeletePayment,
               StartSettingPaid, PayPickApplication, SetPaid
<1>13. CASE Environment
  BY <1>5, <1>10, <1>13 DEF Environment, LateArrival, LateLoss, CreatePayment,
                            ChangePayable, DeleteGrantPayments, Crash
<1>14. CASE UNCHANGED vars
  BY <1>5, <1>14 DEF vars
<1>15. QED
  BY <1>5, <1>6, <1>7, <1>9, <1>11, <1>12, <1>13, <1>14 DEF Next

\* The progress of a maksuera never exceeds the rows updated to 'sent', whatever
\* is retried, edited or interrupted (inc-sent-count!).
THEOREM ProgressEarned == Spec => []ProgressIsEarned
<1>1. EarnedInv => ProgressIsEarned
  BY DEF EarnedInv, ProgressIsEarned, SentIds
<1>2. QED
  BY <1>1, EarnedInit, EarnedStep, OwnerInit, OwnerStep, UnsentInvariant,
      TypeInvariant, PTL DEF Spec

-----------------------------------------------------------------------------
(* What the steps of a job do to the rows.                                 *)

\* What a job may send now was unsent when it was read.
SendsUnsent(t) ==
    thread[t].pc = "send" =>
      \A r \in thread[t].queue : At(rows[r[1]], r[2]).status \in Unsent

\* A step of a job that adds the row it will put, or marks the one it has put.
Adds(t, p, v, status) ==
    /\ thread[t].pc = "send" /\ <<p, v>> \in thread[t].queue /\ status \in Unsent
    /\ rows' = [rows EXCEPT ![p] = UpdatePayment(@, v, status)]
    /\ thread'[t].pc = "put" /\ thread'[t].queue = thread[t].queue \ {<<p, v>>}
    /\ thread'[t].payment = p /\ thread'[t].version = Len(rows[p])
    /\ thread'[t].era = thread[t].era /\ thread'[t].counted = thread[t].counted
    /\ UNCHANGED <<era, rondo, late, unsure>>

Marks(t, p, v) ==
    /\ thread[t].pc = "mark" /\ p = thread[t].payment /\ v = thread[t].version
    /\ rows' = [rows EXCEPT ![p] = UpdatePayment(@, v, "sent")]
    /\ thread'[t].pc = "count" /\ thread'[t].queue = thread[t].queue
    /\ thread'[t].era = thread[t].era /\ thread'[t].counted = thread[t].counted
    /\ UNCHANGED <<era, rondo, late, unsure>>

\* A row a job adds carries an unsent status: that of the row it replaces.
LEMMA AddsOrThrows ==
    ASSUME TypeInv, NEW t \in Threads, SendsUnsent(t), AddBatchRow(t)
    PROVE  \/ Throws(t) /\ UNCHANGED <<rows, era, rondo, late, unsure>>
           \/ \E p \in Payments, v \in Nat, status \in Unsent : Adds(t, p, v, status)
<1>1. thread \in [Threads -> ThreadType] /\ rows \in [Payments -> Seq(Row)]
  BY DEF TypeInv, TypeOK
<1>2. CASE Throws(t) /\ UNCHANGED rows
  BY <1>2 DEF AddBatchRow
<1>3. CASE ~(Throws(t) /\ UNCHANGED rows)
  <2>1. PICK r \in thread[t].queue :
          /\ rows' = [rows EXCEPT ![r[1]] = UpdatePayment(@, r[2], At(@, r[2]).status)]
          /\ thread' = [thread EXCEPT ![t].pc = "put", ![t].queue = @ \ {r},
                            ![t].payment = r[1], ![t].version = Len(rows[r[1]])]
    BY <1>3 DEF AddBatchRow
  <2> DEFINE p == r[1]
             v == r[2]
             h == rows[p]
  <2>2. p \in Payments /\ v \in Nat /\ r = <<p, v>> /\ thread[t].pc = "send"
    BY ThreadFields DEF TypeInv, RowId, AddBatchRow
  <2>4. At(h, v).status \in Unsent
    BY <2>2 DEF SendsUnsent
  <2> DEFINE x == [thread[t] EXCEPT !.pc = "put", !.queue = @ \ {r},
                       !.payment = p, !.version = Len(h)]
  <2>5. /\ x.pc = "put" /\ x.queue = thread[t].queue \ {r} /\ x.payment = p
        /\ x.version = Len(h) /\ x.era = thread[t].era
        /\ x.counted = thread[t].counted
    BY <1>1 DEF ThreadType
  <2>6. thread'[t] = x
    BY <1>1, <2>1
  <2>7. rows' = [rows EXCEPT ![p] = UpdatePayment(@, v, At(h, v).status)]
    BY <1>1, <2>1, <2>2
  <2> HIDE DEF x
  <2>8. Adds(t, p, v, At(h, v).status)
    BY <1>3, <2>2, <2>4, <2>5, <2>6, <2>7 DEF Adds, AddBatchRow
  <2>9. QED
    BY <2>2, <2>4, <2>8
<1>4. QED
  BY <1>2, <1>3

\* What a step of a job does to the thread's work, in the terms of HeldBy.
LEMMA JobMoves ==
    ASSUME TypeInv, NEW t \in Threads, SendsUnsent(t), JobStep(t)
    PROVE  \/ /\ thread'[t].pc \in {"idle", "pick", "notify", "finish", "escaped"}
              /\ UNCHANGED rows
           \/ /\ \E a \in Applications : thread'[t].queue = UnsentRowsOf(a)
              /\ thread[t].pc = "pick" /\ thread'[t].pc = "send" /\ UNCHANGED rows
           \/ /\ <<thread[t].pc, thread'[t].pc>> \in
                    {<<"put", "send">>, <<"put", "mark">>, <<"count", "send">>}
              /\ thread'[t].queue = thread[t].queue
              /\ thread'[t].payment = thread[t].payment
              /\ thread'[t].version = thread[t].version
              /\ UNCHANGED rows
           \/ \E p \in Payments, v \in Nat, status \in Unsent : Adds(t, p, v, status)
           \/ \E p \in Payments, v \in Nat : Marks(t, p, v)
<1>1. thread \in [Threads -> ThreadType] /\ thread[t] \in ThreadType
  BY DEF TypeInv, TypeOK
\* The two forms that most steps have.
<1>2. ASSUME NEW pc, thread' = [thread EXCEPT ![t].pc = pc]
      PROVE  /\ thread'[t].pc = pc
             /\ thread'[t].queue = thread[t].queue
             /\ thread'[t].payment = thread[t].payment
             /\ thread'[t].version = thread[t].version
             /\ thread'[t].era = thread[t].era
             /\ thread'[t].counted = thread[t].counted
  BY <1>1, <1>2 DEF ThreadType
<1>3. Throws(t) => thread'[t].pc = "finish"
  BY <1>1 DEF Throws, ThreadType
<1>4. CASE ClaimEra(t)
  BY <1>1, <1>4 DEF ClaimEra, ThreadType
<1>5. CASE ClaimRefused(t) \/ MarkSendFinished(t)
  BY <1>1, <1>5 DEF ClaimRefused, MarkSendFinished, Idle
<1>6. CASE PickApplication(t)
  <2>1. PICK a \in thread[t].apps :
          thread' = [thread EXCEPT ![t].pc = "send", ![t].apps = @ \ {a},
                                   ![t].queue = UnsentRowsOf(a)]
    BY <1>6 DEF PickApplication
  <2>2. a \in Applications
    BY ThreadFields DEF TypeInv
  <2>3. thread'[t].pc = "send" /\ thread'[t].queue = UnsentRowsOf(a)
    BY <1>1, <2>1 DEF ThreadType
  <2>4. QED
    BY <1>6, <2>2, <2>3 DEF PickApplication
<1>7. CASE ApplicationDone(t) \/ AllApplicationsDone(t) \/ Notify(t) \/ JobEscapes(t)
  BY <1>2, <1>7 DEF ApplicationDone, AllApplicationsDone, Notify, JobEscapes
<1>8. CASE JobThrows(t)
  BY <1>3, <1>8 DEF JobThrows
<1>9. CASE AddBatchRow(t)
  BY <1>3, <1>9, AddsOrThrows
<1>10. CASE PutFindsNoRow(t) \/ PutFails(t) \/ PutFailsAfterDelivery(t)
            \/ PutTimesOut(t)
  <2>1. thread[t].pc = "put" /\ UNCHANGED rows
        /\ thread' = [thread EXCEPT ![t].pc = "send"]
    BY <1>10 DEF PutFindsNoRow, PutFails, PutFailsAfterDelivery, PutTimesOut, Put
  <2>2. QED
    BY <1>2, <2>1
<1>11. CASE PutSucceeds(t)
  BY <1>2, <1>11 DEF PutSucceeds, Put
<1>12. CASE IncSentCount(t)
  BY <1>2, <1>12 DEF IncSentCount
<1>13. CASE MarkSent(t)
  <2>1. CASE Throws(t) /\ UNCHANGED rows
    BY <1>3, <2>1
  <2>2. CASE ~(Throws(t) /\ UNCHANGED rows)
    <3>1. Marks(t, thread[t].payment, thread[t].version)
      <4>1. /\ thread[t].pc = "mark"
            /\ thread' = [thread EXCEPT ![t].pc = "count"]
            /\ rows' = [rows EXCEPT ![thread[t].payment] =
                          UpdatePayment(@, thread[t].version, "sent")]
            /\ UNCHANGED <<era, rondo, late, unsure>>
        BY <1>13, <2>2 DEF MarkSent
      <4>2. QED
        BY <1>2, <4>1 DEF Marks
    <3>2. QED
      BY <3>1, ThreadFields DEF TypeInv
  <2>3. QED
    BY <2>1, <2>2
<1>14. QED
  BY <1>4, <1>5, <1>6, <1>7, <1>8, <1>9, <1>10, <1>11, <1>12, <1>13 DEF JobStep

\* Such a step is taken by a thread at work, and moves it.
LEMMA WritersMove ==
    ASSUME NEW t, NEW p, NEW v, NEW status, Adds(t, p, v, status) \/ Marks(t, p, v)
    PROVE  thread[t].pc \in JobSteps /\ thread'[t] # thread[t]
BY DEF Adds, Marks, JobSteps

-----------------------------------------------------------------------------
(* One writer at a time, whatever officials edit meanwhile.                *)

\* Where a thread holds versions of rows that it may still work on: a job between
\* the query for an application and its last row, and an official who marks the
\* maksatukset of an application as paid.
Working == {"send", "put", "mark", "count"}
Writing == Working \cup {"pay"}

Alone(W) == \A s, t \in Threads : thread[s].pc \in W /\ thread[t].pc \in W => s = t

\* The premises: of the theorems of this section, and of one about the responses.
OneWriter == Alone(Writing)
OneSender == Alone(Working)

\* What a thread holds of a maksatus is on top of its history h, and what it is
\* putting is in its queue no more.
TopHeld(r, p, h, W) ==
    /\ r.pc \in W => \A v \in Nat : <<p, v>> \in r.queue => OnTop(h, v)
    /\ r.pc \in {"put", "mark"} /\ r.payment = p =>
         OnTop(h, r.version) /\ \A v \in Nat : <<p, v>> \notin r.queue

TopInv(p, W) == Topped(rows[p]) /\ \A t \in Threads : TopHeld(thread[t], p, rows[p], W)

\* What a step does to a maksatus: it keeps the invariant and adds a row at most,
\* and what has been sent stays so and gets no row.
TopStays(p, W) ==
    /\ TopInv(p, W)'
    /\ Pending(rows'[p]) => Pending(rows[p])
    /\ Len(rows'[p]) # Len(rows[p]) => Pending(rows[p])
    /\ Len(rows'[p]) <= Len(rows[p]) + 1

\* A thread that does not move keeps what it holds if no row is added.
LEMMA HoldsStill ==
    ASSUME NEW p, NEW W, NEW h \in Seq(Row), NEW g \in Seq(Row),
           Continues(g, h), Len(g) = Len(h), NEW r \in ThreadType, TopHeld(r, p, h, W)
    PROVE  TopHeld(r, p, g, W)
<1>1. r.version \in Nat
  BY DEF ThreadType
<1>2. QED
  BY <1>1, SameTop DEF TopHeld

LEMMA HoldsNothing ==
    ASSUME NEW p, NEW W, NEW h, NEW r, Working \subseteq W, r.pc \notin W
    PROVE  TopHeld(r, p, h, W)
BY DEF TopHeld, Working

\* The two ways in which a step of one thread concerns a maksatus: no row is
\* added to it, ...
LEMMA NoRowAdded ==
    ASSUME TypeInv, NEW p \in Payments, NEW W, TopInv(p, W), NEW s \in Threads,
           \A t \in Threads \ {s} : thread'[t] = thread[t],
           rows'[p] \in Seq(Row), Continues(rows'[p], rows[p]),
           Len(rows'[p]) = Len(rows[p]), Topped(rows'[p]),
           TopHeld(thread'[s], p, rows'[p], W)
    PROVE  TopStays(p, W)
<1>1. /\ rows[p] \in Seq(Row) /\ thread \in [Threads -> ThreadType]
      /\ Topped(rows[p]) /\ \A t \in Threads : TopHeld(thread[t], p, rows[p], W)
  BY DEF TypeInv, TypeOK, TopInv
<1>2. ASSUME NEW t \in Threads \ {s}
      PROVE  TopHeld(thread'[t], p, rows'[p], W)
  <2>1. thread'[t] = thread[t] /\ thread[t] \in ThreadType /\ TopHeld(thread[t], p, rows[p], W)
    BY <1>1
  <2>2. TopHeld(thread[t], p, rows'[p], W)
    BY <1>1, <2>1, HoldsStill
  <2>3. QED
    BY <2>1, <2>2
<1>3. TopInv(p, W)'
  BY <1>2 DEF TopInv
<1>4. Pending(rows'[p]) <=> Pending(rows[p])
  BY <1>1, SameTop
<1>5. QED
  BY <1>3, <1>4 DEF TopStays

\* ... or the only writer adds one to the row on top.
LEMMA RowAdded ==
    ASSUME TypeInv, NEW p \in Payments, NEW W, Working \subseteq W, Alone(W),
           TopInv(p, W), NEW s \in Threads, thread[s].pc \in W,
           \A t \in Threads \ {s} : thread'[t] = thread[t],
           NEW v \in Nat, OnTop(rows[p], v), NEW status \in Statuses,
           rows'[p] = UpdatePayment(rows[p], v, status),
           TopHeld(thread'[s], p, rows'[p], W)
    PROVE  TopStays(p, W)
<1>1. rows[p] \in Seq(Row) /\ Topped(rows[p])
  BY DEF TypeInv, TypeOK, TopInv
<1>2. v + 1 = Len(rows[p]) /\ rows[p][Len(rows[p])].status # "paid" /\ Pending(rows[p])
  BY DEF OnTop, Unsent, Pending
<1>3. Topped(rows'[p])
  BY <1>1, <1>2, UpdateTopped
<1>4. ASSUME NEW t \in Threads \ {s}
      PROVE  TopHeld(thread'[t], p, rows'[p], W)
  <2>1. thread'[t] = thread[t] /\ thread[t].pc \notin W
    BY DEF Alone
  <2>2. QED
    BY <2>1, HoldsNothing
<1>5. TopInv(p, W)'
  BY <1>3, <1>4 DEF TopInv
<1>6. QED
  BY <1>1, <1>2, <1>5, UpdateContinues DEF TopStays

\* What a query returns is on top.
LEMMA QueryOnTop ==
    ASSUME TypeInv, NEW p \in Payments, Topped(rows[p]), NEW a, NEW v \in Nat,
           <<p, v>> \in UnsentRowsOf(a)
    PROVE  OnTop(rows[p], v)
<1>1. v \in UnsentVersions(rows[p])
  BY DEF UnsentRowsOf
<1>2. rows[p] \in Seq(Row)
  BY DEF TypeInv, TypeOK
<1>3. QED
  BY <1>1, <1>2, ToppedQueries

LEMMA JobKeepsTop ==
    ASSUME TypeInv, NEW p \in Payments, NEW W, Working \subseteq W, W \subseteq Writing,
           Alone(W), TopInv(p, W), NEW s \in Threads, SendsUnsent(s), JobStep(s)
    PROVE  TopStays(p, W)
<1>1. /\ rows \in [Payments -> Seq(Row)] /\ thread \in [Threads -> ThreadType]
      /\ rows[p] \in Seq(Row)
      /\ Topped(rows[p]) /\ TopHeld(thread[s], p, rows[p], W)
  BY DEF TypeInv, TypeOK, TopInv
<1>2. \A t \in Threads \ {s} : thread'[t] = thread[t]
  BY <1>1, OthersStand
<1>3. ASSUME rows'[p] = rows[p], TopHeld(thread'[s], p, rows'[p], W)
      PROVE  TopStays(p, W)
  BY <1>1, <1>2, <1>3, ContinuesItself, NoRowAdded
<1>4. CASE thread'[s].pc \in {"idle", "pick", "notify", "finish", "escaped"} /\ UNCHANGED rows
  <2>1. thread'[s].pc \notin W
    BY <1>4 DEF Writing, Working
  <2>2. QED
    BY <1>3, <1>4, <2>1, HoldsNothing
<1>5. ASSUME NEW a \in Applications, thread'[s].queue = UnsentRowsOf(a),
             thread'[s].pc = "send", UNCHANGED rows
      PROVE  TopStays(p, W)
  BY <1>1, <1>3, <1>5, QueryOnTop DEF TopHeld
<1>6. ASSUME <<thread[s].pc, thread'[s].pc>> \in
                {<<"put", "send">>, <<"put", "mark">>, <<"count", "send">>},
             thread'[s].queue = thread[s].queue,
             thread'[s].payment = thread[s].payment,
             thread'[s].version = thread[s].version, UNCHANGED rows
      PROVE  TopStays(p, W)
  <2>1. thread[s].pc \in W
    BY <1>6 DEF Working
  <2>2. QED
    BY <1>1, <1>3, <1>6, <2>1 DEF TopHeld
<1>7. ASSUME NEW q \in Payments, NEW v \in Nat, NEW status \in Unsent,
             Adds(s, q, v, status)
      PROVE  TopStays(p, W)
  <2>1. /\ rows' = [rows EXCEPT ![q] = UpdatePayment(@, v, status)]
        /\ thread[s].pc = "send" /\ thread'[s].pc = "put"
        /\ thread'[s].queue = thread[s].queue \ {<<q, v>>}
        /\ thread'[s].payment = q /\ thread'[s].version = Len(rows[q])
        /\ <<q, v>> \in thread[s].queue
        /\ status \in Statuses
    BY <1>7 DEF Adds, Unsent, Statuses
  <2>2. thread[s].pc \in W
    BY <2>1 DEF Working
  <2>3. CASE p = q
    <3>1. OnTop(rows[p], v) /\ rows'[p] = UpdatePayment(rows[p], v, status)
      BY <1>1, <2>1, <2>2, <2>3 DEF TopHeld
    <3>2. v + 1 = Len(rows[p]) /\ rows[p][Len(rows[p])].status # "paid"
      BY <3>1 DEF OnTop, Unsent
    <3>3. Len(rows'[p]) = Len(rows[p]) + 1 /\ rows'[p][Len(rows'[p])].status = status
      BY <1>1, <2>1, <3>1, <3>2, UpdateTopped
    <3>4. OnTop(rows'[p], Len(rows[p]))
      BY <1>7, <3>3 DEF OnTop
    <3>5. \A w \in Nat : <<p, w>> \in thread[s].queue => w = v
      BY <1>1, <2>2, <3>2 DEF TopHeld, OnTop
    <3>6. \A w \in Nat : <<p, w>> \notin thread'[s].queue
      BY <2>1, <2>3, <3>5
    <3>7. TopHeld(thread'[s], p, rows'[p], W)
      BY <2>1, <2>3, <3>4, <3>6 DEF TopHeld
    <3>8. QED
      BY <1>2, <2>1, <2>2, <3>1, <3>7, RowAdded
  <2>4. CASE p # q
    <3>1. rows'[p] = rows[p]
      BY <1>1, <2>1, <2>4
    <3>2. TopHeld(thread'[s], p, rows[p], W)
      BY <1>1, <2>1, <2>2, <2>4 DEF TopHeld
    <3>3. QED
      BY <1>3, <3>1, <3>2
  <2>5. QED
    BY <2>3, <2>4
<1>8. ASSUME NEW q \in Payments, NEW v \in Nat, Marks(s, q, v)
      PROVE  TopStays(p, W)
  <2>1. /\ rows' = [rows EXCEPT ![q] = UpdatePayment(@, v, "sent")]
        /\ thread[s].pc = "mark" /\ thread'[s].pc = "count"
        /\ thread'[s].queue = thread[s].queue
        /\ thread[s].payment = q /\ thread[s].version = v
        /\ "sent" \in Statuses
    BY <1>8 DEF Marks, Statuses
  <2>2. thread[s].pc \in W
    BY <2>1 DEF Working
  <2>3. CASE p = q
    <3>1. OnTop(rows[p], v) /\ rows'[p] = UpdatePayment(rows[p], v, "sent")
      BY <1>1, <2>1, <2>3 DEF TopHeld
    <3>2. \A w \in Nat : <<p, w>> \notin thread'[s].queue
      BY <1>1, <2>1, <2>3 DEF TopHeld
    <3>3. TopHeld(thread'[s], p, rows'[p], W)
      BY <2>1, <3>2 DEF TopHeld
    <3>4. QED
      BY <1>2, <2>1, <2>2, <3>1, <3>3, RowAdded
  <2>4. CASE p # q
    <3>1. rows'[p] = rows[p]
      BY <1>1, <2>1, <2>4
    <3>2. TopHeld(thread'[s], p, rows[p], W)
      BY <1>1, <2>1, <2>2 DEF TopHeld
    <3>3. QED
      BY <1>3, <3>1, <3>2
  <2>5. QED
    BY <2>3, <2>4
<1>9. QED
  BY <1>4, <1>5, <1>6, <1>7, <1>8, JobMoves

\* An official adds a row only where set-payments-paid works.
LEMMA OfficialKeepsTop ==
    ASSUME TypeInv, NEW p \in Payments, NEW W, Working \subseteq W, W \subseteq Writing,
           Alone(W), TopInv(p, W), NEW s \in Threads, OfficialStep(s),
           "pay" \in W \/ (SetPaid(s) => rows'[p] = rows[p])
    PROVE  TopStays(p, W)
<1>1. /\ rows \in [Payments -> Seq(Row)] /\ thread \in [Threads -> ThreadType]
      /\ rows[p] \in Seq(Row)
      /\ Topped(rows[p]) /\ TopHeld(thread[s], p, rows[p], W)
  BY DEF TypeInv, TypeOK, TopInv
<1>2. \A t \in Threads \ {s} : thread'[t] = thread[t]
  BY <1>1 DEF OfficialStep, CountPayments, CheckDeletable, DeletePayment,
              StartSettingPaid, PayPickApplication, SetPaid
<1>3. ASSUME rows'[p] = rows[p], TopHeld(thread'[s], p, rows'[p], W)
      PROVE  TopStays(p, W)
  BY <1>1, <1>2, <1>3, ContinuesItself, NoRowAdded
<1>4. ASSUME rows'[p] = rows[p], thread'[s].pc \notin Writing
      PROVE  TopStays(p, W)
  BY <1>3, <1>4, HoldsNothing
<1>5. CASE UNCHANGED rows /\ thread'[s].pc \notin Writing
  BY <1>4, <1>5
<1>6. CASE DeletePayment(s)
  <2>1. PICK q \in Payments : q = thread[s].payment
    BY ThreadFields DEF TypeInv
  <2>2. rows' = [rows EXCEPT ![q] = DeleteRows(@, {"waiting"})] /\ thread'[s] = Idle
    BY <1>1, <1>6, <2>1 DEF DeletePayment
  <2>3. thread'[s].pc \notin Writing
    BY <2>2 DEF Idle, Writing, Working
  <2>4. TopHeld(thread'[s], p, rows'[p], W)
    BY <2>3, HoldsNothing
  <2>5. CASE p = q
    <3>1. rows'[p] = DeleteRows(rows[p], {"waiting"}) /\ {"waiting"} \in SUBSET Unsent
      BY <1>1, <2>2, <2>5 DEF Unsent
    <3>2. QED
      BY <1>1, <1>2, <2>4, <3>1, DeleteContinues, DeleteTopped, NoRowAdded
  <2>6. CASE p # q
    BY <1>1, <1>4, <2>2, <2>3, <2>6
  <2>7. QED
    BY <2>5, <2>6
<1>7. CASE PayPickApplication(s)
  <2>1. CASE thread' = [thread EXCEPT ![s] = Idle]
    <3>1. thread'[s].pc \notin Writing
      BY <1>1, <2>1 DEF Idle, Writing, Working
    <3>2. QED
      BY <1>4, <1>7, <3>1 DEF PayPickApplication
  <2>2. ASSUME NEW a \in thread[s].apps,
               thread' = [thread EXCEPT ![s].pc = "pay", ![s].apps = @ \ {a},
                                        ![s].queue = UnsentRowsOf(a)]
        PROVE  TopStays(p, W)
    <3>1. thread'[s].pc = "pay" /\ thread'[s].queue = UnsentRowsOf(a)
      BY <1>1, <2>2 DEF ThreadType
    <3>2. TopHeld(thread'[s], p, rows[p], W)
      BY <1>1, <3>1, QueryOnTop DEF TopHeld
    <3>3. QED
      BY <1>3, <1>7, <3>2 DEF PayPickApplication
  <2>3. QED
    BY <1>7, <2>1, <2>2 DEF PayPickApplication
<1>8. CASE SetPaid(s)
  <2>1. CASE UNCHANGED rows /\ thread' = [thread EXCEPT ![s].pc = "payPick"]
    <3>1. thread'[s].pc \notin Writing
      BY <1>1, <2>1 DEF ThreadType, Writing, Working
    <3>2. QED
      BY <1>4, <2>1, <3>1
  <2>2. CASE UNCHANGED rows /\ thread' = [thread EXCEPT ![s] = Idle]
    <3>1. thread'[s].pc \notin Writing
      BY <1>1, <2>2 DEF Idle, Writing, Working
    <3>2. QED
      BY <1>4, <2>2, <3>1
  <2>3. ASSUME NEW r \in thread[s].queue,
               rows' = [rows EXCEPT ![r[1]] = UpdatePayment(@, r[2], "paid")],
               thread' = [thread EXCEPT ![s].queue = @ \ {r}]
        PROVE  TopStays(p, W)
    <3>1. PICK q \in Payments, v \in Nat : r = <<q, v>>
      BY <2>3, ThreadFields DEF TypeInv, RowId
    <3>2. /\ thread[s].pc = "pay" /\ thread'[s].pc = "pay"
          /\ thread'[s].queue = thread[s].queue \ {<<q, v>>}
          /\ rows' = [rows EXCEPT ![q] = UpdatePayment(@, v, "paid")]
      BY <1>1, <1>8, <2>3, <3>1 DEF SetPaid, ThreadType
    <3>3. ASSUME rows'[p] = rows[p]
          PROVE  TopStays(p, W)
      <4>1. TopHeld(thread'[s], p, rows[p], W)
        BY <1>1, <3>2 DEF TopHeld
      <4>2. QED
        BY <1>3, <3>3, <4>1
    <3>4. CASE p = q /\ "pay" \in W
      <4>1. OnTop(rows[p], v) /\ \A w \in Nat : <<p, w>> \in thread[s].queue => OnTop(rows[p], w)
        BY <1>1, <2>3, <3>1, <3>2, <3>4 DEF TopHeld
      <4>2. \A w \in Nat : <<p, w>> \in thread[s].queue => w = v
        BY <1>1, <4>1 DEF OnTop
      <4>3. \A w \in Nat : <<p, w>> \notin thread'[s].queue
        BY <3>2, <3>4, <4>2
      <4>4. TopHeld(thread'[s], p, rows'[p], W)
        BY <3>2, <4>3 DEF TopHeld
      <4>5. rows'[p] = UpdatePayment(rows[p], v, "paid") /\ "paid" \in Statuses
        BY <1>1, <3>2, <3>4 DEF Statuses
      <4>6. QED
        BY <1>2, <3>2, <3>4, <4>1, <4>4, <4>5, RowAdded
    <3>5. CASE p # q
      BY <1>1, <3>2, <3>3, <3>5
    <3>6. CASE SetPaid(s) => rows'[p] = rows[p]
      BY <1>8, <3>3, <3>6
    <3>7. QED
      BY <3>4, <3>5, <3>6
  <2>4. QED
    BY <1>8, <2>1, <2>2, <2>3 DEF SetPaid
<1>9. ASSUME NEW e \in Eras, CountPayments(s, e)
      PROVE  TopStays(p, W)
  <2>1. thread'[s].pc = "counted" /\ UNCHANGED rows
    BY <1>1, <1>9 DEF CountPayments, Idle
  <2>2. QED
    BY <1>5, <2>1 DEF Writing, Working
<1>10. ASSUME NEW q \in Payments, CheckDeletable(s, q)
       PROVE  TopStays(p, W)
  <2>1. thread'[s].pc = "delete" /\ UNCHANGED rows
    BY <1>1, <1>10 DEF CheckDeletable, ThreadType
  <2>2. QED
    BY <1>5, <2>1 DEF Writing, Working
<1>11. CASE StartSettingPaid(s)
  <2>1. thread'[s].pc = "payPick" /\ UNCHANGED rows
    BY <1>1, <1>11 DEF StartSettingPaid, ThreadType
  <2>2. QED
    BY <1>5, <2>1 DEF Writing, Working
<1>12. QED
  BY <1>6, <1>7, <1>8, <1>9, <1>10, <1>11 DEF OfficialStep

LEMMA EnvironmentKeepsTop ==
    ASSUME TypeInv, NEW p \in Payments, NEW W, Working \subseteq W, W \subseteq Writing,
           TopInv(p, W), Environment \/ UNCHANGED vars
    PROVE  TopStays(p, W)
<1>1. /\ rows \in [Payments -> Seq(Row)] /\ thread \in [Threads -> ThreadType]
      /\ rows[p] \in Seq(Row)
      /\ Topped(rows[p]) /\ \A t \in Threads : TopHeld(thread[t], p, rows[p], W)
  BY DEF TypeInv, TypeOK, TopInv
<1>2. ASSUME UNCHANGED thread, rows'[p] \in Seq(Row), Continues(rows'[p], rows[p]),
             Len(rows'[p]) = Len(rows[p]), Topped(rows'[p])
      PROVE  TopStays(p, W)
  <2>1. \A t \in Threads : TopHeld(thread'[t], p, rows'[p], W)
    BY <1>1, <1>2, HoldsStill
  <2>2. TopInv(p, W)'
    BY <1>2, <2>1 DEF TopInv
  <2>3. Pending(rows'[p]) <=> Pending(rows[p])
    BY <1>1, <1>2, SameTop
  <2>4. QED
    BY <1>2, <2>2, <2>3 DEF TopStays
<1>3. ASSUME UNCHANGED thread, rows'[p] = rows[p]
      PROVE  TopStays(p, W)
  BY <1>1, <1>2, <1>3, ContinuesItself
<1>4. CASE UNCHANGED <<rows, thread>>
  BY <1>3, <1>4
<1>5. ASSUME NEW q \in Payments, CreatePayment(q)
      PROVE  TopStays(p, W)
  <2>1. PICK status \in Statuses : rows' = [rows EXCEPT ![q] = <<NewRow(status)>>]
    BY <1>5 DEF CreatePayment
  <2>2. rows[q] = <<>> /\ UNCHANGED thread
    BY <1>5 DEF CreatePayment
  <2>3. CASE p = q
    <3>1. rows'[p] = <<NewRow(status)>>
      BY <1>1, <2>1, <2>3
    <3>2. Topped(rows'[p]) /\ Pending(rows[p]) /\ \A v \in Nat : ~OnTop(rows[p], v)
      BY <2>2, <2>3, <3>1, FirstTopped
    <3>3. ASSUME NEW t \in Threads
          PROVE  TopHeld(thread'[t], p, rows'[p], W)
      <4>1. thread[t].version \in Nat /\ TopHeld(thread[t], p, rows[p], W)
        BY <1>1, ThreadFields DEF TypeInv
      <4>2. QED
        BY <2>2, <3>2, <4>1 DEF TopHeld
    <3>4. TopInv(p, W)'
      BY <3>2, <3>3 DEF TopInv
    <3>5. Len(rows'[p]) = 1 /\ Len(rows[p]) = 0
      BY <2>2, <2>3, <3>1
    <3>6. QED
      BY <3>2, <3>4, <3>5 DEF TopStays
  <2>4. CASE p # q
    BY <1>1, <1>3, <2>1, <2>2, <2>4
  <2>5. QED
    BY <2>3, <2>4
<1>6. CASE DeleteGrantPayments
  <2>1. UNCHANGED thread /\ rows'[p] = DeleteRows(rows[p], Unsent)
    BY <1>6 DEF DeleteGrantPayments
  <2>2. QED
    BY <1>1, <1>2, <2>1, DeleteContinues, DeleteTopped
<1>7. CASE Crash
  <2>1. UNCHANGED rows /\ \A t \in Threads : thread'[t].pc \notin Writing
    BY <1>7 DEF Crash, Idle, Writing, Working
  <2>2. \A t \in Threads : TopHeld(thread'[t], p, rows'[p], W)
    BY <2>1, HoldsNothing
  <2>3. TopInv(p, W)'
    BY <1>1, <2>1, <2>2 DEF TopInv
  <2>4. QED
    BY <2>1, <2>3 DEF TopStays
<1>8. QED
  BY <1>4, <1>5, <1>6, <1>7
     DEF Environment, LateArrival, LateLoss, ChangePayable, Restart, vars

\* Every step keeps the top, as long as the threads that write are alone and
\* those that are not counted among them do not write this maksatus.
LEMMA TopStep ==
    ASSUME TypeInv, [Next]_vars, NEW p \in Payments, NEW W, Working \subseteq W,
           W \subseteq Writing, Alone(W), TopInv(p, W), \A t \in Threads : SendsUnsent(t),
           "pay" \in W \/ \A t \in Threads : SetPaid(t) => rows'[p] = rows[p]
    PROVE  TopStays(p, W)
<1>1. ASSUME NEW s \in Threads, JobStep(s)
      PROVE  TopStays(p, W)
  BY <1>1, JobKeepsTop
<1>2. ASSUME NEW s \in Threads, OfficialStep(s)
      PROVE  TopStays(p, W)
  BY <1>2, OfficialKeepsTop
<1>3. QED
  BY <1>1, <1>2, EnvironmentKeepsTop DEF Next

\* At first nobody holds anything.
LEMMA TopInit ==
    ASSUME Init, NEW p \in Payments, NEW W, W \subseteq Writing, Working \subseteq W
    PROVE  TopInv(p, W) /\ Pending(rows[p])
<1>1. \A t \in Threads : thread[t].pc \notin Writing
  BY DEF Init, Idle, Writing, Working
<1>2. \A t \in Threads : TopHeld(thread[t], p, rows[p], W)
  BY <1>1, HoldsNothing
<1>3. "created" \in Unsent /\ "created" \in Statuses /\ (rows[p] = <<>> \/ rows[p] = <<NewRow("created")>>)
  BY DEF Init, Unsent, Statuses
<1>4. QED
  BY <1>2, <1>3, FirstTopped DEF TopInv

\* One writer: what it may send is unsent, and at most one row is in force.
TopsInv == \A p \in Payments : TopInv(p, Writing)

LEMMA TopsMean ==
    ASSUME TypeInv, TopsInv
    PROVE  OneOpenRow /\ \A t \in Threads : SendsUnsent(t)
<1>1. OneOpenRow
  BY ToppedQueries DEF TypeInv, TypeOK, TopsInv, TopInv, OneOpenRow
<1>2. ASSUME NEW t \in Threads, thread[t].pc = "send", NEW r \in thread[t].queue
      PROVE  At(rows[r[1]], r[2]).status \in Unsent
  <2>1. PICK p \in Payments, v \in Nat : r = <<p, v>>
    BY <1>2, ThreadFields DEF TypeInv, RowId
  <2>2. OnTop(rows[p], v)
    BY <1>2, <2>1 DEF TopsInv, TopInv, TopHeld, Writing, Working
  <2>3. QED
    BY <2>1, <2>2 DEF OnTop, At
<1>3. QED
  BY <1>1, <1>2 DEF SendsUnsent

LEMMA TopsStep ==
    ASSUME TypeInv, OneWriter, TopsInv, [Next]_vars, NEW p \in Payments
    PROVE  TopStays(p, Writing)
<1>1. Working \subseteq Writing /\ "pay" \in Writing
  BY DEF Writing
<1>2. QED
  BY <1>1, TopStep, TopsMean DEF OneWriter, TopsInv

LEMMA TopsInvariant == Spec /\ []OneWriter => []TopsInv
<1>1. Init => TopsInv
  BY TopInit DEF TopsInv, Writing
<1>2. TypeInv /\ OneWriter /\ TopsInv /\ [Next]_vars => TopsInv'
  BY TopsStep DEF TopStays, TopsInv
<1>3. QED
  BY <1>1, <1>2, TypeInvariant, PTL DEF Spec

\* At most one row of a maksatus is in force, whatever is created, deleted, marked
\* as paid or interrupted, as long as one thread at a time works through the
\* unsent maksatukset (update-payment, run-send-job!, set-payments-paid).
THEOREM OneRowInForce == Spec /\ []OneWriter => []OneOpenRow
BY TopsMean, TopsInvariant, TypeInvariant, PTL

\* What has been sent is on top of its history.
SentOnTop == \A p \in Payments : EverSent(rows[p]) => ~Pending(rows[p])

LEMMA SentOnTopStep ==
    ASSUME TypeInv, OneWriter, TopsInv, SentOnTop, [Next]_vars
    PROVE  SentOnTop'
<1> SUFFICES ASSUME NEW p \in Payments, EverSent(rows'[p])
             PROVE  ~Pending(rows'[p])
  BY DEF SentOnTop
<1>1. /\ rows[p] \in Seq(Row) /\ rows'[p] \in Seq(Row)
      /\ Continues(rows'[p], rows[p])
  BY RowsContinue DEF TypeInv, TypeOK
<1>2. TopStays(p, Writing)
  BY TopsStep
<1>3. CASE EverSent(rows[p])
  BY <1>2, <1>3 DEF SentOnTop, TopStays
<1>4. CASE ~EverSent(rows[p])
  <2>1. PICK i \in 1..Len(rows'[p]) : rows'[p][i].status \in {"sent", "paid"}
    BY DEF EverSent
  <2>2. i \notin 1..Len(rows[p])
    BY <1>1, <1>4, <2>1 DEF EverSent, Continues
  <2>3. i = Len(rows'[p])
    BY <1>1, <1>2, <2>1, <2>2 DEF TopStays
  <2>4. QED
    BY <2>1, <2>3 DEF Pending, Unsent
<1>5. QED
  BY <1>3, <1>4

\* A maksatus that has been sent gets no further row, and the one that says so
\* stays in force, although officials may delete the rows it was made from.
THEOREM SentStaysInForce ==
    Spec /\ []OneWriter =>
      [][\A p \in Payments : EverSent(rows[p]) =>
           /\ Len(rows'[p]) = Len(rows[p])
           /\ rows'[p][Len(rows[p])] = rows[p][Len(rows[p])]]_vars
<1> DEFINE Final == \A p \in Payments : EverSent(rows[p]) =>
                      /\ Len(rows'[p]) = Len(rows[p])
                      /\ rows'[p][Len(rows[p])] = rows[p][Len(rows[p])]
<1>1. Init => SentOnTop
  <2>1. ~EverSent(<<>>) /\ ~EverSent(<<NewRow("created")>>)
    BY DEF EverSent, NewRow
  <2>2. QED
    BY <2>1 DEF Init, SentOnTop
<1>2. ASSUME TypeInv, OneWriter, TopsInv, SentOnTop, [Next]_vars
      PROVE  Final
  <2> SUFFICES ASSUME NEW p \in Payments, EverSent(rows[p])
               PROVE  /\ Len(rows'[p]) = Len(rows[p])
                      /\ rows'[p][Len(rows[p])] = rows[p][Len(rows[p])]
    OBVIOUS
  <2>1. /\ rows[p] \in Seq(Row) /\ rows'[p] \in Seq(Row)
        /\ Continues(rows'[p], rows[p]) /\ TopStays(p, Writing) /\ Topped(rows[p])
    BY <1>2, RowsContinue, TopsStep DEF TypeInv, TypeOK, TopsInv, TopInv
  <2>2. ~Pending(rows[p]) /\ ~Pending(rows'[p]) /\ Topped(rows'[p])
        /\ Len(rows'[p]) = Len(rows[p])
    BY <1>2, <2>1 DEF SentOnTop, TopStays, TopInv
  <2> DEFINE n == Len(rows[p])
  <2>3. n > 0 /\ n \in 1..n
    BY <2>1, <2>2 DEF Pending
  <2>4. /\ rows[p][n] \in Row /\ rows'[p][n] \in Row
        /\ rows'[p][n].status = rows[p][n].status
    BY <2>1, <2>2, <2>3 DEF Continues
  <2>5. /\ rows[p][n].open /\ ~rows[p][n].deleted
        /\ rows'[p][n].open /\ ~rows'[p][n].deleted
    BY <2>1, <2>2 DEF Topped
  <2>6. ASSUME NEW r \in Row, r.open, ~r.deleted
        PROVE  r = NewRow(r.status)
    <3>1. r = [status |-> r.status, open |-> r.open, deleted |-> r.deleted]
      BY DEF Row
    <3>2. r.open = TRUE /\ r.deleted = FALSE
      BY <2>6 DEF Row
    <3>3. QED
      BY <3>1, <3>2 DEF NewRow
  <2>7. QED
    BY <2>2, <2>4, <2>5, <2>6
<1>3. TypeInv /\ OneWriter /\ TopsInv /\ SentOnTop /\ [Next]_vars => SentOnTop' /\ [Final]_vars
  BY <1>2, SentOnTopStep
<1>4. QED
  BY <1>1, <1>3, TopsInvariant, TypeInvariant, PTL DEF Spec

-----------------------------------------------------------------------------
(* What Rondo holds, one writer at a time.                                 *)

\* No job has put the file of this maksatus and not yet written so.
Unmarked(p) == \A t \in Threads : ~(thread[t].pc = "mark" /\ thread[t].payment = p)

\* Of a pending maksatus Rondo has only the files whose outcome was unsure; the
\* one put that succeeds adds one.
FilesOf(p) ==
    /\ rondo[p] + late[p] <= 1 + unsure[p]
    /\ Pending(rows[p]) /\ Unmarked(p) => rondo[p] + late[p] <= unsure[p]

FilesInv == \A p \in Payments : FilesOf(p)

\* A job that leaves "mark" has written the row, or knows it does not know.
LEMMA LeavesMark ==
    ASSUME TypeInv, NEW t \in Threads, JobStep(t), thread[t].pc = "mark"
    PROVE  LET p == thread[t].payment IN
           \/ ~Pending(rows'[p]) /\ UNCHANGED <<rondo, late, unsure>>
           \/ /\ unsure' = [unsure EXCEPT ![p] = @ + 1]
              /\ UNCHANGED <<rows, rondo, late>>
<1> DEFINE p == thread[t].payment
           v == thread[t].version
<1>1. p \in Payments /\ v \in Nat /\ rows \in [Payments -> Seq(Row)]
  BY ThreadFields DEF TypeInv, TypeOK
<1>2. MarkSent(t) \/ JobThrows(t)
  BY DEF JobStep, ClaimEra, ClaimRefused, PickApplication, ApplicationDone,
         AllApplicationsDone, AddBatchRow, PutFindsNoRow, Put, PutSucceeds, PutFails,
         PutFailsAfterDelivery, PutTimesOut, IncSentCount, Notify, MarkSendFinished,
         JobEscapes
<1>3. CASE JobThrows(t)
  BY <1>3 DEF JobThrows
<1>4. CASE MarkSent(t)
  <2>1. CASE rows' = [rows EXCEPT ![p] = UpdatePayment(@, v, "sent")] /\ UNCHANGED unsure
    <3>1. rows[p] \in Seq(Row) /\ "sent" \in Statuses /\ Len(rows[p]) \in Nat
      BY <1>1 DEF Statuses
    <3>2. /\ Len(UpdatePayment(rows[p], v, "sent")) = Len(rows[p]) + 1
          /\ UpdatePayment(rows[p], v, "sent")[Len(rows[p]) + 1].status = "sent"
      <4> HIDE DEF p, v
      <4> QED BY <1>1, <3>1, UpdateContinues
    <3>3. ~Pending(rows'[p])
      BY <1>1, <2>1, <3>1, <3>2 DEF Pending, Unsent
    <3>4. QED
      BY <1>4, <2>1, <3>3 DEF MarkSent
  <2>2. CASE unsure' = [unsure EXCEPT ![p] = @ + 1] /\ UNCHANGED rows
    BY <1>4, <2>2 DEF MarkSent
  <2>3. QED
    BY <1>4, <2>1, <2>2 DEF MarkSent
<1>5. QED
  BY <1>2, <1>3, <1>4

\* A crash makes the outcome of every put and every mark it meets unsure.
LEMMA CrashCounts ==
    ASSUME TypeInv, Crash, NEW p \in Payments
    PROVE  /\ late'[p] = 0
           /\ rondo'[p] + unsure[p] <= rondo[p] + unsure'[p]
           /\ ~Unmarked(p) => rondo'[p] + unsure[p] + 1 <= rondo[p] + unsure'[p]
<1> DEFINE Busy == {t \in Threads :
                      thread[t].payment = p /\ thread[t].pc \in {"put", "mark"}}
<1>1. PICK S \in SUBSET {t \in Threads : thread[t].pc = "put"} :
        rondo' = [q \in Payments |->
                    rondo[q] + Cardinality({t \in S : thread[t].payment = q})]
  BY DEF Crash
<1> DEFINE Taken == {t \in S : thread[t].payment = p}
<1>2. /\ late'[p] = 0 /\ unsure'[p] = unsure[p] + Cardinality(Busy)
      /\ rondo'[p] = rondo[p] + Cardinality(Taken)
  BY <1>1 DEF Crash
<1>3. IsFiniteSet(Busy) /\ IsFiniteSet(Taken)
      /\ Taken \subseteq Busy
  BY <1>1, SetsAssumption, FS_Subset
<1>4. Cardinality(Busy) \in Nat /\ Cardinality(Taken) \in Nat
      /\ Cardinality(Taken) <= Cardinality(Busy)
  BY <1>3, FS_CardinalityType, FS_Subset
<1>5. rondo[p] \in Nat /\ unsure[p] \in Nat
  BY DEF TypeInv, TypeOK
<1>6. ASSUME ~Unmarked(p)
      PROVE  Cardinality(Taken) + 1 <= Cardinality(Busy)
  <2>1. PICK t \in Threads : thread[t].pc = "mark" /\ thread[t].payment = p
    BY <1>6 DEF Unmarked
  <2>2. t \in Busy /\ t \notin Taken
    BY <1>1, <2>1
  <2>3. Cardinality(Taken \cup {t}) = Cardinality(Taken) + 1
    BY <1>3, <2>2, FS_AddElement
  <2>4. Cardinality(Taken \cup {t}) <= Cardinality(Busy)
    BY <1>3, <2>2, FS_Subset
  <2>5. QED
    BY <2>3, <2>4
<1> HIDE DEF Busy, Taken
<1>7. QED
  BY <1>2, <1>4, <1>5, <1>6

\* Only the put of a maksatus that is pending and not yet put adds a file
\* whose outcome the job knows.
LEMMA FilesStep ==
    ASSUME TypeInv, TypeInv', OneWriter, TopsInv, FilesInv, [Next]_vars
    PROVE  FilesInv'
<1>1. /\ rondo \in [Payments -> Nat] /\ late \in [Payments -> Nat]
      /\ unsure \in [Payments -> Nat]
      /\ rondo' \in [Payments -> Nat] /\ late' \in [Payments -> Nat]
      /\ unsure' \in [Payments -> Nat]
      /\ thread \in [Threads -> ThreadType] /\ rows \in [Payments -> Seq(Row)]
  BY DEF TypeInv, TypeOK
<1> SUFFICES ASSUME NEW p \in Payments
             PROVE  /\ rondo'[p] + late'[p] <= 1 + unsure'[p]
                    /\ Pending(rows'[p]) /\ Unmarked(p)'
                         => rondo'[p] + late'[p] <= unsure'[p]
  BY DEF FilesInv, FilesOf
<1> DEFINE Files == rondo[p] + late[p]
           FilesNext == rondo'[p] + late'[p]
           Goal == /\ FilesNext <= 1 + unsure'[p]
                   /\ Pending(rows'[p]) /\ Unmarked(p)' => FilesNext <= unsure'[p]
<1>2. /\ Files <= 1 + unsure[p]
      /\ Pending(rows[p]) /\ Unmarked(p) => Files <= unsure[p]
      /\ Files \in Nat /\ FilesNext \in Nat /\ unsure[p] \in Nat /\ unsure'[p] \in Nat
  BY <1>1 DEF FilesInv, FilesOf
<1> HIDE DEF Files, FilesNext
<1>3. Pending(rows'[p]) => Pending(rows[p])
  BY TopsStep DEF TopStays
\* What comes in is matched by what is unsure, and no mark is lost unseen.
<1>4. ASSUME NEW n \in Nat, FilesNext <= Files + n, unsure'[p] >= unsure[p] + n,
             Pending(rows'[p]) /\ Unmarked(p)' => Unmarked(p)
      PROVE  Goal
  BY <1>2, <1>3, <1>4
<1>5. ASSUME NEW s \in Threads, thread[s].pc # "mark",
             \A t \in Threads \ {s} : thread'[t] = thread[t], Unmarked(p)'
      PROVE  Unmarked(p)
  BY <1>5 DEF Unmarked
<1>6. ASSUME UNCHANGED thread, FilesNext <= Files, unsure' = unsure
      PROVE  Goal
  <2>1. Unmarked(p)' => Unmarked(p)
    BY <1>6 DEF Unmarked
  <2>2. QED
    BY <1>2, <1>3, <1>6, <2>1
<1>7. ASSUME NEW t \in Threads, JobStep(t)
      PROVE  Goal
  <2>1. \A s \in Threads \ {t} : thread'[s] = thread[s]
    BY <1>1, <1>7, OthersStand
  <2>2. CASE thread[t].pc = "mark"
    <3> DEFINE q == thread[t].payment
    <3>1. q \in Payments
      BY ThreadFields DEF TypeInv
    <3>2. CASE ~Pending(rows'[q]) /\ UNCHANGED <<rondo, late, unsure>>
      <4>1. FilesNext = Files /\ unsure'[p] = unsure[p]
        BY <3>2 DEF Files, FilesNext
      <4>2. Pending(rows'[p]) /\ Unmarked(p)' => Unmarked(p)
        BY <2>1, <3>2 DEF Unmarked
      <4>3. QED
        BY <1>2, <1>4, <4>1, <4>2
    <3>3. CASE unsure' = [unsure EXCEPT ![q] = @ + 1] /\ UNCHANGED <<rows, rondo, late>>
      <4>1. FilesNext = Files
        BY <3>3 DEF Files, FilesNext
      <4>2. CASE p = q
        <5>1. unsure'[p] = unsure[p] + 1
          BY <1>1, <3>3, <4>2
        <5>2. QED
          BY <1>2, <4>1, <5>1
      <4>3. CASE p # q
        <5>1. unsure'[p] = unsure[p]
          BY <1>1, <3>3, <4>3
        <5>2. Unmarked(p)' => Unmarked(p)
          BY <2>1, <4>3 DEF Unmarked
        <5>3. QED
          BY <1>2, <1>4, <4>1, <5>1, <5>2
      <4>4. QED
        BY <4>2, <4>3
    <3>4. QED
      BY <1>7, <2>2, <3>2, <3>3, LeavesMark
  <2>3. CASE thread[t].pc # "mark" /\ UNCHANGED <<rondo, late, unsure>>
    <3>1. FilesNext = Files /\ unsure'[p] = unsure[p]
      BY <2>3 DEF Files, FilesNext
    <3>2. Unmarked(p)' => Unmarked(p)
      BY <1>5, <2>1, <2>3
    <3>3. QED
      BY <1>2, <1>4, <3>1, <3>2
  <2>4. CASE PutSucceeds(t)
    <3> DEFINE q == thread[t].payment
    <3>1. /\ q \in Payments /\ thread[t].pc = "put" /\ UNCHANGED <<rows, late, unsure>>
          /\ rondo' = [rondo EXCEPT ![q] = @ + 1]
          /\ thread'[t].pc = "mark" /\ thread'[t].payment = q
      BY <1>1, <2>4, ThreadFields DEF PutSucceeds, Put, TypeInv, ThreadType
    <3>2. CASE p = q
      <4>1. Pending(rows[p])
        BY <3>1, <3>2 DEF TopsInv, TopInv, TopHeld, OnTop, Pending
      <4>2. Unmarked(p)
        BY <3>1 DEF OneWriter, Alone, Writing, Working, Unmarked
      <4>3. FilesNext = Files + 1 /\ unsure'[p] = unsure[p]
        BY <1>1, <3>1, <3>2 DEF Files, FilesNext
      <4>4. ~Unmarked(p)'
        BY <3>1, <3>2 DEF Unmarked
      <4>5. QED
        BY <1>2, <4>1, <4>2, <4>3, <4>4
    <3>3. CASE p # q
      <4>1. FilesNext = Files /\ unsure'[p] = unsure[p]
        BY <1>1, <3>1, <3>3 DEF Files, FilesNext
      <4>2. Unmarked(p)' => Unmarked(p)
        BY <1>5, <2>1, <3>1
      <4>3. QED
        BY <1>2, <1>4, <4>1, <4>2
    <3>4. QED
      BY <3>2, <3>3
  <2>5. CASE PutFailsAfterDelivery(t) \/ PutTimesOut(t)
    <3> DEFINE q == thread[t].payment
    <3>1. /\ q \in Payments /\ thread[t].pc = "put"
          /\ unsure' = [unsure EXCEPT ![q] = @ + 1]
          /\ \/ rondo' = [rondo EXCEPT ![q] = @ + 1] /\ late' = late
             \/ late' = [late EXCEPT ![q] = @ + 1] /\ rondo' = rondo
      BY <2>5, ThreadFields DEF PutFailsAfterDelivery, PutTimesOut, Put, TypeInv
    <3>2. Unmarked(p)' => Unmarked(p)
      BY <1>5, <2>1, <3>1
    <3>3. CASE p = q
      <4>1. FilesNext = Files + 1 /\ unsure'[p] = unsure[p] + 1
        BY <1>1, <3>1, <3>3 DEF Files, FilesNext
      <4>2. QED
        BY <1>2, <1>4, <3>2, <4>1
    <3>4. CASE p # q
      <4>1. FilesNext = Files /\ unsure'[p] = unsure[p]
        BY <1>1, <3>1, <3>4 DEF Files, FilesNext
      <4>2. QED
        BY <1>2, <1>4, <3>2, <4>1
    <3>5. QED
      BY <3>3, <3>4
  <2>6. JobThrows(t) /\ thread[t].pc # "mark" => UNCHANGED <<rondo, late, unsure>>
    BY DEF JobThrows
  <2>7. QED
    BY <1>7, <2>2, <2>3, <2>4, <2>5, <2>6
       DEF JobStep, ClaimEra, ClaimRefused, PickApplication, ApplicationDone,
           AllApplicationsDone, AddBatchRow, PutFindsNoRow, Put, PutFails,
           MarkSent, IncSentCount, Notify, MarkSendFinished, JobEscapes
<1>8. ASSUME NEW t \in Threads, OfficialStep(t)
      PROVE  Goal
  <2>1. UNCHANGED <<rondo, late, unsure>> /\ thread[t].pc # "mark"
    BY <1>8 DEF OfficialStep, CountPayments, CheckDeletable, DeletePayment,
                StartSettingPaid, PayPickApplication, SetPaid
  <2>2. \A s \in Threads \ {t} : thread'[s] = thread[s]
    BY <1>1, <1>8 DEF OfficialStep, CountPayments, CheckDeletable, DeletePayment,
                      StartSettingPaid, PayPickApplication, SetPaid
  <2>3. Unmarked(p)' => Unmarked(p)
    BY <1>5, <2>1, <2>2
  <2>4. FilesNext = Files /\ unsure'[p] = unsure[p]
    BY <2>1 DEF Files, FilesNext
  <2>5. QED
    BY <1>2, <1>4, <2>3, <2>4
<1>9. ASSUME NEW q \in Payments, LateArrival(q) \/ LateLoss(q)
      PROVE  Goal
  <2>1. CASE LateArrival(q)
    BY <1>1, <1>6, <2>1 DEF LateArrival, Files, FilesNext
  <2>2. CASE LateLoss(q)
    BY <1>1, <1>6, <2>2 DEF LateLoss, Files, FilesNext
  <2>3. QED
    BY <1>9, <2>1, <2>2
<1>10. CASE Crash
  <2>1. /\ late'[p] = 0
        /\ rondo'[p] + unsure[p] <= rondo[p] + unsure'[p]
        /\ ~Unmarked(p) => rondo'[p] + unsure[p] + 1 <= rondo[p] + unsure'[p]
    BY <1>10, CrashCounts
  <2>2. /\ rondo[p] \in Nat /\ late[p] \in Nat /\ unsure[p] \in Nat
        /\ rondo'[p] \in Nat /\ unsure'[p] \in Nat
    BY <1>1
  <2>3. FilesNext = rondo'[p] /\ rondo[p] <= Files
    BY <2>1, <2>2 DEF Files, FilesNext
  <2>4. QED
    BY <1>2, <1>3, <2>1, <2>2, <2>3
<1>11. CASE UNCHANGED <<thread, rondo, late, unsure>>
  BY <1>2, <1>6, <1>11 DEF Files, FilesNext
<1>12. QED
  BY <1>7, <1>8, <1>9, <1>10, <1>11
     DEF Next, Environment, CreatePayment, ChangePayable, DeleteGrantPayments, Restart,
         vars, Files, FilesNext

LEMMA FilesInvariant == Spec /\ []OneWriter => []FilesInv
<1>1. Init => FilesInv
  BY DEF Init, FilesInv, FilesOf
<1>2. TypeInv /\ TypeInv' /\ OneWriter /\ TopsInv /\ FilesInv /\ [Next]_vars => FilesInv'
  BY FilesStep
<1>3. QED
  BY <1>1, <1>2, TopsInvariant, TypeInvariant, PTL DEF Spec

\* Rondo gets a second file of a maksatus only after an attempt whose outcome
\* the job could not know, whatever is created, deleted, marked as paid or
\* interrupted, as long as one thread at a time works through the unsent
\* maksatukset (run-send-job!).
THEOREM NoKnownDuplicates ==
    Spec /\ []OneWriter => []DuplicatesOnlyAfterUnsureOutcome
<1>1. FilesInv => DuplicatesOnlyAfterUnsureOutcome
  BY DEF FilesInv, FilesOf, DuplicatesOnlyAfterUnsureOutcome
<1>2. QED
  BY <1>1, FilesInvariant, PTL

-----------------------------------------------------------------------------
(* One job at a time, and nobody edits the maksatukset meanwhile.          *)

OneJob ==
    \A s, t \in Threads :
      thread[s].pc \in JobSteps /\ thread[t].pc \in JobSteps => s = t

\* The premise of the theorems of this section.
Undisturbed == MaxEdits = 0 /\ OneJob

\* Then no official's thread is at work and the table of applications stands.
QuietInv ==
    /\ budget.edits = 0
    /\ payable = Applications
    /\ \A t \in Threads : thread[t].pc \notin {"delete", "payPick", "pay"}

OrderlyInv == \A p \in Payments : Orderly(rows[p])

\* What a job holds: its queue is as fresh as when it was read, and the row it
\* puts is the one in force, of a maksatus that is not in the queue any more.
HeldBy(r, table) ==
    /\ r.pc \in {"send", "put", "mark", "count"} =>
         \A p \in Payments, v \in Nat : <<p, v>> \in r.queue => Fresh(table[p], v)
    /\ r.pc \in {"put", "mark"} =>
         /\ Fresh(table[r.payment], r.version)
         /\ \A v \in Nat : <<r.payment, v>> \notin r.queue

HeldInv == \A t \in Threads : HeldBy(thread[t], rows)

\* What is fresh is unsent.
LEMMA HeldAreUnsent ==
    ASSUME TypeInv, HeldInv, NEW t \in Threads
    PROVE  SendsUnsent(t)
<1> SUFFICES ASSUME thread[t].pc = "send", NEW r \in thread[t].queue
             PROVE  At(rows[r[1]], r[2]).status \in Unsent
  BY DEF SendsUnsent
<1>1. PICK p \in Payments, v \in Nat : r = <<p, v>>
  BY ThreadFields DEF TypeInv, RowId
<1>2. Fresh(rows[p], v) /\ rows[p] \in Seq(Row)
  BY <1>1 DEF HeldInv, HeldBy, TypeInv, TypeOK
<1>3. v + 1 \in 1..Len(rows[p])
  BY <1>1, <1>2 DEF Fresh
<1>4. QED
  BY <1>1, <1>2, <1>3, NeverSent DEF At, Fresh

\* At first nobody works.
LEMMA QuietInit ==
    ASSUME MaxEdits = 0, Init
    PROVE  QuietInv
<1>1. \A t \in Threads : thread[t].pc = "idle"
  BY DEF Init, Idle
<1>2. QED
  BY <1>1 DEF Init, QuietInv

\* At first the initial maksatukset have one row each.
LEMMA SerialInit ==
    ASSUME MaxEdits = 0, Init
    PROVE  QuietInv /\ OrderlyInv /\ HeldInv
<1>1. \A t \in Threads : thread[t].pc = "idle"
  BY DEF Init, Idle
<1>2. QuietInv
  BY QuietInit
<1>3. HeldInv
  BY <1>1 DEF HeldInv, HeldBy
<1>4. Orderly(<<NewRow("created")>>) /\ Orderly(<<>>)
  BY DEF Orderly, NewRow
<1>5. OrderlyInv
  BY <1>4 DEF Init, OrderlyInv
<1>6. QED
  BY <1>2, <1>3, <1>5

\* With nothing left to edit, an official can only ask for a send.
LEMMA QuietOfficial ==
    ASSUME QuietInv, NEW t \in Threads, OfficialStep(t)
    PROVE  \E e \in Eras : CountPayments(t, e)
<1>1. ~Spend("edits")
  BY DEF Spend, QuietInv
<1>2. thread[t].pc \notin {"delete", "payPick", "pay"}
  BY DEF QuietInv
<1>3. QED
  BY <1>1, <1>2 DEF OfficialStep, CheckDeletable, StartSettingPaid, DeletePayment,
                    PayPickApplication, SetPaid

\* With nothing left to edit, only jobs, requests, late answers, a crash and a
\* restart are possible.
LEMMA QuietSteps ==
    ASSUME TypeInv, QuietInv, [Next]_vars
    PROVE  \/ \E t \in Threads : JobStep(t) \/ \E e \in Eras : CountPayments(t, e)
           \/ \E p \in Payments : LateArrival(p) \/ LateLoss(p)
           \/ Crash \/ Restart \/ UNCHANGED vars
<1>1. ~Spend("edits")
  BY DEF Spend, QuietInv
<1>2. Environment => \/ \E p \in Payments : LateArrival(p) \/ LateLoss(p)
                     \/ Crash \/ Restart
  BY <1>1 DEF Environment, CreatePayment, ChangePayable, DeleteGrantPayments
<1>3. QED
  BY <1>2, QuietOfficial DEF Next

\* A step that writes a row is the work of a job on the row in force.
LEMMA SerialWrites ==
    ASSUME TypeInv, QuietInv, HeldInv, [Next]_vars, rows' # rows
    PROVE  \E t \in Threads, p \in Payments, v \in Nat, status \in Statuses :
             /\ rows' = [rows EXCEPT ![p] = UpdatePayment(@, v, status)]
             /\ Fresh(rows[p], v)
             /\ \/ Adds(t, p, v, status)
                \/ Marks(t, p, v) /\ status = "sent"
<1>1. PICK t \in Threads : JobStep(t)
  BY QuietSteps DEF CountPayments, LateArrival, LateLoss, Crash, Restart, vars
<1>2. ASSUME NEW p \in Payments, NEW v \in Nat, NEW status \in Unsent,
             Adds(t, p, v, status)
      PROVE  /\ rows' = [rows EXCEPT ![p] = UpdatePayment(@, v, status)]
             /\ Fresh(rows[p], v) /\ status \in Statuses
  BY <1>2 DEF Adds, HeldInv, HeldBy, Unsent, Statuses
<1>3. ASSUME NEW p \in Payments, NEW v \in Nat, Marks(t, p, v)
      PROVE  /\ rows' = [rows EXCEPT ![p] = UpdatePayment(@, v, "sent")]
             /\ Fresh(rows[p], v) /\ "sent" \in Statuses
  BY <1>3 DEF Marks, HeldInv, HeldBy, Statuses
<1>4. \/ \E p \in Payments, v \in Nat, status \in Unsent : Adds(t, p, v, status)
      \/ \E p \in Payments, v \in Nat : Marks(t, p, v)
  BY <1>1, JobMoves, HeldAreUnsent
<1>5. QED
  BY <1>2, <1>3, <1>4

\* The threads of officials stay away.
LEMMA QuietStep ==
    ASSUME TypeInv, QuietInv, \A t \in Threads : SendsUnsent(t), [Next]_vars
    PROVE  QuietInv'
<1>1. ASSUME NEW t \in Threads
      PROVE  thread'[t].pc \notin {"delete", "payPick", "pay"}
  <2>1. CASE thread'[t] = thread[t] \/ thread'[t] = Idle
    BY <2>1 DEF QuietInv, Idle
  <2>2. CASE JobStep(t)
    BY <2>2, JobMoves DEF Adds, Marks
  <2>3. CASE OfficialStep(t)
    <3>1. PICK e \in Eras : CountPayments(t, e)
      BY <2>3, QuietOfficial
    <3>2. thread'[t].pc = "counted"
      BY <3>1 DEF CountPayments, Idle, TypeInv, TypeOK
    <3>3. QED
      BY <3>2
  <2>4. QED
    BY <2>1, <2>2, <2>3, OwnStep
<1>2. payable' = payable
  <2>1. \A t \in Threads : JobStep(t) => payable' = payable
    BY DEF JobStep, ClaimEra, ClaimRefused, PickApplication, ApplicationDone,
           AllApplicationsDone, AddBatchRow, PutFindsNoRow, Put, PutSucceeds,
           PutFails, PutFailsAfterDelivery, PutTimesOut, MarkSent, IncSentCount,
           Notify, JobThrows, MarkSendFinished, JobEscapes
  <2>2. QED
    BY <2>1, QuietSteps DEF CountPayments, LateArrival, LateLoss, Crash, Restart, vars
<1>3. budget'.edits = 0
  <2>1. \A t \in Threads : JobStep(t) => budget' = budget
    BY DEF JobStep, ClaimEra, ClaimRefused, PickApplication, ApplicationDone,
           AllApplicationsDone, AddBatchRow, PutFindsNoRow, Put, PutSucceeds,
           PutFails, PutFailsAfterDelivery, PutTimesOut, MarkSent, IncSentCount,
           Notify, JobThrows, MarkSendFinished, JobEscapes
  <2>2. \A what \in {"starts", "crashes"} : Spend(what) => budget'.edits = budget.edits
    BY DEF Spend, TypeInv, TypeOK
  <2>3. CASE budget' = budget
    BY <2>3 DEF QuietInv
  <2>4. CASE \E what \in {"starts", "crashes"} : Spend(what)
    BY <2>2, <2>4 DEF QuietInv
  <2>5. budget' = budget \/ \E what \in {"starts", "crashes"} : Spend(what)
    BY <2>1, QuietSteps DEF CountPayments, LateArrival, LateLoss, Crash, Restart, vars
  <2>6. QED
    BY <2>3, <2>4, <2>5
<1>4. QED
  BY <1>1, <1>2, <1>3 DEF QuietInv

\* Histories stay orderly.
LEMMA OrderlyStep ==
    ASSUME TypeInv, QuietInv, OrderlyInv, HeldInv, [Next]_vars
    PROVE  OrderlyInv'
<1>1. rows \in [Payments -> Seq(Row)]
  BY DEF TypeInv, TypeOK
<1>2. CASE rows' = rows
  BY <1>2 DEF OrderlyInv
<1>3. CASE rows' # rows
  <2>1. PICK p \in Payments, v \in Nat, status \in Statuses :
          /\ rows' = [rows EXCEPT ![p] = UpdatePayment(@, v, status)]
          /\ Fresh(rows[p], v)
    BY <1>3, SerialWrites
  <2>2. Orderly(UpdatePayment(rows[p], v, status))
    BY <1>1, <2>1, UpdateOrderly DEF OrderlyInv
  <2>3. QED
    BY <1>1, <2>1, <2>2 DEF OrderlyInv
<1>4. QED
  BY <1>2, <1>3

\* What a query returns on orderly histories is fresh, ...
LEMMA QueryFresh ==
    ASSUME TypeInv, OrderlyInv, NEW a, NEW p \in Payments, NEW v \in Nat,
           <<p, v>> \in UnsentRowsOf(a)
    PROVE  Fresh(rows[p], v)
<1>1. v \in UnsentVersions(rows[p])
  BY DEF UnsentRowsOf
<1>2. rows[p] \in Seq(Row) /\ Orderly(rows[p])
  BY DEF TypeInv, TypeOK, OrderlyInv
<1>3. QED
  BY <1>1, <1>2, OrderlyQueries

\* ... and stays so while the job works through it.
LEMMA HeldStep ==
    ASSUME TypeInv, OneJob, QuietInv, OrderlyInv, HeldInv, [Next]_vars
    PROVE  HeldInv'
<1>1. rows \in [Payments -> Seq(Row)] /\ thread \in [Threads -> ThreadType]
  BY DEF TypeInv, TypeOK
<1> SUFFICES ASSUME NEW t \in Threads
             PROVE  HeldBy(thread'[t], rows')
  BY DEF HeldInv
<1>2. CASE thread'[t].pc \notin {"send", "put", "mark", "count"}
  BY <1>2 DEF HeldBy
<1>3. CASE thread'[t] = thread[t] /\ thread[t].pc \in {"send", "put", "mark", "count"}
  <2>1. rows' = rows
    <3>1. SUFFICES ASSUME rows' # rows PROVE FALSE
      OBVIOUS
    <3>2. PICK s \in Threads : thread[s].pc \in JobSteps /\ thread'[s] # thread[s]
      BY <3>1, SerialWrites, WritersMove
    <3>3. s = t
      BY <1>3, <3>2 DEF OneJob, JobSteps
    <3>4. QED
      BY <1>3, <3>2, <3>3
  <2>2. QED
    BY <1>3, <2>1 DEF HeldInv
<1>4. CASE JobStep(t)
  <2>1. CASE thread'[t].pc \in {"idle", "pick", "notify", "finish", "escaped"}
    BY <1>2, <2>1
  <2>2. ASSUME NEW a \in Applications, thread'[t].queue = UnsentRowsOf(a),
               thread'[t].pc = "send", UNCHANGED rows
        PROVE  HeldBy(thread'[t], rows')
    BY <2>2, QueryFresh DEF HeldBy
  <2>3. ASSUME <<thread[t].pc, thread'[t].pc>> \in
                  {<<"put", "send">>, <<"put", "mark">>, <<"count", "send">>},
               thread'[t].queue = thread[t].queue,
               thread'[t].payment = thread[t].payment,
               thread'[t].version = thread[t].version,
               UNCHANGED rows
        PROVE  HeldBy(thread'[t], rows')
    BY <2>3 DEF HeldInv, HeldBy
  <2>4. ASSUME NEW p \in Payments, NEW v \in Nat, NEW status \in Unsent,
               Adds(t, p, v, status)
        PROVE  HeldBy(thread'[t], rows')
    <3> DEFINE g == UpdatePayment(rows[p], v, status)
    <3>1. /\ rows' = [rows EXCEPT ![p] = g] /\ thread'[t].pc = "put"
          /\ thread'[t].queue = thread[t].queue \ {<<p, v>>}
          /\ thread'[t].payment = p /\ thread'[t].version = Len(rows[p])
          /\ <<p, v>> \in thread[t].queue /\ thread[t].pc = "send"
      BY <2>4 DEF Adds
    <3>2. \A q \in Payments, w \in Nat :
            <<q, w>> \in thread[t].queue => Fresh(rows[q], w)
      BY <3>1 DEF HeldInv, HeldBy
    <3>3. Fresh(g, Len(rows[p])) /\ rows'[p] = g
      <4>1. rows[p] \in Seq(Row) /\ Orderly(rows[p]) /\ Fresh(rows[p], v)
            /\ status \in Statuses /\ status \notin {"sent", "paid"}
        BY <1>1, <3>1, <3>2 DEF OrderlyInv, Unsent, Statuses
      <4>2. Len(g) = Len(rows[p]) + 1 /\ ~EverSent(g)
        BY <4>1, UpdateOrderly
      <4>3. QED
        BY <1>1, <3>1, <4>2 DEF Fresh
    <3>4. \A w \in Nat : <<p, w>> \in thread[t].queue => w = v
      BY <1>1, <3>1, <3>2 DEF Fresh
    <3>5. \A w \in Nat : <<p, w>> \notin thread'[t].queue
      BY <3>1, <3>4
    <3> HIDE DEF g
    <3>6. \A q \in Payments, w \in Nat :
            <<q, w>> \in thread'[t].queue => Fresh(rows'[q], w)
      BY <1>1, <3>1, <3>2, <3>5
    <3>7. QED
      BY <3>1, <3>3, <3>5, <3>6 DEF HeldBy
  <2>5. ASSUME NEW p \in Payments, NEW v \in Nat, Marks(t, p, v)
        PROVE  HeldBy(thread'[t], rows')
    <3>1. /\ rows' = [rows EXCEPT ![p] = UpdatePayment(@, v, "sent")]
          /\ thread'[t].pc = "count" /\ thread'[t].queue = thread[t].queue
          /\ \A w \in Nat : <<p, w>> \notin thread[t].queue
          /\ \A q \in Payments, w \in Nat :
               <<q, w>> \in thread[t].queue => Fresh(rows[q], w)
      BY <2>5 DEF Marks, HeldInv, HeldBy
    <3>2. QED
      BY <1>1, <3>1 DEF HeldBy
  <2>6. QED
    BY <1>4, <2>1, <2>2, <2>3, <2>4, <2>5, JobMoves, HeldAreUnsent
<1>5. CASE OfficialStep(t)
  <2>1. PICK e \in Eras : CountPayments(t, e)
    BY <1>5, QuietOfficial
  <2>2. thread'[t].pc = "counted"
    BY <1>1, <2>1 DEF CountPayments, Idle
  <2>3. QED
    BY <1>2, <2>2
<1>6. CASE thread'[t] = Idle
  BY <1>2, <1>6 DEF Idle
<1>7. QED
  BY <1>2, <1>3, <1>4, <1>5, <1>6, OwnStep

\* The part of the argument that the files and the counts rest on.
SerialInv == QuietInv /\ OrderlyInv /\ HeldInv

LEMMA SerialStep ==
    ASSUME TypeInv, OneJob, SerialInv, [Next]_vars
    PROVE  SerialInv'
BY QuietStep, HeldAreUnsent, OrderlyStep, HeldStep DEF SerialInv

\* With one era there is one job: jobs answer for their eras.
LEMMA OneEraOneJob ==
    ASSUME \A d, e \in Eras : d = e
    PROVE  TypeInv /\ SendingHasOneOwner => OneJob
<1> SUFFICES ASSUME TypeInv, SendingHasOneOwner,
                    NEW s \in Threads, NEW t \in Threads,
                    thread[s].pc \in JobSteps, thread[t].pc \in JobSteps
             PROVE  s = t
  BY DEF OneJob
<1>1. thread[s].era \in Eras /\ thread[t].era \in Eras
  BY ThreadFields DEF TypeInv
<1>2. Owns(s, thread[s].era) /\ Owns(t, thread[s].era)
  BY <1>1 DEF Owns
<1>3. QED
  BY <1>1, <1>2 DEF SendingHasOneOwner

\* Where the avustushaku has one maksuera the premise holds of itself.
THEOREM OneEraIsSerial ==
    ASSUME \A d, e \in Eras : d = e
    PROVE  Spec => []OneJob
BY OneEraOneJob, OneOwner, TypeInvariant, PTL

\* The invariant of the undisturbed sends.
LEMMA SerialInvariant == Spec /\ []Undisturbed => []SerialInv
<1>1. Undisturbed /\ Init => SerialInv
  BY SerialInit DEF Undisturbed, SerialInv
<1>2. TypeInv /\ Undisturbed /\ SerialInv /\ [Next]_vars => SerialInv'
  BY SerialStep DEF Undisturbed
<1>3. QED
  BY <1>1, <1>2, TypeInvariant, PTL DEF Spec

\* A maksatus that has been sent gets no further row, however often the send is
\* asked for again, fails or is interrupted (payments-to-send).
THEOREM SentRowsStand == Spec /\ []Undisturbed => SentIsFinal
<1>1. ASSUME TypeInv, SerialInv, [Next]_vars, NEW p \in Payments, EverSent(rows[p])
      PROVE  rows'[p] = rows[p]
  <2>1. CASE rows' = rows
    BY <2>1
  <2>2. CASE rows' # rows
    <3>1. PICK q \in Payments, v \in Nat, status \in Statuses :
            /\ rows' = [rows EXCEPT ![q] = UpdatePayment(@, v, status)]
            /\ Fresh(rows[q], v)
      BY <1>1, <2>2, SerialWrites DEF SerialInv
    <3>2. q # p
      BY <1>1, <3>1 DEF Fresh
    <3>3. QED
      BY <1>1, <3>1, <3>2 DEF TypeInv, TypeOK
  <2>3. QED
    BY <2>1, <2>2
<1>2. TypeInv /\ SerialInv /\ [Next]_vars =>
        [\A p \in Payments : EverSent(rows[p]) => rows'[p] = rows[p]]_vars
  BY <1>1
<1>3. QED
  BY <1>2, SerialInvariant, TypeInvariant, PTL DEF Spec, SentIsFinal

-----------------------------------------------------------------------------
(* What a send that ends well has sent, one job at a time.                 *)

\* Of the maksatukset a request counted, those that have been sent.
SentOf(table, counted) == {r \in counted : EverSent(table[r[1]])}

\* Every unsent maksatus is among those the request counted, ...
CoveredInv ==
    \A t \in Threads :
      thread[t].pc \in JobSteps \cup {"counted"} =>
        \A p \in Payments :
          rows[p] # <<>> /\ ~EverSent(rows[p]) =>
            \E v \in Nat : <<p, v>> \in thread[t].counted

\* ... and the era of a job counts no more than the job has sent of those; what
\* it has marked and not counted yet it has sent as well.
CountedOf(r, eras, table) ==
    LET e == eras[r.era]
        n == Cardinality(SentOf(table, r.counted))
    IN  /\ e.total = Cardinality(r.counted)
        /\ e.sent <= n
        /\ r.pc = "count" => e.sent + 1 <= n

CountedInv ==
    \A t \in Threads :
      thread[t].pc \in JobSteps => CountedOf(thread[t], era, rows)

\* A maksatus that comes into being or unsent in a step was so before.
LEMMA UnsentBefore ==
    ASSUME TypeInv, SerialInv, [Next]_vars, NEW p \in Payments,
           rows'[p] # <<>>, ~EverSent(rows'[p])
    PROVE  rows[p] # <<>> /\ ~EverSent(rows[p])
<1>1. rows \in [Payments -> Seq(Row)] /\ rows' \in [Payments -> Seq(Row)]
  BY RowsContinue DEF TypeInv, TypeOK
<1>2. ~EverSent(rows[p])
  BY <1>1, RowsContinue, SentStays
<1>3. rows[p] # <<>>
  <2>1. CASE rows' = rows
    BY <2>1
  <2>2. CASE rows' # rows
    <3>1. PICK q \in Payments, v \in Nat, status \in Statuses :
            /\ rows' = [rows EXCEPT ![q] = UpdatePayment(@, v, status)]
            /\ Fresh(rows[q], v)
      BY <2>2, SerialWrites DEF SerialInv
    <3>2. rows[q] # <<>>
      BY <1>1, <3>1 DEF Fresh
    <3>3. QED
      BY <1>1, <3>1, <3>2
  <2>3. QED
    BY <2>1, <2>2
<1>4. QED
  BY <1>2, <1>3

\* What the jobs carry from their request.
LEMMA CountedStands ==
    ASSUME TypeInv, HeldInv, NEW t \in Threads, JobStep(t), thread'[t].pc \in JobSteps
    PROVE  /\ thread[t].pc \in JobSteps \cup {"counted"}
           /\ thread'[t].counted = thread[t].counted
           /\ thread'[t].era = thread[t].era
           /\ thread[t].pc = "counted" => ClaimEra(t)
           /\ thread'[t].pc = "count" =>
                \E p \in Payments, v \in Nat : Marks(t, p, v)
<1> DEFINE Goal == /\ thread[t].pc \in JobSteps \cup {"counted"}
                   /\ thread'[t].counted = thread[t].counted
                   /\ thread'[t].era = thread[t].era
                   /\ thread[t].pc = "counted" => ClaimEra(t)
<1>1. thread \in [Threads -> ThreadType] /\ thread[t] \in ThreadType
  BY DEF TypeInv, TypeOK
<1>2. ASSUME NEW pc, thread' = [thread EXCEPT ![t].pc = pc], thread[t].pc \in JobSteps
      PROVE  Goal
  BY <1>1, <1>2 DEF ThreadType, JobSteps
<1>3. ASSUME Throws(t), thread[t].pc \in JobSteps
      PROVE  Goal
  BY <1>1, <1>3 DEF Throws, ThreadType, JobSteps
<1>4. CASE ClaimEra(t)
  BY <1>1, <1>4 DEF ClaimEra, ThreadType, JobSteps
<1>5. ~(ClaimRefused(t) \/ MarkSendFinished(t) \/ JobEscapes(t))
  BY <1>1 DEF ClaimRefused, MarkSendFinished, JobEscapes, Idle, JobSteps, ThreadType
<1>6. ASSUME PickApplication(t)
      PROVE  Goal
  <2>1. PICK a \in thread[t].apps :
          thread' = [thread EXCEPT ![t].pc = "send", ![t].apps = @ \ {a},
                                   ![t].queue = UnsentRowsOf(a)]
    BY <1>6 DEF PickApplication
  <2>2. thread'[t].counted = thread[t].counted /\ thread'[t].era = thread[t].era
    BY <1>1, <2>1 DEF ThreadType
  <2>3. QED
    BY <1>6, <2>2 DEF PickApplication, JobSteps
<1>7. ASSUME ApplicationDone(t) \/ AllApplicationsDone(t) \/ Notify(t)
             \/ IncSentCount(t)
      PROVE  Goal
  BY <1>2, <1>7 DEF ApplicationDone, AllApplicationsDone, Notify, IncSentCount, JobSteps
<1>8. ASSUME PutFindsNoRow(t) \/ PutSucceeds(t) \/ PutFails(t)
             \/ PutFailsAfterDelivery(t) \/ PutTimesOut(t)
      PROVE  Goal
  BY <1>2, <1>8 DEF PutFindsNoRow, PutSucceeds, PutFails, PutFailsAfterDelivery,
                    PutTimesOut, Put, JobSteps
<1>9. ASSUME MarkSent(t)
      PROVE  Goal
  BY <1>2, <1>3, <1>9 DEF MarkSent, JobSteps
<1>10. ASSUME AddBatchRow(t)
       PROVE  Goal
  BY <1>3, <1>10, AddsOrThrows, HeldAreUnsent DEF Adds, JobSteps, AddBatchRow
<1>11. ASSUME JobThrows(t)
       PROVE  Goal
  BY <1>3, <1>11 DEF JobThrows
<1>12. thread'[t].pc = "count" => \E p \in Payments, v \in Nat : Marks(t, p, v)
  BY JobMoves, HeldAreUnsent DEF Adds
<1>13. QED
  BY <1>4, <1>5, <1>6, <1>7, <1>8, <1>9, <1>10, <1>11, <1>12 DEF JobStep

\* A request counts every maksatus that is there and unsent.
LEMMA CoveredStep ==
    ASSUME TypeInv, SerialInv, CoveredInv, [Next]_vars
    PROVE  CoveredInv'
<1>1. thread \in [Threads -> ThreadType] /\ rows \in [Payments -> Seq(Row)]
  BY DEF TypeInv, TypeOK
<1> SUFFICES ASSUME NEW t \in Threads,
                    thread'[t].pc \in JobSteps \cup {"counted"},
                    NEW p \in Payments, rows'[p] # <<>>, ~EverSent(rows'[p])
             PROVE  \E v \in Nat : <<p, v>> \in thread'[t].counted
  BY DEF CoveredInv
<1>2. rows[p] # <<>> /\ ~EverSent(rows[p])
  BY UnsentBefore
<1>3. CASE thread'[t] = thread[t]
  BY <1>2, <1>3 DEF CoveredInv
<1>4. CASE JobStep(t)
  <2>1. thread'[t].pc \in JobSteps
    BY <1>4, JobMoves, HeldAreUnsent DEF SerialInv, Adds, Marks, JobSteps
  <2>2. QED
    BY <1>2, <1>4, <2>1, CountedStands DEF SerialInv, CoveredInv
<1>5. CASE OfficialStep(t)
  <2>1. PICK e \in Eras : CountPayments(t, e)
    BY <1>5, QuietOfficial DEF SerialInv
  <2>2. thread'[t].counted = PaymentsToSend
    BY <1>1, <2>1 DEF CountPayments, Idle
  <2> DEFINE v == Len(rows[p]) - 1
  <2>3. v \in UnsentVersions(rows[p])
    BY <1>1, <1>2, OrderlyQueries DEF SerialInv, OrderlyInv
  <2>4. v \in Nat
    BY <1>1, <2>3, UnsentAreRows
  <2>5. AppOf[p] \in payable
    BY AppOfAssumption DEF SerialInv, QuietInv
  <2>6. <<p, v>> \in UnsentRowsOf(AppOf[p])
    BY <2>3 DEF UnsentRowsOf
  <2>7. <<p, v>> \in PaymentsToSend
    BY <2>5, <2>6 DEF PaymentsToSend
  <2>8. QED
    BY <2>2, <2>4, <2>7
<1>6. thread'[t] # Idle
  BY DEF Idle, JobSteps
<1>7. QED
  BY <1>3, <1>4, <1>5, <1>6, OwnStep

\* The sent ones among those counted only grow in number.
LEMMA SentOfGrows ==
    ASSUME TypeInv, [Next]_vars, NEW t \in Threads
    PROVE  LET C == thread[t].counted IN
           /\ IsFiniteSet(SentOf(rows, C)) /\ IsFiniteSet(SentOf(rows', C))
           /\ SentOf(rows, C) \subseteq SentOf(rows', C)
           /\ Cardinality(SentOf(rows, C)) \in Nat
           /\ Cardinality(SentOf(rows', C)) \in Nat
           /\ Cardinality(SentOf(rows, C)) <= Cardinality(SentOf(rows', C))
<1> DEFINE C == thread[t].counted
<1>1. IsFiniteSet(C) /\ C \subseteq Payments \X Nat
  BY ThreadFields DEF TypeInv, QueueInv, RowId
<1>2. IsFiniteSet(SentOf(rows, C)) /\ IsFiniteSet(SentOf(rows', C))
  BY <1>1, FS_Subset DEF SentOf
<1>3. \A p \in Payments : EverSent(rows[p]) => EverSent(rows'[p])
  BY RowsContinue, SentStays DEF TypeInv, TypeOK
<1>4. SentOf(rows, C) \subseteq SentOf(rows', C)
  BY <1>1, <1>3 DEF SentOf
<1>5. QED
  BY <1>2, <1>4, FS_Subset, FS_CardinalityType

\* Another thread does not touch the era of a job.
LEMMA EraStands ==
    ASSUME TypeInv, OwnerInv, OneJob, SerialInv, [Next]_vars, NEW t \in Threads,
           thread[t].pc \in JobSteps, thread'[t] = thread[t], ~JobStep(t)
    PROVE  era'[thread[t].era] = era[thread[t].era]
<1>1. era \in [Eras -> EraType] /\ thread \in [Threads -> ThreadType]
      /\ thread[t].era \in Eras
  BY ThreadFields DEF TypeInv, TypeOK
<1>2. ASSUME NEW s \in Threads, JobStep(s)
      PROVE  era'[thread[t].era] = era[thread[t].era]
  <2>1. s # t /\ thread[s].pc \notin JobSteps
    BY <1>2 DEF OneJob
  <2>2. ClaimEra(s) \/ ClaimRefused(s)
    BY <1>2, <2>1
       DEF JobStep, PickApplication, ApplicationDone, AllApplicationsDone, AddBatchRow,
           PutFindsNoRow, Put, PutSucceeds, PutFails, PutFailsAfterDelivery,
           PutTimesOut, MarkSent, IncSentCount, Notify, JobThrows, MarkSendFinished,
           JobEscapes, JobSteps
  <2>3. CASE ClaimEra(s)
    <3>1. era[thread[s].era].status # "sending"
      BY <2>3 DEF ClaimEra
    <3>2. up /\ era[thread[t].era].status = "sending"
      BY <1>1 DEF OwnerInv, SendingHasOneOwner, Owns, JobSteps
    <3>3. QED
      BY <1>1, <2>3, <3>1, <3>2 DEF ClaimEra
  <2>4. QED
    BY <2>2, <2>3 DEF ClaimRefused
<1>3. CASE Restart
  BY <1>3 DEF Restart, OwnerInv, JobSteps
<1>4. QED
  BY <1>2, <1>3, QuietSteps
     DEF SerialInv, CountPayments, LateArrival, LateLoss, Crash, vars

\* The count of an era follows the maksatukset its job has sent.
LEMMA CountedStep ==
    ASSUME TypeInv, TypeInv', OwnerInv, OneJob, SerialInv, CoveredInv, CountedInv,
           [Next]_vars
    PROVE  CountedInv'
<1>1. /\ era \in [Eras -> EraType] /\ thread \in [Threads -> ThreadType]
      /\ rows \in [Payments -> Seq(Row)]
      /\ \A e \in Eras : era[e].sent \in Nat /\ era'[e].sent \in Nat
  BY DEF TypeInv, TypeOK, EraType
<1> SUFFICES ASSUME NEW t \in Threads, thread'[t].pc \in JobSteps
             PROVE  CountedOf(thread'[t], era', rows')
  BY DEF CountedInv
<1> DEFINE e == thread[t].era
           C == thread[t].counted
           n == Cardinality(SentOf(rows, C))
           m == Cardinality(SentOf(rows', C))
<1>2. /\ n \in Nat /\ m \in Nat /\ n <= m /\ e \in Eras
      /\ IsFiniteSet(SentOf(rows, C)) /\ IsFiniteSet(SentOf(rows', C))
      /\ SentOf(rows, C) \subseteq SentOf(rows', C)
  BY SentOfGrows, ThreadFields DEF TypeInv
<1>3. thread[t].pc \in JobSteps =>
        /\ era[e].total = Cardinality(C) /\ era[e].sent <= n
        /\ thread[t].pc = "count" => era[e].sent + 1 <= n
  BY DEF CountedInv, CountedOf
<1> HIDE DEF n, m
<1>4. CASE thread'[t] = thread[t] /\ ~JobStep(t)
  <2>1. era'[e] = era[e]
    BY <1>4, EraStands
  <2>2. QED
    BY <1>1, <1>2, <1>3, <1>4, <2>1 DEF CountedOf, m
<1>5. CASE JobStep(t)
  <2>1. /\ thread[t].pc \in JobSteps \cup {"counted"}
        /\ thread'[t].counted = C /\ thread'[t].era = e
        /\ thread[t].pc = "counted" => ClaimEra(t)
        /\ thread'[t].pc = "count" =>
             \E p \in Payments, v \in Nat : Marks(t, p, v)
    BY <1>5, CountedStands DEF SerialInv
  <2>2. CASE ClaimEra(t)
    <3>1. /\ era'[e].sent = 0 /\ era'[e].total = Cardinality(C)
          /\ thread'[t].pc = "pick"
      BY <1>1, <1>2, <2>2 DEF ClaimEra, ThreadType
    <3>2. QED
      BY <1>2, <2>1, <3>1 DEF CountedOf, m
  <2>3. ASSUME thread'[t].pc = "count"
        PROVE  era'[e] = era[e] /\ n + 1 <= m
    <3>1. PICK p \in Payments, v \in Nat : Marks(t, p, v)
      BY <2>1, <2>3
    <3>2. /\ Fresh(rows[p], v) /\ Orderly(rows[p]) /\ rows[p] \in Seq(Row)
          /\ rows'[p] = UpdatePayment(rows[p], v, "sent")
      BY <1>1, <3>1 DEF Marks, SerialInv, HeldInv, HeldBy, OrderlyInv
    <3>3. ~EverSent(rows[p]) /\ rows[p] # <<>> /\ EverSent(rows'[p])
      BY <3>2, UpdateOrderly DEF Fresh, Statuses
    <3>4. PICK w \in Nat : <<p, w>> \in C
      BY <3>1, <3>3 DEF CoveredInv, Marks, JobSteps
    <3>5. <<p, w>> \notin SentOf(rows, C) /\ <<p, w>> \in SentOf(rows', C)
      BY <3>3, <3>4 DEF SentOf
    <3>6. Cardinality(SentOf(rows, C) \cup {<<p, w>>}) = n + 1
      BY <1>2, <3>5, FS_AddElement DEF n
    <3>7. SentOf(rows, C) \cup {<<p, w>>} \subseteq SentOf(rows', C)
      BY <1>2, <3>5
    <3>8. n + 1 <= m
      BY <1>2, <3>6, <3>7, FS_Subset DEF m
    <3>9. QED
      BY <3>1, <3>8 DEF Marks
  <2>4. CASE thread'[t].pc = "count"
    <3>1. thread[t].pc \in JobSteps
      BY <2>1, <2>4 DEF Marks, JobSteps
    <3>2. QED
      BY <1>1, <1>2, <1>3, <2>1, <2>3, <2>4, <3>1 DEF CountedOf, m
  <2>5. CASE IncSentCount(t)
    <3>1. /\ thread[t].pc = "count" /\ thread'[t].pc = "send"
          /\ era'[e].sent = era[e].sent + 1 /\ era'[e].total = era[e].total
      BY <1>1, <1>2, <2>5 DEF IncSentCount, ThreadType, EraType
    <3>2. QED
      BY <1>1, <1>2, <1>3, <2>1, <3>1 DEF CountedOf, m, JobSteps
  <2>6. ASSUME era'[e].sent = era[e].sent, era'[e].total = era[e].total,
               thread[t].pc \in JobSteps, thread'[t].pc # "count"
        PROVE  CountedOf(thread'[t], era', rows')
    BY <1>1, <1>2, <1>3, <2>1, <2>6 DEF CountedOf, m
  <2>7. CASE Notify(t)
    <3>1. era'[e].sent = era[e].sent /\ era'[e].total = era[e].total
      BY <1>1, <1>2, <2>7 DEF Notify, EraType
    <3>2. QED
      BY <2>4, <2>6, <2>7, <3>1 DEF Notify, JobSteps
  <2>8. CASE UNCHANGED era /\ ~ClaimEra(t)
    BY <2>1, <2>4, <2>6, <2>8
  <2>9. ~MarkSendFinished(t)
    BY <1>1 DEF MarkSendFinished, Idle, JobSteps
  <2>10. QED
    BY <1>5, <2>2, <2>5, <2>7, <2>8, <2>9
       DEF JobStep, ClaimRefused, PickApplication, ApplicationDone,
           AllApplicationsDone, AddBatchRow, PutFindsNoRow, Put, PutSucceeds,
           PutFails, PutFailsAfterDelivery, PutTimesOut, MarkSent, JobThrows,
           JobEscapes
<1>6. CASE OfficialStep(t)
  <2>1. PICK d \in Eras : CountPayments(t, d)
    BY <1>6, QuietOfficial DEF SerialInv
  <2>2. thread'[t].pc = "counted"
    BY <1>1, <2>1 DEF CountPayments, Idle
  <2>3. QED
    BY <2>2 DEF JobSteps
<1>7. thread'[t] # Idle
  BY DEF Idle, JobSteps
<1>8. QED
  BY <1>4, <1>5, <1>6, <1>7, OwnStep

\* A job about to write 'completed' has sent every maksatus its request counted,
\* while one job at a time works on the avustushaku and nobody edits its
\* maksatukset (mark-send-finished!: "every maksatus went out").
THEOREM CompletedSentAll ==
    Spec /\ []Undisturbed => []CompletedMeansEveryMaksatusWentOut
<1>1. Init => CoveredInv /\ CountedInv
  BY DEF Init, Idle, CoveredInv, CountedInv, JobSteps
<1>2. TypeInv /\ TypeInv' /\ OwnerInv /\ Undisturbed /\ SerialInv
      /\ CoveredInv /\ CountedInv /\ [Next]_vars => CoveredInv' /\ CountedInv'
  BY CoveredStep, CountedStep DEF Undisturbed
<1>3. ASSUME TypeInv, CountedInv
      PROVE  CompletedMeansEveryMaksatusWentOut
  <2> SUFFICES ASSUME NEW t \in Threads, thread[t].pc = "finish",
                      FinalStatus(t) = "completed", NEW r \in thread[t].counted
               PROVE  EverSent(rows[r[1]])
    BY DEF CompletedMeansEveryMaksatusWentOut
  <2> DEFINE C == thread[t].counted
             S == SentOf(rows, C)
  <2>1. /\ era[thread[t].era].sent = era[thread[t].era].total
        /\ era[thread[t].era].total = Cardinality(C)
        /\ era[thread[t].era].sent <= Cardinality(S)
    BY <1>3 DEF FinalStatus, CountedInv, CountedOf, JobSteps
  <2>2. IsFiniteSet(C) /\ S \subseteq C
    BY <1>3 DEF TypeInv, QueueInv, SentOf
  <2>3. Cardinality(S) <= Cardinality(C) /\ Cardinality(S) \in Nat
        /\ Cardinality(C) \in Nat
    BY <2>2, FS_Subset, FS_CardinalityType
  <2>4. Cardinality(C) = Cardinality(S)
    BY <2>1, <2>3
  <2>5. C = S
    BY <2>2, <2>4, FS_Subset
  <2>6. QED
    BY <2>5 DEF SentOf
<1>4. QED
  BY <1>1, <1>2, <1>3, SerialInvariant, OwnerInit, OwnerStep, TypeInvariant, PTL DEF Spec

\* Undisturbed, the one job is the one writer.
LEMMA QuietIsAlone == OneJob /\ QuietInv => OneWriter
BY DEF OneJob, QuietInv, OneWriter, Alone, Writing, Working, JobSteps

LEMMA JobIsWriter == Spec /\ []Undisturbed => []OneWriter
BY QuietIsAlone, SerialInvariant, PTL DEF SerialInv, Undisturbed

\* The four together, with nothing assumed of the behaviour: an avustushaku with
\* one maksuera whose maksatukset nobody edits while they are sent.
THEOREM OneEraSends ==
    ASSUME MaxEdits = 0, \A d, e \in Eras : d = e
    PROVE  Spec => /\ []OneOpenRow /\ []DuplicatesOnlyAfterUnsureOutcome
                   /\ []CompletedMeansEveryMaksatusWentOut
                   /\ SentIsFinal
<1>1. OneJob => Undisturbed
  BY DEF Undisturbed
<1>2. Spec => []Undisturbed
  BY <1>1, OneEraIsSerial, PTL
<1>3. QED
  BY <1>2, JobIsWriter, OneRowInForce, NoKnownDuplicates, CompletedSentAll, SentRowsStand, PTL
=============================================================================
