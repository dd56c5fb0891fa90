---------------------------- MODULE PaymentRows ----------------------------
(***************************************************************************)
(* The versioned rows of virkailija.payments.  A maksatus is never changed *)
(* in place: update-payment closes the row it was given and inserts a new  *)
(* one under the next version, so a maksatus is a history of rows.  The    *)
(* row of version v sits at index v + 1; a history is contiguous because   *)
(* the primary key is (id, version) and versions are MAX + 1.              *)
(* The columns that no property looks at (sum, phase, pitkaviite, project  *)
(* code, filename, user, outgoing XML) are left out.                       *)
(***************************************************************************)
EXTENDS Naturals, Sequences, FiniteSetsExt

Statuses == {"created", "waiting", "sent", "paid"}

\* Mutant of Unsent: rows that are 'sent' are selected too.
UnsentOrSent == {"created", "waiting", "sent"}

\* get-application-unsent-payments selects these two.
Unsent == {"created", "waiting"}

\* open: version_closed IS NULL.  deleted: deleted IS NOT NULL.
Row == [status : Statuses, open : BOOLEAN, deleted : BOOLEAN]

NewRow(status) == [status |-> status, open |-> TRUE, deleted |-> FALSE]

At(h, v) == h[v + 1]
Versions(h) == {i - 1 : i \in 1..Len(h)}
Undeleted(h) == {v \in Versions(h) : ~At(h, v).deleted}

\* The rows a reader sees: not deleted, not closed.
OpenVersions(h) == {v \in Undeleted(h) : At(h, v).open}
UnsentVersions(h) == {v \in OpenVersions(h) : At(h, v).status \in Unsent}

\* GREATEST(MAX(version), 0) + 1 over the rows that are not deleted.
NextVersion(h) == 1 + Max({0} \cup Undeleted(h))

\* Deleted rows keep their primary key, so the INSERT may collide with one.
InsertFits(h) == NextVersion(h) \notin Versions(h)

CloseVersion(h, v) ==
    [i \in 1..Len(h) |->
        IF i = v + 1 /\ ~h[i].deleted THEN [h[i] EXCEPT !.open = FALSE] ELSE h[i]]

\* Mutant of UpdatePayment: the row it replaces stays open.
UpdateWithoutClosing(h, v, status) == Append(h, NewRow(status))

\* update-payment as its transaction leaves the rows.  The row it closes is
\* the version the CALLER holds, open or not.
UpdatePayment(h, v, status) == Append(CloseVersion(h, v), NewRow(status))

\* delete-payment and delete-grant-payments: every row, open or closed, that
\* has one of these statuses.
DeleteRows(h, statuses) ==
    [i \in 1..Len(h) |->
        IF h[i].status \in statuses THEN [h[i] EXCEPT !.deleted = TRUE] ELSE h[i]]

\* Some row, in force or superseded, says the maksatus went out.
EverSent(h) == \E i \in 1..Len(h) : h[i].status \in {"sent", "paid"}
=============================================================================
