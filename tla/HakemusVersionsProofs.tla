----------------------- MODULE HakemusVersionsProofs -----------------------
(***************************************************************************)
(* Proofs about HakemusVersions for any number of requests, threads and    *)
(* deaths.  GoodHistory says what the rows of the hakemus look like, each  *)
(* against its predecessor; Knowledge says what a request that is under    *)
(* way still knows of the version it read, which is what makes the row it  *)
(* writes next a good one.                                                 *)
(***************************************************************************)
EXTENDS HakemusVersions, TLAPS

AnswersRow == [open : BOOLEAN]

\* What the four properties of the history say of a row of version v and the
\* row before it.
Undone(prev, row) ==
    /\ row.by # "status"
    /\ \/ prev.status = "cancelled" /\ row.status # "cancelled"
       \/ row.status = "draft" /\ prev.status \notin {"new", "draft"}

Follows(prev, row, v) ==
    /\ row.by \in {"update", "submit"} => row.seen = v - 1
    /\ row.form < prev.form => row.seen < v - 1
    /\ Undone(prev, row) => row.seen < v - 1
    /\ prev.refused /\ ~row.refused => row.by = "keskeyta"

GoodHistory(h) ==
    /\ h \in Seq(HakemusRow)
    /\ LastIsOpen(h)
    /\ \A i \in 2..Len(h) : Follows(h[i - 1], h[i], i - 1)

\* What no writer changes of the rows that are there.
Kept(h, g) ==
    /\ Len(h) <= Len(g)
    /\ \A i \in 1..Len(h) :
         /\ g[i].form = h[i].form /\ g[i].status = h[i].status
         /\ g[i].refused = h[i].refused
         /\ g[i].by = h[i].by /\ g[i].seen = h[i].seen

GoodAnswers == answers \in Seq(AnswersRow) /\ LastIsOpen(answers)

ThreadType == [pc : {"idle", "allowed", "answers", "form", "row", "mark"},
               kind : Kinds, seen : Nat, form : Nat]

\* What a request knows while the hakemus is h and has n versions of answers.
Knows(th, h, n) ==
    /\ th.seen < Len(h) /\ th.form < n
    /\ th.pc = "row" /\ th.kind \in EditHandlers \cup {"open", "status", "verify"} =>
         th.form >= h[th.seen + 1].form
    /\ th.pc \in {"answers", "row"} /\ th.kind \in EditHandlers \cup {"open"} =>
         h[th.seen + 1].status # "cancelled"
    /\ th.pc \in {"form", "row"} /\ th.kind = "verify" => h[th.seen + 1].status = "new"

Knowledge ==
    /\ \A i \in 1..Len(hakemus) : hakemus[i].form < Len(answers)
    /\ \A t \in Threads : Knows(thread[t], hakemus, Len(answers))

Rest ==
    /\ current \in BOOLEAN
    /\ thread \in [Threads -> ThreadType]
    /\ budget \in [{"requests", "deaths"} -> Nat]

Inv == GoodHistory(hakemus) /\ GoodAnswers /\ Rest /\ Knowledge
-----------------------------------------------------------------------------
(* Histories.                                                              *)

\* After closed rows an open one is the only open one.
LEMMA AppendIsOpen ==
    ASSUME NEW S, NEW c \in Seq(S), NEW row \in S, row.open = TRUE,
           \A i \in 1..Len(c) : c[i].open = FALSE
    PROVE  LastIsOpen(Append(c, row))
<1> DEFINE g == Append(c, row)
<1>1. /\ Len(g) = Len(c) + 1 /\ Len(g) > 0
      /\ g[Len(c) + 1] = row
      /\ \A i \in 1..Len(c) : g[i] = c[i]
  OBVIOUS
<1>2. \A i \in 1..Len(g) : g[i].open <=> i = Len(g)
  <2> TAKE i \in 1..Len(g)
  <2>1. CASE i = Len(g)
    BY <2>1, <1>1
  <2>2. CASE i # Len(g)
    <3>1. i \in 1..Len(c)
      BY <2>2, <1>1
    <3>2. g[i].open = FALSE
      BY <3>1, <1>1
    <3>3. QED
      BY <3>2, <2>2
  <2>3. QED
    BY <2>1, <2>2
<1>3. QED
  BY <1>1, <1>2 DEF LastIsOpen

\* The row that readers find open is the last one.
LEMMA OpenIsLast ==
    ASSUME NEW h, Len(h) \in Nat, LastIsOpen(h)
    PROVE  OpenAt(h) = Len(h)
<1>1. \E i \in 1..Len(h) : h[i].open
  BY DEF LastIsOpen
<1>2. OpenAt(h) \in 1..Len(h) /\ h[OpenAt(h)].open
  BY <1>1 DEF OpenAt
<1>3. QED
  BY <1>2 DEF LastIsOpen

\* A row that follows the open one extends a good history to a good history.
LEMMA AppendVersion ==
    ASSUME NEW h, GoodHistory(h), NEW row \in HakemusRow, row.open = TRUE,
           Follows(h[Len(h)], row, Len(h))
    PROVE  LET g == Append(CloseOpen(h), row) IN
           /\ GoodHistory(g) /\ Kept(h, g)
           /\ Len(g) = Len(h) + 1 /\ g[Len(g)] = row
<1> DEFINE g == Append(CloseOpen(h), row)
<1> DEFINE c == CloseOpen(h)
<1>1. h \in Seq(HakemusRow) /\ Len(h) \in Nat /\ Len(h) > 0
  BY DEF GoodHistory, LastIsOpen
<1>2. \A i \in 1..Len(h) : h[i] \in HakemusRow
  BY <1>1
<1>3. c \in Seq(HakemusRow) /\ Len(c) = Len(h) /\ Kept(h, c)
      /\ \A i \in 1..Len(h) : c[i].open = FALSE
  <2>1. \A i \in 1..Len(h) : c[i] = [h[i] EXCEPT !.open = FALSE]
    BY DEF CloseOpen
  <2>2. \A r \in HakemusRow :
          LET s == [r EXCEPT !.open = FALSE] IN
          /\ s \in HakemusRow /\ s.open = FALSE
          /\ s.form = r.form /\ s.status = r.status /\ s.refused = r.refused
          /\ s.by = r.by /\ s.seen = r.seen
    BY DEF HakemusRow
  <2>3. \A i \in 1..Len(h) :
          /\ c[i] \in HakemusRow /\ c[i].open = FALSE
          /\ c[i].form = h[i].form /\ c[i].status = h[i].status
          /\ c[i].refused = h[i].refused
          /\ c[i].by = h[i].by /\ c[i].seen = h[i].seen
    <3> TAKE i \in 1..Len(h)
    <3> DEFINE r == h[i]
    <3>1. r \in HakemusRow /\ c[i] = [r EXCEPT !.open = FALSE]
      BY <1>2, <2>1
    <3> HIDE DEF r, c
    <3>2. LET s == [r EXCEPT !.open = FALSE] IN
          /\ s \in HakemusRow /\ s.open = FALSE
          /\ s.form = r.form /\ s.status = r.status /\ s.refused = r.refused
          /\ s.by = r.by /\ s.seen = r.seen
      BY <3>1, <2>2
    <3>3. QED
      BY <3>1, <3>2, Zenon DEF r
  <2>4. c = [i \in 1..Len(h) |-> c[i]] /\ Len(c) = Len(h)
    BY <1>1 DEF CloseOpen
  <2> HIDE DEF c
  <2>5. c \in Seq(HakemusRow)
    BY <2>3, <2>4, <1>1
  <2>6. QED
    BY <2>3, <2>4, <2>5, <1>1 DEF Kept
<1> HIDE DEF c
<1>4. /\ g \in Seq(HakemusRow) /\ Len(g) = Len(h) + 1 /\ g[Len(g)] = row
      /\ \A i \in 1..Len(h) : g[i] = c[i]
  BY <1>1, <1>3 DEF c
<1>9. LastIsOpen(g)
  BY <1>1, <1>3, AppendIsOpen DEF c
<1> HIDE DEF g
<1>5. Kept(h, g)
  BY <1>1, <1>3, <1>4 DEF Kept
<1>6. \A i \in 2..Len(g) : Follows(g[i - 1], g[i], i - 1)
  <2> TAKE i \in 2..Len(g)
  <2>1. CASE i = Len(g)
    <3>1. i - 1 = Len(h) /\ g[i] = row
      BY <1>1, <1>4, <2>1
    <3>2. /\ g[Len(h)].form = h[Len(h)].form /\ g[Len(h)].status = h[Len(h)].status
          /\ g[Len(h)].refused = h[Len(h)].refused
      BY <1>1, <1>5 DEF Kept
    <3>3. QED
      BY <3>1, <3>2 DEF Follows, Undone
  <2>2. CASE i # Len(g)
    <3>1. i \in 2..Len(h) /\ i \in 1..Len(h) /\ i - 1 \in 1..Len(h)
      BY <1>1, <1>4, <2>2
    <3>2. Follows(h[i - 1], h[i], i - 1)
      BY <3>1 DEF GoodHistory
    <3>3. QED
      BY <3>1, <3>2, <1>5 DEF Follows, Undone, Kept
  <2>3. QED
    BY <2>1, <2>2
<1>7. GoodHistory(g)
  BY <1>4, <1>6, <1>9 DEF GoodHistory
<1>8. QED
  BY <1>4, <1>5, <1>7 DEF g

\* Noting which version was submitted changes nothing else.
LEMMA MarkVersion ==
    ASSUME NEW h, GoodHistory(h), NEW v \in Nat
    PROVE  LET g == [h EXCEPT ![Len(h)].submitted = v] IN
           GoodHistory(g) /\ Kept(h, g) /\ Len(g) = Len(h)
<1> DEFINE g == [h EXCEPT ![Len(h)].submitted = v]
           n == Len(h)
           r == h[n]
           s == [r EXCEPT !.submitted = v]
<1>1. h \in Seq(HakemusRow) /\ n \in Nat /\ n > 0
  BY DEF GoodHistory, LastIsOpen
<1>2. r \in HakemusRow
  BY <1>1
<1>3. g = [h EXCEPT ![n] = s]
  BY <1>1
<1> HIDE DEF r
<1>4. /\ s \in HakemusRow /\ s.open = r.open
      /\ s.form = r.form /\ s.status = r.status /\ s.refused = r.refused
      /\ s.by = r.by /\ s.seen = r.seen
  BY <1>2 DEF HakemusRow
<1> HIDE DEF s, g
<1>5. g \in Seq(HakemusRow) /\ Len(g) = n
  BY <1>1, <1>3, <1>4
<1>6. \A i \in 1..n : g[i] = IF i = n THEN s ELSE h[i]
  BY <1>1, <1>3
<1>7. \A i \in 1..n : g[i].open = h[i].open
  BY <1>4, <1>6 DEF r
<1>8. Kept(h, g)
  <2> SUFFICES ASSUME NEW i \in 1..n
               PROVE  /\ g[i].form = h[i].form /\ g[i].status = h[i].status
                      /\ g[i].refused = h[i].refused
                      /\ g[i].by = h[i].by /\ g[i].seen = h[i].seen
    BY <1>5, <1>1 DEF Kept
  <2>1. QED
    BY <1>4, <1>6 DEF r
<1>9. LastIsOpen(g)
  BY <1>5, <1>7, <1>1 DEF GoodHistory, LastIsOpen
<1>10. \A i \in 2..Len(g) : Follows(g[i - 1], g[i], i - 1)
  <2> TAKE i \in 2..Len(g)
  <2>1. i \in 2..n /\ i \in 1..n /\ i - 1 \in 1..n
    BY <1>1, <1>5
  <2>2. Follows(h[i - 1], h[i], i - 1)
    BY <2>1 DEF GoodHistory
  <2>3. QED
    BY <2>1, <2>2, <1>8 DEF Follows, Undone, Kept
<1>11. QED
  BY <1>5, <1>8, <1>9, <1>10 DEF GoodHistory, g, s, r

\* The answers grow the same way.
LEMMA AppendAnswers ==
    ASSUME NEW a \in Seq(AnswersRow), LastIsOpen(a)
    PROVE  LET b == Append(CloseOpen(a), [open |-> TRUE]) IN
           /\ b \in Seq(AnswersRow) /\ LastIsOpen(b) /\ Len(b) = Len(a) + 1
<1> DEFINE c == CloseOpen(a)
<1>1. \A i \in 1..Len(a) : a[i] \in AnswersRow
  OBVIOUS
<1>2. \A r \in AnswersRow :
        [r EXCEPT !.open = FALSE] \in AnswersRow /\ [r EXCEPT !.open = FALSE].open = FALSE
  BY DEF AnswersRow
<1>3. \A i \in 1..Len(a) : c[i] \in AnswersRow /\ c[i].open = FALSE
  <2> TAKE i \in 1..Len(a)
  <2>1. c[i] = [a[i] EXCEPT !.open = FALSE]
    BY DEF CloseOpen
  <2>2. QED
    BY <1>1, <1>2, <2>1
<1>4. c = [i \in 1..Len(a) |-> c[i]] /\ Len(c) = Len(a)
  BY DEF CloseOpen
<1> HIDE DEF c
<1>5. c \in Seq(AnswersRow)
  BY <1>3, <1>4
<1>6. [open |-> TRUE] \in AnswersRow /\ [open |-> TRUE].open = TRUE
  BY DEF AnswersRow
<1>7. LastIsOpen(Append(c, [open |-> TRUE]))
  BY <1>3, <1>4, <1>5, <1>6, AppendIsOpen
<1>8. QED
  BY <1>4, <1>5, <1>6, <1>7 DEF c

\* What a request knows stays true while others write.
LEMMA KnowsKept ==
    ASSUME NEW th \in ThreadType, NEW h, NEW g, NEW m \in Nat, NEW n \in Nat,
           Len(h) \in Nat, Len(g) \in Nat,
           Knows(th, h, m), Kept(h, g), m <= n
    PROVE  Knows(th, g, n)
<1>1. th.seen \in Nat /\ th.form \in Nat
  BY DEF ThreadType
<1>2. th.seen + 1 \in 1..Len(h)
  BY <1>1 DEF Knows
<1>3. g[th.seen + 1].form = h[th.seen + 1].form /\ g[th.seen + 1].status = h[th.seen + 1].status
  BY <1>2 DEF Kept
<1>4. QED
  BY <1>1, <1>3 DEF Knows, Kept
-----------------------------------------------------------------------------
(* Steps.                                                                  *)

\* Where the open rows are, and what they are.
LEMMA OpenFacts ==
    ASSUME Inv
    PROVE  /\ Len(hakemus) \in Nat \ {0} /\ OpenVersion = Len(hakemus) - 1
           /\ OpenRow = hakemus[Len(hakemus)] /\ OpenRow \in HakemusRow
           /\ OpenRow.open = TRUE /\ OpenRow.form < Len(answers)
           /\ Len(answers) \in Nat \ {0} /\ OpenForm = Len(answers) - 1
           /\ OpenAt(hakemus) = Len(hakemus)
<1>1. /\ hakemus \in Seq(HakemusRow) /\ LastIsOpen(hakemus)
      /\ Len(hakemus) \in Nat /\ Len(hakemus) > 0
  BY DEF Inv, GoodHistory, LastIsOpen
<1>2. /\ answers \in Seq(AnswersRow) /\ LastIsOpen(answers)
      /\ Len(answers) \in Nat /\ Len(answers) > 0
  BY DEF Inv, GoodAnswers, LastIsOpen
<1>3. OpenAt(hakemus) = Len(hakemus) /\ OpenAt(answers) = Len(answers)
  BY <1>1, <1>2, OpenIsLast
<1>4. OpenRow = hakemus[Len(hakemus)]
  BY <1>1, <1>3 DEF OpenRow, OpenVersion, Row
<1>5. OpenRow \in HakemusRow
  BY <1>1, <1>4
<1>6. OpenRow.open = TRUE
  <2>1. hakemus[Len(hakemus)].open
    BY <1>1 DEF LastIsOpen
  <2>2. OpenRow.open \in BOOLEAN
    BY <1>5 DEF HakemusRow
  <2>3. QED
    BY <2>1, <2>2, <1>4
<1>7. OpenRow.form < Len(answers)
  BY <1>1, <1>4 DEF Inv, Knowledge
<1>8. QED
  BY <1>1, <1>2, <1>3, <1>4, <1>5, <1>6, <1>7 DEF OpenVersion, OpenForm

\* A step that keeps the rows preserves the invariant when the one thread it
\* moves knows what it should.
LEMMA StepKeeps ==
    ASSUME Inv, NEW t \in Threads,
           GoodHistory(hakemus'), Kept(hakemus, hakemus'),
           GoodAnswers', Len(answers) <= Len(answers'),
           \A i \in 1..Len(hakemus') : hakemus'[i].form < Len(answers'),
           Rest',
           \A s \in Threads \ {t} : thread'[s] = thread[s],
           Knows(thread'[t], hakemus', Len(answers'))
    PROVE  Inv'
<1>1. Len(hakemus) \in Nat /\ Len(answers) \in Nat
  BY OpenFacts
<1>2. Len(hakemus') \in Nat /\ Len(answers') \in Nat
  BY DEF GoodHistory, GoodAnswers
<1>3. \A s \in Threads : Knows(thread'[s], hakemus', Len(answers'))
  <2> TAKE s \in Threads
  <2>1. CASE s = t
    BY <2>1
  <2>2. CASE s # t
    <3>1. thread[s] \in ThreadType /\ Knows(thread[s], hakemus, Len(answers))
      BY DEF Inv, Rest, Knowledge
    <3>2. Knows(thread[s], hakemus', Len(answers'))
      BY <1>1, <1>2, <3>1, KnowsKept
    <3>3. QED
      BY <2>2, <3>2
  <2>3. QED
    BY <2>1, <2>2
<1>4. QED
  BY <1>3 DEF Inv, Knowledge

\* Using up the budget keeps its type.
LEMMA SpendType ==
    ASSUME Rest, NEW what \in {"requests", "deaths"}, Spend(what)
    PROVE  budget' \in [{"requests", "deaths"} -> Nat]
BY DEF Rest, Spend

\* A row put after the open one by a thread that is then done, or goes on to
\* mark it submitted.
LEMMA WriterKeeps ==
    ASSUME Inv, NEW t \in Threads, NEW row \in HakemusRow, row.open = TRUE,
           Follows(OpenRow, row, Len(hakemus)), AddVersion(row),
           AddAnswers \/ UNCHANGED answers, row.form < Len(answers'),
           Finish(t) \/ Goto(t, "mark")
    PROVE  Inv'
<1>1. GoodHistory(hakemus) /\ Len(hakemus) \in Nat \ {0} /\ OpenRow = hakemus[Len(hakemus)]
  BY OpenFacts DEF Inv
<1>2. /\ GoodHistory(hakemus') /\ Kept(hakemus, hakemus')
      /\ Len(hakemus') = Len(hakemus) + 1 /\ hakemus'[Len(hakemus')] = row
  BY <1>1, AppendVersion DEF AddVersion
<1>3. GoodAnswers' /\ Len(answers) <= Len(answers') /\ Len(answers) \in Nat \ {0}
      /\ Len(answers') \in Nat
  <2>1. answers \in Seq(AnswersRow) /\ LastIsOpen(answers)
    BY DEF Inv, GoodAnswers
  <2>2. CASE AddAnswers
    BY <2>1, <2>2, AppendAnswers, OpenFacts DEF AddAnswers, GoodAnswers
  <2>3. CASE UNCHANGED answers
    BY <2>1, <2>3, OpenFacts DEF GoodAnswers
  <2>4. QED
    BY <2>2, <2>3
<1>4. \A i \in 1..Len(hakemus') : hakemus'[i].form < Len(answers')
  <2> TAKE i \in 1..Len(hakemus')
  <2>1. CASE i = Len(hakemus')
    BY <2>1, <1>2
  <2>2. CASE i # Len(hakemus')
    <3>1. i \in 1..Len(hakemus)
      BY <2>2, <1>1, <1>2
    <3>2. hakemus'[i].form = hakemus[i].form
      BY <3>1, <1>2 DEF Kept
    <3>3. hakemus[i].form < Len(answers) /\ hakemus[i].form \in Nat
      <4>1. hakemus[i] \in HakemusRow
        BY <3>1 DEF Inv, GoodHistory
      <4>2. QED
        BY <3>1, <4>1 DEF Inv, Knowledge, HakemusRow
    <3>4. QED
      BY <3>2, <3>3, <1>3
  <2>3. QED
    BY <2>1, <2>2
<1>5. thread \in [Threads -> ThreadType] /\ thread[t] \in ThreadType
      /\ Knows(thread[t], hakemus, Len(answers))
  BY DEF Inv, Rest, Knowledge
<1>6. Knows(thread[t], hakemus', Len(answers'))
  BY <1>1, <1>2, <1>3, <1>5, KnowsKept
<1>7. /\ Rest' /\ \A s \in Threads \ {t} : thread'[s] = thread[s]
      /\ Knows(thread'[t], hakemus', Len(answers'))
  <2>1. CASE Finish(t)
    <3>1. Idle \in ThreadType /\ thread' = [thread EXCEPT ![t] = Idle]
      BY <2>1 DEF Idle, ThreadType, Finish, Kinds
    <3>2. thread'[t] = Idle
      BY <1>5, <3>1
    <3>3. QED
      BY <1>1, <1>2, <1>3, <1>5, <2>1, <3>1, <3>2 DEF Knows, Finish, Inv, Rest, Idle
  <2>2. CASE Goto(t, "mark")
    <3>1. thread' = [thread EXCEPT ![t].pc = "mark"]
      BY <2>2 DEF Goto
    <3>2. [thread[t] EXCEPT !.pc = "mark"] \in ThreadType
      BY <1>5 DEF ThreadType
    <3>3. thread'[t] = [thread[t] EXCEPT !.pc = "mark"]
      BY <1>5, <3>1
    <3>4. thread' \in [Threads -> ThreadType] /\ \A s \in Threads \ {t} : thread'[s] = thread[s]
      BY <1>5, <3>1, <3>2
    <3>5. thread'[t].pc = "mark" /\ thread'[t].seen = thread[t].seen
          /\ thread'[t].form = thread[t].form
      BY <1>5, <3>3 DEF ThreadType
    <3>6. Knows(thread'[t], hakemus', Len(answers'))
      BY <1>6, <3>5 DEF Knows
    <3>7. QED
      BY <2>2, <3>4, <3>6 DEF Goto, Inv, Rest
  <2>3. QED
    BY <2>1, <2>2
<1>8. QED
  BY <1>2, <1>3, <1>4, <1>7, StepKeeps

\* A request that starts or moves on without writing.
LEMMA MoverKeeps ==
    ASSUME Inv, NEW t \in Threads, NEW th \in ThreadType,
           thread' = [thread EXCEPT ![t] = th],
           Knows(th, hakemus, Len(answers)),
           UNCHANGED <<hakemus, answers, current>>,
           budget' \in [{"requests", "deaths"} -> Nat]
    PROVE  Inv'
<1>1. Kept(hakemus, hakemus) /\ Len(answers) \in Nat
  BY OpenFacts DEF Kept
<1>2. thread \in [Threads -> ThreadType]
  BY DEF Inv, Rest
<1>3. thread' \in [Threads -> ThreadType] /\ thread'[t] = th
      /\ \A s \in Threads \ {t} : thread'[s] = thread[s]
  BY <1>2
<1>4. Rest'
  BY <1>3 DEF Rest, Inv
<1>5. GoodHistory(hakemus') /\ Kept(hakemus, hakemus') /\ GoodAnswers'
      /\ Len(answers) <= Len(answers')
      /\ \A i \in 1..Len(hakemus') : hakemus'[i].form < Len(answers')
  BY <1>1 DEF Inv, GoodAnswers, Knowledge
<1>6. QED
  BY <1>3, <1>4, <1>5, StepKeeps

\* A request that starts with what it has just read knows what Knows asks.
LEMMA StartKeeps ==
    ASSUME Inv, NEW t \in Threads,
           NEW pc \in {"allowed", "form", "row"}, NEW kind \in Kinds,
           NEW seen \in Nat, NEW form \in Nat,
           Start(t, pc, kind, seen, form),
           Knows([pc |-> pc, kind |-> kind, seen |-> seen, form |-> form],
                 hakemus, Len(answers))
    PROVE  Inv'
<1> DEFINE th == [pc |-> pc, kind |-> kind, seen |-> seen, form |-> form]
<1>1. th \in ThreadType
  BY DEF ThreadType
<1>2. budget' \in [{"requests", "deaths"} -> Nat]
  BY SpendType DEF Start, Inv
<1>3. thread' = [thread EXCEPT ![t] = th] /\ UNCHANGED <<hakemus, answers, current>>
  BY DEF Start
<1> HIDE DEF th
<1>4. Knows(th, hakemus, Len(answers))
  BY DEF th
<1>5. QED
  BY <1>1, <1>2, <1>3, <1>4, MoverKeeps

\* An idle thread claims to know nothing.
LEMMA IdleKnows ==
    ASSUME Inv
    PROVE  Idle \in ThreadType /\ Knows(Idle, hakemus, Len(answers))
BY OpenFacts DEF Idle, ThreadType, Kinds, Knows

\* The types of a request, and that the versions it names exist.
LEMMA ThreadFacts ==
    ASSUME Inv, NEW t \in Threads
    PROVE  /\ thread[t] \in ThreadType /\ thread[t].kind \in Kinds
           /\ thread[t].seen \in Nat /\ thread[t].form \in Nat
           /\ thread[t].seen < Len(hakemus) /\ thread[t].form < Len(answers)
           /\ Knows(thread[t], hakemus, Len(answers))
<1>1. thread[t] \in ThreadType /\ Knows(thread[t], hakemus, Len(answers))
  BY DEF Inv, Rest, Knowledge
<1>2. QED
  BY <1>1 DEF ThreadType, Knows

\* Saving answers.
LEMMA SaveKeeps ==
    ASSUME Inv, NEW t \in Threads,
           CanUpdate(t) \/ UpdateHakemus(t) \/ SubmitHakemus(t) \/ Refused(t)
    PROVE  Inv'
<1>9. /\ Len(hakemus) \in Nat \ {0} /\ Len(answers) \in Nat \ {0}
      /\ OpenVersion = Len(hakemus) - 1 /\ OpenRow = hakemus[Len(hakemus)]
      /\ OpenRow \in HakemusRow /\ OpenRow.form \in Nat /\ OpenRow.form < Len(answers)
      /\ thread[t] \in ThreadType /\ thread[t].kind \in Kinds
      /\ thread[t].seen \in Nat /\ thread[t].form \in Nat
      /\ thread[t].seen < Len(hakemus) /\ thread[t].form < Len(answers)
      /\ Knows(thread[t], hakemus, Len(answers))
  BY OpenFacts, ThreadFacts DEF HakemusRow
<1> USE <1>9
<1>1. CASE CanUpdate(t)
  <2>1. PICK kind \in Submits \cup {"update"}, base \in 0..(Len(hakemus) - 1) :
          Start(t, "allowed", kind, base, 0)
    BY <1>1 DEF CanUpdate
  <2>2. kind \in Kinds /\ base \in Nat
    BY DEF Kinds, Submits
  <2>3. Knows([pc |-> "allowed", kind |-> kind, seen |-> base, form |-> 0],
              hakemus, Len(answers))
    BY DEF Knows
  <2>4. QED
    BY <2>1, <2>2, <2>3, StartKeeps
<1>2. CASE UpdateHakemus(t)
  <2> DEFINE row == [CopiedRow("update", thread[t].seen) EXCEPT !.form = NextForm]
  <2>1. AddAnswers /\ AddVersion(row) /\ Finish(t) /\ MaySave(t)
    BY <1>2 DEF UpdateHakemus
  <2>2. thread[t].seen = Len(hakemus) - 1
    <3>1. hakemus[thread[t].seen + 1].open /\ thread[t].seen + 1 \in 1..Len(hakemus)
      BY <2>1 DEF MaySave, Row
    <3>2. QED
      BY <3>1 DEF Inv, GoodHistory, LastIsOpen
  <2>3. /\ row \in HakemusRow /\ row.open = TRUE /\ row.form = Len(answers)
        /\ row.status = OpenRow.status /\ row.refused = OpenRow.refused
        /\ row.by = "update" /\ row.seen = thread[t].seen
    <3> DEFINE o == OpenRow  x == thread[t].seen  n == Len(answers)
               c == [o EXCEPT !.by = "update", !.seen = x]
    <3>1. o \in HakemusRow /\ o.open = TRUE /\ x \in Nat /\ n \in Nat
      BY OpenFacts
    <3>2. row = [c EXCEPT !.form = n]
      BY DEF CopiedRow, NextForm, SubmittedRow
    <3> HIDE DEF o, x, n, row
    <3>3. /\ c \in HakemusRow /\ c.open = TRUE /\ c.status = o.status
          /\ c.refused = o.refused /\ c.by = "update" /\ c.seen = x
      BY <3>1 DEF HakemusRow, Kinds, Submits
    <3> HIDE DEF c
    <3>4. QED
      BY <3>1, <3>2, <3>3 DEF HakemusRow, Statuses, o, x, n
  <2> HIDE DEF row
  <2>4. Follows(OpenRow, row, Len(hakemus))
    <3>1. OpenRow.form \in Nat
      BY DEF HakemusRow
    <3>2. QED
      BY <2>2, <2>3, <3>1 DEF Follows, Undone
  <2>5. row.form < Len(answers')
    <3>1. Len(answers') = Len(answers) + 1
      BY <2>1, AppendAnswers DEF AddAnswers, Inv, GoodAnswers
    <3>2. QED
      BY <3>1, <2>3
  <2>6. QED
    BY <2>1, <2>3, <2>4, <2>5, WriterKeeps
<1>3. CASE SubmitHakemus(t)
  <2> DEFINE row == SubmittedRow("submit", thread[t].seen, NextForm)
  <2>1. AddAnswers /\ AddVersion(row) /\ Finish(t) /\ BaseIsOpen(t)
    BY <1>3 DEF SubmitHakemus
  <2>2. thread[t].seen = Len(hakemus) - 1 /\ OpenRow.status # "cancelled"
    BY <2>1 DEF BaseIsOpen, Visible
  <2>3. /\ row \in HakemusRow /\ row.open = TRUE /\ row.form = Len(answers)
        /\ row.status = "submitted" /\ row.refused = OpenRow.refused
        /\ row.by = "submit" /\ row.seen = thread[t].seen
    <3> DEFINE o == OpenRow  x == thread[t].seen  n == Len(answers)
               c == [o EXCEPT !.by = "submit", !.seen = x]
    <3>1. o \in HakemusRow /\ o.open = TRUE /\ x \in Nat /\ n \in Nat
      BY OpenFacts
    <3>2. row = [c EXCEPT !.status = "submitted", !.form = n, !.submitted = Len(hakemus)]
      BY DEF CopiedRow, NextForm, SubmittedRow
    <3> HIDE DEF o, x, n, row
    <3>3. /\ c \in HakemusRow /\ c.open = TRUE /\ c.status = o.status
          /\ c.refused = o.refused /\ c.by = "submit" /\ c.seen = x
      BY <3>1 DEF HakemusRow, Kinds, Submits
    <3> HIDE DEF c
    <3>4. QED
      BY <3>1, <3>2, <3>3 DEF HakemusRow, Statuses, o, x, n
  <2> HIDE DEF row
  <2>4. Follows(OpenRow, row, Len(hakemus))
    <3>1. OpenRow.form \in Nat
      BY DEF HakemusRow
    <3>2. QED
      BY <2>2, <2>3, <3>1 DEF Follows, Undone
  <2>5. row.form < Len(answers')
    <3>1. Len(answers') = Len(answers) + 1
      BY <2>1, AppendAnswers DEF AddAnswers, Inv, GoodAnswers
    <3>2. QED
      BY <3>1, <2>3
  <2>6. QED
    BY <2>1, <2>3, <2>4, <2>5, WriterKeeps
<1>4. CASE Refused(t)
  <2>1. thread' = [thread EXCEPT ![t] = Idle] /\ UNCHANGED <<hakemus, answers, current>>
        /\ budget' = budget
    BY <1>4 DEF Refused, Finish
  <2>2. QED
    BY <2>1, IdleKnows, MoverKeeps DEF Inv, Rest
<1>5. QED
  BY <1>1, <1>2, <1>3, <1>4

\* Submitting an edit.
LEMMA EditKeeps ==
    ASSUME Inv, NEW t \in Threads,
           ReadForEdit(t) \/ WriteAnswers(t) \/ SubmitEdit(t)
    PROVE  Inv'
<1>9. /\ Len(hakemus) \in Nat \ {0} /\ Len(answers) \in Nat \ {0}
      /\ OpenVersion = Len(hakemus) - 1 /\ OpenRow = hakemus[Len(hakemus)]
      /\ OpenRow \in HakemusRow /\ OpenRow.form \in Nat /\ OpenRow.form < Len(answers)
      /\ OpenRow.open = TRUE
      /\ thread[t] \in ThreadType /\ thread[t].kind \in Kinds
      /\ thread[t].seen \in Nat /\ thread[t].form \in Nat
      /\ thread[t].seen < Len(hakemus) /\ thread[t].form < Len(answers)
      /\ Knows(thread[t], hakemus, Len(answers))
  BY OpenFacts, ThreadFacts DEF HakemusRow
<1> USE <1>9
<1>1. CASE ReadForEdit(t)
  <2> DEFINE th == [thread[t] EXCEPT !.pc = "answers"]
  <2>1. /\ thread' = [thread EXCEPT ![t] = th] /\ UNCHANGED <<hakemus, answers, current>>
        /\ budget' = budget /\ thread[t].seen = Len(hakemus) - 1
        /\ OpenRow.status # "cancelled" /\ thread[t].kind \in EditHandlers
    BY <1>1 DEF ReadForEdit, Goto, BaseIsOpen, Visible, At
  <2>2. /\ th \in ThreadType /\ th.pc = "answers" /\ th.kind = thread[t].kind
        /\ th.seen = thread[t].seen /\ th.form = thread[t].form
    BY DEF ThreadType
  <2> HIDE DEF th
  <2>3. Knows(th, hakemus, Len(answers))
    BY <2>1, <2>2 DEF Knows, EditHandlers
  <2>4. QED
    BY <2>1, <2>2, <2>3, MoverKeeps DEF Inv, Rest
<1>2. CASE WriteAnswers(t)
  <2> DEFINE th == [thread[t] EXCEPT !.pc = "row", !.form = NextForm]
  <2>1. /\ thread' = [thread EXCEPT ![t].pc = "row", ![t].form = NextForm]
        /\ AddAnswers /\ UNCHANGED <<hakemus, current, budget>>
        /\ thread[t].pc = "answers" /\ thread[t].kind \in EditHandlers
    BY <1>2 DEF WriteAnswers, At
  <2>2. /\ th \in ThreadType /\ th.pc = "row" /\ th.kind = thread[t].kind
        /\ th.seen = thread[t].seen /\ th.form = Len(answers)
    BY DEF ThreadType, NextForm
  <2>3. thread' = [thread EXCEPT ![t] = th]
    BY <2>1 DEF Inv, Rest
  <2> HIDE DEF th
  <2>4. /\ GoodAnswers' /\ Len(answers') = Len(answers) + 1
    BY <2>1, AppendAnswers DEF AddAnswers, GoodAnswers, Inv
  <2>5. Knows(th, hakemus, Len(answers'))
    <3>1. hakemus[thread[t].seen + 1].form < Len(answers)
          /\ hakemus[thread[t].seen + 1] \in HakemusRow
      BY DEF Inv, Knowledge, GoodHistory
    <3>2. hakemus[thread[t].seen + 1].form \in Nat
      BY <3>1 DEF HakemusRow
    <3>3. hakemus[thread[t].seen + 1].status # "cancelled"
      BY <2>1 DEF Knows
    <3>4. QED
      BY <2>1, <2>2, <2>4, <3>1, <3>2, <3>3 DEF Knows, EditHandlers
  <2>6. thread' \in [Threads -> ThreadType] /\ thread'[t] = th
        /\ \A s \in Threads \ {t} : thread'[s] = thread[s]
    BY <2>2, <2>3 DEF Inv, Rest
  <2>7. \A i \in 1..Len(hakemus) : hakemus[i].form < Len(answers')
    <3> TAKE i \in 1..Len(hakemus)
    <3>1. hakemus[i].form < Len(answers) /\ hakemus[i] \in HakemusRow
      BY DEF Inv, Knowledge, GoodHistory
    <3>2. QED
      BY <2>4, <3>1 DEF HakemusRow
  <2>8. GoodHistory(hakemus') /\ Kept(hakemus, hakemus') /\ Rest'
    BY <2>1, <2>6 DEF Inv, Kept, Rest
  <2>9. QED
    BY <2>1, <2>4, <2>5, <2>6, <2>7, <2>8, StepKeeps
<1>3. CASE SubmitEdit(t)
  <2> DEFINE x == thread[t].seen  f == thread[t].form
         row == SubmittedRow(thread[t].kind, x, f)
  <2>1. /\ AddVersion(row) /\ UNCHANGED answers /\ Finish(t)
        /\ thread[t].pc = "row" /\ thread[t].kind \in EditHandlers
    BY <1>3 DEF SubmitEdit, At
  <2>2. x = Len(hakemus) - 1 =>
          OpenRow.form <= f /\ OpenRow.status # "cancelled"
    BY <2>1 DEF Knows
  <2>3. /\ row \in HakemusRow /\ row.open = TRUE
        /\ row.refused = OpenRow.refused /\ row.by = thread[t].kind /\ row.seen = x
        /\ row.form = f /\ row.status = "submitted"
    <3> DEFINE o == OpenRow
               c == [o EXCEPT !.by = thread[t].kind, !.seen = x]
    <3>1. o \in HakemusRow /\ o.open = TRUE /\ x \in Nat /\ f \in Nat /\ thread[t].kind \in Kinds
      BY DEF Kinds
    <3>2. row = [c EXCEPT !.status = "submitted", !.form = f, !.submitted = Len(hakemus)]
      BY DEF CopiedRow, SubmittedRow
    <3> HIDE DEF o, x, f, row
    <3>3. /\ c \in HakemusRow /\ c.open = TRUE /\ c.status = o.status
          /\ c.refused = o.refused /\ c.form = o.form /\ c.by = thread[t].kind /\ c.seen = x
      BY <3>1 DEF HakemusRow
    <3> HIDE DEF c
    <3>4. QED
      BY <3>1, <3>2, <3>3 DEF HakemusRow, Statuses, o, x, f
  <2>4. Follows(OpenRow, row, Len(hakemus))
    <3>1. x \in Nat /\ f \in Nat /\ x < Len(hakemus) /\ row.by \notin {"update", "submit"}
      BY <2>1, <2>3 DEF EditHandlers
    <3> HIDE DEF row, x, f
    <3>2. row.form < OpenRow.form => row.seen < Len(hakemus) - 1
      BY <2>2, <2>3, <3>1
    <3>3. Undone(OpenRow, row) => row.seen < Len(hakemus) - 1
      BY <2>2, <2>3, <3>1 DEF Undone
    <3>4. ~(OpenRow.refused /\ ~row.refused)
      BY <2>3
    <3>5. QED
      BY <3>1, <3>2, <3>3, <3>4 DEF Follows
  <2>5. row.form < Len(answers')
    <3> HIDE DEF row
    <3>1. QED
      BY <2>1, <2>3
  <2> HIDE DEF row
  <2>6. QED
    BY <2>1, <2>3, <2>4, <2>5, WriterKeeps
<1>4. QED
  BY <1>1, <1>2, <1>3

\* The handlers that read the hakemus and write it later.
LEMMA LaterKeeps ==
    ASSUME Inv, NEW t \in Threads,
           OpenApplicantEdit(t) \/ VerifyHakemus(t) \/ RefuseApplication(t)
    PROVE  Inv'
<1>9. /\ Len(hakemus) \in Nat \ {0} /\ Len(answers) \in Nat \ {0}
      /\ OpenVersion = Len(hakemus) - 1 /\ OpenRow = hakemus[Len(hakemus)]
      /\ OpenRow \in HakemusRow /\ OpenRow.form \in Nat /\ OpenRow.form < Len(answers)
      /\ OpenRow.open = TRUE
      /\ thread[t] \in ThreadType /\ thread[t].kind \in Kinds
      /\ thread[t].seen \in Nat /\ thread[t].form \in Nat
      /\ thread[t].seen < Len(hakemus) /\ thread[t].form < Len(answers)
      /\ Knows(thread[t], hakemus, Len(answers))
  BY OpenFacts, ThreadFacts DEF HakemusRow
<1> USE <1>9
<1>1. CASE OpenApplicantEdit(t)
  <2> DEFINE x == thread[t].seen  f == thread[t].form
         row == [CopiedRow("open", x) EXCEPT !.status = "applicant_edit", !.form = f]
  <2>1. /\ AddVersion(row) /\ UNCHANGED answers /\ Finish(t)
        /\ thread[t].pc = "row" /\ thread[t].kind = "open"
    BY <1>1 DEF OpenApplicantEdit, At
  <2>2. x = Len(hakemus) - 1 =>
          OpenRow.form <= f /\ OpenRow.status # "cancelled"
    BY <2>1 DEF Knows
  <2>3. /\ row \in HakemusRow /\ row.open = TRUE
        /\ row.refused = OpenRow.refused /\ row.by = "open" /\ row.seen = x
        /\ row.form = f /\ row.status = "applicant_edit"
    <3> DEFINE o == OpenRow
               c == [o EXCEPT !.by = "open", !.seen = x]
    <3>1. o \in HakemusRow /\ o.open = TRUE /\ x \in Nat /\ f \in Nat /\ "open" \in Kinds
      BY DEF Kinds
    <3>2. row = [c EXCEPT !.status = "applicant_edit", !.form = f]
      BY DEF CopiedRow
    <3> HIDE DEF o, x, f, row
    <3>3. /\ c \in HakemusRow /\ c.open = TRUE /\ c.status = o.status
          /\ c.refused = o.refused /\ c.form = o.form /\ c.by = "open" /\ c.seen = x
      BY <3>1 DEF HakemusRow
    <3> HIDE DEF c
    <3>4. QED
      BY <3>1, <3>2, <3>3 DEF HakemusRow, Statuses, o, x, f
  <2>4. Follows(OpenRow, row, Len(hakemus))
    <3>1. x \in Nat /\ f \in Nat /\ x < Len(hakemus) /\ row.by \notin {"update", "submit"}
      BY <2>1, <2>3 DEF EditHandlers
    <3> HIDE DEF row, x, f
    <3>2. row.form < OpenRow.form => row.seen < Len(hakemus) - 1
      BY <2>2, <2>3, <3>1
    <3>3. Undone(OpenRow, row) => row.seen < Len(hakemus) - 1
      BY <2>2, <2>3, <3>1 DEF Undone
    <3>4. ~(OpenRow.refused /\ ~row.refused)
      BY <2>3
    <3>5. QED
      BY <3>1, <3>2, <3>3, <3>4 DEF Follows
  <2>5. row.form < Len(answers')
    <3> HIDE DEF row
    <3>1. QED
      BY <2>1, <2>3
  <2> HIDE DEF row
  <2>6. QED
    BY <2>1, <2>3, <2>4, <2>5, WriterKeeps
<1>2. CASE VerifyHakemus(t)
  <2> DEFINE x == thread[t].seen  f == thread[t].form
         row == [CopiedRow("verify", x) EXCEPT !.status = "draft", !.form = f]
  <2>1. /\ AddVersion(row) /\ UNCHANGED answers /\ Finish(t)
        /\ thread[t].pc = "row" /\ thread[t].kind = "verify"
    BY <1>2 DEF VerifyHakemus, At
  <2>2. x = Len(hakemus) - 1 =>
          OpenRow.form <= f /\ OpenRow.status = "new"
    BY <2>1 DEF Knows
  <2>3. /\ row \in HakemusRow /\ row.open = TRUE
        /\ row.refused = OpenRow.refused /\ row.by = "verify" /\ row.seen = x
        /\ row.form = f /\ row.status = "draft"
    <3> DEFINE o == OpenRow
               c == [o EXCEPT !.by = "verify", !.seen = x]
    <3>1. o \in HakemusRow /\ o.open = TRUE /\ x \in Nat /\ f \in Nat /\ "verify" \in Kinds
      BY DEF Kinds
    <3>2. row = [c EXCEPT !.status = "draft", !.form = f]
      BY DEF CopiedRow
    <3> HIDE DEF o, x, f, row
    <3>3. /\ c \in HakemusRow /\ c.open = TRUE /\ c.status = o.status
          /\ c.refused = o.refused /\ c.form = o.form /\ c.by = "verify" /\ c.seen = x
      BY <3>1 DEF HakemusRow
    <3> HIDE DEF c
    <3>4. QED
      BY <3>1, <3>2, <3>3 DEF HakemusRow, Statuses, o, x, f
  <2>4. Follows(OpenRow, row, Len(hakemus))
    <3>1. x \in Nat /\ f \in Nat /\ x < Len(hakemus) /\ row.by \notin {"update", "submit"}
      BY <2>1, <2>3 DEF EditHandlers
    <3> HIDE DEF row, x, f
    <3>2. row.form < OpenRow.form => row.seen < Len(hakemus) - 1
      BY <2>2, <2>3, <3>1
    <3>3. Undone(OpenRow, row) => row.seen < Len(hakemus) - 1
      BY <2>2, <2>3, <3>1 DEF Undone
    <3>4. ~(OpenRow.refused /\ ~row.refused)
      BY <2>3
    <3>5. QED
      BY <3>1, <3>2, <3>3, <3>4 DEF Follows
  <2>5. row.form < Len(answers')
    <3> HIDE DEF row
    <3>1. QED
      BY <2>1, <2>3
  <2> HIDE DEF row
  <2>6. QED
    BY <2>1, <2>3, <2>4, <2>5, WriterKeeps
<1>3. CASE RefuseApplication(t)
  <2> DEFINE x == thread[t].seen  f == thread[t].form
         row == [CopiedRow("refuse", x) EXCEPT !.refused = TRUE]
  <2>1. /\ AddVersion(row) /\ UNCHANGED answers /\ Finish(t)
        /\ thread[t].pc = "row" /\ thread[t].kind = "refuse"
    BY <1>3 DEF RefuseApplication, At
  <2>2. x = Len(hakemus) - 1 =>
          TRUE
    BY <2>1 DEF Knows
  <2>3. /\ row \in HakemusRow /\ row.open = TRUE
        /\ row.refused = TRUE /\ row.by = "refuse" /\ row.seen = x
        /\ row.form = OpenRow.form /\ row.status = OpenRow.status
    <3> DEFINE o == OpenRow
               c == [o EXCEPT !.by = "refuse", !.seen = x]
    <3>1. o \in HakemusRow /\ o.open = TRUE /\ x \in Nat /\ f \in Nat /\ "refuse" \in Kinds
      BY DEF Kinds
    <3>2. row = [c EXCEPT !.refused = TRUE]
      BY DEF CopiedRow
    <3> HIDE DEF o, x, f, row
    <3>3. /\ c \in HakemusRow /\ c.open = TRUE /\ c.status = o.status
          /\ c.refused = o.refused /\ c.form = o.form /\ c.by = "refuse" /\ c.seen = x
      BY <3>1 DEF HakemusRow
    <3> HIDE DEF c
    <3>4. QED
      BY <3>1, <3>2, <3>3 DEF HakemusRow, Statuses, o, x, f
  <2>4. Follows(OpenRow, row, Len(hakemus))
    <3>1. x \in Nat /\ f \in Nat /\ x < Len(hakemus) /\ row.by \notin {"update", "submit"}
      BY <2>1, <2>3 DEF EditHandlers
    <3> HIDE DEF row, x, f
    <3>2. row.form < OpenRow.form => row.seen < Len(hakemus) - 1
      BY <2>2, <2>3, <3>1
    <3>3. Undone(OpenRow, row) => row.seen < Len(hakemus) - 1
      BY <2>2, <2>3, <3>1 DEF Undone
    <3>4. ~(OpenRow.refused /\ ~row.refused)
      BY <2>3
    <3>5. QED
      BY <3>1, <3>2, <3>3, <3>4 DEF Follows
  <2>5. row.form < Len(answers')
    <3> HIDE DEF row
    <3>1. QED
      BY <2>1, <2>3
  <2> HIDE DEF row
  <2>6. QED
    BY <2>1, <2>3, <2>4, <2>5, WriterKeeps
<1>4. QED
  BY <1>1, <1>2, <1>3

\* The reads before such a write.
LEMMA ReadKeeps ==
    ASSUME Inv, NEW t \in Threads,
           \/ ReadToOpen(t) \/ ReadNew(t) \/ ReadOpenAnswers(t)
           \/ ReadToRefuse(t) \/ ReadToSetStatus(t)
    PROVE  Inv'
<1>9. /\ Len(hakemus) \in Nat \ {0} /\ Len(answers) \in Nat \ {0}
      /\ OpenVersion = Len(hakemus) - 1 /\ OpenRow = hakemus[Len(hakemus)]
      /\ OpenRow \in HakemusRow /\ OpenRow.form \in Nat /\ OpenRow.form < Len(answers)
      /\ OpenRow.open = TRUE
      /\ thread[t] \in ThreadType /\ thread[t].kind \in Kinds
      /\ thread[t].seen \in Nat /\ thread[t].form \in Nat
      /\ thread[t].seen < Len(hakemus) /\ thread[t].form < Len(answers)
      /\ Knows(thread[t], hakemus, Len(answers))
  BY OpenFacts, ThreadFacts DEF HakemusRow
<1> USE <1>9
<1>0. /\ hakemus[OpenVersion + 1] = OpenRow /\ OpenVersion \in Nat /\ OpenVersion < Len(hakemus)
      /\ {"open", "verify", "refuse", "status"} \subseteq Kinds
      /\ "refuse" \notin EditHandlers \cup {"open", "status", "verify"}
      /\ "verify" \notin EditHandlers \cup {"open"} /\ "status" \notin EditHandlers \cup {"open"}
  BY DEF Kinds, EditHandlers
<1>1. CASE ReadToOpen(t)
  <2>1. Start(t, "row", "open", OpenVersion, OpenRow.form) /\ OpenRow.status # "cancelled"
    BY <1>1 DEF ReadToOpen, Visible
  <2>2. Knows([pc |-> "row", kind |-> "open", seen |-> OpenVersion, form |-> OpenRow.form],
              hakemus, Len(answers))
    BY <1>0, <2>1 DEF Knows
  <2>3. QED
    BY <1>0, <2>1, <2>2, StartKeeps
<1>2. CASE ReadNew(t)
  <2>1. Start(t, "form", "verify", OpenVersion, 0) /\ OpenRow.status = "new"
    BY <1>2 DEF ReadNew
  <2>2. Knows([pc |-> "form", kind |-> "verify", seen |-> OpenVersion, form |-> 0],
              hakemus, Len(answers))
    BY <1>0, <2>1 DEF Knows
  <2>3. QED
    BY <1>0, <2>1, <2>2, StartKeeps
<1>3. CASE ReadOpenAnswers(t)
  <2> DEFINE n == Len(answers) - 1
         th == [thread[t] EXCEPT !.pc = "row", !.form = n]
  <2>1. /\ thread' = [thread EXCEPT ![t].pc = "row", ![t].form = n]
        /\ UNCHANGED <<hakemus, answers, current>> /\ budget' = budget
        /\ thread[t].pc = "form" /\ thread[t].kind = "verify"
    BY <1>3, OpenFacts DEF ReadOpenAnswers, At
  <2>2. n \in Nat
    OBVIOUS
  <2> HIDE DEF n
  <2>3. /\ th \in ThreadType /\ th.pc = "row" /\ th.kind = thread[t].kind
        /\ th.seen = thread[t].seen /\ th.form = n
    BY <2>2 DEF ThreadType
  <2>4. thread' = [thread EXCEPT ![t] = th]
    BY <2>1 DEF Inv, Rest
  <2> HIDE DEF th
  <2>5. Knows(th, hakemus, Len(answers))
    <3>1. hakemus[thread[t].seen + 1].form < Len(answers)
          /\ hakemus[thread[t].seen + 1] \in HakemusRow
      BY DEF Inv, Knowledge, GoodHistory
    <3>2. hakemus[thread[t].seen + 1].form \in Nat
      BY <3>1 DEF HakemusRow
    <3>3. hakemus[thread[t].seen + 1].status = "new"
      BY <2>1 DEF Knows
    <3>4. QED
      BY <1>0, <2>1, <2>3, <3>1, <3>2, <3>3 DEF Knows, n
  <2>6. QED
    BY <2>1, <2>3, <2>4, <2>5, MoverKeeps DEF Inv, Rest
<1>4. CASE ReadToRefuse(t)
  <2>1. Start(t, "row", "refuse", OpenVersion, 0)
    BY <1>4 DEF ReadToRefuse
  <2>2. Knows([pc |-> "row", kind |-> "refuse", seen |-> OpenVersion, form |-> 0],
              hakemus, Len(answers))
    BY <1>0 DEF Knows
  <2>3. QED
    BY <1>0, <2>1, <2>2, StartKeeps
<1>5. CASE ReadToSetStatus(t)
  <2>1. Start(t, "row", "status", OpenVersion, OpenRow.form)
    BY <1>5 DEF ReadToSetStatus
  <2>2. Knows([pc |-> "row", kind |-> "status", seen |-> OpenVersion, form |-> OpenRow.form],
              hakemus, Len(answers))
    BY <1>0 DEF Knows
  <2>3. QED
    BY <1>0, <2>1, <2>2, StartKeeps
<1>6. QED
  BY <1>1, <1>2, <1>3, <1>4, <1>5

\* The official's status change, and the note of the submitted version.
LEMMA StatusKeeps ==
    ASSUME Inv, NEW t \in Threads,
           UpdateHakemusStatus(t) \/ UpdateSubmittedVersion(t)
    PROVE  Inv'
<1>9. /\ Len(hakemus) \in Nat \ {0} /\ Len(answers) \in Nat \ {0}
      /\ OpenVersion = Len(hakemus) - 1 /\ OpenRow = hakemus[Len(hakemus)]
      /\ OpenRow \in HakemusRow /\ OpenRow.form \in Nat /\ OpenRow.form < Len(answers)
      /\ OpenRow.open = TRUE
      /\ thread[t] \in ThreadType /\ thread[t].kind \in Kinds
      /\ thread[t].seen \in Nat /\ thread[t].form \in Nat
      /\ thread[t].seen < Len(hakemus) /\ thread[t].form < Len(answers)
      /\ Knows(thread[t], hakemus, Len(answers))
  BY OpenFacts, ThreadFacts DEF HakemusRow
<1> USE <1>9
<1>1. CASE UpdateHakemusStatus(t)
  <2>1. PICK status \in OfficialStatuses :
          /\ AddVersion([CopiedRow("status", thread[t].seen)
                          EXCEPT !.status = status, !.form = thread[t].form])
          /\ IF status = "submitted" THEN Goto(t, "mark") ELSE Finish(t)
    BY <1>1 DEF UpdateHakemusStatus
  <2> DEFINE x == thread[t].seen  f == thread[t].form
         row == [CopiedRow("status", x) EXCEPT !.status = status, !.form = f]
  <2>2. /\ AddVersion(row) /\ UNCHANGED answers /\ (Finish(t) \/ Goto(t, "mark"))
        /\ thread[t].pc = "row" /\ thread[t].kind = "status"
        /\ status \in Statuses
    BY <1>1, <2>1 DEF UpdateHakemusStatus, At, OfficialStatuses
  <2>3. x = Len(hakemus) - 1 => OpenRow.form <= f
    BY <2>2 DEF Knows
  <2>4. /\ row \in HakemusRow /\ row.open = TRUE
        /\ row.refused = OpenRow.refused /\ row.by = "status" /\ row.seen = x
        /\ row.form = f /\ row.status = status
    <3> DEFINE o == OpenRow
               c == [o EXCEPT !.by = "status", !.seen = x]
    <3>1. o \in HakemusRow /\ o.open = TRUE /\ x \in Nat /\ f \in Nat /\ "status" \in Kinds
      BY DEF Kinds
    <3>2. row = [c EXCEPT !.status = status, !.form = f]
      BY DEF CopiedRow
    <3> HIDE DEF o, x, f, row
    <3>3. /\ c \in HakemusRow /\ c.open = TRUE /\ c.status = o.status
          /\ c.refused = o.refused /\ c.form = o.form /\ c.by = "status" /\ c.seen = x
      BY <3>1 DEF HakemusRow
    <3> HIDE DEF c
    <3>4. QED
      BY <2>2, <3>1, <3>2, <3>3 DEF HakemusRow, o
  <2>5. Follows(OpenRow, row, Len(hakemus))
    <3>1. x \in Nat /\ f \in Nat /\ x < Len(hakemus)
      OBVIOUS
    <3> HIDE DEF row, x, f
    <3>2. row.form < OpenRow.form => row.seen < Len(hakemus) - 1
      BY <2>3, <2>4, <3>1
    <3>3. ~Undone(OpenRow, row)
      BY <2>4 DEF Undone
    <3>4. ~(OpenRow.refused /\ ~row.refused)
      BY <2>4
    <3>5. QED
      BY <2>4, <3>2, <3>3, <3>4 DEF Follows
  <2>6. row.form < Len(answers')
    <3> HIDE DEF row
    <3>1. QED
      BY <2>2, <2>4
  <2> HIDE DEF row
  <2>7. QED
    BY <2>2, <2>4, <2>5, <2>6, WriterKeeps
<1>2. CASE UpdateSubmittedVersion(t)
  <2>1. /\ hakemus' = [hakemus EXCEPT ![Len(hakemus)].submitted = OpenVersion]
        /\ Finish(t) /\ UNCHANGED answers
    BY <1>2, OpenFacts DEF UpdateSubmittedVersion
  <2>2. GoodHistory(hakemus') /\ Kept(hakemus, hakemus') /\ Len(hakemus') = Len(hakemus)
    <3>1. GoodHistory(hakemus) /\ OpenVersion \in Nat
      BY DEF Inv
    <3>2. QED
      BY <2>1, <3>1, MarkVersion
  <2>3. GoodAnswers' /\ Len(answers) <= Len(answers')
    BY <2>1 DEF Inv, GoodAnswers
  <2>4. \A i \in 1..Len(hakemus') : hakemus'[i].form < Len(answers')
    BY <2>1, <2>2 DEF Inv, Knowledge, Kept
  <2>5. Idle \in ThreadType /\ Knows(Idle, hakemus', Len(answers'))
    <3>1. Idle \in ThreadType /\ Knows(Idle, hakemus, Len(answers))
      BY IdleKnows
    <3>2. QED
      BY <2>1, <2>2, <3>1 DEF Knows, Idle
  <2>6. /\ Rest' /\ thread'[t] = Idle
        /\ \A s \in Threads \ {t} : thread'[s] = thread[s]
    BY <2>1, <2>5 DEF Finish, Inv, Rest
  <2>7. QED
    BY <2>2, <2>3, <2>4, <2>5, <2>6, StepKeeps
<1>3. QED
  BY <1>1, <1>2

\* PUT keskeyta-aloittamatta: two rows in one step.
LEMMA KeskeytaKeeps ==
    ASSUME Inv, KeskeytaAloittamatta
    PROVE  Inv'
<1>1. PICK refused \in BOOLEAN :
        LET first == [CopiedRow("keskeyta", OpenVersion) EXCEPT !.refused = refused]
            second == [first EXCEPT !.seen = Len(hakemus)] IN
        hakemus' = Append(CloseOpen(Append(CloseOpen(hakemus), first)), second)
  BY DEF KeskeytaAloittamatta
<1> DEFINE o == OpenRow
           x == OpenVersion
           n == Len(hakemus)
           c == [o EXCEPT !.by = "keskeyta", !.seen = x]
           first == [c EXCEPT !.refused = refused]
           second == [first EXCEPT !.seen = n]
           middle == Append(CloseOpen(hakemus), first)
<1>2. /\ o \in HakemusRow /\ o.open = TRUE /\ o.form \in Nat /\ o.form < Len(answers)
      /\ o = hakemus[n] /\ x = n - 1 /\ n \in Nat \ {0} /\ x \in Nat
      /\ "keskeyta" \in Kinds /\ Len(answers) \in Nat
  <2>1. /\ o \in HakemusRow /\ o.open = TRUE /\ o.form < Len(answers)
        /\ o = hakemus[n] /\ x = n - 1 /\ n \in Nat \ {0} /\ Len(answers) \in Nat
    BY OpenFacts
  <2>2. o.form \in Nat
    BY <2>1 DEF HakemusRow
  <2>3. "keskeyta" \in Kinds
    BY DEF Kinds
  <2>4. QED
    BY <2>1, <2>2, <2>3
<1>3. hakemus' = Append(CloseOpen(middle), second)
  BY <1>1 DEF CopiedRow
<1>4. UNCHANGED <<answers, current, thread>> /\ Spend("requests")
  BY DEF KeskeytaAloittamatta
<1> HIDE DEF o, x
<1>5. /\ c \in HakemusRow /\ c.open = TRUE /\ c.status = o.status /\ c.form = o.form
      /\ c.by = "keskeyta" /\ c.seen = x
  BY <1>2 DEF HakemusRow
<1> HIDE DEF c
<1>6. /\ first \in HakemusRow /\ first.open = TRUE /\ first.status = o.status
      /\ first.form = o.form /\ first.by = "keskeyta" /\ first.seen = x
  BY <1>5 DEF HakemusRow
<1> HIDE DEF first
<1>7. /\ second \in HakemusRow /\ second.open = TRUE /\ second.status = o.status
      /\ second.form = o.form /\ second.by = "keskeyta" /\ second.seen = n
      /\ second.refused = first.refused
  BY <1>2, <1>6 DEF HakemusRow
<1> HIDE DEF second, middle
<1>8. /\ GoodHistory(middle) /\ Kept(hakemus, middle)
      /\ Len(middle) = n + 1 /\ middle[Len(middle)] = first
  <2>1. Follows(o, first, n)
    BY <1>2, <1>6 DEF Follows, Undone
  <2>2. GoodHistory(hakemus)
    BY DEF Inv
  <2>3. QED
    BY <1>2, <1>6, <2>1, <2>2, AppendVersion DEF middle
<1>9. /\ GoodHistory(hakemus') /\ Kept(middle, hakemus')
      /\ Len(hakemus') = n + 2 /\ hakemus'[n + 2] = second
  <2>1. Follows(first, second, n + 1)
    BY <1>2, <1>6, <1>7 DEF Follows, Undone
  <2>2. Follows(middle[Len(middle)], second, Len(middle))
    BY <1>8, <2>1
  <2> DEFINE g == Append(CloseOpen(middle), second)
  <2>3. /\ GoodHistory(g) /\ Kept(middle, g)
        /\ Len(g) = Len(middle) + 1 /\ g[Len(g)] = second
    BY <1>7, <1>8, <2>2, AppendVersion
  <2>4. hakemus' = g
    BY <1>3
  <2> HIDE DEF g
  <2>5. QED
    BY <1>2, <1>8, <2>3, <2>4
<1>10. Kept(hakemus, hakemus')
  BY <1>2, <1>8, <1>9 DEF Kept
<1>11. \A i \in 1..Len(hakemus') : hakemus'[i].form < Len(answers)
  <2> TAKE i \in 1..Len(hakemus')
  <2>1. CASE i = n + 2
    BY <2>1, <1>2, <1>7, <1>9
  <2>2. CASE i = n + 1
    <3>1. hakemus'[i].form = middle[i].form
      BY <1>2, <2>2, <1>8, <1>9 DEF Kept
    <3>2. QED
      BY <2>2, <3>1, <1>2, <1>6, <1>8
  <2>3. CASE i \in 1..n
    BY <2>3, <1>2, <1>10 DEF Kept, Inv, Knowledge
  <2>4. QED
    BY <1>2, <1>9, <2>1, <2>2, <2>3
<1>12. \A t \in Threads : Knows(thread[t], hakemus', Len(answers))
  <2> TAKE t \in Threads
  <2>1. thread[t] \in ThreadType /\ Knows(thread[t], hakemus, Len(answers))
    BY DEF Inv, Rest, Knowledge
  <2>2. QED
    BY <1>2, <1>9, <1>10, <2>1, KnowsKept
<1>13. Rest'
  BY <1>4, SpendType DEF Inv, Rest
<1>14. QED
  BY <1>4, <1>9, <1>11, <1>12, <1>13 DEF Inv, GoodAnswers, Knowledge

\* The invariant holds of a hakemus as on-hakemus-create leaves it.
LEMMA InitInv == Init => Inv
<1> SUFFICES ASSUME Init PROVE Inv
  OBVIOUS
<1> DEFINE row == [open |-> TRUE, status |-> "new", form |-> 0, submitted |-> 0,
                   refused |-> FALSE, by |-> "create", seen |-> 0]
           one == [open |-> TRUE]
<1>1. hakemus = <<row>> /\ answers = <<one>>
  BY DEF Init
<1>2. row \in HakemusRow /\ row.open = TRUE /\ row.form = 0
      /\ one \in AnswersRow /\ one.open = TRUE
  BY DEF HakemusRow, Statuses, Kinds, AnswersRow
<1> HIDE DEF row, one
<1>3. /\ hakemus \in Seq(HakemusRow) /\ Len(hakemus) = 1 /\ hakemus[1] = row
      /\ answers \in Seq(AnswersRow) /\ Len(answers) = 1 /\ answers[1] = one
  BY <1>1, <1>2
<1>4. GoodHistory(hakemus) /\ GoodAnswers
  BY <1>2, <1>3 DEF GoodHistory, GoodAnswers, LastIsOpen
<1>5. Rest
  BY HakemusBounds DEF Init, Rest, Idle, ThreadType, Kinds
<1>6. Knowledge
  BY <1>2, <1>3 DEF Init, Knowledge, Knows, Idle
<1>7. QED
  BY <1>4, <1>5, <1>6 DEF Inv

\* Every handler, death or change of phase keeps the invariant.
LEMMA StepInv == Inv /\ [Next]_vars => Inv'
<1> SUFFICES ASSUME Inv, [Next]_vars PROVE Inv'
  OBVIOUS
<1>1. CASE UNCHANGED vars
  BY <1>1 DEF vars, Inv, GoodAnswers, Rest, Knowledge
<1>2. CASE PhaseEnds
  BY <1>2 DEF PhaseEnds, Inv, GoodAnswers, Rest, Knowledge
<1>3. CASE KeskeytaAloittamatta
  BY <1>3, KeskeytaKeeps
<1>4. CASE \E t \in Threads : Request(t)
  <2>1. PICK t \in Threads : Request(t)
    BY <1>4
  <2>2. CASE RequestDies(t)
    <3>1. budget' \in [{"requests", "deaths"} -> Nat]
      BY <2>2, SpendType DEF RequestDies, Inv
    <3>2. QED
      BY <2>2, <3>1, IdleKnows, MoverKeeps DEF RequestDies
  <2>3. QED
    BY <2>1, <2>2, SaveKeeps, EditKeeps, ReadKeeps, LaterKeeps, StatusKeeps DEF Request
<1>5. QED
  BY <1>1, <1>2, <1>3, <1>4 DEF Next

\* Every hakemus row is a good successor of the one before it, and every
\* request under way knows enough of the version it read to write another.
THEOREM Invariant == Spec => []Inv
BY InitInv, StepInv, PTL DEF Spec
-----------------------------------------------------------------------------
(* What follows.                                                           *)

\* What the invariant says of a version v and its predecessor.
LEMMA VersionFacts ==
    ASSUME Inv, NEW v \in 1..(Len(hakemus) - 1)
    PROVE  Follows(Row(v - 1), Row(v), v)
<1>1. Len(hakemus) \in Nat
  BY OpenFacts
<1>2. v + 1 \in 2..Len(hakemus)
  BY <1>1
<1>3. Follows(hakemus[(v + 1) - 1], hakemus[v + 1], (v + 1) - 1)
  BY <1>2 DEF Inv, GoodHistory
<1>4. (v + 1) - 1 = v /\ (v - 1) + 1 = v
  BY <1>1
<1>5. QED
  BY <1>3, <1>4 DEF Row

\* Every variable keeps its type.
THEOREM VersionsTypeCorrect == Spec => []TypeOK
<1>1. Inv => TypeOK
  BY DEF Inv, GoodHistory, GoodAnswers, AnswersRow, Rest, ThreadType, TypeOK
<1>2. QED
  BY <1>1, Invariant, PTL

\* Exactly the last version of the hakemus and of its answers is open.
THEOREM OneOpen == Spec => []OneOpenVersion
<1>1. Inv => OneOpenVersion
  BY DEF Inv, GoodHistory, GoodAnswers, OneOpenVersion
<1>2. QED
  BY <1>1, Invariant, PTL

\* Accepted autosaves and submits follow the version their client had.
THEOREM NoLostUpdate == Spec => []SavesFollowWhatTheySaw
<1>1. Inv => SavesFollowWhatTheySaw
  BY VersionFacts DEF Follows, SavesFollowWhatTheySaw
<1>2. QED
  BY <1>1, Invariant, PTL

\* Only a handler that read too early takes the hakemus back to older answers.
THEOREM AnswersStand == Spec => []AnswersLostOnlyByStaleHandler
<1>1. Inv => AnswersLostOnlyByStaleHandler
  BY VersionFacts DEF Follows, AnswersLostOnlyByStaleHandler
<1>2. QED
  BY <1>1, Invariant, PTL

\* Only a handler that read too early undoes a cancellation or a submit, unless
\* an official sets the status (update-hakemus-status).
THEOREM StatusStands == Spec => []StatusUndoneOnlyByStaleHandler
<1>1. Inv => StatusUndoneOnlyByStaleHandler
  BY VersionFacts DEF Follows, Undone, StatusUndone, StatusUndoneOnlyByStaleHandler
<1>2. QED
  BY <1>1, Invariant, PTL

\* A refusal stands until keskeyta-aloittamatta undoes it.
THEOREM RefusalIsKept == Spec => []RefusalStands
<1>1. Inv => RefusalStands
  BY VersionFacts DEF Follows, RefusalStands
<1>2. QED
  BY <1>1, Invariant, PTL

\* Closing the open row and appending another leaves closed rows alone.
Frozen(h, g) == \A i \in 1..Len(h) : ~h[i].open => i <= Len(g) /\ g[i] = h[i]

\* create-new-hakemus-version leaves the rows that were closed alone.
LEMMA AppendFreezes ==
    ASSUME NEW h \in Seq(HakemusRow), NEW row
    PROVE  Frozen(h, Append(CloseOpen(h), row))
<1> DEFINE c == CloseOpen(h)
<1>1. \A i \in 1..Len(h) : h[i] \in HakemusRow /\ c[i] = [h[i] EXCEPT !.open = FALSE]
  BY DEF CloseOpen
<1>2. \A i \in 1..Len(h) : ~h[i].open => c[i] = h[i]
  <2> SUFFICES ASSUME NEW i \in 1..Len(h), ~h[i].open
               PROVE  c[i] = h[i]
    OBVIOUS
  <2> DEFINE r == h[i]
  <2>1. r \in HakemusRow /\ c[i] = [r EXCEPT !.open = FALSE] /\ ~r.open
    BY <1>1
  <2> HIDE DEF r, c
  <2>2. r.open = FALSE
    BY <2>1 DEF HakemusRow
  <2>3. [r EXCEPT !.open = FALSE] = r
    BY <2>1, <2>2 DEF HakemusRow
  <2>4. QED
    BY <2>1, <2>3 DEF r
<1>3. c \in Seq(HakemusRow) /\ Len(c) = Len(h)
  <2>1. \A r \in HakemusRow : [r EXCEPT !.open = FALSE] \in HakemusRow
    BY DEF HakemusRow
  <2>2. \A i \in 1..Len(h) : h[i] \in HakemusRow
    OBVIOUS
  <2>3. QED
    BY <2>1, <2>2 DEF CloseOpen
<1> HIDE DEF c
<1>4. /\ Len(Append(c, row)) = Len(h) + 1
      /\ \A i \in 1..Len(h) : Append(c, row)[i] = c[i]
  BY <1>3
<1>5. QED
  BY <1>2, <1>4 DEF Frozen, c

\* A version that is closed stays as it is, whatever step is taken.
THEOREM ClosedStays == Spec => ClosedIsFrozen
<1>1. Inv /\ [Next]_vars => Frozen(hakemus, hakemus')
  <2> SUFFICES ASSUME Inv, [Next]_vars PROVE Frozen(hakemus, hakemus')
    OBVIOUS
  <2>1. hakemus \in Seq(HakemusRow) /\ Len(hakemus) \in Nat \ {0}
        /\ OpenAt(hakemus) = Len(hakemus) /\ hakemus[Len(hakemus)].open = TRUE
    BY OpenFacts DEF Inv, GoodHistory
  <2>2. ASSUME UNCHANGED hakemus PROVE Frozen(hakemus, hakemus')
    BY <2>1, <2>2 DEF Frozen
  <2>3. ASSUME NEW row, AddVersion(row) PROVE Frozen(hakemus, hakemus')
    BY <2>1, <2>3, AppendFreezes DEF AddVersion
  <2>4. CASE UNCHANGED vars \/ PhaseEnds
    BY <2>2, <2>4 DEF vars, PhaseEnds
  <2>5. CASE KeskeytaAloittamatta
    <3> DEFINE o == OpenRow
    <3>1. PICK r1, r2 : hakemus' = Append(CloseOpen(Append(CloseOpen(hakemus), r1)), r2)
                        /\ r1 \in HakemusRow
      <4>1. PICK refused \in BOOLEAN :
              LET r1 == [CopiedRow("keskeyta", OpenVersion) EXCEPT !.refused = refused]
                  r2 == [r1 EXCEPT !.seen = Len(hakemus)] IN
              hakemus' = Append(CloseOpen(Append(CloseOpen(hakemus), r1)), r2)
        BY <2>5 DEF KeskeytaAloittamatta
      <4>2. [CopiedRow("keskeyta", OpenVersion) EXCEPT !.refused = refused] \in HakemusRow
        <5> DEFINE c == CopiedRow("keskeyta", OpenVersion)
        <5>1. c = [o EXCEPT !.by = "keskeyta", !.seen = OpenVersion]
          BY DEF CopiedRow
        <5>2. o \in HakemusRow /\ OpenVersion \in Nat
          BY OpenFacts
        <5> HIDE DEF o, c
        <5>3. c \in HakemusRow
          BY <5>1, <5>2 DEF HakemusRow, Kinds
        <5>4. [c EXCEPT !.refused = refused] \in HakemusRow
          BY <5>3 DEF HakemusRow
        <5>5. QED
          BY <5>4 DEF c
      <4>3. QED
        BY <4>1, <4>2
    <3> DEFINE m == Append(CloseOpen(hakemus), r1)
    <3>2. Frozen(hakemus, m)
      BY <2>1, AppendFreezes
    <3>3. m \in Seq(HakemusRow) /\ Len(m) = Len(hakemus) + 1
      <4>1. CloseOpen(hakemus) \in Seq(HakemusRow) /\ Len(CloseOpen(hakemus)) = Len(hakemus)
        <5>1. \A r \in HakemusRow : [r EXCEPT !.open = FALSE] \in HakemusRow
          BY DEF HakemusRow
        <5>2. \A i \in 1..Len(hakemus) : hakemus[i] \in HakemusRow
          BY <2>1
        <5>3. QED
          BY <2>1, <5>1, <5>2 DEF CloseOpen
      <4>2. QED
        BY <3>1, <4>1
    <3> HIDE DEF m
    <3>4. Frozen(m, hakemus')
      BY <3>1, <3>3, AppendFreezes DEF m
    <3>5. QED
      BY <2>1, <3>2, <3>3, <3>4 DEF Frozen
  <2>6. CASE \E t \in Threads : Request(t)
    <3>1. PICK t \in Threads : Request(t)
      BY <2>6
    <3>2. CASE UpdateSubmittedVersion(t)
      <4>1. hakemus' = [hakemus EXCEPT ![Len(hakemus)].submitted = OpenVersion]
        BY <2>1, <3>2 DEF UpdateSubmittedVersion
      <4>2. Len(hakemus') = Len(hakemus)
            /\ \A i \in 1..Len(hakemus) : i # Len(hakemus) => hakemus'[i] = hakemus[i]
        BY <2>1, <4>1
      <4>3. QED
        BY <2>1, <4>2 DEF Frozen
    <3>3. CASE \/ CanUpdate(t) \/ Refused(t) \/ ReadForEdit(t) \/ WriteAnswers(t)
               \/ ReadToOpen(t) \/ ReadNew(t) \/ ReadOpenAnswers(t)
               \/ ReadToRefuse(t) \/ ReadToSetStatus(t) \/ RequestDies(t)
      BY <2>2, <3>3 DEF CanUpdate, Refused, ReadForEdit, WriteAnswers, ReadToOpen,
            ReadNew, ReadOpenAnswers, ReadToRefuse, ReadToSetStatus, RequestDies, Start
    <3>4. CASE \/ UpdateHakemus(t) \/ SubmitHakemus(t) \/ SubmitEdit(t)
               \/ OpenApplicantEdit(t) \/ VerifyHakemus(t)
               \/ RefuseApplication(t) \/ UpdateHakemusStatus(t)
      BY <2>3, <3>4 DEF UpdateHakemus, SubmitHakemus, SubmitEdit, OpenApplicantEdit,
            VerifyHakemus, RefuseApplication, UpdateHakemusStatus
    <3>5. QED
      BY <3>1, <3>2, <3>3, <3>4 DEF Request
  <2>7. QED
    BY <2>4, <2>5, <2>6 DEF Next
<1>2. Inv /\ [Next]_vars =>
        [\A i \in 1..Len(hakemus) :
           ~hakemus[i].open => i <= Len(hakemus') /\ hakemus'[i] = hakemus[i]]_vars
  BY <1>1 DEF Frozen
<1>3. QED
  BY <1>2, Invariant, PTL DEF Spec, ClosedIsFrozen
=============================================================================
