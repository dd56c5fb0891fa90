-------------------------- MODULE EmailOutboxProofs --------------------------
(***************************************************************************)
(* Proofs about EmailOutbox: no stored mail is forgotten without a loss,   *)
(* a success was accepted, and further copies have a reason.               *)
(***************************************************************************)
EXTENDS EmailOutbox, FiniteSetTheorems, TLAPS

-----------------------------------------------------------------------------
(* The inductive invariant.                                                *)

Worker == [pc : {"idle", "put", "send", "event", "next"},
           mail : Mails, list : SUBSET Mails, ok : BOOLEAN]

Holds(w, m) == worker[w].pc \in {"put", "send", "event"} /\ worker[w].mail = m
InQueue(m) == \E i \in 1..Len(queue) : queue[i] = m

\* Nobody has seen the first attempt of a mail begin: it has no event yet, and
\* the loop does not hold it.
Untried(m) == event[m] = "none" /\ ~Holds(Loop, m)

\* A mail has one first attempt, that goes from its own worker over the queue
\* to the loop.  Only what has an event is retried.
OriginInv ==
    /\ \A m \in Mails :
         /\ worker[m].pc \in {"idle", "put", "send", "event"}
         /\ worker[m].pc # "idle" => worker[m].mail = m
         /\ m \notin stored => Untried(m) /\ worker[m].pc = "idle" /\ ~InQueue(m)
         /\ worker[m].pc = "put" => Untried(m) /\ ~InQueue(m)
         /\ InQueue(m) => Untried(m) /\ worker[m].pc = "idle"
    /\ \A w \in {Loop} \cup Runs : worker[w].pc # "put"
    /\ \A i, j \in 1..Len(queue) : queue[i] = queue[j] => i = j
    /\ \A r \in Runs, m \in Mails :
         Holds(r, m) \/ m \in worker[r].list => event[m] # "none"

\* Who says that the relay took a mail is right.
AcceptedInv ==
    /\ \A m \in Mails : event[m] = "success" => Copies(m) > 0
    /\ \A w \in Workers : worker[w].pc = "event" /\ worker[w].ok => Copies(worker[w].mail) > 0

\* A stored mail was sent, or somebody will find it, or a loss was counted.
Kept(m) ==
    m \in stored =>
        Copies(m) > 0 \/ Holders(m) # {} \/ InQueue(m) \/ event[m] = "failure" \/ unsure[m] > 0

StoredInv == \A m \in Mails : Kept(m)

\* The workers that may yet make a copy, or leave a failure that lets another
\* one make it.  A queued mail counts as its own, idle, worker.
Pending(w, m) ==
    /\ worker[w].mail = m
    /\ \/ worker[w].pc \in {"put", "send"}
       \/ worker[w].pc = "event" /\ ~worker[w].ok
Attempts(m) == {w \in Workers : Pending(w, m)} \cup {n \in {m} : InQueue(n)}

\* Every attempt under way has a copy to its account, and so has a failure that
\* nobody is retrying.
Accounted(m) ==
    /\ m \notin stored => Copies(m) = 0
    /\ Copies(m) + Cardinality(Attempts(m)) <= 1 + unsure[m] + overlapped[m]
    /\ event[m] = "failure" /\ Holders(m) = {} => Copies(m) <= unsure[m] + overlapped[m]

CountInv == \A m \in Mails : Accounted(m)

Inv == TypeOK /\ OriginInv /\ AcceptedInv /\ StoredInv /\ CountInv

-----------------------------------------------------------------------------
(* Workers, mails and the idle worker.                                     *)

LEMMA IdleType == Idle \in Worker /\ Idle.pc = "idle" /\ Idle.list = {} /\ ~Idle.ok
BY MailAssumption DEF Idle, Worker

LEMMA WorkersFacts ==
    /\ Mails \subseteq Workers /\ Loop \in Workers /\ Runs \subseteq Workers
    /\ Loop \notin Mails /\ Loop \notin Runs /\ Mails \cap Runs = {}
    /\ IsFiniteSet(Workers)
<1>1. IsFiniteSet({Loop})
    BY FS_Singleton
<1> QED BY <1>1, MailAssumption, FS_Union DEF Workers

\* The steps that one worker takes change that worker only.
LEMMA OneWorker ==
    ASSUME TypeOK, NEW w \in Workers, NEW pc \in {"idle", "put", "send", "event", "next"},
           NEW ok \in BOOLEAN
    PROVE  /\ [worker EXCEPT ![w] = Idle] \in [Workers -> Worker]
           /\ [worker EXCEPT ![w].pc = pc] \in [Workers -> Worker]
           /\ [worker EXCEPT ![w].pc = pc, ![w].ok = ok] \in [Workers -> Worker]
<1> USE DEF TypeOK
<1>1. worker \in [Workers -> Worker]
    BY DEF Worker
<1>2. worker[w] \in Worker
    BY <1>1
<1>3. [worker[w] EXCEPT !.pc = pc] \in Worker /\ [worker[w] EXCEPT !.pc = pc, !.ok = ok] \in Worker
    BY <1>2 DEF Worker
<1> QED BY <1>1, <1>2, <1>3, IdleType

LEMMA BudgetType ==
    ASSUME TypeOK, NEW what \in {"failures", "losses", "crashes"}, Spend(what)
    PROVE  budget' \in [{"failures", "losses", "crashes"} -> Nat]
BY DEF TypeOK, Spend

LEMMA Initially == Init => Inv
<1> SUFFICES ASSUME Init PROVE Inv
    OBVIOUS
<1> USE DEF Init
<1>1. \A w \in Workers : worker[w] = Idle
    OBVIOUS
<1>2. queue = <<>> /\ Len(queue) = 0 /\ queue \in Seq(Mails)
    OBVIOUS
<1>3. TypeOK
  <2>1. worker \in [Workers -> Worker]
      BY IdleType
  <2> QED BY <1>2, <2>1, MailBounds DEF TypeOK, Worker
<1>4. \A w \in Workers, m \in Mails : ~Holds(w, m) /\ ~Pending(w, m)
    BY <1>1, IdleType DEF Holds, Pending
<1>5. \A m \in Mails : ~InQueue(m)
    BY <1>2 DEF InQueue
<1>6. OriginInv
    BY <1>1, <1>2, <1>4, <1>5, IdleType, WorkersFacts DEF OriginInv, Untried
<1>7. AcceptedInv
    BY <1>1, IdleType DEF AcceptedInv
<1>8. StoredInv
    BY DEF StoredInv, Kept
<1>9. CountInv
  <2>1. \A m \in Mails : Attempts(m) = {}
      BY <1>4, <1>5 DEF Attempts
  <2>2. \A m \in Mails : Cardinality(Attempts(m)) = 0
      BY <2>1, FS_EmptySet
  <2>3. \A m \in Mails : Copies(m) = 0 /\ unsure[m] = 0 /\ overlapped[m] = 0 /\ event[m] = "none"
      BY DEF Copies
  <2>4. \A m \in Mails : Accounted(m)
      BY <2>2, <2>3 DEF Accounted
  <2> QED BY <2>4 DEF CountInv
<1> QED BY <1>3, <1>6, <1>7, <1>8, <1>9 DEF Inv

-----------------------------------------------------------------------------
(* Types.                                                                  *)

LEMMA TakeType ==
    ASSUME TypeOK, NEW w \in Workers, Take(w)
    PROVE  whole' \in [Mails -> Nat] /\ bare' \in [Mails -> Nat]
<1> DEFINE m == worker[w].mail
<1>1. m \in Mails
    BY DEF TypeOK
<1>2. /\ whole \in [Mails -> Nat] /\ [whole EXCEPT ![m] = @ + 1] \in [Mails -> Nat]
      /\ bare \in [Mails -> Nat] /\ [bare EXCEPT ![m] = @ + 1] \in [Mails -> Nat]
    BY <1>1 DEF TypeOK
<1>3. CASE w \in Runs /\ m \in Extras
    BY <1>2, <1>3 DEF Take
<1>4. CASE ~(w \in Runs /\ m \in Extras)
    BY <1>2, <1>4 DEF Take
<1> QED BY <1>3, <1>4

LEMMA ProceedType ==
    ASSUME TypeOK, NEW w \in Workers, Proceed(w)
    PROVE  worker' \in [Workers -> Worker]
<1>1. /\ [worker EXCEPT ![w] = Idle] \in [Workers -> Worker]
      /\ [worker EXCEPT ![w].pc = "next"] \in [Workers -> Worker]
    BY OneWorker
<1> QED BY <1>1 DEF Proceed, Goto

LEMMA TypesOfFirstAttempts ==
    ASSUME TypeOK, NEW m \in Mails,
           TrySendEmail(m) \/ Enqueue(m) \/ PutOnQueue(m) \/ TakeFromQueue
    PROVE  TypeOK'
<1> USE WorkersFacts
<1>1. worker' \in [Workers -> Worker]
  <2>1. ASSUME NEW n \in Mails, NEW pc \in {"send", "put"}
        PROVE  [Idle EXCEPT !.pc = pc, !.mail = n] \in Worker
      BY IdleType DEF Worker
  <2>2. worker \in [Workers -> Worker]
      BY DEF TypeOK, Worker
  <2>3. CASE TrySendEmail(m)
      BY <2>1, <2>2, <2>3 DEF TrySendEmail, Store
  <2>4. CASE Enqueue(m)
      BY <2>1, <2>2, <2>4 DEF Enqueue, Store
  <2>5. CASE PutOnQueue(m)
      BY <2>2, <2>5, OneWorker DEF PutOnQueue
  <2>6. CASE TakeFromQueue
    <3>1. Head(queue) \in Mails
        BY <2>6 DEF TakeFromQueue, TypeOK
    <3> QED BY <2>1, <2>2, <2>6, <3>1 DEF TakeFromQueue
  <2> QED BY <2>3, <2>4, <2>5, <2>6
<1>2. queue' \in Seq(Mails) /\ Len(queue') <= QueueSize
  <2>1. queue \in Seq(Mails) /\ Len(queue) <= QueueSize /\ QueueSize \in Nat
      BY MailBounds DEF TypeOK
  <2>2. CASE TrySendEmail(m) \/ Enqueue(m)
      BY <2>1, <2>2 DEF TrySendEmail, Enqueue, Store
  <2>3. CASE PutOnQueue(m)
      BY <2>1, <2>3 DEF PutOnQueue
  <2>4. CASE TakeFromQueue
      BY <2>1, <2>4 DEF TakeFromQueue
  <2> QED BY <2>2, <2>3, <2>4
<1>3. stored' \subseteq Mails /\ UNCHANGED <<event, whole, bare, unsure, overlapped, up, budget>>
    BY DEF TrySendEmail, Enqueue, Store, PutOnQueue, TakeFromQueue, TypeOK
<1> QED BY <1>1, <1>2, <1>3 DEF TypeOK, Worker

LEMMA TypesOfAttempts ==
    ASSUME TypeOK, NEW w \in Workers, WorkerStep(w)
    PROVE  TypeOK'
<1>1. worker[w].mail \in Mails /\ worker[w].ok \in BOOLEAN
    BY DEF TypeOK
<1>2. CASE SmtpAccepts(w)
  <2>1. worker' \in [Workers -> Worker]
      BY <1>2, OneWorker DEF SmtpAccepts, Answered
  <2> QED BY <1>2, <2>1, TakeType DEF SmtpAccepts, TypeOK, Worker
<1>3. CASE SmtpRejects(w)
  <2>1. worker' \in [Workers -> Worker]
      BY <1>3, OneWorker DEF SmtpRejects, Answered
  <2> QED BY <1>3, <2>1, BudgetType DEF SmtpRejects, TypeOK, Worker, mails
<1>4. CASE SmtpBreaks(w)
  <2>1. worker' \in [Workers -> Worker]
      BY <1>4, OneWorker DEF SmtpBreaks, Answered
  <2>2. unsure' \in [Mails -> Nat]
      BY <1>1, <1>4 DEF SmtpBreaks, TypeOK
  <2> QED BY <1>4, <2>1, <2>2, TakeType, BudgetType DEF SmtpBreaks, TypeOK, Worker
<1>5. CASE StoreEvent(w)
  <2>1. event' \in [Mails -> {"none", "failure", "success"}]
      BY <1>1, <1>5 DEF StoreEvent, TypeOK
  <2> QED BY <1>5, <2>1, ProceedType DEF StoreEvent, TypeOK, Worker
<1>6. CASE LoseEvent(w)
  <2>1. unsure' \in [Mails -> Nat]
      BY <1>1, <1>6 DEF LoseEvent, TypeOK
  <2> QED BY <1>6, <2>1, ProceedType, BudgetType DEF LoseEvent, TypeOK, Worker
<1> QED BY <1>2, <1>3, <1>4, <1>5, <1>6 DEF WorkerStep

LEMMA TypesOfRetries ==
    ASSUME TypeOK, NEW r \in Runs, RetryStep(r)
    PROVE  TypeOK'
<1> USE WorkersFacts
<1>1. worker \in [Workers -> Worker]
    BY DEF TypeOK, Worker
<1>2. CASE StartRetry(r)
  <2>1. [Idle EXCEPT !.pc = "next", !.list = Failed] \in Worker
      BY IdleType DEF Worker, Failed, TypeOK
  <2>2. worker' \in [Workers -> Worker]
      BY <1>1, <1>2, <2>1 DEF StartRetry
  <2> QED BY <1>2, <2>2 DEF StartRetry, TypeOK, Worker, mails
<1>3. CASE RetryNext(r)
  <2>1. PICK m \in worker[r].list :
          /\ worker' = [worker EXCEPT ![r].pc = "send", ![r].mail = m, ![r].list = @ \ {m}]
          /\ overlapped' = [overlapped EXCEPT ![m] = IF Overtaken(m) THEN @ + 1 ELSE @]
      BY <1>3 DEF RetryNext
  <2>2. m \in Mails /\ worker[r] \in Worker
      BY <1>1 DEF Worker
  <2>3. [worker[r] EXCEPT !.pc = "send", !.mail = m, !.list = @ \ {m}] \in Worker
      BY <2>2 DEF Worker
  <2>4. worker' \in [Workers -> Worker]
      BY <1>1, <2>1, <2>3
  <2>5. overlapped' \in [Mails -> Nat]
    <3>1. overlapped \in [Mails -> Nat]
        BY DEF TypeOK
    <3>2. CASE Overtaken(m)
        BY <2>1, <2>2, <3>1, <3>2
    <3>3. CASE ~Overtaken(m)
        BY <2>1, <2>2, <3>1, <3>3
    <3> QED BY <3>2, <3>3
  <2> QED BY <1>3, <2>4, <2>5 DEF RetryNext, TypeOK, Worker
<1>4. CASE RetryDone(r)
  <2>1. worker' \in [Workers -> Worker]
      BY <1>4, OneWorker DEF RetryDone
  <2> QED BY <1>4, <2>1 DEF RetryDone, TypeOK, Worker, mails
<1> QED BY <1>2, <1>3, <1>4 DEF RetryStep

LEMMA Counted ==
    ASSUME TypeOK, NEW m \in Mails
    PROVE  /\ IsFiniteSet(Holders(m)) /\ Cardinality(Holders(m)) \in Nat
           /\ IsFiniteSet(Queued(m)) /\ Cardinality(Queued(m)) \in Nat
<1>1. IsFiniteSet(Holders(m))
    BY WorkersFacts, FS_Subset DEF Holders
<1>2. IsFiniteSet(Queued(m))
  <2>1. Len(queue) \in Nat
      BY DEF TypeOK
  <2>2. IsFiniteSet(1..Len(queue))
      BY <2>1, FS_Interval
  <2> QED BY <2>2, FS_Subset DEF Queued
<1> QED BY <1>1, <1>2, FS_CardinalityType

LEMMA WorkersCounted ==
    ASSUME NEW S \in SUBSET Workers
    PROVE  IsFiniteSet(S) /\ Cardinality(S) \in Nat
BY WorkersFacts, FS_Subset, FS_CardinalityType

LEMMA TypesOfCrashes ==
    ASSUME TypeOK, Crash \/ Restart
    PROVE  TypeOK'
<1>1. CASE Restart
    BY <1>1 DEF Restart, TypeOK, mails
<1>2. CASE Crash
  <2>1. worker' \in [Workers -> Worker]
      BY <1>2, IdleType DEF Crash
  <2>2. queue' \in Seq(Mails) /\ Len(queue') <= QueueSize
      BY <1>2, MailBounds DEF Crash
  <2>3. unsure' \in [Mails -> Nat]
    <3>1. \A m \in Mails : unsure[m] + Cardinality(Holders(m)) + Cardinality(Queued(m)) \in Nat
        BY Counted DEF TypeOK
    <3> QED BY <1>2, <3>1 DEF Crash
  <2>4. whole' \in [Mails -> Nat] /\ bare' \in [Mails -> Nat]
    <3> DEFINE Copied(taken, m, kind) ==
                 {w \in taken : worker[w].mail = m /\
                                  (w \in Runs /\ m \in Extras <=> kind = "bare")}
    <3>1. PICK taken \in SUBSET {w \in Workers : worker[w].pc = "send"} :
            /\ whole' = [m \in Mails |-> whole[m] + Cardinality(Copied(taken, m, "whole"))]
            /\ bare' = [m \in Mails |-> bare[m] + Cardinality(Copied(taken, m, "bare"))]
        BY <1>2 DEF Crash
    <3>2. \A m \in Mails, kind \in {"whole", "bare"} :
              Copied(taken, m, kind) \in SUBSET Workers
        OBVIOUS
    <3>3. \A m \in Mails, kind \in {"whole", "bare"} : Cardinality(Copied(taken, m, kind)) \in Nat
        BY <3>2, WorkersCounted
    <3> HIDE DEF Copied
    <3>4. \A m \in Mails : /\ whole[m] + Cardinality(Copied(taken, m, "whole")) \in Nat
                            /\ bare[m] + Cardinality(Copied(taken, m, "bare")) \in Nat
        BY <3>3 DEF TypeOK
    <3> QED BY <3>1, <3>4
  <2>5. budget' \in [{"failures", "losses", "crashes"} -> Nat]
      BY <1>2, BudgetType DEF Crash
  <2> QED BY <1>2, <2>1, <2>2, <2>3, <2>4, <2>5 DEF Crash, TypeOK, Worker
<1> QED BY <1>1, <1>2

LEMMA Types == TypeOK /\ [Next]_vars => TypeOK'
<1> SUFFICES ASSUME TypeOK, [Next]_vars PROVE TypeOK'
    OBVIOUS
<1>1. CASE UNCHANGED vars
    BY <1>1 DEF vars, TypeOK
<1>2. CASE \E m \in Mails : TrySendEmail(m) \/ Enqueue(m) \/ PutOnQueue(m)
    BY <1>2, TypesOfFirstAttempts
<1>3. CASE TakeFromQueue
    BY <1>3, MailAssumption, TypesOfFirstAttempts
<1>4. CASE \E w \in Workers : WorkerStep(w)
    BY <1>4, TypesOfAttempts
<1>5. CASE \E r \in Runs : RetryStep(r)
    BY <1>5, TypesOfRetries
<1>6. CASE Crash \/ Restart
    BY <1>6, TypesOfCrashes
<1> QED BY <1>1, <1>2, <1>3, <1>4, <1>5, <1>6 DEF Next

-----------------------------------------------------------------------------
(* Where attempts come from.                                               *)

\* What the steps of an attempt have in common.
LEMMA AnswerStep ==
    ASSUME TypeOK, NEW w \in Workers, SmtpAccepts(w) \/ SmtpRejects(w) \/ SmtpBreaks(w)
    PROVE  /\ worker[w].pc = "send"
           /\ \A v \in Workers \ {w} : worker'[v] = worker[v]
           /\ worker'[w].mail = worker[w].mail /\ worker'[w].list = worker[w].list
           /\ worker'[w].pc = "event"
           /\ SmtpAccepts(w) => worker'[w].ok
           /\ SmtpRejects(w) \/ SmtpBreaks(w) => ~worker'[w].ok
           /\ UNCHANGED <<stored, queue, overlapped, event>>
<1>1. worker[w] \in Worker /\ worker \in [Workers -> Worker]
    BY DEF TypeOK, Worker
<1>2. CASE SmtpAccepts(w)
  <2>1. worker' = [worker EXCEPT ![w] = [worker[w] EXCEPT !.pc = "event", !.ok = TRUE]]
      BY <1>1, <1>2 DEF SmtpAccepts, Answered
  <2>2. worker'[w].ok
      BY <1>1, <2>1 DEF Worker
  <2>3. ~SmtpRejects(w) /\ ~SmtpBreaks(w)
    <3>1. worker'[w].ok = TRUE
        BY <1>1, <2>1 DEF Worker
    <3>2. ASSUME SmtpRejects(w) \/ SmtpBreaks(w) PROVE worker'[w].ok = FALSE
        BY <1>1, <3>2 DEF SmtpRejects, SmtpBreaks, Answered, Worker
    <3> QED BY <3>1, <3>2
  <2> QED BY <1>1, <1>2, <2>1, <2>2, <2>3 DEF SmtpAccepts, Worker
<1>3. CASE SmtpRejects(w) \/ SmtpBreaks(w)
  <2>1. worker' = [worker EXCEPT ![w] = [worker[w] EXCEPT !.pc = "event", !.ok = FALSE]]
      BY <1>1, <1>3 DEF SmtpRejects, SmtpBreaks, Answered
  <2>2. ~worker'[w].ok
      BY <1>1, <2>1 DEF Worker
  <2>3. ~SmtpAccepts(w)
    <3>1. ASSUME SmtpAccepts(w) PROVE worker'[w].ok = TRUE
        BY <1>1, <3>1 DEF SmtpAccepts, Answered, Worker
    <3> QED BY <2>2, <3>1
  <2> QED BY <1>1, <1>3, <2>1, <2>2, <2>3 DEF SmtpRejects, SmtpBreaks, Worker, mails
<1> QED BY <1>2, <1>3

LEMMA NextStep ==
    ASSUME TypeOK, NEW r \in Runs, NEW m \in Mails,
           worker' = [worker EXCEPT ![r].pc = "send", ![r].mail = m, ![r].list = @ \ {m}]
    PROVE  /\ \A v \in Workers \ {r} : worker'[v] = worker[v]
           /\ worker'[r].mail = m /\ worker'[r].list = worker[r].list \ {m}
           /\ worker'[r].pc = "send"
<1>1. r \in Workers /\ worker[r] \in Worker /\ worker \in [Workers -> Worker]
    BY WorkersFacts DEF TypeOK, Worker
<1>2. worker' = [worker EXCEPT ![r] =
                   [worker[r] EXCEPT !.pc = "send", !.mail = m, !.list = worker[r].list \ {m}]]
    BY <1>1
<1> QED BY <1>1, <1>2 DEF Worker

LEMMA AttemptSteps ==
    ASSUME TypeOK, NEW w \in Workers, WorkerStep(w)
    PROVE  /\ worker[w].pc \in {"send", "event"} /\ worker[w].mail \in Mails
           /\ \A v \in Workers \ {w} : worker'[v] = worker[v]
           /\ \/ worker'[w] = Idle /\ w \notin Runs
              \/ /\ worker'[w].mail = worker[w].mail /\ worker'[w].list = worker[w].list
                 /\ worker'[w].pc \in {"event", "next"}
                 /\ worker'[w].pc = "next" => w \in Runs
           /\ UNCHANGED <<stored, queue, overlapped>>
           /\ \A m \in Mails : event'[m] # event[m] => m = worker[w].mail /\ event'[m] # "none"
<1>1. worker[w].mail \in Mails
    BY DEF TypeOK
<1>2. CASE SmtpAccepts(w) \/ SmtpRejects(w) \/ SmtpBreaks(w)
  <2>1. worker[w].pc = "send" /\ worker'[w].pc = "event" /\ UNCHANGED <<stored, queue, overlapped, event>>
      BY <1>2, AnswerStep
  <2>2. /\ \A v \in Workers \ {w} : worker'[v] = worker[v]
        /\ worker'[w].mail = worker[w].mail /\ worker'[w].list = worker[w].list
      BY <1>2, AnswerStep
  <2> QED BY <1>1, <2>1, <2>2
<1>3. CASE StoreEvent(w)
    BY <1>1, <1>3 DEF StoreEvent, Proceed, Goto, TypeOK
<1>4. CASE LoseEvent(w)
    BY <1>1, <1>4 DEF LoseEvent, Proceed, Goto, TypeOK
<1> QED BY <1>2, <1>3, <1>4 DEF WorkerStep

LEMMA OriginOfAttempts ==
    ASSUME TypeOK, OriginInv, NEW w \in Workers, WorkerStep(w)
    PROVE  OriginInv'
<1>1. \A v \in Workers, m \in Mails : Holds(v, m)' => Holds(v, m)
    BY AttemptSteps, IdleType DEF Holds
<1>2. \A m \in Mails :
         \/ worker'[m] = worker[m]
         \/ worker'[m] = Idle
         \/ /\ worker'[m].pc = "event" /\ worker'[m].mail = worker[m].mail
            /\ worker[m].pc \in {"send", "event"}
    BY AttemptSteps, WorkersFacts
<1>3. \A m \in Mails : InQueue(m)' = InQueue(m)
    BY AttemptSteps DEF InQueue
<1>4. \A m \in Mails : (Untried(m) /\ (m \notin stored \/ worker[m].pc = "put" \/ InQueue(m))) => Untried(m)'
  <2> SUFFICES ASSUME NEW m \in Mails, Untried(m),
                      m \notin stored \/ worker[m].pc = "put" \/ InQueue(m)
               PROVE  event'[m] = event[m]
      BY <1>1, WorkersFacts DEF Untried
  <2>1. ~Holds(w, m) \/ worker[w].pc = "put"
    <3>1. CASE w \in Mails
        BY <3>1 DEF OriginInv, Holds
    <3>2. CASE w = Loop
        BY <3>2 DEF Untried
    <3>3. CASE w \in Runs
        BY <3>3 DEF Untried, OriginInv
    <3> QED BY <3>1, <3>2, <3>3 DEF Workers
  <2> QED BY <2>1, AttemptSteps DEF Holds
<1>5. \A m \in Mails :
         /\ worker'[m].pc \in {"idle", "put", "send", "event"}
         /\ worker'[m].pc # "idle" => worker'[m].mail = m
    BY <1>2, IdleType DEF OriginInv
<1>6. \A m \in Mails : worker'[m].pc = "put" => worker[m].pc = "put"
    BY <1>2, IdleType
<1>7. \A m \in Mails : worker[m].pc = "idle" => worker'[m].pc = "idle"
    BY <1>2, IdleType
<1>8. stored' = stored /\ queue' = queue
    BY AttemptSteps
<1>9. \A v \in {Loop} \cup Runs : worker'[v].pc # "put"
    BY AttemptSteps, IdleType, WorkersFacts DEF OriginInv
<1>10. \A r \in Runs, m \in Mails : m \in worker'[r].list => m \in worker[r].list
    BY AttemptSteps, IdleType, WorkersFacts
<1>11. \A m \in Mails : event[m] # "none" => event'[m] # "none"
    BY AttemptSteps
<1>12. \A r \in Runs, m \in Mails : (Holds(r, m) \/ m \in worker[r].list => event[m] # "none")'
    BY <1>1, <1>10, <1>11, WorkersFacts DEF OriginInv
<1>13. \A m \in Mails :
         /\ m \notin stored' => Untried(m)' /\ worker'[m].pc = "idle" /\ ~InQueue(m)'
         /\ worker'[m].pc = "put" => Untried(m)' /\ ~InQueue(m)'
         /\ InQueue(m)' => Untried(m)' /\ worker'[m].pc = "idle"
    BY <1>3, <1>4, <1>6, <1>7, <1>8 DEF OriginInv
<1>14. \A i, j \in 1..Len(queue') : queue'[i] = queue'[j] => i = j
    BY <1>8 DEF OriginInv
<1> QED BY <1>5, <1>9, <1>12, <1>13, <1>14 DEF OriginInv

LEMMA OriginOfFirstAttempts ==
    ASSUME TypeOK, OriginInv, NEW m \in Mails, TrySendEmail(m) \/ Enqueue(m) \/ PutOnQueue(m)
    PROVE  OriginInv'
<1>1. CASE TrySendEmail(m) \/ Enqueue(m)
  <2>1. PICK pc \in {"send", "put"} : Store(m, pc)
      BY <1>1 DEF TrySendEmail, Enqueue
  <2>2. /\ \A w \in Workers \ {m} : worker'[w] = worker[w]
        /\ worker'[m].pc = pc /\ worker'[m].mail = m
        /\ m \notin stored /\ stored' = stored \cup {m} /\ UNCHANGED <<event, queue>>
      BY <2>1, IdleType, WorkersFacts DEF Store, TypeOK, Worker
  <2>3. \A n \in Mails : InQueue(n)' = InQueue(n) /\ Untried(n)' = Untried(n)
      BY <2>2, WorkersFacts DEF InQueue, Untried, Holds
  <2> QED BY <2>2, <2>3, WorkersFacts DEF OriginInv, Holds
<1>2. CASE PutOnQueue(m)
  <2>1. /\ \A w \in Workers \ {m} : worker'[w] = worker[w]
        /\ worker[m].pc = "put" /\ worker'[m].pc = "idle"
        /\ UNCHANGED <<event, stored>> /\ queue' = Append(queue, m)
      BY <1>2, IdleType, WorkersFacts DEF PutOnQueue, TypeOK
  <2>2. queue \in Seq(Mails) /\ Len(queue) \in Nat /\ Len(queue') = Len(queue) + 1
        /\ \A i \in 1..Len(queue') : queue'[i] = IF i = Len(queue) + 1 THEN m ELSE queue[i]
      BY <2>1 DEF TypeOK
  <2>3. ~InQueue(m) /\ Untried(m)
      BY <2>1 DEF OriginInv
  <2>4. \A n \in Mails : Untried(n)' = Untried(n)
      BY <2>1, WorkersFacts DEF Untried, Holds
  <2>5. \A n \in Mails : InQueue(n)' => n = m \/ InQueue(n)
      BY <2>2 DEF InQueue
  <2>6. \A i, j \in 1..Len(queue') : queue'[i] = queue'[j] => i = j
      BY <2>2, <2>3 DEF InQueue, OriginInv
  <2>7. m \in stored
      BY <2>1 DEF OriginInv
  <2> QED BY <2>1, <2>3, <2>4, <2>5, <2>6, <2>7, WorkersFacts DEF OriginInv, Holds
<1> QED BY <1>1, <1>2

LEMMA OriginOfTakes ==
    ASSUME TypeOK, OriginInv, TakeFromQueue
    PROVE  OriginInv'
<1> PICK m \in Mails : m = Head(queue)
    BY DEF TakeFromQueue, TypeOK
<1>1. /\ \A w \in Workers \ {Loop} : worker'[w] = worker[w]
      /\ worker[Loop].pc = "idle" /\ worker'[Loop].pc = "send" /\ worker'[Loop].mail = m
      /\ UNCHANGED <<event, stored>> /\ queue' = Tail(queue)
    BY IdleType, WorkersFacts DEF TakeFromQueue, TypeOK, Worker
<1>2. /\ Len(queue) \in Nat \ {0} /\ m = queue[1] /\ m \in Mails
      /\ Len(queue') = Len(queue) - 1
      /\ \A i \in 1..Len(queue') : queue'[i] = queue[i + 1]
    BY DEF TakeFromQueue, TypeOK
<1>3. InQueue(m)
    BY <1>2 DEF InQueue
<1>4. ~InQueue(m)'
  <2>1. \A i \in 1..Len(queue') : i + 1 \in 1..Len(queue) /\ i + 1 # 1 /\ 1 \in 1..Len(queue)
      BY <1>2
  <2>2. \A i, j \in 1..Len(queue) : queue[i] = queue[j] => i = j
      BY DEF OriginInv
  <2>3. ASSUME NEW i \in 1..Len(queue'), queue'[i] = m PROVE FALSE
    <3>1. queue[i + 1] = queue[1]
        BY <1>2, <2>3
    <3> QED BY <2>1, <2>2, <3>1
  <2> QED BY <2>3 DEF InQueue
<1>5. \A n \in Mails : InQueue(n)' => InQueue(n)
    BY <1>2 DEF InQueue
<1>6. \A n \in Mails \ {m} : Untried(n)' = Untried(n)
    BY <1>1, WorkersFacts DEF Untried, Holds
<1>7. \A i, j \in 1..Len(queue') : queue'[i] = queue'[j] => i = j
    BY <1>2 DEF OriginInv
<1>8. m \in stored /\ worker[m].pc = "idle"
    BY <1>2, <1>3 DEF OriginInv
<1>9. \A n \in Mails : worker'[n] = worker[n]
    BY <1>1, WorkersFacts
<1>10. ASSUME NEW n \in Mails
       PROVE  /\ n \notin stored' => Untried(n)' /\ worker'[n].pc = "idle" /\ ~InQueue(n)'
              /\ worker'[n].pc = "put" => Untried(n)' /\ ~InQueue(n)'
              /\ InQueue(n)' => Untried(n)' /\ worker'[n].pc = "idle"
  <2>1. CASE n = m
      BY <1>1, <1>4, <1>8, <1>9, <2>1
  <2>2. CASE n # m
    <3>1. Untried(n)' = Untried(n) /\ (InQueue(n)' => InQueue(n))
        BY <1>5, <1>6, <2>2
    <3> QED BY <1>1, <1>9, <3>1 DEF OriginInv
  <2> QED BY <2>1, <2>2
<1>11. \A v \in {Loop} \cup Runs : worker'[v].pc # "put"
    BY <1>1, WorkersFacts DEF OriginInv
<1>12. \A r \in Runs, n \in Mails : (Holds(r, n) \/ n \in worker[r].list => event[n] # "none")'
    BY <1>1, WorkersFacts DEF OriginInv, Holds
<1> QED BY <1>7, <1>9, <1>10, <1>11, <1>12 DEF OriginInv

LEMMA RetrySteps ==
    ASSUME TypeOK, NEW r \in Runs, RetryStep(r)
    PROVE  /\ \A w \in Workers \ {r} : worker'[w] = worker[w]
           /\ worker'[r].pc \in {"idle", "next", "send"}
           /\ UNCHANGED <<event, stored, queue, whole, bare, unsure>>
<1> USE WorkersFacts
<1>1. CASE StartRetry(r)
    BY <1>1, IdleType DEF StartRetry, TypeOK, mails, Worker
<1>2. CASE RetryNext(r)
  <2>1. PICK m \in worker[r].list :
          worker' = [worker EXCEPT ![r].pc = "send", ![r].mail = m, ![r].list = @ \ {m}]
      BY <1>2 DEF RetryNext
  <2>2. m \in Mails
      BY DEF TypeOK
  <2> QED BY <1>2, <2>1, <2>2, NextStep DEF RetryNext
<1>3. CASE RetryDone(r)
    BY <1>3, IdleType DEF RetryDone, TypeOK, mails
<1> QED BY <1>1, <1>2, <1>3 DEF RetryStep

LEMMA OriginOfRetries ==
    ASSUME TypeOK, OriginInv, NEW r \in Runs, RetryStep(r)
    PROVE  OriginInv'
<1>1. \A m \in Mails : Holds(r, m)' \/ m \in worker'[r].list => event[m] # "none"
  <2> USE WorkersFacts
  <2>1. CASE StartRetry(r)
      BY <2>1, IdleType DEF StartRetry, TypeOK, Holds, Failed, Worker
  <2>2. CASE RetryNext(r)
    <3>1. PICK m \in worker[r].list :
            worker' = [worker EXCEPT ![r].pc = "send", ![r].mail = m, ![r].list = @ \ {m}]
        BY <2>2 DEF RetryNext
    <3>2. m \in Mails
        BY DEF TypeOK
    <3>3. worker'[r].mail = m /\ worker'[r].list = worker[r].list \ {m}
        BY <3>1, <3>2, NextStep
    <3>4. \A n \in worker[r].list : event[n] # "none"
        BY DEF OriginInv, TypeOK
    <3> QED BY <3>3, <3>4 DEF Holds
  <2>3. CASE RetryDone(r)
      BY <2>3, IdleType DEF RetryDone, TypeOK, Holds
  <2> QED BY <2>1, <2>2, <2>3 DEF RetryStep
<1>2. \A m \in Mails : InQueue(m)' = InQueue(m) /\ Untried(m)' = Untried(m)
    BY RetrySteps, WorkersFacts DEF InQueue, Untried, Holds
<1> QED BY <1>1, <1>2, RetrySteps, WorkersFacts DEF OriginInv, Holds

LEMMA OriginOfCrashes ==
    ASSUME TypeOK, OriginInv, Crash \/ Restart \/ UNCHANGED vars
    PROVE  OriginInv'
<1>1. CASE Crash
  <2>1. /\ \A w \in Workers : worker'[w].pc = "idle" /\ worker'[w].list = {}
        /\ Len(queue') = 0 /\ UNCHANGED <<event, stored>>
      BY <1>1, IdleType DEF Crash
  <2>2. \A w \in Workers, m \in Mails : ~Holds(w, m)' /\ ~InQueue(m)'
      BY <2>1 DEF Holds, InQueue
  <2> QED BY <2>1, <2>2, WorkersFacts DEF OriginInv, Untried
<1>2. CASE UNCHANGED <<mails, worker>>
    BY <1>2 DEF OriginInv, Untried, Holds, InQueue, mails
<1> QED BY <1>1, <1>2 DEF Restart, vars, mails

LEMMA Origins == TypeOK /\ OriginInv /\ [Next]_vars => OriginInv'
BY OriginOfAttempts, OriginOfFirstAttempts, OriginOfTakes, OriginOfRetries, OriginOfCrashes
   DEF Next

-----------------------------------------------------------------------------
(* Copies.                                                                 *)

LEMMA CopiesType == TypeOK => \A m \in Mails : Copies(m) \in Nat
BY DEF TypeOK, Copies

LEMMA CopiesTypeNext ==
    ASSUME TypeOK, [Next]_vars
    PROVE  \A m \in Mails : Copies(m)' \in Nat
<1>1. TypeOK'
    BY Types
<1>2. \A m \in Mails : whole'[m] \in Nat /\ bare'[m] \in Nat
    BY <1>1 DEF TypeOK
<1> QED BY <1>2 DEF Copies

LEMMA TakeCopies ==
    ASSUME TypeOK, NEW w \in Workers, Take(w), NEW m \in Mails
    PROVE  Copies(m)' = IF m = worker[w].mail THEN Copies(m) + 1 ELSE Copies(m)
<1>1. worker[w].mail \in Mails /\ whole \in [Mails -> Nat] /\ bare \in [Mails -> Nat]
    BY DEF TypeOK
<1>2. CASE w \in Runs /\ worker[w].mail \in Extras
    BY <1>1, <1>2 DEF Take, Copies
<1>3. CASE ~(w \in Runs /\ worker[w].mail \in Extras)
    BY <1>1, <1>3 DEF Take, Copies
<1> QED BY <1>2, <1>3

\* A crash may have let the relay take what was being sent.
LEMMA CrashCopies ==
    ASSUME TypeOK, Crash
    PROVE  \E taken \in SUBSET {w \in Workers : worker[w].pc = "send"} : \A m \in Mails :
             Copies(m)' = Copies(m) + Cardinality({w \in taken : worker[w].mail = m})
<1> DEFINE Copied(taken, m, kind) ==
             {w \in taken : worker[w].mail = m /\
                              (w \in Runs /\ m \in Extras <=> kind = "bare")}
<1>1. PICK taken \in SUBSET {w \in Workers : worker[w].pc = "send"} :
        /\ whole' = [m \in Mails |-> whole[m] + Cardinality(Copied(taken, m, "whole"))]
        /\ bare' = [m \in Mails |-> bare[m] + Cardinality(Copied(taken, m, "bare"))]
    BY DEF Crash
<1>2. ASSUME NEW m \in Mails
      PROVE  Copies(m)' = Copies(m) + Cardinality({w \in taken : worker[w].mail = m})
  <2> DEFINE W == Copied(taken, m, "whole")
             B == Copied(taken, m, "bare")
  <2>1. W \cup B = {w \in taken : worker[w].mail = m} /\ W \cap B = {}
      OBVIOUS
  <2>2. W \in SUBSET Workers /\ B \in SUBSET Workers
      OBVIOUS
  <2> HIDE DEF W, B
  <2>3. IsFiniteSet(W) /\ IsFiniteSet(B) /\ Cardinality(W) \in Nat /\ Cardinality(B) \in Nat
      BY <2>2, WorkersCounted
  <2>4. Cardinality(W \cap B) = 0
      BY <2>1, FS_EmptySet
  <2>5. Cardinality(W \cup B) = Cardinality(W) + Cardinality(B)
    <3>1. Cardinality(W \cup B) = Cardinality(W) + Cardinality(B) - Cardinality(W \cap B)
        BY <2>3, FS_Union
    <3> QED BY <2>3, <2>4, <3>1
  <2>6. whole'[m] = whole[m] + Cardinality(W) /\ bare'[m] = bare[m] + Cardinality(B)
      BY <1>1 DEF W, B
  <2>7. whole[m] \in Nat /\ bare[m] \in Nat
      BY DEF TypeOK
  <2>8. Cardinality({w \in taken : worker[w].mail = m}) = Cardinality(W) + Cardinality(B)
      BY <2>1, <2>5
  <2>9. whole'[m] + bare'[m] = (whole[m] + bare[m]) + (Cardinality(W) + Cardinality(B))
      BY <2>3, <2>6, <2>7
  <2> QED BY <2>8, <2>9 DEF Copies
<1> QED BY <1>2

\* No step takes a copy back.
LEMMA CopiesGrow ==
    ASSUME TypeOK, [Next]_vars, NEW m \in Mails
    PROVE  Copies(m)' >= Copies(m)
<1>1. Copies(m) \in Nat
    BY CopiesType
<1>2. CASE UNCHANGED <<whole, bare>>
    BY <1>1, <1>2 DEF Copies
<1>3. CASE \E w \in Workers : SmtpAccepts(w) \/ SmtpBreaks(w)
  <2>1. PICK w \in Workers : Take(w)
      BY <1>3 DEF SmtpAccepts, SmtpBreaks
  <2>2. Copies(m)' \in {Copies(m), Copies(m) + 1}
      BY <2>1, TakeCopies
  <2> QED BY <1>1, <2>2
<1>4. CASE Crash
  <2>1. PICK taken \in SUBSET {w \in Workers : worker[w].pc = "send"} :
          Copies(m)' = Copies(m) + Cardinality({w \in taken : worker[w].mail = m})
      BY <1>4, CrashCopies
  <2>2. {w \in taken : worker[w].mail = m} \in SUBSET Workers
      OBVIOUS
  <2> QED BY <1>1, <2>1, <2>2, WorkersCounted
<1> QED BY <1>2, <1>3, <1>4
        DEF Next, vars, mails, WorkerStep, RetryStep, TrySendEmail, Enqueue, Store, PutOnQueue,
            TakeFromQueue, SmtpRejects, StoreEvent, LoseEvent, StartRetry, RetryNext, RetryDone,
            Restart

-----------------------------------------------------------------------------
(* Successes.                                                              *)

LEMMA Successes ==
    ASSUME TypeOK, AcceptedInv, [Next]_vars
    PROVE  AcceptedInv'
<1>1. \A m \in Mails : Copies(m) > 0 => Copies(m)' > 0
  <2> SUFFICES ASSUME NEW m \in Mails, Copies(m) > 0 PROVE Copies(m)' > 0
      OBVIOUS
  <2>1. Copies(m)' >= Copies(m)
      BY CopiesGrow
  <2>2. Copies(m) \in Nat /\ Copies(m)' \in Nat
      BY CopiesType, CopiesTypeNext
  <2> QED BY <2>1, <2>2
<1>2. \A m \in Mails : event'[m] = "success" => Copies(m)' > 0
  <2> SUFFICES ASSUME NEW m \in Mails, event'[m] = "success", event[m] # "success"
               PROVE  Copies(m) > 0
      BY <1>1 DEF AcceptedInv
  <2>1. PICK w \in Workers : StoreEvent(w)
      BY DEF Next, vars, mails, WorkerStep, RetryStep, TrySendEmail, Enqueue, Store, PutOnQueue,
             TakeFromQueue, SmtpRejects, SmtpAccepts, SmtpBreaks, LoseEvent, StartRetry, RetryNext,
             RetryDone, Crash, Restart
  <2> QED BY <2>1 DEF StoreEvent, AcceptedInv, TypeOK
<1>3. ASSUME NEW w \in Workers, worker'[w].pc = "event", worker'[w].ok
      PROVE  (Copies(worker[w].mail) > 0)'
  <2>1. CASE worker'[w] = worker[w]
    <3>1. PICK m \in Mails : m = worker[w].mail
        BY DEF TypeOK
    <3>2. Copies(m) > 0
        BY <1>3, <2>1, <3>1 DEF AcceptedInv
    <3>3. worker'[w].mail = m
        BY <2>1, <3>1
    <3> QED BY <1>1, <3>2, <3>3
  <2>2. CASE worker'[w] # worker[w]
    <3>1. SmtpAccepts(w)
      <4>1. CASE \E v \in Workers : WorkerStep(v)
        <5>1. PICK v \in Workers : WorkerStep(v)
            BY <4>1
        <5>2. v = w
            BY <2>2, <5>1, AttemptSteps
        <5>3. ~StoreEvent(w) /\ ~LoseEvent(w)
            BY <1>3, IdleType DEF StoreEvent, LoseEvent, Proceed, Goto, TypeOK
        <5>4. ~SmtpRejects(w) /\ ~SmtpBreaks(w)
            BY <1>3, AnswerStep
        <5> QED BY <5>1, <5>2, <5>3, <5>4 DEF WorkerStep
      <4>2. CASE \E m \in Mails : TrySendEmail(m) \/ Enqueue(m) \/ PutOnQueue(m)
        <5>1. PICK m \in Mails : TrySendEmail(m) \/ Enqueue(m) \/ PutOnQueue(m)
            BY <4>2
        <5>2. worker'[m].pc # "event" /\ \A v \in Workers \ {m} : worker'[v] = worker[v]
          <6>1. m \in Workers /\ worker \in [Workers -> Worker]
              BY WorkersFacts DEF TypeOK, Worker
          <6>2. CASE TrySendEmail(m)
              BY <6>1, <6>2, IdleType DEF TrySendEmail, Store, Worker
          <6>3. CASE Enqueue(m)
              BY <6>1, <6>3, IdleType DEF Enqueue, Store, Worker
          <6>4. CASE PutOnQueue(m)
              BY <6>1, <6>4, IdleType DEF PutOnQueue
          <6> QED BY <5>1, <6>2, <6>3, <6>4
        <5> QED BY <1>3, <2>2, <5>2
      <4>3. CASE TakeFromQueue
        <5>1. worker'[Loop].pc # "event" /\ \A v \in Workers \ {Loop} : worker'[v] = worker[v]
            BY <4>3, IdleType, WorkersFacts DEF TakeFromQueue, TypeOK, Worker
        <5> QED BY <1>3, <2>2, <5>1
      <4>4. CASE \E r \in Runs : RetryStep(r)
        <5>1. PICK r \in Runs : RetryStep(r)
            BY <4>4
        <5>2. worker'[r].pc # "event" /\ \A v \in Workers \ {r} : worker'[v] = worker[v]
            BY <5>1, RetrySteps
        <5> QED BY <1>3, <2>2, <5>2
      <4>5. CASE Crash \/ Restart \/ UNCHANGED vars
          BY <1>3, <2>2, <4>5, IdleType DEF Crash, Restart, vars
      <4> QED BY <4>1, <4>2, <4>3, <4>4, <4>5 DEF Next
    <3>2. PICK m \in Mails : m = worker[w].mail
        BY DEF TypeOK
    <3>3. worker'[w].mail = m
        BY <3>1, <3>2, AnswerStep
    <3>4. Copies(m)' = Copies(m) + 1
        BY <3>1, <3>2, TakeCopies DEF SmtpAccepts
    <3>5. Copies(m)' > 0
        BY <3>4, CopiesType
    <3> QED BY <3>3, <3>5
  <2> QED BY <2>1, <2>2
<1> QED BY <1>2, <1>3 DEF AcceptedInv

-----------------------------------------------------------------------------
(* The first attempt, once more: what it does to a mail.                   *)

LEMMA StoreStep ==
    ASSUME TypeOK, NEW m \in Mails, TrySendEmail(m) \/ Enqueue(m)
    PROVE  /\ \A w \in Workers \ {m} : worker'[w] = worker[w]
           /\ worker'[m].pc \in {"put", "send"} /\ worker'[m].mail = m
           /\ m \notin stored /\ stored' = stored \cup {m}
           /\ UNCHANGED <<event, queue, whole, bare, unsure, overlapped>>
<1>1. m \in Workers /\ worker \in [Workers -> Worker]
    BY WorkersFacts DEF TypeOK, Worker
<1>2. CASE TrySendEmail(m)
    BY <1>1, <1>2, IdleType DEF TrySendEmail, Store, Worker
<1>3. CASE Enqueue(m)
    BY <1>1, <1>3, IdleType DEF Enqueue, Store, Worker
<1> QED BY <1>2, <1>3

LEMMA PutStep ==
    ASSUME TypeOK, NEW m \in Mails, PutOnQueue(m)
    PROVE  /\ \A w \in Workers \ {m} : worker'[w] = worker[w]
           /\ worker[m].pc = "put" /\ worker'[m].pc = "idle"
           /\ InQueue(m)'
           /\ \A n \in Mails \ {m} : InQueue(n)' <=> InQueue(n)
           /\ UNCHANGED <<stored, event, whole, bare, unsure, overlapped>>
<1>1. m \in Workers /\ worker \in [Workers -> Worker]
    BY WorkersFacts DEF TypeOK, Worker
<1>2. queue \in Seq(Mails) /\ Len(queue) \in Nat /\ Len(queue') = Len(queue) + 1
      /\ \A i \in 1..Len(queue') : queue'[i] = IF i = Len(queue) + 1 THEN m ELSE queue[i]
    BY DEF PutOnQueue, TypeOK
<1>3. InQueue(m)'
  <2>1. Len(queue) + 1 \in 1..Len(queue') /\ queue'[Len(queue) + 1] = m
      BY <1>2
  <2> QED BY <2>1 DEF InQueue
<1>4. \A n \in Mails \ {m} : InQueue(n)' <=> InQueue(n)
  <2> SUFFICES ASSUME NEW n \in Mails \ {m} PROVE InQueue(n)' <=> InQueue(n)
      OBVIOUS
  <2>1. \A i \in 1..Len(queue) : i \in 1..Len(queue') /\ queue'[i] = queue[i]
      BY <1>2
  <2>2. \A i \in 1..Len(queue') : queue'[i] = n => i \in 1..Len(queue)
      BY <1>2
  <2> QED BY <2>1, <2>2 DEF InQueue
<1> QED BY <1>1, <1>3, <1>4, IdleType DEF PutOnQueue

LEMMA TakeStep ==
    ASSUME TypeOK, OriginInv, TakeFromQueue
    PROVE  \E m \in Mails :
             /\ \A w \in Workers \ {Loop} : worker'[w] = worker[w]
             /\ worker[Loop].pc = "idle" /\ worker'[Loop].pc = "send" /\ worker'[Loop].mail = m
             /\ InQueue(m) /\ ~InQueue(m)'
             /\ \A n \in Mails \ {m} : InQueue(n)' <=> InQueue(n)
             /\ UNCHANGED <<stored, event, whole, bare, unsure, overlapped>>
<1>1. PICK m \in Mails : m = Head(queue)
    BY DEF TakeFromQueue, TypeOK
<1>2. /\ \A w \in Workers \ {Loop} : worker'[w] = worker[w]
      /\ worker[Loop].pc = "idle" /\ worker'[Loop].pc = "send" /\ worker'[Loop].mail = m
      /\ UNCHANGED <<stored, event, whole, bare, unsure, overlapped>> /\ queue' = Tail(queue)
    BY <1>1, IdleType, WorkersFacts DEF TakeFromQueue, TypeOK, Worker
<1>3. /\ Len(queue) \in Nat \ {0} /\ m = queue[1]
      /\ Len(queue') = Len(queue) - 1
      /\ \A i \in 1..Len(queue') : queue'[i] = queue[i + 1]
    BY <1>1 DEF TakeFromQueue, TypeOK
<1>4. InQueue(m)
    BY <1>3 DEF InQueue
<1>5. ~InQueue(m)'
  <2>1. \A i \in 1..Len(queue') : i + 1 \in 1..Len(queue) /\ i + 1 # 1 /\ 1 \in 1..Len(queue)
      BY <1>3
  <2>2. \A i, j \in 1..Len(queue) : queue[i] = queue[j] => i = j
      BY DEF OriginInv
  <2>3. ASSUME NEW i \in 1..Len(queue'), queue'[i] = m PROVE FALSE
    <3>1. queue[i + 1] = queue[1]
        BY <1>3, <2>3
    <3> QED BY <2>1, <2>2, <3>1
  <2> QED BY <2>3 DEF InQueue
<1>6. \A n \in Mails \ {m} : InQueue(n)' <=> InQueue(n)
  <2> SUFFICES ASSUME NEW n \in Mails \ {m} PROVE InQueue(n)' <=> InQueue(n)
      OBVIOUS
  <2>1. \A i \in 1..Len(queue') : i + 1 \in 1..Len(queue) /\ queue'[i] = queue[i + 1]
      BY <1>3
  <2>2. \A i \in 1..Len(queue) : queue[i] = n =>
            i - 1 \in 1..Len(queue') /\ queue'[i - 1] = queue[i]
      BY <1>3
  <2> QED BY <2>1, <2>2 DEF InQueue
<1> QED BY <1>2, <1>4, <1>5, <1>6

-----------------------------------------------------------------------------
(* What each step does to the account of a mail.                           *)

LEMMA Cards ==
    ASSUME NEW S \in SUBSET Workers, NEW w \in Workers
    PROVE  /\ Cardinality(S) \in Nat
           /\ w \in S => Cardinality(S) >= 1 /\ Cardinality(S \ {w}) = Cardinality(S) - 1
           /\ w \notin S => Cardinality(S \cup {w}) = Cardinality(S) + 1
<1>1. IsFiniteSet(S) /\ Cardinality(S) \in Nat
    BY WorkersCounted
<1>2. w \notin S => Cardinality(S \cup {w}) = Cardinality(S) + 1
    BY <1>1, FS_AddElement
<1>3. ASSUME w \in S
      PROVE  Cardinality(S) >= 1 /\ Cardinality(S \ {w}) = Cardinality(S) - 1
  <2>1. IsFiniteSet(S \ {w}) /\ Cardinality(S \ {w}) \in Nat
      BY WorkersCounted
  <2>2. (S \ {w}) \cup {w} = S /\ w \notin S \ {w}
      BY <1>3
  <2>3. Cardinality((S \ {w}) \cup {w}) = Cardinality(S \ {w}) + 1
      BY <2>1, <2>2, FS_AddElement
  <2>4. Cardinality(S) = Cardinality(S \ {w}) + 1
      BY <2>2, <2>3
  <2> QED BY <2>1, <2>4
<1> QED BY <1>1, <1>2, <1>3

LEMMA AccountType ==
    ASSUME TypeOK, NEW m \in Mails
    PROVE  /\ Attempts(m) \in SUBSET Workers /\ Cardinality(Attempts(m)) \in Nat
           /\ Copies(m) \in Nat /\ unsure[m] \in Nat /\ overlapped[m] \in Nat
<1>1. Attempts(m) \in SUBSET Workers
    BY WorkersFacts DEF Attempts
<1>2. Cardinality(Attempts(m)) \in Nat
    BY <1>1, WorkersCounted
<1> QED BY <1>1, <1>2, CopiesType DEF TypeOK

\* Whoever may make a copy of a mail holds it, or it is queued.
LEMMA PendingHolds ==
    ASSUME NEW m \in Mails
    PROVE  /\ Holders(m) = {w \in Workers : Holds(w, m)}
           /\ \A w \in Workers : Pending(w, m) => Holds(w, m)
           /\ \A w \in Attempts(m) : Holds(w, m) \/ (w = m /\ InQueue(m))
BY DEF Holders, Holds, Pending, Attempts

\* A worker that has nothing to do with a mail does not change its account.
LEMMA Elsewhere ==
    ASSUME NEW m \in Mails, NEW w \in Workers,
           \A v \in Workers \ {w} : worker'[v] = worker[v],
           ~Holds(w, m), ~Holds(w, m)', InQueue(m)' <=> InQueue(m)
    PROVE  Holders(m)' = Holders(m) /\ Attempts(m)' = Attempts(m)
<1>1. \A v \in Workers : /\ Holds(v, m)' <=> Holds(v, m)
                         /\ Pending(v, m)' <=> Pending(v, m)
    BY DEF Holds, Pending
<1>2. Holders(m)' = Holders(m)
    BY <1>1 DEF Holders, Holds
<1>3. Attempts(m)' = Attempts(m)
    BY <1>1 DEF Attempts
<1> QED BY <1>2, <1>3

LEMMA Unmoved ==
    ASSUME NEW m \in Mails, Kept(m), Accounted(m),
           Holders(m)' = Holders(m), Attempts(m)' = Attempts(m), InQueue(m)' <=> InQueue(m),
           Copies(m)' = Copies(m), unsure'[m] = unsure[m], overlapped'[m] = overlapped[m],
           event'[m] = event[m], m \in stored' <=> m \in stored
    PROVE  Kept(m)' /\ Accounted(m)'
BY DEF Kept, Accounted

LEMMA AccountsOfFirstAttempts ==
    ASSUME TypeOK, OriginInv, NEW n \in Mails, TrySendEmail(n) \/ Enqueue(n) \/ PutOnQueue(n),
           NEW m \in Mails, Kept(m), Accounted(m)
    PROVE  Kept(m)' /\ Accounted(m)'
<1>1. /\ \A w \in Workers \ {n} : worker'[w] = worker[w]
      /\ UNCHANGED <<event, whole, bare, unsure, overlapped>> /\ n \in Workers
    BY StoreStep, PutStep, WorkersFacts
<1>2. Copies(m)' = Copies(m)
    BY <1>1 DEF Copies
<1>3. CASE m # n
  <2>1. ~Holds(n, m) /\ ~Holds(n, m)'
    <3>1. ~Holds(n, m)
        BY <1>3 DEF OriginInv, Holds
    <3>2. worker'[n].pc = "idle" \/ worker'[n].mail = n
        BY StoreStep, PutStep
    <3> QED BY <1>3, <3>1, <3>2 DEF Holds
  <2>2. (InQueue(m)' <=> InQueue(m)) /\ (m \in stored' <=> m \in stored)
    <3>1. CASE PutOnQueue(n)
        BY <1>3, <3>1, PutStep
    <3>2. CASE TrySendEmail(n) \/ Enqueue(n)
        BY <1>3, <3>2, StoreStep DEF InQueue
    <3> QED BY <3>1, <3>2
  <2>3. Holders(m)' = Holders(m) /\ Attempts(m)' = Attempts(m)
      BY <1>1, <2>1, <2>2, Elsewhere
  <2> QED BY <1>1, <1>2, <2>2, <2>3, Unmoved
<1>4. CASE m = n /\ (TrySendEmail(n) \/ Enqueue(n))
  <2>1. /\ worker'[m].pc \in {"put", "send"} /\ worker'[m].mail = m
        /\ m \notin stored /\ queue' = queue
      BY <1>4, StoreStep
  <2>2. /\ event[m] = "none" /\ Copies(m) = 0 /\ ~InQueue(m)'
      BY <2>1 DEF OriginInv, Untried, Accounted, InQueue
  <2>3. \A w \in Workers \ {m} : ~Holds(w, m)
    <3>1. \A w \in Mails \ {m} : ~Holds(w, m)
        BY DEF OriginInv, Holds
    <3>2. ~Holds(Loop, m)
        BY <2>1 DEF OriginInv, Untried
    <3>3. \A w \in Runs : ~Holds(w, m)
        BY <2>2 DEF OriginInv
    <3> QED BY <3>1, <3>2, <3>3 DEF Workers
  <2>4. \A w \in Workers : Holds(w, m)' <=> w = m
      BY <1>1, <1>4, <2>1, <2>3 DEF Holds
  <2>5. \A w \in Workers : Pending(w, m)' <=> w = m
      BY <1>1, <1>4, <2>1, <2>3 DEF Holds, Pending
  <2>6. Attempts(m)' = {m}
      BY <1>1, <1>4, <2>2, <2>5 DEF Attempts
  <2>7. Cardinality(Attempts(m)') = 1
      BY <2>6, FS_Singleton
  <2>8. Holders(m)' # {}
      BY <1>1, <1>4, <2>4 DEF Holders, Holds
  <2>9. event'[m] = "none" /\ Copies(m)' = 0 /\ m \in stored'
      BY <1>1, <1>2, <1>4, <2>2, StoreStep
  <2>10. unsure'[m] \in Nat /\ overlapped'[m] \in Nat
      BY <1>1, AccountType
  <2>11. Accounted(m)'
      BY <2>7, <2>9, <2>10 DEF Accounted
  <2> QED BY <2>8, <2>11 DEF Kept
<1>5. CASE m = n /\ PutOnQueue(n)
  <2>1. worker[m].pc = "put" /\ worker'[m].pc = "idle" /\ InQueue(m)' /\ stored' = stored
      BY <1>5, PutStep
  <2>2. worker[m].mail = m /\ ~InQueue(m) /\ event[m] = "none" /\ m \in stored
      BY <2>1 DEF OriginInv, Untried
  <2>3. \A w \in Workers : Pending(w, m)' <=> Pending(w, m) /\ w # m
      BY <1>1, <1>5, <2>1 DEF Pending
  <2>4. Pending(m, m)
      BY <2>1, <2>2 DEF Pending
  <2>5. Attempts(m)' = Attempts(m)
      BY <1>1, <1>5, <2>1, <2>2, <2>3, <2>4 DEF Attempts
  <2> QED BY <1>1, <1>2, <2>1, <2>2, <2>5 DEF Kept, Accounted
<1> QED BY <1>3, <1>4, <1>5

LEMMA AccountsOfTakes ==
    ASSUME TypeOK, OriginInv, TakeFromQueue, NEW m \in Mails, Kept(m), Accounted(m)
    PROVE  Kept(m)' /\ Accounted(m)'
<1>1. PICK n \in Mails :
        /\ \A w \in Workers \ {Loop} : worker'[w] = worker[w]
        /\ worker[Loop].pc = "idle" /\ worker'[Loop].pc = "send" /\ worker'[Loop].mail = n
        /\ InQueue(n) /\ ~InQueue(n)'
        /\ \A k \in Mails \ {n} : InQueue(k)' <=> InQueue(k)
        /\ UNCHANGED <<stored, event, whole, bare, unsure, overlapped>>
    BY TakeStep
<1>2. Copies(m)' = Copies(m)
    BY <1>1 DEF Copies
<1>3. CASE m # n
  <2>1. ~Holds(Loop, m) /\ ~Holds(Loop, m)'
      BY <1>1, <1>3 DEF Holds
  <2>2. Holders(m)' = Holders(m) /\ Attempts(m)' = Attempts(m)
      BY <1>1, <1>3, <2>1, Elsewhere, WorkersFacts
  <2> QED BY <1>1, <1>2, <1>3, <2>2, Unmoved
<1>4. CASE m = n
  <2>1. worker[m].pc = "idle" /\ event[m] = "none" /\ m \in stored /\ m # Loop
        /\ m \in Workers /\ Loop \in Workers
      BY <1>1, <1>4, WorkersFacts DEF OriginInv, Untried
  <2>2. \A w \in Workers : Pending(w, m)' <=> Pending(w, m) \/ w = Loop
      BY <1>1, <1>4 DEF Pending
  <2>3. ~Pending(m, m) /\ ~Pending(Loop, m)
      BY <1>1, <2>1 DEF Pending
  <2>4. m \in Attempts(m) /\ Loop \notin Attempts(m)
      BY <1>1, <1>4, <2>1, <2>3 DEF Attempts
  <2>5. Attempts(m)' = (Attempts(m) \ {m}) \cup {Loop}
      BY <1>1, <1>4, <2>1, <2>2, <2>3 DEF Attempts
  <2>6. Attempts(m) \in SUBSET Workers /\ Attempts(m) \ {m} \in SUBSET Workers
        /\ Loop \notin Attempts(m) \ {m}
      BY <2>4, AccountType
  <2>7. Cardinality(Attempts(m) \ {m}) = Cardinality(Attempts(m)) - 1
      BY <2>1, <2>4, <2>6, Cards
  <2>8. Cardinality((Attempts(m) \ {m}) \cup {Loop}) = Cardinality(Attempts(m) \ {m}) + 1
      BY <2>1, <2>6, Cards
  <2>9. Cardinality(Attempts(m)') = Cardinality(Attempts(m))
      BY <2>5, <2>7, <2>8, AccountType
  <2>10. Holds(Loop, m)'
      BY <1>1, <1>4 DEF Holds
  <2>11. Holders(m)' # {}
      BY <2>1, <2>10 DEF Holders, Holds
  <2> QED BY <1>1, <1>2, <2>1, <2>9, <2>11 DEF Kept, Accounted
<1> QED BY <1>3, <1>4

\* The worker that is sending a mail, or has its answer: is it in the account?
LEMMA AccountOfOne ==
    ASSUME TypeOK, OriginInv, NEW w \in Workers, WorkerStep(w), NEW m \in Mails,
           m = worker[w].mail
    PROVE  /\ Holds(w, m) /\ (w \in Attempts(m) <=> Pending(w, m))
           /\ Pending(w, m)' => Attempts(m)' = Attempts(m) \cup {w}
           /\ ~Pending(w, m)' => Attempts(m)' = Attempts(m) \ {w}
           /\ (InQueue(m)' <=> InQueue(m)) /\ stored' = stored
           /\ UNCHANGED overlapped
<1>1. worker[w].pc \in {"send", "event"} /\ UNCHANGED <<stored, queue, overlapped>>
      /\ \A v \in Workers \ {w} : worker'[v] = worker[v]
    BY AttemptSteps
<1>2. ~(w = m /\ InQueue(m))
    BY <1>1 DEF OriginInv
<1>3. InQueue(m)' <=> InQueue(m)
    BY <1>1 DEF InQueue
<1>4. \A v \in Workers \ {w} : Pending(v, m)' <=> Pending(v, m)
    BY <1>1 DEF Pending
<1> QED BY <1>1, <1>2, <1>3, <1>4 DEF Holds, Attempts

LEMMA AccountsOfAnswers ==
    ASSUME TypeOK, OriginInv, NEW w \in Workers,
           SmtpAccepts(w) \/ SmtpRejects(w) \/ SmtpBreaks(w),
           NEW m \in Mails, m = worker[w].mail, Kept(m), Accounted(m)
    PROVE  Kept(m)' /\ Accounted(m)'
<1>1. /\ worker[w].pc = "send" /\ worker'[w].pc = "event" /\ worker'[w].mail = m
      /\ UNCHANGED <<stored, queue, overlapped, event>>
    BY AnswerStep
<1>2. Pending(w, m)
    BY <1>1 DEF Pending
<1>3. WorkerStep(w)
    BY DEF WorkerStep
<1>4. w \in Attempts(m) /\ m \in stored
  <2>1. w \in Attempts(m)
      BY <1>2, <1>3, AccountOfOne
  <2>2. m \in stored
    <3>1. CASE w \in Mails
        BY <1>1, <3>1 DEF OriginInv
    <3>2. CASE w = Loop
        BY <1>1, <3>2 DEF OriginInv, Untried, Holds
    <3>3. CASE w \in Runs
        BY <1>1, <3>3 DEF OriginInv, Untried, Holds
    <3> QED BY <3>1, <3>2, <3>3 DEF Workers
  <2> QED BY <2>1, <2>2
<1>5. Holders(m)' # {}
    BY <1>1 DEF Holders
<1>6. /\ Attempts(m) \in SUBSET Workers /\ Cardinality(Attempts(m)) \in Nat
      /\ Copies(m) \in Nat /\ unsure[m] \in Nat /\ overlapped[m] \in Nat
    BY AccountType
<1>7. CASE SmtpAccepts(w)
  <2>1. ~Pending(w, m)'
      BY <1>1, <1>7, AnswerStep DEF Pending
  <2>2. Attempts(m)' = Attempts(m) \ {w}
      BY <1>3, <2>1, AccountOfOne
  <2>3. Cardinality(Attempts(m)') = Cardinality(Attempts(m)) - 1
      BY <1>4, <1>6, <2>2, Cards
  <2>4. Copies(m)' = Copies(m) + 1
      BY <1>7, TakeCopies DEF SmtpAccepts
  <2>5. unsure' = unsure
      BY <1>7 DEF SmtpAccepts
  <2> QED BY <1>1, <1>4, <1>5, <1>6, <2>3, <2>4, <2>5 DEF Kept, Accounted
<1>8. CASE SmtpRejects(w) \/ SmtpBreaks(w)
  <2>1. Pending(w, m)'
      BY <1>1, <1>8, AnswerStep DEF Pending
  <2>2. Attempts(m)' = Attempts(m)
      BY <1>3, <1>4, <2>1, AccountOfOne
  <2>3. CASE SmtpRejects(w)
    <3>1. Copies(m)' = Copies(m) /\ unsure' = unsure
        BY <2>3 DEF SmtpRejects, mails, Copies
    <3> QED BY <1>1, <1>4, <1>5, <2>2, <3>1 DEF Kept, Accounted
  <2>4. CASE SmtpBreaks(w)
    <3>1. Copies(m)' = Copies(m) + 1
        BY <2>4, TakeCopies DEF SmtpBreaks
    <3>2. unsure'[m] = unsure[m] + 1
        BY <2>4 DEF SmtpBreaks, TypeOK
    <3> QED BY <1>1, <1>4, <1>5, <1>6, <2>2, <3>1, <3>2 DEF Kept, Accounted
  <2> QED BY <1>8, <2>3, <2>4
<1> QED BY <1>7, <1>8

LEMMA AccountsOfEvents ==
    ASSUME TypeOK, OriginInv, AcceptedInv, NEW w \in Workers, StoreEvent(w) \/ LoseEvent(w),
           NEW m \in Mails, m = worker[w].mail, Kept(m), Accounted(m)
    PROVE  Kept(m)' /\ Accounted(m)'
<1>1. /\ worker[w].pc = "event" /\ UNCHANGED <<stored, queue, overlapped, whole, bare>>
      /\ w \in Workers /\ worker \in [Workers -> Worker]
    BY DEF StoreEvent, LoseEvent, TypeOK, Worker
<1>2. ~Pending(w, m)'
    BY <1>1, IdleType DEF StoreEvent, LoseEvent, Proceed, Goto, Pending, Worker
<1>3. WorkerStep(w) /\ Copies(m)' = Copies(m)
    BY <1>1 DEF WorkerStep, Copies
<1>4. Attempts(m)' = Attempts(m) \ {w} /\ (w \in Attempts(m) <=> Pending(w, m))
    BY <1>2, <1>3, AccountOfOne
<1>5. /\ Attempts(m) \in SUBSET Workers /\ Cardinality(Attempts(m)) \in Nat
      /\ Copies(m) \in Nat /\ unsure[m] \in Nat /\ overlapped[m] \in Nat
    BY AccountType
<1>6. /\ w \in Attempts(m) => /\ Cardinality(Attempts(m)) >= 1
                              /\ Cardinality(Attempts(m)') = Cardinality(Attempts(m)) - 1
      /\ w \notin Attempts(m) => Cardinality(Attempts(m)') = Cardinality(Attempts(m))
  <2>1. w \notin Attempts(m) => Attempts(m)' = Attempts(m)
      BY <1>4
  <2> QED BY <1>4, <1>5, <2>1, Cards
<1>7. CASE StoreEvent(w) /\ worker[w].ok
  <2>1. event'[m] = "success" /\ unsure' = unsure
      BY <1>7 DEF StoreEvent, TypeOK
  <2>2. Copies(m) > 0
      BY <1>1, <1>7 DEF AcceptedInv
  <2> QED BY <1>1, <1>3, <1>5, <1>6, <2>1, <2>2 DEF Kept, Accounted
<1>8. CASE StoreEvent(w) /\ ~worker[w].ok
  <2>1. event'[m] = "failure" /\ unsure' = unsure
      BY <1>8 DEF StoreEvent, TypeOK
  <2>2. w \in Attempts(m)
      BY <1>1, <1>4, <1>8 DEF Pending
  <2> QED BY <1>1, <1>3, <1>5, <1>6, <2>1, <2>2 DEF Kept, Accounted
<1>9. CASE LoseEvent(w)
  <2>1. event' = event /\ unsure'[m] = unsure[m] + 1
      BY <1>9 DEF LoseEvent, TypeOK
  <2> QED BY <1>1, <1>3, <1>5, <1>6, <2>1 DEF Kept, Accounted
<1> QED BY <1>7, <1>8, <1>9

LEMMA AccountsOfAttempts ==
    ASSUME TypeOK, OriginInv, AcceptedInv, NEW w \in Workers, WorkerStep(w),
           NEW m \in Mails, Kept(m), Accounted(m)
    PROVE  Kept(m)' /\ Accounted(m)'
<1>1. CASE m = worker[w].mail
    BY <1>1, AccountsOfAnswers, AccountsOfEvents DEF WorkerStep
<1>2. CASE m # worker[w].mail
  <2>1. /\ \A v \in Workers \ {w} : worker'[v] = worker[v]
        /\ UNCHANGED <<stored, queue, overlapped>> /\ event'[m] = event[m]
      BY <1>2, AttemptSteps
  <2>2. ~Holds(w, m)
      BY <1>2 DEF Holds
  <2>3. ~Holds(w, m)'
      BY <1>2, AttemptSteps, IdleType DEF Holds
  <2>4. InQueue(m)' <=> InQueue(m)
      BY <2>1 DEF InQueue
  <2>5. Holders(m)' = Holders(m) /\ Attempts(m)' = Attempts(m)
      BY <2>1, <2>2, <2>3, <2>4, Elsewhere
  <2>6. Copies(m)' = Copies(m) /\ unsure'[m] = unsure[m]
    <3>1. CASE SmtpAccepts(w)
        BY <1>2, <3>1, TakeCopies DEF SmtpAccepts
    <3>2. CASE SmtpRejects(w)
        BY <3>2 DEF SmtpRejects, mails, Copies
    <3>3. CASE SmtpBreaks(w)
      <4>1. Copies(m)' = Copies(m)
          BY <1>2, <3>3, TakeCopies DEF SmtpBreaks
      <4> QED BY <1>2, <3>3, <4>1 DEF SmtpBreaks, TypeOK
    <3>4. CASE StoreEvent(w)
        BY <3>4 DEF StoreEvent, Copies
    <3>5. CASE LoseEvent(w)
        BY <1>2, <3>5 DEF LoseEvent, Copies, TypeOK
    <3> QED BY <3>1, <3>2, <3>3, <3>4, <3>5 DEF WorkerStep
  <2> QED BY <2>1, <2>4, <2>5, <2>6, Unmoved
<1> QED BY <1>1, <1>2

LEMMA RetryPlace ==
    ASSUME NEW r \in Runs, RetryStep(r)
    PROVE  worker[r].pc \in {"idle", "next"}
BY WorkersFacts DEF RetryStep, StartRetry, RetryNext, RetryDone

\* The mail that a run of the retry job takes next, and the one it leaves.
LEMMA RetryTakes ==
    ASSUME TypeOK, NEW r \in Runs, RetryNext(r)
    PROVE  \E n \in Mails :
             /\ n \in worker[r].list /\ worker'[r].mail = n /\ worker'[r].pc = "send"
             /\ \A k \in Mails \ {n} : overlapped'[k] = overlapped[k]
             /\ Overtaken(n) => overlapped'[n] = overlapped[n] + 1
             /\ ~Overtaken(n) => overlapped'[n] = overlapped[n]
<1>1. PICK m \in worker[r].list :
        /\ worker' = [worker EXCEPT ![r].pc = "send", ![r].mail = m, ![r].list = @ \ {m}]
        /\ overlapped' = [overlapped EXCEPT ![m] = IF Overtaken(m) THEN @ + 1 ELSE @]
    BY WorkersFacts DEF RetryNext
<1>2. m \in Mails /\ overlapped \in [Mails -> Nat]
    BY WorkersFacts DEF TypeOK
<1>3. worker'[r].mail = m /\ worker'[r].pc = "send"
    BY <1>1, <1>2, NextStep, WorkersFacts
<1>4. /\ \A k \in Mails \ {m} : overlapped'[k] = overlapped[k]
      /\ Overtaken(m) => overlapped'[m] = overlapped[m] + 1
      /\ ~Overtaken(m) => overlapped'[m] = overlapped[m]
    BY <1>1, <1>2
<1> QED BY <1>1, <1>2, <1>3, <1>4

LEMMA RetryEnds ==
    ASSUME TypeOK, NEW r \in Runs, StartRetry(r) \/ RetryDone(r)
    PROVE  worker[r].pc \in {"idle", "next"} /\ worker'[r].pc \in {"idle", "next"}
           /\ overlapped' = overlapped
<1>1. r \in Workers /\ worker \in [Workers -> Worker]
    BY WorkersFacts DEF TypeOK, Worker
<1>2. CASE StartRetry(r)
  <2>1. worker' = [worker EXCEPT ![r] = [Idle EXCEPT !.pc = "next", !.list = Failed]]
      BY <1>2 DEF StartRetry
  <2>2. worker'[r].pc = "next"
      BY <1>1, <2>1, IdleType DEF Worker
  <2> QED BY <1>2, <2>2 DEF StartRetry, mails
<1>3. CASE RetryDone(r)
    BY <1>1, <1>3, IdleType DEF RetryDone, mails
<1> QED BY <1>2, <1>3

LEMMA AccountsOfRetries ==
    ASSUME TypeOK, OriginInv, NEW r \in Runs, RetryStep(r), NEW m \in Mails, Kept(m), Accounted(m)
    PROVE  Kept(m)' /\ Accounted(m)'
<1>1. /\ \A w \in Workers \ {r} : worker'[w] = worker[w]
      /\ UNCHANGED <<event, stored, queue, whole, bare, unsure>> /\ r \in Workers
    BY RetrySteps, WorkersFacts
<1>2. Copies(m)' = Copies(m) /\ (InQueue(m)' <=> InQueue(m))
    BY <1>1 DEF Copies, InQueue
<1>3. ~Holds(r, m)
  <2>1. worker[r].pc \in {"idle", "next"}
      BY RetryPlace
  <2> QED BY <2>1 DEF Holds
<1>4. CASE StartRetry(r) \/ RetryDone(r)
  <2>1. ~Holds(r, m)'
    <3>1. worker'[r].pc \in {"idle", "next"}
        BY <1>4, RetryEnds
    <3> QED BY <3>1 DEF Holds
  <2>2. overlapped' = overlapped
      BY <1>4, RetryEnds
  <2>3. Holders(m)' = Holders(m) /\ Attempts(m)' = Attempts(m)
      BY <1>1, <1>2, <1>3, <2>1, Elsewhere
  <2> QED BY <1>1, <1>2, <2>2, <2>3, Unmoved
<1>5. CASE RetryNext(r)
  <2>1. PICK n \in Mails :
          /\ n \in worker[r].list /\ worker'[r].mail = n /\ worker'[r].pc = "send"
          /\ \A k \in Mails \ {n} : overlapped'[k] = overlapped[k]
          /\ Overtaken(n) => overlapped'[n] = overlapped[n] + 1
          /\ ~Overtaken(n) => overlapped'[n] = overlapped[n]
      BY <1>5, RetryTakes
  <2>2. CASE m # n
    <3>1. ~Holds(r, m)'
        BY <2>1, <2>2 DEF Holds
    <3>2. overlapped'[m] = overlapped[m]
        BY <2>1, <2>2
    <3>3. Holders(m)' = Holders(m) /\ Attempts(m)' = Attempts(m)
        BY <1>1, <1>2, <1>3, <3>1, Elsewhere
    <3> QED BY <1>1, <1>2, <3>2, <3>3, Unmoved
  <2>3. CASE m = n
    <3>1. event[m] # "none" /\ m \in stored
        BY <2>1, <2>3 DEF OriginInv, Untried
    <3>2. /\ Attempts(m) \in SUBSET Workers /\ Cardinality(Attempts(m)) \in Nat
          /\ Copies(m) \in Nat /\ unsure[m] \in Nat /\ overlapped[m] \in Nat
        BY AccountType
    <3>3. r \notin Attempts(m)
        BY <1>3, PendingHolds, WorkersFacts
    <3>4. Attempts(m)' = Attempts(m) \cup {r}
      <4>1. \A w \in Workers : Pending(w, m)' <=> Pending(w, m) \/ w = r
          BY <1>1, <2>1, <2>3 DEF Pending
      <4> QED BY <1>1, <1>2, <4>1 DEF Attempts
    <3>5. Cardinality(Attempts(m)') = Cardinality(Attempts(m)) + 1
        BY <1>1, <3>2, <3>3, <3>4, Cards
    <3>6. Holders(m)' # {}
        BY <1>1, <2>1, <2>3 DEF Holders
    <3>7. CASE Overtaken(m)
      <4>1. overlapped'[m] = overlapped[m] + 1
          BY <2>1, <2>3, <3>7
      <4> QED BY <1>1, <1>2, <3>1, <3>2, <3>5, <3>6, <4>1 DEF Kept, Accounted
    <3>8. CASE ~Overtaken(m)
      <4>1. overlapped'[m] = overlapped[m]
          BY <2>1, <2>3, <3>8
      <4>2. event[m] = "failure" /\ Holders(m) = {}
          BY <3>8 DEF Overtaken
      <4>3. ~InQueue(m)
          BY <3>1 DEF OriginInv, Untried
      <4>4. Attempts(m) = {}
          BY <4>2, <4>3, PendingHolds, <3>2
      <4>5. Cardinality(Attempts(m)) = 0
          BY <4>4, FS_EmptySet
      <4>6. Copies(m) <= unsure[m] + overlapped[m]
          BY <4>2 DEF Accounted
      <4> QED BY <1>1, <1>2, <3>1, <3>2, <3>5, <3>6, <4>1, <4>5, <4>6 DEF Kept, Accounted
    <3> QED BY <3>7, <3>8
  <2> QED BY <2>2, <2>3
<1> QED BY <1>4, <1>5 DEF RetryStep

LEMMA AccountsOfCrashes ==
    ASSUME TypeOK, OriginInv, Crash, NEW m \in Mails, Kept(m), Accounted(m)
    PROVE  Kept(m)' /\ Accounted(m)'
<1>1. /\ \A w \in Workers : worker'[w].pc = "idle"
      /\ queue' = <<>> /\ UNCHANGED <<stored, event, overlapped>>
      /\ unsure'[m] = unsure[m] + Cardinality(Holders(m)) + Cardinality(Queued(m))
    BY IdleType DEF Crash
<1>2. PICK taken \in SUBSET {w \in Workers : worker[w].pc = "send"} :
        Copies(m)' = Copies(m) + Cardinality({w \in taken : worker[w].mail = m})
    BY CrashCopies
<1> DEFINE T == {w \in taken : worker[w].mail = m}
<1>3. T \subseteq Holders(m) /\ T \subseteq Attempts(m)
    BY DEF Holders, Attempts, Pending
<1>4. Copies(m)' = Copies(m) + Cardinality(T) /\ T \in SUBSET Workers
    BY <1>2
<1> HIDE DEF T
<1>5. /\ Attempts(m) \in SUBSET Workers /\ Cardinality(Attempts(m)) \in Nat
      /\ Copies(m) \in Nat /\ unsure[m] \in Nat /\ overlapped[m] \in Nat
    BY AccountType
<1>6. /\ IsFiniteSet(Holders(m)) /\ Cardinality(Holders(m)) \in Nat
      /\ IsFiniteSet(Queued(m)) /\ Cardinality(Queued(m)) \in Nat
    BY Counted
<1>7. Cardinality(T) \in Nat
    BY <1>4, WorkersCounted
<1>8. Cardinality(T) <= Cardinality(Attempts(m))
  <2>1. IsFiniteSet(Attempts(m))
      BY <1>5, WorkersCounted
  <2> QED BY <1>3, <2>1, FS_Subset
<1>9. Holders(m) # {} => Cardinality(Holders(m)) > 0
    BY <1>6, FS_EmptySet
<1>10. Holders(m) = {} => Cardinality(T) = 0
  <2>1. Holders(m) = {} => T = {}
      BY <1>3
  <2> QED BY <2>1, FS_EmptySet
<1>11. InQueue(m) => Cardinality(Queued(m)) > 0
  <2>1. InQueue(m) => Queued(m) # {}
      BY DEF InQueue, Queued
  <2> QED BY <1>6, <2>1, FS_EmptySet
<1>12. /\ Holders(m)' = {} /\ Attempts(m)' = {} /\ ~InQueue(m)'
    BY <1>1 DEF Holders, Attempts, Pending, InQueue
<1>13. Cardinality(Attempts(m)') = 0
    BY <1>12, FS_EmptySet
<1>14. Copies(m)' \in Nat /\ unsure'[m] \in Nat
    BY <1>1, <1>4, <1>5, <1>6, <1>7
<1>15. Kept(m)'
  <2>1. SUFFICES ASSUME m \in stored PROVE Kept(m)'
      BY <1>1 DEF Kept
  <2>2. CASE Copies(m) > 0
    <3>1. Copies(m)' > 0
        BY <1>4, <1>5, <1>7, <2>2
    <3> QED BY <3>1 DEF Kept
  <2>3. CASE Holders(m) # {} \/ InQueue(m) \/ unsure[m] > 0
    <3>1. unsure'[m] > 0
        BY <1>1, <1>5, <1>6, <1>9, <1>11, <2>3
    <3> QED BY <3>1 DEF Kept
  <2>4. CASE event[m] = "failure"
      BY <1>1, <2>4 DEF Kept
  <2> QED BY <2>1, <2>2, <2>3, <2>4 DEF Kept
<1>16. Copies(m)' <= 1 + unsure'[m] + overlapped[m]
  <2>1. Copies(m) + Cardinality(Attempts(m)) <= 1 + unsure[m] + overlapped[m]
      BY DEF Accounted
  <2>2. Copies(m) + Cardinality(T) <= 1 + unsure[m] + overlapped[m]
      BY <1>5, <1>7, <1>8, <2>1
  <2> QED BY <1>1, <1>4, <1>5, <1>6, <1>7, <2>2
<1>17. event[m] = "failure" => Copies(m)' <= unsure'[m] + overlapped[m]
  <2>1. Copies(m) + Cardinality(Attempts(m)) <= 1 + unsure[m] + overlapped[m]
      BY DEF Accounted
  <2>2. Copies(m) + Cardinality(T) <= 1 + unsure[m] + overlapped[m]
      BY <1>5, <1>7, <1>8, <2>1
  <2>3. CASE Holders(m) # {}
      BY <1>1, <1>4, <1>5, <1>6, <1>7, <1>9, <2>2, <2>3
  <2>4. CASE Holders(m) = {}
    <3>1. event[m] = "failure" => Copies(m) <= unsure[m] + overlapped[m]
        BY <2>4 DEF Accounted
    <3> QED BY <1>1, <1>4, <1>5, <1>6, <1>7, <1>10, <2>4, <3>1
  <2> QED BY <2>3, <2>4
<1>18. m \notin stored => Copies(m)' = 0
  <2>1. m \notin stored => \A w \in Workers : ~Holds(w, m)
    <3>1. m \notin stored => \A w \in Mails : ~Holds(w, m)
        BY DEF OriginInv, Holds
    <3>2. m \notin stored => ~Holds(Loop, m) /\ event[m] = "none"
        BY DEF OriginInv, Untried
    <3>3. m \notin stored => \A w \in Runs : ~Holds(w, m)
        BY <3>2 DEF OriginInv
    <3> QED BY <3>1, <3>2, <3>3 DEF Workers
  <2>2. m \notin stored => Holders(m) = {}
      BY <2>1, PendingHolds
  <2> QED BY <1>4, <1>5, <1>7, <1>10, <2>2 DEF Accounted
<1>19. Accounted(m)'
    BY <1>1, <1>5, <1>13, <1>14, <1>16, <1>17, <1>18 DEF Accounted
<1> QED BY <1>15, <1>19

LEMMA AccountsOfRest ==
    ASSUME Restart \/ UNCHANGED vars, NEW m \in Mails, Kept(m), Accounted(m)
    PROVE  Kept(m)' /\ Accounted(m)'
<1>1. UNCHANGED <<mails, worker>>
    BY DEF Restart, vars, mails
<1>2. /\ Holders(m)' = Holders(m) /\ Attempts(m)' = Attempts(m) /\ (InQueue(m)' <=> InQueue(m))
      /\ Copies(m)' = Copies(m) /\ UNCHANGED <<stored, event, unsure, overlapped>>
    BY <1>1 DEF mails, Holders, Attempts, Pending, InQueue, Copies
<1> QED BY <1>2, Unmoved

LEMMA Accounts == Inv /\ [Next]_vars => StoredInv' /\ CountInv'
<1> SUFFICES ASSUME Inv, [Next]_vars, NEW m \in Mails PROVE Kept(m)' /\ Accounted(m)'
    BY DEF StoredInv, CountInv
<1>1. TypeOK /\ OriginInv /\ AcceptedInv /\ Kept(m) /\ Accounted(m)
    BY DEF Inv, StoredInv, CountInv
<1>2. CASE \E n \in Mails : TrySendEmail(n) \/ Enqueue(n) \/ PutOnQueue(n)
    BY <1>1, <1>2, AccountsOfFirstAttempts
<1>3. CASE TakeFromQueue
    BY <1>1, <1>3, AccountsOfTakes
<1>4. CASE \E w \in Workers : WorkerStep(w)
    BY <1>1, <1>4, AccountsOfAttempts
<1>5. CASE \E r \in Runs : RetryStep(r)
    BY <1>1, <1>5, AccountsOfRetries
<1>6. CASE Crash
    BY <1>1, <1>6, AccountsOfCrashes
<1>7. CASE Restart \/ UNCHANGED vars
    BY <1>1, <1>7, AccountsOfRest
<1> QED BY <1>2, <1>3, <1>4, <1>5, <1>6, <1>7 DEF Next

-----------------------------------------------------------------------------
(* Theorems.                                                               *)

\* Inv holds of every reachable state.
THEOREM Invariant == Spec => []Inv
<1>1. Inv /\ [Next]_vars => Inv'
    BY Types, Origins, Successes, Accounts DEF Inv
<1> QED BY Initially, <1>1, PTL DEF Spec

\* Every variable keeps its type, whatever the mails, the runs and the capacity
\* of the queue (mail-chan).
THEOREM TypesHold == Spec => []TypeOK
<1>1. Inv => TypeOK
    BY DEF Inv
<1> QED BY <1>1, Invariant, PTL

\* An event says success only of a mail the relay has (try-send-msg).
THEOREM NoFalseSuccess == Spec => []SuccessWasAccepted
<1>1. Inv => SuccessWasAccepted
    BY DEF Inv, AcceptedInv, SuccessWasAccepted
<1> QED BY <1>1, Invariant, PTL

\* A stored mail was sent, is being sent, or has a failure that the retry job
\* finds, unless a loss was counted (create-email-event,
\* get-messages-that-failed-to-send).
THEOREM NothingForgotten == Spec => []ForgottenOnlyAfterLoss
<1>1. ASSUME Inv PROVE ForgottenOnlyAfterLoss
  <2> SUFFICES ASSUME NEW m \in Mails, Forgotten(m) PROVE unsure[m] > 0
      BY DEF ForgottenOnlyAfterLoss
  <2>1. /\ m \in stored /\ Copies(m) = 0 /\ Holders(m) = {} /\ Queued(m) = {}
        /\ event[m] # "failure"
      BY DEF Forgotten, InHand
  <2>2. ~InQueue(m)
      BY <2>1 DEF InQueue, Queued
  <2>3. ~(Copies(m) > 0)
      BY <2>1
  <2>4. Kept(m)
      BY <1>1 DEF Inv, StoredInv
  <2> QED BY <2>1, <2>2, <2>3, <2>4 DEF Kept
<1>2. Inv => ForgottenOnlyAfterLoss
    BY <1>1
<1> QED BY <1>2, Invariant, PTL

\* A further copy of a mail has an attempt whose outcome no event tells, or an
\* overtaken run of the retry job, to account for it (try-send-msg).
THEOREM CopiesAccountedFor == Spec => []CopiesOnlyWhenUnsure
<1>1. ASSUME Inv PROVE CopiesOnlyWhenUnsure
  <2> SUFFICES ASSUME NEW m \in Mails PROVE Copies(m) <= 1 + unsure[m] + overlapped[m]
      BY DEF CopiesOnlyWhenUnsure
  <2>1. Copies(m) + Cardinality(Attempts(m)) <= 1 + unsure[m] + overlapped[m]
      BY <1>1 DEF Inv, CountInv, Accounted
  <2>2. /\ Cardinality(Attempts(m)) \in Nat /\ Copies(m) \in Nat
        /\ unsure[m] \in Nat /\ overlapped[m] \in Nat
      BY <1>1, AccountType DEF Inv
  <2> QED BY <2>1, <2>2
<1>2. Inv => CopiesOnlyWhenUnsure
    BY <1>1
<1> QED BY <1>2, Invariant, PTL
=============================================================================
