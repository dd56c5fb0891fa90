------------------------ MODULE ApplicantFormProofs ------------------------
(***************************************************************************)
(* Proofs about the applicant's form: what is typed is kept or the page    *)
(* shows an error, and a page at rest knows the open version.              *)
(*                                                                         *)
(* The argument.  The server's version only grows, so an answer that tells *)
(* the open version tells the open content too (AnswersInv).  Unless       *)
(* somebody else wrote, an answer was lost or an old one overtook a new    *)
(* one, the page knows the open version or the answer that tells it is     *)
(* still to come (KnowsInv).  The last answer to arrive is therefore that  *)
(* of the open version, and the comparison it starts is with what the      *)
(* server has (KeptInv).  A page that leaves has at most one post on its   *)
(* way, and the server takes it (LeftInv).  That nobody names a version    *)
(* ahead of the server's (NamedInv) and that the histories keep their      *)
(* types (BoundsInv) are shown beside that, from it.                       *)
(***************************************************************************)
EXTENDS ApplicantForm, FiniteSetTheorems, TLAPS

Kinds == {"autoSave", "submit", "attachment", "refresh"}

TypeInv ==
    /\ values \in Values /\ typed \in Values
    /\ savedObject \in Hakemus /\ server \in State
    /\ changes \in BOOLEAN /\ saveInProgress \in BOOLEAN
    /\ stored \in BOOLEAN /\ closed \in BOOLEAN
    /\ serverError \in Errors \cup {""} /\ timers \subseteq Debounced
    /\ page \in {"edit", "left", "preview"}
    /\ requests \subseteq RequestType /\ IsFiniteSet(requests)

NumberedInv == \A q, p \in requests : q.id = p.id => q = p

\* An answer tells what the server had; with the open version, what it has.
Tells(q) ==
    /\ q.reply.hakemus.version <= server.version
    /\ q.reply.hakemus.version = server.version => q.reply.hakemus.values = server.values

AnswersInv ==
    /\ \A q \in requests : q.reply # <<>> => Tells(q)
    /\ \A q \in requests : q.reply # <<>> /\ q.reply.status = 405 => gaps # {}
    /\ closed => gaps # {}

\* The page shows what was typed.
TypedInv == typed = values \/ gaps # {}

Misled == {"others", "answer-lost", "overtaken"}

\* The answer that brings the open version is still to come.
Brings(q) ==
    /\ q \in Posts /\ q.reply # <<>> /\ q.reply.status = 200
    /\ q.reply.hakemus.version = server.version

KnowsInv ==
    page = "edit" /\ gaps \cap Misled = {} =>
        savedObject.version = server.version \/ \E q \in requests : Brings(q)

\* An attachment does not count: its answer is not compared with the page.
Compared == {q \in requests : q.kind # "attachment"}

KeptInv ==
    page = "edit" =>
        \/ typed = server.values \/ (changes /\ timers # {}) \/ Compared # {}
        \/ serverError # "" \/ gaps # {}

LastPost(q) == q.kind = "autoSave" /\ q.base = server.version /\ q.content = typed

LeftInv ==
    page # "edit" /\ gaps = {} =>
        /\ \A q, p \in requests : q = p
        /\ \A q \in requests : q.reply = <<>> => LastPost(q)
        /\ \/ typed = server.values \/ serverError # ""
           \/ \E q \in requests : q.reply = <<>>

Inv ==
    /\ TypeInv /\ NumberedInv /\ AnswersInv /\ TypedInv /\ KnowsInv /\ KeptInv /\ LeftInv

-----------------------------------------------------------------------------
(* Requests.                                                               *)

\* There is a number that no request in flight has (Request).
LEMMA FreshNumber ==
    ASSUME TypeInv
    PROVE  \E i \in 1..Cardinality(requests) + 1 : \A q \in requests : q.id # i
<1> DEFINE n == Cardinality(requests)
<1> DEFINE ids == {q.id : q \in requests}
<1>1. IsFiniteSet(requests) BY DEF TypeInv
<1>2. n \in Nat BY <1>1, FS_CardinalityType
<1>3. IsFiniteSet(ids) /\ Cardinality(ids) <= n
  <2>1. IsFiniteSet({q.id : q \in requests}) /\ Cardinality({q.id : q \in requests}) <= Cardinality(requests)
    <3> DEFINE num == [q \in requests |-> q.id]
    <3>1. num \in Surjection(requests, ids) BY DEF Surjection
    <3> QED BY <3>1, <1>1, FS_Surjection
  <2> QED BY <2>1
<1>4. IsFiniteSet(1..n + 1) /\ Cardinality(1..n + 1) = n + 1
  <2> HIDE DEF n
  <2>1. 1 \in Int /\ n + 1 \in Int /\ 1 <= n + 1 BY <1>2
  <2> DEFINE m == n + 1
  <2> HIDE DEF m
  <2>2. m \in Int /\ 1 <= m BY <2>1 DEF m
  <2>3. IsFiniteSet(1..m) BY <2>2, FS_Interval
  <2>4. Cardinality(1..m) = IF 1 > m THEN 0 ELSE m - 1 + 1 BY <2>2, FS_Interval
  <2>5. Cardinality(1..m) = m BY <2>2, <2>4
  <2> QED BY <2>3, <2>5 DEF m
<1>5. ~ (1..n + 1 \subseteq ids)
  <2>1. SUFFICES ASSUME 1..n + 1 \subseteq ids PROVE FALSE OBVIOUS
  <2>2. Cardinality(1..n + 1) <= Cardinality(ids) BY <2>1, <1>3, FS_Subset
  <2>3. Cardinality(ids) \in Nat BY <1>3, FS_CardinalityType
  <2> HIDE DEF n, ids
  <2> QED BY <2>2, <2>3, <1>2, <1>3, <1>4
<1>6. PICK i \in 1..n + 1 : i \notin ids BY <1>5
<1>7. \A q \in requests : q.id # i BY <1>6
<1> QED BY <1>7

\* A new request is of its type, has no answer, and is told from the others.
NewOne(r, kind, version, content) ==
    /\ r \in RequestType /\ \A q \in requests : q.id # r.id
    /\ r.kind = kind /\ r.base = version /\ r.content = content /\ r.reply = <<>>

LEMMA NewRequest ==
    ASSUME TypeInv, NEW kind \in Kinds, NEW version \in Nat, NEW content \in Values
    PROVE  NewOne(Request(kind, version, content), kind, version, content)
<1> DEFINE i == CHOOSE j \in 1..Cardinality(requests) + 1 : \A q \in requests : q.id # j
<1>1. i \in 1..Cardinality(requests) + 1 /\ \A q \in requests : q.id # i
  BY FreshNumber
<1>2. Cardinality(requests) \in Nat BY FS_CardinalityType DEF TypeInv
<1>3. i \in Nat BY <1>1, <1>2
<1>4. Request(kind, version, content) =
        [kind |-> kind, base |-> version, content |-> content, reply |-> <<>>, id |-> i]
  BY DEF Request
<1> HIDE DEF i
<1> QED BY <1>1, <1>3, <1>4 DEF RequestType, Kinds, NewOne

\* The requests keep their type and their numbers when one more is made, when one
\* is gone, and when one is answered.
LEMMA RequestAdded ==
    ASSUME TypeInv, NumberedInv, NEW kind \in Kinds, NEW version \in Nat,
           NEW content \in Values, NEW set \in SUBSET requests,
           requests' = set \cup {Request(kind, version, content)}
    PROVE  requests' \subseteq RequestType /\ IsFiniteSet(requests') /\ NumberedInv'
<1> DEFINE r == Request(kind, version, content)
<1>1. r \in RequestType /\ \A q \in requests : q.id # r.id
  <2>1. NewOne(Request(kind, version, content), kind, version, content) BY NewRequest
  <2> QED BY <2>1 DEF NewOne
<1>2. IsFiniteSet(set) BY FS_Subset DEF TypeInv
<1>3. IsFiniteSet(requests') BY <1>2, FS_AddElement
<1> HIDE DEF r
<1>4. requests' = set \cup {r} BY DEF r
<1> QED BY <1>1, <1>3, <1>4 DEF TypeInv, NumberedInv

LEMMA RequestGone ==
    ASSUME TypeInv, NumberedInv, requests' \subseteq requests
    PROVE  requests' \subseteq RequestType /\ IsFiniteSet(requests') /\ NumberedInv'
<1>1. IsFiniteSet(requests') BY FS_Subset DEF TypeInv
<1> QED BY <1>1 DEF TypeInv, NumberedInv

LEMMA RequestAnswered ==
    ASSUME TypeInv, NumberedInv, NEW q \in requests, NEW reply \in Reply,
           requests' = (requests \ {q}) \cup {[q EXCEPT !.reply = reply]}
    PROVE  requests' \subseteq RequestType /\ IsFiniteSet(requests') /\ NumberedInv'
<1> DEFINE r == [q EXCEPT !.reply = reply]
<1>1. q \in RequestType BY DEF TypeInv
<1>2. r \in RequestType /\ r.id = q.id BY <1>1 DEF RequestType
<1>3. IsFiniteSet(requests \ {q}) BY FS_Subset DEF TypeInv
<1>4. IsFiniteSet(requests') BY <1>3, FS_AddElement
<1> HIDE DEF r
<1>5. requests' = (requests \ {q}) \cup {r} BY DEF r
<1> QED BY <1>2, <1>4, <1>5 DEF TypeInv, NumberedInv

\* An answer is not <<>>, which stands for none.
LEMMA AnswerIsSome == \A reply \in Reply : reply # <<>>
<1>1. ASSUME NEW reply \in Reply PROVE reply # <<>>
  <2>1. "status" \in DOMAIN reply BY DEF Reply
  <2>2. DOMAIN <<>> = {} OBVIOUS
  <2> QED BY <2>1, <2>2
<1> QED BY <1>1

LEMMA AnswerType ==
    ASSUME TypeInv, NEW q \in requests, q.reply # <<>>
    PROVE  /\ q.reply \in Reply
           /\ q.reply.status \in {200, 405, 409}
           /\ q.reply.hakemus \in State
           /\ q.reply.hakemus.version \in Nat /\ q.reply.hakemus.values \in Values
<1>1. q \in RequestType BY DEF TypeInv
<1>2. q.reply \in Reply BY <1>1 DEF RequestType
<1> QED BY <1>2 DEF Reply, State

-----------------------------------------------------------------------------
(* The initial states.                                                     *)

LEMMA InitInv == Init => Inv
<1> SUFFICES ASSUME Init PROVE Inv OBVIOUS
<1>1. requests = {} /\ IsFiniteSet({}) BY FS_EmptySet DEF Init
<1>2. TypeInv
  BY <1>1, FormAssumption DEF Init, TypeInv, Hakemus, State, Statuses
<1>3. NumberedInv /\ AnswersInv BY <1>1 DEF Init, NumberedInv, AnswersInv
<1>4. TypedInv /\ KnowsInv /\ KeptInv /\ LeftInv
  BY DEF Init, TypedInv, KnowsInv, KeptInv, LeftInv
<1> QED BY <1>2, <1>3, <1>4 DEF Inv

-----------------------------------------------------------------------------
(* What the applicant does.                                                *)

LEMMA EditKeepsInv ==
    ASSUME Inv, NEW v \in Values, onUpdateField(v) \/ onRemoveField(v)
    PROVE  Inv'
<1> USE DEF Inv, onUpdateField, onRemoveField, Edit
<1>1. /\ timers' \subseteq Debounced /\ timers' # {}
      /\ saveInProgress' \in BOOLEAN /\ stored' \in BOOLEAN
  BY DEF startAutoSave, saveImmediately, Debounced, TypeInv
<1>2. TypeInv' BY <1>1 DEF TypeInv, remote
<1>3. NumberedInv' /\ AnswersInv' /\ TypedInv'
  BY DEF NumberedInv, AnswersInv, TypedInv, Tells, remote
<1>4. KnowsInv' BY DEF KnowsInv, Brings, Posts, remote
<1>5. KeptInv' /\ LeftInv' BY <1>1 DEF KeptInv, LeftInv
<1> QED BY <1>2, <1>3, <1>4, <1>5

\* A post is a request with the answers of the page and the version it knows.
LEMMA PostIs ==
    ASSUME Inv, NEW kind \in {"autoSave", "submit"}, Post(kind)
    PROVE  /\ requests' \subseteq RequestType /\ IsFiniteSet(requests') /\ NumberedInv'
           /\ saveInProgress' = TRUE
           /\ \E r \in RequestType :
                /\ requests' = requests \cup {r}
                /\ r.kind = kind /\ r.base = savedObject.version
                /\ r.content = values /\ r.reply = <<>>
<1>1. savedObject.version \in Nat /\ values \in Values BY DEF Inv, TypeInv, Hakemus
<1>2. kind \in Kinds BY DEF Kinds
<1>3. requests' = requests \cup {Request(kind, savedObject.version, values)} BY DEF Post
<1>4. requests' \subseteq RequestType /\ IsFiniteSet(requests') /\ NumberedInv'
  BY <1>1, <1>2, <1>3, RequestAdded DEF Inv
<1>5. NewOne(Request(kind, savedObject.version, values), kind, savedObject.version, values)
  BY <1>1, <1>2, NewRequest DEF Inv
<1> QED BY <1>3, <1>4, <1>5 DEF Post, NewOne

\* A request that is not answered yet changes nothing of what the answers tell.
LEMMA UnansweredKeeps ==
    ASSUME Inv, NEW r, r.reply = <<>>, requests' = requests \cup {r},
           UNCHANGED <<savedObject, remote, gaps>>, page' = "edit", page = "edit"
    PROVE  AnswersInv' /\ KnowsInv'
<1>1. AnswersInv' BY DEF Inv, AnswersInv, Tells, remote
<1>2. KnowsInv' BY DEF Inv, KnowsInv, Brings, Posts, remote
<1> QED BY <1>1, <1>2

LEMMA SaveKeepsInv ==
    ASSUME Inv, NEW timer \in Debounced, onSave(timer)
    PROVE  Inv'
<1>1. CASE changes
  <2>1. Post("autoSave") BY <1>1 DEF onSave
  <2>2. requests' \subseteq RequestType /\ IsFiniteSet(requests') /\ NumberedInv'
        /\ saveInProgress' = TRUE
    BY <2>1, PostIs
  <2>3. PICK r \in RequestType :
             requests' = requests \cup {r} /\ r.kind = "autoSave" /\ r.reply = <<>>
    BY <2>1, PostIs
  <2>4. TypeInv' BY <2>2 DEF onSave, Inv, TypeInv, remote
  <2>5. AnswersInv' /\ KnowsInv' BY <2>3, UnansweredKeeps DEF onSave
  <2>6. TypedInv' /\ KeptInv' /\ LeftInv'
    BY <2>3 DEF onSave, Inv, TypedInv, KeptInv, LeftInv, Compared
  <2> QED BY <2>2, <2>4, <2>5, <2>6 DEF Inv
<1>2. CASE ~changes
  <2>1. UNCHANGED <<requests, saveInProgress>> BY <1>2 DEF onSave
  <2>2. TypeInv' BY <2>1 DEF onSave, Inv, TypeInv, remote
  <2>3. NumberedInv' /\ AnswersInv' /\ TypedInv'
    BY <2>1 DEF onSave, Inv, NumberedInv, AnswersInv, TypedInv, Tells, remote
  <2>4. KnowsInv' BY <2>1 DEF onSave, Inv, KnowsInv, Brings, Posts, remote
  <2>5. KeptInv' BY <2>1, <1>2 DEF onSave, Inv, KeptInv, Compared, remote
  <2>6. LeftInv' BY DEF onSave, LeftInv
  <2> QED BY <2>2, <2>3, <2>4, <2>5, <2>6 DEF Inv
<1> QED BY <1>1, <1>2

LEMMA SubmitKeepsInv ==
    ASSUME Inv, onSubmit
    PROVE  Inv'
<1>1. Post("submit") BY DEF onSubmit
<1>2. requests' \subseteq RequestType /\ IsFiniteSet(requests') /\ NumberedInv'
      /\ saveInProgress' = TRUE
  BY <1>1, PostIs
<1>3. PICK r \in RequestType :
           requests' = requests \cup {r} /\ r.kind = "submit" /\ r.reply = <<>>
  BY <1>1, PostIs
<1>4. TypeInv' BY <1>2 DEF onSubmit, Inv, TypeInv, remote
<1>5. AnswersInv' /\ KnowsInv' BY <1>3, UnansweredKeeps DEF onSubmit
<1>6. TypedInv' /\ KeptInv' /\ LeftInv'
  BY <1>3 DEF onSubmit, Inv, TypedInv, KeptInv, LeftInv, Compared
<1> QED BY <1>2, <1>4, <1>5, <1>6 DEF Inv

LEMMA StayingKeepsInv ==
    ASSUME Inv, UnloadCancelled
    PROVE  Inv'
<1>1. Post("autoSave") BY DEF UnloadCancelled
<1>2. requests' \subseteq RequestType /\ IsFiniteSet(requests') /\ NumberedInv'
      /\ saveInProgress' = TRUE
  BY <1>1, PostIs
<1>3. PICK r \in RequestType :
           requests' = requests \cup {r} /\ r.kind = "autoSave" /\ r.reply = <<>>
  BY <1>1, PostIs
<1>4. TypeInv' BY <1>2 DEF UnloadCancelled, Inv, TypeInv, remote
<1>5. AnswersInv' /\ KnowsInv' BY <1>3, UnansweredKeeps DEF UnloadCancelled
<1>6. TypedInv' /\ KeptInv' /\ LeftInv'
  BY <1>3 DEF UnloadCancelled, Inv, TypedInv, KeptInv, LeftInv, Compared
<1> QED BY <1>2, <1>4, <1>5, <1>6 DEF Inv

LEMMA AttachmentKeepsInv ==
    ASSUME Inv, onAttachment
    PROVE  Inv'
<1>1. savedObject.version \in Nat /\ values \in Values BY DEF Inv, TypeInv, Hakemus
<1>2. requests' = requests \cup {Request("attachment", savedObject.version, values)}
  BY DEF onAttachment
<1>3. "attachment" \in Kinds BY DEF Kinds
<1>4. requests' \subseteq RequestType /\ IsFiniteSet(requests') /\ NumberedInv'
  BY <1>1, <1>2, <1>3, RequestAdded DEF Inv
<1>5. Request("attachment", savedObject.version, values).reply = <<>>
  BY <1>1, <1>3, NewRequest DEF Inv, NewOne
<1>6. TypeInv' BY <1>4 DEF onAttachment, Inv, TypeInv, remote, saveStatus
<1>7. AnswersInv' /\ KnowsInv' BY <1>2, <1>5, UnansweredKeeps DEF onAttachment, saveStatus
<1>8. TypedInv' /\ KeptInv' /\ LeftInv'
  BY <1>2 DEF onAttachment, Inv, TypedInv, KeptInv, LeftInv, Compared, remote, saveStatus
<1> QED BY <1>4, <1>6, <1>7, <1>8 DEF Inv

\* The page is left with one post on its way, or with nothing to post; with more,
\* a gap is open.
LEMMA LeavingKeepsInv ==
    ASSUME Inv, onBeforeUnload
    PROVE  Inv'
<1>1. CASE changes
  <2>1. Post("autoSave") BY <1>1 DEF onBeforeUnload
  <2>2. requests' \subseteq RequestType /\ IsFiniteSet(requests') /\ NumberedInv'
        /\ saveInProgress' = TRUE
    BY <2>1, PostIs
  <2>3. PICK r \in RequestType :
             /\ requests' = requests \cup {r} /\ r.kind = "autoSave" /\ r.reply = <<>>
             /\ r.base = savedObject.version /\ r.content = values
    BY <2>1, PostIs
  <2>4. TypeInv' BY <2>2 DEF onBeforeUnload, Inv, TypeInv, remote
  <2>5. AnswersInv' BY <2>3 DEF onBeforeUnload, Inv, AnswersInv, Tells, remote
  <2>6. TypedInv' /\ KnowsInv' /\ KeptInv'
    BY DEF onBeforeUnload, Inv, TypedInv, KnowsInv, KeptInv
  <2>7. LeftInv'
    <3>1. SUFFICES ASSUME gaps' = {} PROVE LeftInv' BY DEF LeftInv
    <3>2. requests = {} /\ gaps = {} BY <3>1 DEF onBeforeUnload
    <3>3. savedObject.version = server.version
      BY <3>2 DEF onBeforeUnload, Inv, KnowsInv
    <3>4. typed = values BY <3>2 DEF Inv, TypedInv
    <3>5. LastPost(r)'
      BY <2>3, <3>3, <3>4 DEF onBeforeUnload, LastPost, remote
    <3> QED BY <2>3, <3>2, <3>5 DEF LeftInv
  <2> QED BY <2>2, <2>4, <2>5, <2>6, <2>7 DEF Inv
<1>2. CASE ~changes
  <2>1. UNCHANGED <<requests, saveInProgress>> BY <1>2 DEF onBeforeUnload
  <2>2. TypeInv' BY <2>1 DEF onBeforeUnload, Inv, TypeInv, remote
  <2>3. NumberedInv' /\ AnswersInv' /\ TypedInv'
    BY <2>1 DEF onBeforeUnload, Inv, NumberedInv, AnswersInv, TypedInv, Tells, remote
  <2>4. KnowsInv' /\ KeptInv' BY DEF onBeforeUnload, KnowsInv, KeptInv
  <2>5. LeftInv'
    BY <1>2, <2>1 DEF onBeforeUnload, Inv, KeptInv, LeftInv, Compared, remote
  <2> QED BY <2>2, <2>3, <2>4, <2>5 DEF Inv
<1> QED BY <1>1, <1>2

-----------------------------------------------------------------------------
(* The server.                                                             *)

\* What a handled request does: it is answered by what the server has then, and
\* the server has the same, or what a post against the open version brought.
LEMMA HandledIs ==
    ASSUME Inv, NEW q \in requests, Handled(q)
    PROVE  /\ UNCHANGED <<saveStatus, stored, timers, page, closed, gaps, budget>>
           /\ q.reply = <<>> /\ server' \in State
           /\ \E reply \in Reply :
                /\ requests' = (requests \ {q}) \cup {[q EXCEPT !.reply = reply]}
                /\ reply.hakemus = server'
                /\ reply.status = 405 => closed
                /\ \/ server' = server /\ (q \in Posts /\ ~closed => q.base # server.version)
                   \/ /\ q \in Posts /\ ~closed /\ reply.status = 200
                      /\ q.base = server.version
                      /\ server'.version = server.version + 1
                      /\ server'.values = q.content
<1>1. server \in State /\ q \in RequestType BY DEF Inv, TypeInv
<1>2. ASSUME q \notin Posts, Answered(q, Ok(server)), UNCHANGED server
      PROVE  /\ Ok(server) \in Reply /\ server' \in State
             /\ requests' = (requests \ {q}) \cup {[q EXCEPT !.reply = Ok(server)]}
             /\ Ok(server).hakemus = server' /\ Ok(server).status = 200
  BY <1>1, <1>2 DEF Answered, Ok, Reply
<1>3. ASSUME q \in Posts, ~closed, q.base = server.version, Write(q)
      PROVE  /\ Ok(server') \in Reply /\ server' \in State
             /\ requests' = (requests \ {q}) \cup {[q EXCEPT !.reply = Ok(server')]}
             /\ Ok(server').hakemus = server' /\ Ok(server').status = 200
             /\ server'.version = server.version + 1 /\ server'.values = q.content
  <2>1. server' \in State /\ server'.version = server.version + 1 /\ server'.values = q.content
    BY <1>1, <1>3 DEF Write, State, RequestType, Statuses
  <2>2. requests' = (requests \ {q}) \cup {[q EXCEPT !.reply = Ok(server')]}
    BY <1>3 DEF Write, Answered
  <2> QED BY <2>1, <2>2 DEF Ok, Reply
<1>4. ASSUME NEW code \in {405, 409}, code = IF closed THEN 405 ELSE 409,
             q \in Posts, closed \/ q.base # server.version,
             Answered(q, Refused(code)), UNCHANGED server
      PROVE  /\ Refused(code) \in Reply /\ server' \in State
             /\ requests' = (requests \ {q}) \cup {[q EXCEPT !.reply = Refused(code)]}
             /\ Refused(code).hakemus = server' /\ Refused(code).status = code
             /\ code = 405 => closed
  BY <1>1, <1>4 DEF Answered, Refused, Reply
<1>5. /\ UNCHANGED <<saveStatus, stored, timers, page, closed, gaps, budget>>
      /\ q.reply = <<>>
      /\ \/ q \notin Posts /\ Answered(q, Ok(server)) /\ UNCHANGED server
         \/ q \in Posts /\ ~closed /\ q.base = server.version /\ Write(q)
         \/ /\ q \in Posts /\ (closed \/ q.base # server.version)
            /\ Answered(q, Refused(IF closed THEN 405 ELSE 409)) /\ UNCHANGED server
  BY DEF Handled
<1>6. CASE q \notin Posts /\ Answered(q, Ok(server)) /\ UNCHANGED server
  BY <1>2, <1>5, <1>6
<1>7. CASE q \in Posts /\ ~closed /\ q.base = server.version /\ Write(q)
  BY <1>3, <1>5, <1>7
<1>8. CASE /\ q \in Posts /\ (closed \/ q.base # server.version)
           /\ Answered(q, Refused(IF closed THEN 405 ELSE 409)) /\ UNCHANGED server
  BY <1>4, <1>5, <1>8
<1> QED BY <1>5, <1>6, <1>7, <1>8

LEMMA HandledKeepsInv ==
    ASSUME Inv, NEW q \in requests, Handled(q)
    PROVE  Inv'
<1>1. /\ UNCHANGED <<values, typed, savedObject, changes, saveInProgress, serverError,
                     stored, timers, page, closed, gaps>>
      /\ q.reply = <<>> /\ server' \in State
  BY HandledIs DEF saveStatus
<1>2. PICK reply \in Reply :
        /\ requests' = (requests \ {q}) \cup {[q EXCEPT !.reply = reply]}
        /\ reply.hakemus = server'
        /\ reply.status = 405 => closed
        /\ \/ server' = server /\ (q \in Posts /\ ~closed => q.base # server.version)
           \/ /\ q \in Posts /\ ~closed /\ reply.status = 200
              /\ q.base = server.version
              /\ server'.version = server.version + 1
              /\ server'.values = q.content
  BY HandledIs
<1>3. PICK r : r = [q EXCEPT !.reply = reply] OBVIOUS
<1>4. requests' = (requests \ {q}) \cup {r} BY <1>2, <1>3
<1>5. /\ r.kind = q.kind /\ r.base = q.base /\ r.content = q.content /\ r.reply = reply
      /\ r.reply # <<>>
  <2>1. q \in RequestType BY DEF Inv, TypeInv
  <2>2. reply # <<>> BY AnswerIsSome
  <2> QED BY <2>1, <2>2, <1>3 DEF RequestType
<1>6. requests' \subseteq RequestType /\ IsFiniteSet(requests') /\ NumberedInv'
  BY <1>2, RequestAnswered DEF Inv
<1>7. TypeInv' BY <1>1, <1>6 DEF Inv, TypeInv
<1>8. server.version \in Nat /\ server'.version \in Nat
  BY <1>1 DEF Inv, TypeInv, State
<1>9. \A p \in requests : p.reply # <<>> => p.reply.hakemus.version \in Nat
  BY AnswerType DEF Inv
<1>10. AnswersInv'
  <2>1. ASSUME NEW p \in requests, p.reply # <<>> PROVE Tells(p)'
    <3>1. Tells(p) BY <2>1 DEF Inv, AnswersInv
    <3> QED BY <3>1, <2>1, <1>2, <1>8, <1>9 DEF Tells
  <2>2. Tells(r)' BY <1>2, <1>5, <1>8 DEF Tells
  <2> QED BY <2>1, <2>2, <1>1, <1>2, <1>4, <1>5 DEF Inv, AnswersInv
<1>11. TypedInv' BY <1>1 DEF Inv, TypedInv
<1>12. KnowsInv'
  <2>1. SUFFICES ASSUME page = "edit", gaps \cap Misled = {}
                 PROVE  savedObject.version = server'.version \/ \E p \in requests' : Brings(p)'
    BY <1>1 DEF KnowsInv
  <2>2. savedObject.version = server.version \/ \E p \in requests : Brings(p)
    BY <2>1 DEF Inv, KnowsInv
  <2>3. CASE server' = server
    <3>1. ASSUME NEW p \in requests, Brings(p) PROVE p \in requests' /\ Brings(p)'
      BY <3>1, <2>3, <1>1, <1>4 DEF Brings, Posts
    <3> QED BY <2>2, <2>3, <3>1
  <2>4. CASE q \in Posts /\ reply.status = 200
    BY <2>4, <1>2, <1>4, <1>5 DEF Brings, Posts
  <2> QED BY <2>3, <2>4, <1>2
<1>13. KeptInv'
  <2>1. SUFFICES ASSUME page = "edit", ~(changes /\ timers # {}), serverError = "", gaps = {}
                 PROVE  typed = server'.values \/ Compared' # {}
    BY <1>1 DEF KeptInv
  <2>2. CASE q.kind = "attachment"
    BY <2>1, <2>2, <1>2, <1>4, <1>5 DEF Inv, KeptInv, Compared, Posts
  <2>3. CASE q.kind # "attachment"
    BY <2>3, <1>4, <1>5 DEF Compared
  <2> QED BY <2>2, <2>3
<1>14. LeftInv'
  <2>1. SUFFICES ASSUME page # "edit", gaps = {} PROVE LeftInv' BY <1>1 DEF LeftInv
  <2>2. /\ \A p \in requests : p = q
        /\ LastPost(q) /\ ~closed
    BY <2>1, <1>1 DEF Inv, LeftInv, AnswersInv
  <2>3. q \in Posts BY <2>2 DEF LastPost, Posts
  <2>4. server'.values = typed BY <2>2, <2>3, <1>2 DEF LastPost
  <2> QED BY <2>2, <2>4, <1>1, <1>4, <1>5 DEF LeftInv
<1> QED BY <1>6, <1>7, <1>10, <1>11, <1>12, <1>13, <1>14 DEF Inv

LEMMA OtherKeepsInv ==
    ASSUME Inv, Other
    PROVE  Inv'
<1>1. /\ UNCHANGED <<values, typed, savedObject, changes, saveInProgress, serverError,
                     stored, timers, page, requests>>
      /\ page = "edit" /\ "others" \in gaps'
  BY DEF Other, saveStatus
<1>2. /\ server' \in State /\ closed' \in BOOLEAN
      /\ \/ server' = server
         \/ server'.version = server.version + 1
  <2>1. server \in State /\ closed \in BOOLEAN BY DEF Inv, TypeInv
  <2>2. CASE closed' = TRUE /\ UNCHANGED server BY <2>1, <2>2
  <2>3. CASE /\ \E v \in Values \ {server.values} :
                 server' = [server EXCEPT !.version = @ + 1, !.values = v]
             /\ UNCHANGED closed
    <3>1. PICK v \in Values : server' = [server EXCEPT !.version = @ + 1, !.values = v]
      BY <2>3
    <3>2. /\ server = [version |-> server.version, status |-> server.status,
                        values |-> server.values]
          /\ server.version \in Nat /\ server.status \in Statuses
      BY <2>1 DEF State
    <3>3. server' = [version |-> server.version + 1, status |-> server.status, values |-> v]
      BY <3>1, <3>2
    <3> QED BY <3>2, <3>3, <2>1, <2>3 DEF State
  <2> QED BY <2>2, <2>3 DEF Other
<1>3. TypeInv' BY <1>1, <1>2 DEF Inv, TypeInv
<1>4. NumberedInv' BY <1>1 DEF Inv, NumberedInv
<1>5. AnswersInv'
  <2>1. \A p \in requests : p.reply # <<>> => p.reply.hakemus.version \in Nat
    BY AnswerType DEF Inv
  <2>2. server.version \in Nat BY DEF Inv, TypeInv, State
  <2>3. ASSUME NEW p \in requests, p.reply # <<>> PROVE Tells(p)'
    <3>1. Tells(p) BY <2>3 DEF Inv, AnswersInv
    <3> QED BY <3>1, <2>1, <2>2, <2>3, <1>2 DEF Tells
  <2> QED BY <2>3, <1>1 DEF AnswersInv
<1>6. TypedInv' /\ KnowsInv' /\ KeptInv' /\ LeftInv'
  BY <1>1 DEF TypedInv, KnowsInv, KeptInv, LeftInv, Misled
<1> QED BY <1>3, <1>4, <1>5, <1>6 DEF Inv

-----------------------------------------------------------------------------
(* Answers.                                                                *)

\* The page compares itself with the last answer, and that is of the open version
\* unless an old answer came after a new one.
LEMMA SaveCompletedKeepsInv ==
    ASSUME Inv, NEW q \in requests, onSaveCompleted(q)
    PROVE  Inv'
<1> DEFINE told == q.reply.hakemus
<1>1. /\ q.reply # <<>> /\ page = "edit" /\ requests' = requests \ {q}
      /\ q.kind # "attachment" /\ q.reply.status = 200
      /\ UNCHANGED <<typed, page, server, closed, budget>>
      /\ serverError' = "" /\ stored' = TRUE
  BY DEF onSaveCompleted, Arrives, remote
<1>2. told \in State /\ told.version \in Nat /\ told.values \in Values /\ Tells(q)
  <2>1. q.reply # <<>> /\ TypeInv BY <1>1 DEF Inv
  <2>2. q.reply.hakemus \in State /\ q.reply.hakemus.version \in Nat
        /\ q.reply.hakemus.values \in Values
    BY <2>1, AnswerType
  <2>3. Tells(q) BY <2>1 DEF Inv, AnswersInv
  <2> QED BY <2>2, <2>3
<1>3. /\ changes' <=> values # told.values
      /\ changes' \in BOOLEAN
      /\ savedObject' = [version |-> told.version, status |-> told.status]
      /\ values' = IF stored THEN values ELSE told.values
      /\ gaps' = gaps \cup (IF told.version < savedObject.version THEN {"overtaken"} ELSE {})
                      \cup (IF values' # values THEN {"undone"} ELSE {})
  BY DEF onSaveCompleted, Differs, Known
<1>4. /\ saveInProgress' \in BOOLEAN /\ timers' \subseteq Debounced
      /\ changes' => timers' # {}
  <2>1. saveInProgress \in BOOLEAN /\ timers \subseteq Debounced BY DEF Inv, TypeInv
  <2>2. IF changes' THEN startAutoSave ELSE saveInProgress' = FALSE /\ UNCHANGED timers
    BY DEF onSaveCompleted
  <2>3. CASE changes' BY <2>1, <2>2, <2>3 DEF startAutoSave, Debounced
  <2>4. CASE ~changes' BY <2>1, <2>2, <2>4
  <2> QED BY <2>3, <2>4
<1>5. savedObject' \in Hakemus /\ savedObject'.version = told.version
  BY <1>2, <1>3 DEF State, Hakemus, Statuses
<1>6. savedObject.version \in Nat /\ server.version \in Nat
  BY DEF Inv, TypeInv, Hakemus, State
<1> HIDE DEF told
<1>7. requests' \subseteq RequestType /\ IsFiniteSet(requests') /\ NumberedInv'
  BY <1>1, RequestGone DEF Inv
<1>8. TypeInv'
  <2>1. values' \in Values /\ changes' \in BOOLEAN BY <1>2, <1>3 DEF Inv, TypeInv
  <2> QED BY <2>1, <1>1, <1>4, <1>5, <1>7 DEF Inv, TypeInv
<1>9. AnswersInv'
  <2>1. gaps # {} => gaps' # {} BY <1>3
  <2>2. UNCHANGED <<server, closed>> /\ requests' \subseteq requests BY <1>1
  <2>3. AnswersInv BY DEF Inv
  <2> QED BY <2>1, <2>2, <2>3 DEF AnswersInv, Tells
<1>10. TypedInv'
  <2>1. gaps' # {} \/ (values' = values /\ gaps = gaps') BY <1>3
  <2> QED BY <2>1, <1>1 DEF Inv, TypedInv
<1>11. KnowsInv'
  <2>1. SUFFICES ASSUME gaps' \cap Misled = {}
                 PROVE  told.version = server.version \/ \E p \in requests' : Brings(p)'
    BY <1>1, <1>5 DEF KnowsInv
  <2>2. gaps \cap Misled = {} /\ ~ (told.version < savedObject.version)
    BY <2>1, <1>3 DEF Misled
  <2>3. CASE savedObject.version = server.version
    BY <2>2, <2>3, <1>2, <1>6 DEF Tells, told
  <2>4. ASSUME NEW p \in requests, Brings(p)
        PROVE  told.version = server.version \/ \E r \in requests' : Brings(r)'
    BY <2>4, <1>1 DEF Brings, Posts, told
  <2> QED BY <2>2, <2>3, <2>4, <1>1 DEF Inv, KnowsInv
<1>12. KeptInv'
  <2>1. SUFFICES ASSUME ~changes', Compared' = {}, gaps' = {}
                 PROVE  typed = server.values
    BY <1>1, <1>4 DEF KeptInv
  <2>2. savedObject'.version = server'.version
    BY <2>1, <1>11, <1>1 DEF KnowsInv, Compared, Brings, Posts
  <2>3. told.values = server.values BY <2>2, <1>1, <1>2, <1>5 DEF Tells, told
  <2>4. typed = values BY <2>1, <1>3 DEF Inv, TypedInv
  <2> QED BY <2>1, <2>3, <2>4, <1>3
<1>13. LeftInv' BY <1>1 DEF LeftInv
<1> QED BY <1>7, <1>8, <1>9, <1>10, <1>11, <1>12, <1>13 DEF Inv

LEMMA AttachmentCompletedKeepsInv ==
    ASSUME Inv, NEW q \in requests, NEW v \in Values, onAttachmentCompleted(q, v)
    PROVE  Inv'
<1>1. /\ q.kind = "attachment" /\ page = "edit"
      /\ values' = v /\ typed' = v /\ stored' = TRUE
      /\ requests' = (requests \ {q}) \cup {Request("refresh", 0, values)}
      /\ UNCHANGED <<savedObject, changes, saveInProgress, serverError, timers, page,
                     server, closed, gaps>>
  BY DEF onAttachmentCompleted, remote
<1>2. "refresh" \in Kinds /\ 0 \in Nat /\ values \in Values /\ requests \ {q} \in SUBSET requests
  BY DEF Kinds, Inv, TypeInv
<1>3. requests' \subseteq RequestType /\ IsFiniteSet(requests') /\ NumberedInv'
  BY <1>1, <1>2, RequestAdded DEF Inv
<1>4. PICK r : /\ requests' = (requests \ {q}) \cup {r}
               /\ r.kind = "refresh" /\ r.reply = <<>>
  <2>1. NewOne(Request("refresh", 0, values), "refresh", 0, values)
    BY <1>2, NewRequest DEF Inv
  <2> QED BY <2>1, <1>1 DEF NewOne
<1>5. TypeInv' BY <1>1, <1>3 DEF Inv, TypeInv
<1>6. AnswersInv' BY <1>1, <1>4 DEF Inv, AnswersInv, Tells
<1>7. TypedInv' BY <1>1 DEF TypedInv
<1>8. KnowsInv'
  <2>1. ASSUME NEW p \in requests, Brings(p) PROVE p \in requests' /\ Brings(p)'
    BY <2>1, <1>1, <1>4 DEF Brings, Posts
  <2> QED BY <2>1, <1>1 DEF Inv, KnowsInv
<1>9. KeptInv' /\ LeftInv' BY <1>1, <1>4 DEF KeptInv, LeftInv, Compared
<1> QED BY <1>3, <1>5, <1>6, <1>7, <1>8, <1>9 DEF Inv

LEMMA RefusalKeepsInv ==
    ASSUME Inv, NEW q \in requests, SaveRefused(q)
    PROVE  Inv'
<1>1. /\ q.reply # <<>> /\ page = "edit" /\ requests' = requests \ {q}
      /\ q.reply.status \in {405, 409}
      /\ UNCHANGED <<values, typed, savedObject, changes, stored, server, closed, gaps>>
  BY DEF SaveRefused, Arrives, remote
<1>2. \/ /\ q.reply.status = 405 /\ page' = "preview" /\ timers' = {}
         /\ UNCHANGED <<saveInProgress, serverError>>
      \/ /\ saveInProgress' = FALSE /\ serverError' = "conflict-save-error"
         /\ UNCHANGED <<page, timers>>
  BY DEF SaveRefused
<1>3. requests' \subseteq RequestType /\ IsFiniteSet(requests') /\ NumberedInv'
  <2>1. requests' \subseteq requests BY <1>1
  <2>2. TypeInv /\ NumberedInv BY DEF Inv
  <2> QED BY <2>1, <2>2, RequestGone
<1>4. TypeInv'
  <2>1. /\ saveInProgress' \in BOOLEAN /\ timers' \subseteq Debounced
        /\ serverError' \in Errors \cup {""} /\ page' \in {"edit", "left", "preview"}
    <3>1. /\ saveInProgress \in BOOLEAN /\ timers \subseteq Debounced
          /\ serverError \in Errors \cup {""} /\ page \in {"edit", "left", "preview"}
      BY DEF Inv, TypeInv
    <3>2. "conflict-save-error" \in Errors BY DEF Errors
    <3>3. CASE UNCHANGED <<saveInProgress, serverError>> /\ page' = "preview" /\ timers' = {}
      BY <3>1, <3>3
    <3>4. CASE /\ UNCHANGED <<page, timers>> /\ saveInProgress' = FALSE
               /\ serverError' = "conflict-save-error"
      BY <3>1, <3>2, <3>4
    <3> QED BY <3>3, <3>4, <1>2
  <2> QED BY <2>1, <1>1, <1>3 DEF Inv, TypeInv
<1>5. AnswersInv' /\ TypedInv' BY <1>1 DEF Inv, AnswersInv, TypedInv, Tells
<1>6. KnowsInv'
  <2>1. ASSUME NEW p \in requests, Brings(p) PROVE p \in requests' /\ Brings(p)'
    BY <2>1, <1>1 DEF Brings, Posts
  <2> QED BY <2>1, <1>1 DEF Inv, KnowsInv
<1>7. KeptInv' BY <1>1, <1>2 DEF KeptInv
<1>8. LeftInv' BY <1>1, <1>2 DEF Inv, AnswersInv, LeftInv
<1> QED BY <1>3, <1>4, <1>5, <1>6, <1>7, <1>8 DEF Inv

LEMMA InvalidKeepsInv ==
    ASSUME Inv, NEW q \in requests, Invalid(q)
    PROVE  Inv'
<1>1. /\ q.reply = <<>> /\ page = "edit" /\ requests' = requests \ {q}
      /\ saveInProgress' = FALSE /\ serverError' = "submit-validation-errors"
      /\ UNCHANGED <<values, typed, savedObject, changes, stored, timers, page,
                     server, closed, gaps>>
  BY DEF Invalid, remote
<1>2. requests' \subseteq RequestType /\ IsFiniteSet(requests') /\ NumberedInv'
  BY <1>1, RequestGone DEF Inv
<1>3. TypeInv' BY <1>1, <1>2 DEF Inv, TypeInv, Errors
<1>4. AnswersInv' /\ TypedInv' BY <1>1 DEF Inv, AnswersInv, TypedInv, Tells
<1>5. KnowsInv'
  <2>1. ASSUME NEW p \in requests, Brings(p) PROVE p \in requests' /\ Brings(p)'
    BY <2>1, <1>1 DEF Brings, Posts
  <2> QED BY <2>1, <1>1 DEF Inv, KnowsInv
<1>6. KeptInv' /\ LeftInv' BY <1>1 DEF KeptInv, LeftInv
<1> QED BY <1>2, <1>3, <1>4, <1>5, <1>6 DEF Inv

\* A lost answer of a post, or a lost refresh, is a gap; a post that fails shows
\* an error; a failing attachment was never compared.
LEMMA FailureKeepsInv ==
    ASSUME Inv, NEW q \in requests, Fails(q)
    PROVE  Inv'
<1>1. /\ page = "edit" /\ requests' = requests \ {q}
      /\ UNCHANGED <<values, typed, savedObject, changes, stored, page, server, closed>>
      /\ gaps' = gaps \cup (IF q.kind = "refresh" THEN {"refresh-lost"} ELSE {})
                      \cup (IF q \in Posts /\ q.reply # <<>> THEN {"answer-lost"} ELSE {})
  BY DEF Fails, remote
<1>2. \/ /\ q.kind = "autoSave" /\ serverError' = "unexpected-save-error"
         /\ saveInProgress' = TRUE /\ timers' = timers \cup {"autoSave"}
      \/ /\ q.kind = "submit" /\ serverError' = "unexpected-submit-error"
         /\ saveInProgress' = FALSE /\ UNCHANGED timers
      \/ /\ q.kind \in {"attachment", "refresh"}
         /\ UNCHANGED <<serverError, saveInProgress, timers>>
  <2>1. q.kind \in Kinds BY DEF Inv, TypeInv, RequestType, Kinds
  <2> QED BY <2>1 DEF Fails, startAutoSave, Kinds
<1>3. requests' \subseteq RequestType /\ IsFiniteSet(requests') /\ NumberedInv'
  BY <1>1, RequestGone DEF Inv
<1>4. TypeInv' BY <1>1, <1>2, <1>3 DEF Inv, TypeInv, Errors, Debounced
<1>5. AnswersInv' /\ TypedInv' BY <1>1 DEF Inv, AnswersInv, TypedInv, Tells
<1>6. KnowsInv'
  <2>1. SUFFICES ASSUME gaps' \cap Misled = {} PROVE KnowsInv' BY DEF KnowsInv
  <2>2. gaps \cap Misled = {} /\ ~ (q \in Posts /\ q.reply # <<>>)
    BY <2>1, <1>1 DEF Misled
  <2>3. ASSUME NEW p \in requests, Brings(p) PROVE p \in requests' /\ Brings(p)'
    BY <2>2, <2>3, <1>1 DEF Brings, Posts
  <2> QED BY <2>2, <2>3, <1>1 DEF Inv, KnowsInv
<1>7. KeptInv'
  <2>1. CASE q.kind = "attachment"
    BY <2>1, <1>1, <1>2 DEF Inv, KeptInv, Compared
  <2>2. CASE q.kind # "attachment"
    <3>1. serverError' # "" \/ gaps' # {} BY <2>2, <1>1, <1>2
    <3> QED BY <3>1 DEF KeptInv
  <2> QED BY <2>1, <2>2
<1>8. LeftInv' BY <1>1 DEF LeftInv
<1> QED BY <1>3, <1>4, <1>5, <1>6, <1>7, <1>8 DEF Inv

LEMMA DroppedKeepsInv ==
    ASSUME Inv, NEW q \in requests, Dropped(q)
    PROVE  Inv'
<1>1. /\ page # "edit" /\ requests' = requests \ {q}
      /\ \/ q.reply # <<>> /\ gaps' = gaps
         \/ q.reply = <<>> /\ gaps' # {} /\ gaps \subseteq gaps'
      /\ UNCHANGED <<values, typed, savedObject, changes, saveInProgress, serverError,
                     stored, timers, page, server, closed>>
  BY DEF Dropped, saveStatus, remote
<1>2. requests' \subseteq RequestType /\ IsFiniteSet(requests') /\ NumberedInv'
  BY <1>1, RequestGone DEF Inv
<1>3. TypeInv' BY <1>1, <1>2 DEF Inv, TypeInv
<1>4. AnswersInv' /\ TypedInv' BY <1>1 DEF Inv, AnswersInv, TypedInv, Tells
<1>5. KnowsInv' /\ KeptInv' BY <1>1 DEF KnowsInv, KeptInv
<1>6. LeftInv' BY <1>1 DEF Inv, LeftInv, LastPost
<1> QED BY <1>2, <1>3, <1>4, <1>5, <1>6 DEF Inv

-----------------------------------------------------------------------------
(* The theorems.                                                           *)

LEMMA StutterKeepsInv ==
    ASSUME Inv, UNCHANGED vars
    PROVE  Inv'
<1> USE DEF vars, saveStatus, remote
<1>1. TypeInv' /\ NumberedInv' /\ AnswersInv' /\ TypedInv'
  BY DEF Inv, TypeInv, NumberedInv, AnswersInv, TypedInv, Tells
<1>2. KnowsInv' BY DEF Inv, KnowsInv, Brings, Posts
<1>3. KeptInv' /\ LeftInv' BY DEF Inv, KeptInv, LeftInv, Compared, LastPost
<1> QED BY <1>1, <1>2, <1>3 DEF Inv

LEMMA StepKeepsInv == Inv /\ [Next]_vars => Inv'
<1> SUFFICES ASSUME Inv, [Next]_vars PROVE Inv' OBVIOUS
<1>1. CASE UNCHANGED vars BY <1>1, StutterKeepsInv
<1>2. CASE Applicant
  BY <1>2, EditKeepsInv, SubmitKeepsInv, AttachmentKeepsInv, LeavingKeepsInv,
     StayingKeepsInv DEF Applicant
<1>3. CASE Other BY <1>3, OtherKeepsInv
<1>4. CASE \E timer \in Debounced : onSave(timer) BY <1>4, SaveKeepsInv
<1>5. CASE \E q \in requests : Handled(q) \/ Answer(q) \/ Invalid(q) \/ Fails(q)
  <2>1. PICK q \in requests : Handled(q) \/ Answer(q) \/ Invalid(q) \/ Fails(q) BY <1>5
  <2>2. CASE Handled(q) BY <2>2, HandledKeepsInv
  <2>3. CASE Answer(q)
    BY <2>3, SaveCompletedKeepsInv, RefusalKeepsInv, DroppedKeepsInv,
       AttachmentCompletedKeepsInv DEF Answer
  <2>4. CASE Invalid(q) BY <2>4, InvalidKeepsInv
  <2>5. CASE Fails(q) BY <2>5, FailureKeepsInv
  <2> QED BY <2>1, <2>2, <2>3, <2>4, <2>5
<1> QED BY <1>1, <1>2, <1>3, <1>4, <1>5 DEF Next

\* The invariant: what the page knows of the server, which answers are still to
\* come, and what they will make of the edits (FormStateTransitions.ts).
THEOREM Invariant == Spec => []Inv
BY InitInv, StepKeepsInv, PTL DEF Spec

\* The page and the posts name versions the server has made: the page has its
\* version from an answer, and a post has it from the page.
NamedInv ==
    /\ savedObject.version <= server.version
    /\ \A q \in requests : q.base <= server.version

BoundsInv == gaps \subseteq Gaps /\ budget \in [{"edits", "troubles"} -> Nat]

\* A version that is named in a step was named before, or an answer told it.
LEMMA NamedFollows ==
    ASSUME Inv, NamedInv,
           server' = server \/ server'.version = server.version + 1,
           \/ savedObject' = savedObject
           \/ \E q \in requests : /\ q.reply # <<>>
                                  /\ savedObject'.version = q.reply.hakemus.version,
           \A r \in requests' :
              \/ \E q \in requests : r.base = q.base
              \/ r.base \in {0, savedObject.version}
    PROVE  NamedInv'
<1>1. savedObject.version \in Nat /\ server.version \in Nat
  BY DEF Inv, TypeInv, Hakemus, State
<1>2. \A q \in requests : q.base \in Nat BY DEF Inv, TypeInv, RequestType
<1>3. \A q \in requests : q.reply # <<>> =>
        q.reply.hakemus.version \in Nat /\ q.reply.hakemus.version <= server.version
  BY AnswerType DEF Inv, AnswersInv, Tells
<1>4. savedObject'.version <= server'.version BY <1>1, <1>3 DEF NamedInv
<1>5. ASSUME NEW r \in requests' PROVE r.base <= server'.version
  BY <1>1, <1>2 DEF NamedInv
<1> QED BY <1>4, <1>5 DEF NamedInv

LEMMA PostNames ==
    ASSUME Inv, NamedInv, NEW kind \in {"autoSave", "submit"}, Post(kind),
           UNCHANGED <<savedObject, server>>
    PROVE  NamedInv'
<1>1. PICK r \in RequestType : requests' = requests \cup {r} /\ r.base = savedObject.version
  BY PostIs
<1> QED BY <1>1, NamedFollows

LEMMA NamedStep == Inv /\ NamedInv /\ [Next]_vars => NamedInv'
<1> SUFFICES ASSUME Inv, NamedInv, [Next]_vars PROVE NamedInv' OBVIOUS
<1>1. ASSUME UNCHANGED <<savedObject, server>>, requests' \subseteq requests
      PROVE  NamedInv'
  BY <1>1 DEF NamedInv
<1>2. CASE UNCHANGED vars BY <1>2, <1>1 DEF vars, saveStatus, remote
<1>3. CASE Applicant
  <2>1. ASSUME NEW v \in Values, onUpdateField(v) \/ onRemoveField(v) PROVE NamedInv'
    BY <2>1, <1>1 DEF onUpdateField, onRemoveField, Edit, remote
  <2>2. CASE onSubmit
    <3>1. Post("submit") /\ UNCHANGED <<savedObject, server>> BY <2>2 DEF onSubmit, remote
    <3> QED BY <3>1, PostNames
  <2>3. CASE onAttachment
    <3>1. /\ requests' = requests \cup {Request("attachment", savedObject.version, values)}
          /\ UNCHANGED <<savedObject, server>>
      BY <2>3 DEF onAttachment, saveStatus, remote
    <3>2. savedObject.version \in Nat /\ values \in Values /\ "attachment" \in Kinds
      BY DEF Inv, TypeInv, Hakemus, Kinds
    <3>3. Request("attachment", savedObject.version, values).base = savedObject.version
      BY <3>2, NewRequest DEF Inv, NewOne
    <3> QED BY <3>1, <3>3, NamedFollows
  <2>4. CASE onBeforeUnload
    <3>1. UNCHANGED <<savedObject, server>> BY <2>4 DEF onBeforeUnload, remote
    <3>2. CASE changes
      <4>1. Post("autoSave") BY <2>4, <3>2 DEF onBeforeUnload
      <4> QED BY <3>1, <4>1, PostNames
    <3>3. CASE ~changes
      <4>1. requests' = requests BY <2>4, <3>3 DEF onBeforeUnload
      <4> QED BY <3>1, <4>1, <1>1
    <3> QED BY <3>2, <3>3
  <2>5. CASE UnloadCancelled
    <3>1. Post("autoSave") /\ UNCHANGED <<savedObject, server>>
      BY <2>5 DEF UnloadCancelled, remote
    <3> QED BY <3>1, PostNames
  <2> QED BY <1>3, <2>1, <2>2, <2>3, <2>4, <2>5 DEF Applicant
<1>4. CASE Other
  <2>1. UNCHANGED <<savedObject, requests>> BY <1>4 DEF Other, saveStatus
  <2>2. server' = server \/ server'.version = server.version + 1
    <3>1. server \in State BY DEF Inv, TypeInv
    <3>2. CASE \E v \in Values \ {server.values} :
                   server' = [server EXCEPT !.version = @ + 1, !.values = v]
      BY <3>1, <3>2 DEF State
    <3> QED BY <1>4, <3>2 DEF Other
  <2> QED BY <2>1, <2>2, NamedFollows
<1>5. CASE \E timer \in Debounced : onSave(timer)
  <2>1. UNCHANGED <<savedObject, server>> BY <1>5 DEF onSave, remote
  <2>2. CASE changes
    <3>1. Post("autoSave") BY <1>5, <2>2 DEF onSave
    <3> QED BY <2>1, <3>1, PostNames
  <2>3. CASE ~changes
    <3>1. requests' = requests BY <1>5, <2>3 DEF onSave
    <3> QED BY <2>1, <3>1, <1>1
  <2> QED BY <2>2, <2>3
<1>6. ASSUME NEW q \in requests, Handled(q) PROVE NamedInv'
  <2>1. PICK reply \in Reply :
          /\ requests' = (requests \ {q}) \cup {[q EXCEPT !.reply = reply]}
          /\ server' = server \/ server'.version = server.version + 1
    BY <1>6, HandledIs
  <2>2. savedObject' = savedObject BY <1>6 DEF Handled, saveStatus
  <2>3. [q EXCEPT !.reply = reply].base = q.base BY DEF Inv, TypeInv, RequestType
  <2> QED BY <2>1, <2>2, <2>3, NamedFollows
<1>7. ASSUME NEW q \in requests, Answer(q) PROVE NamedInv'
  <2>1. CASE onSaveCompleted(q)
    <3>1. /\ q.reply # <<>> /\ requests' \subseteq requests /\ server' = server
          /\ savedObject'.version = q.reply.hakemus.version
      BY <2>1 DEF onSaveCompleted, Arrives, Known, remote
    <3> QED BY <3>1, NamedFollows
  <2>2. CASE SaveRefused(q) BY <2>2, <1>1 DEF SaveRefused, Arrives, remote
  <2>3. CASE Dropped(q) BY <2>3, <1>1 DEF Dropped, saveStatus, remote
  <2>4. ASSUME NEW v \in Values, onAttachmentCompleted(q, v) PROVE NamedInv'
    <3>1. /\ requests' = (requests \ {q}) \cup {Request("refresh", 0, values)}
          /\ UNCHANGED <<savedObject, server>>
      BY <2>4 DEF onAttachmentCompleted, remote
    <3>2. values \in Values /\ "refresh" \in Kinds /\ 0 \in Nat
      BY DEF Inv, TypeInv, Kinds
    <3>3. Request("refresh", 0, values).base = 0
      BY <3>2, NewRequest DEF Inv, NewOne
    <3> QED BY <3>1, <3>3, NamedFollows
  <2> QED BY <1>7, <2>1, <2>2, <2>3, <2>4 DEF Answer
<1>8. ASSUME NEW q \in requests, Invalid(q) \/ Fails(q) PROVE NamedInv'
  BY <1>8, <1>1 DEF Invalid, Fails, remote
<1> QED BY <1>2, <1>3, <1>4, <1>5, <1>6, <1>7, <1>8 DEF Next

LEMMA BoundsStep == BoundsInv /\ [Next]_vars => BoundsInv'
<1> SUFFICES ASSUME BoundsInv, [Next]_vars PROVE BoundsInv' OBVIOUS
<1>1. ASSUME NEW what \in {"edits", "troubles"}, Spend(what)
      PROVE  budget' \in [{"edits", "troubles"} -> Nat]
  BY <1>1 DEF Spend, BoundsInv
<1>2. CASE UNCHANGED vars BY <1>2 DEF vars, BoundsInv
<1>3. CASE Applicant
  <2>1. Spend("edits")
    BY <1>3 DEF Applicant, onUpdateField, onRemoveField, Edit, onSubmit, onAttachment,
       onBeforeUnload, UnloadCancelled
  <2>2. gaps' = gaps \/ gaps' = gaps \cup {"left-busy"}
    BY <1>3 DEF Applicant, onUpdateField, onRemoveField, Edit, onSubmit, onAttachment,
       onBeforeUnload, UnloadCancelled
  <2> QED BY <2>1, <2>2, <1>1 DEF BoundsInv, Gaps
<1>4. CASE Other BY <1>4, <1>1 DEF Other, BoundsInv, Gaps
<1>5. CASE \E timer \in Debounced : onSave(timer) BY <1>5 DEF onSave, BoundsInv
<1>6. ASSUME NEW q \in requests, Handled(q) PROVE BoundsInv' BY <1>6 DEF Handled, BoundsInv
<1>7. ASSUME NEW q \in requests, Answer(q) PROVE BoundsInv'
  <2>1. CASE onSaveCompleted(q) BY <2>1 DEF onSaveCompleted, BoundsInv, Gaps
  <2>2. CASE SaveRefused(q) BY <2>2 DEF SaveRefused, BoundsInv
  <2>3. CASE Dropped(q) BY <2>3, <1>1 DEF Dropped, BoundsInv, Gaps
  <2>4. ASSUME NEW v \in Values, onAttachmentCompleted(q, v) PROVE BoundsInv'
    BY <2>4 DEF onAttachmentCompleted, BoundsInv
  <2> QED BY <1>7, <2>1, <2>2, <2>3, <2>4 DEF Answer
<1>8. ASSUME NEW q \in requests, Invalid(q) PROVE BoundsInv'
  BY <1>8, <1>1 DEF Invalid, BoundsInv
<1>9. ASSUME NEW q \in requests, Fails(q) PROVE BoundsInv'
  <2>1. Spend("troubles") BY <1>9 DEF Fails
  <2>2. gaps' = gaps \cup (IF q.kind = "refresh" THEN {"refresh-lost"} ELSE {})
                     \cup (IF q \in Posts /\ q.reply # <<>> THEN {"answer-lost"} ELSE {})
    BY <1>9 DEF Fails
  <2> QED BY <2>1, <2>2, <1>1 DEF BoundsInv, Gaps
<1> QED BY <1>2, <1>3, <1>4, <1>5, <1>6, <1>7, <1>8, <1>9 DEF Next

\* Every variable keeps its type, and neither the page nor a post nor an answer
\* names a version that the server has not made (Known, updateOld, Handled).
THEOREM TypesHold == Spec => []TypeOK
<1>1. Init => NamedInv /\ BoundsInv
  <2>1. SUFFICES ASSUME Init PROVE NamedInv /\ BoundsInv OBVIOUS
  <2>2. NamedInv
    <3>1. savedObject.version = 0 /\ server.version = 0 /\ requests = {} BY <2>1 DEF Init
    <3> QED BY <3>1 DEF NamedInv
  <2>3. budget = [edits |-> MaxEdits, troubles |-> MaxTroubles] /\ gaps = {}
    BY <2>1 DEF Init
  <2>4. [edits |-> MaxEdits, troubles |-> MaxTroubles] \in [{"edits", "troubles"} -> Nat]
    BY FormBounds
  <2> QED BY <2>2, <2>3, <2>4 DEF BoundsInv
<1>2. Inv /\ NamedInv /\ BoundsInv => TypeOK
  <2>1. SUFFICES ASSUME Inv, NamedInv, BoundsInv PROVE TypeOK OBVIOUS
  <2>2. \A q \in requests : q.reply # <<>> => q.reply.hakemus.version <= server.version
    BY <2>1 DEF Inv, AnswersInv, Tells
  <2> QED BY <2>1, <2>2 DEF Inv, TypeInv, NamedInv, BoundsInv, TypeOK
<1> QED BY <1>1, <1>2, NamedStep, BoundsStep, Invariant, PTL DEF Spec

\* What the applicant typed is on the server, will be posted, or an error is
\* shown, also after the page was left (onSaveCompleted, onServerError,
\* onBeforeUnload), for any answers and any number of edits.
THEOREM EditsKept == Spec => []EditsAreKept
<1>1. Inv => EditsAreKept
  <2>1. SUFFICES ASSUME Inv PROVE EditsAreKept OBVIOUS
  <2>2. CASE page = "edit"
    BY <2>1, <2>2 DEF Inv, KeptInv, EditsAreKept, SaveIsComing, Compared
  <2>3. CASE page # "edit"
    BY <2>1, <2>3 DEF Inv, LeftInv, EditsAreKept, SaveIsComing
  <2> QED BY <2>2, <2>3
<1> QED BY <1>1, Invariant, PTL

\* When all is quiet, the page knows the open version: its next save is not
\* refused on account of its own posts (updateOld, onSaveCompleted).
THEOREM VersionKnown == Spec => []KnownVersion
<1>1. Inv => KnownVersion
  BY DEF Inv, KnowsInv, KnownVersion, Misled
<1> QED BY <1>1, Invariant, PTL
=============================================================================
