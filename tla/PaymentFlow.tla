---------------------------- MODULE PaymentFlow ----------------------------
(***************************************************************************)
(* Sending maksatukset and fetching the responses to them, side by side:   *)
(* the send job of PaymentSending and the fetch job of PaymentResponses    *)
(* share the payments table, Rondo and the process they run in.            *)
(*                                                                         *)
(* PaymentResponses describes its senders loosely; that the send job and   *)
(* the officials of PaymentSending are such senders is the refinement      *)
(* Responses!Spec.                                                         *)
(***************************************************************************)
EXTENDS PaymentSending

CONSTANTS Key, MaxFiles, Fetches, MaxRows, MaxFaults

VARIABLES
    manual,  \* history: maksatukset that an official marked, or made, as paid
    about, remote, local, fetch, faults  \* of PaymentResponses

responseVars == <<manual, about, remote, local, fetch, faults>>
flowVars == <<vars, responseVars>>

Invoiced == {p \in Payments : rondo[p] > 0}

Responses == INSTANCE PaymentResponses WITH invoiced <- Invoiced

\* What PaymentResponses assumes of its constants.
ASSUME FlowAssumption ==
    /\ DOMAIN Key = Payments /\ IsFiniteSet(Fetches)
    /\ Payments \cap (Responses!Junk \cup {"none"}) = {}
    /\ MaxFiles \in Nat /\ MaxRows \in Nat /\ MaxFaults \in Nat

FlowInit ==
    /\ Init
    /\ manual = {}
    /\ about = [f \in Responses!Files |-> "none"]
    /\ remote = {} /\ local = {}
    /\ fetch = [t \in Fetches |-> Responses!Idle]
    /\ faults = MaxFaults

\* What PaymentSending does; the fetch job dies when the process does.
SendingStep ==
    /\ Next
    /\ IF up /\ ~up'
       THEN /\ faults > 0 /\ faults' = faults - 1
            /\ fetch' = [t \in Fetches |-> Responses!Idle]
            /\ local' = {}
            /\ UNCHANGED <<about, remote>>
       ELSE UNCHANGED <<about, remote, local, fetch, faults>>
    /\ manual' = manual \cup
         {p \in Payments : Responses!PaidRows(rows'[p]) # Responses!PaidRows(rows[p])}

FetchingStep ==
    /\ UNCHANGED <<payable, era, thread, rondo, late, unsure, budget>>
    /\ \/ \E t \in Fetches : Responses!FetchStep(t)
       \/ \E f \in Responses!Files : Responses!Respond(f)

FlowNext == SendingStep \/ FetchingStep

FlowSpec == FlowInit /\ [][FlowNext]_flowVars
-----------------------------------------------------------------------------
(* Properties.                                                             *)

\* The send job and the officials do nothing that PaymentResponses does not
\* expect of its senders, so what it promises holds of the two together.
SendingIsASender == Responses!Spec

\* A maksatus that Rondo has paid is left alone: the send job, which may be
\* between its put and its row when the response comes, makes no further row for
\* it (run-send-job!, update-paymentstatus-by-response).
PaidIsFinal ==
    [][\A p \in Payments \ manual' :
         Responses!PaidRows(rows[p]) # {} => Len(rows'[p]) = Len(rows[p])]_flowVars

\* A response ends every run that meets it only while the send job is between
\* its put and its row, or after a send whose outcome it could not know.
StuckOnlyWhileOutcomeUnknown ==
    \A f \in remote :
      about[f] \in Payments /\ Responses!Blocked(about[f]) =>
        \/ unsure[about[f]] > 0
        \/ \E t \in Threads : thread[t].pc = "mark" /\ thread[t].payment = about[f]
=============================================================================
