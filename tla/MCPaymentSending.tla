-------------------------- MODULE MCPaymentSending --------------------------
(* Small instances of PaymentSending for TLC. *)
EXTENDS PaymentSending, TLC

CONSTANTS p1, p2, a1, a2

\* Two maksatukset of two hakemukset, or a single one.
TwoApplications == p1 :> a1 @@ p2 :> a2
SinglePayment == p1 :> a1

\* Threads are interchangeable; payments and eras are not (Idle names one).
ThreadSymmetry == Permutations(Threads)
=============================================================================
