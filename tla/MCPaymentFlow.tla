--------------------------- MODULE MCPaymentFlow ---------------------------
(* Small instances of PaymentFlow for TLC. *)
EXTENDS PaymentFlow, TLC

CONSTANTS p1, a1

SinglePayment == p1 :> a1
SingleKey == p1 :> "k"
=============================================================================
