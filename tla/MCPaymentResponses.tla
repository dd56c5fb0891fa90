------------------------- MODULE MCPaymentResponses -------------------------
(* Small instances of PaymentResponses for TLC. *)
EXTENDS PaymentResponses, TLC

CONSTANTS p1, p2

\* Two maksatukset that the same response names, or a single one.
SharedKey == p1 :> "k" @@ p2 :> "k"
SingleKey == p1 :> "k"

FetchSymmetry == Permutations(Fetches)
=============================================================================
