------------------------------- MODULE MCKybReview -------------------------------
(***************************************************************************)
(* Instances of KybReview for TLC: one application under review and one  *)
(* still to be submitted, by the same applicant or another, and as many    *)
(* calls at once as it takes for two to race and a third to come.          *)
(***************************************************************************)
EXTENDS KybReview, TLC

CONSTANTS a1, a2, w1, w2, r1, r2, r3, c1, n1, h1

OneUnderReview ==
    [a \in Applications |-> IF a = a1 THEN [applicant |-> w1, status |-> "under_review"]
                                      ELSE NoApplication]

Interchangeable == Permutations(Requests)
=============================================================================
