------------------------------- MODULE MCClaimFeed -------------------------------
(***************************************************************************)
(* Instances of ClaimFeed for TLC.  Two audit refreshes overlap, or one of *)
(* them feeds two overlapping draft runs, or a draft run and the operator: *)
(* what these do never changes what the refreshes see.                     *)
(***************************************************************************)
EXTENDS ClaimFeed, TLC

CONSTANTS c1, c2, u1, u2, u3, i1, i2, q1

OverlapOrDraft == {{u1, u2}, {u3, i1, i2}, {u3, i1, q1}, {u3, i2, q1}}

Interchangeable == Permutations({u1, u2}) \cup Permutations({i1, i2})
=============================================================================
