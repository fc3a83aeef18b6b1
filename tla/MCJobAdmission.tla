--------------------------- MODULE MCJobAdmission ----------------------------
(* Model-checking instance of JobAdmission: StartJob calls as model values, *)
(* one idempotency key besides the empty one.                              *)
EXTENDS JobAdmission

CONSTANTS a1, a2, a3, k1, none, nojob

MCTwoCalls   == {a1, a2}
MCThreeCalls == {a1, a2, a3}
MCKeys       == {none, k1}
=============================================================================
