--------------------------- MODULE MCRateLimiter ---------------------------
(* Symmetry of the runs of RateLimiter: users are interchangeable. *)
EXTENDS RateLimiter, TLC

UserSymmetry == Permutations(Users)
=============================================================================
