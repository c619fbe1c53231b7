--------------------------- MODULE MCRateLimiter ---------------------------
(* RateLimiter for TLC: two instances, the second one a second ahead.      *)
EXTENDS RateLimiter, TLC

CONSTANTS w1, w2

OneAhead == w1 :> 0 @@ w2 :> 1
InStep == w1 :> 0 @@ w2 :> 0

(* A sign-in from a client without a token, and routes without a limit.    *)
SignIn == [skip |-> FALSE, config |-> TRUE, user |-> "", apiKey |-> "",
           forwardedFor |-> "", ip |-> "a1", route |-> "POST:/auth/sign-in"]
SignIns == {SignIn, [SignIn EXCEPT !.skip = TRUE], [SignIn EXCEPT !.config = FALSE]}
=============================================================================
