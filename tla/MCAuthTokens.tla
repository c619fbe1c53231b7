---------------------------- MODULE MCAuthTokens ----------------------------
(* AuthTokens for TLC: a browser and an app of one user, with one device   *)
(* id, and another device id the app may send.                             *)
EXTENDS AuthTokens, TLC

CONSTANTS browser, app, u1

Instances == Permutations(Workers)
OneUser == [c \in Clients |-> u1]
OneDevice == [c \in Clients |-> "1234"]
=============================================================================
