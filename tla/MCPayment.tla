----------------------------- MODULE MCPayment -----------------------------
(***************************************************************************)
(* Payment for TLC; the cfg gives its constants their values.              *)
(*                                                                         *)
(* The keys of refunds are interchangeable, but SYMMETRY is not sound for  *)
(* PaidIsRecorded.  Instead, where a refund could be asked for with any of *)
(* several keys that no table, lock or request holds, TLC follows one of   *)
(* them.  The others lead to the same states with two unused keys          *)
(* exchanged, and neither a property nor the fairness speaks of a          *)
(* particular key; clients' requests are under no fairness.                *)
(***************************************************************************)
EXTENDS Payment, TLC

UsedKeys ==
  {k.key : k \in {x \in DOMAIN idem \cup DOMAIN keyLock : x.scope = "refund"}}
    \cup {req[s].key.key : s \in {t \in Slots : req[t].pc # "idle" /\ req[t].op = "refund"}}
    \cup {r.idempotencyKey : r \in refunds}

FirstUnusedKey ==
  \A s \in Slots :
    req[s].pc = "idle" /\ req'[s].pc # "idle" /\ req'[s].op = "refund" =>
      LET k == req'[s].key.key
      IN k \in UsedKeys \/ k = CHOOSE x \in RefundKeys \ UsedKeys : TRUE
=============================================================================
