----------------------------- MODULE MCSeatLock -----------------------------
(* Instances of SeatLock for TLC: one worker per booking, or two.          *)
EXTENDS SeatLock, TLC

CONSTANTS b1, b2, b3, w1, w2, w3, s1, s2

TwoBookings == {b1, b2}
ThreeBookings == {b1, b2, b3}
TwoWorkers == {w1, w2}
ThreeWorkers == {w1, w2, w3}

(* Calls for one booking never overlap.                                    *)
OneWorkerEach2 == (w1 :> {b1}) @@ (w2 :> {b2})
OneWorkerEach3 == (w1 :> {b1}) @@ (w2 :> {b2}) @@ (w3 :> {b3})

(* Two calls for b1 may overlap: a completion and a cancellation, say.     *)
TwoForFirst == (w1 :> {b1}) @@ (w2 :> {b1}) @@ (w3 :> {b2, b3})

SeatSymmetry == Permutations({s1, s2})
=============================================================================
