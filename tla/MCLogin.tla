-------------------------------- MODULE MCLogin --------------------------------
(* Login on a small instance. *)
EXTENDS Login, TLC

CONSTANTS a1, a2, a3, a4, admin, other, here, there, everyone

(* Three attempts as the administrator, two of them from one address, and  *)
(* one with another username from that address.                            *)
FourAttempts == {a1, a2, a3, a4}
FiveBuckets == {admin, other, here, there, everyone}
Accounts == [a \in FourAttempts |-> IF a = a4 THEN other ELSE admin]
Addresses == [a \in FourAttempts |-> IF a = a3 THEN there ELSE here]
Limits == [b \in FiveBuckets |-> IF b = everyone THEN 3 ELSE 2]
AsAdmin == {a1, a2, a3}

Alike == Permutations({a1, a2})

=============================================================================
