----------------------------- MODULE MCJobQueue -----------------------------
(* JobQueue on small instances. *)
EXTENDS JobQueue, TLC

CONSTANTS a1, a2, b1, alice, bob

(* Two profiles, each with a name of its own. *)
TwoNames == {alice, bob}
TwoProfiles == {a1, b1}
NamesOfTwo == [p \in TwoProfiles |-> IF p = b1 THEN bob ELSE alice]

(* One name that can be added, erased and added again. *)
OneName == {alice}
TwoLives == {a1, a2}
NamesOfTwoLives == [p \in TwoLives |-> alice]

ClientSymmetry == Permutations(Clients)

=============================================================================
