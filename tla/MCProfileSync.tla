---------------------------- MODULE MCProfileSync ----------------------------
(* ProfileSync on small instances. *)
EXTENDS ProfileSync

(* One item is in both lists, and three new posts may come at once. *)
MostPosts == {1, 3, 4, 5}
TwoReels == {1, 2}

(* One list alone. *)
FivePosts == 1..5
NoReels == {}

FirstPinned == {1}
NonePinned == {}

=============================================================================
