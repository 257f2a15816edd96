---------------------------- MODULE InstagramErrors ----------------------------
(***************************************************************************)
(* What an error from Instagram is taken for.                              *)
(*                                                                         *)
(*   instagram/safe_issues.py     its code, from the classes, the messages *)
(*                                and the HTTP status of its whole chain   *)
(*   instagram/profile_lookup.py  whether it permits the other lookup      *)
(*   instagram/profile_sync.py    whether a synchronization goes on        *)
(*                                                                         *)
(* An error stands for its chain of causes and contexts: what its classes  *)
(* and messages say, whether one of them is a typed 429, and how long the  *)
(* chain is.                                                               *)
(***************************************************************************)
EXTENDS Naturals

CONSTANT MaxNodes   (* _MAX_EXCEPTION_NODES *)

ASSUME ErrorsAssumption == MaxNodes \in Nat \ {0}

Marks == {"challenge", "limit", "login", "missing"}

(* A typed 429 says that it is one.                                        *)
Errors ==
    {e \in [marks : SUBSET Marks, typed : BOOLEAN, nodes : {1, MaxNodes, MaxNodes + 1}] :
        e.typed => "limit" \in e.marks}

(* _classify_error *)
Code(e) ==
    IF "challenge" \in e.marks THEN "challenge"
    ELSE IF "limit" \in e.marks THEN "limit"
    ELSE IF "login" \in e.marks THEN "login"
    ELSE IF "missing" \in e.marks THEN "missing"
    ELSE "unavailable"

(* _BLOCKING_ISSUE_CODES: the failure of one item that ends its job. *)
Blocks(e) == Code(e) \in {"challenge", "limit", "login"}

(* _is_bounded_typed_rate_limit: a chain of more nodes is not trusted.     *)
PermitsFallback(e) == e.typed /\ e.nodes =< MaxNodes

=============================================================================
