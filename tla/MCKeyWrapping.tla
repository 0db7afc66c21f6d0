--------------------------- MODULE MCKeyWrapping ----------------------------
(* KeyWrapping on a small instance: three generations of the master key in a *)
(* Secret, or one in the configuration under two names.                      *)
EXTENDS KeyWrapping, TLC

CONSTANTS v1, v2, v3   \* the fields, and the keys named after them

Generations ==
    {[strategy |-> "k8s", keyId |-> v1, master |-> v1, old |-> None],
     [strategy |-> "k8s", keyId |-> v2, master |-> v2, old |-> v1],
     [strategy |-> "k8s", keyId |-> v3, master |-> v3, old |-> v2],
     [strategy |-> "local", keyId |-> v1, master |-> v1, old |-> None],
     [strategy |-> "local", keyId |-> v2, master |-> v1, old |-> None]}

\* The hypothesis of the theorems holds of this instance.
ASSUME FieldsNameKeys

Symmetry == Permutations(Rows) \cup Permutations(Processes) \cup Permutations(Workers)
=============================================================================
