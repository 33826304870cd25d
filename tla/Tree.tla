-------------------------------- MODULE Tree --------------------------------
(***************************************************************************)
(* The tree of the parties that NewTree (apps/tpl/offline_mhe.go) builds:  *)
(* the "mhe" protocols aggregate along it towards party 0 and broadcast    *)
(* along it from party 0.                                                  *)
(***************************************************************************)
EXTENDS Integers

CONSTANTS N,         \* number of parties, with IDs 0 .. N-1
          Branching  \* children of a node (2 in apps/tpl/main.go)

ASSUME NAssumption == N \in Nat \ {0}
ASSUME BranchingAssumption == Branching \in Nat \ {0}

Party == 0 .. N - 1
Root == 0

Parent(i) == IF i = 0 THEN 0 ELSE (i - 1) \div Branching

\* The loop over j stops at the first ID that is not among the peers.
Children(i) ==
  {c \in Party : \E j \in 0 .. Branching - 1 :
                    /\ c = i * Branching + 1 + j
                    /\ \A k \in 0 .. j : i * Branching + 1 + k \in Party}

\* The constructors of both protocols give a Parent to a party whose node
\* has another one.
HasParent(p) == p # Parent(p)

\* The remotes that BindNetwork binds: the parent, if any, and the children.
Binds(p) == Children(p) \cup (IF HasParent(p) THEN {Parent(p)} ELSE {})
=============================================================================
