---------------------------- MODULE MheInvariant ----------------------------
(***************************************************************************)
(* The inductive invariant of MheClient: that of the key generation, on    *)
(* the variables of the first network, that of the triple generation, in   *)
(* the same form, and what ties the two phases and the ends of processes   *)
(* together.                                                               *)
(***************************************************************************)
EXTENDS MheClient, TreeInvariant

\* The invariant of the key generation.
SetupInv == INSTANCE RkgInvariant WITH
  outbox <- setupOutbox, wire <- setupWire, torn <- setupTorn,
  reading <- setupReading, inbox <- setupInbox,
  state <- setupState, run <- setupRun

-----------------------------------------------------------------------------
(* The generation of the triples.  The progress of a party: it has sent or *)
(* multiplied the sum of the inputs (Collected), received the product      *)
(* (Informed), returned.                                                   *)

\* The children whose inputs, whose decryption shares, have been added.
AddedInputs(p) == {c \in Children(p) : enc[p][c] = 1}
AddedShares(p) == {c \in Children(p) : share[p].keys[c] = 1}

Collected(p) == run[p] # "starting" /\ \A c \in Children(p) : enc[p][c] = 1
Informed(p)  == share[p].of # {}
Returned(p)  == run[p] = "returned"

ShareOf(p, C) ==
  [keys |-> Part(p, C), minus |-> [Part(p, C) EXCEPT ![Root] = 0], of |-> {Everybody}]

\* What is due on the link from p to its parent q, and to its child q.
UpDue(p, q) ==
  IF Collected(p) /\ enc[q][p] # 1 THEN {Message(0, Whole(p))}
  ELSE IF Returned(p) /\ share[q].keys[p] # 1 THEN {Message(2, ShareOf(p, Children(p)))}
  ELSE {}
DownDue(p, q) == IF Informed(p) /\ ~Informed(q) THEN {Message(1, Everybody)} ELSE {}
Due == [p \in Party |-> [q \in Party |->
          IF HasParent(p) /\ Parent(p) = q THEN UpDue(p, q)
          ELSE IF HasParent(q) /\ Parent(q) = p THEN DownDue(p, q)
          ELSE {}]]

\* The variables of a party that its progress determines.
LocalInv(p) ==
  /\ Returned(p) <=> Informed(p) /\ \A c \in Children(p) : share[p].keys[c] = 1
  /\ run[p] = "starting" => IsLeaf(p) /\ ~Informed(p)
  /\ enc[p] = Part(p, AddedInputs(p))
  /\ share[p] = IF Informed(p) THEN ShareOf(p, AddedShares(p)) ELSE NoShare
  /\ ~Collected(p) => state[p] = Cardinality(AddedInputs(p))
  /\ Collected(p) /\ ~Informed(p) => state[p] = 0
  /\ Informed(p) /\ ~Returned(p) => state[p] = Cardinality(AddedShares(p))

\* No parent is ahead of its children on the way up, no child ahead of its
\* parent on the way down, and there is a product when all inputs are in it.
OrderInv ==
  /\ \A p \in Party : \A c \in Children(p) :
        /\ enc[p][c] = 1 => Collected(c)
        /\ Informed(c) => Informed(p)
        /\ share[p].keys[c] = 1 => Returned(c)
  /\ (\E p \in Party : Informed(p)) => \A p \in Party : Collected(p)

ResultInv ==
  result = IF Returned(Root) THEN [product |-> {Everybody}, share |-> ShareOf(Root, Children(Root))]
           ELSE [product |-> {}, share |-> NoShare]

TriplesInv ==
  /\ TypeOK
  /\ \A p \in Party : LocalInv(p)
  /\ OrderInv
  /\ ResultInv
  /\ Carried(outbox, wire, inbox, Due)

-----------------------------------------------------------------------------
(* The two phases, and the ends of processes.                              *)

PhaseInv ==
  /\ phase \in [Party -> {"setup", "connecting", "triples"}]
  /\ \A p \in Party : /\ phase[p] # "setup" => setupRun[p] = "returned"
                      /\ phase[p] = "triples" => \A q \in Party : phase[q] # "setup"
                      /\ Returned(p) => phase[p] = "triples"

\* Processes exit when they have their triples, and the script stops the
\* others after the end of party 0.
EndInv ==
  /\ \A p \in Party : /\ proc[p] = "exited" => Returned(p)
                      /\ proc[p] = "stopped" => ~Up(Root)
  /\ proc[Root] # "stopped"

\* Nobody has panicked, and nobody has ended in the middle of a message.
Orderly ==
  \A p \in Party : /\ proc[p] # "panicked"
                   /\ \A q \in Party : ~torn[p][q] /\ ~setupTorn[p][q]

IInv ==
  /\ SetupInv!IInv
  /\ TriplesInv
  /\ PhaseInv
  /\ EndInv
  /\ DeadlinesFire \/ LostMessage \/ Orderly
=============================================================================
