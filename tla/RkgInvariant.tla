---------------------------- MODULE RkgInvariant ----------------------------
(***************************************************************************)
(* The inductive invariant of RkgProtocol.  The progress of a party can be *)
(* read off its variables: it has derived the common reference (Seeded),   *)
(* added up round one (Summed), received the sum (Informed), returned.     *)
(* What is under way on a link follows from the progress of its two ends.  *)
(***************************************************************************)
EXTENDS RkgProtocol, TreeInvariant

\* The children whose shares of round one, of round two, have been added.
Added1(p) == {c \in Children(p) : share1[p][c] = 1}
Added2(p) == {c \in Children(p) : share2[p].sum[c] = 1}

Seeded(p)   == p \in crp
Summed(p)   == Seeded(p) /\ \A c \in Children(p) : share1[p][c] = 1
Informed(p) == share2[p].from # {}
Returned(p) == run[p] = "returned"

ShareOf(p, C) == [sum |-> Part(p, C), from |-> {Everybody}]

\* What is due on the link from p to its parent q, and to its child q.
UpDue(p, q) ==
  IF Summed(p) /\ share1[q][p] # 1 THEN {Message1(Whole(p))}
  ELSE IF Returned(p) /\ share2[q].sum[p] # 1 THEN {Message3(ShareOf(p, Children(p)))}
  ELSE {}
DownDue(p, q) ==
  IF Seeded(p) /\ ~Seeded(q) THEN {Seed}
  ELSE IF Informed(p) /\ ~Informed(q) THEN {Message2(Everybody)}
  ELSE {}
Due == [p \in Party |-> [q \in Party |->
          IF HasParent(p) /\ Parent(p) = q THEN UpDue(p, q)
          ELSE IF HasParent(q) /\ Parent(q) = p THEN DownDue(p, q)
          ELSE {}]]

\* The variables of a party that its progress determines.
LocalInv(p) ==
  /\ Returned(p) <=> Informed(p) /\ \A c \in Children(p) : share2[p].sum[c] = 1
  /\ run[p] = "starting" <=> p = Root /\ ~Seeded(p)
  /\ share1[p] = IF Informed(p) THEN Everybody
                 ELSE IF Seeded(p) THEN Part(p, Added1(p)) ELSE Zero
  /\ share2[p] = IF Informed(p) THEN ShareOf(p, Added2(p)) ELSE [sum |-> Zero, from |-> {}]
  /\ ~Summed(p) => state[p] = Cardinality(Added1(p))
  /\ Summed(p) /\ ~Informed(p) => state[p] = 0
  /\ Informed(p) /\ ~Returned(p) => state[p] = Cardinality(Added2(p))

\* No child is ahead of its parent on the way down, no parent ahead of its
\* children on the way up, and round two begins after round one.
OrderInv ==
  /\ \A p \in Party : \A c \in Children(p) :
        /\ Seeded(c) => Seeded(p)
        /\ share1[p][c] = 1 => Summed(c)
        /\ Informed(c) => Informed(p)
        /\ share2[p].sum[c] = 1 => Returned(c)
  /\ (\E p \in Party : Informed(p)) => \A p \in Party : Summed(p)

KeyInv ==
  rlk = IF Returned(Root) THEN [sum1 |-> Everybody, share2 |-> ShareOf(Root, Children(Root))]
        ELSE NoKey

IInv ==
  /\ TypeOK
  /\ \A p \in Party : LocalInv(p)
  /\ OrderInv
  /\ KeyInv
  /\ Carried(outbox, wire, inbox, Due)
=============================================================================
