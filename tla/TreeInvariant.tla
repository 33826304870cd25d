--------------------------- MODULE TreeInvariant ---------------------------
(***************************************************************************)
(* What the invariants of the two tree protocols share: the sums that a    *)
(* party can have collected from its children, and the places of the       *)
(* message that is due on a link.                                          *)
(*                                                                         *)
(* Every message of these protocols is the answer to another one, so a     *)
(* link never carries more than one message at a time, and the progress of *)
(* its two ends says which.                                                *)
(***************************************************************************)
EXTENDS TreeLinks

\* The pairs <<d, p>> in which d is p or a descendant of p: every way from d up
\* to the root meets p.
WaysUp  == {S \in SUBSET Party : \A x \in S : Parent(x) \in S}
Descent == UNION {{<<d, p>> : p \in {a \in Party : \A S \in WaysUp : d \in S => a \in S}} : d \in Party}

\* The sum of the contribution of p and those of the subtrees of the children
\* in C, and the sum that p sends up.
Part(p, C) == [q \in Party |-> IF q = p \/ (\E c \in C : <<q, c>> \in Descent) THEN 1 ELSE 0]
Whole(p) == Part(p, Children(p))

-----------------------------------------------------------------------------
Holds(s, m) == \E i \in DOMAIN s : s[i] = m

\* The message that is due on a link, if any, is at one of the three places of
\* its way, once, and nothing else is there.
Carries(out, wir, inb, due) ==
  \/ /\ due = {}
     /\ out = <<>> /\ wir = <<>>
  \/ \E m \in due :
        /\ due = {m}
        /\ \/ out = <<m>> /\ wir = <<>> /\ ~Holds(inb, m)
           \/ out = <<>> /\ wir = <<m>> /\ ~Holds(inb, m)
           \/ out = <<>> /\ wir = <<>> /\ Holds(inb, m)

\* All links carry what is due, and a channel of the protocol holds each
\* message once.
Carried(out, wir, inb, due) ==
  /\ \A p, q \in Party : Carries(out[p][q], wir[p][q], inb[q], due[p][q])
  /\ \A q \in Party : \A i \in DOMAIN inb[q] : \E p \in Party : inb[q][i] \in due[p][q]
  /\ \A q \in Party : \A i, j \in DOMAIN inb[q] : inb[q][i] = inb[q][j] => i = j

\* Messages that are due at one party tell their senders apart.
Separate(due) ==
  \A p, r, q \in Party : due[p][q] \cap due[r][q] # {} => p = r
=============================================================================
