------------------------ MODULE HeTripleGenInvariant ------------------------
(***************************************************************************)
(* The inductive invariant behind the safety properties of HeTripleGen.    *)
(*                                                                         *)
(* Between two parties p and q travel two messages of p: its query and its *)
(* response to the query of q.  Each is at exactly one place of the way    *)
(*     not sent -> outbox -> wire -> inbox -> handled                      *)
(* and the query stays ahead of the response.  Everything else follows     *)
(* from these two facts.                                                   *)
(***************************************************************************)
EXTENDS HeTripleGen

Has(s, m)  == \E i \in DOMAIN s : s[i] = m
Once(s, m) == \A i, j \in DOMAIN s : s[i] = m /\ s[j] = m => i = j
\* In s, no m follows an n.
Before(s, m, n) == \A i, j \in DOMAIN s : s[i] = m /\ s[j] = n => i < j

\* The response that p gives to the query of q.
Answer(p, q) == ResponseMsg(p, ProcessQuery(p, q, [a |-> q]))

-----------------------------------------------------------------------------
(* The messages of p on their way to q.                                    *)

Sent(p, q) == {QueryMsg(p), Answer(p, q)}

Contents(p, q) == outbox[p][q] \in Seq(Sent(p, q)) /\ wire[p][q] \in Seq(Sent(p, q))

InboxContents(q) == inbox[q] \in Seq(UNION {Sent(p, q) : p \in Peers(q)})

NoCopies(p, q) ==
  \A m \in Sent(p, q) :
     Once(outbox[p][q], m) /\ Once(wire[p][q], m) /\ Once(inbox[q], m)

\* The query is at exactly one place.
QueryPlace(p, q) ==
  LET toSend  == q \in toQuery[p]
      queued  == Has(outbox[p][q], QueryMsg(p))
      written == Has(wire[p][q], QueryMsg(p))
      arrived == Has(inbox[q], QueryMsg(p))
      handled == p \in hasQueried[q]
  IN  /\ toSend \/ queued \/ written \/ arrived \/ handled
      /\ toSend => ~queued /\ ~written /\ ~arrived /\ ~handled
      /\ queued => ~written /\ ~arrived /\ ~handled
      /\ written => ~arrived /\ ~handled
      /\ arrived => ~handled

\* So is the response, which exists once p has handled the query of q.
AnswerPlace(p, q) ==
  LET toSend  == q \notin hasQueried[p]
      queued  == Has(outbox[p][q], Answer(p, q))
      written == Has(wire[p][q], Answer(p, q))
      arrived == Has(inbox[q], Answer(p, q))
      handled == p \in hasResponded[q]
  IN  /\ toSend \/ queued \/ written \/ arrived \/ handled
      /\ toSend => ~queued /\ ~written /\ ~arrived /\ ~handled
      /\ queued => ~written /\ ~arrived /\ ~handled
      /\ written => ~arrived /\ ~handled
      /\ arrived => ~handled

\* The response never overtakes the query.
Order(p, q) ==
  LET Q == QueryMsg(p)
      A == Answer(p, q)
  IN  /\ Before(outbox[p][q], Q, A)
      /\ Before(wire[p][q], Q, A)
      /\ Before(inbox[q], Q, A)
      /\ q \in hasQueried[p] => q \notin toQuery[p]
      /\ Has(wire[p][q], A) => ~Has(outbox[p][q], Q)
      /\ Has(inbox[q], A) => ~Has(outbox[p][q], Q) /\ ~Has(wire[p][q], Q)
      /\ p \in hasResponded[q] => p \in hasQueried[q]

Pair(p, q) == /\ Contents(p, q)
              /\ NoCopies(p, q)
              /\ QueryPlace(p, q)
              /\ AnswerPlace(p, q)
              /\ Order(p, q)

PairInv == \A p \in Parties : \A q \in Peers(p) : Pair(p, q)

-----------------------------------------------------------------------------
(* A party on its own.                                                     *)

\* What has been added to the aggregate.
Aggregate(p) ==
  \A t \in Products :
     encAggr[p][t] = IF t.a = p /\ t.mask = p /\ t.b \in hasResponded[p] THEN 1 ELSE 0

LocalInv == \A p \in Parties :
  /\ InboxContents(p)
  /\ Aggregate(p)
  /\ p \notin toQuery[p] /\ p \notin hasQueried[p] /\ p \notin hasResponded[p]
  /\ toQuery[p] # {} => run[p] = "listening" /\ hasQueried[p] = {}
  /\ run[p] = "returned" => IsComplete(p, hasQueried[p], hasResponded[p])
  /\ proc[p] = "exited" => run[p] = "returned"
  /\ \A q \in Parties : torn[p][q] => ~Up(p) /\ q # p /\ outbox[p][q] # <<>>

IInv == TypeOK /\ PairInv /\ LocalInv /\ CompletionNotMissed /\ PanicOnlyAfterLoss
=============================================================================
