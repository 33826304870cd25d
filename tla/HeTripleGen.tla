----------------------------- MODULE HeTripleGen -----------------------------
(***************************************************************************)
(* The pairwise ("he") generation of Beaver triples, apps/tpl/             *)
(* offline_he.go.  Every party is one process with                         *)
(*   - a main goroutine that executes TripleGenProtocol.Run,               *)
(*   - for each peer, a sending goroutine and a receiving goroutine that   *)
(*     BindNetwork starts.                                                 *)
(* A message goes from Run through the channel of its peer (outbox), the   *)
(* sending goroutine, a TCP connection (wire), the receiving goroutine of  *)
(* the peer and the channel tgp.Chan of the peer (inbox).                  *)
(*                                                                         *)
(* Ciphertexts are symbolic: [a |-> p] is the encryption of party p's      *)
(* vector a, and [a |-> p, b |-> q, mask |-> r] is the encryption of       *)
(* a_p * b_q + m, with m the mask that party q sampled for party r.        *)
(***************************************************************************)
EXTENDS TripleParties, Naturals, Sequences

CONSTANTS ChanCap,       \* capacity of every message channel (32 in the code)
          DeadlinesFire  \* may a read wait longer than the 20 s deadline?

ASSUME ChanCapAssumption == ChanCap \in Nat \ {0}
ASSUME DeadlinesAssumption == DeadlinesFire \in BOOLEAN

VARIABLES
  toQuery,       \* toQuery[p]: peers for which Run has not queued its query yet
  outbox,        \* outbox[p][q]: the channel Peers[q].Chan of p
  wire,          \* wire[p][q]: whole messages written by p, not yet read by q
  torn,          \* torn[p][q]: p died in the middle of writing a message to q
  reading,       \* reading[q]: peers whose receiving goroutine still loops at q
  inbox,         \* inbox[p]: the channel tgp.Chan of p
  hasQueried,    \* round.hasQueried
  hasResponded,  \* round.hasResponded
  encAggr,       \* encAggr[p][t]: how often term t was added to round.encAggr
  run,           \* run[p]: has Run of p returned?
  proc           \* the process of p: up, or ended by exit or by a panic

vars == <<toQuery, outbox, wire, torn, reading, inbox, hasQueried,
          hasResponded, encAggr, run, proc>>

-----------------------------------------------------------------------------
(* Messages.                                                               *)

Inputs   == [a : Parties]
Products == [a : Parties, b : Parties, mask : Parties]

QueryMsg(p) == [PartyID |-> p, Query |-> TRUE, Ciphertext |-> [a |-> p]]

\* Faulty: the mask is taken from the own entry of the map.
MaskOfSelf(p, fromPeer, encA) == [a |-> encA.a, b |-> p, mask |-> p]

\* processQuery of party p, asked by fromPeer with the ciphertext encA:
\* multiply by the own b, add the mask sampled for that peer.
ProcessQuery(p, fromPeer, encA) ==
  [a |-> encA.a, b |-> p, mask |-> fromPeer]

\* Faulty: the flag that tells a response from a query is set.
ResponseAsQuery(p, ct) == [PartyID |-> p, Query |-> TRUE, Ciphertext |-> ct]

ResponseMsg(p, ct) == [PartyID |-> p, Query |-> FALSE, Ciphertext |-> ct]

Messages == [PartyID : Parties, Query : {TRUE}, Ciphertext : Inputs]
              \cup [PartyID : Parties, Query : {FALSE}, Ciphertext : Products]

-----------------------------------------------------------------------------
TypeOK ==
  /\ toQuery \in [Parties -> SUBSET Parties]
  /\ outbox \in [Parties -> [Parties -> Seq(Messages)]]
  /\ wire \in [Parties -> [Parties -> Seq(Messages)]]
  /\ torn \in [Parties -> [Parties -> BOOLEAN]]
  /\ reading \in [Parties -> SUBSET Parties]
  /\ inbox \in [Parties -> Seq(Messages)]
  /\ hasQueried \in [Parties -> SUBSET Parties]
  /\ hasResponded \in [Parties -> SUBSET Parties]
  /\ encAggr \in [Parties -> [Products -> Nat]]
  /\ run \in [Parties -> {"listening", "returned"}]
  /\ proc \in [Parties -> {"up", "exited", "panicked"}]

\* The state in which Run has executed genInput and BindNetwork has started
\* the goroutines: masks are sampled, the aggregate is the fresh ciphertext.
Init ==
  /\ toQuery = [p \in Parties |-> Peers(p)]
  /\ outbox = [p \in Parties |-> [q \in Parties |-> <<>>]]
  /\ wire = [p \in Parties |-> [q \in Parties |-> <<>>]]
  /\ torn = [p \in Parties |-> [q \in Parties |-> FALSE]]
  /\ reading = [p \in Parties |-> Peers(p)]
  /\ inbox = [p \in Parties |-> <<>>]
  /\ hasQueried = [p \in Parties |-> {}]
  /\ hasResponded = [p \in Parties |-> {}]
  /\ encAggr = [p \in Parties |-> [t \in Products |-> 0]]
  /\ run = [p \in Parties |-> "listening"]
  /\ proc = [p \in Parties |-> "up"]

Up(p) == proc[p] = "up"

\* Faulty: one peer that is done is enough.
SomeComplete(p, queried, responded) ==
  \E q \in Peers(p) : q \in queried /\ q \in responded

\* Faulty: the own entry of the map is waited for, too.
SelfComplete(p, queried, responded) ==
  \A q \in Parties : q \in queried /\ q \in responded

\* IsComplete over the values the two maps have at the time of the call.
IsComplete(p, queried, responded) ==
  \A q \in Peers(p) : q \in queried /\ q \in responded

-----------------------------------------------------------------------------
(* The main goroutine: TripleGenProtocol.Run.                              *)

\* One iteration of the first loop.  Go ranges over the map Peers in any
\* order, so the next peer is any one that is left.
SendQuery(p, q) ==
  /\ Up(p)
  /\ q \in toQuery[p]
  /\ Len(outbox[p][q]) < ChanCap
  /\ toQuery' = [toQuery EXCEPT ![p] = @ \ {q}]
  /\ outbox' = [outbox EXCEPT ![p][q] = Append(@, QueryMsg(p))]
  /\ UNCHANGED <<wire, torn, reading, inbox, hasQueried, hasResponded,
                 encAggr, run, proc>>

\* Faulty: messages are handled while queries are still to be sent.
ListeningEarly(p) ==
  /\ Up(p)
  /\ run[p] = "listening"
  /\ inbox[p] # <<>>

\* Run is in its message loop and takes the next message from tgp.Chan.
Listening(p) ==
  /\ Up(p)
  /\ run[p] = "listening"
  /\ toQuery[p] = {}
  /\ inbox[p] # <<>>

\* A query: answer it and go on with the loop; the end of the loop, with its
\* call of IsComplete, is skipped.
HandleQuery(p) ==
  /\ Listening(p)
  /\ LET m == Head(inbox[p])
         q == m.PartyID
         response == ResponseMsg(p, ProcessQuery(p, q, m.Ciphertext))
     IN  /\ m.Query
         /\ Len(outbox[p][q]) < ChanCap
         /\ hasQueried' = [hasQueried EXCEPT ![p] = @ \cup {q}]
         /\ outbox' = [outbox EXCEPT ![p][q] = Append(@, response)]
  /\ inbox' = [inbox EXCEPT ![p] = Tail(@)]
  /\ UNCHANGED <<toQuery, wire, torn, reading, hasResponded, encAggr, run, proc>>

\* A response: add it to the aggregate; leave the loop, decrypt and return
\* if the round is complete.
HandleResponse(p) ==
  /\ Listening(p)
  /\ LET m == Head(inbox[p])
         q == m.PartyID
     IN  /\ ~m.Query
         /\ hasResponded' = [hasResponded EXCEPT ![p] = @ \cup {q}]
         /\ encAggr' = [encAggr EXCEPT ![p][m.Ciphertext] = @ + 1]
         /\ run' = [run EXCEPT ![p] =
                      IF IsComplete(p, hasQueried[p], hasResponded[p] \cup {q})
                      THEN "returned" ELSE @]
  /\ inbox' = [inbox EXCEPT ![p] = Tail(@)]
  /\ UNCHANGED <<toQuery, outbox, wire, torn, reading, hasQueried, proc>>

-----------------------------------------------------------------------------
(* The goroutines of BindNetwork.                                          *)

\* The sending goroutine writes the next message of its channel.  Bytes
\* written to a peer that has died are accepted by the kernel and lost.
Send(p, q) ==
  /\ Up(p)
  /\ outbox[p][q] # <<>>
  /\ outbox' = [outbox EXCEPT ![p][q] = Tail(@)]
  /\ wire' = [wire EXCEPT ![p][q] = Append(@, Head(outbox[p][q]))]
  /\ UNCHANGED <<toQuery, torn, reading, inbox, hasQueried, hasResponded,
                 encAggr, run, proc>>

\* The receiving goroutine of q for peer p reads one message and puts it
\* into tgp.Chan; it blocks while that channel is full.
Receive(q, p) ==
  /\ Up(q)
  /\ p \in reading[q]
  /\ wire[p][q] # <<>>
  /\ Len(inbox[q]) < ChanCap
  /\ wire' = [wire EXCEPT ![p][q] = Tail(@)]
  /\ inbox' = [inbox EXCEPT ![q] = Append(@, Head(wire[p][q]))]
  /\ UNCHANGED <<toQuery, outbox, torn, reading, hasQueried, hasResponded,
                 encAggr, run, proc>>

\* End of file between two messages: the receiving goroutine returns.
ReceiveEOF(q, p) ==
  /\ Up(q)
  /\ p \in reading[q]
  /\ ~Up(p)
  /\ wire[p][q] = <<>>
  /\ ~torn[p][q]
  /\ reading' = [reading EXCEPT ![q] = @ \ {p}]
  /\ UNCHANGED <<toQuery, outbox, wire, torn, inbox, hasQueried, hasResponded,
                 encAggr, run, proc>>

-----------------------------------------------------------------------------
(* The end of a process.  All its goroutines stop where they are: what is  *)
(* left in its outboxes is never written, and a sending goroutine that was *)
(* at work leaves a part of its message on the wire.                       *)

End(p, how) ==
  /\ proc' = [proc EXCEPT ![p] = how]
  /\ \E cut \in SUBSET {q \in Peers(p) : outbox[p][q] # <<>>} :
        torn' = [torn EXCEPT ![p] = [q \in Parties |-> q \in cut]]
  /\ UNCHANGED <<toQuery, outbox, wire, reading, inbox, hasQueried,
                 hasResponded, encAggr, run>>

\* ClientHETripleGen drains Triples, prints and returns from main; nothing
\* waits for the sending goroutines.
Exit(p) ==
  /\ Up(p)
  /\ run[p] = "returned"
  /\ End(p, "exited")

\* A read fails and check(err) panics: the deadline has passed, the peer
\* died with bytes of q unread (connection reset), or it died in the middle
\* of a message (unexpected EOF).
ReadFails(q, p) ==
  /\ Up(q)
  /\ p \in reading[q]
  /\ \/ DeadlinesFire
     \/ ~Up(p) /\ wire[q][p] # <<>>
     \/ ~Up(p) /\ wire[p][q] = <<>> /\ torn[p][q]
  /\ End(q, "panicked")

\* A write to a peer that has died may fail, and check(err) panics.
WriteFails(p, q) ==
  /\ Up(p)
  /\ ~Up(q)
  /\ outbox[p][q] # <<>>
  /\ End(p, "panicked")

-----------------------------------------------------------------------------
Step(p) ==
  \/ HandleQuery(p)
  \/ HandleResponse(p)
  \/ Exit(p)
  \/ \E q \in Peers(p) :
        \/ SendQuery(p, q)
        \/ Send(p, q)
        \/ Receive(p, q)
        \/ ReceiveEOF(p, q)
        \/ ReadFails(p, q)
        \/ WriteFails(p, q)

Next == \E p \in Parties : Step(p)

Spec == Init /\ [][Next]_vars

\* The Go scheduler runs every goroutine that can run, and TCP delivers what
\* was written while both processes are up.  Failures are never forced.
Fairness ==
  \A p \in Parties :
     /\ WF_vars(HandleQuery(p)) /\ WF_vars(HandleResponse(p))
     /\ WF_vars(Exit(p))
     /\ \A q \in Peers(p) : /\ WF_vars(SendQuery(p, q))
                            /\ WF_vars(Send(p, q))
                            /\ WF_vars(Receive(p, q))
                            /\ WF_vars(ReceiveEOF(p, q))

FairSpec == Spec /\ Fairness

-----------------------------------------------------------------------------
(* Properties.                                                             *)

\* Run calls IsComplete only after a response (the query branch continues
\* the loop).  That is enough only if the query of a peer is always handled
\* before its response: else the last message of a round could be a query.
QueryBeforeResponse == \A p \in Parties : hasResponded[p] \subseteq hasQueried[p]

\* A party whose round is complete has left the loop: it never goes on
\* waiting for a message that will not come.
CompletionNotMissed ==
  \A p \in Parties :
     run[p] = "listening" /\ Peers(p) # {}
       => ~IsComplete(p, hasQueried[p], hasResponded[p])

\* The comment of decryptTriples, [c] = c' + sum([a_self] * [b_j] + m_j):
\* when Run returns, the aggregate holds for every peer q exactly once the
\* term of q with the own a and the mask of q for this party, nothing else.
AggregateExact ==
  \A p \in Parties : run[p] = "returned" =>
     \A t \in Products :
        encAggr[p][t] = IF t.a = p /\ t.mask = p /\ t.b # p THEN 1 ELSE 0

\* Every query of a peer has been taken from the channel and answered when
\* Run returns: none is left where nobody will read it.
NoQueryLeftBehind ==
  \A p \in Parties : run[p] = "returned" =>
     /\ \A i \in DOMAIN inbox[p] : ~inbox[p][i].Query
     /\ \A q \in Peers(p) : /\ \A i \in DOMAIN wire[q][p] : ~wire[q][p][i].Query
                            /\ \A i \in DOMAIN outbox[q][p] : ~outbox[q][p][i].Query

\* The protocol implements the exchange of TripleExchange: every query that
\* is handled is one answer, every response one use of an answer, and Run
\* returns in the very step that uses the last one.
Exchange == INSTANCE TripleExchange WITH
  answered <- hasQueried,
  received <- hasResponded,
  finished <- {p \in Parties : run[p] = "returned"}

ImplementsExchange == Exchange!ExchangeSpec

\* A party has finished with success, and its process has ended with a
\* message still in one of its outboxes.
LostMessage ==
  \E p \in Parties : proc[p] = "exited" /\ \E q \in Peers(p) : outbox[p][q] # <<>>

\* When no read waits for 20 s, every panic goes back to a party that exited
\* with success before its sending goroutines had written everything: neither
\* the end of a party whose messages are all out nor the panic of a party can
\* be the first cause.
PanicOnlyAfterLoss ==
  (~DeadlinesFire /\ \E p \in Parties : proc[p] = "panicked") => LostMessage

\* When no read waits for 20 s, every party returns from Run unless some
\* process exits right after its own Run with a message unsent.
AllReturnOrLoss ==
  <>((\A p \in Parties : run[p] = "returned") \/ LostMessage)

\* What the README leads to expect of an experiment whose containers run and
\* whose connections nobody resets: every party gets its triples.
EveryPartyFinishes == <>(\A p \in Parties : run[p] = "returned")
=============================================================================
