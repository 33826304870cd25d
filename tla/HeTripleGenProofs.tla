------------------------- MODULE HeTripleGenProofs -------------------------
(***************************************************************************)
(* Proofs that the safety properties of HeTripleGen hold for every set of  *)
(* parties, every channel capacity, with and without deadlines; and, in    *)
(* the last part, that the values of TripleShares are shares of products   *)
(* for every finite set of parties, every modulus and every sample.        *)
(***************************************************************************)
EXTENDS HeTripleGenInvariant, TripleSharesInvariant, SequenceTheorems, FiniteSetTheorems,
        WellFoundedInduction, TLAPS

-----------------------------------------------------------------------------
(* What Append and Tail do to Has, Once and Before.                        *)

\* A sequence has m after Append exactly if it had it or m is the new element.
LEMMA HasAppend ==
  ASSUME NEW S, NEW s \in Seq(S), NEW e \in S, NEW m
  PROVE  Has(Append(s, e), m) <=> Has(s, m) \/ m = e
<1>1. /\ Len(Append(s, e)) = Len(s) + 1
      /\ \A i \in 1 .. Len(s) : Append(s, e)[i] = s[i]
      /\ Append(s, e)[Len(s) + 1] = e
      /\ DOMAIN Append(s, e) = 1 .. Len(s) + 1
      /\ DOMAIN s = 1 .. Len(s)
      /\ Len(s) \in Nat
  BY AppendProperties, LenProperties
<1>. QED BY <1>1 DEF Has

\* Taking the head away.
LEMMA HasTail ==
  ASSUME NEW S, NEW s \in Seq(S), s # <<>>, NEW m
  PROVE  Has(s, m) <=> m = Head(s) \/ Has(Tail(s), m)
<1>1. /\ Len(s) \in Nat \ {0}
      /\ DOMAIN s = 1 .. Len(s)
      /\ Head(s) = s[1]
      /\ Len(Tail(s)) = Len(s) - 1
      /\ DOMAIN Tail(s) = 1 .. Len(s) - 1
      /\ \A i \in 1 .. Len(s) - 1 : Tail(s)[i] = s[i + 1]
  BY HeadTailProperties, LenProperties, EmptySeq
<1>2. ASSUME Has(s, m), m # Head(s) PROVE Has(Tail(s), m)
  <2>1. PICK i \in 1 .. Len(s) : s[i] = m
    BY <1>1, <1>2 DEF Has
  <2>2. i # 1 /\ i - 1 \in 1 .. Len(s) - 1 /\ Tail(s)[i - 1] = m
    BY <1>1, <1>2, <2>1
  <2>. QED BY <1>1, <2>2 DEF Has
<1>3. ASSUME Has(Tail(s), m) PROVE Has(s, m)
  <2>1. PICK i \in 1 .. Len(s) - 1 : Tail(s)[i] = m
    BY <1>1, <1>3 DEF Has
  <2>2. i + 1 \in 1 .. Len(s) /\ s[i + 1] = m
    BY <1>1, <2>1
  <2>. QED BY <1>1, <2>2 DEF Has
<1>4. m = Head(s) => Has(s, m)
  BY <1>1 DEF Has
<1>. QED BY <1>2, <1>3, <1>4

LEMMA OnceAppend ==
  ASSUME NEW S, NEW s \in Seq(S), NEW e \in S, NEW m, Once(s, m), m = e => ~Has(s, m)
  PROVE  Once(Append(s, e), m)
<1>1. /\ \A i \in 1 .. Len(s) : Append(s, e)[i] = s[i]
      /\ Append(s, e)[Len(s) + 1] = e
      /\ DOMAIN Append(s, e) = 1 .. Len(s) + 1
      /\ DOMAIN s = 1 .. Len(s)
      /\ Len(s) \in Nat
  BY AppendProperties, LenProperties
<1>. QED BY <1>1 DEF Has, Once

\* The head of a sequence without copies does not come again.
LEMMA OnceTail ==
  ASSUME NEW S, NEW s \in Seq(S), s # <<>>, NEW m, Once(s, m)
  PROVE  Once(Tail(s), m) /\ (m = Head(s) => ~Has(Tail(s), m))
<1>1. /\ Len(s) \in Nat \ {0}
      /\ DOMAIN s = 1 .. Len(s)
      /\ Head(s) = s[1]
      /\ DOMAIN Tail(s) = 1 .. Len(s) - 1
      /\ \A i \in 1 .. Len(s) - 1 : Tail(s)[i] = s[i + 1]
  BY HeadTailProperties, LenProperties, EmptySeq
<1>. QED BY <1>1 DEF Has, Once

LEMMA BeforeAppend ==
  ASSUME NEW S, NEW s \in Seq(S), NEW e \in S, NEW m, NEW n, m # n,
         Before(s, m, n), m = e => ~Has(s, n)
  PROVE  Before(Append(s, e), m, n)
<1>1. /\ \A i \in 1 .. Len(s) : Append(s, e)[i] = s[i]
      /\ Append(s, e)[Len(s) + 1] = e
      /\ DOMAIN Append(s, e) = 1 .. Len(s) + 1
      /\ DOMAIN s = 1 .. Len(s)
      /\ Len(s) \in Nat
  BY AppendProperties, LenProperties
<1>. QED BY <1>1 DEF Has, Before

\* If n is at the head and m comes before n, there is no m.
LEMMA BeforeTail ==
  ASSUME NEW S, NEW s \in Seq(S), s # <<>>, NEW m, NEW n, m # n, Before(s, m, n)
  PROVE  Before(Tail(s), m, n) /\ (n = Head(s) => ~Has(s, m))
<1>1. /\ Len(s) \in Nat \ {0}
      /\ DOMAIN s = 1 .. Len(s)
      /\ Head(s) = s[1]
      /\ DOMAIN Tail(s) = 1 .. Len(s) - 1
      /\ \A i \in 1 .. Len(s) - 1 : Tail(s)[i] = s[i + 1]
  BY HeadTailProperties, LenProperties, EmptySeq
<1>. QED BY <1>1 DEF Has, Before

-----------------------------------------------------------------------------
(* Type correctness.                                                       *)

LEMMA MessageTypes ==
  ASSUME NEW p \in Parties, NEW q \in Parties
  PROVE  /\ QueryMsg(p) \in Messages
         /\ Answer(p, q) \in Messages
         /\ QueryMsg(p) # Answer(p, q)
BY DEF QueryMsg, Answer, ResponseMsg, ProcessQuery, Messages, Inputs, Products

LEMMA TypeInit == Init => TypeOK
<1>. SUFFICES ASSUME Init PROVE TypeOK
  OBVIOUS
<1>. <<>> \in Seq(Messages)
  OBVIOUS
<1>. QED BY DEF Init, TypeOK, Peers

\* Taking the next message from the inbox.
LEMMA InboxType ==
  ASSUME TypeOK, NEW p \in Parties, inbox[p] # <<>>
  PROVE  /\ Head(inbox[p]) \in Messages
         /\ Head(inbox[p]).PartyID \in Parties
         /\ Head(inbox[p]).Query \in BOOLEAN
         /\ Head(inbox[p]).Query => Head(inbox[p]).Ciphertext \in Inputs
         /\ ~Head(inbox[p]).Query => Head(inbox[p]).Ciphertext \in Products
         /\ Tail(inbox[p]) \in Seq(Messages)
<1>1. inbox[p] \in Seq(Messages)
  BY DEF TypeOK
<1>2. Head(inbox[p]) \in Messages /\ Tail(inbox[p]) \in Seq(Messages)
  BY <1>1, HeadTailProperties
<1>3. ASSUME NEW m \in Messages
      PROVE  /\ m.PartyID \in Parties /\ m.Query \in BOOLEAN
             /\ m.Query => m.Ciphertext \in Inputs
             /\ ~m.Query => m.Ciphertext \in Products
  BY <1>3 DEF Messages
<1>. QED BY <1>2, <1>3

\* A process that ends changes nothing but its status and its torn messages.
LEMMA TypeEnd ==
  ASSUME TypeOK, NEW p \in Parties, NEW how \in {"exited", "panicked"}, End(p, how)
  PROVE  TypeOK'
<1>1. proc' \in [Parties -> {"up", "exited", "panicked"}]
  BY DEF TypeOK, End
<1>2. torn' \in [Parties -> [Parties -> BOOLEAN]]
  <2>1. PICK cut : torn' = [torn EXCEPT ![p] = [q \in Parties |-> q \in cut]]
    BY DEF End
  <2>2. [q \in Parties |-> q \in cut] \in [Parties -> BOOLEAN]
    OBVIOUS
  <2>3. torn \in [Parties -> [Parties -> BOOLEAN]]
    BY DEF TypeOK
  <2>. QED BY <2>1, <2>2, <2>3, Zenon
<1>. QED BY <1>1, <1>2 DEF TypeOK, End

LEMMA TypeNext == TypeOK /\ [Next]_vars => TypeOK'
<1>. SUFFICES ASSUME TypeOK, [Next]_vars PROVE TypeOK'
  OBVIOUS
<1>1. ASSUME NEW p \in Parties, HandleQuery(p) PROVE TypeOK'
  <2>. DEFINE m == Head(inbox[p])
              q == m.PartyID
              answer == ResponseMsg(p, ProcessQuery(p, q, m.Ciphertext))
  <2>1. q \in Parties /\ m.Ciphertext \in Inputs /\ Tail(inbox[p]) \in Seq(Messages)
    BY <1>1, InboxType DEF HandleQuery, Listening
  <2>2. answer \in Messages
    BY <2>1 DEF ResponseMsg, ProcessQuery, Messages, Inputs, Products
  <2>3. /\ hasQueried' = [hasQueried EXCEPT ![p] = @ \cup {q}]
        /\ outbox' = [outbox EXCEPT ![p][q] = Append(@, answer)]
        /\ inbox' = [inbox EXCEPT ![p] = Tail(@)]
    BY <1>1 DEF HandleQuery
  <2>. HIDE DEF m, q, answer
  <2>4. hasQueried' \in [Parties -> SUBSET Parties]
    BY <2>1, <2>3 DEF TypeOK
  <2>5. outbox' \in [Parties -> [Parties -> Seq(Messages)]]
    <3>. outbox[p][q] \in Seq(Messages)
      BY <2>1 DEF TypeOK
    <3>. Append(outbox[p][q], answer) \in Seq(Messages)
      BY <2>2, AppendProperties
    <3>. QED BY <2>1, <2>3 DEF TypeOK
  <2>6. inbox' \in [Parties -> Seq(Messages)]
    BY <2>1, <2>3 DEF TypeOK
  <2>. QED BY <1>1, <2>4, <2>5, <2>6 DEF TypeOK, HandleQuery
<1>2. ASSUME NEW p \in Parties, HandleResponse(p) PROVE TypeOK'
  <2>. DEFINE m == Head(inbox[p])
              q == m.PartyID
  <2>1. q \in Parties /\ m.Ciphertext \in Products /\ Tail(inbox[p]) \in Seq(Messages)
    BY <1>2, InboxType DEF HandleResponse, Listening
  <2>2. /\ hasResponded' = [hasResponded EXCEPT ![p] = @ \cup {q}]
        /\ encAggr' = [encAggr EXCEPT ![p][m.Ciphertext] = @ + 1]
        /\ inbox' = [inbox EXCEPT ![p] = Tail(@)]
        /\ \E done : run' = [run EXCEPT ![p] = IF done THEN "returned" ELSE @]
    BY <1>2 DEF HandleResponse
  <2>. HIDE DEF m, q
  <2>3. hasResponded' \in [Parties -> SUBSET Parties]
    BY <2>1, <2>2 DEF TypeOK
  <2>4. encAggr' \in [Parties -> [Products -> Nat]]
    BY <2>1, <2>2 DEF TypeOK
  <2>5. inbox' \in [Parties -> Seq(Messages)]
    BY <2>1, <2>2 DEF TypeOK
  <2>6. run' \in [Parties -> {"listening", "returned"}]
    BY <2>2 DEF TypeOK
  <2>. QED BY <1>2, <2>3, <2>4, <2>5, <2>6 DEF TypeOK, HandleResponse
<1>3. ASSUME NEW p \in Parties, Exit(p) PROVE TypeOK'
  BY <1>3, TypeEnd DEF Exit
<1>4. ASSUME NEW p \in Parties, NEW q \in Peers(p), SendQuery(p, q) PROVE TypeOK'
  <2>1. q \in Parties /\ QueryMsg(p) \in Messages
    BY MessageTypes DEF Peers
  <2>2. Append(outbox[p][q], QueryMsg(p)) \in Seq(Messages)
    BY <2>1, AppendProperties DEF TypeOK
  <2>3. outbox' \in [Parties -> [Parties -> Seq(Messages)]]
    BY <1>4, <2>1, <2>2 DEF TypeOK, SendQuery
  <2>4. toQuery' \in [Parties -> SUBSET Parties]
    BY <1>4 DEF TypeOK, SendQuery
  <2>. QED BY <1>4, <2>3, <2>4 DEF TypeOK, SendQuery
<1>5. ASSUME NEW p \in Parties, NEW q \in Peers(p), Send(p, q) PROVE TypeOK'
  <2>1. q \in Parties /\ outbox[p][q] \in Seq(Messages) /\ wire[p][q] \in Seq(Messages)
    BY DEF TypeOK, Peers
  <2>2. Head(outbox[p][q]) \in Messages /\ Tail(outbox[p][q]) \in Seq(Messages)
    BY <1>5, <2>1, HeadTailProperties DEF Send
  <2>3. Append(wire[p][q], Head(outbox[p][q])) \in Seq(Messages)
    BY <2>1, <2>2, AppendProperties
  <2>4. wire' \in [Parties -> [Parties -> Seq(Messages)]]
    BY <1>5, <2>1, <2>3 DEF TypeOK, Send
  <2>5. outbox' \in [Parties -> [Parties -> Seq(Messages)]]
    BY <1>5, <2>1, <2>2 DEF TypeOK, Send
  <2>. QED BY <1>5, <2>4, <2>5 DEF TypeOK, Send
<1>6. ASSUME NEW q \in Parties, NEW p \in Peers(q), Receive(q, p) PROVE TypeOK'
  <2>1. p \in Parties /\ wire[p][q] \in Seq(Messages) /\ inbox[q] \in Seq(Messages)
    BY DEF TypeOK, Peers
  <2>2. Head(wire[p][q]) \in Messages /\ Tail(wire[p][q]) \in Seq(Messages)
    BY <1>6, <2>1, HeadTailProperties DEF Receive
  <2>3. Append(inbox[q], Head(wire[p][q])) \in Seq(Messages)
    BY <2>1, <2>2, AppendProperties
  <2>4. wire' \in [Parties -> [Parties -> Seq(Messages)]]
    BY <1>6, <2>1, <2>2 DEF TypeOK, Receive
  <2>5. inbox' \in [Parties -> Seq(Messages)]
    BY <1>6, <2>3 DEF TypeOK, Receive
  <2>. QED BY <1>6, <2>4, <2>5 DEF TypeOK, Receive
<1>7. ASSUME NEW q \in Parties, NEW p \in Peers(q), ReceiveEOF(q, p) PROVE TypeOK'
  BY <1>7 DEF TypeOK, ReceiveEOF, Peers
<1>8. ASSUME NEW q \in Parties, NEW p \in Peers(q), ReadFails(q, p) PROVE TypeOK'
  BY <1>8, TypeEnd DEF ReadFails
<1>9. ASSUME NEW p \in Parties, NEW q \in Peers(p), WriteFails(p, q) PROVE TypeOK'
  BY <1>9, TypeEnd DEF WriteFails
<1>10. ASSUME UNCHANGED vars PROVE TypeOK'
  BY <1>10 DEF TypeOK, vars
<1>. QED BY <1>1, <1>2, <1>3, <1>4, <1>5, <1>6, <1>7, <1>8, <1>9, <1>10 DEF Next, Step

\* All variables keep their types: in particular every message that is
\* handled names one of the parties and carries a ciphertext of its kind.
THEOREM TypeCorrect == Spec => []TypeOK
BY TypeInit, TypeNext, PTL DEF Spec

-----------------------------------------------------------------------------
(* The way of the two messages of a pair.                                  *)

\* All messages are different.
LEMMA Distinct ==
  ASSUME NEW p, NEW q, NEW r, NEW t
  PROVE  /\ QueryMsg(p) = QueryMsg(r) <=> p = r
         /\ QueryMsg(p) # Answer(r, q)
         /\ Answer(p, q) = Answer(r, t) <=> p = r /\ q = t
BY DEF QueryMsg, Answer, ResponseMsg, ProcessQuery

\* Nothing has happened to the messages of p to q.
LEMMA PairFrame ==
  ASSUME NEW p, NEW q, Pair(p, q),
         outbox'[p][q] = outbox[p][q],
         wire'[p][q] = wire[p][q],
         \A m \in Sent(p, q) : /\ Has(inbox'[q], m) <=> Has(inbox[q], m)
                               /\ Once(inbox'[q], m),
         Before(inbox'[q], QueryMsg(p), Answer(p, q)),
         q \in toQuery'[p] <=> q \in toQuery[p],
         p \in hasQueried'[q] <=> p \in hasQueried[q],
         q \in hasQueried'[p] <=> q \in hasQueried[p],
         p \in hasResponded'[q] <=> p \in hasResponded[q]
  PROVE  Pair(p, q)'
<1>1. /\ Has(inbox'[q], QueryMsg(p)) <=> Has(inbox[q], QueryMsg(p))
      /\ Has(inbox'[q], Answer(p, q)) <=> Has(inbox[q], Answer(p, q))
  BY DEF Sent
<1>2. Contents(p, q)' /\ NoCopies(p, q)'
  BY DEF Pair, Contents, NoCopies
<1>3. QueryPlace(p, q)'
  BY <1>1 DEF Pair, QueryPlace
<1>4. AnswerPlace(p, q)'
  BY <1>1 DEF Pair, AnswerPlace
<1>5. Order(p, q)'
  BY <1>1 DEF Pair, Order
<1>. QED BY <1>2, <1>3, <1>4, <1>5 DEF Pair

\* Only the inbox of q has changed, by a message of another party than p.
LEMMA PairInboxAppend ==
  ASSUME NEW S, NEW p, NEW q, NEW e \in S, inbox[q] \in Seq(S), Pair(p, q), e \notin Sent(p, q),
         inbox'[q] = Append(inbox[q], e),
         outbox'[p][q] = outbox[p][q],
         wire'[p][q] = wire[p][q],
         UNCHANGED <<toQuery, hasQueried, hasResponded>>
  PROVE  Pair(p, q)'
<1>1. ASSUME NEW m \in Sent(p, q)
      PROVE  (Has(inbox'[q], m) <=> Has(inbox[q], m)) /\ Once(inbox'[q], m)
  <2>1. m # e /\ Once(inbox[q], m)
    BY DEF Pair, NoCopies
  <2>. QED BY <2>1, HasAppend, OnceAppend
<1>2. Before(inbox'[q], QueryMsg(p), Answer(p, q))
  <2>1. e # QueryMsg(p) /\ QueryMsg(p) # Answer(p, q) /\ Before(inbox[q], QueryMsg(p), Answer(p, q))
    BY Distinct DEF Pair, Order, Sent
  <2>. QED BY <2>1, BeforeAppend
<1>. QED BY <1>1, <1>2, PairFrame

LEMMA PairInboxTail ==
  ASSUME NEW S, NEW p, NEW q, inbox[q] \in Seq(S), inbox[q] # <<>>,
         Pair(p, q), Head(inbox[q]) \notin Sent(p, q),
         inbox'[q] = Tail(inbox[q]),
         outbox'[p][q] = outbox[p][q],
         wire'[p][q] = wire[p][q],
         toQuery' = toQuery,
         p \in hasQueried'[q] <=> p \in hasQueried[q],
         q \in hasQueried'[p] <=> q \in hasQueried[p],
         p \in hasResponded'[q] <=> p \in hasResponded[q]
  PROVE  Pair(p, q)'
<1>1. ASSUME NEW m \in Sent(p, q)
      PROVE  (Has(inbox'[q], m) <=> Has(inbox[q], m)) /\ Once(inbox'[q], m)
  <2>1. m # Head(inbox[q]) /\ Once(inbox[q], m)
    BY DEF Pair, NoCopies
  <2>. QED BY <2>1, HasTail, OnceTail
<1>2. Before(inbox'[q], QueryMsg(p), Answer(p, q))
  <2>1. QueryMsg(p) # Answer(p, q) /\ Before(inbox[q], QueryMsg(p), Answer(p, q))
    BY Distinct DEF Pair, Order
  <2>. QED BY <2>1, BeforeTail
<1>. QED BY <1>1, <1>2, PairFrame

\* All types that the steps of a pair need.
LEMMA PairTypes ==
  ASSUME TypeOK, PairInv, LocalInv, NEW p \in Parties, NEW q \in Peers(p)
  PROVE  /\ q \in Parties /\ p \in Peers(q) /\ p # q
         /\ Pair(p, q)
         /\ Pair(q, p)
         /\ outbox[p][q] \in Seq(Sent(p, q))
         /\ wire[p][q] \in Seq(Sent(p, q))
         /\ inbox[q] \in Seq(UNION {Sent(r, q) : r \in Peers(q)})
BY DEF PairInv, LocalInv, InboxContents, Pair, Contents, Peers

LEMMA PairSendQuery ==
  ASSUME TypeOK, PairInv, LocalInv, NEW p \in Parties, NEW q \in Peers(p), SendQuery(p, q)
  PROVE  PairInv'
<1>. DEFINE Q == QueryMsg(p)
            A == Answer(p, q)
<1>1. Pair(p, q)'
  <2>1. /\ outbox'[p][q] = Append(outbox[p][q], Q)
        /\ wire'[p][q] = wire[p][q] /\ inbox'[q] = inbox[q]
        /\ q \in toQuery[p] /\ q \notin toQuery'[p]
        /\ hasQueried' = hasQueried /\ hasResponded' = hasResponded
    BY PairTypes DEF SendQuery, TypeOK
  <2>2. Q # A /\ Q \in Sent(p, q) /\ A \in Sent(p, q)
    BY Distinct DEF Sent
  <2>3. Pair(p, q) /\ outbox[p][q] \in Seq(Sent(p, q))
    BY PairTypes
  <2>4. ~Has(outbox[p][q], Q) /\ ~Has(outbox[p][q], A) /\ q \notin hasQueried[p]
    BY <2>1, <2>3 DEF Pair, QueryPlace, AnswerPlace, Order
  <2>5. /\ Has(outbox'[p][q], Q)
        /\ ~Has(outbox'[p][q], A)
    BY <2>1, <2>2, <2>3, <2>4, HasAppend
  <2>6. \A m \in Sent(p, q) : Once(outbox'[p][q], m)
    <3>. SUFFICES ASSUME NEW m \in Sent(p, q) PROVE Once(outbox'[p][q], m)
      OBVIOUS
    <3>. Once(outbox[p][q], m)
      BY <2>3 DEF Pair, NoCopies
    <3>. QED BY <2>1, <2>2, <2>3, <2>4, OnceAppend DEF Sent
  <2>7. Before(outbox'[p][q], Q, A)
    <3>. Before(outbox[p][q], Q, A)
      BY <2>3 DEF Pair, Order
    <3>. QED BY <2>1, <2>2, <2>3, <2>4, BeforeAppend
  <2>8. Contents(p, q)'
    BY <2>1, <2>2, <2>3, AppendProperties DEF Pair, Contents
  <2>9. NoCopies(p, q)'
    BY <2>1, <2>3, <2>6 DEF Pair, NoCopies
  <2>10. QueryPlace(p, q)'
    BY <2>1, <2>3, <2>5 DEF Pair, QueryPlace
  <2>11. AnswerPlace(p, q)'
    BY <2>1, <2>3, <2>4, <2>5 DEF Pair, AnswerPlace
  <2>12. Order(p, q)'
    BY <2>1, <2>3, <2>4, <2>7 DEF Pair, Order, AnswerPlace
  <2>. QED BY <2>8, <2>9, <2>10, <2>11, <2>12 DEF Pair
<1>2. ASSUME NEW r \in Parties, NEW t \in Peers(r), <<r, t>> # <<p, q>>
      PROVE  Pair(r, t)'
  <2>1. /\ outbox'[r][t] = outbox[r][t] /\ wire' = wire /\ inbox' = inbox
        /\ t \in toQuery'[r] <=> t \in toQuery[r]
        /\ hasQueried' = hasQueried /\ hasResponded' = hasResponded
    BY <1>2, PairTypes DEF SendQuery, TypeOK
  <2>2. Pair(r, t)
    BY PairTypes
  <2>. QED BY <2>1, <2>2, PairFrame DEF Pair, NoCopies, Order
<1>. QED BY <1>1, <1>2 DEF PairInv

LEMMA PairSend ==
  ASSUME TypeOK, PairInv, LocalInv, NEW p \in Parties, NEW q \in Peers(p), Send(p, q)
  PROVE  PairInv'
<1>. DEFINE Q == QueryMsg(p)
            A == Answer(p, q)
            h == Head(outbox[p][q])
<1>1. Pair(p, q)'
  <2>1. /\ outbox[p][q] # <<>>
        /\ outbox'[p][q] = Tail(outbox[p][q])
        /\ wire'[p][q] = Append(wire[p][q], h)
        /\ inbox' = inbox /\ toQuery' = toQuery
        /\ hasQueried' = hasQueried /\ hasResponded' = hasResponded
    BY PairTypes DEF Send, TypeOK
  <2>2. Q # A /\ Q \in Sent(p, q) /\ A \in Sent(p, q)
    BY Distinct DEF Sent
  <2>3. Pair(p, q) /\ outbox[p][q] \in Seq(Sent(p, q)) /\ wire[p][q] \in Seq(Sent(p, q))
    BY PairTypes
  <2>4. h \in Sent(p, q)
    BY <2>1, <2>3, HeadTailProperties
  <2>. HIDE DEF h
  <2>5. ASSUME NEW m \in Sent(p, q)
        PROVE  /\ Has(outbox[p][q], m) <=> m = h \/ Has(outbox'[p][q], m)
               /\ m = h => ~Has(outbox'[p][q], m)
               /\ Has(wire'[p][q], m) <=> Has(wire[p][q], m) \/ m = h
               /\ m = h => ~Has(wire[p][q], m)
               /\ Once(outbox'[p][q], m)
               /\ Once(wire'[p][q], m)
    <3>1. Once(outbox[p][q], m) /\ Once(wire[p][q], m)
      BY <2>3 DEF Pair, NoCopies
    <3>2. Has(outbox[p][q], m) <=> m = h \/ Has(outbox'[p][q], m)
      BY <2>1, <2>3, HasTail DEF h
    <3>3. Once(outbox'[p][q], m) /\ (m = h => ~Has(outbox'[p][q], m))
      BY <2>1, <2>3, <3>1, OnceTail DEF h
    <3>4. Has(wire'[p][q], m) <=> Has(wire[p][q], m) \/ m = h
      BY <2>1, <2>3, <2>4, HasAppend
    <3>5. Has(outbox[p][q], m) => ~Has(wire[p][q], m)
      BY <2>3 DEF Pair, QueryPlace, AnswerPlace, Sent
    <3>6. Once(wire'[p][q], m)
      BY <2>1, <2>3, <2>4, <3>1, <3>2, <3>5, OnceAppend
    <3>. QED BY <3>2, <3>3, <3>4, <3>5, <3>6
  <2>6. /\ Before(outbox'[p][q], Q, A)
        /\ A = h => ~Has(outbox[p][q], Q)
    <3>. Before(outbox[p][q], Q, A)
      BY <2>3 DEF Pair, Order
    <3>. QED BY <2>1, <2>2, <2>3, BeforeTail DEF h
  <2>7. Before(wire'[p][q], Q, A)
    <3>1. Before(wire[p][q], Q, A) /\ (Has(wire[p][q], A) => ~Has(outbox[p][q], Q))
      BY <2>3 DEF Pair, Order
    <3>2. Q = h => ~Has(wire[p][q], A)
      BY <2>2, <2>5, <3>1
    <3>. QED BY <2>1, <2>2, <2>3, <2>4, <3>1, <3>2, BeforeAppend
  <2>8. Contents(p, q)'
    <3>. Tail(outbox[p][q]) \in Seq(Sent(p, q)) /\ Append(wire[p][q], h) \in Seq(Sent(p, q))
      BY <2>1, <2>3, <2>4, AppendProperties, HeadTailProperties
    <3>. QED BY <2>1 DEF Contents
  <2>9. NoCopies(p, q)'
    BY <2>1, <2>3, <2>5 DEF Pair, NoCopies
  <2>10. QueryPlace(p, q)'
    BY <2>1, <2>2, <2>3, <2>5 DEF Pair, QueryPlace
  <2>11. AnswerPlace(p, q)'
    BY <2>1, <2>2, <2>3, <2>5 DEF Pair, AnswerPlace
  <2>12. Order(p, q)'
    <3>1. Order(p, q) /\ AnswerPlace(p, q)
      BY <2>3 DEF Pair
    <3>2. Has(wire'[p][q], A) => ~Has(outbox'[p][q], Q)
      BY <2>2, <2>5, <2>6, <3>1 DEF Order
    <3>3. Has(inbox[q], A) => ~Has(outbox'[p][q], Q) /\ ~Has(wire'[p][q], Q)
      BY <2>2, <2>5, <3>1 DEF Order
    <3>. QED BY <2>1, <2>6, <2>7, <3>1, <3>2, <3>3 DEF Order
  <2>. QED BY <2>8, <2>9, <2>10, <2>11, <2>12 DEF Pair
<1>2. ASSUME NEW r \in Parties, NEW t \in Peers(r), <<r, t>> # <<p, q>>
      PROVE  Pair(r, t)'
  <2>1. /\ outbox'[r][t] = outbox[r][t] /\ wire'[r][t] = wire[r][t]
        /\ inbox' = inbox /\ toQuery' = toQuery
        /\ hasQueried' = hasQueried /\ hasResponded' = hasResponded
    BY <1>2, PairTypes DEF Send, TypeOK
  <2>2. Pair(r, t)
    BY PairTypes
  <2>. QED BY <2>1, <2>2, PairFrame DEF Pair, NoCopies, Order
<1>. QED BY <1>1, <1>2 DEF PairInv

\* Two parties never send the same message to a third.
LEMMA SentDisjoint ==
  ASSUME NEW p, NEW r, NEW q, p # r, NEW m \in Sent(p, q)
  PROVE  m \notin Sent(r, q)
BY Distinct DEF Sent

LEMMA PairReceive ==
  ASSUME TypeOK, PairInv, LocalInv, NEW q \in Parties, NEW p \in Peers(q), Receive(q, p)
  PROVE  PairInv' /\ InboxContents(q)'
<1>. DEFINE Q == QueryMsg(p)
            A == Answer(p, q)
            h == Head(wire[p][q])
            All == UNION {Sent(r, q) : r \in Peers(q)}
<1>0. p \in Parties /\ q \in Peers(p) /\ p # q
  BY DEF Peers
<1>1. /\ wire[p][q] # <<>>
      /\ wire'[p][q] = Tail(wire[p][q])
      /\ inbox'[q] = Append(inbox[q], h)
      /\ outbox' = outbox /\ toQuery' = toQuery
      /\ hasQueried' = hasQueried /\ hasResponded' = hasResponded
  BY <1>0 DEF Receive, TypeOK
<1>2. /\ Pair(p, q) /\ wire[p][q] \in Seq(Sent(p, q)) /\ inbox[q] \in Seq(All)
  BY <1>0, PairTypes
<1>3. h \in Sent(p, q) /\ h \in All
  BY <1>0, <1>1, <1>2, HeadTailProperties
<1>4. Q # A /\ Q \in Sent(p, q) /\ A \in Sent(p, q)
  BY Distinct DEF Sent
<1>. HIDE DEF h, All
<1>5. Pair(p, q)'
  <2>1. ASSUME NEW m \in Sent(p, q)
        PROVE  /\ Has(wire[p][q], m) <=> m = h \/ Has(wire'[p][q], m)
               /\ m = h => ~Has(wire'[p][q], m)
               /\ Has(inbox'[q], m) <=> Has(inbox[q], m) \/ m = h
               /\ m = h => ~Has(inbox[q], m)
               /\ Once(wire'[p][q], m)
               /\ Once(inbox'[q], m)
    <3>1. Once(wire[p][q], m) /\ Once(inbox[q], m)
      BY <1>2 DEF Pair, NoCopies
    <3>2. Has(wire[p][q], m) <=> m = h \/ Has(wire'[p][q], m)
      BY <1>1, <1>2, HasTail DEF h
    <3>3. Once(wire'[p][q], m) /\ (m = h => ~Has(wire'[p][q], m))
      BY <1>1, <1>2, <3>1, OnceTail DEF h
    <3>4. Has(inbox'[q], m) <=> Has(inbox[q], m) \/ m = h
      BY <1>1, <1>2, <1>3, HasAppend
    <3>5. Has(wire[p][q], m) => ~Has(inbox[q], m)
      BY <1>2 DEF Pair, QueryPlace, AnswerPlace, Sent
    <3>6. Once(inbox'[q], m)
      BY <1>1, <1>2, <1>3, <3>1, <3>2, <3>5, OnceAppend
    <3>. QED BY <3>2, <3>3, <3>4, <3>5, <3>6
  <2>2. /\ Before(wire'[p][q], Q, A)
        /\ A = h => ~Has(wire[p][q], Q)
    <3>. Before(wire[p][q], Q, A)
      BY <1>2 DEF Pair, Order
    <3>. QED BY <1>1, <1>2, <1>4, BeforeTail DEF h
  <2>3. Before(inbox'[q], Q, A)
    <3>1. Before(inbox[q], Q, A) /\ (Has(inbox[q], A) => ~Has(wire[p][q], Q))
      BY <1>2 DEF Pair, Order
    <3>2. Q = h => ~Has(inbox[q], A)
      BY <1>4, <2>1, <3>1
    <3>. QED BY <1>1, <1>2, <1>3, <1>4, <3>1, <3>2, BeforeAppend
  <2>4. Contents(p, q)'
    <3>. Tail(wire[p][q]) \in Seq(Sent(p, q))
      BY <1>1, <1>2, HeadTailProperties
    <3>. QED BY <1>1, <1>2 DEF Pair, Contents
  <2>5. NoCopies(p, q)'
    BY <1>1, <1>2, <2>1 DEF Pair, NoCopies
  <2>6. QueryPlace(p, q)'
    BY <1>1, <1>2, <1>4, <2>1 DEF Pair, QueryPlace
  <2>7. AnswerPlace(p, q)'
    BY <1>1, <1>2, <1>4, <2>1 DEF Pair, AnswerPlace
  <2>8. Order(p, q)'
    <3>1. Order(p, q)
      BY <1>2 DEF Pair
    <3>2. Has(wire'[p][q], A) => ~Has(outbox[p][q], Q)
      BY <1>4, <2>1, <3>1 DEF Order
    <3>3. Has(inbox'[q], A) => ~Has(outbox[p][q], Q) /\ ~Has(wire'[p][q], Q)
      BY <1>4, <2>1, <2>2, <3>1 DEF Order
    <3>. QED BY <1>1, <2>2, <2>3, <3>1, <3>2, <3>3 DEF Order
  <2>. QED BY <2>4, <2>5, <2>6, <2>7, <2>8 DEF Pair
<1>6. ASSUME NEW r \in Parties, NEW t \in Peers(r), <<r, t>> # <<p, q>>
      PROVE  Pair(r, t)'
  <2>1. wire'[r][t] = wire[r][t]
    BY <1>0, <1>6, PairTypes DEF Receive, TypeOK
  <2>2. Pair(r, t)
    BY PairTypes
  <2>3. CASE t = q
    <3>1. h \notin Sent(r, q)
      BY <1>3, <1>6, <2>3, SentDisjoint
    <3>2. UNCHANGED <<toQuery, hasQueried, hasResponded>> /\ outbox'[r][q] = outbox[r][q]
      BY <1>1
    <3>. QED BY <1>1, <1>2, <1>3, <2>1, <2>2, <2>3, <3>1, <3>2, PairInboxAppend
  <2>4. CASE t # q
    <3>1. inbox'[t] = inbox[t]
      BY <2>4, PairTypes DEF Receive, TypeOK
    <3>. QED BY <1>1, <2>1, <2>2, <3>1, PairFrame DEF Pair, NoCopies, Order
  <2>. QED BY <2>3, <2>4
<1>7. InboxContents(q)'
  <2>. Append(inbox[q], h) \in Seq(All)
    BY <1>2, <1>3, AppendProperties
  <2>. QED BY <1>1 DEF InboxContents, All
<1>. QED BY <1>5, <1>6, <1>7 DEF PairInv

\* The message that p takes from its inbox is the query of a peer or the
\* answer of that peer to the query of p.
LEMMA HeadOfInbox ==
  ASSUME TypeOK, LocalInv, NEW p \in Parties, Listening(p)
  PROVE  \E q \in Peers(p) :
           LET m == Head(inbox[p])
           IN  /\ m.PartyID = q
               /\ m.Query => m = QueryMsg(q) /\ m.Ciphertext = [a |-> q]
               /\ ~m.Query => m = Answer(q, p) /\ m.Ciphertext = [a |-> p, b |-> q, mask |-> p]
               /\ Tail(inbox[p]) \in Seq(UNION {Sent(r, p) : r \in Peers(p)})
<1>1. inbox[p] \in Seq(UNION {Sent(r, p) : r \in Peers(p)}) /\ inbox[p] # <<>>
  BY DEF LocalInv, InboxContents, Listening
<1>2. /\ Tail(inbox[p]) \in Seq(UNION {Sent(r, p) : r \in Peers(p)})
      /\ Head(inbox[p]) \in UNION {Sent(r, p) : r \in Peers(p)}
  BY <1>1, HeadTailProperties
<1>3. PICK q \in Peers(p) : Head(inbox[p]) \in Sent(q, p)
  BY <1>2
<1>. DEFINE m == Head(inbox[p])
<1>4. m = QueryMsg(q) => m.PartyID = q /\ m.Query = TRUE /\ m.Ciphertext = [a |-> q]
  BY DEF QueryMsg
<1>5. m = Answer(q, p) => /\ m.PartyID = q /\ m.Query = FALSE
                          /\ m.Ciphertext = [a |-> p, b |-> q, mask |-> p]
  BY DEF Answer, ResponseMsg, ProcessQuery
<1>6. m = QueryMsg(q) \/ m = Answer(q, p)
  BY <1>3 DEF Sent
<1>. HIDE DEF m
<1>7. /\ m.PartyID = q
      /\ m.Query => m = QueryMsg(q) /\ m.Ciphertext = [a |-> q]
      /\ ~m.Query => m = Answer(q, p) /\ m.Ciphertext = [a |-> p, b |-> q, mask |-> p]
  BY <1>4, <1>5, <1>6
<1>. QED BY <1>2, <1>7 DEF m

LEMMA PairHandleQuery ==
  ASSUME TypeOK, PairInv, LocalInv, NEW p \in Parties, HandleQuery(p)
  PROVE  PairInv' /\ InboxContents(p)'
<1>. DEFINE All == UNION {Sent(r, p) : r \in Peers(p)}
<1>1. PICK q \in Peers(p) :
      /\ Head(inbox[p]).PartyID = q
      /\ Head(inbox[p]) = QueryMsg(q) /\ inbox[p] # <<>>
      /\ Tail(inbox[p]) \in Seq(All)
      /\ toQuery[p] = {}
      /\ ResponseMsg(p, ProcessQuery(p, q, Head(inbox[p]).Ciphertext)) = Answer(p, q)
  BY HeadOfInbox DEF HandleQuery, Listening, Answer
<1>2. /\ inbox' = [inbox EXCEPT ![p] = Tail(@)]
      /\ outbox' = [outbox EXCEPT ![p][q] = Append(@, Answer(p, q))]
      /\ hasQueried' = [hasQueried EXCEPT ![p] = @ \cup {q}]
      /\ wire' = wire /\ toQuery' = toQuery /\ hasResponded' = hasResponded
  BY <1>1 DEF HandleQuery
<1>. DEFINE Q == QueryMsg(q)
<1>3. /\ q \in Parties /\ p \in Peers(q) /\ p # q
      /\ Pair(p, q) /\ Pair(q, p)
      /\ outbox[p][q] \in Seq(Sent(p, q))
      /\ inbox[p] \in Seq(All)
  BY <1>1, PairTypes
<1>4. /\ inbox'[p] = Tail(inbox[p])
      /\ \A r \in Parties : r # p => inbox'[r] = inbox[r]
      /\ outbox'[p][q] = Append(outbox[p][q], Answer(p, q))
      /\ \A r, t \in Parties : <<r, t>> # <<p, q>> => outbox'[r][t] = outbox[r][t]
      /\ hasQueried'[p] = hasQueried[p] \cup {q}
      /\ \A r \in Parties : r # p => hasQueried'[r] = hasQueried[r]
  BY <1>2, <1>3 DEF TypeOK
<1>5. Pair(q, p)'
  <2>. DEFINE A == Answer(q, p)
  <2>1. Q # A /\ Q \in Sent(q, p) /\ A \in Sent(q, p)
    BY Distinct DEF Sent
  <2>2. /\ ~Has(inbox'[p], Q)
        /\ Has(inbox'[p], A) <=> Has(inbox[p], A)
        /\ \A m \in Sent(q, p) : Once(inbox'[p], m)
        /\ Before(inbox'[p], Q, A)
        /\ Has(inbox[p], Q)
    <3>1. \A m \in Sent(q, p) : Once(inbox[p], m)
      BY <1>3 DEF Pair, NoCopies
    <3>2. Before(inbox[p], Q, A)
      BY <1>3 DEF Pair, Order
    <3>3. Has(inbox[p], Q) /\ ~Has(inbox'[p], Q) /\ (Has(inbox'[p], A) <=> Has(inbox[p], A))
      BY <1>1, <1>3, <1>4, <2>1, <3>1, HasTail, OnceTail
    <3>4. \A m \in Sent(q, p) : Once(inbox'[p], m)
      BY <1>1, <1>3, <1>4, <3>1, OnceTail
    <3>5. Before(inbox'[p], Q, A)
      BY <1>1, <1>3, <1>4, <2>1, <3>2, BeforeTail
    <3>. QED BY <3>3, <3>4, <3>5
  <2>3. outbox'[q][p] = outbox[q][p] /\ hasQueried'[q] = hasQueried[q] /\ q \in hasQueried'[p]
    BY <1>3, <1>4
  <2>4. Contents(q, p)' /\ NoCopies(q, p)'
    BY <1>2, <1>3, <2>2, <2>3 DEF Pair, Contents, NoCopies
  <2>5. QueryPlace(q, p)'
    BY <1>2, <1>3, <2>2, <2>3 DEF Pair, QueryPlace
  <2>6. AnswerPlace(q, p)'
    BY <1>2, <1>3, <2>2, <2>3 DEF Pair, AnswerPlace
  <2>7. Order(q, p)'
    BY <1>2, <1>3, <2>2, <2>3 DEF Pair, Order
  <2>. QED BY <2>4, <2>5, <2>6, <2>7 DEF Pair
<1>6. Pair(p, q)'
  <2>. DEFINE A == Answer(p, q)
              P == QueryMsg(p)
  <2>1. P # A /\ P \in Sent(p, q) /\ A \in Sent(p, q)
    BY Distinct DEF Sent
  <2>2. q \notin hasQueried[p]
    <3>1. Has(inbox[p], Q)
      BY <1>1, <1>3, HasTail
    <3>. QED BY <1>3, <3>1 DEF Pair, QueryPlace
  <2>3. ~Has(outbox[p][q], A)
    BY <1>3, <2>2 DEF Pair, AnswerPlace
  <2>4. /\ Has(outbox'[p][q], A)
        /\ Has(outbox'[p][q], P) <=> Has(outbox[p][q], P)
        /\ \A m \in Sent(p, q) : Once(outbox'[p][q], m)
        /\ Before(outbox'[p][q], P, A)
    <3>1. \A m \in Sent(p, q) : Once(outbox[p][q], m)
      BY <1>3 DEF Pair, NoCopies
    <3>2. Before(outbox[p][q], P, A)
      BY <1>3 DEF Pair, Order
    <3>3. Has(outbox'[p][q], A) /\ (Has(outbox'[p][q], P) <=> Has(outbox[p][q], P))
      BY <1>3, <1>4, <2>1, HasAppend
    <3>4. \A m \in Sent(p, q) : Once(outbox'[p][q], m)
      BY <1>3, <1>4, <2>1, <2>3, <3>1, OnceAppend
    <3>5. Before(outbox'[p][q], P, A)
      BY <1>3, <1>4, <2>1, <3>2, BeforeAppend
    <3>. QED BY <3>3, <3>4, <3>5
  <2>5. /\ inbox'[q] = inbox[q] /\ hasQueried'[q] = hasQueried[q] /\ q \in hasQueried'[p]
        /\ q \notin toQuery'[p]
    BY <1>1, <1>2, <1>3, <1>4
  <2>6. Contents(p, q)'
    BY <1>2, <1>3, <1>4, <2>1, AppendProperties DEF Pair, Contents
  <2>7. NoCopies(p, q)'
    BY <1>2, <1>3, <2>4, <2>5 DEF Pair, NoCopies
  <2>8. QueryPlace(p, q)'
    BY <1>2, <1>3, <2>4, <2>5 DEF Pair, QueryPlace
  <2>9. AnswerPlace(p, q)'
    BY <1>2, <1>3, <2>2, <2>4, <2>5 DEF Pair, AnswerPlace
  <2>10. Order(p, q)'
    BY <1>2, <1>3, <2>2, <2>4, <2>5 DEF Pair, Order, AnswerPlace
  <2>. QED BY <2>6, <2>7, <2>8, <2>9, <2>10 DEF Pair
<1>7. ASSUME NEW r \in Parties, NEW t \in Peers(r), <<r, t>> # <<p, q>>, <<r, t>> # <<q, p>>
      PROVE  Pair(r, t)'
  <2>1. /\ t \in Parties /\ r # t /\ Pair(r, t)
        /\ outbox'[r][t] = outbox[r][t] /\ wire'[r][t] = wire[r][t]
    BY <1>2, <1>4, <1>7, PairTypes
  <2>2. CASE t = p
    <3>1. r # q /\ Head(inbox[p]) \notin Sent(r, p)
      BY <1>1, <1>7, <2>2, SentDisjoint DEF Sent
    <3>2. /\ r \in hasQueried'[p] <=> r \in hasQueried[p]
          /\ hasQueried'[r] = hasQueried[r]
      BY <1>4, <2>1, <2>2, <3>1
    <3>. QED BY <1>1, <1>2, <1>3, <1>4, <2>1, <2>2, <3>1, <3>2, PairInboxTail
  <2>3. CASE t # p
    <3>1. /\ inbox'[t] = inbox[t]
          /\ hasQueried'[t] = hasQueried[t]
          /\ t \in hasQueried'[r] <=> t \in hasQueried[r]
      BY <1>4, <1>7, <2>1, <2>3
    <3>. QED BY <1>2, <2>1, <3>1, PairFrame DEF Pair, NoCopies, Order
  <2>. QED BY <2>2, <2>3
<1>8. InboxContents(p)'
  BY <1>1, <1>4 DEF InboxContents
<1>. QED BY <1>3, <1>5, <1>6, <1>7, <1>8 DEF PairInv

LEMMA PairHandleResponse ==
  ASSUME TypeOK, PairInv, LocalInv, NEW p \in Parties, HandleResponse(p)
  PROVE  PairInv' /\ InboxContents(p)'
<1>. DEFINE All == UNION {Sent(r, p) : r \in Peers(p)}
<1>1. PICK q \in Peers(p) :
      /\ Head(inbox[p]).PartyID = q
      /\ Head(inbox[p]) = Answer(q, p) /\ inbox[p] # <<>>
      /\ Tail(inbox[p]) \in Seq(All)
  BY HeadOfInbox DEF HandleResponse, Listening
<1>2. /\ inbox' = [inbox EXCEPT ![p] = Tail(@)]
      /\ hasResponded' = [hasResponded EXCEPT ![p] = @ \cup {q}]
      /\ outbox' = outbox /\ wire' = wire /\ toQuery' = toQuery /\ hasQueried' = hasQueried
  BY <1>1 DEF HandleResponse
<1>. DEFINE Q == QueryMsg(q)
            A == Answer(q, p)
<1>3. /\ q \in Parties /\ p \in Peers(q) /\ p # q
      /\ Pair(q, p)
      /\ inbox[p] \in Seq(All)
  BY <1>1, PairTypes
<1>4. /\ inbox'[p] = Tail(inbox[p])
      /\ \A r \in Parties : r # p => inbox'[r] = inbox[r]
      /\ hasResponded'[p] = hasResponded[p] \cup {q}
      /\ \A r \in Parties : r # p => hasResponded'[r] = hasResponded[r]
  BY <1>2, <1>3 DEF TypeOK
<1>5. Pair(q, p)'
  <2>1. Q # A /\ Q \in Sent(q, p) /\ A \in Sent(q, p)
    BY Distinct DEF Sent
  <2>2. /\ \A m \in Sent(q, p) : Once(inbox[p], m)
        /\ Before(inbox[p], Q, A)
    BY <1>3 DEF Pair, NoCopies, Order
  <2>3. /\ Has(inbox[p], A) /\ ~Has(inbox'[p], A)
        /\ ~Has(inbox[p], Q) /\ ~Has(inbox'[p], Q)
    BY <1>1, <1>3, <1>4, <2>1, <2>2, HasTail, OnceTail, BeforeTail
  <2>4. /\ \A m \in Sent(q, p) : Once(inbox'[p], m)
        /\ Before(inbox'[p], Q, A)
    BY <1>1, <1>3, <1>4, <2>1, <2>2, OnceTail, BeforeTail
  <2>5. q \in hasQueried[p]
    BY <1>3, <2>3 DEF Pair, QueryPlace, AnswerPlace, Order
  <2>6. /\ outbox' = outbox /\ wire' = wire /\ toQuery' = toQuery /\ hasQueried' = hasQueried
        /\ q \in hasResponded'[p]
    BY <1>2, <1>4
  <2>7. Contents(q, p)' /\ NoCopies(q, p)'
    BY <1>3, <2>4, <2>6 DEF Pair, Contents, NoCopies
  <2>8. QueryPlace(q, p)'
    BY <1>3, <2>3, <2>6 DEF Pair, QueryPlace
  <2>9. AnswerPlace(q, p)'
    BY <1>3, <2>3, <2>6 DEF Pair, AnswerPlace
  <2>10. Order(q, p)'
    BY <1>3, <2>3, <2>4, <2>5, <2>6 DEF Pair, Order
  <2>. QED BY <2>7, <2>8, <2>9, <2>10 DEF Pair
<1>6. ASSUME NEW r \in Parties, NEW t \in Peers(r), <<r, t>> # <<q, p>>
      PROVE  Pair(r, t)'
  <2>1. t \in Parties /\ r # t /\ Pair(r, t)
    BY PairTypes
  <2>2. CASE t = p
    <3>1. r # q /\ Head(inbox[p]) \notin Sent(r, p)
      BY <1>1, <1>6, <2>2, SentDisjoint DEF Sent
    <3>. QED BY <1>1, <1>2, <1>3, <1>4, <2>1, <2>2, <3>1, PairInboxTail
  <2>3. CASE t # p
    <3>1. inbox'[t] = inbox[t] /\ hasResponded'[t] = hasResponded[t]
      BY <1>4, <2>1, <2>3
    <3>. QED BY <1>2, <2>1, <3>1, PairFrame DEF Pair, NoCopies, Order
  <2>. QED BY <2>2, <2>3
<1>7. InboxContents(p)'
  BY <1>1, <1>4 DEF InboxContents
<1>. QED BY <1>3, <1>5, <1>6, <1>7 DEF PairInv

\* The steps that leave the messages and what was done with them alone.
LEMMA PairStutter ==
  ASSUME PairInv,
         UNCHANGED <<toQuery, outbox, wire, inbox, hasQueried, hasResponded>>
  PROVE  PairInv'
BY DEF PairInv, Pair, Contents, NoCopies, QueryPlace, AnswerPlace, Order

-----------------------------------------------------------------------------
(* The inductive invariant holds initially.                                *)

LEMMA InvInit == Init => IInv
<1>. SUFFICES ASSUME Init PROVE IInv
  OBVIOUS
<1>1. TypeOK
  BY TypeInit
<1>2. \A m : ~Has(<<>>, m) /\ Once(<<>>, m)
  BY DEF Has, Once
<1>3. \A m, n : Before(<<>>, m, n)
  BY DEF Before
<1>4. ASSUME NEW p \in Parties, NEW q \in Peers(p) PROVE Pair(p, q)
  <2>1. /\ outbox[p][q] = <<>> /\ wire[p][q] = <<>> /\ inbox[q] = <<>>
        /\ q \in toQuery[p] /\ hasQueried[p] = {} /\ hasQueried[q] = {} /\ hasResponded[q] = {}
    BY DEF Init, Peers
  <2>2. Contents(p, q)
    BY <2>1 DEF Contents
  <2>3. NoCopies(p, q)
    BY <1>2, <2>1 DEF NoCopies
  <2>4. QueryPlace(p, q) /\ AnswerPlace(p, q)
    BY <1>2, <2>1 DEF QueryPlace, AnswerPlace
  <2>5. Order(p, q)
    BY <1>2, <1>3, <2>1 DEF Order
  <2>. QED BY <2>2, <2>3, <2>4, <2>5 DEF Pair
<1>5. LocalInv
  <2>. SUFFICES ASSUME NEW p \in Parties
                PROVE  LocalInv!(p)
    BY DEF LocalInv
  <2>1. InboxContents(p)
    BY DEF Init, InboxContents
  <2>2. Aggregate(p)
    BY DEF Init, Aggregate
  <2>. QED BY <2>1, <2>2 DEF Init, Peers
<1>6. CompletionNotMissed
  BY DEF Init, CompletionNotMissed, IsComplete, Peers
<1>7. PanicOnlyAfterLoss
  BY DEF Init, PanicOnlyAfterLoss
<1>. QED BY <1>1, <1>4, <1>5, <1>6, <1>7 DEF IInv, PairInv

-----------------------------------------------------------------------------
(* The invariant of a single party.                                        *)

\* What the two kinds of messages at the head of the inbox say of the state.
LEMMA HeadStage ==
  ASSUME TypeOK, PairInv, LocalInv, NEW p \in Parties, inbox[p] # <<>>, NEW q \in Peers(p)
  PROVE  /\ Head(inbox[p]) = QueryMsg(q) => q \notin hasQueried[p] /\ q \notin hasResponded[p]
         /\ Head(inbox[p]) = Answer(q, p) => q \notin hasResponded[p] /\ q \in hasQueried[p]
<1>1. /\ Pair(q, p) /\ q \in Parties
      /\ inbox[p] \in Seq(UNION {Sent(r, p) : r \in Peers(p)})
  BY PairTypes
<1>2. Head(inbox[p]) = QueryMsg(q) => Has(inbox[p], QueryMsg(q))
  BY <1>1, HasTail
<1>3. Head(inbox[p]) = Answer(q, p) => Has(inbox[p], Answer(q, p)) /\ ~Has(inbox[p], QueryMsg(q))
  BY <1>1, HasTail, BeforeTail, Distinct DEF Pair, Order
<1>4. Has(inbox[p], QueryMsg(q)) => q \notin hasQueried[p] /\ q \notin hasResponded[p]
  BY <1>1 DEF Pair, QueryPlace, Order
<1>5. Has(inbox[p], Answer(q, p)) /\ ~Has(inbox[p], QueryMsg(q))
        => q \notin hasResponded[p] /\ q \in hasQueried[p]
  BY <1>1 DEF Pair, QueryPlace, AnswerPlace, Order
<1>. QED BY <1>2, <1>3, <1>4, <1>5

LEMMA LocalHandleQuery ==
  ASSUME TypeOK, PairInv, LocalInv, CompletionNotMissed, NEW p \in Parties, HandleQuery(p)
  PROVE  LocalInv' /\ CompletionNotMissed'
<1>1. PICK q \in Peers(p) :
        /\ Head(inbox[p]).PartyID = q /\ Head(inbox[p]) = QueryMsg(q)
        /\ inbox[p] # <<>> /\ run[p] = "listening" /\ toQuery[p] = {}
  BY HeadOfInbox DEF HandleQuery, Listening
<1>2. q \in Parties /\ q # p /\ q \notin hasQueried[p] /\ q \notin hasResponded[p]
  BY <1>1, HeadStage DEF Peers
<1>3. InboxContents(p)'
  BY PairHandleQuery
<1>4. /\ hasQueried'[p] = hasQueried[p] \cup {q}
      /\ \A r \in Parties : r # p => hasQueried'[r] = hasQueried[r] /\ inbox'[r] = inbox[r]
      /\ \A r, t \in Parties : r # p => outbox'[r][t] = outbox[r][t]
      /\ UNCHANGED <<toQuery, torn, hasResponded, encAggr, run, proc>>
      /\ Up(p)
  BY <1>1, <1>2 DEF HandleQuery, Listening, TypeOK
<1>5. ASSUME NEW r \in Parties PROVE LocalInv!(r)'
  <2>1. InboxContents(r)'
    BY <1>3, <1>4 DEF LocalInv, InboxContents
  <2>2. Aggregate(r)'
    BY <1>4 DEF LocalInv, Aggregate
  <2>3. run[r] = "returned" => IsComplete(r, hasQueried'[r], hasResponded[r])
    BY <1>1, <1>4 DEF LocalInv
  <2>4. \A t \in Parties : torn[r][t] => ~Up(r) /\ t # r /\ outbox'[r][t] # <<>>
    BY <1>4 DEF LocalInv
  <2>5. r \notin hasQueried'[r] /\ r \notin toQuery[r] /\ r \notin hasResponded[r]
    BY <1>2, <1>4 DEF LocalInv
  <2>6. toQuery[r] # {} => run[r] = "listening" /\ hasQueried'[r] = {}
    BY <1>1, <1>4 DEF LocalInv
  <2>7. proc[r] = "exited" => run[r] = "returned"
    BY DEF LocalInv
  <2>. QED BY <1>4, <2>1, <2>2, <2>3, <2>4, <2>5, <2>6, <2>7 DEF Up
<1>6. CompletionNotMissed'
  BY <1>1, <1>2, <1>4 DEF CompletionNotMissed, IsComplete
<1>. QED BY <1>5, <1>6 DEF LocalInv

LEMMA LocalHandleResponse ==
  ASSUME TypeOK, PairInv, LocalInv, CompletionNotMissed, NEW p \in Parties, HandleResponse(p)
  PROVE  LocalInv' /\ CompletionNotMissed'
<1>1. PICK q \in Peers(p) :
        /\ Head(inbox[p]).PartyID = q /\ Head(inbox[p]) = Answer(q, p)
        /\ Head(inbox[p]).Ciphertext = [a |-> p, b |-> q, mask |-> p]
        /\ inbox[p] # <<>> /\ run[p] = "listening" /\ toQuery[p] = {}
  BY HeadOfInbox DEF HandleResponse, Listening
<1>. DEFINE t == [a |-> p, b |-> q, mask |-> p]
<1>2. q \in Parties /\ q # p /\ q \notin hasResponded[p] /\ q \in hasQueried[p]
  BY <1>1, HeadStage DEF Peers
<1>3. InboxContents(p)'
  BY PairHandleResponse
<1>4. /\ hasResponded'[p] = hasResponded[p] \cup {q}
      /\ \A r \in Parties : r # p => /\ hasResponded'[r] = hasResponded[r]
                                     /\ inbox'[r] = inbox[r]
                                     /\ encAggr'[r] = encAggr[r]
                                     /\ run'[r] = run[r]
      /\ UNCHANGED <<toQuery, torn, outbox, hasQueried, proc>>
      /\ run'[p] = IF IsComplete(p, hasQueried[p], hasResponded[p] \cup {q})
                   THEN "returned" ELSE "listening"
      /\ Up(p)
  BY <1>1, <1>2 DEF HandleResponse, Listening, TypeOK
<1>5. t \in Products /\ encAggr'[p] = [encAggr[p] EXCEPT ![t] = @ + 1]
  BY <1>1, <1>2 DEF HandleResponse, TypeOK, Products
<1>6. Aggregate(p)'
  <2>. SUFFICES ASSUME NEW u \in Products
                PROVE  encAggr'[p][u] =
                         IF u.a = p /\ u.mask = p /\ u.b \in hasResponded'[p] THEN 1 ELSE 0
    BY DEF Aggregate
  <2>1. encAggr[p] \in [Products -> Nat]
    BY DEF TypeOK
  <2>2. encAggr[p][u] = IF u.a = p /\ u.mask = p /\ u.b \in hasResponded[p] THEN 1 ELSE 0
    BY DEF LocalInv, Aggregate
  <2>3. CASE u = t
    <3>1. encAggr[p][u] = 0 /\ encAggr'[p][u] = encAggr[p][u] + 1
      BY <1>2, <1>5, <2>1, <2>2, <2>3
    <3>. QED BY <1>4, <2>3, <3>1
  <2>4. CASE u # t
    <3>1. encAggr'[p][u] = encAggr[p][u]
      BY <1>5, <2>1, <2>4
    <3>2. u.a = p /\ u.mask = p => u.b # q
      BY <2>4 DEF Products
    <3>. QED BY <1>4, <2>2, <3>1, <3>2
  <2>. QED BY <2>3, <2>4
<1>7. ASSUME NEW r \in Parties PROVE LocalInv!(r)'
  <2>1. InboxContents(r)'
    BY <1>3, <1>4 DEF LocalInv, InboxContents
  <2>2. Aggregate(r)'
    BY <1>4, <1>6 DEF LocalInv, Aggregate
  <2>3. run'[r] = "returned" => IsComplete(r, hasQueried[r], hasResponded'[r])
    BY <1>4 DEF LocalInv
  <2>4. \A s \in Parties : torn[r][s] => ~Up(r) /\ s # r /\ outbox[r][s] # <<>>
    BY DEF LocalInv
  <2>5. r \notin hasQueried[r] /\ r \notin toQuery[r] /\ r \notin hasResponded'[r]
    BY <1>2, <1>4 DEF LocalInv
  <2>6. toQuery[r] # {} => run'[r] = "listening" /\ hasQueried[r] = {}
    BY <1>1, <1>4 DEF LocalInv
  <2>7. proc[r] = "exited" => run'[r] = "returned"
    BY <1>4 DEF LocalInv, Up
  <2>. QED BY <1>4, <2>1, <2>2, <2>3, <2>4, <2>5, <2>6, <2>7 DEF Up
<1>8. CompletionNotMissed'
  BY <1>4 DEF CompletionNotMissed
<1>. QED BY <1>7, <1>8 DEF LocalInv

\* SendQuery, Send and Receive.
LEMMA LocalTransport ==
  ASSUME TypeOK, LocalInv, CompletionNotMissed, \A p \in Parties : InboxContents(p)',
         UNCHANGED <<torn, hasQueried, hasResponded, encAggr, run, proc>>,
         \A p \in Parties : toQuery'[p] \subseteq toQuery[p],
         \A p, q \in Parties : ~Up(p) => outbox'[p][q] = outbox[p][q]
  PROVE  LocalInv' /\ CompletionNotMissed'
<1>1. ASSUME NEW p \in Parties PROVE LocalInv!(p)'
  <2>1. Aggregate(p)'
    BY DEF LocalInv, Aggregate
  <2>2. toQuery'[p] # {} => toQuery[p] # {}
    OBVIOUS
  <2>3. p \notin toQuery'[p] /\ p \notin hasQueried[p] /\ p \notin hasResponded[p]
    BY DEF LocalInv
  <2>4. toQuery'[p] # {} => run[p] = "listening" /\ hasQueried[p] = {}
    BY <2>2 DEF LocalInv
  <2>5. \A q \in Parties : torn[p][q] => ~Up(p) /\ q # p /\ outbox'[p][q] # <<>>
    BY DEF LocalInv
  <2>6. /\ run[p] = "returned" => IsComplete(p, hasQueried[p], hasResponded[p])
        /\ proc[p] = "exited" => run[p] = "returned"
    BY DEF LocalInv
  <2>. QED BY <2>1, <2>3, <2>4, <2>5, <2>6 DEF Up
<1>. QED BY <1>1 DEF LocalInv, CompletionNotMissed

LEMMA LocalEnd ==
  ASSUME TypeOK, LocalInv, CompletionNotMissed,
         NEW p \in Parties, Up(p), NEW how \in {"exited", "panicked"}, End(p, how),
         how = "exited" => run[p] = "returned"
  PROVE  LocalInv' /\ CompletionNotMissed'
<1>1. PICK cut \in SUBSET {q \in Peers(p) : outbox[p][q] # <<>>} :
        torn' = [torn EXCEPT ![p] = [q \in Parties |-> q \in cut]]
  BY DEF End
<1>2. /\ UNCHANGED <<toQuery, outbox, wire, reading, inbox, hasQueried,
                     hasResponded, encAggr, run>>
      /\ proc'[p] = how /\ \A r \in Parties : r # p => proc'[r] = proc[r]
  BY DEF End, TypeOK
<1>3. ASSUME NEW r \in Parties PROVE LocalInv!(r)'
  <2>1. InboxContents(r)' /\ Aggregate(r)'
    BY <1>2 DEF LocalInv, InboxContents, Aggregate
  <2>2. ASSUME NEW q \in Parties, torn'[r][q] PROVE ~Up(r)' /\ q # r /\ outbox[r][q] # <<>>
    <3>1. CASE r = p
      <4>1. q \in cut
        BY <1>1, <2>2, <3>1 DEF TypeOK
      <4>. QED BY <1>1, <1>2, <3>1, <4>1 DEF Up, Peers
    <3>2. CASE r # p
      <4>1. torn[r][q]
        BY <1>1, <2>2, <3>2 DEF TypeOK
      <4>. QED BY <1>2, <3>2, <4>1 DEF Up, LocalInv
    <3>. QED BY <3>1, <3>2
  <2>3. proc'[r] = "exited" => run[r] = "returned"
    BY <1>2 DEF LocalInv
  <2>. QED BY <1>2, <2>1, <2>2, <2>3 DEF LocalInv
<1>. QED BY <1>2, <1>3 DEF LocalInv, CompletionNotMissed

-----------------------------------------------------------------------------
(* Panics.                                                                 *)

LEMMA PanicQuiet ==
  ASSUME PanicOnlyAfterLoss, proc' = proc,
         \A p, q \in Parties : ~Up(p) => outbox'[p][q] = outbox[p][q]
  PROVE  PanicOnlyAfterLoss'
<1>1. LostMessage => LostMessage'
  BY DEF LostMessage, Up, Peers
<1>. QED BY <1>1 DEF PanicOnlyAfterLoss

LEMMA PanicEnd ==
  ASSUME TypeOK, PanicOnlyAfterLoss,
         NEW p \in Parties, Up(p), NEW how \in {"exited", "panicked"}, End(p, how),
         how = "panicked" /\ ~DeadlinesFire => LostMessage
  PROVE  PanicOnlyAfterLoss'
<1>1. /\ outbox' = outbox /\ proc'[p] = how
      /\ \A r \in Parties : r # p => proc'[r] = proc[r]
  BY DEF End, TypeOK
<1>2. LostMessage => LostMessage'
  BY <1>1 DEF LostMessage, Up
<1>. QED BY <1>1, <1>2 DEF PanicOnlyAfterLoss

\* A party that has exited without a loss has read everything sent to it.
LEMMA AllRead ==
  ASSUME TypeOK, PairInv, LocalInv, PanicOnlyAfterLoss, ~DeadlinesFire, ~LostMessage,
         NEW p \in Parties, NEW q \in Peers(p), ~Up(p)
  PROVE  outbox[q][p] = <<>> /\ wire[q][p] = <<>> /\ outbox[p][q] = <<>>
<1>1. proc[p] = "exited"
  BY DEF PanicOnlyAfterLoss, Up, TypeOK
<1>2. q \in hasQueried[p] /\ q \in hasResponded[p]
  BY <1>1 DEF LocalInv, IsComplete
<1>3. /\ Pair(q, p) /\ outbox[q][p] \in Seq(Sent(q, p)) /\ wire[q][p] \in Seq(Sent(q, p))
  BY PairTypes
<1>4. \A m \in Sent(q, p) : ~Has(outbox[q][p], m) /\ ~Has(wire[q][p], m)
  BY <1>2, <1>3 DEF Pair, QueryPlace, AnswerPlace, Sent
<1>5. ASSUME NEW s \in Seq(Sent(q, p)), s # <<>> PROVE \E m \in Sent(q, p) : Has(s, m)
  <2>1. Head(s) \in Sent(q, p)
    BY <1>5, HeadTailProperties
  <2>. QED BY <1>5, <2>1, HasTail
<1>. QED BY <1>1, <1>3, <1>4, <1>5 DEF LostMessage

-----------------------------------------------------------------------------
(* The inductive step.                                                     *)

LEMMA InvNext == IInv /\ [Next]_vars => IInv'
<1>. SUFFICES ASSUME IInv, [Next]_vars PROVE IInv'
  OBVIOUS
<1>. USE DEF IInv
<1>0. TypeOK'
  BY TypeNext
<1>1. ASSUME NEW p \in Parties, HandleQuery(p) PROVE IInv'
  <2>1. PairInv' /\ LocalInv' /\ CompletionNotMissed'
    BY <1>1, PairHandleQuery, LocalHandleQuery
  <2>2. PanicOnlyAfterLoss'
    <3>. \A r, t \in Parties : ~Up(r) => outbox'[r][t] = outbox[r][t]
      BY <1>1 DEF HandleQuery, Listening, TypeOK
    <3>. QED BY <1>1, PanicQuiet DEF HandleQuery
  <2>. QED BY <1>0, <2>1, <2>2
<1>2. ASSUME NEW p \in Parties, HandleResponse(p) PROVE IInv'
  BY <1>0, <1>2, PairHandleResponse, LocalHandleResponse, PanicQuiet DEF HandleResponse
<1>3. ASSUME NEW p \in Parties, NEW how \in {"exited", "panicked"}, Up(p), End(p, how),
             how = "exited" => run[p] = "returned",
             how = "panicked" /\ ~DeadlinesFire => LostMessage
      PROVE  IInv'
  <2>1. PairInv'
    BY <1>3, PairStutter DEF End
  <2>2. LocalInv' /\ CompletionNotMissed'
    BY <1>3, LocalEnd
  <2>3. PanicOnlyAfterLoss'
    BY <1>3, PanicEnd
  <2>. QED BY <1>0, <2>1, <2>2, <2>3
<1>4. ASSUME NEW p \in Parties, NEW q \in Peers(p), SendQuery(p, q) PROVE IInv'
  <2>1. /\ UNCHANGED <<wire, torn, reading, inbox, hasQueried, hasResponded, encAggr, run, proc>>
        /\ \A r \in Parties : toQuery'[r] \subseteq toQuery[r]
        /\ \A r, t \in Parties : ~Up(r) => outbox'[r][t] = outbox[r][t]
    BY <1>4 DEF SendQuery, TypeOK
  <2>2. \A r \in Parties : InboxContents(r)'
    BY <2>1 DEF LocalInv, InboxContents
  <2>. QED BY <1>0, <1>4, <2>1, <2>2, PairSendQuery, LocalTransport, PanicQuiet
<1>5. ASSUME NEW p \in Parties, NEW q \in Peers(p), Send(p, q) PROVE IInv'
  <2>1. /\ UNCHANGED <<toQuery, torn, reading, inbox, hasQueried, hasResponded, encAggr, run, proc>>
        /\ \A r, t \in Parties : ~Up(r) => outbox'[r][t] = outbox[r][t]
    BY <1>5 DEF Send, TypeOK
  <2>2. \A r \in Parties : InboxContents(r)'
    BY <2>1 DEF LocalInv, InboxContents
  <2>. QED BY <1>0, <1>5, <2>1, <2>2, PairSend, LocalTransport, PanicQuiet
<1>6. ASSUME NEW q \in Parties, NEW p \in Peers(q), Receive(q, p) PROVE IInv'
  <2>1. /\ UNCHANGED <<toQuery, outbox, torn, reading, hasQueried, hasResponded, encAggr, run, proc>>
        /\ \A r \in Parties : r # q => inbox'[r] = inbox[r]
    BY <1>6 DEF Receive, TypeOK
  <2>2. \A r \in Parties : InboxContents(r)'
    BY <1>6, <2>1, PairReceive DEF LocalInv, InboxContents
  <2>. QED BY <1>0, <1>6, <2>1, <2>2, PairReceive, LocalTransport, PanicQuiet
<1>7. ASSUME NEW q \in Parties, NEW p \in Peers(q), ReceiveEOF(q, p) PROVE IInv'
  <2>1. UNCHANGED <<toQuery, outbox, wire, torn, inbox, hasQueried, hasResponded, encAggr, run, proc>>
    BY <1>7 DEF ReceiveEOF
  <2>2. \A r \in Parties : InboxContents(r)'
    BY <2>1 DEF LocalInv, InboxContents
  <2>. QED BY <1>0, <2>1, <2>2, PairStutter, LocalTransport, PanicQuiet
<1>8. ASSUME NEW q \in Parties, NEW p \in Peers(q), ReadFails(q, p) PROVE IInv'
  <2>1. ~DeadlinesFire => LostMessage
    <3>1. p \in Parties /\ q \in Peers(p)
      BY DEF Peers
    <3>2. torn[p][q] => outbox[p][q] # <<>>
      BY <3>1 DEF LocalInv
    <3>. QED BY <1>8, <3>1, <3>2, AllRead DEF ReadFails
  <2>. QED BY <1>3, <1>8, <2>1 DEF ReadFails
<1>9. ASSUME NEW p \in Parties, NEW q \in Peers(p), WriteFails(p, q) PROVE IInv'
  <2>1. ~DeadlinesFire => LostMessage
    BY <1>9, AllRead DEF WriteFails, Peers
  <2>. QED BY <1>3, <1>9, <2>1 DEF WriteFails
<1>10. ASSUME NEW p \in Parties, Exit(p) PROVE IInv'
  BY <1>3, <1>10 DEF Exit
<1>11. ASSUME UNCHANGED vars PROVE IInv'
  <2>1. UNCHANGED <<toQuery, outbox, wire, torn, inbox, hasQueried, hasResponded, encAggr, run, proc>>
    BY <1>11 DEF vars
  <2>2. \A r \in Parties : InboxContents(r)'
    BY <2>1 DEF LocalInv, InboxContents
  <2>. QED BY <1>0, <2>1, <2>2, PairStutter, LocalTransport, PanicQuiet
<1>. QED BY <1>1, <1>2, <1>4, <1>5, <1>6, <1>7, <1>8, <1>9, <1>10, <1>11 DEF Next, Step

THEOREM Invariant == Spec => []IInv
BY InvInit, InvNext, PTL DEF Spec

-----------------------------------------------------------------------------
(* The safety properties.                                                  *)

\* Whatever the interleaving, a response of a peer is handled only after the
\* query of that peer: the check for the end of the round, which the query
\* branch of Run skips, is never skipped for the last message.
THEOREM QueriesComeFirst == Spec => []QueryBeforeResponse
<1>1. IInv => QueryBeforeResponse
  <2>. SUFFICES ASSUME IInv, NEW p \in Parties, NEW q \in hasResponded[p]
                PROVE  q \in hasQueried[p]
    BY DEF QueryBeforeResponse
  <2>1. q \in Peers(p)
    BY DEF IInv, LocalInv, TypeOK, Peers
  <2>. QED BY <2>1 DEF IInv, PairInv, Pair, Order, Peers
<1>. QED BY <1>1, Invariant, PTL

\* No party waits for messages after its round is complete.
THEOREM NoCompletionMissed == Spec => []CompletionNotMissed
<1>1. IInv => CompletionNotMissed
  BY DEF IInv
<1>. QED BY <1>1, Invariant, PTL

\* The aggregate that a party decrypts holds each cross term a_p * b_q + m_q
\* exactly once and nothing else, for every number of parties.
THEOREM AggregatesExact == Spec => []AggregateExact
<1>1. IInv => AggregateExact
  <2>. SUFFICES ASSUME IInv, NEW p \in Parties, run[p] = "returned", NEW t \in Products
                PROVE  encAggr[p][t] = IF t.a = p /\ t.mask = p /\ t.b # p THEN 1 ELSE 0
    BY DEF AggregateExact
  <2>1. encAggr[p][t] = IF t.a = p /\ t.mask = p /\ t.b \in hasResponded[p] THEN 1 ELSE 0
    BY DEF IInv, LocalInv, Aggregate
  <2>2. t.b \in hasResponded[p] <=> t.b # p
    BY DEF IInv, LocalInv, IsComplete, Peers, Products
  <2>. QED BY <2>1, <2>2
<1>. QED BY <1>1, Invariant, PTL

\* A party that returns leaves no query unanswered.
THEOREM NoQueryIsLeft == Spec => []NoQueryLeftBehind
<1>1. IInv => NoQueryLeftBehind
  <2>. SUFFICES ASSUME IInv, NEW p \in Parties, run[p] = "returned"
                PROVE  /\ \A i \in DOMAIN inbox[p] : ~inbox[p][i].Query
                       /\ \A q \in Peers(p) :
                            /\ \A i \in DOMAIN wire[q][p] : ~wire[q][p][i].Query
                            /\ \A i \in DOMAIN outbox[q][p] : ~outbox[q][p][i].Query
    BY DEF NoQueryLeftBehind
  <2>1. ASSUME NEW q \in Peers(p)
        PROVE  /\ ~Has(inbox[p], QueryMsg(q))
               /\ ~Has(wire[q][p], QueryMsg(q))
               /\ ~Has(outbox[q][p], QueryMsg(q))
    <3>1. q \in hasQueried[p] /\ Pair(q, p)
      BY PairTypes DEF IInv, LocalInv, IsComplete
    <3>. QED BY <3>1 DEF Pair, QueryPlace
  <2>2. ASSUME NEW q, NEW m \in Sent(q, p), m # QueryMsg(q) PROVE ~m.Query
    BY <2>2 DEF Sent, Answer, ResponseMsg
  <2>3. ASSUME NEW i \in DOMAIN inbox[p] PROVE ~inbox[p][i].Query
    <3>1. inbox[p] \in Seq(UNION {Sent(q, p) : q \in Peers(p)})
      BY DEF IInv, LocalInv, InboxContents
    <3>2. inbox[p][i] \in UNION {Sent(q, p) : q \in Peers(p)}
      BY <3>1, ElementOfSeq, LenProperties
    <3>3. PICK q \in Peers(p) : inbox[p][i] \in Sent(q, p)
      BY <3>2
    <3>4. inbox[p][i] # QueryMsg(q)
      BY <2>1 DEF Has
    <3>. QED BY <2>2, <3>3, <3>4
  <2>4. ASSUME NEW q \in Peers(p)
        PROVE  /\ \A i \in DOMAIN wire[q][p] : ~wire[q][p][i].Query
               /\ \A i \in DOMAIN outbox[q][p] : ~outbox[q][p][i].Query
    <3>1. wire[q][p] \in Seq(Sent(q, p)) /\ outbox[q][p] \in Seq(Sent(q, p))
      BY PairTypes DEF IInv
    <3>2. ASSUME NEW s \in Seq(Sent(q, p)), ~Has(s, QueryMsg(q)), NEW i \in DOMAIN s
          PROVE  ~s[i].Query
      <4>1. s[i] \in Sent(q, p)
        BY ElementOfSeq, LenProperties
      <4>. QED BY <2>2, <3>2, <4>1 DEF Has
    <3>. QED BY <2>1, <3>1, <3>2
  <2>. QED BY <2>3, <2>4
<1>. QED BY <1>1, Invariant, PTL

\* Without a read of 20 s, whatever panics does so because some party exited
\* before its last messages were written.
THEOREM PanicsComeFromLosses == Spec => []PanicOnlyAfterLoss
<1>1. IInv => PanicOnlyAfterLoss
  BY DEF IInv
<1>. QED BY <1>1, Invariant, PTL

-----------------------------------------------------------------------------
(* Refinement.                                                             *)

LEMMA RefinesInit == Init => Exchange!ExchangeInit
BY DEF Init, Exchange!ExchangeInit

LEMMA RefinesNext == IInv /\ [Next]_vars => [Exchange!ExchangeNext]_(Exchange!exchangeVars)
<1>. SUFFICES ASSUME IInv, [Next]_vars PROVE [Exchange!ExchangeNext]_(Exchange!exchangeVars)
  OBVIOUS
<1>. USE DEF IInv
<1>1. ASSUME NEW p \in Parties, HandleQuery(p) PROVE Exchange!ExchangeNext
  <2>1. PICK q \in Peers(p) :
          /\ Head(inbox[p]).PartyID = q /\ Head(inbox[p]) = QueryMsg(q) /\ inbox[p] # <<>>
    BY <1>1, HeadOfInbox DEF HandleQuery, Listening
  <2>2. q \notin hasQueried[p]
    BY <2>1, HeadStage
  <2>3. hasQueried' = [hasQueried EXCEPT ![p] = @ \cup {q}] /\ UNCHANGED <<hasResponded, run>>
    BY <1>1, <2>1 DEF HandleQuery
  <2>4. Exchange!GiveAnswer(p, q)
    BY <2>2, <2>3 DEF Exchange!GiveAnswer
  <2>. QED BY <2>4 DEF Exchange!ExchangeNext, Exchange!Peers, Peers
<1>2. ASSUME NEW p \in Parties, HandleResponse(p) PROVE Exchange!ExchangeNext
  <2>1. PICK q \in Peers(p) :
          /\ Head(inbox[p]).PartyID = q /\ Head(inbox[p]) = Answer(q, p) /\ inbox[p] # <<>>
    BY <1>2, HeadOfInbox DEF HandleResponse, Listening
  <2>2. q \notin hasResponded[p] /\ q \in hasQueried[p] /\ q \in Parties
    BY <2>1, HeadStage DEF Peers
  <2>3. p \in hasQueried[q]
    <3>1. inbox[p] \in Seq(UNION {Sent(r, p) : r \in Peers(p)}) /\ Pair(q, p)
      BY <2>1, PairTypes
    <3>2. Has(inbox[p], Answer(q, p))
      BY <2>1, <3>1, HasTail
    <3>. QED BY <3>1, <3>2 DEF Pair, AnswerPlace
  <2>4. /\ hasResponded' = [hasResponded EXCEPT ![p] = @ \cup {q}]
        /\ hasQueried' = hasQueried
        /\ run' = [run EXCEPT ![p] = IF IsComplete(p, hasQueried[p], hasResponded[p] \cup {q})
                                     THEN "returned" ELSE @]
        /\ run[p] = "listening"
    BY <1>2, <2>1 DEF HandleResponse, Listening
  <2>5. IsComplete(p, hasQueried[p], hasResponded[p] \cup {q})
          <=> hasResponded[p] \cup {q} = Peers(p)
    <3>1. hasResponded[p] \cup {q} \subseteq Peers(p)
      BY <2>1 DEF LocalInv, TypeOK, Peers
    <3>2. \A r \in hasResponded[p] \cup {q} : r \in hasQueried[p]
      <4>. SUFFICES ASSUME NEW r \in hasResponded[p] PROVE r \in hasQueried[p]
        BY <2>2
      <4>1. r \in Peers(p)
        BY <3>1
      <4>. QED BY <4>1, PairTypes DEF Pair, Order
    <3>. QED BY <3>1, <3>2 DEF IsComplete
  <2>6. {r \in Parties : run'[r] = "returned"}
          = IF hasResponded[p] \cup {q} = Peers(p)
            THEN {r \in Parties : run[r] = "returned"} \cup {p}
            ELSE {r \in Parties : run[r] = "returned"}
    BY <2>4, <2>5 DEF TypeOK
  <2>7. Exchange!Collect(p, q)
    BY <2>2, <2>3, <2>4, <2>6 DEF Exchange!Collect, Exchange!Peers, Peers
  <2>. QED BY <2>1, <2>7 DEF Exchange!ExchangeNext, Exchange!Peers, Peers
<1>3. ASSUME UNCHANGED <<hasQueried, hasResponded, run>> PROVE UNCHANGED Exchange!exchangeVars
  BY <1>3 DEF Exchange!exchangeVars
<1>. QED BY <1>1, <1>2, <1>3
         DEF Next, Step, SendQuery, Send, Receive, ReceiveEOF, ReadFails, WriteFails,
             Exit, End, vars

\* The pairwise protocol implements the exchange: no answer is used before it
\* was given, none twice, and a party finishes exactly with its last answer.
THEOREM Refinement == Spec => ImplementsExchange
BY RefinesInit, RefinesNext, Invariant, PTL DEF Spec, Exchange!ExchangeSpec, ImplementsExchange

-----------------------------------------------------------------------------
(* The values of the answers, in TripleShares.                             *)

\* What is used of the constants.
ValuesAssumption ==
  /\ T \in Nat \ {0, 1} /\ N \in Nat \ {0}
  /\ Word \in Nat /\ T + T <= Word /\ N <= Word
  /\ \A p \in Parties : Samples[p] \subseteq [1 .. N -> 0 .. T - 1]
  /\ Asked \subseteq 0 .. Word - 1
  /\ IsFiniteSet(Parties)

\* The assumptions of TripleShares, for finitely many parties.
LEMMA ValuesAssumed ==
  ASSUME IsFiniteSet(Parties)
  PROVE  ValuesAssumption
BY TAssumption, NAssumption, WordAssumption, SamplesAssumption, AskedAssumption DEF ValuesAssumption

\* A set of natural numbers has a least element.
LEMMA LeastNat ==
  ASSUME NEW S, S \subseteq Nat, S # {}
  PROVE  \E x \in S : \A y \in S : x <= y
<1>1. PICK x \in S : \A y \in S : ~(<<y, x>> \in OpToRel(<, Nat))
  BY NatLessThanWellFounded, WFMin
<1>2. \A y \in S : ~(y < x)
  BY <1>1 DEF OpToRel
<1>3. ASSUME NEW y \in S PROVE x <= y
  <2>1. x \in Nat /\ y \in Nat /\ ~(y < x)
    BY <1>2
  <2>. QED BY ONLY <2>1
<1>. QED BY <1>3

pick(s) == CHOOSE x \in s : TRUE

\* W contains a subset of X whenever it contains all the smaller ones.
Hereditary(X, W) ==
  \A s \in SUBSET X : (\A t \in SUBSET X : t \subseteq s /\ t # s => t \in W) => s \in W

\* Induction over the subsets of a finite set.
LEMMA SubsetInduction ==
  ASSUME NEW X, IsFiniteSet(X), NEW W, Hereditary(X, W), NEW s \in SUBSET X
  PROVE  s \in W
<1>. DEFINE Wrong == {t \in SUBSET X : t \notin W}
<1>. SUFFICES ASSUME Wrong # {} PROVE FALSE
  OBVIOUS
<1>1. Wrong \subseteq FiniteSubsetsOf(X)
  BY FS_Subset DEF FiniteSubsetsOf
<1>2. PICK t \in Wrong : \A u \in Wrong : ~(<<u, t>> \in StrictSubsetOrdering(X))
  BY <1>1, FS_StrictSubsetOrderingWellFounded, WFMin
<1>3. \A u \in SUBSET X : u \subseteq t /\ u # t => u \in W
  BY <1>2 DEF StrictSubsetOrdering
<1>. QED BY <1>2, <1>3 DEF Hereditary

\* CHOOSE takes an element of the set.
LEMMA PickIn ==
  ASSUME NEW s, s # {}
  PROVE  pick(s) \in s
BY DEF pick

\* F is the fold of step over the subsets of X.
IsFold(F, X, base, step) ==
  \A s \in SUBSET X : F[s] = IF s = {} THEN base ELSE step[<<pick(s), F[s \ {pick(s)}]>>]

\* There is at most one fold.
LEMMA FoldUnique ==
  ASSUME NEW X, IsFiniteSet(X), NEW base, NEW step, NEW F, IsFold(F, X, base, step),
         NEW G, IsFold(G, X, base, step), NEW s \in SUBSET X
  PROVE  F[s] = G[s]
<1>. DEFINE W == {t \in SUBSET X : F[t] = G[t]}
<1>1. ASSUME NEW t \in SUBSET X, \A u \in SUBSET X : u \subseteq t /\ u # t => u \in W
      PROVE  t \in W
  <2>1. CASE t = {}
    BY <2>1 DEF IsFold
  <2>2. CASE t # {}
    <3>. DEFINE x == pick(t)
    <3>1. x \in t
      BY <2>2, PickIn
    <3>. HIDE DEF x
    <3>2. F[t \ {x}] = G[t \ {x}]
      BY <1>1, <3>1
    <3>3. F[t] = step[<<x, F[t \ {x}]>>] /\ G[t] = step[<<x, G[t \ {x}]>>]
      BY <2>2 DEF IsFold, x
    <3>. QED BY <3>2, <3>3
  <2>. QED BY <2>1, <2>2
<1>2. Hereditary(X, W)
  BY <1>1 DEF Hereditary
<1>. HIDE DEF W
<1>3. s \in W
  BY <1>2, SubsetInduction
<1>. QED BY <1>3 DEF W

\* Up to a cardinality, F is the fold of step.
IsFoldUpTo(k, F, X, base, step) ==
  \A s \in SUBSET X : Cardinality(s) <= k =>
     F[s] = IF s = {} THEN base ELSE step[<<pick(s), F[s \ {pick(s)}]>>]

\* Cardinalities of subsets; taking the picked element away.
LEMMA SmallerSubset ==
  ASSUME NEW X, IsFiniteSet(X), NEW s \in SUBSET X
  PROVE  /\ Cardinality(s) \in Nat /\ Cardinality(s) <= Cardinality(X)
         /\ s # {} => Cardinality(s \ {pick(s)}) = Cardinality(s) - 1
         /\ Cardinality(s) = 0 => s = {}
<1>1. IsFiniteSet(s) /\ Cardinality(s) <= Cardinality(X)
  BY FS_Subset
<1>2. Cardinality(s) \in Nat /\ (Cardinality(s) = 0 <=> s = {})
  BY <1>1, FS_CardinalityType, FS_EmptySet
<1>3. ASSUME s # {} PROVE Cardinality(s \ {pick(s)}) = Cardinality(s) - 1
  BY <1>1, <1>3, PickIn, FS_RemoveElement
<1>. QED BY <1>1, <1>2, <1>3

\* Folds exist: from one cardinality to the next.
LEMMA FoldExists ==
  ASSUME NEW X, IsFiniteSet(X), NEW V, NEW base \in V, NEW step \in [X \X V -> V]
  PROVE  \E F \in [SUBSET X -> V] : IsFold(F, X, base, step)
<1>. DEFINE Triple == {k \in Nat : ~ \E F \in [SUBSET X -> V] : IsFoldUpTo(k, F, X, base, step)}
<1>1. 0 \notin Triple
  <2>. DEFINE F == [s \in SUBSET X |-> base]
  <2>1. F \in [SUBSET X -> V]
    OBVIOUS
  <2>2. IsFoldUpTo(0, F, X, base, step)
    <3>1. ASSUME NEW s \in SUBSET X, Cardinality(s) <= 0 PROVE s = {}
      <4>1. Cardinality(s) \in Nat
        BY SmallerSubset
      <4>2. Cardinality(s) = 0
        BY <3>1, <4>1
      <4>. QED BY <4>2, SmallerSubset
    <3>2. \A s \in SUBSET X : F[s] = base
      OBVIOUS
    <3>. HIDE DEF F
    <3>. QED BY <3>1, <3>2 DEF IsFoldUpTo
  <2>. QED BY <2>1, <2>2
<1>2. ASSUME NEW k \in Nat, k \notin Triple PROVE k + 1 \notin Triple
  <2>1. PICK G \in [SUBSET X -> V] : IsFoldUpTo(k, G, X, base, step)
    BY <1>2
  <2>. DEFINE F == [s \in SUBSET X |-> IF s = {} THEN base ELSE step[<<pick(s), G[s \ {pick(s)}]>>]]
  <2>2. ASSUME NEW s \in SUBSET X, s # {}
        PROVE  s \ {pick(s)} \in SUBSET X /\ step[<<pick(s), G[s \ {pick(s)}]>>] \in V
    BY <2>2, PickIn
  <2>3. F \in [SUBSET X -> V]
    BY <2>2
  <2>4. ASSUME NEW s \in SUBSET X, Cardinality(s) <= k PROVE F[s] = G[s]
    BY <2>1, <2>4 DEF IsFoldUpTo
  <2>5. IsFoldUpTo(k + 1, F, X, base, step)
    <3>. SUFFICES ASSUME NEW s \in SUBSET X, Cardinality(s) <= k + 1
                  PROVE  F[s] = IF s = {} THEN base ELSE step[<<pick(s), F[s \ {pick(s)}]>>]
      BY DEF IsFoldUpTo
    <3>1. CASE s = {}
      BY <3>1
    <3>2. CASE s # {}
      <4>1. Cardinality(s \ {pick(s)}) <= k
        BY <3>2, SmallerSubset
      <4>2. F[s \ {pick(s)}] = G[s \ {pick(s)}]
        BY <2>2, <2>4, <3>2, <4>1
      <4>. QED BY <3>2, <4>2
    <3>. QED BY <3>1, <3>2
  <2>. HIDE DEF F
  <2>. QED BY <2>3, <2>5
<1>3. Triple = {}
  <2>. SUFFICES ASSUME Triple # {} PROVE FALSE
    OBVIOUS
  <2>. HIDE DEF Triple
  <2>0. Triple \subseteq Nat
    BY DEF Triple
  <2>1. PICK k \in Triple : \A j \in Triple : k <= j
    BY <2>0, LeastNat
  <2>2. k - 1 \in Nat /\ k - 1 \notin Triple
    BY <1>1, <2>0, <2>1
  <2>3. k = (k - 1) + 1
    BY <2>0
  <2>. QED BY <1>2, <2>1, <2>2, <2>3
<1>4. Cardinality(X) \in Nat
  BY FS_CardinalityType
<1>5. PICK F \in [SUBSET X -> V] : IsFoldUpTo(Cardinality(X), F, X, base, step)
  BY <1>3, <1>4
<1>6. IsFold(F, X, base, step)
  BY <1>5, SmallerSubset DEF IsFoldUpTo, IsFold
<1>. QED BY <1>6

-----------------------------------------------------------------------------
(* Sums over sets of parties.                                              *)

Adding(f) == [z \in Parties \X Int |-> f[z[1]] + z[2]]

\* SumOf(f)[s]: the sum of f[p] for all p in s.
SumOf(f) == CHOOSE F \in [SUBSET Parties -> Int] : IsFold(F, Parties, 0, Adding(f))

\* SumOf unfolds: nothing, or the picked element and the rest.
LEMMA SumFacts ==
  ASSUME IsFiniteSet(Parties), NEW f \in [Parties -> Int]
  PROVE  /\ SumOf(f) \in [SUBSET Parties -> Int]
         /\ SumOf(f)[{}] = 0
         /\ \A s \in SUBSET Parties : s # {} =>
               SumOf(f)[s] = f[pick(s)] + SumOf(f)[s \ {pick(s)}]
<1>1. Adding(f) \in [Parties \X Int -> Int]
  BY DEF Adding
<1>2. \E F \in [SUBSET Parties -> Int] : IsFold(F, Parties, 0, Adding(f))
  <2>1. 0 \in Int
    OBVIOUS
  <2>. DEFINE step == Adding(f)
  <2>2. step \in [Parties \X Int -> Int]
    BY <1>1
  <2>. HIDE DEF step
  <2>3. \E F \in [SUBSET Parties -> Int] : IsFold(F, Parties, 0, step)
    BY <2>1, <2>2, FoldExists
  <2>. QED BY <2>3 DEF step
<1>3. SumOf(f) \in [SUBSET Parties -> Int] /\ IsFold(SumOf(f), Parties, 0, Adding(f))
  BY <1>2 DEF SumOf
<1>. DEFINE F == SumOf(f)
<1>. HIDE DEF F
<1>4. F \in [SUBSET Parties -> Int] /\ IsFold(F, Parties, 0, Adding(f))
  BY <1>3 DEF F
<1>5. ASSUME NEW s \in SUBSET Parties, s # {}
      PROVE  F[s] = f[pick(s)] + F[s \ {pick(s)}]
  <2>1. pick(s) \in Parties /\ F[s \ {pick(s)}] \in Int
    BY <1>4, <1>5, PickIn
  <2>2. Adding(f)[<<pick(s), F[s \ {pick(s)}]>>] = f[pick(s)] + F[s \ {pick(s)}]
    BY <2>1 DEF Adding
  <2>. QED BY <1>4, <1>5, <2>2 DEF IsFold
<1>6. F[{}] = 0
  BY <1>4 DEF IsFold
<1>. QED BY <1>4, <1>5, <1>6 DEF F

\* Any element can be taken first.
LEMMA SumRemove ==
  ASSUME IsFiniteSet(Parties), NEW f \in [Parties -> Int], NEW s \in SUBSET Parties, NEW x \in s
  PROVE  SumOf(f)[s] = f[x] + SumOf(f)[s \ {x}]
<1>. DEFINE F == SumOf(f)
            W == {t \in SUBSET Parties : \A y \in t : F[t] = f[y] + F[t \ {y}]}
<1>0. /\ F \in [SUBSET Parties -> Int]
      /\ \A t \in SUBSET Parties : t # {} => F[t] = f[pick(t)] + F[t \ {pick(t)}]
  BY SumFacts
<1>. HIDE DEF F
<1>1. ASSUME NEW t \in SUBSET Parties, \A u \in SUBSET Parties : u \subseteq t /\ u # t => u \in W
      PROVE  t \in W
  <2>. SUFFICES ASSUME NEW y \in t PROVE F[t] = f[y] + F[t \ {y}]
    OBVIOUS
  <2>. DEFINE z == pick(t)
  <2>1. z \in t /\ F[t] = f[z] + F[t \ {z}]
    BY <1>0, PickIn
  <2>. HIDE DEF z
  <2>2. CASE y = z
    BY <2>1, <2>2
  <2>3. CASE y # z
    <3>. DEFINE rest == (t \ {z}) \ {y}
    <3>1. t \ {z} \in W /\ t \ {y} \in W
      BY <1>1, <2>1
    <3>2. F[t \ {z}] = f[y] + F[rest]
      BY <2>3, <3>1
    <3>3. (t \ {y}) \ {z} = rest /\ rest \in SUBSET Parties
      OBVIOUS
    <3>4. F[t \ {y}] = f[z] + F[(t \ {y}) \ {z}]
      BY <2>1, <2>3, <3>1
    <3>5. F[t \ {y}] = f[z] + F[rest]
      BY <3>3, <3>4
    <3>6. f[y] \in Int /\ f[z] \in Int /\ F[rest] \in Int
      BY <1>0, <2>1, <3>3
    <3>. HIDE DEF rest
    <3>. QED BY ONLY <2>1, <3>2, <3>5, <3>6
  <2>. QED BY <2>2, <2>3
<1>2. Hereditary(Parties, W)
  BY <1>1 DEF Hereditary
<1>. HIDE DEF W
<1>3. s \in W
  BY <1>2, SubsetInduction
<1>. QED BY <1>3 DEF W, F

\* Sums are linear.
Linear(h, f, k, g, s) == \A x \in s : h[x] = f[x] + k * g[x]

LEMMA SumLinear ==
  ASSUME IsFiniteSet(Parties), NEW k \in Int,
         NEW f \in [Parties -> Int], NEW g \in [Parties -> Int], NEW h \in [Parties -> Int],
         NEW s \in SUBSET Parties, Linear(h, f, k, g, s)
  PROVE  SumOf(h)[s] = SumOf(f)[s] + k * SumOf(g)[s]
<1>. DEFINE F == SumOf(f)
            G == SumOf(g)
            H == SumOf(h)
            W == {t \in SUBSET Parties : t \subseteq s => H[t] = F[t] + k * G[t]}
<1>1. /\ F \in [SUBSET Parties -> Int] /\ G \in [SUBSET Parties -> Int]
      /\ F[{}] = 0 /\ G[{}] = 0 /\ H[{}] = 0
  BY SumFacts
<1>2. ASSUME NEW t \in SUBSET Parties, NEW x \in t
      PROVE  /\ F[t] = f[x] + F[t \ {x}] /\ G[t] = g[x] + G[t \ {x}]
             /\ H[t] = h[x] + H[t \ {x}]
  <2>1. SumOf(f)[t] = f[x] + SumOf(f)[t \ {x}]
    BY SumRemove
  <2>2. SumOf(g)[t] = g[x] + SumOf(g)[t \ {x}]
    BY SumRemove
  <2>3. SumOf(h)[t] = h[x] + SumOf(h)[t \ {x}]
    BY SumRemove
  <2>. QED BY <2>1, <2>2, <2>3
<1>. HIDE DEF F, G, H
<1>3. ASSUME NEW t \in SUBSET Parties, \A u \in SUBSET Parties : u \subseteq t /\ u # t => u \in W,
             t \subseteq s
      PROVE  H[t] = F[t] + k * G[t]
  <2>1. CASE t = {}
    BY <1>1, <2>1
  <2>2. ASSUME NEW x \in t PROVE H[t] = F[t] + k * G[t]
    <3>. DEFINE rest == t \ {x}
    <3>1. rest \in W /\ rest \in SUBSET Parties /\ rest \subseteq s
      BY <1>3
    <3>. HIDE DEF rest
    <3>2. H[rest] = F[rest] + k * G[rest]
      BY <3>1
    <3>3. h[x] = f[x] + k * g[x]
      BY <1>3 DEF Linear
    <3>4. F[t] = f[x] + F[rest] /\ G[t] = g[x] + G[rest] /\ H[t] = h[x] + H[rest]
      BY <1>2 DEF rest
    <3>5. f[x] \in Int /\ g[x] \in Int /\ F[rest] \in Int /\ G[rest] \in Int
      BY <1>1, <3>1
    <3>6. k * (g[x] + G[rest]) = k * g[x] + k * G[rest] /\ k * g[x] \in Int /\ k * G[rest] \in Int
      BY ONLY <3>5, k \in Int
    <3>. QED BY ONLY <3>2, <3>3, <3>4, <3>5, <3>6
  <2>. QED BY <2>1, <2>2
<1>4. Hereditary(Parties, W)
  BY <1>3 DEF Hereditary
<1>. HIDE DEF W
<1>5. s \in W
  BY <1>4, SubsetInduction
<1>. QED BY <1>5 DEF W, F, G, H

\* The same for all parties.
LEMMA SumLinearAll ==
  ASSUME IsFiniteSet(Parties), NEW k \in Int,
         NEW f \in [Parties -> Int], NEW g \in [Parties -> Int], NEW h \in [Parties -> Int],
         Linear(h, f, k, g, Parties)
  PROVE  SumOf(h)[Parties] = SumOf(f)[Parties] + k * SumOf(g)[Parties]
<1>1. Parties \in SUBSET Parties
  OBVIOUS
<1>. QED BY <1>1, SumLinear

\* A double sum can be taken in both orders.
LEMMA SumExchange ==
  ASSUME IsFiniteSet(Parties), NEW g \in [Parties -> [Parties -> Int]]
  PROVE  SumOf([x \in Parties |-> SumOf(g[x])[Parties]])[Parties] =
         SumOf([y \in Parties |-> SumOf([x \in Parties |-> g[x][y]])[Parties]])[Parties]
<1>. DEFINE rows == [x \in Parties |-> SumOf(g[x])[Parties]]
            column(y) == [x \in Parties |-> g[x][y]]
            columns(t) == [y \in Parties |-> SumOf(column(y))[t]]
            W == {t \in SUBSET Parties : SumOf(rows)[t] = SumOf(columns(t))[Parties]}
<1>1. \A x \in Parties : g[x] \in [Parties -> Int] /\ column(x) \in [Parties -> Int]
  OBVIOUS
<1>2. rows \in [Parties -> Int] /\ \A t \in SUBSET Parties : columns(t) \in [Parties -> Int]
  BY <1>1, SumFacts
<1>3. ASSUME NEW t \in SUBSET Parties, \A u \in SUBSET Parties : u \subseteq t /\ u # t => u \in W
      PROVE  SumOf(rows)[t] = SumOf(columns(t))[Parties]
  <2>1. CASE t = {}
    <3>. DEFINE zero == [y \in Parties |-> 0]
    <3>1. zero \in [Parties -> Int] /\ Linear(zero, zero, 1, zero, Parties)
      BY DEF Linear
    <3>2. SumOf(rows)[t] = 0
      BY <1>2, <2>1, SumFacts
    <3>3. columns(t) = zero
      <4>1. ASSUME NEW y \in Parties PROVE SumOf(column(y))[t] = 0
        <5>. HIDE DEF column
        <5>. QED BY <1>1, <2>1, SumFacts
      <4>. HIDE DEF column
      <4>. QED BY <4>1
    <3>. HIDE DEF rows, columns, zero
    <3>4. SumOf(zero)[Parties] = SumOf(zero)[Parties] + 1 * SumOf(zero)[Parties]
      BY <3>1, SumLinearAll
    <3>5. SumOf(zero)[Parties] \in Int
      BY <3>1, SumFacts
    <3>6. SumOf(zero)[Parties] = 0
      <4>. DEFINE z == SumOf(zero)[Parties]
      <4>1. z \in Int /\ z = z + 1 * z
        BY <3>4, <3>5
      <4>. HIDE DEF z
      <4>2. z = 0
        BY <4>1
      <4>. QED BY <4>2 DEF z
    <3>. QED BY <3>2, <3>3, <3>6
  <2>2. ASSUME NEW x \in t PROVE SumOf(rows)[t] = SumOf(columns(t))[Parties]
    <3>. DEFINE rest == t \ {x}
    <3>1. rest \in W /\ rest \in SUBSET Parties /\ x \in Parties
      BY <1>3
    <3>2. SumOf(rows)[t] = rows[x] + SumOf(rows)[rest]
      BY <1>2, SumRemove
    <3>3. Linear(columns(t), columns(rest), 1, g[x], Parties)
      <4>1. ASSUME NEW y \in Parties PROVE column(y)[x] = g[x][y] /\ g[x][y] \in Int
        BY <3>1
      <4>. HIDE DEF column
      <4>2. ASSUME NEW y \in Parties
            PROVE  SumOf(column(y))[t] = column(y)[x] + SumOf(column(y))[t \ {x}]
        BY <1>1, SumRemove
      <4>. HIDE DEF rest
      <4>3. ASSUME NEW y \in Parties PROVE SumOf(column(y))[rest] \in Int
        BY <1>1, <3>1, SumFacts
      <4>4. ASSUME NEW y \in Parties
            PROVE  SumOf(column(y))[t] = SumOf(column(y))[rest] + 1 * g[x][y]
        <5>. DEFINE z == SumOf(column(y))[rest]
        <5>1. SumOf(column(y))[t] = g[x][y] + z /\ z \in Int /\ g[x][y] \in Int
          BY <4>1, <4>2, <4>3 DEF rest
        <5>. HIDE DEF z
        <5>2. SumOf(column(y))[t] = z + 1 * g[x][y]
          BY <5>1
        <5>. QED BY <5>2 DEF z
      <4>. QED BY <3>1, <4>4 DEF Linear
    <3>4. columns(t) \in [Parties -> Int] /\ columns(rest) \in [Parties -> Int] /\ g[x] \in [Parties -> Int]
      BY <1>1, <1>2, <3>1
    <3>5. SumOf(rows)[rest] = SumOf(columns(rest))[Parties]
      BY <3>1
    <3>6. rows[x] = SumOf(g[x])[Parties]
      BY <3>1
    <3>. HIDE DEF rows, columns, rest
    <3>7. SumOf(columns(t))[Parties] = SumOf(columns(rest))[Parties] + 1 * SumOf(g[x])[Parties]
      <4>. DEFINE f == columns(rest)
                  h == columns(t)
                  r == g[x]
                  k == 1
      <4>1. f \in [Parties -> Int] /\ h \in [Parties -> Int] /\ r \in [Parties -> Int]
            /\ Linear(h, f, k, r, Parties) /\ k \in Int
        BY <3>3, <3>4
      <4>. HIDE DEF f, h, r, k
      <4>2. SumOf(h)[Parties] = SumOf(f)[Parties] + k * SumOf(r)[Parties]
        BY <4>1, SumLinearAll
      <4>. QED BY <4>2 DEF f, h, r, k
    <3>8. SumOf(columns(rest))[Parties] \in Int /\ SumOf(g[x])[Parties] \in Int
      BY <3>4, SumFacts
    <3>. QED BY ONLY <3>2, <3>5, <3>6, <3>7, <3>8
  <2>. QED BY <2>1, <2>2
<1>4. Hereditary(Parties, W)
  BY <1>3 DEF Hereditary
<1>. HIDE DEF W
<1>5. Parties \in W
  BY <1>4, SubsetInduction
<1>. QED BY <1>5 DEF W

\* The sum of the community modules is this one.
LEMMA SumFunctionIsSum ==
  ASSUME IsFiniteSet(Parties), NEW f \in [Parties -> Int], NEW S \in SUBSET Parties
  PROVE  SumFunctionOnSet(f, S) = SumOf(f)[S]
<1>. DEFINE F == SumOf(f)
            Unfold(g) == [s \in SUBSET S |-> IF s = {} THEN 0 ELSE f[pick(s)] + g[s \ {pick(s)}]]
            G == CHOOSE g : g = Unfold(g)
            H == [s \in SUBSET S |-> F[s]]
            W == {t \in SUBSET Parties : t \subseteq S => G[t] = F[t]}
<1>1. /\ F \in [SUBSET Parties -> Int]
      /\ F[{}] = 0
      /\ \A s \in SUBSET Parties : s # {} => F[s] = f[pick(s)] + F[s \ {pick(s)}]
  BY SumFacts
<1>. HIDE DEF F
<1>2. H = Unfold(H)
  <2>1. ASSUME NEW s \in SUBSET S, s # {} PROVE H[s] = f[pick(s)] + H[s \ {pick(s)}]
    <3>1. s \ {pick(s)} \in SUBSET S /\ s \in SUBSET Parties
      OBVIOUS
    <3>. QED BY <1>1, <2>1, <3>1
  <2>2. H[{}] = 0
    BY <1>1
  <2>3. ASSUME NEW s \in SUBSET S
        PROVE  H[s] = IF s = {} THEN 0 ELSE f[pick(s)] + H[s \ {pick(s)}]
    BY <2>1, <2>2
  <2>4. H = [s \in SUBSET S |-> H[s]]
    OBVIOUS
  <2>. HIDE DEF H
  <2>. QED BY <2>3, <2>4
<1>3. G = Unfold(G)
  <2>. HIDE DEF Unfold, H
  <2>. QED BY <1>2
<1>4. SumFunctionOnSet(f, S) = G[S]
  BY DEF SumFunctionOnSet, FoldFunctionOnSet, MapThenFoldSet, pick
<1>. HIDE DEF G, H
<1>5. ASSUME NEW t \in SUBSET Parties, \A u \in SUBSET Parties : u \subseteq t /\ u # t => u \in W,
             t \subseteq S
      PROVE  G[t] = F[t]
  <2>1. CASE t = {}
    BY <1>1, <1>3, <2>1
  <2>2. CASE t # {}
    <3>1. pick(t) \in t
      BY <2>2, PickIn
    <3>2. G[t \ {pick(t)}] = F[t \ {pick(t)}]
      BY <1>5, <3>1
    <3>3. G[t] = f[pick(t)] + G[t \ {pick(t)}]
      BY <1>3, <1>5, <2>2
    <3>. QED BY <1>1, <2>2, <3>2, <3>3
  <2>. QED BY <2>1, <2>2
<1>6. Hereditary(Parties, W)
  BY <1>5 DEF Hereditary
<1>. HIDE DEF W
<1>7. S \in W
  BY <1>6, SubsetInduction
<1>. QED BY <1>4, <1>7 DEF W, F

-----------------------------------------------------------------------------
(* Numbers modulo T.                                                       *)

\* x and y are congruent modulo T.
Cong(x, y) == \E k \in Int : x = y + T * k

\* Congruence modulo T is reflexive, ...
LEMMA CongRefl ==
  ASSUME T \in Nat \ {0, 1}, NEW x \in Int
  PROVE  Cong(x, x)
<1>1. x = x + T * 0
  OBVIOUS
<1>. QED BY <1>1 DEF Cong

\* ... is kept by the modulus, ...
LEMMA CongShift ==
  ASSUME T \in Nat \ {0, 1}, NEW x \in Int
  PROVE  Cong(x - T, x) /\ Cong(x + T, x)
<1>1. T \in Int
  OBVIOUS
<1>2. x - T = x + T * (-1) /\ x + T = x + T * 1
  BY <1>1
<1>. QED BY <1>2 DEF Cong

\* ... is transitive, ...
LEMMA CongTrans ==
  ASSUME T \in Nat \ {0, 1}, NEW x \in Int, NEW y \in Int, NEW z \in Int, Cong(x, y), Cong(y, z)
  PROVE  Cong(x, z)
<1>1. PICK j \in Int : x = y + T * j
  BY DEF Cong
<1>2. PICK k \in Int : y = z + T * k
  BY DEF Cong
<1>3. T \in Int
  OBVIOUS
<1>4. T * (j + k) = T * j + T * k /\ T * j \in Int /\ T * k \in Int
  BY ONLY <1>3, j \in Int, k \in Int
<1>5. x = z + T * (k + j) /\ k + j \in Int
  BY ONLY <1>1, <1>2, <1>4, z \in Int, j \in Int, k \in Int
<1>. QED BY <1>5 DEF Cong

\* ... and is kept by sums and differences.
LEMMA CongSum ==
  ASSUME T \in Nat \ {0, 1}, NEW x \in Int, NEW y \in Int, NEW u \in Int, NEW v \in Int, Cong(x, y), Cong(u, v)
  PROVE  Cong(x + u, y + v) /\ Cong(x - u, y - v)
<1>1. PICK j \in Int : x = y + T * j
  BY DEF Cong
<1>2. PICK k \in Int : u = v + T * k
  BY DEF Cong
<1>3. T \in Int
  OBVIOUS
<1>4. /\ T * (j + k) = T * j + T * k /\ T * (j - k) = T * j - T * k
      /\ T * j \in Int /\ T * k \in Int
  BY ONLY <1>3, j \in Int, k \in Int
<1>5. x + u = (y + v) + T * (j + k) /\ x - u = (y - v) + T * (j - k) /\ j + k \in Int /\ j - k \in Int
  BY ONLY <1>1, <1>2, <1>4, y \in Int, v \in Int, j \in Int, k \in Int
<1>. QED BY <1>5 DEF Cong

\* A multiple of T that is not zero is at least T.
LEMMA TimesAtLeast ==
  ASSUME T \in Nat \ {0, 1}, NEW d \in Nat, d # 0
  PROVE  T * d \in Nat /\ T <= T * d
<1>1. T \in Nat /\ d - 1 \in Nat
  OBVIOUS
<1>2. T * (d - 1) \in Nat
  BY ONLY <1>1
<1>3. T * d = T * (d - 1) + T
  BY ONLY <1>1, d \in Nat
<1>. QED BY <1>1, <1>2, <1>3

\* A remainder determines the quotient.
LEMMA RemainderUnique ==
  ASSUME T \in Nat \ {0, 1}, NEW d \in Int, NEW e \in Int, NEW r \in 0 .. T - 1, NEW s \in 0 .. T - 1,
         T * d + r = T * e + s
  PROVE  r = s
<1>1. T \in Nat
  OBVIOUS
<1>2. /\ T * d \in Int /\ T * e \in Int
      /\ T * (d - e) = T * d - T * e /\ T * (e - d) = T * e - T * d
  BY ONLY <1>1, d \in Int, e \in Int
<1>3. CASE d > e
  <2>1. d - e \in Nat /\ d - e # 0
    BY <1>3
  <2>2. T <= T * (d - e)
    BY <2>1, TimesAtLeast
  <2>. QED BY <1>1, <1>2, <2>2
<1>4. CASE e > d
  <2>1. e - d \in Nat /\ e - d # 0
    BY <1>4
  <2>2. T <= T * (e - d)
    BY <2>1, TimesAtLeast
  <2>. QED BY <1>1, <1>2, <2>2
<1>5. CASE d = e
  BY <1>1, <1>2, <1>5
<1>. QED BY <1>3, <1>4, <1>5

\* Equal remainders.
LEMMA CongMod ==
  ASSUME T \in Nat \ {0, 1}, NEW x \in Int, NEW y \in Int
  PROVE  /\ x % T \in 0 .. T - 1 /\ Cong(x % T, x)
         /\ Cong(x, y) => x % T = y % T
<1>1. T \in Nat /\ T > 0
  OBVIOUS
<1>2. ASSUME NEW z \in Int
      PROVE  z % T \in 0 .. T - 1 /\ z \div T \in Int /\ z = (T * (z \div T)) + (z % T)
  BY <1>1
<1>. DEFINE d(z) == z \div T
            r(z) == z % T
<1>3. ASSUME NEW z \in Int PROVE r(z) \in 0 .. T - 1 /\ d(z) \in Int /\ z = T * d(z) + r(z)
  BY <1>2
<1>. HIDE DEF d, r
<1>4. Cong(r(x), x)
  <2>1. T * (0 - d(x)) = 0 - T * d(x) /\ T * d(x) \in Int
    BY <1>1, <1>3
  <2>2. r(x) \in 0 .. T - 1 /\ d(x) \in Int /\ x = T * d(x) + r(x)
    BY <1>3
  <2>3. r(x) = x + T * (0 - d(x)) /\ 0 - d(x) \in Int
    BY ONLY <1>1, <2>1, <2>2
  <2>. QED BY <2>3 DEF Cong
<1>5. ASSUME Cong(x, y) PROVE r(x) = r(y)
  <2>1. PICK k \in Int : x = y + T * k
    BY <1>5 DEF Cong
  <2>2. x = T * d(x) + r(x) /\ y = T * d(y) + r(y)
    BY <1>3
  <2>3. d(x) \in Int /\ d(y) \in Int /\ r(x) \in 0 .. T - 1 /\ r(y) \in 0 .. T - 1
    BY <1>3
  <2>4. T * (d(y) + k) = T * d(y) + T * k /\ T * d(y) \in Int /\ T * k \in Int
    BY ONLY <1>1, <2>3, k \in Int
  <2>5. T * d(x) + r(x) = T * (d(y) + k) + r(y)
    BY ONLY <1>1, <2>1, <2>2, <2>3, <2>4
  <2>6. d(y) + k \in Int
    BY ONLY <2>3, k \in Int
  <2>. QED BY <2>3, <2>5, <2>6, RemainderUnique
<1>. QED BY <1>3, <1>4, <1>5 DEF r

\* Sums of congruent numbers are congruent.
LEMMA SumCong ==
  ASSUME T \in Nat \ {0, 1}, IsFiniteSet(Parties), NEW f \in [Parties -> Int], NEW g \in [Parties -> Int],
         \A p \in Parties : Cong(f[p], g[p])
  PROVE  Cong(SumOf(f)[Parties], SumOf(g)[Parties])
<1>. DEFINE k == [p \in Parties |-> CHOOSE j \in Int : f[p] = g[p] + T * j]
<1>1. ASSUME NEW p \in Parties PROVE k[p] \in Int /\ f[p] = g[p] + T * k[p]
  BY DEF Cong
<1>2. k \in [Parties -> Int]
  BY <1>1
<1>3. Linear(f, g, T, k, Parties)
  BY <1>1 DEF Linear
<1>. HIDE DEF k
<1>4. T \in Int
  OBVIOUS
<1>5. SumOf(f)[Parties] = SumOf(g)[Parties] + T * SumOf(k)[Parties]
  BY <1>2, <1>3, <1>4, SumLinearAll
<1>6. SumOf(k)[Parties] \in Int
  BY <1>2, SumFacts
<1>. QED BY <1>5, <1>6 DEF Cong

-----------------------------------------------------------------------------
(* The vectors.                                                            *)

\* Below the modulus, % changes nothing.
LEMMA SmallMod ==
  ASSUME NEW k \in Nat \ {0}, NEW x \in 0 .. k - 1
  PROVE  x % k = x
OBVIOUS

\* CRed of a sum in machine words.
LEMMA ReducedSum ==
  ASSUME ValuesAssumption, NEW x \in 0 .. T + T - 1
  PROVE  /\ CRed(x % Word) \in Residues
         /\ Cong(CRed(x % Word), x)
<1>0. T \in Nat \ {0, 1} /\ Word \in Nat \ {0} /\ T + T <= Word
  BY DEF ValuesAssumption
<1>1. x \in 0 .. Word - 1 /\ x \in Int
  BY <1>0
<1>2. x % Word = x
  BY <1>0, <1>1, SmallMod
<1>3. CASE x >= T
  <2>1. CRed(x % Word) = x - T
    BY <1>2, <1>3 DEF CRed
  <2>2. x - T \in 0 .. T - 1
    BY <1>0, <1>3
  <2>3. Cong(x - T, x)
    BY <1>0, <1>1, CongShift
  <2>. QED BY <2>1, <2>2, <2>3 DEF Residues
<1>4. CASE ~(x >= T)
  <2>1. CRed(x % Word) = x
    BY <1>2, <1>4 DEF CRed
  <2>2. x \in 0 .. T - 1
    BY <1>0, <1>4
  <2>3. Cong(x, x)
    BY <1>0, <1>1, CongRefl
  <2>. QED BY <2>1, <2>2, <2>3 DEF Residues
<1>. QED BY <1>3, <1>4

\* addVec: a reduced vector, congruent to the sum.
LEMMA AddVec ==
  ASSUME ValuesAssumption, NEW x \in Vectors, NEW y \in Vectors
  PROVE  /\ addVec(x, y) \in Vectors
         /\ \A i \in 1 .. N : Cong(addVec(x, y)[i], x[i] + y[i])
<1>1. ASSUME NEW i \in 1 .. N
      PROVE  /\ CRed((x[i] + y[i]) % Word) \in Residues
             /\ Cong(CRed((x[i] + y[i]) % Word), x[i] + y[i])
  <2>1. x[i] \in 0 .. T - 1 /\ y[i] \in 0 .. T - 1
    BY DEF Vectors, Residues
  <2>2. x[i] + y[i] \in 0 .. T + T - 1
    BY <2>1 DEF ValuesAssumption
  <2>. QED BY <2>2, ReducedSum
<1>. QED BY <1>1 DEF addVec, Vectors

\* subVec: a reduced vector, congruent to the difference.
LEMMA SubVec ==
  ASSUME ValuesAssumption, NEW x \in Vectors, NEW y \in Vectors
  PROVE  /\ subVec(x, y) \in Vectors
         /\ \A i \in 1 .. N : Cong(subVec(x, y)[i], x[i] - y[i])
<1>1. ASSUME NEW i \in 1 .. N
      PROVE  /\ CRed((x[i] + (T - y[i])) % Word) \in Residues
             /\ Cong(CRed((x[i] + (T - y[i])) % Word), x[i] - y[i])
  <2>0. T \in Nat \ {0, 1}
    BY DEF ValuesAssumption
  <2>1. x[i] \in 0 .. T - 1 /\ y[i] \in 0 .. T - 1
    BY DEF Vectors, Residues
  <2>. DEFINE z == x[i] + (T - y[i])
              d == x[i] - y[i]
  <2>2. z \in 0 .. T + T - 1 /\ z = d + T /\ d \in Int /\ z \in Int
    BY <2>0, <2>1
  <2>. HIDE DEF z, d
  <2>3. CRed(z % Word) \in Residues /\ Cong(CRed(z % Word), z)
    BY <2>2, ReducedSum
  <2>4. Cong(z, d)
    BY <2>0, <2>2, CongShift
  <2>5. CRed(z % Word) \in Int
    BY <2>0, <2>3 DEF Residues
  <2>6. Cong(CRed(z % Word), d)
    BY <2>0, <2>2, <2>3, <2>4, <2>5, CongTrans
  <2>. QED BY <2>3, <2>6 DEF z, d
<1>. QED BY <1>1 DEF subVec, Vectors

\* mulVec: a reduced vector, congruent to the product.
LEMMA MulVec ==
  ASSUME ValuesAssumption, NEW x \in Vectors, NEW y \in Vectors
  PROVE  /\ mulVec(x, y) \in Vectors
         /\ \A i \in 1 .. N : Cong(mulVec(x, y)[i], x[i] * y[i])
<1>1. ASSUME NEW i \in 1 .. N
      PROVE  (x[i] * y[i]) % T \in Residues /\ Cong((x[i] * y[i]) % T, x[i] * y[i])
  <2>0. T \in Nat \ {0, 1}
    BY DEF ValuesAssumption
  <2>1. x[i] \in 0 .. T - 1 /\ y[i] \in 0 .. T - 1
    BY DEF Vectors, Residues
  <2>2. x[i] * y[i] \in Int
    BY <2>0, <2>1
  <2>. QED BY <2>0, <2>2, CongMod DEF Residues
<1>. QED BY <1>1 DEF mulVec, BRed, Vectors

\* The answer to p's query by r.
LEMMA AnswerValue ==
  ASSUME ValuesAssumption, SecretsTypeOK, NEW p \in Parties, NEW r \in Parties, p # r
  PROVE  /\ AnswerVec(r, p) \in Vectors
         /\ \A i \in 1 .. N : Cong(AnswerVec(r, p)[i], Terms(p, i)[r])
<1>1. a[p] \in Vectors /\ b[r] \in Vectors /\ masks[<<r, p>>] \in Vectors
  <2>1. <<r, p>> \in Pairs
    BY DEF Pairs
  <2>. QED BY <2>1 DEF SecretsTypeOK
<1>. DEFINE ab == mulVec(a[p], b[r])
            ans == addVec(ab, masks[<<r, p>>])
<1>2. ab \in Vectors /\ \A i \in 1 .. N : Cong(ab[i], a[p][i] * b[r][i])
  BY <1>1, MulVec
<1>. HIDE DEF ab
<1>3. ans \in Vectors /\ \A i \in 1 .. N : Cong(ans[i], ab[i] + masks[<<r, p>>][i])
  BY <1>1, <1>2, AddVec
<1>. HIDE DEF ans
<1>4. ASSUME NEW i \in 1 .. N PROVE Cong(ans[i], Terms(p, i)[r])
  <2>0. T \in Nat \ {0, 1}
    BY DEF ValuesAssumption
  <2>1. /\ a[p][i] \in 0 .. T - 1 /\ b[r][i] \in 0 .. T - 1 /\ masks[<<r, p>>][i] \in 0 .. T - 1
        /\ ab[i] \in 0 .. T - 1 /\ ans[i] \in 0 .. T - 1
    BY <1>1, <1>2, <1>3 DEF Vectors, Residues
  <2>. DEFINE x == a[p][i] * b[r][i]
              y == masks[<<r, p>>][i]
              z == ab[i]
              w == ans[i]
  <2>2. x \in Int /\ y \in Int /\ z \in Int /\ w \in Int /\ Cong(z, x) /\ Cong(w, z + y)
    BY <1>2, <1>3, <2>0, <2>1
  <2>3. Terms(p, i)[r] = x + y
    BY DEF Terms, Mask
  <2>. HIDE DEF x, y, z, w
  <2>4. Cong(y, y)
    BY <2>0, <2>2, CongRefl
  <2>5. Cong(z + y, x + y)
    BY <2>0, <2>2, <2>4, CongSum
  <2>6. z + y \in Int /\ x + y \in Int
    BY <2>2
  <2>7. Cong(w, x + y)
    BY <2>0, <2>2, <2>5, <2>6, CongTrans
  <2>. QED BY <2>3, <2>7 DEF w
<1>. QED BY <1>3, <1>4 DEF AnswerVec, ab, ans

-----------------------------------------------------------------------------
(* The sums of the invariant.                                              *)

\* Terms and masks are integers, with the own product and zero on the diagonal.
LEMMA TermsType ==
  ASSUME ValuesAssumption, SecretsTypeOK, NEW p \in Parties, NEW i \in 1 .. N
  PROVE  /\ Terms(p, i) \in [Parties -> Int]
         /\ Masks(p, i) \in [Parties -> Int]
         /\ Terms(p, i)[p] = a[p][i] * b[p][i]
         /\ Masks(p, i)[p] = 0
         /\ \A r \in Parties : r # p => Masks(p, i)[r] = masks[<<p, r>>][i]
         /\ a[p][i] \in Residues /\ b[p][i] \in Residues
<1>0. T \in Nat \ {0, 1}
  BY DEF ValuesAssumption
<1>1. ASSUME NEW r \in Parties
      PROVE  a[r][i] \in 0 .. T - 1 /\ b[r][i] \in 0 .. T - 1
  BY DEF SecretsTypeOK, Vectors, Residues
<1>2. ASSUME NEW r \in Parties, NEW s \in Parties PROVE Mask(r, s, i) \in Int
  <2>1. CASE r = s
    BY <2>1 DEF Mask
  <2>2. CASE r # s
    <3>1. <<r, s>> \in Pairs
      BY <2>2 DEF Pairs
    <3>2. masks[<<r, s>>] \in Vectors
      BY <3>1 DEF SecretsTypeOK
    <3>3. masks[<<r, s>>][i] \in 0 .. T - 1
      BY <3>2 DEF Vectors, Residues
    <3>. QED BY <1>0, <2>2, <3>3 DEF Mask
  <2>. QED BY <2>1, <2>2
<1>3. ASSUME NEW r \in Parties PROVE a[p][i] * b[r][i] \in Int
  BY <1>0, <1>1
<1>4. ASSUME NEW r \in Parties PROVE a[p][i] * b[r][i] + Mask(r, p, i) \in Int
  BY <1>2, <1>3
<1>5. Terms(p, i) \in [Parties -> Int]
  BY <1>4 DEF Terms
<1>6. Masks(p, i) \in [Parties -> Int]
  BY <1>2 DEF Masks
<1>7. Terms(p, i)[p] = a[p][i] * b[p][i]
  <2>1. Terms(p, i)[p] = a[p][i] * b[p][i] + 0
    BY DEF Terms, Mask
  <2>. QED BY <1>3, <2>1
<1>8. /\ Masks(p, i)[p] = 0
      /\ \A r \in Parties : r # p => Masks(p, i)[r] = masks[<<p, r>>][i]
  BY DEF Masks, Mask
<1>. QED BY <1>1, <1>5, <1>6, <1>7, <1>8 DEF Residues

\* The sum over one party.
LEMMA SumOne ==
  ASSUME IsFiniteSet(Parties), NEW f \in [Parties -> Int], NEW p \in Parties
  PROVE  SumOf(f)[{p}] = f[p]
<1>1. SumOf(f)[{p}] = f[p] + SumOf(f)[{p} \ {p}]
  BY SumRemove
<1>2. {p} \ {p} = {} /\ SumOf(f)[{}] = 0 /\ f[p] \in Int
  BY SumFacts
<1>. DEFINE S == SumOf(f)
<1>. HIDE DEF S
<1>3. S[{p} \ {p}] = 0
  BY <1>2 DEF S
<1>4. S[{p}] = f[p] + 0
  BY <1>1, <1>3 DEF S
<1>. QED BY <1>2, <1>4 DEF S

\* The sum over one more party.
LEMMA SumAdd ==
  ASSUME IsFiniteSet(Parties), NEW f \in [Parties -> Int], NEW s \in SUBSET Parties,
         NEW p \in Parties, p \notin s
  PROVE  /\ SumOf(f)[s \cup {p}] = f[p] + SumOf(f)[s]
         /\ SumOf(f)[s] \in Int /\ f[p] \in Int /\ SumOf(f)[s \cup {p}] \in Int
<1>1. (s \cup {p}) \ {p} = s /\ s \cup {p} \in SUBSET Parties /\ p \in s \cup {p}
  OBVIOUS
<1>2. SumOf(f)[s \cup {p}] = f[p] + SumOf(f)[(s \cup {p}) \ {p}]
  BY <1>1, SumRemove
<1>. QED BY <1>1, <1>2, SumFacts

\* What genInput leaves in c: the own product without the sentSum.
LEMMA MaskedProduct ==
  ASSUME ValuesAssumption, SecretsTypeOK, NEW p \in Parties
  PROVE  LET v == FoldSet(LAMBDA r, w : subVec(w, masks[<<p, r>>]),
                                 mulVec(a[p], b[p]), Peers(p))
         IN  /\ v \in Vectors
             /\ \A i \in 1 .. N :
                   Cong(v[i], a[p][i] * b[p][i] - SumOf(Masks(p, i))[Parties])
<1>. DEFINE X == Peers(p)
            base == mulVec(a[p], b[p])
            step == [z \in X \X Vectors |-> subVec(z[2], masks[<<p, z[1]>>])]
            Unfold(g) == [s \in SUBSET X |-> IF s = {} THEN base
                                           ELSE subVec(g[s \ {pick(s)}], masks[<<p, pick(s)>>])]
            G == CHOOSE g : g = Unfold(g)
<1>0. T \in Nat \ {0, 1} /\ IsFiniteSet(Parties)
  BY DEF ValuesAssumption
<1>1. X \subseteq Parties /\ p \notin X /\ X \cup {p} = Parties /\ IsFiniteSet(X)
  <2>1. X = Parties \ {p}
    BY DEF Peers
  <2>. QED BY <1>0, <2>1, FS_Subset
<1>2. a[p] \in Vectors /\ b[p] \in Vectors
  BY DEF SecretsTypeOK
<1>3. base \in Vectors /\ \A i \in 1 .. N : Cong(base[i], a[p][i] * b[p][i])
  BY <1>2, MulVec
<1>4. ASSUME NEW r \in X PROVE masks[<<p, r>>] \in Vectors
  <2>1. <<p, r>> \in Pairs
    BY <1>1 DEF Pairs
  <2>. QED BY <2>1 DEF SecretsTypeOK
<1>. HIDE DEF X, base
<1>5. ASSUME NEW r \in X, NEW w \in Vectors
      PROVE  subVec(w, masks[<<p, r>>]) \in Vectors
  BY <1>4, SubVec
<1>6. G = Unfold(G)
  <2>1. step \in [X \X Vectors -> Vectors]
    BY <1>5
  <2>2. PICK F \in [SUBSET X -> Vectors] : IsFold(F, X, base, step)
    <3>. HIDE DEF step
    <3>. QED BY <1>1, <1>3, <2>1, FoldExists
  <2>3. ASSUME NEW s \in SUBSET X, s # {}
        PROVE  F[s] = subVec(F[s \ {pick(s)}], masks[<<p, pick(s)>>])
    <3>1. pick(s) \in X /\ F[s \ {pick(s)}] \in Vectors
      BY <2>2, <2>3, PickIn
    <3>2. step[<<pick(s), F[s \ {pick(s)}]>>] = subVec(F[s \ {pick(s)}], masks[<<p, pick(s)>>])
      BY <3>1
    <3>3. F[s] = step[<<pick(s), F[s \ {pick(s)}]>>]
      <4>. HIDE DEF step
      <4>. QED BY <2>2, <2>3 DEF IsFold
    <3>. QED BY <3>2, <3>3
  <2>4. F[{}] = base
    <3>. HIDE DEF step
    <3>. QED BY <2>2 DEF IsFold
  <2>5. F = Unfold(F)
    BY <2>2, <2>3, <2>4
  <2>. HIDE DEF Unfold
  <2>. QED BY <2>5
<1>7. G[X] = FoldSet(LAMBDA r, w : subVec(w, masks[<<p, r>>]),
                            mulVec(a[p], b[p]), Peers(p))
  BY DEF FoldSet, MapThenFoldSet, pick, X, base
<1>. HIDE DEF G, step
<1>8. G[{}] = base /\ \A s \in SUBSET X : s # {} =>
         G[s] = subVec(G[s \ {pick(s)}], masks[<<p, pick(s)>>])
  BY <1>6
<1>. DEFINE Left(t, i) == a[p][i] * b[p][i] - SumOf(Masks(p, i))[t]
            W == {t \in SUBSET X : /\ G[t] \in Vectors
                                   /\ \A i \in 1 .. N : Cong(G[t][i], Left(t, i))}
<1>9. ASSUME NEW i \in 1 .. N
      PROVE  Masks(p, i) \in [Parties -> Int] /\ a[p][i] * b[p][i] \in Int
  <2>1. a[p][i] \in 0 .. T - 1 /\ b[p][i] \in 0 .. T - 1
    BY TermsType DEF Residues
  <2>. QED BY <1>0, <2>1, TermsType
<1>10. ASSUME NEW t \in SUBSET X, \A u \in SUBSET X : u \subseteq t /\ u # t => u \in W
       PROVE  t \in W
  <2>1. CASE t = {}
    <3>1. ASSUME NEW i \in 1 .. N PROVE Left(t, i) = a[p][i] * b[p][i]
      BY <1>0, <1>9, <2>1, SumFacts
    <3>2. G[t] = base
      BY <1>8, <2>1
    <3>. HIDE DEF Left
    <3>. QED BY <1>3, <3>1, <3>2
  <2>2. CASE t # {}
    <3>. DEFINE r == pick(t)
                rest == t \ {r}
    <3>1. r \in t /\ rest \in W /\ r \in X
      BY <1>10, <2>2, PickIn
    <3>2. G[t] = subVec(G[rest], masks[<<p, r>>])
      BY <1>8, <2>2
    <3>3. t = rest \cup {r} /\ r \notin rest /\ rest \in SUBSET Parties /\ r \in Parties /\ r # p
      BY <1>1, <3>1
    <3>. HIDE DEF r, rest
    <3>4. G[rest] \in Vectors /\ \A i \in 1 .. N : Cong(G[rest][i], Left(rest, i))
      BY <3>1
    <3>5. masks[<<p, r>>] \in Vectors
      BY <1>4, <3>1
    <3>6. G[t] \in Vectors /\ \A i \in 1 .. N : Cong(G[t][i], G[rest][i] - masks[<<p, r>>][i])
      BY <3>2, <3>4, <3>5, SubVec
    <3>7. ASSUME NEW i \in 1 .. N PROVE Cong(G[t][i], Left(t, i))
      <4>. DEFINE x == G[t][i]
                  y == G[rest][i]
                  z == masks[<<p, r>>][i]
                  S == SumOf(Masks(p, i))
                  d == a[p][i] * b[p][i]
      <4>0. /\ G[t] \in [1 .. N -> 0 .. T - 1] /\ G[rest] \in [1 .. N -> 0 .. T - 1]
            /\ masks[<<p, r>>] \in [1 .. N -> 0 .. T - 1]
        BY <3>4, <3>5, <3>6 DEF Vectors, Residues
      <4>1. x \in Int /\ y \in Int /\ z \in Int
        <5>1. x \in 0 .. T - 1 /\ y \in 0 .. T - 1 /\ z \in 0 .. T - 1
          BY <4>0
        <5>. QED BY <1>0, <5>1
      <4>2. S[rest \cup {r}] = Masks(p, i)[r] + S[rest] /\ S[rest] \in Int
        BY <1>0, <1>9, <3>3, SumAdd
      <4>3. Masks(p, i)[r] = z
        BY <3>3, TermsType
      <4>4. Left(t, i) = d - S[t] /\ Left(rest, i) = d - S[rest] /\ d \in Int
        BY <1>9
      <4>5. S[t] = z + S[rest]
        BY <3>3, <4>2, <4>3
      <4>6. Cong(x, y - z) /\ Cong(y, Left(rest, i))
        BY <3>4, <3>6
      <4>. HIDE DEF x, y, z, S, d, Left
      <4>7. Cong(z, z)
        BY <1>0, <4>1, CongRefl
      <4>8. Left(rest, i) \in Int /\ Left(t, i) = Left(rest, i) - z /\ y - z \in Int
            /\ Left(rest, i) - z \in Int
        BY ONLY <4>1, <4>2, <4>4, <4>5
      <4>9. Cong(y - z, Left(rest, i) - z)
        BY <1>0, <4>1, <4>6, <4>7, <4>8, CongSum
      <4>10. Cong(x, Left(rest, i) - z)
        BY <1>0, <4>1, <4>6, <4>8, <4>9, CongTrans
      <4>. QED BY <4>8, <4>10 DEF x
    <3>. QED BY <3>6, <3>7
  <2>. QED BY <2>1, <2>2
<1>11. X \in W
  <2>1. Hereditary(X, W)
    BY <1>10 DEF Hereditary
  <2>. HIDE DEF W
  <2>. QED BY <1>1, <2>1, SubsetInduction
<1>12. ASSUME NEW i \in 1 .. N PROVE Left(X, i) = a[p][i] * b[p][i] - SumOf(Masks(p, i))[Parties]
  <2>. DEFINE S == SumOf(Masks(p, i))
  <2>1. S[X \cup {p}] = Masks(p, i)[p] + S[X] /\ S[X] \in Int
    BY <1>0, <1>1, <1>9, SumAdd
  <2>2. Masks(p, i)[p] = 0
    BY TermsType
  <2>. HIDE DEF S
  <2>3. S[Parties] = S[X]
    BY <1>1, <2>1, <2>2
  <2>. QED BY <2>3 DEF S
<1>. HIDE DEF Left
<1>. QED BY <1>7, <1>11, <1>12

\* A residue is the remainder of what it is congruent to.
LEMMA ResidueOf ==
  ASSUME T \in Nat \ {0, 1}, NEW x \in 0 .. T - 1, NEW y \in Int
  PROVE  x = y % T <=> Cong(x, y)
<1>1. x % T = x /\ x \in Int
  BY SmallMod
<1>2. Cong(y % T, y)
  BY CongMod
<1>3. Cong(x, y) => x % T = y % T
  BY <1>1, CongMod
<1>. QED BY <1>1, <1>2, <1>3

\* What the sums of the invariant are.
LEMMA SumsOf ==
  ASSUME ValuesAssumption, SecretsTypeOK, NEW p \in Parties, NEW i \in 1 .. N,
         NEW s \in SUBSET Parties
  PROVE  /\ SumFunctionOnSet(Terms(p, i), s) = SumOf(Terms(p, i))[s]
         /\ SumFunctionOnSet(Masks(p, i), s) = SumOf(Masks(p, i))[s]
         /\ SumOf(Terms(p, i))[s] \in Int
         /\ SumOf(Masks(p, i))[s] \in Int
<1>1. IsFiniteSet(Parties)
  BY DEF ValuesAssumption
<1>2. Terms(p, i) \in [Parties -> Int] /\ Masks(p, i) \in [Parties -> Int]
  BY TermsType
<1>. QED BY <1>1, <1>2, SumFunctionIsSum, SumFacts

\* The loop ends with the triple asked for, or with the last one.
LEMMA CountIs ==
  ASSUME ValuesAssumption, NEW nTriple \in Asked
  PROVE  Count(nTriple) = IF nTriple \in 1 .. N THEN nTriple ELSE N
<1>0. N \in Nat \ {0} /\ Word \in Nat \ {0} /\ N <= Word /\ nTriple \in 0 .. Word - 1
  BY DEF ValuesAssumption
<1>. DEFINE NeededAt(k) == (nTriple - k) % Word
            last == IF nTriple \in 1 .. N THEN nTriple ELSE N
            Stops(k) == /\ k = N \/ NeededAt(k) = 0
                        /\ \A j \in 1 .. k - 1 : NeededAt(j) # 0
<1>1. ASSUME NEW k \in 1 .. N - 1 PROVE NeededAt(k) = 0 <=> nTriple = k
  <2>. DEFINE z == nTriple - k
  <2>1. z \in Int /\ z < Word /\ -Word < z
    BY <1>0
  <2>. HIDE DEF z
  <2>2. CASE z >= 0
    <3>1. z \in 0 .. Word - 1
      BY <1>0, <2>1, <2>2
    <3>2. z % Word = z
      BY <1>0, <3>1, SmallMod
    <3>. QED BY <1>0, <3>2 DEF z
  <2>3. CASE z < 0
    <3>1. z % Word # 0
      BY <1>0, <2>1, <2>3
    <3>. QED BY <1>0, <2>3, <3>1 DEF z
  <2>. QED BY <2>1, <2>2, <2>3
<1>. HIDE DEF NeededAt
<1>2. last \in 1 .. N /\ Stops(last)
  BY <1>0, <1>1
<1>3. ASSUME NEW k \in 1 .. N, Stops(k) PROVE k = last
  <2>1. CASE k = N
    <3>1. ASSUME nTriple \in 1 .. N - 1 PROVE FALSE
      BY <1>0, <1>1, <1>3, <2>1, <3>1
    <3>. QED BY <1>0, <2>1, <3>1
  <2>2. CASE k # N
    <3>1. k \in 1 .. N - 1 /\ NeededAt(k) = 0
      BY <1>0, <1>3, <2>2
    <3>2. nTriple = k
      BY <1>1, <3>1
    <3>. QED BY <1>0, <3>1, <3>2
  <2>. QED BY <2>1, <2>2
<1>4. Count(nTriple) = CHOOSE k \in 1 .. N : Stops(k)
  BY DEF Count, Needed, NeededAt
<1>. HIDE DEF Stops, last
<1>5. Count(nTriple) = last
  BY <1>2, <1>3, <1>4
<1>. QED BY <1>5 DEF last

\* The state after genInput satisfies the invariant.
LEMMA ValuesInit ==
  ASSUME ValuesAssumption, SharesInit
  PROVE  SharesInv
<1>0. T \in Nat \ {0, 1} /\ N \in Nat \ {0} /\ 0 \in Residues /\ IsFiniteSet(Parties)
  BY DEF ValuesAssumption, Residues
<1>1. SecretsTypeOK
  <2>1. ASSUME NEW p \in Parties PROVE Samples[p] \subseteq Vectors
    BY DEF ValuesAssumption, Vectors, Residues
  <2>2. ASSUME NEW p \in Parties PROVE a[p] \in Vectors /\ b[p] \in Vectors
    BY <2>1 DEF SharesInit
  <2>3. ASSUME NEW pair \in Pairs PROVE masks[pair] \in Vectors
    <3>1. pair[1] \in Parties
      BY DEF Pairs
    <3>. QED BY <2>1, <3>1 DEF SharesInit
  <2>4. /\ a \in [Parties -> AnySample] /\ b \in [Parties -> AnySample]
        /\ masks \in [Pairs -> AnySample]
    BY DEF SharesInit
  <2>. QED BY <2>2, <2>3, <2>4 DEF SecretsTypeOK
<1>2. /\ received = [p \in Parties |-> {}] /\ finished = {}
      /\ decAggr = [p \in Parties |-> [i \in 1 .. N |-> 0]]
      /\ triples = [p \in Parties |-> <<>>]
  BY DEF SharesInit, ExchangeInit
<1>3. ASSUME NEW p \in Parties
      PROVE  /\ c[p] \in Vectors
             /\ \A i \in 1 .. N : Cong(c[p][i], a[p][i] * b[p][i] - SumOf(Masks(p, i))[Parties])
  <2>1. c[p] = FoldSet(LAMBDA r, w : subVec(w, masks[<<p, r>>]),
                              mulVec(a[p], b[p]), Peers(p))
    BY DEF SharesInit
  <2>. QED BY <1>1, <2>1, MaskedProduct
<1>4. c \in [Parties -> Vectors]
  <2>1. c = [p \in Parties |-> c[p]]
    BY DEF SharesInit
  <2>. QED BY <1>3, <2>1
<1>5. decAggr \in [Parties -> Vectors]
  BY <1>0, <1>2 DEF Vectors
<1>6. SharesTypeOK
  <2>. DEFINE Triple == [A : Residues, B : Residues, C : Residues]
  <2>1. triples \in [Parties -> Seq(Triple)]
    <3>. HIDE DEF Triple
    <3>. QED BY <1>2
  <2>. QED BY <1>1, <1>2, <1>4, <1>5, <2>1 DEF SharesTypeOK
<1>7. AnswersSummed
  <2>. SUFFICES ASSUME NEW p \in Parties, NEW i \in 1 .. N
                PROVE  decAggr[p][i] = SumFunctionOnSet(Terms(p, i), received[p]) % T
    BY DEF AnswersSummed
  <2>1. received[p] = {} /\ decAggr[p][i] = 0
    BY <1>2
  <2>2. SumFunctionOnSet(Terms(p, i), {}) = 0
    <3>1. Terms(p, i) \in [Parties -> Int]
      BY <1>1, TermsType
    <3>2. SumFunctionOnSet(Terms(p, i), {}) = SumOf(Terms(p, i))[{}]
      BY <1>1, SumsOf
    <3>. QED BY <1>0, <3>1, <3>2, SumFacts
  <2>. QED BY <1>0, <2>1, <2>2
<1>8. SharesKept
  <2>. SUFFICES ASSUME NEW p \in Parties, NEW i \in 1 .. N
                PROVE  c[p][i] = (SumFunctionOnSet(Terms(p, i), {p})
                                  - SumFunctionOnSet(Masks(p, i), Parties)) % T
    <3>1. ASSUME NEW p \in Parties
          PROVE  (IF p \in finished THEN received[p] ELSE {}) \cup {p} = {p}
      BY <1>2
    <3>. QED BY <3>1 DEF SharesKept
  <2>. DEFINE d == a[p][i] * b[p][i]
              M == SumOf(Masks(p, i))[Parties]
  <2>1. SumFunctionOnSet(Terms(p, i), {p}) = d
    <3>1. Terms(p, i) \in [Parties -> Int] /\ Terms(p, i)[p] = d
      BY <1>1, TermsType
    <3>2. SumFunctionOnSet(Terms(p, i), {p}) = SumOf(Terms(p, i))[{p}]
      BY <1>1, SumsOf
    <3>. QED BY <1>0, <3>1, <3>2, SumOne
  <2>2. SumFunctionOnSet(Masks(p, i), Parties) = M /\ M \in Int
    BY <1>1, SumsOf
  <2>3. d \in Int
    <3>1. SumOf(Terms(p, i))[{p}] \in Int
      BY <1>1, SumsOf
    <3>. QED BY <1>1, <2>1, <3>1, SumsOf
  <2>4. c[p][i] \in 0 .. T - 1 /\ Cong(c[p][i], d - M)
    BY <1>3 DEF Vectors, Residues
  <2>. HIDE DEF d, M
  <2>5. d - M \in Int
    BY <2>2, <2>3
  <2>. QED BY <1>0, <2>1, <2>2, <2>4, <2>5, ResidueOf
<1>9. /\ \A p \in Parties : received[p] \subseteq Peers(p)
      /\ SharesDelivered
  BY <1>2 DEF SharesDelivered
<1>. QED BY <1>6, <1>7, <1>8, <1>9 DEF SharesInv

\* One more answer for p.
LEMMA CollectFacts ==
  ASSUME ValuesAssumption, SharesInv,
         NEW p \in Parties, NEW r \in Peers(p), NEW nTriple \in Asked,
         CollectAnswer(p, r, nTriple)
  PROVE  /\ r \in Parties /\ r # p /\ r \notin received[p] /\ p \notin received[p]
         /\ p \notin finished
         /\ a' = a /\ b' = b /\ masks' = masks
         /\ received' = [received EXCEPT ![p] = received[p] \cup {r}]
         /\ finished' = IF received[p] \cup {r} = Peers(p) THEN finished \cup {p} ELSE finished
         /\ decAggr' = [decAggr EXCEPT ![p] = addVec(decAggr[p], AnswerVec(r, p))]
<1>1. r \in Parties /\ r # p
  BY DEF Peers
<1>2. r \notin received[p] /\ received' = [received EXCEPT ![p] = received[p] \cup {r}]
      /\ finished' = IF received[p] \cup {r} = Peers(p) THEN finished \cup {p} ELSE finished
  BY DEF CollectAnswer, Collect
<1>3. p \notin received[p]
  BY DEF SharesInv, Peers
<1>4. p \notin finished
  <2>1. p \in finished => received[p] = Peers(p)
    BY DEF SharesInv, SharesDelivered
  <2>. QED BY <1>2, <2>1
<1>5. a' = a /\ b' = b /\ masks' = masks
  BY DEF CollectAnswer, secrets
<1>6. decAggr' = [decAggr EXCEPT ![p] = addVec(decAggr[p], AnswerVec(r, p))]
  BY DEF CollectAnswer
<1>. QED BY <1>1, <1>2, <1>3, <1>4, <1>5, <1>6

\* Terms and sentSum do not change.
LEMMA TermsKept ==
  ASSUME a' = a, b' = b, masks' = masks, NEW p, NEW i
  PROVE  /\ Terms(p, i)' = Terms(p, i)
         /\ Masks(p, i)' = Masks(p, i)
BY DEF Terms, Masks, Mask

\* A step that only answers a query keeps the invariant.
LEMMA ValuesStutter ==
  ASSUME SharesInv, UNCHANGED <<a, b, masks, c, decAggr, triples, received, finished>>
  PROVE  SharesInv'
<1>1. SharesTypeOK'
  BY DEF SharesInv, SharesTypeOK, SecretsTypeOK
<1>2. (\A p \in Parties : received[p] \subseteq Peers(p))'
  BY DEF SharesInv
<1>3. AnswersSummed'
  BY TermsKept DEF SharesInv, AnswersSummed
<1>4. SharesKept'
  BY TermsKept DEF SharesInv, SharesKept
<1>5. SharesDelivered'
  BY DEF SharesInv, SharesDelivered
<1>. QED BY <1>1, <1>2, <1>3, <1>4, <1>5 DEF SharesInv

\* The new sum of p.
LEMMA NewSum ==
  ASSUME ValuesAssumption, SharesInv,
         NEW p \in Parties, NEW r \in Peers(p), NEW nTriple \in Asked,
         CollectAnswer(p, r, nTriple)
  PROVE  /\ decAggr'[p] \in Vectors
         /\ \A i \in 1 .. N :
               Cong(decAggr'[p][i], SumOf(Terms(p, i))[received[p] \cup {r}])
<1>0. T \in Nat \ {0, 1} /\ IsFiniteSet(Parties) /\ SecretsTypeOK
  BY DEF ValuesAssumption, SharesInv, SharesTypeOK
<1>1. r \in Parties /\ r # p /\ r \notin received[p] /\ received[p] \in SUBSET Parties
      /\ decAggr[p] \in Vectors
  BY CollectFacts DEF SharesInv, SharesTypeOK
<1>. DEFINE ans == AnswerVec(r, p)
<1>2. ans \in Vectors /\ \A i \in 1 .. N : Cong(ans[i], Terms(p, i)[r])
  BY <1>0, <1>1, AnswerValue
<1>3. decAggr'[p] = addVec(decAggr[p], ans)
  <2>1. decAggr \in [Parties -> Vectors]
    BY DEF SharesInv, SharesTypeOK
  <2>. QED BY <2>1, CollectFacts
<1>. HIDE DEF ans
<1>4. decAggr'[p] \in Vectors
      /\ \A i \in 1 .. N : Cong(decAggr'[p][i], decAggr[p][i] + ans[i])
  BY <1>1, <1>2, <1>3, AddVec
<1>5. ASSUME NEW i \in 1 .. N
      PROVE  Cong(decAggr'[p][i], SumOf(Terms(p, i))[received[p] \cup {r}])
  <2>. DEFINE S == SumOf(Terms(p, i))
              x == decAggr'[p][i]
              y == decAggr[p][i]
              z == ans[i]
              t == Terms(p, i)[r]
  <2>1. x \in 0 .. T - 1 /\ y \in 0 .. T - 1 /\ z \in 0 .. T - 1
    BY <1>1, <1>2, <1>4 DEF Vectors, Residues
  <2>2. Terms(p, i) \in [Parties -> Int]
    BY <1>0, TermsType
  <2>3. S[received[p] \cup {r}] = t + S[received[p]] /\ S[received[p]] \in Int /\ t \in Int
        /\ S[received[p] \cup {r}] \in Int
    BY <1>0, <1>1, <2>2, SumAdd
  <2>4. y = SumFunctionOnSet(Terms(p, i), received[p]) % T
    BY DEF SharesInv, AnswersSummed
  <2>5. SumFunctionOnSet(Terms(p, i), received[p]) = S[received[p]]
    BY <1>0, <1>1, SumsOf
  <2>6. Cong(x, y + z) /\ Cong(z, t)
    BY <1>2, <1>4
  <2>. HIDE DEF S, x, y, z, t
  <2>7. Cong(y, S[received[p]])
    BY <1>0, <2>1, <2>3, <2>4, <2>5, ResidueOf
  <2>8. x \in Int /\ y \in Int /\ z \in Int
    BY <1>0, <2>1
  <2>. DEFINE u == S[received[p]]
  <2>9. Cong(y, u) /\ u \in Int /\ t \in Int /\ S[received[p] \cup {r}] = u + t
    BY <2>3, <2>7
  <2>. HIDE DEF u
  <2>10. Cong(y + z, u + t) /\ y + z \in Int /\ u + t \in Int
    BY <1>0, <2>6, <2>8, <2>9, CongSum
  <2>11. Cong(x, u + t)
    BY <1>0, <2>6, <2>8, <2>10, CongTrans
  <2>. QED BY <2>9, <2>11 DEF x, S
<1>. QED BY <1>4, <1>5

\* The share that p delivers when the answer of r is the last one.
LEMMA NewShare ==
  ASSUME ValuesAssumption, SharesInv,
         NEW p \in Parties, NEW r \in Peers(p), NEW nTriple \in Asked,
         CollectAnswer(p, r, nTriple)
  PROVE  LET share == addVec(c[p], decAggr'[p])
         IN  /\ share \in Vectors
             /\ \A i \in 1 .. N : share[i] =
                   (SumFunctionOnSet(Terms(p, i), (received[p] \cup {r}) \cup {p})
                    - SumFunctionOnSet(Masks(p, i), Parties)) % T
<1>0. T \in Nat \ {0, 1} /\ IsFiniteSet(Parties) /\ SecretsTypeOK
  BY DEF ValuesAssumption, SharesInv, SharesTypeOK
<1>. DEFINE rec == received[p] \cup {r}
            share == addVec(c[p], decAggr'[p])
<1>1. rec \in SUBSET Parties /\ p \notin rec /\ p \notin finished /\ c[p] \in Vectors
  <2>1. r \in Parties /\ r # p /\ p \notin received[p] /\ p \notin finished
    BY CollectFacts
  <2>2. received[p] \in SUBSET Parties /\ c[p] \in Vectors
    BY DEF SharesInv, SharesTypeOK
  <2>. QED BY <2>1, <2>2
<1>2. decAggr'[p] \in Vectors
      /\ \A i \in 1 .. N : Cong(decAggr'[p][i], SumOf(Terms(p, i))[rec])
  BY NewSum
<1>3. share \in Vectors /\ \A i \in 1 .. N : Cong(share[i], c[p][i] + decAggr'[p][i])
  BY <1>1, <1>2, AddVec
<1>. HIDE DEF share, rec
<1>4. ASSUME NEW i \in 1 .. N
      PROVE  share[i] = (SumFunctionOnSet(Terms(p, i), rec \cup {p})
                         - SumFunctionOnSet(Masks(p, i), Parties)) % T
  <2>. DEFINE S == SumOf(Terms(p, i))
              M == SumOf(Masks(p, i))[Parties]
              x == share[i]
              y == c[p][i]
              z == decAggr'[p][i]
              own == S[{p}]
              others == S[rec]
              all == S[rec \cup {p}]
  <2>1. x \in 0 .. T - 1 /\ y \in 0 .. T - 1 /\ z \in 0 .. T - 1
    BY <1>1, <1>2, <1>3 DEF Vectors, Residues
  <2>2. Terms(p, i) \in [Parties -> Int]
    BY <1>0, TermsType
  <2>3. all = own + others /\ own \in Int /\ others \in Int /\ all \in Int
    <3>1. all = Terms(p, i)[p] + others /\ others \in Int /\ all \in Int
      BY <1>0, <1>1, <2>2, SumAdd
    <3>2. own = Terms(p, i)[p] /\ own \in Int
      BY <1>0, <2>2, SumOne
    <3>. QED BY <3>1, <3>2
  <2>4. /\ SumFunctionOnSet(Masks(p, i), Parties) = M /\ M \in Int
        /\ SumFunctionOnSet(Terms(p, i), {p}) = own
        /\ SumFunctionOnSet(Terms(p, i), rec \cup {p}) = all
    BY <1>0, <1>1, SumsOf
  <2>5. y = (own - M) % T
    <3>1. (IF p \in finished THEN received[p] ELSE {}) \cup {p} = {p}
      BY <1>1
    <3>2. y = (SumFunctionOnSet(Terms(p, i),
                                       (IF p \in finished THEN received[p] ELSE {}) \cup {p})
               - SumFunctionOnSet(Masks(p, i), Parties)) % T
      BY DEF SharesInv, SharesKept
    <3>. QED BY <2>4, <3>1, <3>2
  <2>6. Cong(x, y + z) /\ Cong(z, others)
    BY <1>2, <1>3
  <2>. HIDE DEF S, M, x, y, z, own, others, all
  <2>7. x \in Int /\ y \in Int /\ z \in Int /\ own - M \in Int /\ all - M \in Int
        /\ all - M = (own - M) + others
    BY <1>0, <2>1, <2>3, <2>4
  <2>8. Cong(y, own - M)
    BY <1>0, <2>1, <2>5, <2>7, ResidueOf
  <2>9. Cong(y + z, (own - M) + others) /\ y + z \in Int
    BY <1>0, <2>3, <2>6, <2>7, <2>8, CongSum
  <2>10. Cong(x, all - M)
    <3>1. Cong(y + z, all - M)
      BY <2>7, <2>9
    <3>. QED BY <1>0, <2>6, <2>7, <2>9, <3>1, CongTrans
  <2>11. x = (all - M) % T
    BY <1>0, <2>1, <2>7, <2>10, ResidueOf
  <2>. QED BY <2>4, <2>11 DEF x
<1>. QED BY <1>3, <1>4 DEF share, rec

\* Every answer collected keeps the invariant.
LEMMA CollectKeeps ==
  ASSUME ValuesAssumption, SharesInv,
         NEW p \in Parties, NEW r \in Peers(p), NEW nTriple \in Asked,
         CollectAnswer(p, r, nTriple)
  PROVE  SharesInv'
<1>. DEFINE rec == received[p] \cup {r}
            share == addVec(c[p], decAggr'[p])
            delivered == [i \in 1 .. Count(nTriple) |->
                            [A |-> a[p][i], B |-> b[p][i], C |-> share[i]]]
            Triple == [A : Residues, B : Residues, C : Residues]
<1>0. /\ T \in Nat \ {0, 1} /\ N \in Nat \ {0} /\ IsFiniteSet(Parties)
      /\ SharesTypeOK /\ SecretsTypeOK
  BY DEF ValuesAssumption, SharesInv, SharesTypeOK
<1>1. /\ r \in Parties /\ r # p /\ r \notin received[p] /\ p \notin received[p] /\ p \notin finished
      /\ a' = a /\ b' = b /\ masks' = masks
      /\ received' = [received EXCEPT ![p] = rec]
      /\ finished' = IF rec = Peers(p) THEN finished \cup {p} ELSE finished
      /\ decAggr' = [decAggr EXCEPT ![p] = addVec(decAggr[p], AnswerVec(r, p))]
  BY CollectFacts
<1>2. /\ received \in [Parties -> SUBSET Parties] /\ decAggr \in [Parties -> Vectors]
      /\ c \in [Parties -> Vectors] /\ triples \in [Parties -> Seq(Triple)]
      /\ finished \in SUBSET Parties
  BY <1>0 DEF SharesTypeOK
<1>3. /\ decAggr'[p] \in Vectors
      /\ \A i \in 1 .. N : Cong(decAggr'[p][i], SumOf(Terms(p, i))[rec])
  BY NewSum
<1>4. /\ share \in Vectors
      /\ \A i \in 1 .. N : share[i] =
            (SumFunctionOnSet(Terms(p, i), rec \cup {p})
             - SumFunctionOnSet(Masks(p, i), Parties)) % T
  BY NewShare
<1>5. \/ p \notin finished' /\ c' = c /\ triples' = triples
      \/ /\ p \in finished' /\ c' = [c EXCEPT ![p] = share]
         /\ triples' = [triples EXCEPT ![p] = delivered]
  <2>1. decAggr'[p] = addVec(decAggr[p], AnswerVec(r, p))
    BY <1>1, <1>2
  <2>. QED BY <2>1 DEF CollectAnswer
<1>6. received'[p] = rec /\ \A s \in Parties : s # p => received'[s] = received[s]
  BY <1>1, <1>2
<1>7. /\ \A s \in Parties : s # p => (s \in finished' <=> s \in finished)
      /\ p \in finished' => rec = Peers(p)
  BY <1>1
<1>8. /\ Count(nTriple) \in 1 .. N
      /\ delivered \in Seq(Triple) /\ Len(delivered) = Count(nTriple)
  <2>1. nTriple \in Asked /\ Count(nTriple) \in 1 .. N
    BY <1>0, CountIs
  <2>2. a[p] \in Vectors /\ b[p] \in Vectors
    BY <1>0 DEF SecretsTypeOK
  <2>. HIDE DEF share
  <2>3. ASSUME NEW i \in 1 .. Count(nTriple)
        PROVE  [A |-> a[p][i], B |-> b[p][i], C |-> share[i]] \in Triple
    <3>1. i \in 1 .. N
      BY <1>0, <2>1
    <3>. QED BY <1>4, <2>2, <3>1 DEF Vectors
  <2>. DEFINE k == Count(nTriple)
  <2>. HIDE DEF k, Triple
  <2>4. delivered \in [1 .. k -> Triple] /\ k \in Nat
    BY <1>0, <2>1, <2>3 DEF k
  <2>. HIDE DEF delivered
  <2>5. delivered \in Seq(Triple) /\ Len(delivered) = k
    BY <2>4
  <2>. QED BY <2>1, <2>5 DEF k
<1>. HIDE DEF rec, share, Triple
<1>9. SharesTypeOK'
  <2>1. SecretsTypeOK'
    BY <1>0, <1>1 DEF SecretsTypeOK
  <2>2. received' \in [Parties -> SUBSET Parties] /\ finished' \in SUBSET Parties
    BY <1>1, <1>2 DEF rec
  <2>3. decAggr' \in [Parties -> Vectors]
    BY <1>1, <1>2, <1>3
  <2>4. c' \in [Parties -> Vectors] /\ triples' \in [Parties -> Seq(Triple)]
    <3>. HIDE DEF delivered
    <3>. QED BY <1>2, <1>4, <1>5, <1>8
  <2>. QED BY <2>1, <2>2, <2>3, <2>4 DEF SharesTypeOK, Residues, Vectors, Triple
<1>10. (\A s \in Parties : received[s] \subseteq Peers(s))'
  <2>1. ASSUME NEW s \in Parties PROVE received'[s] \subseteq Peers(s)
    BY <1>1, <1>6 DEF SharesInv, Peers, rec
  <2>. QED BY <2>1 DEF Peers
<1>11. AnswersSummed'
  <2>. SUFFICES ASSUME NEW s \in Parties, NEW i \in 1 .. N
                PROVE  decAggr'[s][i] = SumFunctionOnSet(Terms(s, i), received'[s]) % T
    BY <1>1, TermsKept DEF AnswersSummed
  <2>1. CASE s = p
    <3>1. SumFunctionOnSet(Terms(p, i), rec) = SumOf(Terms(p, i))[rec]
          /\ SumOf(Terms(p, i))[rec] \in Int
      <4>1. rec \in SUBSET Parties
        BY <1>1, <1>2 DEF rec
      <4>. QED BY <1>0, <4>1, SumsOf
    <3>2. decAggr'[p][i] \in 0 .. T - 1
      BY <1>3 DEF Vectors, Residues
    <3>3. decAggr'[p][i] = SumOf(Terms(p, i))[rec] % T
      BY <1>0, <1>3, <3>1, <3>2, ResidueOf
    <3>. QED BY <1>6, <2>1, <3>1, <3>3
  <2>2. CASE s # p
    <3>1. decAggr'[s] = decAggr[s] /\ received'[s] = received[s]
      BY <1>1, <1>2, <1>6, <2>2
    <3>2. decAggr[s][i] = SumFunctionOnSet(Terms(s, i), received[s]) % T
      BY DEF SharesInv, AnswersSummed
    <3>. QED BY <3>1, <3>2
  <2>. QED BY <2>1, <2>2
<1>12. SharesKept'
  <2>. DEFINE used(s) == IF s \in finished THEN received[s] ELSE {}
              newUsed(s) == IF s \in finished' THEN received'[s] ELSE {}
              Right(s, i, u) == (SumFunctionOnSet(Terms(s, i), u \cup {s})
                                 - SumFunctionOnSet(Masks(s, i), Parties)) % T
  <2>1. ASSUME NEW s \in Parties, NEW i \in 1 .. N PROVE c[s][i] = Right(s, i, used(s))
    BY DEF SharesInv, SharesKept
  <2>. HIDE DEF Right
  <2>2. ASSUME NEW s \in Parties, NEW i \in 1 .. N PROVE c'[s][i] = Right(s, i, newUsed(s))
    <3>1. CASE s # p
      <4>1. c'[s] = c[s] /\ newUsed(s) = used(s)
        <5>. HIDE DEF delivered
        <5>. QED BY <1>2, <1>5, <1>6, <1>7, <3>1
      <4>. QED BY <2>1, <4>1
    <3>2. CASE s = p /\ p \notin finished'
      <4>1. c'[s] = c[s] /\ newUsed(s) = used(s)
        BY <1>1, <1>5, <3>2
      <4>. QED BY <2>1, <4>1
    <3>3. CASE s = p /\ p \in finished'
      <4>1. c'[p] = share /\ newUsed(s) = rec
        BY <1>2, <1>5, <1>6, <3>3
      <4>2. share[i] = Right(p, i, rec)
        BY <1>4 DEF Right
      <4>. QED BY <3>3, <4>1, <4>2
    <3>. QED BY <3>1, <3>2, <3>3
  <2>. QED BY <1>1, <2>2, TermsKept DEF SharesKept, Right
<1>13. SharesDelivered'
  <2>. SUFFICES ASSUME NEW s \in finished'
                PROVE  /\ received'[s] = Peers(s)
                       /\ Len(triples'[s]) <= N
                       /\ \A i \in 1 .. Len(triples'[s]) :
                             triples'[s][i] = [A |-> a[s][i], B |-> b[s][i], C |-> c'[s][i]]
    BY <1>1 DEF SharesDelivered, Peers
  <2>1. CASE s # p
    <3>1. s \in finished /\ s \in Parties
      BY <1>2, <1>7, <1>9, <2>1 DEF SharesTypeOK
    <3>2. received'[s] = received[s] /\ triples'[s] = triples[s] /\ c'[s] = c[s]
      <4>. HIDE DEF delivered
      <4>. QED BY <1>2, <1>5, <1>6, <2>1, <3>1
    <3>. QED BY <3>1, <3>2 DEF SharesInv, SharesDelivered
  <2>2. CASE s = p
    <3>1. received'[p] = Peers(p) /\ c'[p] = share /\ triples'[p] = delivered
      <4>. HIDE DEF delivered
      <4>. QED BY <1>2, <1>5, <1>6, <1>7, <2>2
    <3>2. Len(delivered) <= N
      <4>. HIDE DEF delivered
      <4>. QED BY <1>0, <1>8
    <3>3. ASSUME NEW i \in 1 .. Len(delivered)
          PROVE  delivered[i] = [A |-> a[p][i], B |-> b[p][i], C |-> share[i]]
      <4>1. i \in 1 .. Count(nTriple)
        <5>. HIDE DEF delivered
        <5>. QED BY <1>8
      <4>. QED BY <4>1
    <3>. HIDE DEF delivered
    <3>. QED BY <2>2, <3>1, <3>2, <3>3
  <2>. QED BY <2>1, <2>2
<1>. QED BY <1>9, <1>10, <1>11, <1>12, <1>13 DEF SharesInv

\* The inductive invariant holds: encAggr and c are always the sums of the
\* answers used, of the masks and of the own product, modulo T.
THEOREM ValuesInvariance ==
  ASSUME IsFiniteSet(Parties)
  PROVE  SharesSpec => []SharesInv
<1>0. ValuesAssumption
  BY ValuesAssumed
<1>1. SharesInit => SharesInv
  BY <1>0, ValuesInit
<1>2. SharesInv /\ [SharesNext]_<<exchangeVars, secrets, c, decAggr, triples>>
      => SharesInv'
  <2>. SUFFICES ASSUME SharesInv,
                       [SharesNext]_<<exchangeVars, secrets, c, decAggr, triples>>
                PROVE  SharesInv'
    OBVIOUS
  <2>1. ASSUME NEW p \in Parties, NEW r \in Peers(p), AnswerQuery(p, r)
        PROVE  SharesInv'
    <3>1. UNCHANGED <<a, b, masks, c, decAggr, triples, received, finished>>
      BY <2>1 DEF AnswerQuery, GiveAnswer, secrets
    <3>. QED BY <3>1, ValuesStutter
  <2>2. ASSUME NEW p \in Parties, NEW r \in Peers(p), NEW nTriple \in Asked,
               CollectAnswer(p, r, nTriple)
        PROVE  SharesInv'
    BY <1>0, <2>2, CollectKeeps
  <2>3. ASSUME UNCHANGED <<exchangeVars, secrets, c, decAggr, triples>>
        PROVE  SharesInv'
    <3>1. UNCHANGED <<a, b, masks, c, decAggr, triples, received, finished>>
      BY <2>3 DEF exchangeVars, secrets
    <3>. QED BY <3>1, ValuesStutter
  <2>. QED BY <2>1, <2>2, <2>3 DEF SharesNext
<1>. QED BY <1>1, <1>2, PTL DEF SharesSpec

\* The sum over the parties of what their shares are congruent to.
LEMMA SharesAddUp ==
  ASSUME ValuesAssumption, SecretsTypeOK, NEW i \in 1 .. N,
         NEW f \in [Parties -> Int],
         \A p \in Parties : Cong(f[p], SumOf(Terms(p, i))[Parties]
                                       - SumOf(Masks(p, i))[Parties])
  PROVE  Cong(SumOf(f)[Parties], SumOf([p \in Parties |-> a[p][i]])[Parties]
                                 * SumOf([p \in Parties |-> b[p][i]])[Parties])
<1>0. T \in Nat \ {0, 1} /\ IsFiniteSet(Parties)
  BY DEF ValuesAssumption
<1>. DEFINE A == [p \in Parties |-> a[p][i]]
            B == [p \in Parties |-> b[p][i]]
            sent == [p \in Parties |-> Masks(p, i)]
            sentBy == [p \in Parties |-> SumOf(sent[p])[Parties]]
            got(p) == [r \in Parties |-> sent[r][p]]
            gotBy == [p \in Parties |-> SumOf(got(p))[Parties]]
            beta == SumOf(B)[Parties]
            mid == [p \in Parties |-> gotBy[p] + beta * A[p]]
            g == [p \in Parties |-> mid[p] + (-1) * sentBy[p]]
<1>1. A \in [Parties -> Int] /\ B \in [Parties -> Int]
  <2>1. ASSUME NEW p \in Parties PROVE a[p][i] \in Int /\ b[p][i] \in Int
    <3>1. a[p][i] \in 0 .. T - 1 /\ b[p][i] \in 0 .. T - 1
      BY TermsType DEF Residues
    <3>. QED BY <1>0, <3>1
  <2>. QED BY <2>1
<1>2. sent \in [Parties -> [Parties -> Int]]
  BY TermsType
<1>3. \A p \in Parties : got(p) \in [Parties -> Int] /\ sent[p] \in [Parties -> Int]
  <2>. HIDE DEF sent
  <2>. QED BY <1>2
<1>4. sentBy \in [Parties -> Int] /\ gotBy \in [Parties -> Int] /\ beta \in Int
  <2>. HIDE DEF sent, got, B
  <2>. QED BY <1>0, <1>1, <1>3, SumFacts
<1>5. mid \in [Parties -> Int] /\ g \in [Parties -> Int]
  <2>1. ASSUME NEW p \in Parties PROVE gotBy[p] \in Int /\ beta * A[p] \in Int /\ (-1) * sentBy[p] \in Int
    <3>1. gotBy[p] \in Int /\ A[p] \in Int /\ sentBy[p] \in Int /\ beta \in Int
      BY <1>1, <1>4
    <3>. HIDE DEF gotBy, A, sentBy, beta
    <3>. QED BY <3>1
  <2>. HIDE DEF gotBy, A, sentBy, beta
  <2>2. ASSUME NEW p \in Parties PROVE gotBy[p] + beta * A[p] \in Int
    BY <2>1
  <2>3. mid \in [Parties -> Int]
    BY <2>2
  <2>4. ASSUME NEW p \in Parties PROVE mid[p] + (-1) * sentBy[p] \in Int
    <3>1. mid[p] \in Int /\ (-1) * sentBy[p] \in Int
      BY <2>1, <2>3
    <3>. HIDE DEF mid
    <3>. QED BY <3>1
  <2>. HIDE DEF mid
  <2>. QED BY <2>3, <2>4
\* The terms of p: what p has got as sentSum, and a_p times all the b_r.
<1>6. ASSUME NEW p \in Parties
      PROVE  SumOf(Terms(p, i))[Parties] = gotBy[p] + A[p] * beta
  <2>1. Terms(p, i) \in [Parties -> Int]
    BY TermsType
  <2>2. A[p] \in Int /\ got(p) \in [Parties -> Int]
    BY <1>1, <1>3
  <2>3. ASSUME NEW r \in Parties PROVE Terms(p, i)[r] = got(p)[r] + A[p] * B[r]
    <3>1. Terms(p, i)[r] = a[p][i] * b[r][i] + Mask(r, p, i)
      BY DEF Terms
    <3>2. got(p)[r] = Mask(r, p, i)
      BY DEF Masks
    <3>3. a[p][i] * b[r][i] = A[p] * B[r] /\ A[p] \in Int /\ B[r] \in Int
      BY <1>1
    <3>4. got(p)[r] \in Int
      BY <1>3
    <3>. DEFINE x == A[p] * B[r]
                y == got(p)[r]
    <3>5. Terms(p, i)[r] = x + y /\ x \in Int /\ y \in Int
      <4>1. x \in Int
        <5>. HIDE DEF A, B
        <5>. QED BY <3>3
      <4>. QED BY <3>1, <3>2, <3>3, <3>4, <4>1
    <3>. HIDE DEF x, y
    <3>6. Terms(p, i)[r] = y + x
      BY <3>5
    <3>. QED BY <3>6 DEF x, y
  <2>. DEFINE h == Terms(p, i)
              f1 == got(p)
              k == A[p]
  <2>4. Linear(h, f1, k, B, Parties)
    BY <2>3 DEF Linear
  <2>5. h \in [Parties -> Int] /\ f1 \in [Parties -> Int] /\ k \in Int /\ B \in [Parties -> Int]
    BY <1>1, <2>1, <2>2
  <2>. HIDE DEF h, f1, k, B
  <2>6. SumOf(h)[Parties] = SumOf(f1)[Parties] + k * SumOf(B)[Parties]
    BY <1>0, <2>4, <2>5, SumLinearAll
  <2>7. gotBy[p] = SumOf(f1)[Parties]
    BY DEF f1
  <2>. QED BY <2>6, <2>7 DEF h, k
<1>7. \A p \in Parties : Cong(f[p], g[p])
  <2>. SUFFICES ASSUME NEW p \in Parties PROVE Cong(f[p], g[p])
    OBVIOUS
  <2>. DEFINE x == gotBy[p]
              y == A[p]
              z == sentBy[p]
  <2>1. x \in Int /\ y \in Int /\ z \in Int /\ beta \in Int
    BY <1>1, <1>4
  <2>2. g[p] = (x + beta * y) + (-1) * z
    <3>. HIDE DEF gotBy, A, sentBy, beta
    <3>. QED OBVIOUS
  <2>3. SumOf(Masks(p, i))[Parties] = z
    OBVIOUS
  <2>4. SumOf(Terms(p, i))[Parties] = x + y * beta
    BY <1>6
  <2>. HIDE DEF x, y, z, beta, g
  <2>5. y * beta = beta * y /\ y * beta \in Int
    BY <2>1
  <2>6. g[p] = (x + y * beta) - z
    BY ONLY <2>1, <2>2, <2>5
  <2>. QED BY <2>3, <2>4, <2>6
<1>8. SumOf(gotBy)[Parties] = SumOf(sentBy)[Parties]
  <2>. HIDE DEF sent
  <2>. QED BY <1>0, <1>2, SumExchange
<1>. DEFINE alpha == SumOf(A)[Parties]
            sentSum == SumOf(sentBy)[Parties]
<1>9. alpha \in Int /\ sentSum \in Int
  <2>. HIDE DEF A, sentBy
  <2>. QED BY <1>0, <1>1, <1>4, SumFacts
<1>10. SumOf(mid)[Parties] = sentSum + beta * alpha
  <2>. HIDE DEF gotBy, sentBy, beta, A
  <2>1. Linear(mid, gotBy, beta, A, Parties)
    BY DEF Linear
  <2>. HIDE DEF mid
  <2>2. SumOf(mid)[Parties] = SumOf(gotBy)[Parties] + beta * SumOf(A)[Parties]
    BY <1>0, <1>1, <1>4, <1>5, <2>1, SumLinearAll
  <2>. QED BY <1>8, <2>2
<1>11. SumOf(g)[Parties] = SumOf(mid)[Parties] + (-1) * sentSum
  <2>. HIDE DEF mid, sentBy
  <2>. DEFINE k == -1
  <2>1. k \in Int /\ Linear(g, mid, k, sentBy, Parties)
    BY DEF Linear
  <2>. HIDE DEF k, g
  <2>2. SumOf(g)[Parties] = SumOf(mid)[Parties] + k * SumOf(sentBy)[Parties]
    BY <1>0, <1>4, <1>5, <2>1, SumLinearAll
  <2>. QED BY <2>2 DEF k
<1>12. Cong(SumOf(f)[Parties], SumOf(g)[Parties])
  <2>. HIDE DEF g
  <2>. QED BY <1>0, <1>5, <1>7, SumCong
<1>13. SumOf(g)[Parties] = alpha * beta
  <2>. HIDE DEF alpha, beta, sentSum, g, mid
  <2>0. alpha \in Int /\ beta \in Int
    BY <1>4, <1>9
  <2>1. alpha * beta = beta * alpha /\ beta * alpha \in Int
    BY ONLY <2>0
  <2>. QED BY ONLY <1>9, <1>10, <1>11, <2>1
<1>. QED BY <1>12, <1>13

\* Whatever was sampled and in whatever order the answers came, the triples
\* delivered are reduced additive shares of a product.
LEMMA SharesOfProduct ==
  ASSUME ValuesAssumption, SharesInv
  PROVE  ProductShared
<1>0. /\ T \in Nat \ {0, 1} /\ N \in Nat \ {0} /\ IsFiniteSet(Parties)
      /\ SharesTypeOK /\ SecretsTypeOK
  BY DEF ValuesAssumption, SharesInv, SharesTypeOK
<1>. SUFFICES ASSUME finished = Parties, NEW i \in 1 .. N,
                     \A p \in Parties : i <= Len(triples[p])
              PROVE  LET A == [p \in Parties |-> triples[p][i].A]
                         B == [p \in Parties |-> triples[p][i].B]
                         C == [p \in Parties |-> triples[p][i].C]
                     IN  /\ SumFunction(C) % T
                            = (SumFunction(A) * SumFunction(B)) % T
                         /\ C \in [Parties -> 0 .. T - 1]
  BY DEF ProductShared
<1>. DEFINE A == [p \in Parties |-> triples[p][i].A]
            B == [p \in Parties |-> triples[p][i].B]
            C == [p \in Parties |-> triples[p][i].C]
            A0 == [p \in Parties |-> a[p][i]]
            B0 == [p \in Parties |-> b[p][i]]
<1>1. ASSUME NEW p \in Parties
      PROVE  /\ triples[p][i] = [A |-> a[p][i], B |-> b[p][i], C |-> c[p][i]]
             /\ received[p] = Peers(p)
  <2>1. triples[p] \in Seq([A : Residues, B : Residues, C : Residues])
    BY <1>0 DEF SharesTypeOK
  <2>. DEFINE l == Len(triples[p])
  <2>2. l \in Nat /\ i <= l
    BY <2>1, LenProperties
  <2>3. i \in 1 .. l
    <3>. HIDE DEF l
    <3>. QED BY <1>0, <2>2
  <2>. QED BY <2>3 DEF SharesInv, SharesDelivered
<1>2. A = A0 /\ B = B0 /\ \A p \in Parties : C[p] = c[p][i]
  <2>1. ASSUME NEW p \in Parties
        PROVE  /\ triples[p][i].A = a[p][i] /\ triples[p][i].B = b[p][i]
               /\ triples[p][i].C = c[p][i]
    <3>1. triples[p][i] = [A |-> a[p][i], B |-> b[p][i], C |-> c[p][i]]
      BY <1>1
    <3>. QED BY ONLY <3>1
  <2>2. A = A0
    BY <2>1
  <2>3. B = B0
    BY <2>1
  <2>. QED BY <2>1, <2>2, <2>3
<1>3. A0 \in [Parties -> Int] /\ B0 \in [Parties -> Int]
  <2>1. ASSUME NEW p \in Parties PROVE a[p][i] \in Int /\ b[p][i] \in Int
    <3>1. a[p][i] \in 0 .. T - 1 /\ b[p][i] \in 0 .. T - 1
      BY <1>0, TermsType DEF Residues
    <3>. QED BY <1>0, <3>1
  <2>. QED BY <2>1
<1>4. C \in [Parties -> 0 .. T - 1] /\ C \in [Parties -> Int]
  <2>1. ASSUME NEW p \in Parties PROVE c[p][i] \in 0 .. T - 1
    <3>1. c[p] \in Vectors
      BY <1>0 DEF SharesTypeOK
    <3>. QED BY <3>1 DEF Vectors, Residues
  <2>2. C = [p \in Parties |-> C[p]]
    OBVIOUS
  <2>. HIDE DEF C
  <2>3. C \in [Parties -> 0 .. T - 1]
    BY <1>2, <2>1, <2>2
  <2>. QED BY <1>0, <2>3
<1>5. ASSUME NEW p \in Parties
      PROVE  Cong(C[p], SumOf(Terms(p, i))[Parties] - SumOf(Masks(p, i))[Parties])
  <2>1. c[p][i] = (SumFunctionOnSet(Terms(p, i), received[p] \cup {p})
                   - SumFunctionOnSet(Masks(p, i), Parties)) % T
    BY DEF SharesInv, SharesKept
  <2>2. received[p] \cup {p} = Parties
    BY <1>1 DEF Peers
  <2>. DEFINE t == SumOf(Terms(p, i))[Parties]
              u == SumOf(Masks(p, i))[Parties]
  <2>3. /\ SumFunctionOnSet(Terms(p, i), Parties) = t /\ t \in Int
        /\ SumFunctionOnSet(Masks(p, i), Parties) = u /\ u \in Int
    BY <1>0, SumsOf
  <2>. HIDE DEF t, u, C
  <2>4. C[p] = (t - u) % T /\ C[p] \in 0 .. T - 1 /\ t - u \in Int
    <3>1. C[p] = c[p][i] /\ C[p] \in 0 .. T - 1
      BY <1>2, <1>4
    <3>2. c[p][i] = (t - u) % T
      BY <2>1, <2>2, <2>3
    <3>3. t - u \in Int
      BY <2>3
    <3>. QED BY <3>1, <3>2, <3>3
  <2>5. Cong(C[p], t - u)
    BY <1>0, <2>4, ResidueOf
  <2>. QED BY <2>5 DEF t, u
<1>6. /\ DOMAIN C = Parties /\ DOMAIN A0 = Parties /\ DOMAIN B0 = Parties
  OBVIOUS
<1>. HIDE DEF A, B, C
<1>7. Cong(SumOf(C)[Parties], SumOf(A0)[Parties] * SumOf(B0)[Parties])
  BY <1>0, <1>4, <1>5, SharesAddUp
<1>. HIDE DEF A0, B0
<1>8. /\ SumFunction(C) = SumOf(C)[Parties]
      /\ SumFunction(A0) = SumOf(A0)[Parties]
      /\ SumFunction(B0) = SumOf(B0)[Parties]
  BY <1>0, <1>3, <1>4, <1>6, SumFunctionIsSum DEF SumFunction
<1>9. SumFunction(C) % T = (SumFunction(A) * SumFunction(B)) % T
  <2>. DEFINE x == SumOf(C)[Parties]
              y == SumOf(A0)[Parties]
              z == SumOf(B0)[Parties]
  <2>1. x \in Int /\ y \in Int /\ z \in Int
    BY <1>0, <1>3, <1>4, SumFacts
  <2>2. Cong(x, y * z)
    BY <1>7
  <2>3. SumFunction(C) = x /\ SumFunction(A) = y /\ SumFunction(B) = z
    BY <1>2, <1>8
  <2>. HIDE DEF x, y, z
  <2>4. y * z \in Int
    BY <2>1
  <2>5. x % T = (y * z) % T
    BY <1>0, <2>1, <2>2, <2>4, CongMod
  <2>. QED BY <2>3, <2>5
<1>. QED BY <1>4, <1>9 DEF A, B, C

\* The triples that all parties deliver at one place are additive shares of
\* a product, for every number of parties, sample and order of the answers.
THEOREM ProductIsShared ==
  ASSUME IsFiniteSet(Parties)
  PROVE  SharesSpec => []ProductShared
<1>0. ValuesAssumption
  BY ValuesAssumed
<1>1. SharesInv => ProductShared
  BY <1>0, SharesOfProduct
<1>. QED BY <1>1, ValuesInvariance, PTL

\* The loop over needed delivers as many triples as Run was asked for, or all
\* of them.
THEOREM CountIsDelivered ==
  ASSUME IsFiniteSet(Parties)
  PROVE  SharesSpec => DeliveredCount
<1>0. ValuesAssumption
  BY ValuesAssumed
<1>. DEFINE Delivered == \A p \in Parties : \A r \in Peers(p) : \A nTriple \in Asked :
              p \in finished' \ finished /\ CollectAnswer(p, r, nTriple) =>
                 Len(triples'[p]) = IF nTriple \in 1 .. N THEN nTriple ELSE N
<1>1. SharesInv => Delivered
  <2>. SUFFICES ASSUME SharesInv, NEW p \in Parties, NEW r \in Peers(p),
                       NEW nTriple \in Asked, p \in finished',
                       CollectAnswer(p, r, nTriple)
                PROVE  Len(triples'[p]) = IF nTriple \in 1 .. N THEN nTriple ELSE N
    OBVIOUS
  <2>. DEFINE k == Count(nTriple)
              share == addVec(c[p], addVec(decAggr[p], AnswerVec(r, p)))
              delivered == [i \in 1 .. k |-> [A |-> a[p][i], B |-> b[p][i], C |-> share[i]]]
  <2>1. triples' = [triples EXCEPT ![p] = delivered]
    BY DEF CollectAnswer
  <2>2. triples'[p] = delivered
    <3>1. p \in DOMAIN triples
      BY DEF SharesInv, SharesTypeOK
    <3>. HIDE DEF delivered
    <3>. QED BY <2>1, <3>1
  <2>3. k = (IF nTriple \in 1 .. N THEN nTriple ELSE N) /\ k \in Nat
    <3>1. N \in Nat
      BY <1>0 DEF ValuesAssumption
    <3>. QED BY <1>0, <3>1, CountIs
  <2>. HIDE DEF k, share
  <2>4. Len(delivered) = k
    BY <2>3
  <2>. QED BY <2>2, <2>3, <2>4
<1>2. SharesInv => [Delivered]_triples
  BY <1>1
<1>. QED BY <1>2, ValuesInvariance, PTL DEF DeliveredCount

=============================================================================
