----------------------------- MODULE TreeLinks -----------------------------
(***************************************************************************)
(* The transport of the two tree protocols: what BindNetwork starts in     *)
(* apps/tpl/genrlk.go and, with the same code, in apps/tpl/offline_mhe.go. *)
(*                                                                         *)
(* For every bound remote a party has a channel, a goroutine that writes   *)
(* its messages to the connection, and a goroutine that reads messages     *)
(* from the connection and puts them into the channel of the protocol.     *)
(* There are no capacity guards here: NeverFull says that no channel ever  *)
(* reaches its capacity, so that no send blocks.                           *)
(***************************************************************************)
EXTENDS Tree, Sequences

CONSTANTS ChanCap,       \* capacity of the channels (32 in the code)
          DeadlinesFire  \* may a read wait longer than the 20 s deadline?

ASSUME ChanCapAssumption == ChanCap \in Nat \ {0}
ASSUME DeadlinesAssumption == DeadlinesFire \in BOOLEAN

VARIABLES
  outbox,   \* outbox[p][q]: the channel of the remote q of p
  wire,     \* wire[p][q]: whole messages written by p, not yet read by q
  torn,     \* torn[p][q]: p died in the middle of writing a message to q
  reading,  \* reading[q]: remotes whose receiving goroutine still loops at q
  inbox,    \* inbox[p]: the channel Chan of the protocol
  proc      \* the process of p: up, or ended by exit, by a panic or by the script

links == <<outbox, wire, torn, reading, inbox, proc>>

LinksTypeOK(Messages) ==
  /\ outbox \in [Party -> [Party -> Seq(Messages)]]
  /\ wire \in [Party -> [Party -> Seq(Messages)]]
  /\ torn \in [Party -> [Party -> BOOLEAN]]
  /\ reading \in [Party -> SUBSET Party]
  /\ inbox \in [Party -> Seq(Messages)]
  /\ proc \in [Party -> {"up", "exited", "panicked", "stopped"}]

LinksInit ==
  /\ outbox = [p \in Party |-> [q \in Party |-> <<>>]]
  /\ wire = [p \in Party |-> [q \in Party |-> <<>>]]
  /\ torn = [p \in Party |-> [q \in Party |-> FALSE]]
  /\ reading = [p \in Party |-> Binds(p)]
  /\ inbox = [p \in Party |-> <<>>]
  /\ proc = [p \in Party |-> "up"]

Up(p) == proc[p] = "up"

\* outbox[p] after one message has been queued for every q in to.
Queue(p, to, m) == [q \in Party |-> IF q \in to THEN Append(outbox[p][q], m) ELSE outbox[p][q]]

-----------------------------------------------------------------------------
(* The goroutines.                                                         *)

Send(p, q) ==
  /\ Up(p)
  /\ outbox[p][q] # <<>>
  /\ outbox' = [outbox EXCEPT ![p][q] = Tail(@)]
  /\ wire' = [wire EXCEPT ![p][q] = Append(@, Head(outbox[p][q]))]
  /\ UNCHANGED <<torn, reading, inbox, proc>>

Receive(q, p) ==
  /\ Up(q)
  /\ p \in reading[q]
  /\ wire[p][q] # <<>>
  /\ wire' = [wire EXCEPT ![p][q] = Tail(@)]
  /\ inbox' = [inbox EXCEPT ![q] = Append(@, Head(wire[p][q]))]
  /\ UNCHANGED <<outbox, torn, reading, proc>>

\* End of file between two messages: the receiving goroutine returns, the
\* process goes on without it.
ReceiveEOF(q, p) ==
  /\ Up(q)
  /\ p \in reading[q]
  /\ ~Up(p)
  /\ wire[p][q] = <<>>
  /\ ~torn[p][q]
  /\ reading' = [reading EXCEPT ![q] = @ \ {p}]
  /\ UNCHANGED <<outbox, wire, torn, inbox, proc>>

\* The process ends with all its goroutines; a sending goroutine that was at
\* work leaves a part of its message on the wire.
End(p, how) ==
  /\ proc' = [proc EXCEPT ![p] = how]
  /\ \E cut \in SUBSET {q \in Binds(p) : outbox[p][q] # <<>>} :
        torn' = [torn EXCEPT ![p] = [q \in Party |-> q \in cut]]
  /\ UNCHANGED <<outbox, wire, reading, inbox>>

\* The deadline has passed, the peer died with bytes of q unread (connection
\* reset), or in the middle of a message.  genrlk.go means to return quietly
\* on a reset, but it compares err.Error(), which wraps the system's text,
\* with that text alone: it panics like offline_mhe.go.
ReadFails(q, p) ==
  /\ Up(q)
  /\ p \in reading[q]
  /\ \/ DeadlinesFire
     \/ ~Up(p) /\ wire[q][p] # <<>>
     \/ ~Up(p) /\ wire[p][q] = <<>> /\ torn[p][q]
  /\ End(q, "panicked")

WriteFails(p, q) ==
  /\ Up(p)
  /\ ~Up(q)
  /\ outbox[p][q] # <<>>
  /\ End(p, "panicked")

\* What the goroutines of p do while all goes well, and how they fail.
Flow(p)     == \E q \in Binds(p) : Send(p, q) \/ Receive(p, q) \/ ReceiveEOF(p, q)
Failures(p) == \E q \in Binds(p) : ReadFails(p, q) \/ WriteFails(p, q)

-----------------------------------------------------------------------------
\* A goroutine that puts a message into a channel never waits: no channel
\* ever holds more messages than its capacity.
NeverFull ==
  \A p \in Party : /\ Len(inbox[p]) <= ChanCap
                   /\ \A q \in Party : Len(outbox[p][q]) <= ChanCap
=============================================================================
