----------------------------- MODULE MheClient -----------------------------
(***************************************************************************)
(* The whole process of an "mhe" party, ClientMHETripleGen in apps/tpl/    *)
(* main.go, and the script run-tpl-parties.sh around the parties:          *)
(*   - the collective key is generated over a first network,               *)
(*   - a second network is connected, while the goroutines of the first go *)
(*     on,                                                                 *)
(*   - the triples are generated over the second network, and the process  *)
(*     exits,                                                              *)
(*   - when the process of party 0 has ended, the script stops all others. *)
(* When a process ends, the connections of both networks end with it.      *)
(*                                                                         *)
(* The variables of MheTripleGen are those of the second network.  How the *)
(* connections come about, or fail to, is the subject of TcpNetwork: here  *)
(* they do.                                                                *)
(***************************************************************************)
EXTENDS MheTripleGen

VARIABLES
  phase,  \* phase[p]: where is ClientMHETripleGen?
  setupOutbox, setupWire, setupTorn, setupReading, setupInbox,  \* first network
  crp, share1, share2, setupState, setupRun, rlk                \* RkgProtocol

setupProtocol == <<crp, share1, share2, setupState, setupRun, rlk>>
setup   == <<setupOutbox, setupWire, setupTorn, setupReading, setupInbox, setupProtocol>>
triples == <<outbox, wire, torn, reading, inbox, protocol>>
clientVars == <<setup, triples, proc, phase>>

Setup == INSTANCE RkgProtocol WITH
  outbox <- setupOutbox, wire <- setupWire, torn <- setupTorn,
  reading <- setupReading, inbox <- setupInbox,
  state <- setupState, run <- setupRun

\* The first Connect has returned at every party, the key generation is bound.
ClientInit ==
  /\ Setup!Init
  /\ Init
  /\ phase = [p \in Party |-> "setup"]

-----------------------------------------------------------------------------
RunSetup(p)  == Setup!Run(p) /\ UNCHANGED <<triples, phase>>
FlowSetup(p) == Setup!Flow(p) /\ UNCHANGED <<setupProtocol, triples, phase>>

\* rlkGenProtocol.Run has returned: connect the second network.
ConnectAgain(p) ==
  /\ Up(p)
  /\ phase[p] = "setup"
  /\ setupRun[p] = "returned"
  /\ phase' = [phase EXCEPT ![p] = "connecting"]
  /\ UNCHANGED <<setup, triples, proc>>

\* Faulty: the peers are not waited for.
BindAtOnce(p) ==
  /\ Up(p)
  /\ phase[p] = "connecting"
  /\ phase' = [phase EXCEPT ![p] = "triples"]
  /\ UNCHANGED <<setup, triples, proc>>

\* The second Connect returns when all peers have called it; BindNetwork.
Bind(p) ==
  /\ Up(p)
  /\ phase[p] = "connecting"
  /\ \A q \in Party : phase[q] # "setup"
  /\ phase' = [phase EXCEPT ![p] = "triples"]
  /\ UNCHANGED <<setup, triples, proc>>

RunTriples(p)  == phase[p] = "triples" /\ Run(p) /\ UNCHANGED <<setup, phase>>
FlowTriples(p) == phase[p] = "triples" /\ Flow(p) /\ UNCHANGED <<setup, protocol, phase>>

-----------------------------------------------------------------------------
(* The end of a process is its end in both networks.                       *)

others == <<setupProtocol, protocol, phase>>

\* A goroutine of the first network panics, in whatever phase the process is.
FailSetup(p) ==
  /\ Setup!Failures(p)
  /\ End(p, "panicked")
  /\ UNCHANGED others

FailTriples(p) ==
  /\ phase[p] = "triples"
  /\ Failures(p)
  /\ Setup!End(p, "panicked")
  /\ UNCHANGED others

\* Drain Triples, print, sleep for a second and return from main.  The sleep
\* makes it unlikely that a message is still in an outbox; nothing makes it
\* impossible.
Exit(p) ==
  /\ Up(p)
  /\ run[p] = "returned"
  /\ End(p, "exited")
  /\ Setup!End(p, "exited")
  /\ UNCHANGED others

\* docker stop: the container of party 0 has ended.
Stop(p) ==
  /\ ~Up(Root)
  /\ Up(p)
  /\ End(p, "stopped")
  /\ Setup!End(p, "stopped")
  /\ UNCHANGED others

ClientStep(p) ==
  \/ RunSetup(p)   \/ FlowSetup(p)   \/ FailSetup(p)
  \/ ConnectAgain(p) \/ Bind(p)
  \/ RunTriples(p) \/ FlowTriples(p) \/ FailTriples(p)
  \/ Exit(p) \/ Stop(p)

ClientNext == \E p \in Party : ClientStep(p)

ClientSpec == ClientInit /\ [][ClientNext]_clientVars

\* Every goroutine that can run is run, and every message that can be sent or
\* received is.  Nothing is said of failures and of the script.
ClientFairness ==
  \A p \in Party :
     /\ WF_clientVars(RunSetup(p))
     /\ WF_clientVars(ConnectAgain(p))
     /\ WF_clientVars(Bind(p))
     /\ WF_clientVars(RunTriples(p))
     /\ WF_clientVars(Exit(p))
     /\ \A q \in Binds(p) :
           LET SetupLink(A) == A /\ UNCHANGED <<setupProtocol, triples, phase>>
               TriplesLink(A) == A /\ phase[p] = "triples" /\ UNCHANGED <<setup, protocol, phase>>
           IN  /\ WF_clientVars(SetupLink(Setup!Send(p, q)))
               /\ WF_clientVars(SetupLink(Setup!Receive(p, q)))
               /\ WF_clientVars(TriplesLink(Send(p, q)))
               /\ WF_clientVars(TriplesLink(Receive(p, q)))

ClientFairSpec == ClientSpec /\ ClientFairness

-----------------------------------------------------------------------------
(* Properties.                                                             *)

\* The goroutines of the first network live on in the second phase, and panic
\* on any reset: nobody starts with the triples before the key is exact, and
\* no message of the setup is left anywhere.
SetupDone ==
  (\E p \in Party : phase[p] = "triples") =>
     /\ rlk # Setup!NoKey /\ Setup!KeyExact
     /\ \A p, q \in Party : setupOutbox[p][q] = <<>> /\ setupWire[p][q] = <<>>
     /\ \A p \in Party : setupInbox[p] = <<>>

\* A party has exited with a message of the triples in one of its channels.
LostMessage ==
  \E p, q \in Party : proc[p] = "exited" /\ outbox[p][q] # <<>>

\* One process panics only because another one has exited, successfully, with
\* messages unsent; neither exits in an orderly way nor docker stop cause it.
PanicOnlyAfterLoss ==
  (\E p \in Party : proc[p] = "panicked") => LostMessage

\* docker stop takes nothing from anybody: a party that it stops has all its
\* triples, like every other party, unless party 0 has panicked.
StopHarmless ==
  \A p \in Party : proc[p] = "stopped" /\ proc[Root] # "panicked" =>
     \A q \in Party : run[q] = "returned"

\* Every party gets its triples, unless some party exits too early.
AllReturnOrLoss ==
  <>((\A p \in Party : run[p] = "returned") \/ LostMessage)
=============================================================================
