----------------------------- MODULE Collective -----------------------------
(***************************************************************************)
(* The collective phases of the programs apps/psi and apps/pir: the main   *)
(* goroutine plays all the parties.  In every phase a first loop computes  *)
(* the share of each party, and a second one adds the shares up in a       *)
(* combined share, from which a key or a re-encrypted result is made.      *)
(*                                                                         *)
(* Phases of one kind use the same share objects: what a phase does not    *)
(* compute anew is what the phase before left there.                       *)
(***************************************************************************)
EXTENDS Integers, Sequences

CONSTANTS
  Parties,  \* number of parties
  Phases    \* the phases: the kind of the shares, the first party that
            \* computes one, and the phase whose combined share goes into it

PhaseNumber == DOMAIN Phases
Member == 0 .. Parties - 1
Kind == {Phases[k].kind : k \in PhaseNumber}

VARIABLES
  phase,    \* number of the phase that comes or is under way
  loop,     \* its loop: "generate" or "aggregate"
  member,   \* index of the loop
  share,    \* share[kind][p]: the share object of party p
  combined  \* combined[k]: the summands of the combined share of phase k

collective == <<phase, loop, member, share, combined>>

\* A share: whose it is, for which phase it was computed (0: allocated, but
\* never computed), and whether what went into it was exact.
Shares == [by : Member, phase : {0} \cup PhaseNumber, sound : BOOLEAN]
Allocated(p) == [by |-> p, phase |-> 0, sound |-> TRUE]

\* The share of party p for phase k; a party that computes none takes part
\* with the zero of its allocation.
Due(k, p) == [by |-> p, phase |-> IF p < Phases[k].first THEN 0 ELSE k, sound |-> TRUE]

\* Each party's share for this phase, once.
Exact(k) == combined[k] = [i \in 1 .. Parties |-> Due(k, i - 1)]

CollectiveTypeOK ==
  /\ phase \in 1 .. Len(Phases) + 1
  /\ loop \in {"generate", "aggregate"}
  /\ member \in Member \cup {Parties}
  /\ share \in [Kind -> [Member -> Shares]]
  /\ combined \in [PhaseNumber -> Seq(Shares)]

CollectiveInit ==
  /\ phase = 1
  /\ loop = "generate"
  /\ member = Phases[1].first
  /\ share = [kind \in Kind |-> [p \in Member |-> Allocated(p)]]
  /\ combined = [k \in PhaseNumber |-> <<>>]

-----------------------------------------------------------------------------
\* Faulty: a share that has been computed before is taken for this phase's.
GenShareOnce ==
  /\ phase \in PhaseNumber
  /\ loop = "generate"
  /\ member < Parties
  /\ LET kind == Phases[phase].kind
     IN  share' = IF share[kind][member].phase # 0 THEN share ELSE
                    [share EXCEPT ![kind][member] = [by |-> member, phase |-> phase, sound |-> TRUE]]
  /\ member' = member + 1
  /\ UNCHANGED <<phase, loop, combined>>

\* One iteration of the first loop.
GenShare ==
  /\ phase \in PhaseNumber
  /\ loop = "generate"
  /\ member < Parties
  /\ LET from == Phases[phase].from
     IN  share' = [share EXCEPT ![Phases[phase].kind][member] =
                     [by |-> member, phase |-> phase, sound |-> from = 0 \/ Exact(from)]]
  /\ member' = member + 1
  /\ UNCHANGED <<phase, loop, combined>>

\* The combined share is allocated as zero.
Aggregate ==
  /\ phase \in PhaseNumber
  /\ loop = "generate"
  /\ member = Parties
  /\ loop' = "aggregate"
  /\ member' = 0
  /\ UNCHANGED <<phase, share, combined>>

\* One iteration of the second loop.
AddShare ==
  /\ phase \in PhaseNumber
  /\ loop = "aggregate"
  /\ member < Parties
  /\ combined' = [combined EXCEPT ![phase] = Append(@, share[Phases[phase].kind][member])]
  /\ member' = member + 1
  /\ UNCHANGED <<phase, loop, share>>

\* The key or the result is made; the next phase can begin.
EndPhase ==
  /\ phase \in PhaseNumber
  /\ loop = "aggregate"
  /\ member = Parties
  /\ phase' = phase + 1
  /\ loop' = "generate"
  /\ member' = IF phase + 1 \in PhaseNumber THEN Phases[phase + 1].first ELSE 0
  /\ UNCHANGED <<share, combined>>

CollectiveStep == GenShare \/ Aggregate \/ AddShare \/ EndPhase

-----------------------------------------------------------------------------
(* The invariant of the phases.                                            *)

\* In the phase under way, the shares of the parties below this one are ready.
ReadyBelow == IF loop = "generate" THEN member ELSE Parties

PhaseUnderWay ==
  phase \in PhaseNumber =>
     /\ loop = "generate" => Phases[phase].first <= member
     /\ \A p \in Member : p < ReadyBelow => share[Phases[phase].kind][p] = Due(phase, p)
     /\ combined[phase] = [i \in 1 .. (IF loop = "generate" THEN 0 ELSE member) |-> Due(phase, i - 1)]

\* The phases before are exact, those to come have not begun, and a party that
\* computes no share of a kind still has its allocation.
CollectiveInv ==
  /\ \A k \in PhaseNumber :
       /\ k < phase => Exact(k)
       /\ k > phase => combined[k] = <<>>
       /\ \A p \in Member : p < Phases[k].first => share[Phases[k].kind][p] = Allocated(p)
  /\ PhaseUnderWay
=============================================================================
