-------------------------- MODULE CollectiveProofs --------------------------
(***************************************************************************)
(* The collective phases are exact, one after the other: lemmas about the  *)
(* steps of Collective for all sequences of phases, cited by the proofs    *)
(* about the programs apps/psi and apps/pir.                               *)
(***************************************************************************)
EXTENDS Collective, SequenceTheorems, TLAPS

\* What the lemmas ask of the parameters: a phase takes only the combined
\* share of an earlier one, and the phases that share objects agree on the
\* first party that computes one.
PhasesOK ==
  /\ Parties \in Nat \ {0}
  /\ Len(Phases) \in Nat \ {0}
  /\ PhaseNumber = 1 .. Len(Phases)
  /\ \A k \in PhaseNumber : /\ Phases[k].first \in 0 .. Parties
                            /\ Phases[k].from \in 0 .. k - 1
  /\ \A j, k \in PhaseNumber : Phases[j].kind = Phases[k].kind => Phases[j].first = Phases[k].first

\* The initial state of the phases.
LEMMA CollectiveInitOK ==
  ASSUME PhasesOK, CollectiveInit
  PROVE  CollectiveTypeOK /\ CollectiveInv
<1>1. 1 \in PhaseNumber /\ Len(Phases) \in Nat \ {0} /\ Parties \in Nat \ {0}
      /\ Phases[1].first \in 0 .. Parties
  BY DEF PhasesOK
<1>2. CollectiveTypeOK
  <2>1. combined \in [PhaseNumber -> Seq(Shares)]
    BY EmptySeq DEF CollectiveInit
  <2>2. share \in [Kind -> [Member -> Shares]]
    BY <1>1 DEF CollectiveInit, Shares, Allocated, Member
  <2>3. member \in Member \cup {Parties} /\ phase \in 1 .. Len(Phases) + 1
    BY <1>1 DEF CollectiveInit, Member
  <2>. QED BY <2>1, <2>2, <2>3 DEF CollectiveInit, CollectiveTypeOK
<1>3. \A k \in PhaseNumber : /\ ~(k < 1) /\ Phases[k].kind \in Kind
                             /\ combined[k] = <<>>
                             /\ \A p \in Member : share[Phases[k].kind][p] = Allocated(p)
  BY DEF PhasesOK, CollectiveInit, Kind
<1>4. PhaseUnderWay
  <2>1. <<>> = [i \in 1 .. 0 |-> Due(1, i - 1)]
    OBVIOUS
  <2>2. \A p \in Member : p < Phases[1].first => Allocated(p) = Due(1, p)
    BY DEF Allocated, Due
  <2>3. phase = 1 /\ loop = "generate" /\ member = Phases[1].first
    BY DEF CollectiveInit
  <2>. QED BY <1>1, <1>3, <2>1, <2>2, <2>3 DEF PhaseUnderWay, ReadyBelow
<1>. QED BY <1>2, <1>3, <1>4 DEF CollectiveInv, CollectiveInit

\* Every step of a phase keeps the types.
LEMMA CollectiveTypeStep ==
  ASSUME PhasesOK, CollectiveTypeOK, CollectiveStep
  PROVE  CollectiveTypeOK'
<1>1. Len(Phases) \in Nat \ {0} /\ Parties \in Nat \ {0} /\ PhaseNumber = 1 .. Len(Phases)
      /\ \A k \in PhaseNumber : Phases[k].first \in 0 .. Parties /\ Phases[k].kind \in Kind
  BY DEF PhasesOK, Kind
<1>2. CASE GenShare
  <2>1. member \in Member /\ member + 1 \in Member \cup {Parties}
    BY <1>1, <1>2 DEF GenShare, CollectiveTypeOK, Member
  <2>2. PICK s \in BOOLEAN :
           share' = [share EXCEPT ![Phases[phase].kind][member] = [by |-> member, phase |-> phase, sound |-> s]]
    BY <1>2 DEF GenShare, Exact
  <2>3. [by |-> member, phase |-> phase, sound |-> s] \in Shares
    BY <1>2, <2>1 DEF Shares, GenShare
  <2>4. share' \in [Kind -> [Member -> Shares]]
    BY <2>2, <2>3 DEF CollectiveTypeOK
  <2>. QED BY <1>2, <2>1, <2>4 DEF GenShare, CollectiveTypeOK
<1>3. CASE Aggregate
  BY <1>1, <1>3 DEF Aggregate, CollectiveTypeOK, Member
<1>4. CASE AddShare
  <2>1. member \in Member /\ member + 1 \in Member \cup {Parties} /\ phase \in PhaseNumber
    BY <1>1, <1>4 DEF AddShare, CollectiveTypeOK, Member
  <2>2. share[Phases[phase].kind][member] \in Shares /\ combined[phase] \in Seq(Shares)
    BY <1>1, <2>1 DEF CollectiveTypeOK
  <2>3. Append(combined[phase], share[Phases[phase].kind][member]) \in Seq(Shares)
    BY <2>2, AppendProperties
  <2>4. combined' \in [PhaseNumber -> Seq(Shares)]
    BY <1>4, <2>3 DEF AddShare, CollectiveTypeOK
  <2>. QED BY <1>4, <2>1, <2>4 DEF AddShare, CollectiveTypeOK
<1>5. CASE EndPhase
  BY <1>1, <1>5 DEF EndPhase, CollectiveTypeOK, Member
<1>. QED BY <1>2, <1>3, <1>4, <1>5 DEF CollectiveStep

\* A step that leaves the shares alone, and the combined shares of all phases
\* but the one under way, keeps the invariant if it does so for that phase.
LEMMA OthersKept ==
  ASSUME CollectiveInv, UNCHANGED share, UNCHANGED phase, phase \in Int, PhaseNumber \subseteq Int,
         \A k \in PhaseNumber : k # phase => combined'[k] = combined[k],
         PhaseUnderWay'
  PROVE  CollectiveInv'
<1>1. ASSUME NEW k \in PhaseNumber
      PROVE  /\ k < phase => combined'[k] = [i \in 1 .. Parties |-> Due(k, i - 1)]
             /\ k > phase => combined'[k] = <<>>
             /\ \A p \in Member : p < Phases[k].first => share'[Phases[k].kind][p] = Allocated(p)
  <2>1. /\ k < phase => Exact(k)
        /\ k > phase => combined[k] = <<>>
        /\ \A p \in Member : p < Phases[k].first => share[Phases[k].kind][p] = Allocated(p)
    BY DEF CollectiveInv
  <2>2. k < phase \/ k > phase => combined'[k] = combined[k]
    BY <1>1
  <2>. QED BY <2>1, <2>2 DEF Exact
<1>. QED BY <1>1 DEF CollectiveInv, Exact, Due, Allocated

\* Every step of a phase keeps the invariant: in particular a share that goes
\* into a combined share was computed for this very phase.
LEMMA CollectiveInvStep ==
  ASSUME PhasesOK, CollectiveTypeOK, CollectiveInv, CollectiveStep
  PROVE  CollectiveInv'
<1>. DEFINE kind == Phases[phase].kind
<1>1. /\ Len(Phases) \in Nat \ {0} /\ Parties \in Nat \ {0} /\ PhaseNumber = 1 .. Len(Phases)
      /\ \A k \in PhaseNumber : /\ Phases[k].first \in 0 .. Parties /\ Phases[k].kind \in Kind
                                /\ Phases[k].from \in 0 .. k - 1
  BY DEF PhasesOK, Kind
<1>2. phase \in PhaseNumber /\ kind \in Kind
  BY <1>1 DEF CollectiveStep, GenShare, Aggregate, AddShare, EndPhase
<1>3. CASE GenShare
  <2>1. member \in Member /\ member + 1 \in Nat /\ loop = "generate" /\ Phases[phase].first <= member
    BY <1>1, <1>2, <1>3 DEF GenShare, CollectiveTypeOK, Member, CollectiveInv, PhaseUnderWay
  <2>2. Phases[phase].from = 0 \/ Exact(Phases[phase].from)
    <3>1. CASE Phases[phase].from # 0
      <4>1. Phases[phase].from \in PhaseNumber /\ Phases[phase].from < phase
        BY <1>1, <1>2, <3>1
      <4>. QED BY <4>1 DEF CollectiveInv
    <3>. QED BY <3>1
  <2>3. share' = [share EXCEPT ![kind][member] = Due(phase, member)]
    <3>1. Due(phase, member) = [by |-> member, phase |-> phase, sound |-> TRUE]
      <4>1. Phases[phase].first \in Int /\ member \in Int
        BY <1>1, <1>2, <2>1 DEF Member
      <4>2. ~(member < Phases[phase].first)
        BY <2>1, <4>1
      <4>. QED BY <4>2 DEF Due
    <3>. QED BY <1>3, <2>2, <3>1 DEF GenShare
  <2>4. ASSUME NEW t \in Kind, NEW p \in Member
        PROVE  share'[t][p] = IF t = kind /\ p = member THEN Due(phase, member) ELSE share[t][p]
    BY <1>2, <2>1, <2>3 DEF CollectiveTypeOK
  <2>5. ASSUME NEW k \in PhaseNumber, NEW p \in Member, p < Phases[k].first
        PROVE  share'[Phases[k].kind][p] = Allocated(p)
    <3>1. share[Phases[k].kind][p] = Allocated(p)
      BY <2>5 DEF CollectiveInv
    <3>2. ASSUME Phases[k].kind = kind, p = member PROVE FALSE
      <4>1. Phases[k].first = Phases[phase].first
        BY <1>2, <3>2 DEF PhasesOK
      <4>2. Phases[phase].first \in Int /\ member \in Int
        BY <1>1, <1>2, <2>1 DEF Member
      <4>. QED BY <2>1, <2>5, <3>2, <4>1, <4>2
    <3>. QED BY <1>1, <2>4, <3>1, <3>2
  <2>6. ASSUME NEW p \in Member, p < member + 1 PROVE share'[kind][p] = Due(phase, p)
    <3>1. p = member \/ p < member
      BY <2>1, <2>6 DEF Member
    <3>2. p < member => share[kind][p] = Due(phase, p)
      BY <1>2, <2>1 DEF CollectiveInv, PhaseUnderWay, ReadyBelow
    <3>. QED BY <1>2, <2>4, <3>1, <3>2
  <2>7. member' = member + 1 /\ UNCHANGED <<phase, loop, combined>>
    BY <1>3 DEF GenShare
  <2>8. Phases[phase].first <= member + 1
    BY <1>1, <1>2, <2>1 DEF Member
  <2>9. PhaseUnderWay'
    BY <1>2, <2>1, <2>6, <2>7, <2>8 DEF CollectiveInv, PhaseUnderWay, ReadyBelow, Due
  <2>. QED BY <2>5, <2>7, <2>9 DEF CollectiveInv, Exact, Due, Allocated
<1>4. CASE Aggregate
  <2>1. /\ member = Parties /\ loop = "generate" /\ loop' = "aggregate" /\ member' = 0
        /\ UNCHANGED <<phase, share, combined>>
    BY <1>4 DEF Aggregate
  <2>2. PhaseUnderWay'
    BY <1>2, <2>1 DEF CollectiveInv, PhaseUnderWay, ReadyBelow, Due
  <2>. QED BY <2>1, <2>2 DEF CollectiveInv, Exact, Due, Allocated
<1>5. CASE AddShare
  <2>1. /\ loop = "aggregate" /\ member \in Member /\ member + 1 \in Nat /\ member' = member + 1
        /\ combined' = [combined EXCEPT ![phase] = Append(@, share[kind][member])]
        /\ UNCHANGED <<phase, loop, share>>
    BY <1>1, <1>5 DEF AddShare, CollectiveTypeOK, Member
  <2>2. share[kind][member] = Due(phase, member)
    BY <1>1, <1>2, <2>1 DEF CollectiveInv, PhaseUnderWay, ReadyBelow, Member
  <2>3. combined[phase] = [i \in 1 .. member |-> Due(phase, i - 1)] /\ combined[phase] \in Seq(Shares)
    BY <1>2, <2>1 DEF CollectiveInv, PhaseUnderWay, CollectiveTypeOK
  <2>4. Due(phase, member) \in Shares
    BY <1>2, <2>1, <2>2 DEF CollectiveTypeOK
  <2>5. Append(combined[phase], Due(phase, member)) = [i \in 1 .. member + 1 |-> Due(phase, i - 1)]
    <3>1. Len(combined[phase]) = member
      BY <2>1, <2>3, LenProperties DEF Member
    <3>. DEFINE longer == Append(combined[phase], Due(phase, member))
    <3>2. /\ longer \in Seq(Shares) /\ Len(longer) = member + 1
          /\ \A i \in 1 .. member : longer[i] = combined[phase][i]
          /\ longer[member + 1] = Due(phase, member)
      <4>1. combined[phase] \in Seq(Shares) /\ Due(phase, member) \in Shares
        BY <2>3, <2>4
      <4>2. /\ longer \in Seq(Shares) /\ Len(longer) = Len(combined[phase]) + 1
            /\ \A i \in 1 .. Len(combined[phase]) : longer[i] = combined[phase][i]
            /\ longer[Len(combined[phase]) + 1] = Due(phase, member)
        BY <4>1, AppendProperties
      <4>. QED BY <3>1, <4>2
    <3>3. \A i \in 1 .. member + 1 : longer[i] = Due(phase, i - 1)
      <4>1. \A i \in 1 .. member : longer[i] = Due(phase, i - 1)
        BY <2>3, <3>2
      <4>2. longer[member + 1] = Due(phase, member + 1 - 1)
        BY <2>1, <3>2 DEF Member
      <4>. HIDE DEF longer
      <4>. QED BY <2>1, <4>1, <4>2 DEF Member
    <3>4. longer = [i \in 1 .. member + 1 |-> longer[i]]
      BY <3>2, LenProperties
    <3>. QED BY <3>3, <3>4
  <2>6. combined'[phase] = [i \in 1 .. member + 1 |-> Due(phase, i - 1)]
        /\ \A k \in PhaseNumber : k # phase => combined'[k] = combined[k]
    BY <1>2, <2>1, <2>2, <2>5 DEF CollectiveTypeOK
  <2>7. PhaseUnderWay'
    BY <1>2, <2>1, <2>6 DEF CollectiveInv, PhaseUnderWay, ReadyBelow, Due
  <2>8. ASSUME NEW k \in PhaseNumber, k # phase PROVE combined'[k] = combined[k]
    BY <2>6, <2>8
  <2>. QED BY <1>1, <1>2, <2>1, <2>7, <2>8, OthersKept
<1>6. CASE EndPhase
  <2>1. /\ loop = "aggregate" /\ member = Parties /\ phase' = phase + 1 /\ loop' = "generate"
        /\ member' = IF phase + 1 \in PhaseNumber THEN Phases[phase + 1].first ELSE 0
        /\ UNCHANGED <<share, combined>>
    BY <1>6 DEF EndPhase
  <2>2. Exact(phase)
    BY <1>2, <2>1 DEF CollectiveInv, PhaseUnderWay, Exact
  <2>3. ASSUME NEW k \in PhaseNumber
        PROVE  /\ k < phase' => combined'[k] = [i \in 1 .. Parties |-> Due(k, i - 1)]
               /\ k > phase' => combined'[k] = <<>>
    <3>1. k < phase' => k < phase \/ k = phase
      BY <1>1, <1>2, <2>1
    <3>2. k > phase' => k > phase
      BY <1>1, <1>2, <2>1
    <3>3. k < phase => Exact(k)
      BY DEF CollectiveInv
    <3>4. k > phase => combined[k] = <<>>
      BY DEF CollectiveInv
    <3>. QED BY <2>1, <2>2, <3>1, <3>2, <3>3, <3>4 DEF Exact
  <2>4. PhaseUnderWay'
    <3>. SUFFICES ASSUME phase' \in PhaseNumber
                  PROVE  /\ Phases[phase'].first <= member'
                         /\ \A p \in Member : p < member' => share'[Phases[phase'].kind][p] = Due(phase', p)
                         /\ combined'[phase'] = [i \in 1 .. 0 |-> Due(phase', i - 1)]
      BY <2>1 DEF PhaseUnderWay, ReadyBelow, Due
    <3>1. phase' \in PhaseNumber /\ member' = Phases[phase'].first /\ phase' > phase
      BY <1>1, <1>2, <2>1
    <3>2. combined[phase'] = <<>>
      <4>1. \A k \in PhaseNumber : k > phase => combined[k] = <<>>
        BY DEF CollectiveInv
      <4>. QED BY <3>1, <4>1
    <3>3. ASSUME NEW p \in Member, p < Phases[phase'].first
          PROVE  share[Phases[phase'].kind][p] = Due(phase', p)
      <4>1. \A k \in PhaseNumber : p < Phases[k].first => share[Phases[k].kind][p] = Allocated(p)
        BY DEF CollectiveInv
      <4>2. Due(phase', p) = Allocated(p)
        BY <3>3 DEF Due, Allocated
      <4>. QED BY <3>1, <3>3, <4>1, <4>2
    <3>4. Phases[phase'].first <= Phases[phase'].first
      BY <1>1
    <3>. QED BY <2>1, <3>1, <3>2, <3>3, <3>4
  <2>5. \A k \in PhaseNumber : \A p \in Member : p < Phases[k].first =>
           share'[Phases[k].kind][p] = Allocated(p)
    BY <2>1 DEF CollectiveInv
  <2>. QED BY <2>3, <2>4, <2>5 DEF CollectiveInv, Exact, Due, Allocated
<1>. QED BY <1>3, <1>4, <1>5, <1>6 DEF CollectiveStep
=============================================================================
