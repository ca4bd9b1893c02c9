------------------------ MODULE AgentWorkflowsProofs ------------------------
(***************************************************************************)
(* TLAPS proofs about AgentWorkflows, for any number of workflows and any  *)
(* size of the thread pool.                                                *)
(***************************************************************************)
EXTENDS AgentWorkflows, TLAPS

\* Nothing runs and nothing is published when the service starts.
LEMMA InitIInv == Init => IInv
BY FlowsAssumption
   DEF Init, IInv, TypeOK, OwnNodes, GraphState, PublishedLast, VerifiedMeansAllPassed,
       ErrorIffFailed, CrewsAreUnderWay, Verifies, ProofNodes, Nodes, Running, Ended,
       Statuses, Verdicts, Flows

\* What the workflows put into Redis is an entry.
LEMMA EntryTyped ==
    ASSUME NEW s \in Statuses, NEW e \in BOOLEAN, NEW r \in {"missing", "string"}
    PROVE  [status |-> s, error |-> e, result |-> r] \in Entry
BY DEF Entry

\* Every node of the graph, every step of an onboarding, an expiry and a restart
\* preserve the invariant.
LEMMA NextIInv == IInv /\ [Next]_vars => IInv'
<1> SUFFICES ASSUME IInv, [Next]_vars PROVE IInv'
  OBVIOUS
<1> USE DEF IInv
<1>1. ASSUME NEW w \in Flows, Start(w)
      PROVE  IInv'
  <2> USE <1>1 DEF Start, Goto
  <2>1. TypeOK'
    BY FlowsAssumption DEF TypeOK, Nodes, Running, Ended, Statuses,
           Verdicts, Entry, OwnNodes
  <2>2. OwnNodes'
    BY FlowsAssumption DEF OwnNodes, TypeOK, ProofNodes, Nodes, Running,
           Ended, Flows
  <2>3. GraphState'
    BY FlowsAssumption DEF GraphState, Verifies, TypeOK, ProofNodes, Nodes,
           Running, Ended
  <2>4. PublishedLast'
    BY FlowsAssumption DEF PublishedLast, TypeOK, Ended, Running, Nodes
  <2>5. CrewsAreUnderWay'
    BY FlowsAssumption DEF CrewsAreUnderWay, OwnNodes, TypeOK, Flows,
           ProofNodes
  <2>6. VerifiedMeansAllPassed' /\ ErrorIffFailed'
    BY DEF VerifiedMeansAllPassed, ErrorIffFailed
  <2>7. QED
    BY <2>1, <2>2, <2>3, <2>4, <2>5, <2>6
<1>2. ASSUME NEW w \in Flows, Dispatch(w)
      PROVE  IInv'
  <2> USE <1>2 DEF Dispatch, Goto
  <2>1. TypeOK'
    BY FlowsAssumption DEF TypeOK, Nodes, Running, Ended, Statuses,
           Verdicts, Entry, OwnNodes
  <2>2. OwnNodes'
    BY FlowsAssumption DEF OwnNodes, TypeOK, ProofNodes, Nodes, Running,
           Ended, Flows
  <2>3. GraphState'
    BY FlowsAssumption DEF GraphState, Verifies, TypeOK, ProofNodes, Nodes,
           Running, Ended
  <2>4. PublishedLast'
    BY FlowsAssumption DEF PublishedLast, TypeOK, Ended, Running, Nodes
  <2>5. CrewsAreUnderWay'
    BY FlowsAssumption DEF CrewsAreUnderWay, OwnNodes, TypeOK, Flows,
           ProofNodes
  <2>6. VerifiedMeansAllPassed' /\ ErrorIffFailed'
    BY DEF VerifiedMeansAllPassed, ErrorIffFailed
  <2>7. QED
    BY <2>1, <2>2, <2>3, <2>4, <2>5, <2>6
<1>3. ASSUME NEW w \in Flows, NEW ok \in BOOLEAN, Validate(w, ok)
      PROVE  IInv'
  <2> USE <1>3 DEF Validate, Goto, Status, GiveUp
  <2>1. TypeOK'
    BY FlowsAssumption DEF TypeOK, Nodes, Running, Ended, Statuses,
           Verdicts, Entry, OwnNodes
  <2>2. OwnNodes'
    BY FlowsAssumption DEF OwnNodes, TypeOK, ProofNodes, Nodes, Running,
           Ended, Flows
  <2>3. GraphState'
    BY FlowsAssumption DEF GraphState, Verifies, TypeOK, ProofNodes, Nodes,
           Running, Ended
  <2>4. PublishedLast'
    BY FlowsAssumption DEF PublishedLast, TypeOK, Ended, Running, Nodes
  <2>5. VerifiedMeansAllPassed'
    BY FlowsAssumption DEF VerifiedMeansAllPassed, PublishedLast,
           GraphState, Verifies, TypeOK, ProofNodes, Nodes, Running, Ended,
           Entry
  <2>6. ErrorIffFailed'
    BY FlowsAssumption DEF ErrorIffFailed, PublishedLast, GraphState,
           OwnNodes, Verifies, TypeOK, ProofNodes, Nodes, Running, Ended,
           Entry, Flows
  <2>7. CrewsAreUnderWay'
    BY FlowsAssumption DEF CrewsAreUnderWay, OwnNodes, TypeOK, Flows,
           ProofNodes
  <2>8. QED
    BY <2>1, <2>2, <2>3, <2>4, <2>5, <2>6, <2>7
<1>4. ASSUME NEW w \in Flows, NEW ok \in BOOLEAN, GenerateWitness(w, ok)
      PROVE  IInv'
  <2> USE <1>4 DEF GenerateWitness, Goto, Status, GiveUp
  <2>1. TypeOK'
    BY FlowsAssumption DEF TypeOK, Nodes, Running, Ended, Statuses,
           Verdicts, Entry, OwnNodes
  <2>2. OwnNodes'
    BY FlowsAssumption DEF OwnNodes, TypeOK, ProofNodes, Nodes, Running,
           Ended, Flows
  <2>3. GraphState'
    BY FlowsAssumption DEF GraphState, Verifies, TypeOK, ProofNodes, Nodes,
           Running, Ended
  <2>4. PublishedLast'
    BY FlowsAssumption DEF PublishedLast, TypeOK, Ended, Running, Nodes
  <2>5. VerifiedMeansAllPassed'
    BY FlowsAssumption DEF VerifiedMeansAllPassed, PublishedLast,
           GraphState, Verifies, TypeOK, ProofNodes, Nodes, Running, Ended,
           Entry
  <2>6. ErrorIffFailed'
    BY FlowsAssumption DEF ErrorIffFailed, PublishedLast, GraphState,
           OwnNodes, Verifies, TypeOK, ProofNodes, Nodes, Running, Ended,
           Entry, Flows
  <2>7. CrewsAreUnderWay'
    BY FlowsAssumption DEF CrewsAreUnderWay, OwnNodes, TypeOK, Flows,
           ProofNodes
  <2>8. QED
    BY <2>1, <2>2, <2>3, <2>4, <2>5, <2>6, <2>7
<1>5. ASSUME NEW w \in Flows, NEW ok \in BOOLEAN, GenerateProof(w, ok)
      PROVE  IInv'
  <2> USE <1>5 DEF GenerateProof, Goto, Status, GiveUp
  <2>1. TypeOK'
    <3>1. proof' \in [Flows -> BOOLEAN]
      BY DEF TypeOK
    <3>2. QED
      BY <3>1 DEF TypeOK, Nodes, Running, Statuses
  <2>2. OwnNodes'
    BY FlowsAssumption DEF OwnNodes, TypeOK, ProofNodes, Nodes, Running,
           Ended, Flows
  <2>3. GraphState'
    BY FlowsAssumption DEF GraphState, Verifies, TypeOK, ProofNodes, Nodes,
           Running, Ended
  <2>4. PublishedLast'
    BY FlowsAssumption DEF PublishedLast, TypeOK, Ended, Running, Nodes
  <2>5. VerifiedMeansAllPassed'
    BY FlowsAssumption DEF VerifiedMeansAllPassed, PublishedLast,
           GraphState, Verifies, TypeOK, ProofNodes, Nodes, Running, Ended,
           Entry
  <2>6. ErrorIffFailed'
    BY FlowsAssumption DEF ErrorIffFailed, PublishedLast, GraphState,
           OwnNodes, Verifies, TypeOK, ProofNodes, Nodes, Running, Ended,
           Entry, Flows
  <2>7. CrewsAreUnderWay'
    BY FlowsAssumption DEF CrewsAreUnderWay, OwnNodes, TypeOK, Flows,
           ProofNodes
  <2>8. QED
    BY <2>1, <2>2, <2>3, <2>4, <2>5, <2>6, <2>7
<1>6. ASSUME NEW w \in Flows, NEW ok \in BOOLEAN, VerifyProof(w, ok)
      PROVE  IInv'
  <2> USE <1>6 DEF VerifyProof, Goto, Status, GiveUp
  <2>1. TypeOK'
    BY FlowsAssumption DEF TypeOK, Nodes, Running, Ended, Statuses,
           Verdicts, Entry, OwnNodes
  <2>2. OwnNodes'
    BY FlowsAssumption DEF OwnNodes, TypeOK, ProofNodes, Nodes, Running,
           Ended, Flows
  <2>3. GraphState'
    BY FlowsAssumption DEF GraphState, Verifies, TypeOK, ProofNodes, Nodes,
           Running, Ended
  <2>4. PublishedLast'
    BY FlowsAssumption DEF PublishedLast, TypeOK, Ended, Running, Nodes
  <2>5. VerifiedMeansAllPassed'
    BY FlowsAssumption DEF VerifiedMeansAllPassed, PublishedLast,
           GraphState, Verifies, TypeOK, ProofNodes, Nodes, Running, Ended,
           Entry
  <2>6. ErrorIffFailed'
    BY FlowsAssumption DEF ErrorIffFailed, PublishedLast, GraphState,
           OwnNodes, Verifies, TypeOK, ProofNodes, Nodes, Running, Ended,
           Entry, Flows
  <2>7. CrewsAreUnderWay'
    BY FlowsAssumption DEF CrewsAreUnderWay, OwnNodes, TypeOK, Flows,
           ProofNodes
  <2>8. QED
    BY <2>1, <2>2, <2>3, <2>4, <2>5, <2>6, <2>7
<1>7. ASSUME NEW w \in Flows, StoreResult(w)
      PROVE  IInv'
  <2> USE <1>7 DEF StoreResult, Goto, Status, GiveUp
  <2>1. TypeOK'
    BY FlowsAssumption DEF TypeOK, Nodes, Running, Ended, Statuses,
           Verdicts, Entry, OwnNodes
  <2>2. OwnNodes'
    BY FlowsAssumption DEF OwnNodes, TypeOK, ProofNodes, Nodes, Running,
           Ended, Flows
  <2>3. GraphState'
    BY FlowsAssumption DEF GraphState, Verifies, TypeOK, ProofNodes, Nodes,
           Running, Ended
  <2>4. PublishedLast'
    BY FlowsAssumption DEF PublishedLast, TypeOK, Ended, Running, Nodes
  <2>5. VerifiedMeansAllPassed'
    BY FlowsAssumption DEF VerifiedMeansAllPassed, PublishedLast,
           GraphState, Verifies, TypeOK, ProofNodes, Nodes, Running, Ended,
           Entry
  <2>6. ErrorIffFailed'
    BY FlowsAssumption DEF ErrorIffFailed, PublishedLast, GraphState,
           OwnNodes, Verifies, TypeOK, ProofNodes, Nodes, Running, Ended,
           Entry, Flows
  <2>7. CrewsAreUnderWay'
    BY FlowsAssumption DEF CrewsAreUnderWay, OwnNodes, TypeOK, Flows,
           ProofNodes
  <2>8. QED
    BY <2>1, <2>2, <2>3, <2>4, <2>5, <2>6, <2>7
<1>8. ASSUME NEW w \in Flows, PublishResult(w)
      PROVE  IInv'
  <2> USE <1>8 DEF PublishResult, Goto, Status, Publish
  <2>1. TypeOK'
    <3>1. [status |-> status[w], error |-> error[w], result |-> "missing"] \in Entry
      BY EntryTyped DEF TypeOK
    <3>2. entry' \in [Flows -> Entry \cup {None}]
      BY <3>1 DEF TypeOK
    <3>3. QED
      BY <3>2 DEF TypeOK, Nodes, Running, Ended, Statuses
  <2>2. OwnNodes'
    BY NoneAssumption, FlowsAssumption DEF OwnNodes, TypeOK, ProofNodes,
           Nodes, Running, Ended, Flows
  <2>3. GraphState'
    BY NoneAssumption, FlowsAssumption DEF GraphState, Verifies, TypeOK,
           ProofNodes, Nodes, Running, Ended
  <2>4. PublishedLast'
    BY NoneAssumption, FlowsAssumption DEF PublishedLast, TypeOK, Ended,
           Running, Nodes
  <2>5. VerifiedMeansAllPassed'
    BY NoneAssumption, FlowsAssumption DEF VerifiedMeansAllPassed,
           PublishedLast, GraphState, Verifies, TypeOK, ProofNodes, Nodes,
           Running, Ended, Entry
  <2>6. ErrorIffFailed'
    BY NoneAssumption, FlowsAssumption DEF ErrorIffFailed, PublishedLast,
           GraphState, OwnNodes, Verifies, TypeOK, ProofNodes, Nodes,
           Running, Ended, Entry, Flows
  <2>7. CrewsAreUnderWay'
    BY NoneAssumption, FlowsAssumption DEF CrewsAreUnderWay, OwnNodes,
           TypeOK, Flows, ProofNodes
  <2>8. QED
    BY <2>1, <2>2, <2>3, <2>4, <2>5, <2>6, <2>7
<1>9. ASSUME NEW w \in Flows, HandleError(w)
      PROVE  IInv'
  <2> USE <1>9 DEF HandleError, Goto
  <2>1. TypeOK'
    BY FlowsAssumption DEF TypeOK, Nodes, Running, Ended, Statuses,
           Verdicts, Entry, OwnNodes
  <2>2. OwnNodes'
    BY FlowsAssumption DEF OwnNodes, TypeOK, ProofNodes, Nodes, Running,
           Ended, Flows
  <2>3. GraphState'
    BY FlowsAssumption DEF GraphState, Verifies, TypeOK, ProofNodes, Nodes,
           Running, Ended
  <2>4. PublishedLast'
    BY FlowsAssumption DEF PublishedLast, TypeOK, Ended, Running, Nodes
  <2>5. CrewsAreUnderWay'
    BY FlowsAssumption DEF CrewsAreUnderWay, OwnNodes, TypeOK, Flows,
           ProofNodes
  <2>6. VerifiedMeansAllPassed' /\ ErrorIffFailed'
    BY DEF VerifiedMeansAllPassed, ErrorIffFailed
  <2>7. QED
    BY <2>1, <2>2, <2>3, <2>4, <2>5, <2>6
<1>10. ASSUME NEW w \in Flows, RaiseOutOfGraph(w)
      PROVE  IInv'
  <2> USE <1>10 DEF RaiseOutOfGraph, Goto
  <2>1. TypeOK'
    BY FlowsAssumption DEF TypeOK, Nodes, Running, Ended, Statuses,
           Verdicts, Entry, OwnNodes
  <2>2. OwnNodes'
    BY FlowsAssumption DEF OwnNodes, TypeOK, ProofNodes, Nodes, Running,
           Ended, Flows
  <2>3. GraphState'
    BY FlowsAssumption DEF GraphState, Verifies, TypeOK, ProofNodes, Nodes,
           Running, Ended
  <2>4. PublishedLast'
    BY FlowsAssumption DEF PublishedLast, TypeOK, Ended, Running, Nodes
  <2>5. CrewsAreUnderWay'
    BY FlowsAssumption DEF CrewsAreUnderWay, OwnNodes, TypeOK, Flows,
           ProofNodes
  <2>6. VerifiedMeansAllPassed' /\ ErrorIffFailed'
    BY DEF VerifiedMeansAllPassed, ErrorIffFailed
  <2>7. QED
    BY <2>1, <2>2, <2>3, <2>4, <2>5, <2>6
<1>11. ASSUME NEW w \in Flows, Kickoff(w)
      PROVE  IInv'
  <2> USE <1>11 DEF Kickoff, Goto, EndCrew
  <2>1. TypeOK'
    BY FlowsAssumption DEF TypeOK, Nodes, Running, Ended, Statuses,
           Verdicts, Entry, OwnNodes
  <2>2. OwnNodes'
    BY FlowsAssumption DEF OwnNodes, TypeOK, ProofNodes, Nodes, Running,
           Ended, Flows
  <2>3. GraphState'
    BY FlowsAssumption DEF GraphState, Verifies, TypeOK, ProofNodes, Nodes,
           Running, Ended
  <2>4. PublishedLast'
    BY FlowsAssumption DEF PublishedLast, TypeOK, Ended, Running, Nodes
  <2>5. CrewsAreUnderWay'
    BY FlowsAssumption DEF CrewsAreUnderWay, OwnNodes, TypeOK, Flows,
           ProofNodes
  <2>6. VerifiedMeansAllPassed' /\ ErrorIffFailed'
    BY DEF VerifiedMeansAllPassed, ErrorIffFailed
  <2>7. QED
    BY <2>1, <2>2, <2>3, <2>4, <2>5, <2>6
<1>12. ASSUME NEW w \in Flows, Announce(w)
      PROVE  IInv'
  <2> USE <1>12 DEF Announce, Goto, Publish, EndCrew
  <2>1. TypeOK'
    <3>1. [status |-> "completed", error |-> FALSE, result |-> "string"] \in Entry
      BY EntryTyped DEF Statuses
    <3>2. entry' \in [Flows -> Entry \cup {None}]
      BY <3>1 DEF TypeOK
    <3>3. QED
      BY <3>2 DEF TypeOK, Nodes, Running, Ended
  <2>2. OwnNodes'
    BY NoneAssumption, FlowsAssumption DEF OwnNodes, TypeOK, ProofNodes,
           Nodes, Running, Ended, Flows
  <2>3. GraphState'
    BY NoneAssumption, FlowsAssumption DEF GraphState, Verifies, TypeOK,
           ProofNodes, Nodes, Running, Ended
  <2>4. PublishedLast'
    BY NoneAssumption, FlowsAssumption DEF PublishedLast, TypeOK, Ended,
           Running, Nodes
  <2>5. VerifiedMeansAllPassed'
    BY NoneAssumption, FlowsAssumption DEF VerifiedMeansAllPassed,
           PublishedLast, GraphState, Verifies, TypeOK, ProofNodes, Nodes,
           Running, Ended, Entry
  <2>6. ErrorIffFailed'
    BY NoneAssumption, FlowsAssumption DEF ErrorIffFailed, PublishedLast,
           GraphState, OwnNodes, Verifies, TypeOK, ProofNodes, Nodes,
           Running, Ended, Entry, Flows
  <2>7. CrewsAreUnderWay'
    BY NoneAssumption, FlowsAssumption DEF CrewsAreUnderWay, OwnNodes,
           TypeOK, Flows, ProofNodes
  <2>8. QED
    BY <2>1, <2>2, <2>3, <2>4, <2>5, <2>6, <2>7
<1>13. ASSUME NEW w \in Flows, Expire(w)
      PROVE  IInv'
  <2> USE <1>13 DEF Expire
  <2>1. TypeOK'
    BY DEF TypeOK, Nodes, Running, Ended, Statuses, Verdicts, Entry
  <2>2. PublishedLast'
    BY DEF PublishedLast, TypeOK, Ended, Running, Nodes
  <2>3. VerifiedMeansAllPassed'
    BY DEF VerifiedMeansAllPassed, TypeOK
  <2>4. ErrorIffFailed'
    BY DEF ErrorIffFailed, TypeOK, Flows
  <2>5. OwnNodes' /\ GraphState' /\ CrewsAreUnderWay'
    BY DEF OwnNodes, GraphState, CrewsAreUnderWay, Verifies
  <2>6. QED
    BY <2>1, <2>2, <2>3, <2>4, <2>5
<1>14. ASSUME Restart
      PROVE  IInv'
  <2> USE <1>14 DEF Restart
  <2>1. TypeOK'
    BY FlowsAssumption DEF TypeOK, Nodes, Running, Ended, Statuses,
           Verdicts, Entry, OwnNodes
  <2>2. OwnNodes'
    BY FlowsAssumption DEF OwnNodes, TypeOK, ProofNodes, Nodes, Running,
           Ended, Flows
  <2>3. GraphState'
    BY FlowsAssumption DEF GraphState, Verifies, TypeOK, ProofNodes, Nodes,
           Running, Ended
  <2>4. PublishedLast'
    BY FlowsAssumption DEF PublishedLast, TypeOK, Ended, Running, Nodes
  <2>5. CrewsAreUnderWay'
    BY FlowsAssumption DEF CrewsAreUnderWay, OwnNodes, TypeOK, Flows,
           ProofNodes, Running, Ended, Nodes
  <2>6. VerifiedMeansAllPassed' /\ ErrorIffFailed'
    BY DEF VerifiedMeansAllPassed, ErrorIffFailed
  <2>7. QED
    BY <2>1, <2>2, <2>3, <2>4, <2>5, <2>6
<1>15. CASE UNCHANGED vars
  BY <1>15 DEF vars, TypeOK, OwnNodes, GraphState, PublishedLast,
     VerifiedMeansAllPassed, ErrorIffFailed, CrewsAreUnderWay, Verifies
<1>16. QED
  BY <1>1, <1>2, <1>3, <1>4, <1>5, <1>6, <1>7, <1>8, <1>9, <1>10, <1>11, <1>12,
     <1>13, <1>14, <1>15 DEF Next, Step

\* The invariant holds in every reachable state.
THEOREM Invariance == Spec => []IInv
<1>1. QED
  BY InitIInv, NextIInv, PTL DEF Spec

\* Type correctness of AgentWorkflows.
THEOREM TypeCorrect == Spec => []TypeOK
<1>1. IInv => TypeOK
  BY DEF IInv
<1>2. QED
  BY <1>1, Invariance, PTL

\* A poll that answers "proof_verified" is about a run without a failed node, whose
\* verdict the backend holds.
THEOREM VerifiedSound == Spec => []VerifiedMeansAllPassed
<1>1. IInv => VerifiedMeansAllPassed
  BY DEF IInv
<1>2. QED
  BY <1>1, Invariance, PTL

\* A poll of a proof workflow finds a final status, with an error exactly when a node
\* failed.
THEOREM ErrorsSurface == Spec => []ErrorIffFailed
<1>1. IInv => ErrorIffFailed
  BY DEF IInv
<1>2. QED
  BY <1>1, Invariance, PTL

\* No crew leaks and none is lost: crew_store holds the onboardings under way.
THEOREM CrewsAccounted == Spec => []CrewsAreUnderWay
<1>1. IInv => CrewsAreUnderWay
  BY DEF IInv
<1>2. QED
  BY <1>1, Invariance, PTL

\* A published outcome is never replaced: when it is there, its workflow has ended.
THEOREM OutcomesKept == Spec => PublishedOnce
<1>1. ASSUME IInv, [Next]_vars
      PROVE  [\A w \in Flows : entry[w] # None => entry'[w] \in {entry[w], None}]_vars
  <2> SUFFICES ASSUME Next, NEW w \in Flows, entry[w] # None
               PROVE  entry'[w] \in {entry[w], None}
    BY <1>1
  <2>1. node[w] \in Ended
    BY <1>1 DEF IInv, PublishedLast
  <2>2. entry \in [Flows -> Entry \cup {None}]
    BY <1>1 DEF IInv, TypeOK
  <2>3. CASE \E v \in Flows : Step(v)
    <3> USE DEF Goto, Status, GiveUp, Publish, EndCrew, Ended
    <3>1. PICK v \in Flows : Step(v)
      BY <2>3
    <3>2. CASE v = w
      BY <2>1, <3>1, <3>2 DEF Step, Dispatch, Validate, GenerateWitness, GenerateProof,
         VerifyProof, StoreResult, PublishResult, HandleError,
         RaiseOutOfGraph, Kickoff, Announce
    <3>3. CASE v # w
      BY <2>2, <3>1, <3>3 DEF Step, Dispatch, Validate, GenerateWitness, GenerateProof,
         VerifyProof, StoreResult, PublishResult, HandleError,
         RaiseOutOfGraph, Kickoff, Announce
    <3>4. QED
      BY <3>2, <3>3
  <2>4. CASE \E v \in Flows : Start(v) \/ Expire(v)
    BY <2>2, <2>4 DEF Start, Expire
  <2>5. CASE Restart
    BY <2>5 DEF Restart
  <2>6. QED
    BY <2>3, <2>4, <2>5 DEF Next
<1>2. QED
  BY <1>1, Invariance, PTL DEF Spec, PublishedOnce

=============================================================================
