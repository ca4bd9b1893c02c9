------------------------- MODULE ProofServiceProofs -------------------------
(***************************************************************************)
(* TLAPS proofs about ProofService, for any number of calls, records and   *)
(* requests of others.                                                     *)
(***************************************************************************)
EXTENDS ProofService, TLAPS

\* Nothing is asked, stored or held when the services start.
LEMMA InitIInv == Init => IInv
BY NoneAssumption
   DEF Init, IInv, TypeOK, JobsUnderWay, RequestsUnderWay, VerdictsAccounted, Told,
       NothingFromNoir, BackendsReleased, Statuses, Steps, Verdicts, Codes

\* What the listener answers at once is one of the status codes it knows.
LEMMA RouteAnswers ==
    ASSUME NEW path \in Paths, NEW body \in Bodies
    PROVE  Route(path, body) \in Codes
<1>1. CASE path \in {"/prove", "/verify"}
  <2>1. Route(path, body) = CASE body = "malformed" -> 500
                              [] body \in {"no circuit", "no payload"} -> 400
                              [] OTHER -> 0
    BY <1>1 DEF Route
  <2>2. CASE body = "malformed"
    BY <2>1, <2>2 DEF Codes
  <2>3. CASE body \in {"no circuit", "no payload"}
    BY <2>1, <2>3 DEF Codes
  <2>4. CASE body = "good"
    BY <2>1, <2>4 DEF Codes
  <2>5. QED
    BY <2>2, <2>3, <2>4 DEF Bodies
<1>2. CASE path \notin {"/prove", "/verify"}
  BY <1>2 DEF Route, Codes, Paths
<1>3. QED
  BY <1>1, <1>2

\* The paths the service uses are none the Noir server serves.
LEMMA NoirNeverAnswers ==
    ASSUME NEW o \in Ops, prover = "noir"
    PROVE  Answers(o) = {"failed"}
BY DEF Answers, Route

\* A call that goes on from its request goes to the write its job asks for.
LEMMA AnswersFit ==
    ASSUME NEW o \in Ops, NEW s \in Answers(o)
    PROVE  /\ s \in {"store", "update", "failed"}
           /\ s = "store" => job[o].kind = "generate"
           /\ s = "update" => job[o].kind # "generate"
BY DEF Answers

\* The Noir server's steps leave the service alone, and the service's the Noir server: what
\* is said of the one survives the steps of the other.
LEMMA ServiceUntouched ==
    ASSUME JobsUnderWay, VerdictsAccounted, NothingFromNoir, UNCHANGED <<prover, service>>
    PROVE  JobsUnderWay' /\ VerdictsAccounted' /\ NothingFromNoir'
BY DEF JobsUnderWay, VerdictsAccounted, NothingFromNoir, Told, service

LEMMA NoirUntouched ==
    ASSUME RequestsUnderWay, BackendsReleased, UNCHANGED noir
    PROVE  RequestsUnderWay' /\ BackendsReleased'
BY DEF RequestsUnderWay, BackendsReleased, noir

-----------------------------------------------------------------------------

\* Every step of the Noir server preserves the invariant.
LEMMA NoirKeepsIInv ==
    ASSUME IInv, NEW d \in Direct,
           \/ \E path \in Paths, body \in Bodies : Receive(d, path, body)
           \/ LoadCircuit(d)
           \/ Finish(d)
    PROVE  IInv'
<1> USE DEF IInv
<1>0. UNCHANGED <<prover, service>>
  BY DEF Receive, LoadCircuit, Finish
<1>1. JobsUnderWay' /\ VerdictsAccounted' /\ NothingFromNoir'
  BY <1>0, ServiceUntouched
<1>2. CASE \E path \in Paths, body \in Bodies : Receive(d, path, body)
  <2>0. PICK path \in Paths, body \in Bodies : Receive(d, path, body)
    BY <1>2
  <2>1. TypeOK'
    BY <2>0, RouteAnswers DEF TypeOK, Receive, service
  <2>2. RequestsUnderWay'
    BY <2>0, NoneAssumption DEF RequestsUnderWay, Receive, TypeOK
  <2>3. BackendsReleased'
    BY <2>0 DEF BackendsReleased, RequestsUnderWay, Receive, TypeOK
  <2>4. QED
    BY <1>1, <2>1, <2>2, <2>3
<1>3. CASE LoadCircuit(d)
  <2>1. TypeOK'
    BY <1>3 DEF TypeOK, LoadCircuit, service, Codes
  <2>2. RequestsUnderWay'
    BY <1>3 DEF RequestsUnderWay, LoadCircuit, TypeOK
  <2>3. BackendsReleased'
    BY <1>3 DEF BackendsReleased, LoadCircuit, TypeOK
  <2>4. QED
    BY <1>1, <2>1, <2>2, <2>3
<1>4. CASE Finish(d)
  <2>1. TypeOK'
    BY <1>4 DEF TypeOK, Finish, service, Codes
  <2>2. RequestsUnderWay'
    BY <1>4 DEF RequestsUnderWay, Finish, TypeOK
  <2>3. BackendsReleased'
    BY <1>4 DEF BackendsReleased, Finish, TypeOK
  <2>4. QED
    BY <1>1, <2>1, <2>2, <2>3
<1>5. QED
  BY <1>2, <1>3, <1>4

\* Every step of the service preserves the invariant.
LEMMA ServiceKeepsIInv ==
    ASSUME IInv, NEW o \in Ops, NEW p \in Proofs,
           InsertStub(p) \/ Generate(o, p) \/ Verify(o, p) \/ Ask(o) \/ Store(o) \/ Update(o)
    PROVE  IInv'
<1> USE NoneAssumption DEF IInv
<1>0. RequestsUnderWay' /\ BackendsReleased'
  BY NoirUntouched DEF InsertStub, Insert, Generate, Verify, Ask, Store, Update
<1>1. CASE InsertStub(p)
  <2> USE <1>1 DEF InsertStub, Insert
  <2>1. TypeOK'
    BY DEF TypeOK, Statuses, noir
  <2>2. JobsUnderWay'
    BY DEF TypeOK, JobsUnderWay, Statuses
  <2>3. VerdictsAccounted'
    BY DEF TypeOK, VerdictsAccounted, JobsUnderWay, Told, Statuses
  <2>4. NothingFromNoir'
    BY DEF TypeOK, NothingFromNoir
  <2>5. QED
    BY <1>0, <2>1, <2>2, <2>3, <2>4
<1>2. CASE Generate(o, p) \/ Verify(o, p)
  <2> USE <1>2 DEF Generate, Verify, Goto
  <2>1. TypeOK'
    BY DEF TypeOK, Steps, noir
  <2>2. JobsUnderWay'
    BY DEF TypeOK, JobsUnderWay
  <2>3. \A w \in Ops, q \in Proofs : \A v : Told(w, q, v)' <=> Told(w, q, v)
    BY DEF TypeOK, Told
  <2>4. \A w \in Ops : step'[w] = "done" <=> step[w] = "done"
    BY DEF TypeOK
  <2>5. VerdictsAccounted'
    BY <2>3, <2>4 DEF VerdictsAccounted
  <2>6. NothingFromNoir'
    BY DEF TypeOK, NothingFromNoir
  <2>7. QED
    BY <1>0, <2>1, <2>2, <2>5, <2>6
<1>3. CASE Ask(o)
  <2>0. PICK s \in Answers(o) :
            /\ Goto(o, s)
            /\ IF s = "update"
               THEN \E v \in {"verified", "invalid"} : verdict' = [verdict EXCEPT ![o] = v]
               ELSE UNCHANGED verdict
    BY <1>3 DEF Ask
  <2>1. /\ step[o] = "ask"
        /\ s \in {"store", "update", "failed"}
        /\ s = "store" => job[o].kind = "generate"
        /\ s = "update" => job[o].kind # "generate"
        /\ UNCHANGED <<prover, records, inserted, job, faulted, noir>>
    BY <1>3, AnswersFit DEF Ask
  <2>2. TypeOK'
    BY <2>0, <2>1 DEF TypeOK, Goto, Steps, Verdicts, noir
  <2>3. JobsUnderWay'
    BY <2>0, <2>1 DEF TypeOK, JobsUnderWay, Goto
  <2>4. \A w \in Ops, q \in Proofs : \A v : Told(w, q, v) => Told(w, q, v)'
    BY <2>0, <2>1 DEF TypeOK, Told, Goto
  <2>5. \A w \in Ops : step'[w] = "done" <=> step[w] = "done"
    BY <2>0, <2>1 DEF TypeOK, Goto
  <2>6. \A w \in Ops, q \in Proofs : \A v : Told(w, q, v)' /\ step'[w] = "done" => Told(w, q, v)
    BY <2>0, <2>1 DEF TypeOK, Told, Goto
  <2>7. VerdictsAccounted'
    BY <2>1, <2>4, <2>5, <2>6 DEF VerdictsAccounted
  <2>8. NothingFromNoir'
    BY <2>0, <2>1, NoirNeverAnswers DEF TypeOK, NothingFromNoir, Goto
  <2>9. QED
    BY <1>0, <2>2, <2>3, <2>7, <2>8
<1>4. CASE Store(o)
  <2> USE <1>4 DEF Store, Goto, Insert
  <2>1. TypeOK'
    BY DEF TypeOK, JobsUnderWay, Steps, Statuses, noir
  <2>2. JobsUnderWay'
    BY DEF TypeOK, JobsUnderWay, Statuses
  <2>3. \A w \in Ops, q \in Proofs : \A v : Told(w, q, v)' <=> Told(w, q, v)
    BY DEF TypeOK, Told, JobsUnderWay
  <2>4. \A q \in Proofs : \A v : ~Told(o, q, v)
    BY DEF TypeOK, Told, JobsUnderWay
  <2>5. \A w \in Ops \ {o} : step'[w] = "done" <=> step[w] = "done"
    BY DEF TypeOK
  <2>6. faulted \subseteq faulted'
    OBVIOUS
  <2>7. ASSUME NEW q \in Proofs
        PROVE  \/ records'[q] = records[q] /\ inserted'[q] = inserted[q]
               \/ inserted'[q] = records'[q] /\ \A w \in Ops : \A v : ~Told(w, q, v)
    BY DEF TypeOK, JobsUnderWay, Told
  <2>8. VerdictsAccounted'
    BY <2>3, <2>4, <2>5, <2>6, <2>7 DEF VerdictsAccounted
  <2>9. NothingFromNoir'
    BY DEF TypeOK, NothingFromNoir
  <2>10. QED
    BY <1>0, <2>1, <2>2, <2>8, <2>9
<1>5. CASE Update(o)
  <2> USE <1>5 DEF Update, Goto
  <2>0. /\ job[o] = [kind |-> "verify", proof |-> job[o].proof]
        /\ job[o].proof \in Proofs
        /\ verdict[o] \in {"verified", "invalid"}
    BY DEF TypeOK, JobsUnderWay, Verdicts
  <2>1. TypeOK'
    BY <2>0 DEF TypeOK, Steps, Statuses, noir
  <2>2. JobsUnderWay'
    BY <2>0 DEF TypeOK, JobsUnderWay, Statuses
  <2>3. \A w \in Ops, q \in Proofs : \A v : Told(w, q, v)' <=> Told(w, q, v)
    BY DEF TypeOK, Told
  <2>4. \A w \in Ops : step[w] = "done" \/ w = o => step'[w] = "done"
    BY DEF TypeOK
  <2>5. \A w \in Ops \ {o} : step'[w] = "done" => step[w] = "done"
    BY DEF TypeOK
  <2>6. VerdictsAccounted'
    <3>0. UNCHANGED inserted /\ faulted \subseteq faulted'
      OBVIOUS
    <3>1. CASE records' = [records EXCEPT ![job[o].proof] = verdict[o]]
      <4>1. Told(o, job[o].proof, verdict[o])
        BY <2>0 DEF Told
      <4>2. ASSUME NEW q \in Proofs, q # job[o].proof
            PROVE  /\ records'[q] = records[q]
                   /\ \A v : ~Told(o, q, v)
        BY <2>0, <3>1, <4>2 DEF TypeOK, Told
      <4>3. records'[job[o].proof] = verdict[o]
        BY <2>0, <3>1 DEF TypeOK
      <4>4. \A w \in Ops : \A v : Told(w, job[o].proof, v) /\ w = o => v = verdict[o]
        BY DEF Told
      <4>5. QED
        BY <2>0, <2>3, <2>4, <2>5, <3>0, <4>1, <4>2, <4>3, <4>4 DEF VerdictsAccounted
    <3>2. CASE faulted' = faulted \cup {o} /\ UNCHANGED records
      BY <2>0, <2>3, <2>4, <2>5, <3>0, <3>2 DEF VerdictsAccounted
    <3>3. QED
      BY <3>1, <3>2
  <2>7. NothingFromNoir'
    BY DEF TypeOK, NothingFromNoir
  <2>8. QED
    BY <1>0, <2>1, <2>2, <2>6, <2>7
<1>6. QED
  BY <1>1, <1>2, <1>3, <1>4, <1>5

\* Every step preserves the invariant.
LEMMA NextIInv == IInv /\ [Next]_vars => IInv'
<1> SUFFICES ASSUME IInv, [Next]_vars PROVE IInv'
  OBVIOUS
<1>1. ASSUME NEW p \in Proofs, InsertStub(p) PROVE IInv'
  <2>1. CASE Ops # {}
    BY <1>1, <2>1, ServiceKeepsIInv
  <2>2. CASE Ops = {}
    BY <1>1, <2>2, NoneAssumption
       DEF IInv, InsertStub, Insert, noir, TypeOK, JobsUnderWay, RequestsUnderWay,
           VerdictsAccounted, NothingFromNoir, BackendsReleased, Statuses
  <2>3. QED
    BY <2>1, <2>2
<1>2. ASSUME NEW o \in Ops, NEW p \in Proofs, Generate(o, p) \/ Verify(o, p) PROVE IInv'
  BY <1>2, ServiceKeepsIInv
<1>3. ASSUME NEW o \in Ops, Ask(o) \/ Store(o) \/ Update(o) PROVE IInv'
  <2>1. job[o].proof \in Proofs
    BY <1>3 DEF IInv, JobsUnderWay, Ask, Store, Update
  <2>2. QED
    BY <1>3, <2>1, ServiceKeepsIInv
<1>4. ASSUME NEW d \in Direct,
             \/ \E path \in Paths, body \in Bodies : Receive(d, path, body)
             \/ LoadCircuit(d) \/ Finish(d)
      PROVE  IInv'
  BY <1>4, NoirKeepsIInv
<1>5. CASE UNCHANGED vars
  <2>1. UNCHANGED <<prover, service>> /\ UNCHANGED noir
    BY <1>5 DEF vars
  <2>2. TypeOK'
    BY <2>1 DEF IInv, TypeOK, service, noir
  <2>3. QED
    BY <2>1, <2>2, ServiceUntouched, NoirUntouched DEF IInv
<1>6. QED
  BY <1>1, <1>2, <1>3, <1>4, <1>5 DEF Next

-----------------------------------------------------------------------------

\* The inductive invariant holds in every reachable state.
THEOREM Invariance == Spec => []IInv
<1>1. Init => IInv
  BY InitIInv
<1>2. IInv /\ [Next]_vars => IInv'
  BY NextIInv
<1>3. QED
  BY <1>1, <1>2, PTL DEF Spec

\* Every variable keeps its type: whatever the provers answer, the table holds known
\* statuses and a request gets one of the listener's status codes.
THEOREM TypeCorrect == Spec => []TypeOK
<1>1. IInv => TypeOK
  BY DEF IInv
<1>2. QED
  BY Invariance, <1>1, PTL

\* A record says "verified" or "invalid" because a verification came to that or because the
\* prover sent the word along with the proof, and a verdict is missing only for a failed
\* UPDATE or another verification of VerifyProof.
THEOREM VerdictsTraceable == Spec => []VerdictsAccounted
<1>1. IInv => VerdictsAccounted
  BY DEF IInv
<1>2. QED
  BY Invariance, <1>1, PTL

\* Deployed with the repository's own prover, ZKService writes no row: all it ever does is
\* to fail.
THEOREM NoirServesNothing == Spec => []NothingFromNoir
<1>1. IInv => NothingFromNoir
  BY DEF IInv
<1>2. QED
  BY Invariance, <1>1, PTL

\* The Noir server keeps a backend only for requests under way and failed ones.
THEOREM BackendsAccounted == Spec => []BackendsReleased
<1>1. IInv => BackendsReleased
  BY DEF IInv
<1>2. QED
  BY Invariance, <1>1, PTL

=============================================================================
