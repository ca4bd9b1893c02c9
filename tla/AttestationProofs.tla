-------------------------- MODULE AttestationProofs --------------------------
(***************************************************************************)
(* TLAPS proofs about Attestation, for any number of devices, submissions  *)
(* and certificates, and any bounds.                                       *)
(***************************************************************************)
EXTENDS Attestation, WellFoundedInduction, TLAPS

-----------------------------------------------------------------------------
(* Rows and requests stay. *)

\* A non-empty set of naturals has a least element.
LEMMA Least ==
    ASSUME NEW S \in SUBSET Nat, S # {}
    PROVE  \E i \in S : \A j \in S : i <= j
<1> DEFINE R == {p \in Nat \X Nat : p[1] < p[2]}
<1>1. IsWellFoundedOn(R, Nat)
  BY NatLessThanWellFounded DEF OpToRel
<1>2. PICK i \in S : \A j \in S : <<j, i>> \notin R
  <2> HIDE DEF R
  <2>1. QED
    BY <1>1, WFMin
<1>3. ASSUME NEW j \in S
      PROVE  i <= j
  <2>1. <<j, i>> \in Nat \X Nat
    OBVIOUS
  <2>2. ~(j < i)
    BY <1>2, <2>1
  <2>3. QED
    BY <2>1, <2>2
<1>4. QED
  BY <1>3

\* A row stays, with its date; a request that has arrived stays; time goes on.
Kept ==
    /\ \A r \in Submissions, slot \in Slots :
          certs[r][slot] # None =>
              /\ certs'[r][slot] # None
              /\ certs'[r][slot].created = certs[r][slot].created
    /\ \A r \in Submissions : step[r] # "new" => step'[r] # "new" /\ req'[r] = req[r]
    /\ now <= now'

\* No action takes a row, a date or a request back.
LEMMA StepKeeps == TypeOK /\ RowsInOrder /\ [Next]_vars => Kept
<1> SUFFICES ASSUME TypeOK, RowsInOrder, [Next]_vars PROVE Kept
  OBVIOUS
<1>1. now \in Nat /\ step \in [Submissions -> Steps]
  BY BoundsAssumption DEF TypeOK
<1>2. \A r \in Submissions, slot \in Slots : certs[r][slot] \in CertRow \cup {None}
  BY DEF TypeOK
<1>3. certs \in [Submissions -> [Slots -> CertRow \cup {None}]]
  BY DEF TypeOK
<1>4. ASSUME NEW r \in Submissions, NEW q \in Requests, Submit(r, q)
      PROVE  Kept
  BY <1>1, <1>4 DEF Kept, Submit, Goto
<1>5. ASSUME NEW r \in Submissions, StoreCert(r)
      PROVE  Kept
  <2>1. certs[r][step[r]] = None /\ step[r] \in Slots
    BY <1>5 DEF StoreCert, RowsInOrder, StoredBefore, Slots
  <2>2. \/ certs' = certs
        \/ \E row \in CertRow : certs' = [certs EXCEPT ![r][step[r]] = row]
    <3>1. CASE certs' = certs
      BY <3>1
    <3>2. CASE Insert(r, step[r])
      <4>1. PICK t \in since[r]..now :
               certs' = [certs EXCEPT ![r][step[r]] = [created |-> t, status |-> "active"]]
        BY <3>2 DEF Insert
      <4>2. t \in 0..MaxTime
        BY <4>1, BoundsAssumption DEF TypeOK
      <4>3. [created |-> t, status |-> "active"] \in CertRow
        BY <4>2 DEF CertRow
      <4>4. QED
        BY <4>1, <4>3
    <3>3. QED
      BY <1>5, <3>1, <3>2 DEF StoreCert
  <2>3. \A s \in Submissions, slot \in Slots :
            certs[s][slot] # None => certs'[s][slot] = certs[s][slot]
    BY <1>3, <2>1, <2>2
  <2>4. \A s \in Submissions : step[s] # "new" => step'[s] # "new"
    BY <1>1, <1>5, <2>1 DEF StoreCert, Goto, AfterSlot, Slots
  <2>5. QED
    BY <1>1, <1>5, <2>3, <2>4 DEF Kept, StoreCert
<1>6. ASSUME NEW r \in Submissions, NEW slot \in Slots, RevokeCertificate(r, slot)
      PROVE  Kept
  <2>1. certs[r][slot] \in CertRow
    BY <1>2, <1>6 DEF RevokeCertificate
  <2>2. certs' = [certs EXCEPT ![r][slot].status = "revoked"]
    BY <1>6 DEF RevokeCertificate
  <2>3. /\ certs'[r][slot].created = certs[r][slot].created
        /\ certs'[r][slot] \in CertRow
    BY <1>3, <2>1, <2>2 DEF CertRow
  <2>4. \A s \in Submissions, t \in Slots :
            s # r \/ t # slot => certs'[s][t] = certs[s][t]
    BY <1>3, <2>2
  <2>5. \A s \in Submissions, t \in Slots :
            certs[s][t] # None =>
                certs'[s][t] # None /\ certs'[s][t].created = certs[s][t].created
    BY <2>3, <2>4, NoRowAssumption
  <2>6. QED
    BY <1>1, <1>6, <2>5 DEF Kept, RevokeCertificate
<1>7. ASSUME NEW r \in Submissions,
             InsertRecord(r) \/ ReadChain(r) \/ JudgeChain(r) \/ GenerateProof(r)
             \/ RecordVerdict(r)
      PROVE  Kept
  BY <1>1, <1>7
     DEF Kept, InsertRecord, ReadChain, JudgeChain, GenerateProof, RecordVerdict, Goto
<1>8. CASE Tick
  BY <1>1, <1>8 DEF Kept, Tick
<1>9. CASE Crash
  BY <1>1, <1>9 DEF Kept, Crash
<1>10. CASE (\E d \in Devices : DeleteDevice(d)) \/ UNCHANGED vars
  BY <1>1, <1>10 DEF Kept, DeleteDevice, vars
<1>11. QED
  BY <1>4, <1>5, <1>6, <1>7, <1>8, <1>9, <1>10 DEF Next

\* The rows of a device on file stay on file.
LEMMA OnFileGrows ==
    ASSUME RowsInOrder, Kept, NEW d, NEW slot \in Slots
    PROVE  OnFile(d, slot) \subseteq OnFile(d, slot)'
BY DEF RowsInOrder, Kept, OnFile

\* What once backed a verdict keeps backing it: its rows stay and time goes on.
LEMMA BackedKept ==
    ASSUME TypeOK, RowsInOrder, Kept, NEW r \in Submissions,
           step[r] # "new", since'[r] = since[r], now' \in Nat, Backed(r)
    PROVE  Backed(r)'
<1>1. PICK choice \in [Slots -> Submissions] :
         /\ \A slot \in Slots : choice[slot] \in OnFile(req[r].device, slot)
         /\ \E t \in since[r]..now : Acceptable(Pem(choice), t)
  BY DEF Backed
<1>2. req'[r] = req[r]
  BY DEF Kept
<1>3. \A slot \in Slots : choice[slot] \in OnFile(req[r].device, slot)'
  BY <1>1, <1>2, OnFileGrows
<1>4. ASSUME NEW slot \in Slots
      PROVE  req'[choice[slot]].certs[slot] = req[choice[slot]].certs[slot]
  BY <1>1 DEF OnFile, RowsInOrder, Kept
<1>5. Pem(choice)' = Pem(choice)
  BY <1>4 DEF Pem
<1>6. since[r]..now \subseteq since'[r]..now'
  BY BoundsAssumption DEF TypeOK, Kept
<1>7. \E t \in since'[r]..now' : Acceptable(Pem(choice), t)
  BY <1>1, <1>6
<1>8. \E t \in since'[r]..now' : Acceptable(Pem(choice)', t)
  BY <1>5, <1>7
<1>9. \A slot \in Slots : choice[slot] \in OnFile(req[r].device, slot)'
  BY <1>3
<1>10. QED
  BY <1>1, <1>2, <1>8, <1>9 DEF Backed, Acceptable, InForce, Linked

\* A chain that passes backs a verdict, with the present as the moment of force.
LEMMA PassesBacked ==
    ASSUME TypeOK, JudgedOnFile, SinceBehind, NEW r \in Submissions, ChainPasses(r)
    PROVE  Backed(r)
<1>1. now \in since[r]..now
  BY BoundsAssumption DEF TypeOK, SinceBehind
<1>2. judged[r] \in [Slots -> Submissions]
  BY DEF TypeOK, ChainPasses
<1>3. \A slot \in Slots : judged[r][slot] \in OnFile(req[r].device, slot)
  BY <1>2, BoundsAssumption DEF JudgedOnFile
<1>4. QED
  BY <1>1, <1>2, <1>3 DEF ChainPasses, Backed

\* What the query leaves in a slot is no row, or one of the device's with the least date.
LEMMA FoundIsOldest ==
    ASSUME TypeOK, NEW d, NEW slot \in Slots, NEW found \in Found(d, slot)
    PROVE  /\ found \in Submissions \cup {None}
           /\ found # None => found \in OnFile(d, slot)
           /\ \A r \in OnFile(d, slot) :
                found # None /\ Created(found, slot) <= Created(r, slot)
<1> DEFINE dates == {Created(r, slot) : r \in OnFile(d, slot)}
<1>1. \A r \in OnFile(d, slot) : r \in Submissions /\ Created(r, slot) \in Nat
  BY BoundsAssumption DEF TypeOK, OnFile, Created, CertRow
<1>2. CASE OnFile(d, slot) = {}
  BY <1>2 DEF Found, Chosen
<1>3. CASE OnFile(d, slot) # {}
  <2>1. dates \in SUBSET Nat /\ dates # {}
    BY <1>1, <1>3
  <2>2. \E i \in dates : \A j \in dates : i <= j
    <3> HIDE DEF dates
    <3>1. QED
      BY <2>1, Least
  <2>3. Chosen(d, slot) # {}
    BY <2>2 DEF Chosen
  <2>4. found \in Chosen(d, slot)
    BY <2>3 DEF Found
  <2>5. QED
    BY <1>1, <2>4, BoundsAssumption DEF Chosen
<1>4. QED
  BY <1>2, <1>3

-----------------------------------------------------------------------------
(* The inductive invariant. *)

\* Nothing has been submitted when the server starts.
LEMMA InitIInv == Init => IInv
BY BoundsAssumption
   DEF Init, IInv, TypeOK, RecordTracksStep, RowsInOrder, JudgedOnFile, SinceBehind,
       PassEarned, ProofMissingExplained, VerifiedHasChain, Steps, Slots

\* Every step keeps the types.
LEMMA StepTyped == IInv /\ [Next]_vars => TypeOK'
<1> SUFFICES ASSUME TypeOK, RowsInOrder, [Next]_vars PROVE TypeOK'
  BY DEF IInv
<1>1. ASSUME NEW r \in Submissions, NEW q \in Requests, Submit(r, q)
      PROVE  TypeOK'
  BY <1>1, RequestsAssumption, BoundsAssumption DEF TypeOK, Steps, Submit, Goto
<1>2. ASSUME NEW r \in Submissions, StoreCert(r)
      PROVE  TypeOK'
  <2> USE <1>2 DEF StoreCert, Goto, Fault
  <2>1. certs' \in [Submissions -> [Slots -> CertRow \cup {None}]]
    <3>1. CASE certs' = certs
      BY <3>1 DEF TypeOK
    <3>2. CASE Insert(r, step[r])
      <4>1. PICK t \in since[r]..now :
               certs' = [certs EXCEPT ![r][step[r]] = [created |-> t, status |-> "active"]]
        BY <3>2 DEF Insert
      <4>2. t \in 0..MaxTime
        BY <4>1, BoundsAssumption DEF TypeOK
      <4>3. [created |-> t, status |-> "active"] \in CertRow
        BY <4>2 DEF CertRow
      <4>4. QED
        BY <4>1, <4>3 DEF TypeOK
    <3>3. QED
      BY <3>1, <3>2
  <2>2. step' \in [Submissions -> Steps]
    BY DEF TypeOK, Steps, Slots, AfterSlot
  <2>3. since' \in [Submissions -> 0..MaxTime] /\ faults' \in Nat
    BY BoundsAssumption DEF TypeOK
  <2>4. \A s \in Submissions : step'[s] # "new" => req'[s] # None
    BY DEF TypeOK, Slots
  <2>5. QED
    BY <2>1, <2>2, <2>3, <2>4 DEF TypeOK
<1>3. ASSUME NEW r \in Submissions, InsertRecord(r)
      PROVE  TypeOK'
  <2> USE <1>3 DEF InsertRecord, Goto, Fault
  <2>1. step' \in [Submissions -> Steps] /\ faults' \in Nat
    <3>1. step' \in [Submissions -> Steps]
      BY DEF TypeOK, Steps
    <3>2. faults' \in Nat
      BY DEF TypeOK
    <3>3. QED
      BY <3>1, <3>2
  <2>2. status' \in [Submissions -> {"none", "pending", "verified", "failed"}]
    BY DEF TypeOK
  <2>3. since' \in [Submissions -> 0..MaxTime]
    BY DEF TypeOK
  <2>4. \A s \in Submissions : step'[s] # "new" => req'[s] # None
    BY DEF TypeOK
  <2>5. QED
    BY <2>1, <2>2, <2>3, <2>4 DEF TypeOK
<1>4. ASSUME NEW r \in Submissions, ReadChain(r)
      PROVE  TypeOK'
  <2> USE <1>4 DEF ReadChain, Goto, Fault
  <2>1. judged' \in [Submissions -> [Slots -> Submissions \cup {None}]]
    <3>1. \A slot \in Slots : Found(req[r].device, slot) \subseteq Submissions \cup {None}
      BY FoundIsOldest
    <3>2. QED
      BY <3>1 DEF TypeOK, Slots
  <2>2. step' \in [Submissions -> Steps] /\ faults' \in Nat
    BY DEF TypeOK, Steps
  <2>3. QED
    BY <2>1, <2>2 DEF TypeOK
<1>5. ASSUME NEW r \in Submissions, JudgeChain(r)
      PROVE  TypeOK'
  BY <1>5, RequestsAssumption, BoundsAssumption DEF TypeOK, Steps, JudgeChain, Goto
<1>6. ASSUME NEW r \in Submissions, GenerateProof(r)
      PROVE  TypeOK'
  BY <1>6, RequestsAssumption, BoundsAssumption DEF TypeOK, Steps, GenerateProof, Goto, Fault
<1>7. ASSUME NEW r \in Submissions, RecordVerdict(r)
      PROVE  TypeOK'
  <2> USE <1>7 DEF RecordVerdict, Verdict, Goto, Fault
  <2>1. step' \in [Submissions -> Steps] /\ faults' \in Nat
    <3>1. step' \in [Submissions -> Steps]
      BY DEF TypeOK, Steps
    <3>2. faults' \in Nat
      BY DEF TypeOK
    <3>3. QED
      BY <3>1, <3>2
  <2>2. status' \in [Submissions -> {"none", "pending", "verified", "failed"}]
    BY DEF TypeOK
  <2>3. since' \in [Submissions -> 0..MaxTime]
    BY DEF TypeOK
  <2>4. \A s \in Submissions : step'[s] # "new" => req'[s] # None
    BY DEF TypeOK
  <2>5. QED
    BY <2>1, <2>2, <2>3, <2>4 DEF TypeOK
<1>8. ASSUME NEW r \in Submissions, NEW slot \in Slots, RevokeCertificate(r, slot)
      PROVE  TypeOK'
  <2>1. certs[r][slot] \in CertRow
    BY <1>8 DEF RevokeCertificate, TypeOK
  <2>2. [certs[r][slot] EXCEPT !.status = "revoked"] \in CertRow
    BY <2>1 DEF CertRow
  <2>3. certs' \in [Submissions -> [Slots -> CertRow \cup {None}]]
    BY <1>8, <2>2 DEF RevokeCertificate, TypeOK
  <2>4. QED
    BY <1>8, <2>3 DEF RevokeCertificate, TypeOK
<1>9. ASSUME NEW d \in Devices, DeleteDevice(d)
      PROVE  TypeOK'
  BY <1>9, RequestsAssumption, BoundsAssumption DEF TypeOK, Steps, DeleteDevice
<1>10. ASSUME Tick
      PROVE  TypeOK'
  BY <1>10, RequestsAssumption, BoundsAssumption DEF TypeOK, Steps, Tick
<1>11. ASSUME Crash
      PROVE  TypeOK'
  BY <1>11, RequestsAssumption, BoundsAssumption DEF TypeOK, Steps, Crash, Running, Fault
<1>12. ASSUME UNCHANGED vars
      PROVE  TypeOK'
  BY <1>12, RequestsAssumption, BoundsAssumption DEF TypeOK, Steps, vars
<1>13. QED
  BY <1>1, <1>2, <1>3, <1>4, <1>5, <1>6, <1>7, <1>8, <1>9, <1>10, <1>11, <1>12 DEF Next

\* Every call of a handler or its goroutine, a revocation, a delete, a tick and a
\* crash preserve the invariant.
LEMMA NextIInv == IInv /\ [Next]_vars => IInv'
<1> SUFFICES ASSUME IInv, [Next]_vars PROVE IInv'
  OBVIOUS
<1>1. TypeOK' /\ Kept
  BY StepTyped, StepKeeps DEF IInv
<1>2. \A s \in Submissions :
         step[s] # "new" /\ since'[s] = since[s] /\ Backed(s) => Backed(s)'
  BY <1>1, BackedKept, BoundsAssumption DEF IInv, TypeOK
<1>3. \A s \in Submissions, slot \in Slots :
         judged[s][slot] # None /\ judged'[s] = judged[s] =>
             step'[s] # "new" /\ judged'[s][slot] \in OnFile(req[s].device, slot)'
                              /\ req'[s] = req[s]
  <2>1. ASSUME NEW s \in Submissions, NEW slot \in Slots,
               judged[s][slot] # None, judged'[s] = judged[s]
        PROVE  step'[s] # "new" /\ judged'[s][slot] \in OnFile(req[s].device, slot)'
                                /\ req'[s] = req[s]
    <3>1. step[s] # "new" /\ judged[s][slot] \in OnFile(req[s].device, slot)
      BY <2>1 DEF IInv, JudgedOnFile
    <3>2. step'[s] # "new" /\ req'[s] = req[s]
      BY <1>1, <3>1 DEF Kept
    <3>3. judged[s][slot] \in OnFile(req[s].device, slot)'
      BY <1>1, <2>1, <3>1, <3>2, OnFileGrows DEF IInv
    <3>4. QED
      BY <2>1, <3>2, <3>3
  <2>2. QED
    BY <2>1
<1> USE DEF IInv
<1>4. ASSUME NEW r \in Submissions, NEW q \in Requests, Submit(r, q)
      PROVE  IInv'
  <2>1. RecordTracksStep'
    BY <1>4 DEF RecordTracksStep, TypeOK, Steps, Slots, Submit, Goto
  <2>2. RowsInOrder'
    BY <1>4 DEF RowsInOrder, TypeOK, Steps, Slots, StoredBefore, Submit, Goto
  <2>3. JudgedOnFile'
    BY <1>4, <1>3 DEF JudgedOnFile, Submit, Goto
  <2>4. SinceBehind'
    BY <1>4, BoundsAssumption DEF SinceBehind, TypeOK, Submit, Goto
  <2>5. PassEarned'
    BY <1>4, <1>2 DEF PassEarned, TypeOK, Steps, Slots, Submit, Goto
  <2>6. ProofMissingExplained'
    BY <1>4 DEF ProofMissingExplained, PassEarned, TypeOK, Submit, Goto
  <2>7. VerifiedHasChain'
    BY <1>4, <1>2 DEF VerifiedHasChain, PassEarned, RecordTracksStep, TypeOK, Steps, Slots, Submit, Goto
  <2>8. QED
    BY <1>1, <2>1, <2>2, <2>3, <2>4, <2>5, <2>6, <2>7
<1>5. ASSUME NEW r \in Submissions, StoreCert(r)
      PROVE  IInv'
  <2>1. RecordTracksStep'
    BY <1>5 DEF RecordTracksStep, TypeOK, Steps, Slots, StoreCert, Goto, Fault, AfterSlot
  <2>2. RowsInOrder'
    <3>1. certs \in [Submissions -> [Slots -> CertRow \cup {None}]]
      BY DEF TypeOK
    <3>2. certs' = certs \/ \E row : certs' = [certs EXCEPT ![r][step[r]] = row]
      BY <1>5 DEF StoreCert, Insert
    <3>3. \A s \in Submissions, slot \in Slots :
             certs'[s][slot] # None => certs[s][slot] # None \/ (s = r /\ slot = step[r])
      <4>1. CASE certs' = certs
        BY <4>1
      <4>2. CASE \E row : certs' = [certs EXCEPT ![r][step[r]] = row]
        BY <3>1, <4>2
      <4>3. QED
        BY <3>2, <4>1, <4>2
    <3>4. QED
      BY <1>5, <3>3 DEF RowsInOrder, TypeOK, StoreCert, Goto, AfterSlot, StoredBefore, Slots
  <2>3. JudgedOnFile'
    BY <1>5, <1>3 DEF JudgedOnFile, StoreCert, Goto, Fault
  <2>4. SinceBehind'
    BY <1>5, BoundsAssumption DEF SinceBehind, TypeOK, StoreCert, Goto, Fault
  <2>5. PassEarned'
    BY <1>5, <1>2 DEF PassEarned, TypeOK, Steps, Slots, StoreCert, Goto, Fault, AfterSlot
  <2>6. ProofMissingExplained'
    BY <1>5 DEF ProofMissingExplained, PassEarned, TypeOK, StoreCert, Goto, Fault
  <2>7. VerifiedHasChain'
    BY <1>5, <1>2 DEF VerifiedHasChain, PassEarned, RecordTracksStep, TypeOK, Steps, Slots, StoreCert, Goto, Fault
  <2>8. QED
    BY <1>1, <2>1, <2>2, <2>3, <2>4, <2>5, <2>6, <2>7
<1>6. ASSUME NEW r \in Submissions, InsertRecord(r)
      PROVE  IInv'
  <2>1. RecordTracksStep'
    BY <1>6 DEF RecordTracksStep, TypeOK, Steps, Slots, InsertRecord, Goto, Fault
  <2>2. RowsInOrder'
    BY <1>6 DEF RowsInOrder, TypeOK, Steps, Slots, StoredBefore, InsertRecord, Goto, Fault
  <2>3. JudgedOnFile'
    BY <1>6, <1>3 DEF JudgedOnFile, InsertRecord, Goto, Fault
  <2>4. SinceBehind'
    BY <1>6, BoundsAssumption DEF SinceBehind, TypeOK, InsertRecord, Goto, Fault
  <2>5. PassEarned'
    BY <1>6, <1>2 DEF PassEarned, TypeOK, Steps, Slots, InsertRecord, Goto, Fault
  <2>6. ProofMissingExplained'
    BY <1>6 DEF ProofMissingExplained, PassEarned, TypeOK, InsertRecord, Goto, Fault
  <2>7. VerifiedHasChain'
    BY <1>6, <1>2 DEF VerifiedHasChain, PassEarned, RecordTracksStep, TypeOK, Steps, Slots, InsertRecord, Goto, Fault
  <2>8. QED
    BY <1>1, <2>1, <2>2, <2>3, <2>4, <2>5, <2>6, <2>7
<1>7. ASSUME NEW r \in Submissions, ReadChain(r)
      PROVE  IInv'
  <2>1. RecordTracksStep'
    BY <1>7 DEF RecordTracksStep, TypeOK, Steps, Slots, ReadChain, Goto, Fault
  <2>2. RowsInOrder'
    BY <1>7 DEF RowsInOrder, TypeOK, Steps, Slots, StoredBefore, ReadChain, Goto, Fault
  <2>3. JudgedOnFile'
    <3>1. ASSUME NEW s \in Submissions, NEW slot \in Slots, judged'[s][slot] # None
          PROVE  step'[s] # "new" /\ judged'[s][slot] \in OnFile(req[s].device, slot)'
      <4>1. CASE judged'[s] = judged[s]
        BY <1>3, <3>1, <4>1
      <4>2. CASE judged'[s] # judged[s]
        <5>1. s = r /\ judged'[r][slot] \in Found(req[r].device, slot)
          BY <1>7, <4>2 DEF ReadChain, TypeOK, Slots
        <5>2. judged'[r][slot] \in OnFile(req[r].device, slot)
          BY <3>1, <5>1, FoundIsOldest
        <5>3. OnFile(req[r].device, slot) \subseteq OnFile(req[r].device, slot)'
          BY <1>7 DEF ReadChain, OnFile
        <5>4. step'[r] # "new"
          BY <1>7 DEF ReadChain, Goto, TypeOK
        <5>5. QED
          BY <5>1, <5>2, <5>3, <5>4
      <4>3. QED
        BY <4>1, <4>2
    <3>2. req' = req
      BY <1>7 DEF ReadChain
    <3>3. QED
      BY <3>1, <3>2 DEF JudgedOnFile
  <2>4. SinceBehind'
    BY <1>7, BoundsAssumption DEF SinceBehind, TypeOK, ReadChain, Goto, Fault
  <2>5. PassEarned'
    BY <1>7, <1>2 DEF PassEarned, TypeOK, Steps, Slots, ReadChain, Goto, Fault
  <2>6. ProofMissingExplained'
    BY <1>7 DEF ProofMissingExplained, PassEarned, TypeOK, ReadChain, Goto, Fault
  <2>7. VerifiedHasChain'
    BY <1>7, <1>2 DEF VerifiedHasChain, PassEarned, RecordTracksStep, TypeOK, Steps, Slots, ReadChain, Goto, Fault
  <2>8. QED
    BY <1>1, <2>1, <2>2, <2>3, <2>4, <2>5, <2>6, <2>7
<1>8. ASSUME NEW r \in Submissions, JudgeChain(r)
      PROVE  IInv'
  <2>1. RecordTracksStep'
    BY <1>8 DEF RecordTracksStep, TypeOK, Steps, Slots, JudgeChain, Goto
  <2>2. RowsInOrder'
    BY <1>8 DEF RowsInOrder, TypeOK, Steps, Slots, StoredBefore, JudgeChain, Goto
  <2>3. JudgedOnFile'
    BY <1>8, <1>3 DEF JudgedOnFile, JudgeChain, Goto
  <2>4. SinceBehind'
    BY <1>8, BoundsAssumption DEF SinceBehind, TypeOK, JudgeChain, Goto
  <2>5. ChainPasses(r) => Backed(r)'
    BY <1>8, <1>2, PassesBacked DEF JudgeChain
  <2>6. PassEarned'
    BY <1>8, <2>5, <1>2 DEF PassEarned, TypeOK, Steps, Slots, JudgeChain, Goto
  <2>7. ProofMissingExplained'
    BY <1>8 DEF ProofMissingExplained, PassEarned, TypeOK, JudgeChain, Goto
  <2>8. VerifiedHasChain'
    BY <1>8, <1>2 DEF VerifiedHasChain, PassEarned, RecordTracksStep, TypeOK, Steps, Slots, JudgeChain, Goto
  <2>9. QED
    BY <1>1, <2>1, <2>2, <2>3, <2>4, <2>6, <2>7, <2>8
<1>9. ASSUME NEW r \in Submissions, GenerateProof(r)
      PROVE  IInv'
  <2>1. RecordTracksStep'
    BY <1>9 DEF RecordTracksStep, TypeOK, Steps, Slots, GenerateProof, Goto, Fault
  <2>2. RowsInOrder'
    BY <1>9 DEF RowsInOrder, TypeOK, Steps, Slots, StoredBefore, GenerateProof, Goto, Fault
  <2>3. JudgedOnFile'
    BY <1>9, <1>3 DEF JudgedOnFile, GenerateProof, Goto, Fault
  <2>4. SinceBehind'
    BY <1>9, BoundsAssumption DEF SinceBehind, TypeOK, GenerateProof, Goto, Fault
  <2>5. PassEarned'
    BY <1>9, <1>2 DEF PassEarned, TypeOK, Steps, Slots, GenerateProof, Goto, Fault
  <2>6. ProofMissingExplained'
    BY <1>9 DEF ProofMissingExplained, PassEarned, TypeOK, GenerateProof, Goto, Fault
  <2>7. VerifiedHasChain'
    BY <1>9, <1>2 DEF VerifiedHasChain, PassEarned, RecordTracksStep, TypeOK, Steps, Slots, GenerateProof, Goto, Fault
  <2>8. QED
    BY <1>1, <2>1, <2>2, <2>3, <2>4, <2>5, <2>6, <2>7
<1>10. ASSUME NEW r \in Submissions, RecordVerdict(r)
      PROVE  IInv'
  <2>1. RecordTracksStep'
    BY <1>10 DEF RecordTracksStep, TypeOK, Steps, Slots, RecordVerdict, Verdict, Goto, Fault
  <2>2. RowsInOrder'
    BY <1>10 DEF RowsInOrder, TypeOK, Steps, Slots, StoredBefore, RecordVerdict, Verdict, Goto, Fault
  <2>3. JudgedOnFile'
    BY <1>10, <1>3 DEF JudgedOnFile, RecordVerdict, Verdict, Goto, Fault
  <2>4. SinceBehind'
    BY <1>10, BoundsAssumption DEF SinceBehind, TypeOK, RecordVerdict, Verdict, Goto, Fault
  <2>5. PassEarned'
    BY <1>10, <1>2 DEF PassEarned, TypeOK, Steps, Slots, RecordVerdict, Verdict, Goto, Fault
  <2>6. ProofMissingExplained'
    BY <1>10 DEF ProofMissingExplained, PassEarned, TypeOK, RecordVerdict, Verdict, Goto, Fault
  <2>7. VerifiedHasChain'
    BY <1>10, <1>2 DEF VerifiedHasChain, PassEarned, RecordTracksStep, TypeOK, Steps, Slots, RecordVerdict, Verdict, Goto, Fault
  <2>8. QED
    BY <1>1, <2>1, <2>2, <2>3, <2>4, <2>5, <2>6, <2>7
<1>11. ASSUME NEW r \in Submissions, NEW slot \in Slots, RevokeCertificate(r, slot)
      PROVE  IInv'
  <2>1. RecordTracksStep'
    BY <1>11 DEF RecordTracksStep, TypeOK, Steps, Slots, RevokeCertificate
  <2>2. RowsInOrder'
    <3>1. certs \in [Submissions -> [Slots -> CertRow \cup {None}]]
      BY DEF TypeOK
    <3>2. \A s \in Submissions, t \in Slots : certs'[s][t] # None => certs[s][t] # None
      BY <1>11, <3>1 DEF RevokeCertificate
    <3>3. QED
      BY <1>11, <3>2 DEF RowsInOrder, RevokeCertificate
  <2>3. JudgedOnFile'
    BY <1>11, <1>3 DEF JudgedOnFile, RevokeCertificate
  <2>4. SinceBehind'
    BY <1>11, BoundsAssumption DEF SinceBehind, TypeOK, RevokeCertificate
  <2>5. PassEarned'
    BY <1>11, <1>2 DEF PassEarned, TypeOK, Steps, Slots, RevokeCertificate
  <2>6. ProofMissingExplained'
    BY <1>11 DEF ProofMissingExplained, PassEarned, TypeOK, RevokeCertificate
  <2>7. VerifiedHasChain'
    BY <1>11, <1>2 DEF VerifiedHasChain, PassEarned, RecordTracksStep, TypeOK, Steps, Slots, RevokeCertificate
  <2>8. QED
    BY <1>1, <2>1, <2>2, <2>3, <2>4, <2>5, <2>6, <2>7
<1>12. ASSUME NEW d \in Devices, DeleteDevice(d)
      PROVE  IInv'
  <2>1. RecordTracksStep'
    BY <1>12 DEF RecordTracksStep, TypeOK, Steps, Slots, DeleteDevice
  <2>2. RowsInOrder'
    BY <1>12 DEF RowsInOrder, TypeOK, Steps, Slots, StoredBefore, DeleteDevice
  <2>3. JudgedOnFile'
    BY <1>12, <1>3 DEF JudgedOnFile, DeleteDevice
  <2>4. SinceBehind'
    BY <1>12, BoundsAssumption DEF SinceBehind, TypeOK, DeleteDevice
  <2>5. PassEarned'
    BY <1>12, <1>2 DEF PassEarned, TypeOK, Steps, Slots, DeleteDevice
  <2>6. ProofMissingExplained'
    BY <1>12 DEF ProofMissingExplained, PassEarned, TypeOK, DeleteDevice
  <2>7. VerifiedHasChain'
    BY <1>12, <1>2 DEF VerifiedHasChain, PassEarned, RecordTracksStep, TypeOK, Steps, Slots, DeleteDevice
  <2>8. QED
    BY <1>1, <2>1, <2>2, <2>3, <2>4, <2>5, <2>6, <2>7
<1>13. ASSUME Tick
      PROVE  IInv'
  <2>1. RecordTracksStep'
    BY <1>13 DEF RecordTracksStep, TypeOK, Steps, Slots, Tick
  <2>2. RowsInOrder'
    BY <1>13 DEF RowsInOrder, TypeOK, Steps, Slots, StoredBefore, Tick
  <2>3. JudgedOnFile'
    BY <1>13, <1>3 DEF JudgedOnFile, Tick
  <2>4. SinceBehind'
    BY <1>13, BoundsAssumption DEF SinceBehind, TypeOK, Tick
  <2>5. PassEarned'
    BY <1>13, <1>2 DEF PassEarned, TypeOK, Steps, Slots, Tick
  <2>6. ProofMissingExplained'
    BY <1>13 DEF ProofMissingExplained, PassEarned, TypeOK, Tick
  <2>7. VerifiedHasChain'
    BY <1>13, <1>2 DEF VerifiedHasChain, PassEarned, RecordTracksStep, TypeOK, Steps, Slots, Tick
  <2>8. QED
    BY <1>1, <2>1, <2>2, <2>3, <2>4, <2>5, <2>6, <2>7
<1>14. ASSUME Crash
      PROVE  IInv'
  <2>1. RecordTracksStep'
    BY <1>14 DEF RecordTracksStep, TypeOK, Steps, Slots, Crash, Running, Fault
  <2>2. RowsInOrder'
    BY <1>14 DEF RowsInOrder, TypeOK, Steps, Slots, StoredBefore, Crash, Running, Fault
  <2>3. JudgedOnFile'
    BY <1>14, <1>3 DEF JudgedOnFile, Crash, Running, Fault
  <2>4. SinceBehind'
    BY <1>14, BoundsAssumption DEF SinceBehind, TypeOK, Crash, Running, Fault
  <2>5. PassEarned'
    BY <1>14, <1>2 DEF PassEarned, TypeOK, Steps, Slots, Crash, Running, Fault
  <2>6. ProofMissingExplained'
    BY <1>14 DEF ProofMissingExplained, PassEarned, TypeOK, Crash, Running, Fault
  <2>7. VerifiedHasChain'
    BY <1>14, <1>2 DEF VerifiedHasChain, PassEarned, RecordTracksStep, TypeOK, Steps, Slots, Crash, Running, Fault
  <2>8. QED
    BY <1>1, <2>1, <2>2, <2>3, <2>4, <2>5, <2>6, <2>7
<1>15. ASSUME UNCHANGED vars
      PROVE  IInv'
  <2>1. RecordTracksStep'
    BY <1>15 DEF RecordTracksStep, TypeOK, Steps, Slots, vars
  <2>2. RowsInOrder'
    BY <1>15 DEF RowsInOrder, TypeOK, Steps, Slots, StoredBefore, vars
  <2>3. JudgedOnFile'
    BY <1>15, <1>3 DEF JudgedOnFile, vars
  <2>4. SinceBehind'
    BY <1>15, BoundsAssumption DEF SinceBehind, TypeOK, vars
  <2>5. PassEarned'
    BY <1>15, <1>2 DEF PassEarned, TypeOK, Steps, Slots, vars
  <2>6. ProofMissingExplained'
    BY <1>15 DEF ProofMissingExplained, PassEarned, TypeOK, vars
  <2>7. VerifiedHasChain'
    BY <1>15, <1>2 DEF VerifiedHasChain, PassEarned, RecordTracksStep, TypeOK, Steps, Slots, vars
  <2>8. QED
    BY <1>1, <2>1, <2>2, <2>3, <2>4, <2>5, <2>6, <2>7
<1>16. QED
  BY <1>4, <1>5, <1>6, <1>7, <1>8, <1>9, <1>10, <1>11, <1>12, <1>13, <1>14, <1>15 DEF Next

\* The invariant holds in every reachable state.
THEOREM Invariance == Spec => []IInv
<1>1. QED
  BY InitIInv, NextIInv, PTL DEF Spec

\* Type correctness of Attestation.
THEOREM TypeCorrect == Spec => []TypeOK
<1>1. IInv => TypeOK
  BY DEF IInv
<1>2. QED
  BY <1>1, Invariance, PTL

\* A verified record is backed by rows of its device on file, which x509 links up and
\* which were in force at one moment after the record was inserted.
THEOREM VerifiedBacked == Spec => []VerifiedHasChain
<1>1. IInv => VerifiedHasChain
  BY DEF IInv
<1>2. QED
  BY <1>1, Invariance, PTL

\* A verified record without a proof means that a call failed.
THEOREM ProofMissingOnlyByFault == Spec => []ProofMissingExplained
<1>1. IInv => ProofMissingExplained
  BY DEF IInv
<1>2. QED
  BY <1>1, Invariance, PTL

\* Whatever submissions, late inserts and revocations interleave, the chain a goroutine
\* reads is never younger than one read before it for the same device.
THEOREM OlderChainAlways == Spec => ChainNeverRenewed
<1>1. ASSUME IInv, [Next]_vars, NEW r \in Submissions, NEW s \in Submissions,
             NEW slot \in Slots, step[s] = "chain", step'[s] = "judge",
             req[r].device = req[s].device, judged[r][slot] # None
      PROVE  /\ judged'[s][slot] # None
             /\ Created(judged'[s][slot], slot) <= Created(judged[r][slot], slot)
  <2>1. step \in [Submissions -> Steps] /\ judged \in [Submissions -> [Slots -> Submissions \cup {None}]]
    BY <1>1 DEF IInv, TypeOK
  <2>2. ReadChain(s)
    BY <1>1, <2>1
       DEF Next, Submit, StoreCert, InsertRecord, ReadChain, JudgeChain, GenerateProof,
           RecordVerdict, RevokeCertificate, DeleteDevice, Tick, Crash, Goto, vars,
           AfterSlot, Slots
  <2>3. judged'[s][slot] \in Found(req[s].device, slot)
    BY <1>1, <2>1, <2>2 DEF ReadChain, Goto, Slots
  <2>4. judged[r][slot] \in OnFile(req[s].device, slot)
    BY <1>1 DEF IInv, JudgedOnFile
  <2>5. QED
    BY <1>1, <2>3, <2>4, FoundIsOldest DEF IInv
<1>2. IInv /\ [Next]_vars =>
        [\A r, s \in Submissions :
           /\ step[s] = "chain" /\ step'[s] = "judge"
           /\ req[s] # None /\ req[r] # None /\ req[r].device = req[s].device
           => \A slot \in Slots :
                  judged[r][slot] # None =>
                      /\ judged'[s][slot] # None
                      /\ Created(judged'[s][slot], slot) <= Created(judged[r][slot], slot)]_vars
  BY <1>1
<1>3. QED
  BY <1>2, Invariance, PTL DEF Spec, ChainNeverRenewed

\* No submission, crash or certificate changes a verdict.
THEOREM VerdictsFinal == Spec => VerdictFinal
<1>1. ASSUME IInv, [Next]_vars
      PROVE  [\A r \in Submissions :
                status[r] \in {"verified", "failed"} => status'[r] = status[r]]_vars
  <2> SUFFICES ASSUME Next, NEW r \in Submissions, status[r] \in {"verified", "failed"}
               PROVE  status'[r] = status[r]
    BY <1>1
  <2>1. step[r] \notin {"insert", "pass", "reject"}
    BY <1>1 DEF IInv, RecordTracksStep
  <2>2. status \in [Submissions -> {"none", "pending", "verified", "failed"}]
    BY <1>1 DEF IInv, TypeOK
  <2>3. QED
    BY <2>1, <2>2
       DEF Next, Submit, StoreCert, InsertRecord, ReadChain, JudgeChain, GenerateProof,
           RecordVerdict, RevokeCertificate, DeleteDevice, Tick, Crash
<1>2. QED
  BY <1>1, Invariance, PTL DEF Spec, VerdictFinal

=============================================================================
