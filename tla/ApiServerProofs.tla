--------------------------- MODULE ApiServerProofs --------------------------
(***************************************************************************)
(* TLAPS proofs about ApiServer, for any number of requests, clients and   *)
(* serial numbers, and any limit.                                          *)
(***************************************************************************)
EXTENDS ApiServer, TLAPS

\* No request has been made, and nothing is stored, when the server starts.
LEMMA InitIInv == Init => IInv
BY LimitAssumption, NoneAssumption
   DEF Init, IInv, TypeOK, AdmittedCounted, ImmortalExplained, Immortal,
       UnservedWroteNothing, WritesAudited, Inserted, Stages, Codes

\* An update and a soft delete of a row make a row, with the serial number it had; an
\* update leaves deleted_at alone.
LEMMA RowUpdates ==
    ASSUME NEW row \in Device
    PROVE  /\ SoftDeleted(row) \in Device
           /\ SoftDeleted(row).deleted
           /\ \A status \in UpdateStatuses :
                 /\ WithStatus(row, status) \in Device
                 /\ WithStatus(row, status).deleted = row.deleted
BY DEF SoftDeleted, WithStatus, Device

\* Every middleware, handler and goroutine, an expiry and a crash preserve the
\* invariant.
LEMMA NextIInv == IInv /\ [Next]_vars => IInv'
<1> SUFFICES ASSUME IInv, [Next]_vars PROVE IInv'
  OBVIOUS
<1> USE DEF IInv
<1>1. ASSUME NEW r \in Requests,
             NEW token \in {"valid", "invalid", "tenantless"},
             Authenticate(r, token)
      PROVE  IInv'
  <2> USE <1>1 DEF Authenticate, Goto, Answer, tables, redis
  <2>1. TypeOK'
    BY DEF TypeOK, Stages, Codes
  <2>2. ImmortalExplained'
    BY DEF ImmortalExplained, Immortal, TypeOK, Stages
  <2>3. UnservedWroteNothing'
    BY DEF UnservedWroteNothing, Inserted, TypeOK, Stages
  <2>4. WritesAudited'
    BY DEF WritesAudited, Inserted, TypeOK, Stages, UnservedWroteNothing
  <2>5. AdmittedCounted'
    BY DEF AdmittedCounted
  <2>6. QED
    BY <2>1, <2>2, <2>3, <2>4, <2>5
<1>2. ASSUME NEW r \in Requests, CountRequest(r)
      PROVE  IInv'
  <2> USE <1>2 DEF CountRequest, Admit, Goto, Answer, Fault, tables, redis
  <2>1. TypeOK'
    BY LimitAssumption, NoneAssumption DEF TypeOK, Stages, Codes
  <2>2. AdmittedCounted'
    BY LimitAssumption, NoneAssumption DEF AdmittedCounted, TypeOK
  <2>3. ImmortalExplained'
    BY LimitAssumption, NoneAssumption DEF ImmortalExplained, Immortal,
           TypeOK, Stages
  <2>4. UnservedWroteNothing'
    BY LimitAssumption, NoneAssumption DEF UnservedWroteNothing, Inserted,
           TypeOK, Stages
  <2>5. WritesAudited'
    BY LimitAssumption, NoneAssumption DEF WritesAudited, Inserted, TypeOK,
           Stages, UnservedWroteNothing
  <2>6. QED
    BY <2>1, <2>2, <2>3, <2>4, <2>5
<1>3. ASSUME NEW r \in Requests, LoseReply(r)
      PROVE  IInv'
  <2> USE <1>3 DEF LoseReply, Goto, Fault, tables
  <2>1. TypeOK'
    BY LimitAssumption, NoneAssumption DEF TypeOK, Stages
  <2>2. AdmittedCounted'
    BY DEF AdmittedCounted, TypeOK
  <2>3. ImmortalExplained'
    BY LimitAssumption DEF ImmortalExplained, TypeOK
  <2>4. UnservedWroteNothing'
    BY DEF UnservedWroteNothing, Inserted, TypeOK, Stages
  <2>5. WritesAudited'
    BY LimitAssumption DEF WritesAudited, TypeOK
  <2>6. QED
    BY <2>1, <2>2, <2>3, <2>4, <2>5
<1>4. ASSUME NEW r \in Requests, SetExpiry(r)
      PROVE  IInv'
  <2> USE <1>4 DEF SetExpiry, Goto, Fault, tables, redis
  <2>1. TypeOK'
    BY LimitAssumption, NoneAssumption DEF TypeOK, Stages, Codes
  <2>2. ImmortalExplained'
    BY LimitAssumption, NoneAssumption DEF ImmortalExplained, Immortal,
           TypeOK, Stages
  <2>3. UnservedWroteNothing'
    BY LimitAssumption, NoneAssumption DEF UnservedWroteNothing, Inserted,
           TypeOK, Stages
  <2>4. WritesAudited'
    BY LimitAssumption, NoneAssumption DEF WritesAudited, Inserted, TypeOK,
           Stages, UnservedWroteNothing
  <2>5. AdmittedCounted'
    BY DEF AdmittedCounted
  <2>6. QED
    BY <2>1, <2>2, <2>3, <2>4, <2>5
<1>5. ASSUME NEW r \in Requests, NEW s \in Serials,
             InsertDevice(r, s, "active")
      PROVE  IInv'
  <2> USE <1>5 DEF InsertDevice, Serve, Goto, Answer, tables, redis
  <2>1. TypeOK'
    <3>1. [serial |-> s, status |-> "active", deleted |-> FALSE] \in Device
      BY DEF Device
    <3>2. devices \in [Requests -> Device \cup {None}]
      BY DEF TypeOK
    <3>3. devices' \in [Requests -> Device \cup {None}]
      BY <3>1, <3>2
    <3>4. stage' \in [Requests -> Stages] /\ code' \in [Requests -> Codes]
      BY DEF TypeOK, Stages, Codes
    <3>5. QED
      BY <3>3, <3>4 DEF TypeOK
  <2>2. ImmortalExplained'
    BY LimitAssumption, NoneAssumption DEF ImmortalExplained, Immortal,
           TypeOK, Stages
  <2>3. UnservedWroteNothing'
    BY LimitAssumption, NoneAssumption DEF UnservedWroteNothing, Inserted,
           TypeOK, Stages, Device
  <2>4. WritesAudited'
    BY LimitAssumption, NoneAssumption DEF WritesAudited, Inserted, TypeOK,
           Stages, UnservedWroteNothing, Device
  <2>5. AdmittedCounted'
    BY DEF AdmittedCounted
  <2>6. QED
    BY <2>1, <2>2, <2>3, <2>4, <2>5
<1>6. ASSUME NEW r \in Requests, NEW s \in Serials,
             InsertDevice(r, s, "provisioned")
      PROVE  IInv'
  <2> USE <1>6 DEF InsertDevice, Serve, Goto, Answer, tables, redis
  <2>1. TypeOK'
    <3>1. [serial |-> s, status |-> "provisioned", deleted |-> FALSE] \in Device
      BY DEF Device
    <3>2. devices \in [Requests -> Device \cup {None}]
      BY DEF TypeOK
    <3>3. devices' \in [Requests -> Device \cup {None}]
      BY <3>1, <3>2
    <3>4. stage' \in [Requests -> Stages] /\ code' \in [Requests -> Codes]
      BY DEF TypeOK, Stages, Codes
    <3>5. QED
      BY <3>3, <3>4 DEF TypeOK
  <2>2. ImmortalExplained'
    BY LimitAssumption, NoneAssumption DEF ImmortalExplained, Immortal,
           TypeOK, Stages
  <2>3. UnservedWroteNothing'
    BY LimitAssumption, NoneAssumption DEF UnservedWroteNothing, Inserted,
           TypeOK, Stages, Device
  <2>4. WritesAudited'
    BY LimitAssumption, NoneAssumption DEF WritesAudited, Inserted, TypeOK,
           Stages, UnservedWroteNothing, Device
  <2>5. AdmittedCounted'
    BY DEF AdmittedCounted
  <2>6. QED
    BY <2>1, <2>2, <2>3, <2>4, <2>5
<1>7. ASSUME NEW r \in Requests, NEW c \in Codes, Serve(r, c),
             UNCHANGED <<devices, records>>, Fault \/ UNCHANGED faults
      PROVE  IInv'
  <2> USE <1>7 DEF Serve, Goto, Answer, Fault, redis
  <2>1. TypeOK'
    BY LimitAssumption DEF TypeOK, Stages
  <2>2. ImmortalExplained'
    BY LimitAssumption DEF ImmortalExplained, Immortal, TypeOK, Stages
  <2>3. UnservedWroteNothing'
    BY DEF UnservedWroteNothing, Inserted, TypeOK, Stages
  <2>4. WritesAudited'
    BY LimitAssumption DEF WritesAudited, Inserted, TypeOK, Stages
  <2>5. AdmittedCounted'
    BY DEF AdmittedCounted
  <2>6. QED
    BY <2>1, <2>2, <2>3, <2>4, <2>5
<1>8. ASSUME NEW r \in Requests, NEW d \in Requests, DeleteDevice(r, d)
      PROVE  IInv'
  <2> USE <1>8 DEF DeleteDevice, Serve, Goto, Answer, tables, redis
  <2>1. TypeOK'
    BY LimitAssumption, NoneAssumption, RowUpdates DEF TypeOK, Stages,
           Codes, Device
  <2>2. ImmortalExplained'
    BY LimitAssumption, NoneAssumption, RowUpdates DEF ImmortalExplained,
           Immortal, TypeOK, Stages
  <2>3. UnservedWroteNothing'
    BY LimitAssumption, NoneAssumption, RowUpdates DEF UnservedWroteNothing,
           Inserted, TypeOK, Stages, Device
  <2>4. WritesAudited'
    BY LimitAssumption, NoneAssumption, RowUpdates DEF WritesAudited,
           Inserted, TypeOK, Stages, UnservedWroteNothing, Device
  <2>5. AdmittedCounted'
    BY DEF AdmittedCounted
  <2>6. QED
    BY <2>1, <2>2, <2>3, <2>4, <2>5
<1>9. ASSUME NEW r \in Requests, NEW d \in Requests,
             NEW status \in UpdateStatuses \cup {None},
             UpdateDevice(r, d, status)
      PROVE  IInv'
  <2> USE <1>9 DEF UpdateDevice, Live, Serve, Goto, Answer, tables, redis
  <2>1. TypeOK'
    BY LimitAssumption, NoneAssumption, RowUpdates DEF TypeOK, Stages,
           Codes, Device
  <2>2. ImmortalExplained'
    BY LimitAssumption, NoneAssumption, RowUpdates DEF ImmortalExplained,
           Immortal, TypeOK, Stages
  <2>3. UnservedWroteNothing'
    BY LimitAssumption, NoneAssumption, RowUpdates DEF UnservedWroteNothing,
           Inserted, TypeOK, Stages, Device
  <2>4. WritesAudited'
    BY LimitAssumption, NoneAssumption, RowUpdates DEF WritesAudited,
           Inserted, TypeOK, Stages, UnservedWroteNothing, Device
  <2>5. AdmittedCounted'
    BY DEF AdmittedCounted
  <2>6. QED
    BY <2>1, <2>2, <2>3, <2>4, <2>5
<1>10. ASSUME NEW r \in Requests, NEW status \in {"pending", "generated"},
             InsertRecord(r, status)
      PROVE  IInv'
  <2> USE <1>10 DEF InsertRecord, Serve, Goto, Answer, tables, redis
  <2>1. TypeOK'
    BY LimitAssumption, NoneAssumption DEF TypeOK, Stages, Codes
  <2>2. ImmortalExplained'
    BY LimitAssumption, NoneAssumption DEF ImmortalExplained, Immortal,
           TypeOK, Stages
  <2>3. UnservedWroteNothing'
    BY LimitAssumption, NoneAssumption DEF UnservedWroteNothing, Inserted,
           TypeOK, Stages
  <2>4. WritesAudited'
    BY LimitAssumption, NoneAssumption DEF WritesAudited, Inserted, TypeOK,
           Stages, UnservedWroteNothing
  <2>5. AdmittedCounted'
    BY DEF AdmittedCounted
  <2>6. QED
    BY <2>1, <2>2, <2>3, <2>4, <2>5
<1>11. ASSUME NEW r \in Requests, ListDevices(r) \/ ComplianceCheck(r)
             \/ ListAnomalies(r) \/ Refuse(r) \/ ServeFails(r)
             \/ \E d \in Requests : \/ GetDevice(r, d) \/ GetAttestation(r, d)
                                    \/ GetProof(r, d) \/ VerifyProof(r, d)
      PROVE  IInv'
  <2>1. {200, 400, 404, 500} \subseteq Codes
    BY DEF Codes
  <2>2. \E c \in {200, 400, 404, 500} :
           Serve(r, c) /\ UNCHANGED <<devices, records>> /\ (Fault \/ UNCHANGED faults)
    BY <1>11 DEF ListDevices, ComplianceCheck, ListAnomalies, Refuse, ServeFails,
           GetDevice, GetAttestation, GetProof, VerifyProof, Lookup, Answered
  <2>3. QED
    BY <1>7, <2>1, <2>2
<1>12. ASSUME NEW r \in Requests, Audit(r)
      PROVE  IInv'
  <2> USE <1>12 DEF Audit, Goto, Fault, tables, redis
  <2>1. TypeOK'
    BY LimitAssumption, NoneAssumption DEF TypeOK, Stages, Codes
  <2>2. ImmortalExplained'
    BY LimitAssumption, NoneAssumption DEF ImmortalExplained, Immortal,
           TypeOK, Stages
  <2>3. UnservedWroteNothing'
    BY LimitAssumption, NoneAssumption DEF UnservedWroteNothing, Inserted,
           TypeOK, Stages
  <2>4. WritesAudited'
    BY LimitAssumption, NoneAssumption DEF WritesAudited, Inserted, TypeOK,
           Stages, UnservedWroteNothing
  <2>5. AdmittedCounted'
    BY DEF AdmittedCounted
  <2>6. QED
    BY <2>1, <2>2, <2>3, <2>4, <2>5
<1>13. ASSUME NEW c \in Clients, ExpireCounter(c)
      PROVE  IInv'
  <2> USE <1>13 DEF ExpireCounter, tables, redis
  <2>1. TypeOK'
    BY LimitAssumption, NoneAssumption DEF TypeOK, Stages, Codes
  <2>2. AdmittedCounted'
    BY LimitAssumption, NoneAssumption DEF AdmittedCounted, TypeOK
  <2>3. ImmortalExplained'
    BY LimitAssumption, NoneAssumption DEF ImmortalExplained, Immortal,
           TypeOK, Stages
  <2>4. UnservedWroteNothing'
    BY LimitAssumption, NoneAssumption DEF UnservedWroteNothing, Inserted,
           TypeOK, Stages
  <2>5. WritesAudited'
    BY LimitAssumption, NoneAssumption DEF WritesAudited, Inserted, TypeOK,
           Stages, UnservedWroteNothing
  <2>6. QED
    BY <2>1, <2>2, <2>3, <2>4, <2>5
<1>14. ASSUME Crash
      PROVE  IInv'
  <2> USE <1>14 DEF Crash, InFlight, Fault, tables, redis
  <2>1. TypeOK'
    BY LimitAssumption, NoneAssumption DEF TypeOK, Stages, Codes
  <2>2. ImmortalExplained'
    BY LimitAssumption, NoneAssumption DEF ImmortalExplained, Immortal,
           TypeOK, Stages
  <2>3. UnservedWroteNothing'
    BY LimitAssumption, NoneAssumption DEF UnservedWroteNothing, Inserted,
           TypeOK, Stages
  <2>4. WritesAudited'
    BY LimitAssumption, NoneAssumption DEF WritesAudited, Inserted, TypeOK,
           Stages, UnservedWroteNothing
  <2>5. AdmittedCounted'
    BY DEF AdmittedCounted
  <2>6. QED
    BY <2>1, <2>2, <2>3, <2>4, <2>5
<1>15. CASE UNCHANGED vars
  BY <1>15 DEF vars, TypeOK, AdmittedCounted, ImmortalExplained,
     UnservedWroteNothing, WritesAudited, Immortal, Inserted
<1>16. QED
  BY <1>1, <1>2, <1>3, <1>4, <1>5, <1>6, <1>7, <1>8, <1>9, <1>10, <1>11, <1>12,
     <1>13, <1>14, <1>15 DEF Next, Handle, CreateDevice, EnrollDevice,
     CreateAttestation, GenerateProof

\* The invariant holds in every reachable state.
THEOREM Invariance == Spec => []IInv
<1>1. QED
  BY InitIInv, NextIInv, PTL DEF Spec

\* Type correctness of ApiServer.
THEOREM TypeCorrect == Spec => []TypeOK
<1>1. IInv => TypeOK
  BY DEF IInv
<1>2. QED
  BY <1>1, Invariance, PTL

\* However INCRs interleave, no client gets more than Limit requests through.
THEOREM QuotaAlwaysKept == Spec => []QuotaKept
<1>1. IInv => QuotaKept
  BY LimitAssumption DEF IInv, TypeOK, AdmittedCounted, QuotaKept
<1>2. QED
  BY <1>1, Invariance, PTL

\* A counter is left without an expiry only by a failed call or a crash.
THEOREM ImmortalOnlyByFault == Spec => []ImmortalExplained
<1>1. IInv => ImmortalExplained
  BY DEF IInv
<1>2. QED
  BY <1>1, Invariance, PTL

\* Every write is in the audit log, or about to be, unless a call failed.
THEOREM WritesAlwaysAudited == Spec => []WritesAudited
<1>1. IInv => WritesAudited
  BY DEF IInv
<1>2. QED
  BY <1>1, Invariance, PTL

\* No update brings a deleted device back, and no insert replaces its row.
THEOREM DeletedForGood == Spec => DeletedStaysDeleted
<1>1. ASSUME IInv, [Next]_vars
      PROVE  [\A d \in Requests :
                devices[d] # None /\ devices[d].deleted =>
                   devices'[d] # None /\ devices'[d].deleted]_vars
  <2> SUFFICES ASSUME Next, NEW d \in Requests, devices[d] # None, devices[d].deleted
               PROVE  devices'[d] # None /\ devices'[d].deleted
    BY <1>1
  <2>1. devices \in [Requests -> Device \cup {None}] /\ devices[d] \in Device
    BY <1>1 DEF IInv, TypeOK
  <2>2. ASSUME NEW r \in Requests, NEW s \in Serials, NEW status,
               InsertDevice(r, s, status)
        PROVE  devices'[d] = devices[d]
    <3>1. r \notin Inserted
      BY <1>1, <2>2 DEF IInv, UnservedWroteNothing, InsertDevice, Serve
    <3>2. r # d
      BY <3>1 DEF Inserted
    <3>3. QED
      BY <2>1, <2>2, <3>2 DEF InsertDevice
  <2>3. ASSUME NEW r \in Requests, NEW e \in Requests, DeleteDevice(r, e)
        PROVE  devices'[d] # None /\ devices'[d].deleted
    BY <2>1, <2>3, RowUpdates, NoneAssumption DEF DeleteDevice
  <2>4. ASSUME NEW r \in Requests, NEW e \in Requests,
               NEW status \in UpdateStatuses \cup {None}, UpdateDevice(r, e, status)
        PROVE  devices'[d] = devices[d]
    BY <2>1, <2>4 DEF UpdateDevice, Live
  <2>5. CASE UNCHANGED devices
    BY <2>5
  <2>6. QED
    BY <2>2, <2>3, <2>4, <2>5
       DEF Next, Handle, CreateDevice, EnrollDevice, CreateAttestation, GenerateProof,
           InsertRecord, ServeFails, ListDevices, ComplianceCheck, ListAnomalies, Refuse,
           GetDevice, GetAttestation, GetProof, VerifyProof, Lookup, Answered,
           Authenticate, CountRequest, LoseReply, SetExpiry, Audit, ExpireCounter, Crash,
           tables
<1>2. QED
  BY <1>1, Invariance, PTL DEF Spec, DeletedStaysDeleted

=============================================================================
