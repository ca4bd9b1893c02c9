----------------------- MODULE DeviceLifecycleProofs ------------------------
(***************************************************************************)
(* TLAPS proofs about DeviceLifecycle, for any number of handlers,         *)
(* devices, serial numbers, tenants, update statuses and faults.           *)
(***************************************************************************)
EXTENDS DeviceLifecycle, TLAPS

USE NoneAssumption, FaultsAssumption

\* Nothing is registered, and no handler is under way, when the server starts.
LEMMA InitIInv == Init => IInv
BY DEF Init, IInv, TypeOK, SerialUnique, HandlersTrackRows, EntriesMatchRows,
       CopiesVouched, ProvisionedByOwner, KeysRegistered, Steps

\* A soft delete sets deleted_at and no other column.
LEMMA SoftDelete ==
    ASSUME NEW r \in Row
    PROVE  /\ SoftDeleted(r) \in Row
           /\ SoftDeleted(r).tenant = r.tenant
           /\ SoftDeleted(r).serial = r.serial
           /\ SoftDeleted(r).status = r.status
           /\ SoftDeleted(r).deleted
BY DEF SoftDeleted, Row

\* Every call of every handler, an expiry and a crash preserve the invariant.
LEMMA NextIInv == IInv /\ [Next]_vars => IInv'
<1> SUFFICES ASSUME IInv, [Next]_vars PROVE IInv'
  OBVIOUS
<1> USE DEF IInv
<1>1. ASSUME NEW p \in Handlers, NEW t \in Tenants, NEW s \in Serials,
             RegisterDevice(p, t, s)
      PROVE  IInv'
  <2> USE <1>1 DEF RegisterDevice, CheckSerial, Goto, Fault, stores, locals, history
  <2>1. TypeOK'
    BY DEF TypeOK, HandlersTrackRows, Row, Statuses, Steps
  <2>2. HandlersTrackRows'
    BY DEF HandlersTrackRows, TypeOK, Row, Statuses, Steps
  <2>3. CopiesVouched'
    BY DEF CopiesVouched, ProvisionedByOwner, EntriesMatchRows,
           HandlersTrackRows, TypeOK, Row, Statuses, Steps
  <2>4. SerialUnique' /\ EntriesMatchRows' /\ ProvisionedByOwner' /\ KeysRegistered'
    BY DEF SerialUnique, EntriesMatchRows, ProvisionedByOwner,
           KeysRegistered
  <2>5. QED
    BY <2>1, <2>2, <2>3, <2>4
<1>2. ASSUME NEW p \in Handlers, NEW t \in Tenants, NEW s \in Serials,
             EnrollDevice(p, t, s)
      PROVE  IInv'
  <2> USE <1>2 DEF EnrollDevice, CheckSerial, Goto, Fault, stores, locals, history
  <2>1. TypeOK'
    BY DEF TypeOK, HandlersTrackRows, Row, Statuses, Steps
  <2>2. HandlersTrackRows'
    BY DEF HandlersTrackRows, TypeOK, Row, Statuses, Steps
  <2>3. CopiesVouched'
    BY DEF CopiesVouched, ProvisionedByOwner, EntriesMatchRows,
           HandlersTrackRows, TypeOK, Row, Statuses, Steps
  <2>4. SerialUnique' /\ EntriesMatchRows' /\ ProvisionedByOwner' /\ KeysRegistered'
    BY DEF SerialUnique, EntriesMatchRows, ProvisionedByOwner,
           KeysRegistered
  <2>5. QED
    BY <2>1, <2>2, <2>3, <2>4
<1>3. ASSUME NEW p \in Handlers, NEW d \in Devices,
             CreateRow(p, d)
      PROVE  IInv'
  <2> USE <1>3 DEF CreateRow, Goto, SerialTaken, stores, locals, history
  <2>1. TypeOK'
    BY DEF TypeOK, HandlersTrackRows, Row, Statuses, Steps
  <2>2. SerialUnique'
    BY DEF SerialUnique, HandlersTrackRows, TypeOK, Row, Statuses, Steps
  <2>3. HandlersTrackRows'
    BY DEF HandlersTrackRows, TypeOK, Row, Statuses, Steps
  <2>4. EntriesMatchRows'
    BY DEF EntriesMatchRows, HandlersTrackRows, TypeOK, Row, Statuses, Steps
  <2>5. CopiesVouched'
    BY DEF CopiesVouched, EntriesMatchRows, HandlersTrackRows, TypeOK, Row,
           Statuses, Steps
  <2>6. ProvisionedByOwner'
    BY DEF ProvisionedByOwner, CopiesVouched, HandlersTrackRows, TypeOK,
           Row, Statuses, Steps
  <2>7. KeysRegistered'
    BY DEF KeysRegistered, HandlersTrackRows, TypeOK, Row, Statuses, Steps
  <2>8. QED
    BY <2>1, <2>2, <2>3, <2>4, <2>5, <2>6, <2>7
<1>4. ASSUME NEW p \in Handlers,
             CreateFails(p)
      PROVE  IInv'
  <2> USE <1>4 DEF CreateFails, Return, Fault, stores, locals, history
  <2>1. TypeOK'
    BY DEF TypeOK, HandlersTrackRows, Row, Statuses, Steps
  <2>2. HandlersTrackRows'
    BY DEF HandlersTrackRows, TypeOK, Row, Statuses, Steps
  <2>3. CopiesVouched'
    BY DEF CopiesVouched, ProvisionedByOwner, EntriesMatchRows,
           HandlersTrackRows, TypeOK, Row, Statuses, Steps
  <2>4. SerialUnique' /\ EntriesMatchRows' /\ ProvisionedByOwner' /\ KeysRegistered'
    BY DEF SerialUnique, EntriesMatchRows, ProvisionedByOwner,
           KeysRegistered
  <2>5. QED
    BY <2>1, <2>2, <2>3, <2>4
<1>5. ASSUME NEW p \in Handlers,
             StoreKey(p)
      PROVE  IInv'
  <2> USE <1>5 DEF StoreKey, Return, Fault, stores, locals, history
  <2>1. TypeOK'
    BY DEF TypeOK, HandlersTrackRows, Row, Statuses, Steps
  <2>2. HandlersTrackRows'
    BY DEF HandlersTrackRows, TypeOK, Row, Statuses, Steps
  <2>3. CopiesVouched'
    BY DEF CopiesVouched, ProvisionedByOwner, EntriesMatchRows,
           HandlersTrackRows, TypeOK, Row, Statuses, Steps
  <2>4. KeysRegistered'
    BY DEF KeysRegistered, HandlersTrackRows, TypeOK, Row, Statuses, Steps
  <2>5. SerialUnique' /\ EntriesMatchRows' /\ ProvisionedByOwner'
    BY DEF SerialUnique, EntriesMatchRows, ProvisionedByOwner
  <2>6. QED
    BY <2>1, <2>2, <2>3, <2>4, <2>5
<1>6. ASSUME NEW p \in Handlers,
             StoreEnrollment(p)
      PROVE  IInv'
  <2> USE <1>6 DEF StoreEnrollment, Return, Fault, stores, locals, history
  <2>1. TypeOK'
    BY DEF TypeOK, HandlersTrackRows, Row, Statuses, Steps
  <2>2. HandlersTrackRows'
    BY DEF HandlersTrackRows, TypeOK, Row, Statuses, Steps
  <2>3. CopiesVouched'
    BY DEF CopiesVouched, ProvisionedByOwner, EntriesMatchRows,
           HandlersTrackRows, TypeOK, Row, Statuses, Steps
  <2>4. EntriesMatchRows'
    BY DEF EntriesMatchRows, HandlersTrackRows, TypeOK, Row, Statuses, Steps
  <2>5. SerialUnique' /\ ProvisionedByOwner' /\ KeysRegistered'
    BY DEF SerialUnique, ProvisionedByOwner, KeysRegistered
  <2>6. QED
    BY <2>1, <2>2, <2>3, <2>4, <2>5
<1>7. ASSUME NEW p \in Handlers, NEW d \in Devices, NEW t \in Tenants,
              NEW answered \in BOOLEAN,
             ProvisionSecureElement(p, d, t, answered)
      PROVE  IInv'
  <2> USE <1>7 DEF ProvisionSecureElement, Matches, Goto, stores, locals, history
  <2>1. TypeOK'
    BY DEF TypeOK, HandlersTrackRows, Row, Statuses, Steps
  <2>2. HandlersTrackRows'
    BY DEF HandlersTrackRows, TypeOK, Row, Statuses, Steps, EntriesMatchRows
  <2>3. CopiesVouched'
    BY DEF CopiesVouched, ProvisionedByOwner, EntriesMatchRows,
           HandlersTrackRows, TypeOK, Row, Statuses, Steps
  <2>4. ProvisionedByOwner'
    BY DEF ProvisionedByOwner, EntriesMatchRows, TypeOK
  <2>5. SerialUnique' /\ EntriesMatchRows' /\ KeysRegistered'
    BY DEF SerialUnique, EntriesMatchRows, KeysRegistered
  <2>6. QED
    BY <2>1, <2>2, <2>3, <2>4, <2>5
<1>8. ASSUME NEW p \in Handlers,
             LoadProvisioned(p)
      PROVE  IInv'
  <2> USE <1>8 DEF LoadProvisioned, Found, Goto, stores, locals, history
  <2>1. TypeOK'
    BY DEF TypeOK, HandlersTrackRows, Row, Statuses, Steps
  <2>2. HandlersTrackRows'
    BY DEF HandlersTrackRows, TypeOK, Row, Statuses, Steps
  <2>3. CopiesVouched'
    BY DEF CopiesVouched, ProvisionedByOwner, EntriesMatchRows,
           HandlersTrackRows, TypeOK, Row, Statuses, Steps
  <2>4. SerialUnique' /\ EntriesMatchRows' /\ ProvisionedByOwner' /\ KeysRegistered'
    BY DEF SerialUnique, EntriesMatchRows, ProvisionedByOwner,
           KeysRegistered
  <2>5. QED
    BY <2>1, <2>2, <2>3, <2>4
<1>9. ASSUME NEW p \in Handlers,
             LoadFails(p)
      PROVE  IInv'
  <2> USE <1>9 DEF LoadFails, Return, Fault, stores, locals, history
  <2>1. TypeOK'
    BY DEF TypeOK, HandlersTrackRows, Row, Statuses, Steps
  <2>2. HandlersTrackRows'
    BY DEF HandlersTrackRows, TypeOK, Row, Statuses, Steps
  <2>3. CopiesVouched'
    BY DEF CopiesVouched, ProvisionedByOwner, EntriesMatchRows,
           HandlersTrackRows, TypeOK, Row, Statuses, Steps
  <2>4. SerialUnique' /\ EntriesMatchRows' /\ ProvisionedByOwner' /\ KeysRegistered'
    BY DEF SerialUnique, EntriesMatchRows, ProvisionedByOwner,
           KeysRegistered
  <2>5. QED
    BY <2>1, <2>2, <2>3, <2>4
<1>10. ASSUME NEW p \in Handlers,
             SaveProvisioned(p)
      PROVE  IInv'
  <2> USE <1>10 DEF SaveProvisioned, SaveRow, Written, Goto, stores, locals, history
  <2>1. TypeOK'
    BY DEF TypeOK, HandlersTrackRows, Row, Statuses, Steps
  <2>2. SerialUnique'
    BY DEF SerialUnique, HandlersTrackRows, TypeOK, Row, Statuses, Steps
  <2>3. HandlersTrackRows'
    BY DEF HandlersTrackRows, TypeOK, Row, Statuses, Steps
  <2>4. EntriesMatchRows'
    BY DEF EntriesMatchRows, HandlersTrackRows, TypeOK, Row, Statuses, Steps
  <2>5. CopiesVouched'
    BY DEF CopiesVouched, EntriesMatchRows, HandlersTrackRows, TypeOK, Row,
           Statuses, Steps
  <2>6. ProvisionedByOwner'
    BY DEF ProvisionedByOwner, CopiesVouched, HandlersTrackRows, TypeOK,
           Row, Statuses, Steps
  <2>7. KeysRegistered'
    BY DEF KeysRegistered, HandlersTrackRows, TypeOK, Row, Statuses, Steps
  <2>8. QED
    BY <2>1, <2>2, <2>3, <2>4, <2>5, <2>6, <2>7
<1>11. ASSUME NEW p \in Handlers,
             DropEnrollment(p)
      PROVE  IInv'
  <2> USE <1>11 DEF DropEnrollment, Return, Fault, stores, locals, history
  <2>1. TypeOK'
    BY DEF TypeOK, HandlersTrackRows, Row, Statuses, Steps
  <2>2. HandlersTrackRows'
    BY DEF HandlersTrackRows, TypeOK, Row, Statuses, Steps
  <2>3. CopiesVouched'
    BY DEF CopiesVouched, ProvisionedByOwner, EntriesMatchRows,
           HandlersTrackRows, TypeOK, Row, Statuses, Steps
  <2>4. EntriesMatchRows'
    BY DEF EntriesMatchRows, HandlersTrackRows, TypeOK, Row, Statuses, Steps
  <2>5. SerialUnique' /\ ProvisionedByOwner' /\ KeysRegistered'
    BY DEF SerialUnique, ProvisionedByOwner, KeysRegistered
  <2>6. QED
    BY <2>1, <2>2, <2>3, <2>4, <2>5
<1>12. ASSUME NEW p \in Handlers, NEW d \in Devices,
              NEW status \in UpdateStatuses \cup {None},
             UpdateDevice(p, d, status)
      PROVE  IInv'
  <2> USE <1>12 DEF UpdateDevice, Found, Goto, Granted, stores, locals, history
  <2>1. TypeOK'
    BY DEF TypeOK, HandlersTrackRows, Row, Statuses, Steps
  <2>2. HandlersTrackRows'
    BY DEF HandlersTrackRows, TypeOK, Row, Statuses, Steps, EntriesMatchRows
  <2>3. CopiesVouched'
    BY DEF CopiesVouched, ProvisionedByOwner, EntriesMatchRows,
           HandlersTrackRows, TypeOK, Row, Statuses, Steps
  <2>4. ProvisionedByOwner'
    BY DEF ProvisionedByOwner, EntriesMatchRows, TypeOK
  <2>5. SerialUnique' /\ EntriesMatchRows' /\ KeysRegistered'
    BY DEF SerialUnique, EntriesMatchRows, KeysRegistered
  <2>6. QED
    BY <2>1, <2>2, <2>3, <2>4, <2>5
<1>13. ASSUME NEW p \in Handlers,
             SaveUpdated(p)
      PROVE  IInv'
  <2> USE <1>13 DEF SaveUpdated, SaveRow, Written, Return, stores, locals, history
  <2>1. TypeOK'
    BY DEF TypeOK, HandlersTrackRows, Row, Statuses, Steps
  <2>2. SerialUnique'
    BY DEF SerialUnique, HandlersTrackRows, TypeOK, Row, Statuses, Steps
  <2>3. HandlersTrackRows'
    BY DEF HandlersTrackRows, TypeOK, Row, Statuses, Steps
  <2>4. EntriesMatchRows'
    BY DEF EntriesMatchRows, HandlersTrackRows, TypeOK, Row, Statuses, Steps
  <2>5. CopiesVouched'
    BY DEF CopiesVouched, EntriesMatchRows, HandlersTrackRows, TypeOK, Row,
           Statuses, Steps
  <2>6. ProvisionedByOwner'
    BY DEF ProvisionedByOwner, CopiesVouched, HandlersTrackRows, TypeOK,
           Row, Statuses, Steps
  <2>7. KeysRegistered'
    BY DEF KeysRegistered, HandlersTrackRows, TypeOK, Row, Statuses, Steps
  <2>8. QED
    BY <2>1, <2>2, <2>3, <2>4, <2>5, <2>6, <2>7
<1>14. ASSUME NEW p \in Handlers,
             SaveFails(p)
      PROVE  IInv'
  <2> USE <1>14 DEF SaveFails, Return, Fault, stores, locals, history
  <2>1. TypeOK'
    BY DEF TypeOK, HandlersTrackRows, Row, Statuses, Steps
  <2>2. HandlersTrackRows'
    BY DEF HandlersTrackRows, TypeOK, Row, Statuses, Steps
  <2>3. CopiesVouched'
    BY DEF CopiesVouched, ProvisionedByOwner, EntriesMatchRows,
           HandlersTrackRows, TypeOK, Row, Statuses, Steps
  <2>4. SerialUnique' /\ EntriesMatchRows' /\ ProvisionedByOwner' /\ KeysRegistered'
    BY DEF SerialUnique, EntriesMatchRows, ProvisionedByOwner,
           KeysRegistered
  <2>5. QED
    BY <2>1, <2>2, <2>3, <2>4
<1>15. ASSUME NEW p \in Handlers, NEW d \in Devices,
             DeleteDevice(p, d)
      PROVE  IInv'
  <2> USE <1>15 DEF DeleteDevice, Goto, stores, locals, history
  <2>1. TypeOK'
    BY SoftDelete DEF TypeOK, HandlersTrackRows, Row, Statuses, Steps
  <2>2. SerialUnique'
    BY SoftDelete DEF SerialUnique, HandlersTrackRows, TypeOK, Row,
           Statuses, Steps
  <2>3. HandlersTrackRows'
    BY SoftDelete DEF HandlersTrackRows, TypeOK, Row, Statuses, Steps
  <2>4. EntriesMatchRows'
    BY SoftDelete DEF EntriesMatchRows, HandlersTrackRows, TypeOK, Row,
           Statuses, Steps
  <2>5. CopiesVouched'
    BY SoftDelete DEF CopiesVouched, EntriesMatchRows, HandlersTrackRows,
           TypeOK, Row, Statuses, Steps
  <2>6. ProvisionedByOwner'
    BY SoftDelete DEF ProvisionedByOwner, CopiesVouched, HandlersTrackRows,
           TypeOK, Row, Statuses, Steps
  <2>7. KeysRegistered'
    BY SoftDelete DEF KeysRegistered, HandlersTrackRows, TypeOK, Row,
           Statuses, Steps
  <2>8. QED
    BY <2>1, <2>2, <2>3, <2>4, <2>5, <2>6, <2>7
<1>16. ASSUME NEW p \in Handlers,
             DropFingerprint(p)
      PROVE  IInv'
  <2> USE <1>16 DEF DropFingerprint, Return, Fault, stores, locals, history
  <2>1. TypeOK'
    BY DEF TypeOK, HandlersTrackRows, Row, Statuses, Steps
  <2>2. HandlersTrackRows'
    BY DEF HandlersTrackRows, TypeOK, Row, Statuses, Steps
  <2>3. CopiesVouched'
    BY DEF CopiesVouched, ProvisionedByOwner, EntriesMatchRows,
           HandlersTrackRows, TypeOK, Row, Statuses, Steps
  <2>4. SerialUnique' /\ EntriesMatchRows' /\ ProvisionedByOwner' /\ KeysRegistered'
    BY DEF SerialUnique, EntriesMatchRows, ProvisionedByOwner,
           KeysRegistered
  <2>5. QED
    BY <2>1, <2>2, <2>3, <2>4
<1>17. ASSUME NEW d \in Devices,
             StoreFingerprint(d)
      PROVE  IInv'
  <2> USE <1>17 DEF StoreFingerprint, stores, locals, history
  <2>1. TypeOK'
    BY DEF TypeOK, HandlersTrackRows, Row, Statuses, Steps
  <2>2. SerialUnique' /\ HandlersTrackRows' /\ EntriesMatchRows' /\ CopiesVouched'
    BY DEF SerialUnique, HandlersTrackRows, EntriesMatchRows, CopiesVouched
  <2>3. ProvisionedByOwner' /\ KeysRegistered'
    BY DEF ProvisionedByOwner, KeysRegistered
  <2>4. QED
    BY <2>1, <2>2, <2>3
<1>18. ASSUME NEW d \in Devices,
             Expire(d)
      PROVE  IInv'
  <2> USE <1>18 DEF Expire, stores, locals, history
  <2>1. TypeOK'
    BY DEF TypeOK, HandlersTrackRows, Row, Statuses, Steps
  <2>2. HandlersTrackRows'
    BY DEF HandlersTrackRows, TypeOK, Row, Statuses, Steps
  <2>3. CopiesVouched'
    BY DEF CopiesVouched, ProvisionedByOwner, EntriesMatchRows,
           HandlersTrackRows, TypeOK, Row, Statuses, Steps
  <2>4. EntriesMatchRows'
    BY DEF EntriesMatchRows, HandlersTrackRows, TypeOK, Row, Statuses, Steps
  <2>5. SerialUnique' /\ ProvisionedByOwner' /\ KeysRegistered'
    BY DEF SerialUnique, ProvisionedByOwner, KeysRegistered
  <2>6. QED
    BY <2>1, <2>2, <2>3, <2>4, <2>5
<1>19. ASSUME Crash
      PROVE  IInv'
  <2> USE <1>19 DEF Crash, Fault, stores, locals, history
  <2>1. TypeOK'
    BY DEF TypeOK, HandlersTrackRows, Row, Statuses, Steps
  <2>2. HandlersTrackRows'
    BY DEF HandlersTrackRows, TypeOK, Row, Statuses, Steps
  <2>3. CopiesVouched'
    BY DEF CopiesVouched, ProvisionedByOwner, EntriesMatchRows,
           HandlersTrackRows, TypeOK, Row, Statuses, Steps
  <2>4. SerialUnique' /\ EntriesMatchRows' /\ ProvisionedByOwner' /\ KeysRegistered'
    BY DEF SerialUnique, EntriesMatchRows, ProvisionedByOwner,
           KeysRegistered
  <2>5. QED
    BY <2>1, <2>2, <2>3, <2>4
<1>20. CASE UNCHANGED vars
  BY <1>20 DEF vars, stores, locals, history, TypeOK, SerialUnique, HandlersTrackRows,
     EntriesMatchRows, CopiesVouched, ProvisionedByOwner, KeysRegistered
<1>21. QED
  BY <1>1, <1>2, <1>3, <1>4, <1>5, <1>6, <1>7, <1>8, <1>9, <1>10,
     <1>11, <1>12, <1>13, <1>14, <1>15, <1>16, <1>17, <1>18, <1>19, <1>20 DEF Next

\* The invariant holds in every reachable state.
THEOREM Invariance == Spec => []IInv
<1>1. QED
  BY InitIInv, NextIInv, PTL DEF Spec

\* Type correctness of DeviceLifecycle.
THEOREM TypeCorrect == Spec => []TypeOK
<1>1. IInv => TypeOK
  BY DEF IInv
<1>2. QED
  BY <1>1, Invariance, PTL

\* However registrations, enrollments and stale Saves interleave, a serial number
\* is never carried by two rows.
THEOREM SerialsUnique == Spec => []SerialUnique
<1>1. IInv => SerialUnique
  BY DEF IInv
<1>2. QED
  BY <1>1, Invariance, PTL

\* "provisioned" is earned by the owning tenant's challenge response, or asked for.
THEOREM ProvisionedOnlyByOwner == Spec => []ProvisionedByOwner
<1>1. IInv => ProvisionedByOwner
  BY DEF IInv
<1>2. QED
  BY <1>1, Invariance, PTL

\* An API key never precedes or outlives the row of the device it names.
THEOREM KeysAlwaysRegistered == Spec => []KeysRegistered
<1>1. IInv => KeysRegistered
  BY DEF IInv
<1>2. QED
  BY <1>1, Invariance, PTL

-----------------------------------------------------------------------------
(* The devices table implements SerialRegistry. *)

\* What the mapping makes of a row, and of a serial number without one.
ClaimsFaithful ==
    /\ \A d \in Devices :
          row[d] # None => /\ row[d].serial \in Serials
                           /\ row[d].tenant \in Tenants
                           /\ Claimed[row[d].serial] = <<d, row[d].tenant>>
    /\ \A s \in Serials : ~SerialTaken(s) => Claimed[s] = None

LEMMA ClaimedValues == IInv => ClaimsFaithful
<1> SUFFICES ASSUME IInv PROVE ClaimsFaithful
  OBVIOUS
<1>1. ASSUME NEW d \in Devices, row[d] # None
      PROVE  /\ row[d].serial \in Serials
             /\ row[d].tenant \in Tenants
             /\ Claimed[row[d].serial] = <<d, row[d].tenant>>
  <2>1. row[d].serial \in Serials /\ row[d].tenant \in Tenants
    BY <1>1 DEF IInv, TypeOK, Row
  <2> DEFINE e == CHOOSE x \in Devices : row[x] # None /\ row[x].serial = row[d].serial
  <2>2. e \in Devices /\ row[e] # None /\ row[e].serial = row[d].serial
    BY <1>1
  <2>3. e = d
    BY <1>1, <2>2 DEF IInv, SerialUnique
  <2>4. Claimed[row[d].serial] = OwnerOf(e)
    BY <1>1, <2>1 DEF Claimed, SerialTaken
  <2>5. QED
    BY <2>1, <2>3, <2>4 DEF OwnerOf
<1>2. ASSUME NEW s \in Serials, ~SerialTaken(s)
      PROVE  Claimed[s] = None
  BY <1>2 DEF Claimed
<1>3. QED
  BY <1>1, <1>2 DEF ClaimsFaithful

\* Only the insert adds a row, and no write removes one or renames what it identifies.
LEMMA RowsKept ==
    ASSUME IInv, [Next]_vars,
           ~ \E p \in Handlers, d \in Devices : CreateRow(p, d)
    PROVE  \A d \in Devices :
              /\ row'[d] # None <=> row[d] # None
              /\ row[d] # None => /\ row'[d].tenant = row[d].tenant
                                  /\ row'[d].serial = row[d].serial
<1> DEFINE Kept == \A d \in Devices :
              /\ row'[d] # None <=> row[d] # None
              /\ row[d] # None => /\ row'[d].tenant = row[d].tenant
                                  /\ row'[d].serial = row[d].serial
<1>1. ASSUME NEW p \in Handlers, SaveProvisioned(p) \/ SaveUpdated(p)
      PROVE  Kept
  BY <1>1 DEF SaveProvisioned, SaveUpdated, SaveRow, Written, IInv, TypeOK,
              HandlersTrackRows, Row, Statuses, Steps
<1>2. ASSUME NEW p \in Handlers, NEW d \in Devices, DeleteDevice(p, d)
      PROVE  Kept
  BY <1>2, SoftDelete DEF DeleteDevice, IInv, TypeOK
<1>3. CASE row' = row
  BY <1>3
<1>4. QED
  BY <1>1, <1>2, <1>3
     DEF Next, vars, stores, RegisterDevice, EnrollDevice, CheckSerial, CreateFails,
         StoreKey, StoreEnrollment, ProvisionSecureElement, LoadProvisioned, LoadFails,
         DropEnrollment, UpdateDevice, SaveFails, DropFingerprint, StoreFingerprint,
         Expire, Crash

\* An insert is a claim of a free serial number; every other step is a stutter.
LEMMA StepRefines == IInv /\ IInv' /\ [Next]_vars => [Registry!Next]_Claimed
<1>1. IInv' => ClaimsFaithful'
  BY ClaimedValues, PTL
<1> SUFFICES ASSUME IInv, IInv', [Next]_vars PROVE [Registry!Next]_Claimed
  OBVIOUS
<1> USE ClaimedValues, <1>1 DEF ClaimsFaithful
<1>2. Claimed = [s \in Serials |-> Claimed[s]] /\ Claimed' = [s \in Serials |-> Claimed'[s]]
  BY DEF Claimed
<1>3. ASSUME NEW p \in Handlers, NEW d \in Devices, CreateRow(p, d)
      PROVE  Registry!Next
  <2> DEFINE s == copy[p].serial
             o == <<d, copy[p].tenant>>
  <2>1. /\ copy[p] \in Row /\ s \in Serials /\ o \in Devices \X Tenants
        /\ row' = [row EXCEPT ![d] = copy[p]] /\ row'[d] = copy[p]
        /\ row'[d] # None /\ ~SerialTaken(s)
    BY <1>3 DEF CreateRow, IInv, TypeOK, Row
  <2>2. Claimed[s] = None
    BY <2>1, ClaimedValues
  <2>3. Claimed'[s] = o
    BY <2>1, <1>1
  <2>4. ASSUME NEW x \in Serials, x # s
        PROVE  Claimed'[x] = Claimed[x]
    <3>1. CASE SerialTaken(x)
      <4>1. PICK e \in Devices : row[e] # None /\ row[e].serial = x
        BY <3>1 DEF SerialTaken
      <4>2. row'[e] = row[e]
        BY <4>1, <2>1, <1>3 DEF CreateRow, IInv, TypeOK
      <4>3. QED
        BY <4>1, <4>2, <1>1, ClaimedValues
    <3>2. CASE ~SerialTaken(x)
      <4>1. ~SerialTaken(x)'
        BY <3>2, <2>1, <2>4 DEF SerialTaken, IInv, TypeOK
      <4>2. QED
        BY <3>2, <4>1, <1>1, ClaimedValues
    <3>3. QED
      BY <3>1, <3>2
  <2>5. Claimed' = [Claimed EXCEPT ![s] = o]
    BY <1>2, <2>1, <2>3, <2>4
  <2>6. Registry!Claim(s, o)
    BY <2>2, <2>5 DEF Registry!Claim
  <2>7. QED
    BY <2>1, <2>6 DEF Registry!Next
<1>4. CASE ~ \E p \in Handlers, d \in Devices : CreateRow(p, d)
  <2>1. \A d \in Devices :
           /\ row'[d] # None <=> row[d] # None
           /\ row[d] # None => /\ row'[d].tenant = row[d].tenant
                               /\ row'[d].serial = row[d].serial
    BY <1>4, RowsKept
  <2>2. ASSUME NEW s \in Serials
        PROVE  Claimed'[s] = Claimed[s]
    <3>1. CASE SerialTaken(s)
      <4>1. PICK e \in Devices : row[e] # None /\ row[e].serial = s
        BY <3>1 DEF SerialTaken
      <4>2. QED
        BY <4>1, <2>1, <1>1, ClaimedValues
    <3>2. CASE ~SerialTaken(s)
      <4>1. ~SerialTaken(s)'
        BY <3>2, <2>1 DEF SerialTaken
      <4>2. QED
        BY <3>2, <4>1, <1>1, ClaimedValues
    <3>3. QED
      BY <3>1, <3>2
  <2>3. QED
    BY <2>2, <1>2
<1>5. QED
  BY <1>3, <1>4

\* The devices table implements the registry: claims are exclusive and permanent.
THEOREM ImplementsRegistry == Spec => RegistryImplemented
<1>1. Init => Registry!Init
  <2>1. ASSUME Init PROVE \A s \in Serials : ~SerialTaken(s)
    BY <2>1 DEF Init, SerialTaken
  <2>2. QED
    BY <2>1 DEF Registry!Init, Claimed
<1>2. QED
  BY <1>1, Invariance, StepRefines, PTL DEF Spec, Registry!Spec, RegistryImplemented

-----------------------------------------------------------------------------
(* The causes of stranded, pending and revived devices. *)

\* The server starts without rows, entries or handlers under way.
LEMMA InitCauses == Init => Causes
BY DEF Init, Causes, CopiesLive, EntryStoredOnce, ProvisionedWithoutEntry, WantsForced,
       DropsFollowWrites, StrandedRowsExplained, Saving

\* Every call of every handler, an expiry and a crash preserve the causes: a status, an
\* entry and a fingerprint are each written by one handler and undone by another.
LEMMA NextCauses == IInv /\ IInv' /\ Causes /\ [Next]_vars => Causes'
<1> SUFFICES ASSUME IInv, IInv', Causes, [Next]_vars PROVE Causes'
  OBVIOUS
<1> USE DEF Causes, Saving, Granted, IInv, EntriesMatchRows, HandlersTrackRows, TypeOK,
            Row, Statuses, Steps
<1>1. ASSUME NEW p \in Handlers, NEW t \in Tenants, NEW s \in Serials,
             RegisterDevice(p, t, s) \/ EnrollDevice(p, t, s)
      PROVE  Causes'
  <2> USE <1>1 DEF RegisterDevice, EnrollDevice, CheckSerial, Goto, Fault, stores, locals, history
  <2>1. CopiesLive' /\ EntryStoredOnce' /\ WantsForced'
    BY DEF CopiesLive, EntryStoredOnce, WantsForced, CopiesVouched, ProvisionedByOwner
  <2>2. ProvisionedWithoutEntry'
    BY DEF ProvisionedWithoutEntry, EntryStoredOnce, WantsForced, CopiesVouched,
           ProvisionedByOwner
  <2>3. DropsFollowWrites' /\ StrandedRowsExplained'
    BY DEF DropsFollowWrites, StrandedRowsExplained, CopiesLive, WantsForced
  <2>4. QED
    BY <2>1, <2>2, <2>3
<1>2. ASSUME NEW p \in Handlers, NEW d \in Devices, CreateRow(p, d)
      PROVE  Causes'
  <2> USE <1>2 DEF CreateRow, Goto, stores, locals, history
  <2>1. CopiesLive' /\ EntryStoredOnce' /\ WantsForced'
    BY DEF CopiesLive, EntryStoredOnce, WantsForced, CopiesVouched, ProvisionedByOwner
  <2>2. ProvisionedWithoutEntry'
    BY DEF ProvisionedWithoutEntry, EntryStoredOnce, WantsForced, CopiesVouched,
           ProvisionedByOwner
  <2>3. DropsFollowWrites' /\ StrandedRowsExplained'
    BY DEF DropsFollowWrites, StrandedRowsExplained, CopiesLive, WantsForced
  <2>4. QED
    BY <2>1, <2>2, <2>3
<1>3. ASSUME NEW p \in Handlers, CreateFails(p) \/ LoadFails(p) \/ SaveFails(p)
      PROVE  Causes'
  <2> USE <1>3 DEF CreateFails, LoadFails, SaveFails, Return, Fault, stores, locals, history
  <2>1. CopiesLive' /\ EntryStoredOnce' /\ WantsForced'
    BY DEF CopiesLive, EntryStoredOnce, WantsForced, CopiesVouched, ProvisionedByOwner
  <2>2. ProvisionedWithoutEntry'
    BY DEF ProvisionedWithoutEntry, EntryStoredOnce, WantsForced, CopiesVouched,
           ProvisionedByOwner
  <2>3. DropsFollowWrites' /\ StrandedRowsExplained'
    BY DEF DropsFollowWrites, StrandedRowsExplained, CopiesLive, WantsForced
  <2>4. QED
    BY <2>1, <2>2, <2>3
<1>4. ASSUME NEW p \in Handlers, StoreKey(p)
      PROVE  Causes'
  <2> USE <1>4 DEF StoreKey, Return, Fault, stores, locals, history
  <2>1. CopiesLive' /\ EntryStoredOnce' /\ WantsForced'
    BY DEF CopiesLive, EntryStoredOnce, WantsForced, CopiesVouched, ProvisionedByOwner
  <2>2. ProvisionedWithoutEntry'
    BY DEF ProvisionedWithoutEntry, EntryStoredOnce, WantsForced, CopiesVouched,
           ProvisionedByOwner
  <2>3. DropsFollowWrites' /\ StrandedRowsExplained'
    BY DEF DropsFollowWrites, StrandedRowsExplained, CopiesLive, WantsForced
  <2>4. QED
    BY <2>1, <2>2, <2>3
<1>5. ASSUME NEW p \in Handlers, DropFingerprint(p)
      PROVE  Causes'
  <2> USE <1>5 DEF DropFingerprint, Return, Fault, stores, locals, history
  <2>1. CopiesLive' /\ EntryStoredOnce' /\ WantsForced'
    BY DEF CopiesLive, EntryStoredOnce, WantsForced, CopiesVouched, ProvisionedByOwner
  <2>2. ProvisionedWithoutEntry'
    BY DEF ProvisionedWithoutEntry, EntryStoredOnce, WantsForced, CopiesVouched,
           ProvisionedByOwner
  <2>3. DropsFollowWrites' /\ StrandedRowsExplained'
    BY DEF DropsFollowWrites, StrandedRowsExplained, CopiesLive, WantsForced
  <2>4. QED
    BY <2>1, <2>2, <2>3
<1>6. ASSUME NEW p \in Handlers, StoreEnrollment(p)
      PROVE  Causes'
  <2> USE <1>6 DEF StoreEnrollment, Return, Fault, stores, locals, history
  <2>1. CopiesLive' /\ EntryStoredOnce' /\ WantsForced'
    BY DEF CopiesLive, EntryStoredOnce, WantsForced, CopiesVouched, ProvisionedByOwner
  <2>2. ProvisionedWithoutEntry'
    BY DEF ProvisionedWithoutEntry, EntryStoredOnce, WantsForced, CopiesVouched,
           ProvisionedByOwner
  <2>3. DropsFollowWrites' /\ StrandedRowsExplained'
    BY DEF DropsFollowWrites, StrandedRowsExplained, CopiesLive, WantsForced
  <2>4. QED
    BY <2>1, <2>2, <2>3
<1>7. ASSUME NEW p \in Handlers, NEW d \in Devices, NEW t \in Tenants,
             NEW answered \in BOOLEAN, ProvisionSecureElement(p, d, t, answered)
      PROVE  Causes'
  <2> USE <1>7 DEF ProvisionSecureElement, Matches, Goto, stores, locals, history
  <2>1. CopiesLive' /\ EntryStoredOnce' /\ WantsForced'
    BY DEF CopiesLive, EntryStoredOnce, WantsForced, CopiesVouched, ProvisionedByOwner
  <2>2. ProvisionedWithoutEntry'
    BY DEF ProvisionedWithoutEntry, EntryStoredOnce, WantsForced, CopiesVouched,
           ProvisionedByOwner
  <2>3. DropsFollowWrites' /\ StrandedRowsExplained'
    BY DEF DropsFollowWrites, StrandedRowsExplained, CopiesLive, WantsForced
  <2>4. QED
    BY <2>1, <2>2, <2>3
<1>8. ASSUME NEW p \in Handlers, LoadProvisioned(p)
      PROVE  Causes'
  <2> USE <1>8 DEF LoadProvisioned, Found, Goto, stores, locals, history
  <2>1. CopiesLive' /\ EntryStoredOnce' /\ WantsForced'
    BY DEF CopiesLive, EntryStoredOnce, WantsForced, CopiesVouched, ProvisionedByOwner
  <2>2. ProvisionedWithoutEntry'
    BY DEF ProvisionedWithoutEntry, EntryStoredOnce, WantsForced, CopiesVouched,
           ProvisionedByOwner
  <2>3. DropsFollowWrites' /\ StrandedRowsExplained'
    BY DEF DropsFollowWrites, StrandedRowsExplained, CopiesLive, WantsForced
  <2>4. QED
    BY <2>1, <2>2, <2>3
<1>9. ASSUME NEW p \in Handlers, SaveProvisioned(p)
      PROVE  Causes'
  <2> USE <1>9 DEF SaveProvisioned, SaveRow, Written, Goto, stores, locals, history
  <2>1. CopiesLive' /\ EntryStoredOnce' /\ WantsForced'
    BY DEF CopiesLive, EntryStoredOnce, WantsForced, CopiesVouched, ProvisionedByOwner
  <2>2. ProvisionedWithoutEntry'
    BY DEF ProvisionedWithoutEntry, EntryStoredOnce, WantsForced, CopiesVouched,
           ProvisionedByOwner
  <2>3. DropsFollowWrites' /\ StrandedRowsExplained'
    BY DEF DropsFollowWrites, StrandedRowsExplained, CopiesLive, WantsForced
  <2>4. QED
    BY <2>1, <2>2, <2>3
<1>10. ASSUME NEW p \in Handlers, DropEnrollment(p)
      PROVE  Causes'
  <2> USE <1>10 DEF DropEnrollment, Return, Fault, stores, locals, history
  <2>1. CopiesLive' /\ EntryStoredOnce' /\ WantsForced'
    BY DEF CopiesLive, EntryStoredOnce, WantsForced, CopiesVouched, ProvisionedByOwner
  <2>2. ProvisionedWithoutEntry'
    BY DEF ProvisionedWithoutEntry, EntryStoredOnce, WantsForced, CopiesVouched,
           ProvisionedByOwner
  <2>3. DropsFollowWrites' /\ StrandedRowsExplained'
    BY DEF DropsFollowWrites, StrandedRowsExplained, CopiesLive, WantsForced
  <2>4. QED
    BY <2>1, <2>2, <2>3
<1>11. ASSUME NEW p \in Handlers, NEW d \in Devices,
             NEW status \in UpdateStatuses \cup {None}, UpdateDevice(p, d, status)
      PROVE  Causes'
  <2> USE <1>11 DEF UpdateDevice, Found, Goto, stores, locals, history
  <2>1. CopiesLive' /\ EntryStoredOnce' /\ WantsForced'
    BY DEF CopiesLive, EntryStoredOnce, WantsForced, CopiesVouched, ProvisionedByOwner
  <2>2. ProvisionedWithoutEntry'
    BY DEF ProvisionedWithoutEntry, EntryStoredOnce, WantsForced, CopiesVouched,
           ProvisionedByOwner
  <2>3. DropsFollowWrites' /\ StrandedRowsExplained'
    BY DEF DropsFollowWrites, StrandedRowsExplained, CopiesLive, WantsForced
  <2>4. QED
    BY <2>1, <2>2, <2>3
<1>12. ASSUME NEW p \in Handlers, SaveUpdated(p)
      PROVE  Causes'
  <2> USE <1>12 DEF SaveUpdated, SaveRow, Written, Return, stores, locals, history
  <2>1. CopiesLive' /\ EntryStoredOnce' /\ WantsForced'
    BY DEF CopiesLive, EntryStoredOnce, WantsForced, CopiesVouched, ProvisionedByOwner
  <2>2. ProvisionedWithoutEntry'
    BY DEF ProvisionedWithoutEntry, EntryStoredOnce, WantsForced, CopiesVouched,
           ProvisionedByOwner
  <2>3. DropsFollowWrites' /\ StrandedRowsExplained'
    BY DEF DropsFollowWrites, StrandedRowsExplained, CopiesLive, WantsForced
  <2>4. QED
    BY <2>1, <2>2, <2>3
<1>13. ASSUME NEW p \in Handlers, NEW d \in Devices, DeleteDevice(p, d)
      PROVE  Causes'
  <2> USE <1>13, SoftDelete DEF DeleteDevice, Goto, stores, locals, history
  <2>1. CopiesLive' /\ EntryStoredOnce' /\ WantsForced'
    BY DEF CopiesLive, EntryStoredOnce, WantsForced, CopiesVouched, ProvisionedByOwner
  <2>2. ProvisionedWithoutEntry'
    BY DEF ProvisionedWithoutEntry, EntryStoredOnce, WantsForced, CopiesVouched,
           ProvisionedByOwner
  <2>3. DropsFollowWrites' /\ StrandedRowsExplained'
    BY DEF DropsFollowWrites, StrandedRowsExplained, CopiesLive, WantsForced
  <2>4. QED
    BY <2>1, <2>2, <2>3
<1>14. ASSUME NEW d \in Devices, StoreFingerprint(d) \/ Expire(d)
      PROVE  Causes'
  <2> USE <1>14 DEF StoreFingerprint, Expire, stores, locals, history
  <2>1. CopiesLive' /\ EntryStoredOnce' /\ WantsForced'
    BY DEF CopiesLive, EntryStoredOnce, WantsForced, CopiesVouched, ProvisionedByOwner
  <2>2. ProvisionedWithoutEntry'
    BY DEF ProvisionedWithoutEntry, EntryStoredOnce, WantsForced, CopiesVouched,
           ProvisionedByOwner
  <2>3. DropsFollowWrites' /\ StrandedRowsExplained'
    BY DEF DropsFollowWrites, StrandedRowsExplained, CopiesLive, WantsForced
  <2>4. QED
    BY <2>1, <2>2, <2>3
<1>15. ASSUME  Crash
      PROVE  Causes'
  <2> USE <1>15 DEF Crash, Fault, stores, locals, history
  <2>1. CopiesLive' /\ EntryStoredOnce' /\ WantsForced'
    BY DEF CopiesLive, EntryStoredOnce, WantsForced, CopiesVouched, ProvisionedByOwner
  <2>2. ProvisionedWithoutEntry'
    BY DEF ProvisionedWithoutEntry, EntryStoredOnce, WantsForced, CopiesVouched,
           ProvisionedByOwner
  <2>3. DropsFollowWrites' /\ StrandedRowsExplained'
    BY DEF DropsFollowWrites, StrandedRowsExplained, CopiesLive, WantsForced
  <2>4. QED
    BY <2>1, <2>2, <2>3
<1>16. CASE UNCHANGED vars
  BY <1>16 DEF vars, stores, locals, history, CopiesLive, EntryStoredOnce,
               ProvisionedWithoutEntry, WantsForced, DropsFollowWrites, StrandedRowsExplained
<1>17. QED
  BY <1>1, <1>2, <1>3, <1>4, <1>5, <1>6, <1>7, <1>8, <1>9, <1>10,
     <1>11, <1>12, <1>13, <1>14, <1>15, <1>16 DEF Next

\* The causes hold in every reachable state.
THEOREM CausesKnown == Spec => []Causes
<1>1. QED
  BY InitCauses, Invariance, NextCauses, PTL DEF Spec

\* A live device without an entry is stuck in "enrolled" only for a cause one can name.
THEOREM StrandedHasCause == Spec => []StrandedExplained
<1>1. Causes => StrandedExplained
  BY DEF Causes, StrandedRowsExplained, StrandedExplained, Found
<1>2. QED
  BY <1>1, CausesKnown, PTL

\* A provisioned device is reported "pending" only until its entry is dropped, after a
\* failure, or when an update asked for the status.
THEOREM PendingHasCause == Spec => []PendingExplained
<1>1. ASSUME Causes, IInv PROVE PendingExplained
  <2>1. SUFFICES ASSUME NEW d \in Devices, Found(d), row[d].status = "provisioned",
                        ProvisioningStatus(d) = "pending"
                 PROVE  \/ <<d, "provisioned">> \in forced
                        \/ faults > 0
                        \/ \E p \in Handlers : pc[p] = "uncache" /\ target[p] = d
    BY DEF PendingExplained
  <2>2. enrollment[d] # None
    BY <2>1 DEF ProvisioningStatus
  <2>3. QED
    BY <1>1, <2>1, <2>2 DEF Causes, ProvisionedWithoutEntry, Found
<1>2. Causes /\ IInv => PendingExplained
  BY <1>1
<1>3. QED
  BY <1>2, CausesKnown, Invariance, PTL

\* A step that brings a deleted row back is the Save of a live copy over it.
LEMMA RevivalIsSave ==
    ASSUME IInv, Causes, [Next]_vars, NEW d \in Devices,
           row[d] # None, row[d].deleted, ~row'[d].deleted
    PROVE  /\ d \in clobbered'
           /\ \E p \in Handlers : Saving(p, d) /\ ~copy[p].deleted
<1> USE DEF IInv, Causes
<1>1. ASSUME NEW p \in Handlers, SaveProvisioned(p) \/ SaveUpdated(p)
      PROVE  d \in clobbered' /\ Saving(p, d) /\ ~copy[p].deleted
  <2>1. pc[p] \in {"provision", "update"} /\ SaveRow(p)
    BY <1>1 DEF SaveProvisioned, SaveUpdated
  <2>2. target[p] \in Devices /\ ~copy[p].deleted
    BY <2>1 DEF HandlersTrackRows, CopiesLive, Steps
  <2>3. target[p] = d
    BY <2>1, <2>2 DEF SaveRow, TypeOK
  <2>4. QED
    BY <2>1, <2>2, <2>3 DEF SaveRow, Saving
<1>2. ASSUME NEW p \in Handlers, NEW e \in Devices, CreateRow(p, e) \/ DeleteDevice(p, e)
      PROVE  FALSE
  BY <1>2, SoftDelete DEF CreateRow, DeleteDevice, TypeOK
<1>3. CASE UNCHANGED row
  BY <1>3
<1>4. QED
  BY <1>1, <1>2, <1>3
     DEF Next, vars, stores, RegisterDevice, EnrollDevice, CheckSerial, CreateFails,
         StoreKey, StoreEnrollment, ProvisionSecureElement, LoadProvisioned, LoadFails,
         DropEnrollment, UpdateDevice, SaveFails, DropFingerprint, StoreFingerprint,
         Expire, Crash

\* Nothing but a Save of a copy read before the delete revives a device.
THEOREM RevivedOnlyBySave == Spec => RevivedOnlyByStaleSave
<1>1. ASSUME IInv, Causes, [Next]_vars
      PROVE  \A d \in Devices :
                row[d] # None /\ row[d].deleted /\ ~row'[d].deleted =>
                    /\ d \in clobbered'
                    /\ \E p \in Handlers : /\ pc[p] \in {"provision", "update"}
                                           /\ target[p] = d
                                           /\ ~copy[p].deleted
  BY <1>1, RevivalIsSave DEF Saving
<1>2. QED
  BY <1>1, Invariance, CausesKnown, PTL DEF Spec, RevivedOnlyByStaleSave

\* No live device loses its fingerprint that no stale Save has ever overwritten.
THEOREM FingerprintKept == Spec => FingerprintOutlivesRow
<1>1. ASSUME IInv, Causes, [Next]_vars
      PROVE  \A d \in fingerprints \ fingerprints' :
                row[d] # None /\ (row[d].deleted \/ d \in clobbered)
  <2>1. ASSUME NEW p \in Handlers, DropFingerprint(p), NEW d \in fingerprints \ fingerprints'
        PROVE  row[d] # None /\ (row[d].deleted \/ d \in clobbered)
    BY <1>1, <2>1 DEF DropFingerprint, IInv, HandlersTrackRows, Causes, DropsFollowWrites, Steps
  <2>2. CASE fingerprints \subseteq fingerprints'
    BY <2>2
  <2>3. QED
    BY <1>1, <2>1, <2>2
       DEF Next, vars, stores, RegisterDevice, EnrollDevice, CheckSerial, CreateRow,
           CreateFails, StoreKey, StoreEnrollment, ProvisionSecureElement, LoadProvisioned,
           LoadFails, SaveProvisioned, DropEnrollment, UpdateDevice, SaveUpdated, SaveRow,
           SaveFails, DeleteDevice, StoreFingerprint, Expire, Crash
<1>2. QED
  BY <1>1, Invariance, CausesKnown, PTL DEF Spec, FingerprintOutlivesRow

\* What a handler is about to save is the row as it stands, and so no Save was ever stale.
NothingStale ==
    /\ clobbered = {}
    /\ \A p \in Handlers : pc[p] \in {"provision", "update"} => copy[p] = row[target[p]]

\* DeletedStaysDeleted fails only for want of isolation: with one handler, that is when
\* requests are served one after the other, a deleted device stays deleted, whatever fails.
THEOREM DeletionFinalWhenSerial ==
    ASSUME \A p, q \in Handlers : p = q
    PROVE  Spec => DeletedStaysDeleted
<1>1. Init => NothingStale
  BY DEF Init, NothingStale
<1>2. IInv /\ NothingStale /\ [Next]_vars => NothingStale'
  <2> SUFFICES ASSUME IInv, NothingStale, [Next]_vars PROVE NothingStale'
    OBVIOUS
  <2> USE DEF NothingStale, IInv
  <2>1. ASSUME NEW p \in Handlers, SaveProvisioned(p) \/ SaveUpdated(p)
        PROVE  NothingStale'
    BY <2>1 DEF SaveProvisioned, SaveUpdated, SaveRow, Goto, Return, TypeOK, HandlersTrackRows
  <2>2. ASSUME NEW p \in Handlers, NEW d \in Devices, CreateRow(p, d) \/ DeleteDevice(p, d)
        PROVE  NothingStale'
    BY <2>2 DEF CreateRow, DeleteDevice, Goto, TypeOK, history
  <2>3. ASSUME NEW p \in Handlers, LoadProvisioned(p)
        PROVE  NothingStale'
    BY <2>3 DEF LoadProvisioned, Goto, TypeOK, stores, history
  <2>4. ASSUME NEW p \in Handlers, NEW d \in Devices, NEW status, UpdateDevice(p, d, status)
        PROVE  NothingStale'
    BY <2>4 DEF UpdateDevice, Goto, TypeOK, stores, history
  <2>5. ASSUME NEW p \in Handlers,
               pc' = [pc EXCEPT ![p] = "idle"] \/ pc'[p] \notin {"provision", "update"},
               row' = row, clobbered' = clobbered
        PROVE  NothingStale'
    BY <2>5 DEF TypeOK
  <2>6. CASE UNCHANGED <<row, pc, target, copy, clobbered>>
    BY <2>6
  <2>7. ASSUME Crash PROVE NothingStale'
    BY <2>7 DEF Crash, history
  <2>8. QED
    BY <2>1, <2>2, <2>3, <2>4, <2>5, <2>6, <2>7
       DEF Next, vars, stores, locals, history, RegisterDevice, EnrollDevice, CheckSerial,
           CreateFails, StoreKey, StoreEnrollment, ProvisionSecureElement, LoadFails,
           DropEnrollment, SaveFails, DropFingerprint, StoreFingerprint, Expire, Goto,
           Return, TypeOK
<1>3. ASSUME IInv, Causes, NothingStale', [Next]_vars
      PROVE  \A d \in Devices :
                row[d] # None /\ row[d].deleted => row'[d] # None /\ row'[d].deleted
  <2>1. \A d \in Devices : row[d] # None => row'[d] # None
    <3>1. ASSUME NEW p \in Handlers, NEW e \in Devices, NEW d \in Devices,
                 CreateRow(p, e), row[d] # None
          PROVE  row'[d] # None
      BY <1>3, <3>1 DEF CreateRow, IInv, TypeOK
    <3>2. QED
      BY <1>3, <3>1, RowsKept
  <2>2. QED
    BY <1>3, <2>1, RevivalIsSave DEF NothingStale
<1>4. QED
  BY <1>1, <1>2, <1>3, Invariance, CausesKnown, PTL DEF Spec, DeletedStaysDeleted

=============================================================================
