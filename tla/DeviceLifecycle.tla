-------------------------- MODULE DeviceLifecycle ---------------------------
(***************************************************************************)
(* The life of a device row: DeviceService (RegisterDevice, UpdateDevice,  *)
(* DeleteDevice) and ProvisioningService (EnrollDevice,                    *)
(* ProvisionSecureElement) run concurrently over the devices table, the    *)
(* enrollment entries in Redis, the api_keys table and the fingerprints    *)
(* in Qdrant.  None of them opens a transaction: a handler is a sequence   *)
(* of single calls, and everything may happen between two of them.         *)
(***************************************************************************)
EXTENDS Naturals, FiniteSets

CONSTANTS Handlers,        \* the goroutines that serve requests
          Devices,         \* the ids gen_random_uuid() may draw
          Serials, Tenants,
          UpdateStatuses,  \* the statuses an UpdateDevice request may ask for
          None,            \* a missing row, entry, id or request field
          MaxFaults        \* bound: failed calls and crashes in a behaviour

Statuses == {"active", "enrolled", "provisioned"} \cup UpdateStatuses

\* The statuses the provisioning service grants; an update may ask for them all the same.
Granted == {"enrolled", "provisioned"}

\* models.Device: the columns the services read or write.
Row == [tenant : Tenants, serial : Serials, status : Statuses, deleted : BOOLEAN]

ASSUME NoneAssumption ==
    /\ None \notin Row
    /\ None \notin Devices
    /\ None \notin Tenants
    /\ None \notin Statuses

ASSUME FaultsAssumption == MaxFaults \in Nat

VARIABLES
    row,          \* devices table: id -> row, soft-deleted rows included
    enrollment,   \* Redis "enrollment:<id>": the tenant stored in the entry
    apiKeys,      \* api_keys table: <<tenant, serial>> of the key's name
    fingerprints, \* Qdrant: the devices with a point
    pc,           \* handler -> the call it makes next
    target,       \* handler -> the device id it works on
    copy,         \* handler -> the row it has built or read
    want,         \* handler -> the status it will write, None to keep it
    faults,       \* failed calls and crashes so far
    vouched,      \* history: the tenant whose challenge response was accepted
    forced,       \* history: <<device, status>> an update asked for, of the Granted ones
    expired,      \* history: devices whose enrollment entry lapsed
    clobbered     \* history: devices a Save of a stale copy has overwritten

stores  == <<row, enrollment, apiKeys, fingerprints>>
locals  == <<pc, target, copy, want>>
history == <<vouched, forced, expired, clobbered>>
vars    == <<stores, locals, faults, history>>

Steps == {"idle", "create", "key", "cache", "load", "provision", "uncache",
          "update", "unindex"}

-----------------------------------------------------------------------------
(* The stores, as their clients see them. *)

\* GetByID: gorm adds "deleted_at IS NULL" to every query.
Found(d) == row[d] # None /\ ~row[d].deleted

\* SearchBySerialNumber finds a live row of this tenant.
SerialFound(t, s) ==
    \E d \in Devices : Found(d) /\ row[d].serial = s /\ row[d].tenant = t

\* Mutant: a partial unique index, over the rows that are not deleted.
SerialTakenLive(s) == \E d \in Devices : Found(d) /\ row[d].serial = s

\* The unique index on serial_number spans tenants and soft-deleted rows.
SerialTaken(s) == \E d \in Devices : row[d] # None /\ row[d].serial = s

Goto(p, step) == pc' = [pc EXCEPT ![p] = step]

\* Return to the caller: the handler's locals are gone.
Return(p) ==
    /\ pc'     = [pc EXCEPT ![p] = "idle"]
    /\ target' = [target EXCEPT ![p] = None]
    /\ copy'   = [copy EXCEPT ![p] = None]
    /\ want'   = [want EXCEPT ![p] = None]

\* A call to PostgreSQL, Redis or Qdrant returns an error.
Fault == faults < MaxFaults /\ faults' = faults + 1

-----------------------------------------------------------------------------
Init ==
    /\ row          = [d \in Devices |-> None]
    /\ enrollment   = [d \in Devices |-> None]
    /\ apiKeys      = {}
    /\ fingerprints = {}
    /\ pc           = [p \in Handlers |-> "idle"]
    /\ target       = [p \in Handlers |-> None]
    /\ copy         = [p \in Handlers |-> None]
    /\ want         = [p \in Handlers |-> None]
    /\ faults       = 0
    /\ vouched      = [d \in Devices |-> None]
    /\ forced       = {}
    /\ expired      = {}
    /\ clobbered    = {}

(* RegisterDevice and EnrollDevice: look the serial up, then insert.  An   *)
(* error of the lookup counts as "no such device".                         *)

\* Mutant: the key is stored before the insert has succeeded.
CheckSerialKeyFirst(p, t, s, status) ==
    /\ pc[p] = "idle"
    /\ ~SerialFound(t, s)
    /\ apiKeys' = apiKeys \cup {<<t, s>>}
    /\ copy' = [copy EXCEPT ![p] =
                  [tenant |-> t, serial |-> s, status |-> status, deleted |-> FALSE]]
    /\ Goto(p, "create")
    /\ UNCHANGED <<row, enrollment, fingerprints, target, want, faults, history>>

CheckSerial(p, t, s, status) ==
    /\ pc[p] = "idle"
    /\ \/ ~SerialFound(t, s) /\ UNCHANGED faults
       \/ SerialFound(t, s) /\ Fault
    /\ copy' = [copy EXCEPT ![p] =
                  [tenant |-> t, serial |-> s, status |-> status, deleted |-> FALSE]]
    /\ Goto(p, "create")
    /\ UNCHANGED <<stores, target, want, history>>

RegisterDevice(p, t, s) == CheckSerial(p, t, s, "active")
EnrollDevice(p, t, s)   == CheckSerial(p, t, s, "enrolled")

\* Mutant: the insert upserts on a conflicting serial number.
CreateRowUpserts(p, d) ==
    /\ pc[p] = "create"
    /\ IF SerialTaken(copy[p].serial)
       THEN row[d] # None /\ row[d].serial = copy[p].serial
       ELSE row[d] = None
    /\ row' = [row EXCEPT ![d] = copy[p]]
    /\ target' = [target EXCEPT ![p] = d]
    /\ Goto(p, IF copy[p].status = "active" THEN "key" ELSE "cache")
    /\ UNCHANGED <<enrollment, apiKeys, fingerprints, copy, want, faults, history>>

CreateRow(p, d) ==
    /\ pc[p] = "create"
    /\ row[d] = None
    /\ ~SerialTaken(copy[p].serial)
    /\ row' = [row EXCEPT ![d] = copy[p]]
    /\ target' = [target EXCEPT ![p] = d]
    /\ Goto(p, IF copy[p].status = "active" THEN "key" ELSE "cache")
    /\ UNCHANGED <<enrollment, apiKeys, fingerprints, copy, want, faults, history>>

\* The insert violates the unique index, or fails: the request fails.
CreateFails(p) ==
    /\ pc[p] = "create"
    /\ \/ SerialTaken(copy[p].serial) /\ UNCHANGED faults
       \/ Fault
    /\ Return(p)
    /\ UNCHANGED <<stores, history>>

\* RegisterDevice's last step: an unstored key is logged and returned all the same.
StoreKey(p) ==
    /\ pc[p] = "key"
    /\ \/ /\ apiKeys' = apiKeys \cup {<<copy[p].tenant, copy[p].serial>>}
          /\ UNCHANGED faults
       \/ Fault /\ UNCHANGED apiKeys
    /\ Return(p)
    /\ UNCHANGED <<row, enrollment, fingerprints, history>>

\* EnrollDevice's last step: an unstored entry is logged and the token returned.
StoreEnrollment(p) ==
    /\ pc[p] = "cache"
    /\ \/ /\ enrollment' = [enrollment EXCEPT ![target[p]] = copy[p].tenant]
          /\ UNCHANGED faults
       \/ Fault /\ UNCHANGED enrollment
    /\ Return(p)
    /\ UNCHANGED <<row, apiKeys, fingerprints, history>>

(* ProvisionSecureElement: read the entry, check tenant and response, then *)
(* load the row, save it as provisioned, and drop the entry.               *)

\* Mutant: the tenant of the entry is not compared.
MatchesAnyTenant(d, t, answered) == enrollment[d] # None /\ answered

Matches(d, t, answered) == enrollment[d] = t /\ answered

\* Mutant: the entry is dropped on the way in, like a one-time token.
ProvisionConsumesEntry(p, d, t, answered) ==
    /\ pc[p] = "idle"
    /\ Matches(d, t, answered)
    /\ enrollment' = [enrollment EXCEPT ![d] = None]
    /\ target'  = [target EXCEPT ![p] = d]
    /\ vouched' = [vouched EXCEPT ![d] = t]
    /\ Goto(p, "load")
    /\ UNCHANGED <<row, apiKeys, fingerprints, copy, want, faults, forced, expired, clobbered>>

ProvisionSecureElement(p, d, t, answered) ==
    /\ pc[p] = "idle"
    /\ Matches(d, t, answered)
    /\ target'  = [target EXCEPT ![p] = d]
    /\ vouched' = [vouched EXCEPT ![d] = t]
    /\ Goto(p, "load")
    /\ UNCHANGED <<stores, copy, want, faults, forced, expired, clobbered>>

LoadProvisioned(p) ==
    /\ pc[p] = "load"
    /\ Found(target[p])
    /\ copy' = [copy EXCEPT ![p] = row[target[p]]]
    /\ want' = [want EXCEPT ![p] = "provisioned"]
    /\ Goto(p, "provision")
    /\ UNCHANGED <<stores, target, faults, history>>

LoadFails(p) ==
    /\ pc[p] = "load"
    /\ \/ ~Found(target[p]) /\ UNCHANGED faults
       \/ Fault
    /\ Return(p)
    /\ UNCHANGED <<stores, history>>

Written(p) ==
    IF want[p] = None THEN copy[p] ELSE [copy[p] EXCEPT !.status = want[p]]

\* gorm's Save writes every column of the copy; when the row was soft-deleted
\* meanwhile the UPDATE matches nothing and Save upserts, deleted_at included.
SaveRow(p) ==
    /\ row' = [row EXCEPT ![target[p]] = Written(p)]
    /\ clobbered' = IF row[target[p]] = copy[p] THEN clobbered
                    ELSE clobbered \cup {target[p]}
    /\ UNCHANGED <<enrollment, apiKeys, fingerprints, faults, vouched, forced, expired>>

SaveProvisioned(p) ==
    /\ pc[p] = "provision"
    /\ SaveRow(p)
    /\ Goto(p, "uncache")
    /\ UNCHANGED <<target, copy, want>>

\* Mutant: the entry is left to its expiry.
DropNothing(p) ==
    /\ pc[p] = "uncache"
    /\ Return(p)
    /\ UNCHANGED <<stores, faults, history>>

\* The result of the Del is not looked at.
DropEnrollment(p) ==
    /\ pc[p] = "uncache"
    /\ \/ /\ enrollment' = [enrollment EXCEPT ![target[p]] = None]
          /\ UNCHANGED faults
       \/ Fault /\ UNCHANGED enrollment
    /\ Return(p)
    /\ UNCHANGED <<row, apiKeys, fingerprints, history>>

\* Mutant: the error of GetByID is not looked at.
UpdateDeviceUnchecked(p, d, status) ==
    /\ pc[p] = "idle"
    /\ target' = [target EXCEPT ![p] = d]
    /\ copy'   = [copy EXCEPT ![p] = row[d]]
    /\ want'   = [want EXCEPT ![p] = status]
    /\ forced' = IF status \in Granted THEN forced \cup {<<d, status>>} ELSE forced
    /\ Goto(p, "update")
    /\ UNCHANGED <<stores, faults, vouched, expired, clobbered>>

\* UpdateDevice: GetByID, then the fields the request names.
UpdateDevice(p, d, status) ==
    /\ pc[p] = "idle"
    /\ Found(d)
    /\ target' = [target EXCEPT ![p] = d]
    /\ copy'   = [copy EXCEPT ![p] = row[d]]
    /\ want'   = [want EXCEPT ![p] = status]
    /\ forced' = IF status \in Granted THEN forced \cup {<<d, status>>} ELSE forced
    /\ Goto(p, "update")
    /\ UNCHANGED <<stores, faults, vouched, expired, clobbered>>

SaveUpdated(p) ==
    /\ pc[p] = "update"
    /\ SaveRow(p)
    /\ Return(p)

SaveFails(p) ==
    /\ pc[p] \in {"provision", "update"}
    /\ Fault
    /\ Return(p)
    /\ UNCHANGED <<stores, history>>

\* Mutant: the row goes for good (Unscoped).
DeleteDeviceHard(p, d) ==
    /\ pc[p] = "idle"
    /\ row[d] # None
    /\ row' = [row EXCEPT ![d] = None]
    /\ target' = [target EXCEPT ![p] = d]
    /\ Goto(p, "unindex")
    /\ UNCHANGED <<enrollment, apiKeys, fingerprints, copy, want, faults, history>>

\* Mutant: the fingerprint goes first, the row afterwards.
DeleteDeviceIndexFirst(p, d) ==
    /\ pc[p] = "idle"
    /\ row[d] # None
    /\ fingerprints' = fingerprints \ {d}
    /\ target' = [target EXCEPT ![p] = d]
    /\ Goto(p, "unindex")
    /\ UNCHANGED <<row, enrollment, apiKeys, copy, want, faults, history>>

\* DeleteDevice: soft-delete (no error when nothing matches), then Qdrant.
SoftDeleted(r) == [r EXCEPT !.deleted = TRUE]

DeleteDevice(p, d) ==
    /\ pc[p] = "idle"
    /\ row[d] # None
    /\ row' = [row EXCEPT ![d] = SoftDeleted(row[d])]
    /\ target' = [target EXCEPT ![p] = d]
    /\ Goto(p, "unindex")
    /\ UNCHANGED <<enrollment, apiKeys, fingerprints, copy, want, faults, history>>

\* A failure leaves the fingerprint behind: it is logged and the delete succeeds.
DropFingerprint(p) ==
    /\ pc[p] = "unindex"
    /\ \/ fingerprints' = fingerprints \ {target[p]} /\ UNCHANGED faults
       \/ Fault /\ UNCHANGED fingerprints
    /\ Return(p)
    /\ UNCHANGED <<row, enrollment, apiKeys, history>>

\* VectorService.StoreFingerprint, for any device id its caller has seen.
StoreFingerprint(d) ==
    /\ row[d] # None
    /\ fingerprints' = fingerprints \cup {d}
    /\ UNCHANGED <<row, enrollment, apiKeys, locals, faults, history>>

-----------------------------------------------------------------------------
(* The environment. *)

\* The 30 minutes of an enrollment entry are over.
Expire(d) ==
    /\ enrollment[d] # None
    /\ enrollment' = [enrollment EXCEPT ![d] = None]
    /\ expired' = expired \cup {d}
    /\ UNCHANGED <<row, apiKeys, fingerprints, locals, faults, vouched, forced, clobbered>>

\* The server dies between two calls; the stores survive it.
Crash ==
    /\ Fault
    /\ \E p \in Handlers : pc[p] # "idle"
    /\ pc'     = [p \in Handlers |-> "idle"]
    /\ target' = [p \in Handlers |-> None]
    /\ copy'   = [p \in Handlers |-> None]
    /\ want'   = [p \in Handlers |-> None]
    /\ UNCHANGED <<stores, history>>

Next ==
    \/ \E p \in Handlers :
        \/ \E t \in Tenants, s \in Serials :
               RegisterDevice(p, t, s) \/ EnrollDevice(p, t, s)
        \/ \E d \in Devices : CreateRow(p, d) \/ DeleteDevice(p, d)
        \/ \E d \in Devices, t \in Tenants, answered \in BOOLEAN :
               ProvisionSecureElement(p, d, t, answered)
        \/ \E d \in Devices, status \in UpdateStatuses \cup {None} :
               UpdateDevice(p, d, status)
        \/ CreateFails(p) \/ StoreKey(p) \/ StoreEnrollment(p)
        \/ LoadProvisioned(p) \/ LoadFails(p) \/ SaveProvisioned(p)
        \/ DropEnrollment(p) \/ SaveUpdated(p) \/ SaveFails(p)
        \/ DropFingerprint(p)
    \/ \E d \in Devices : StoreFingerprint(d) \/ Expire(d)
    \/ Crash

Spec == Init /\ [][Next]_vars

-----------------------------------------------------------------------------
(* Properties. *)

\* Every variable has its type; a handler that is about to write has a row in hand.
TypeOK ==
    /\ row \in [Devices -> Row \cup {None}]
    /\ enrollment \in [Devices -> Tenants \cup {None}]
    /\ apiKeys \subseteq Tenants \X Serials
    /\ fingerprints \subseteq Devices
    /\ pc \in [Handlers -> Steps]
    /\ target \in [Handlers -> Devices \cup {None}]
    /\ copy \in [Handlers -> Row \cup {None}]
    /\ want \in [Handlers -> Statuses \cup {None}]
    /\ faults \in 0..MaxFaults
    /\ vouched \in [Devices -> Tenants \cup {None}]
    /\ forced \subseteq Devices \X Granted
    /\ expired \subseteq Devices
    /\ clobbered \subseteq Devices
    /\ \A p \in Handlers :
          pc[p] \in {"create", "key", "cache", "provision", "update"} => copy[p] \in Row

\* Whatever registrations and enrollments race, and whatever a stale Save brings
\* back, no two rows (soft-deleted ones included) carry the same serial number.
SerialUnique ==
    \A d, e \in Devices :
        row[d] # None /\ row[e] # None /\ row[d].serial = row[e].serial => d = e

\* A device is called provisioned only after a provisioning request of the tenant
\* that owns it answered the challenge, or because an update asked for that status.
ProvisionedByOwner ==
    \A d \in Devices :
        row[d] # None /\ row[d].status = "provisioned" /\ <<d, "provisioned">> \notin forced
            => vouched[d] = row[d].tenant

\* A live device is stuck in "enrolled" with no enrollment entry, and can then neither
\* be provisioned nor enrolled again, only if its entry lapsed, a call failed, a stale
\* Save overwrote its row, an update asked for that status, or the handler that stores
\* the entry is under way.
StrandedExplained ==
    \A d \in Devices :
        Found(d) /\ row[d].status = "enrolled" /\ enrollment[d] = None =>
            \/ d \in expired \cup clobbered
            \/ <<d, "enrolled">> \in forced
            \/ faults > 0
            \/ \E p \in Handlers : pc[p] = "cache" /\ target[p] = d

\* GetProvisioningStatus: an entry in Redis outweighs the row.
ProvisioningStatus(d) ==
    IF enrollment[d] # None THEN "pending"
    ELSE IF Found(d) THEN row[d].status ELSE "not found"

\* A provisioned device is reported "pending" only while the handler that provisioned
\* it has yet to drop the entry, after a failure, or if an update forced the status.
PendingExplained ==
    \A d \in Devices :
        Found(d) /\ row[d].status = "provisioned" /\ ProvisioningStatus(d) = "pending" =>
            \/ <<d, "provisioned">> \in forced
            \/ faults > 0
            \/ \E p \in Handlers : pc[p] = "uncache" /\ target[p] = d

\* An API key names a serial number its own tenant has registered, and with it a
\* claim nobody else can take: no key outlives or precedes its device's row.
KeysRegistered ==
    \A k \in apiKeys : \E d \in Devices :
        row[d] # None /\ row[d].tenant = k[1] /\ row[d].serial = k[2]

\* A soft-deleted device becomes visible again only through a Save of a copy read
\* before the delete; no registration, enrollment or retry revives it.
RevivedOnlyByStaleSave ==
    [][\A d \in Devices :
         row[d] # None /\ row[d].deleted /\ ~row'[d].deleted =>
            /\ d \in clobbered'
            /\ \E p \in Handlers : /\ pc[p] \in {"provision", "update"}
                                   /\ target[p] = d
                                   /\ ~copy[p].deleted]_vars

\* A live device keeps its fingerprint: one is dropped only when its row is soft-deleted, or
\* has been overwritten by the Save of a stale copy, which is how a row that was deleted
\* first can be live again by then.  (Of a device that was overwritten at any time before,
\* nothing is said.)
FingerprintOutlivesRow ==
    [][\A d \in fingerprints \ fingerprints' :
         row[d] # None /\ (row[d].deleted \/ d \in clobbered)]_vars

\* "Verify device is no longer accessible after deletion".
DeletedStaysDeleted ==
    [][\A d \in Devices :
         row[d] # None /\ row[d].deleted => row'[d] # None /\ row'[d].deleted]_vars

-----------------------------------------------------------------------------
(* The inductive invariant behind the safety properties. *)

\* A handler that works on a device works on a row, and the identity columns of the
\* copy it holds are that row's: no write changes a tenant or a serial number.
HandlersTrackRows ==
    \A p \in Handlers :
        /\ pc[p] \in Steps \ {"idle", "create"} =>
              target[p] \in Devices /\ row[target[p]] # None
        /\ pc[p] \in {"key", "cache", "provision", "update"} =>
              /\ copy[p].tenant = row[target[p]].tenant
              /\ copy[p].serial = row[target[p]].serial
        /\ pc[p] = "create" => copy[p].status \in {"active", "enrolled"}

\* An enrollment entry belongs to a device of the tenant it names.
EntriesMatchRows ==
    \A d \in Devices :
        enrollment[d] # None => row[d] # None /\ row[d].tenant = enrollment[d]

\* A copy that says, or will say, "provisioned" is as well founded as such a row.
CopiesVouched ==
    \A p \in Handlers :
        /\ pc[p] \in {"load", "provision"} =>
              vouched[target[p]] = row[target[p]].tenant
        /\ pc[p] \in {"provision", "update"} /\ copy[p].status = "provisioned" =>
              \/ <<target[p], "provisioned">> \in forced
              \/ vouched[target[p]] = row[target[p]].tenant
        /\ pc[p] = "update" /\ want[p] = "provisioned" => <<target[p], "provisioned">> \in forced

IInv ==
    /\ TypeOK
    /\ SerialUnique
    /\ HandlersTrackRows
    /\ EntriesMatchRows
    /\ CopiesVouched
    /\ ProvisionedByOwner
    /\ KeysRegistered

-----------------------------------------------------------------------------
(* What adds the causes of stranded, pending and revived devices to it. *)

\* What a handler is about to save was live when it was read.
CopiesLive ==
    \A p \in Handlers : pc[p] \in {"provision", "update"} => ~copy[p].deleted

\* The entry of a device is stored once, by the handler that enrolled it, and nobody is
\* vouched for or provisioned before.
EntryStoredOnce ==
    /\ \A d \in Devices : row[d] = None => vouched[d] = None
    /\ \A p \in Handlers : pc[p] = "cache" =>
          /\ enrollment[target[p]] = None
          /\ vouched[target[p]] = None
          /\ \A q \in Handlers \ {p} : ~(pc[q] = "cache" /\ target[q] = target[p])

Saving(p, d) == pc[p] \in {"provision", "update"} /\ target[p] = d

\* Once a row, or a copy that may still be saved, says "provisioned", the entry is gone or
\* about to go.
ProvisionedWithoutEntry ==
    \A d \in Devices :
        /\ row[d] # None
        /\ \/ row[d].status = "provisioned"
           \/ \E p \in Handlers : Saving(p, d) /\ copy[p].status = "provisioned"
        => \/ enrollment[d] = None
           \/ <<d, "provisioned">> \in forced
           \/ faults > 0
           \/ \E p \in Handlers : pc[p] = "uncache" /\ target[p] = d

\* A status an update will write has been asked for.
WantsForced ==
    \A p \in Handlers :
        pc[p] = "update" /\ want[p] \in Granted => <<target[p], want[p]>> \in forced

\* Whoever is about to drop an entry or a fingerprint has provisioned or deleted the row,
\* and only a stale Save or an update has undone that since.
DropsFollowWrites ==
    \A p \in Handlers :
        /\ pc[p] = "provision" => want[p] = "provisioned"
        /\ pc[p] = "uncache" /\ row[target[p]].status = "enrolled" =>
              target[p] \in clobbered \/ <<target[p], "enrolled">> \in forced
        /\ pc[p] = "unindex" => row[target[p]].deleted \/ target[p] \in clobbered

\* A row without an entry that says "enrolled" (deleted or not) has a cause.
StrandedRowsExplained ==
    \A d \in Devices :
        row[d] # None /\ row[d].status = "enrolled" /\ enrollment[d] = None =>
            \/ d \in expired \cup clobbered
            \/ <<d, "enrolled">> \in forced
            \/ faults > 0
            \/ \E p \in Handlers : pc[p] = "cache" /\ target[p] = d

Causes ==
    /\ CopiesLive
    /\ EntryStoredOnce
    /\ ProvisionedWithoutEntry
    /\ WantsForced
    /\ DropsFollowWrites
    /\ StrandedRowsExplained

-----------------------------------------------------------------------------
(* The registry of serial numbers the table implements. *)

OwnerOf(d) == <<d, row[d].tenant>>

Claimed ==
    [s \in Serials |->
        IF SerialTaken(s)
        THEN OwnerOf(CHOOSE d \in Devices : row[d] # None /\ row[d].serial = s)
        ELSE None]

Registry == INSTANCE SerialRegistry
                WITH Owners <- Devices \X Tenants, Nobody <- None, claim <- Claimed

\* The table implements the registry: a serial number is claimed once, for ever.
RegistryImplemented == Registry!Spec

=============================================================================
