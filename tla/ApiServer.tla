----------------------------- MODULE ApiServer ------------------------------
(***************************************************************************)
(* The HTTP server as NewRouter wires it.  A request passes the token      *)
(* checks, the rate limit in Redis and then one inline handler, a single   *)
(* statement on PostgreSQL; the audit row is inserted by a goroutine that  *)
(* outlives the response and that nobody waits for.  A row that a request  *)
(* inserts is named after the request.                                     *)
(***************************************************************************)
EXTENDS Naturals, FiniteSets

CONSTANTS Requests,        \* requests to the routes behind the middleware
          Clients,         \* RemoteAddr: a client's address and port
          Serials,
          UpdateStatuses,  \* the statuses an update may ask for
          Limit,           \* requests a client may make in the life of its counter
          None,            \* no row, no status in the request
          MaxFaults        \* bound: failed calls and crashes in a behaviour

ASSUME LimitAssumption == Limit \in Nat \ {0} /\ MaxFaults \in Nat

VARIABLES
    stage,     \* request -> the middleware or handler it has reached
    client,    \* request -> the client it came from
    code,      \* request -> the status code it was answered, 0 before
    count,     \* Redis "ratelimit:<client>", 0 when there is no such key
    ttl,       \* the clients whose counter has an expiry
    admitted,  \* history: client -> requests let through since its counter was born
    devices,   \* devices table: the inserting request -> row
    records,   \* attestation_records and proof_records: inserting request -> status
    audited,   \* audit_logs: the requests with a row
    faults     \* failed calls and crashes so far

vars == <<stage, client, code, count, ttl, admitted, devices, records, audited, faults>>

tables == <<devices, records, audited>>
redis  == <<count, ttl, admitted>>

Stages == {"new", "count", "expire", "serve", "audit", "end", "killed"}
Codes  == {0, 200, 201, 400, 401, 403, 404, 429, 500}

Device == [serial : Serials, status : {"active", "provisioned"} \cup UpdateStatuses,
           deleted : BOOLEAN]

ASSUME NoneAssumption == None \notin Device /\ None \notin {"pending", "generated"}

Fault == faults < MaxFaults /\ faults' = faults + 1

Goto(r, s)  == stage' = [stage EXCEPT ![r] = s]
Answer(r, c) == code' = [code EXCEPT ![r] = c]

Init ==
    /\ stage    = [r \in Requests |-> "new"]
    /\ client   \in [Requests -> Clients]
    /\ code     = [r \in Requests |-> 0]
    /\ count    = [c \in Clients |-> 0]
    /\ ttl      = {}
    /\ admitted = [c \in Clients |-> 0]
    /\ devices  = [r \in Requests |-> None]
    /\ records  = [r \in Requests |-> None]
    /\ audited  = {}
    /\ faults   = 0

-----------------------------------------------------------------------------
(* The middleware. *)

\* AuthMiddleware and TenantMiddleware: a refusal consumes no quota and is not audited.
Authenticate(r, token) ==
    /\ stage[r] = "new"
    /\ \/ token = "valid" /\ Goto(r, "count") /\ UNCHANGED code
       \/ token = "invalid" /\ Goto(r, "end") /\ Answer(r, 401)
       \/ token = "tenantless" /\ Goto(r, "end") /\ Answer(r, 403)
    /\ UNCHANGED <<client, redis, tables, faults>>

Admit(r) == admitted' = [admitted EXCEPT ![client[r]] = @ + 1]

\* Mutant: the request that reaches the limit and one more are let through.
CountRequestLate(r) ==
    /\ stage[r] = "count"
    /\ LET n == count[client[r]] + 1
       IN  /\ count' = [count EXCEPT ![client[r]] = n]
           /\ \/ n > Limit + 1 /\ Goto(r, "end") /\ Answer(r, 429) /\ UNCHANGED admitted
              \/ /\ n <= Limit + 1
                 /\ Goto(r, IF n = 1 THEN "expire" ELSE "serve")
                 /\ Admit(r)
                 /\ UNCHANGED code
    /\ UNCHANGED <<client, ttl, tables, faults>>

\* Mutant: the expiry is left to the request that finds the counter at its limit.
CountRequestNoExpiry(r) ==
    /\ stage[r] = "count"
    /\ count' = [count EXCEPT ![client[r]] = @ + 1]
    /\ IF count'[client[r]] > Limit
       THEN Goto(r, "end") /\ Answer(r, 429) /\ UNCHANGED admitted
       ELSE Goto(r, "serve") /\ Admit(r) /\ UNCHANGED code
    /\ UNCHANGED <<client, ttl, tables, faults>>

\* RateLimitMiddleware's INCR.  When Redis fails the request is let through uncounted.
CountRequest(r) ==
    /\ stage[r] = "count"
    /\ LET n == count[client[r]] + 1
       IN  \/ /\ count' = [count EXCEPT ![client[r]] = n]
              /\ \/ n > Limit /\ Goto(r, "end") /\ Answer(r, 429) /\ UNCHANGED admitted
                 \/ /\ n <= Limit
                    /\ Goto(r, IF n = 1 THEN "expire" ELSE "serve")
                    /\ Admit(r)
                    /\ UNCHANGED code
              /\ UNCHANGED faults
           \/ Fault /\ Goto(r, "serve") /\ UNCHANGED <<code, count, admitted>>
    /\ UNCHANGED <<client, ttl, tables>>

\* The INCR takes effect and its reply is lost: the client library tries again, so that
\* a request is counted twice, or gives up, and the request is let through.
LoseReply(r) ==
    /\ stage[r] = "count"
    /\ count' = [count EXCEPT ![client[r]] = @ + 1]
    /\ Fault
    /\ \/ UNCHANGED stage
       \/ Goto(r, "serve")
    /\ UNCHANGED <<client, code, ttl, admitted, tables>>

\* The EXPIRE of the first request; its result is not looked at.
SetExpiry(r) ==
    /\ stage[r] = "expire"
    /\ \/ ttl' = ttl \cup {client[r]} /\ UNCHANGED faults
       \/ Fault /\ UNCHANGED ttl
    /\ Goto(r, "serve")
    /\ UNCHANGED <<client, code, count, admitted, tables>>

\* Mutant: only a refused or failed request is written to the audit log.
AuditErrorsOnly(r) ==
    /\ stage[r] = "audit"
    /\ audited' = IF code[r] >= 400 THEN audited \cup {r} ELSE audited
    /\ Goto(r, "end")
    /\ UNCHANGED <<client, code, redis, devices, records, faults>>

\* AuditMiddleware's goroutine, after the response; an error is dropped.
Audit(r) ==
    /\ stage[r] = "audit"
    /\ \/ audited' = audited \cup {r} /\ UNCHANGED faults
       \/ Fault /\ UNCHANGED audited
    /\ Goto(r, "end")
    /\ UNCHANGED <<client, code, redis, devices, records>>

-----------------------------------------------------------------------------
(* The handlers.  Each answers and leaves the audit goroutine behind. *)

Serve(r, c) ==
    /\ stage[r] = "serve"
    /\ Goto(r, "audit")
    /\ Answer(r, c)
    /\ UNCHANGED <<client, redis, audited>>

SerialTaken(s) == \E d \in Requests : devices[d] # None /\ devices[d].serial = s

\* createDevice and enrollDevice; the unique index is the only check of the serial.
InsertDevice(r, s, status) ==
    \/ /\ ~SerialTaken(s)
       /\ devices' = [devices EXCEPT ![r] =
                        [serial |-> s, status |-> status, deleted |-> FALSE]]
       /\ Serve(r, 201)
       /\ UNCHANGED <<records, faults>>
    \/ SerialTaken(s) /\ Serve(r, 500) /\ UNCHANGED <<devices, records, faults>>

CreateDevice(r, s) == InsertDevice(r, s, "active")
EnrollDevice(r, s) == InsertDevice(r, s, "provisioned")

Live(d) == devices[d] # None /\ ~devices[d].deleted

\* The handler answers and writes nothing.
Answered(r, c) == Serve(r, c) /\ UNCHANGED <<devices, records, faults>>

\* A body that cannot be decoded, an id that is no UUID.
Refuse(r) == Answered(r, 400) \/ Answered(r, 500)

\* Any error of the query, not only a missing row, is answered 404.
Lookup(r, found) ==
    \/ Answered(r, IF found THEN 200 ELSE 404)
    \/ Serve(r, 404) /\ Fault /\ UNCHANGED <<devices, records>>

ListDevices(r)       == Answered(r, 200)
GetDevice(r, d)      == Lookup(r, Live(d))
GetAttestation(r, q) == Lookup(r, records[q] = "pending")
GetProof(r, q)       == Lookup(r, records[q] = "generated")
ComplianceCheck(r)   == Answered(r, 200)
ListAnomalies(r)     == Answered(r, 200)

\* verifyProof looks the record up and answers is_valid true for every one it finds.
VerifyProof(r, q) == GetProof(r, q)

WithStatus(row, status) == [row EXCEPT !.status = status]
SoftDeleted(row)        == [row EXCEPT !.deleted = TRUE]

\* Mutant: the row is saved as a whole, deleted_at included.
UpdateDeviceSaves(r, d, status) ==
    /\ Serve(r, 200)
    /\ devices[d] # None /\ status # None
    /\ devices' = [devices EXCEPT ![d] = [WithStatus(@, status) EXCEPT !.deleted = FALSE]]
    /\ UNCHANGED <<records, faults>>

\* updateDevice: the columns the request names, of the live row, if there is one.
UpdateDevice(r, d, status) ==
    /\ Serve(r, 200)
    /\ \/ /\ Live(d) /\ status # None
          /\ devices' = [devices EXCEPT ![d] = WithStatus(devices[d], status)]
       \/ ~(Live(d) /\ status # None) /\ UNCHANGED devices
    /\ UNCHANGED <<records, faults>>

\* deleteDevice answers 200 whether or not a row matched.
DeleteDevice(r, d) ==
    /\ Serve(r, 200)
    /\ \/ devices[d] # None /\ devices' = [devices EXCEPT ![d] = SoftDeleted(devices[d])]
       \/ devices[d] = None /\ UNCHANGED devices
    /\ UNCHANGED <<records, faults>>

\* createAttestation and generateProof: a row for whatever device id the request holds.
\* Nothing looks the device up, and nothing works on the row afterwards.
InsertRecord(r, status) ==
    /\ Serve(r, 201)
    /\ records' = [records EXCEPT ![r] = status]
    /\ UNCHANGED <<devices, faults>>

CreateAttestation(r) == InsertRecord(r, "pending")
GenerateProof(r)     == InsertRecord(r, "generated")

\* The handler's statement fails: nothing is written.
ServeFails(r) == Serve(r, 500) /\ Fault /\ UNCHANGED <<devices, records>>

Handle(r) ==
    \/ \E s \in Serials : CreateDevice(r, s) \/ EnrollDevice(r, s)
    \/ ListDevices(r) \/ ComplianceCheck(r) \/ ListAnomalies(r) \/ Refuse(r)
    \/ \E d \in Requests :
          \/ GetDevice(r, d) \/ GetAttestation(r, d) \/ GetProof(r, d) \/ VerifyProof(r, d)
          \/ DeleteDevice(r, d)
          \/ \E status \in UpdateStatuses \cup {None} : UpdateDevice(r, d, status)
    \/ CreateAttestation(r) \/ GenerateProof(r)
    \/ ServeFails(r)

-----------------------------------------------------------------------------
\* Redis drops the counter when its minute is over.
ExpireCounter(c) ==
    /\ c \in ttl
    /\ count'    = [count EXCEPT ![c] = 0]
    /\ ttl'      = ttl \ {c}
    /\ admitted' = [admitted EXCEPT ![c] = 0]
    /\ UNCHANGED <<stage, client, code, tables, faults>>

InFlight(r) == stage[r] \in {"count", "expire", "serve", "audit"}

\* The server dies, or exits from a shutdown that waits for no audit goroutine.
Crash ==
    /\ \E r \in Requests : InFlight(r)
    /\ Fault
    /\ stage' = [r \in Requests |-> IF InFlight(r) THEN "killed" ELSE stage[r]]
    /\ UNCHANGED <<client, code, redis, tables>>

Next ==
    \/ \E r \in Requests :
          \/ \E token \in {"valid", "invalid", "tenantless"} : Authenticate(r, token)
          \/ CountRequest(r) \/ LoseReply(r) \/ SetExpiry(r)
          \/ Handle(r) \/ Audit(r)
    \/ \E c \in Clients : ExpireCounter(c)
    \/ Crash

\* A goroutine that can run is scheduled, and Redis expires a key that is due.
Fairness ==
    /\ \A r \in Requests :
          WF_vars(CountRequest(r)) /\ WF_vars(SetExpiry(r))
          /\ WF_vars(Handle(r)) /\ WF_vars(Audit(r))
    /\ \A c \in Clients : WF_vars(ExpireCounter(c))

Spec == Init /\ [][Next]_vars /\ Fairness

-----------------------------------------------------------------------------
(* Properties. *)

\* Every variable has its type.
TypeOK ==
    /\ stage \in [Requests -> Stages]
    /\ client \in [Requests -> Clients]
    /\ code \in [Requests -> Codes]
    /\ count \in [Clients -> Nat]
    /\ ttl \subseteq Clients
    /\ admitted \in [Clients -> Nat]
    /\ devices \in [Requests -> Device \cup {None}]
    /\ records \in [Requests -> {"pending", "generated", None}]
    /\ audited \subseteq Requests
    /\ faults \in 0..MaxFaults

\* However the requests of a client interleave, the rate limit lets no more than Limit
\* of them through in the life of its counter (those Redis failed to count aside).
QuotaKept == \A c \in Clients : admitted[c] <= Limit

\* A counter that nothing will ever expire: its EXPIRE is neither set nor to come.
Immortal(c) ==
    /\ count[c] > 0
    /\ c \notin ttl
    /\ ~\E r \in Requests : stage[r] = "expire" /\ client[r] = c

\* No interleaving of the INCRs and the EXPIRE leaves a client with an immortal
\* counter: it takes a failed EXPIRE, a lost reply to the first INCR (the one that is
\* tried again returns 2, and nobody sets the expiry), or a crash between the calls.
ImmortalExplained == \A c \in Clients : Immortal(c) => faults > 0

\* A client that has used up its quota gets it back, unless a failure has made its
\* counter immortal: then it is answered 429 for ever.
QuotaRecovers ==
    \A c \in Clients :
        count[c] >= Limit ~> count[c] < Limit \/ (Immortal(c) /\ faults > 0)

Inserted == {r \in Requests : devices[r] # None \/ records[r] # None}

\* The audit log is complete: a row of any table was inserted by a request that is in
\* the log or whose goroutine is about to put it there, unless a call failed.
WritesAudited ==
    \A r \in Inserted : r \in audited \/ stage[r] = "audit" \/ faults > 0

\* Every request that reached a handler settles: the log has it, or the server died or
\* the insert failed.  No request is answered and then held up.
AuditSettles ==
    \A r \in Requests :
        stage[r] = "serve" ~> r \in audited \/ (stage[r] \in {"end", "killed"} /\ faults > 0)

\* A deleted device stays deleted, whatever updates race with the delete: updateDevice
\* writes the columns it was given of a row that is still live.
DeletedStaysDeleted ==
    [][\A d \in Requests :
         devices[d] # None /\ devices[d].deleted =>
            devices'[d] # None /\ devices'[d].deleted]_vars

\* Step 5 of the lifecycle suite waits until a proof it had generated is "completed".
ProofCompletes ==
    \A r \in Requests :
        records[r] = "generated" ~> records[r] = "completed"

-----------------------------------------------------------------------------
(* The inductive invariant behind the safety properties. *)

\* Every request let through in the life of a counter was counted by it.
AdmittedCounted ==
    \A c \in Clients : admitted[c] <= count[c] /\ admitted[c] <= Limit

\* A request writes in its handler and not before.
UnservedWroteNothing ==
    \A r \in Requests :
        stage[r] \in {"new", "count", "expire", "serve"} => r \notin Inserted

IInv ==
    /\ TypeOK
    /\ AdmittedCounted
    /\ ImmortalExplained
    /\ UnservedWroteNothing
    /\ WritesAudited

=============================================================================
