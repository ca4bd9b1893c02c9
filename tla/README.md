# Formal models of the ZK device identity platform

TLA+ specifications of the parts of the platform that keep state and run concurrently,
the TLC instances that check them, and TLAPS proofs of their main properties. Paths are
relative to the repository.

```
tlc -workers 2 -config MCDeviceLifecycle.cfg MCDeviceLifecycle    # check a run
tlapm DeviceLifecycleProofs.tla                                   # check proofs
```

`PROJECT.json` lists the runs, the lines each definition models, a mutant for every
property (a plausible bug under which TLC finds the property violated), the hazards of
the code and the properties that cover them.

## 1. Inventory

| component | state | operations | what makes it hard |
|---|---|---|---|
| Served API (`cmd/server`, `internal/api`) | rows in PostgreSQL, `ratelimit:` counters in Redis, `audit_logs` | token and tenant checks, rate limit, inline handlers, audit goroutine | INCR and EXPIRE are two calls, the audit outlives the response, shutdown waits for no goroutine |
| Device and provisioning services (`internal/services`) | `devices` (soft-deleted), `api_keys`, Redis `enrollment:` entries, Qdrant points | register, enroll, provision, update, delete | no transaction anywhere, read-modify-write of whole rows, two or three stores per operation |
| Attestation and certificate services | `certificates`, `attestation_records`, `proof_records` | submit, validate the chain, revoke | the verdict is left to a goroutine; the chain belongs to the device, not to the submission |
| Proof service (`zk_service.go`) | `proof_records` | generate, verify | the prover's answer and the row are two steps; concurrent verifications |
| Noir prover server (`scripts/noir-prover-server.js`) | the proving backends it has built and not destroyed | prove, verify | several requests at once; a throw between building and destroying |
| Agent service (`agent-service`) | LangGraph state, `crew_store`, Redis `workflow:` entries | proof lifecycle, onboarding, poll | background tasks, a shared thread pool, failing nodes that hand over to the next |
| Edge proxy (`rust-proxy`) | `ratelimit:<ip>:<minute>` counters | authenticate, limit, forward | a second limiter with another failure policy |
| RISC Zero guests, Noir circuits, Julia analysis | none (functions) | decide, constrain, score | boundary cases |
| Web console (`frontend`) | component state of the mounted page, promises under way | navigate, sign in, register, table, forms, keys | a promise outlives the page that started it; nothing cancels a request or a push |
| MCP server (`mcp-server`) | one process per client, the health port they share, calls under way | tool calls, resource reads | the port is one and the processes are many; a timeout does not undo a request |
| Seeder, configuration, transfer objects | none that matters after start-up | | |

How they interact: the console and the MCP server call the proxy, the proxy calls the
API, the API uses PostgreSQL and Redis. Of the console only the overview page calls the
API through its client, login and registration go through next-auth and `fetch`, and the
other pages work on built-in data and timers. The Go services (`internal/services`) are written
against the same tables, but `NewRouter` does not construct them: the served routes have
inline handlers of their own. Both are modelled, each on its own, because both are the
program's stated logic and they behave differently (a delete that is final in one is not
in the other, see section 4). The agent service calls the backend over HTTP and is polled
through Redis.

What makes each component correct, in one line each:

* devices: one owner per serial number for ever; `provisioned` is earned; a device is
  stranded only for a reason one can name; a delete is final (it is not: see findings);
* attestation: a verdict rests on certificates that made up a valid chain once, is final,
  and comes;
* agent: a poll tells the truth about the run and eventually tells something;
* API: the quota holds and comes back, every write is audited;
* proof service: "verified" and "invalid" on record are a verdict some caller was told or the
  prover's own word, and a verdict is missing only for a reason one can name;
* console: what a page shows is about the request it made itself, the table never stands
  on a page that is not there, no form stays busy;
* MCP server: what a client is told is so, one process serves, every call is settled.

## 2. Modules

| module | models |
|---|---|
| `SerialRegistry` | abstract: a serial number is claimed at most once, for ever |
| `DeviceLifecycle` | `device_service.go`, `provisioning_service.go`, the delete and store of fingerprints |
| `Attestation` | `SubmitAttestation` with its goroutine, `certificate_service.go` |
| `AgentWorkflows` | `proof_lifecycle.py`, `device_onboarding.py`, `routes.py` |
| `ApiServer` | `router.go` and the authenticated half of `middleware.go` |
| `ProofService` | `zk_service.go`, `proof_repo.go` and `noir-prover-server.js` |
| `DataTable` | `data-table.tsx`: search, sort and page state and the rows shown |
| `ConsoleShell` | pages, links, component state, promises, the API client and the overview |
| `AuthPages` | login, registration, sign-out, and the backend's `Register` handler |
| `WorkPages` | the devices, attestations, proofs and settings pages |
| `Console` | composes the four, with fairness and the properties |
| `McpServer` | `mcp-server/src`: the processes, the tools, the resources |
| `MC...` | constants and symmetry of the instances |
| `...Proofs` | the theorems of a component and their proofs |

**One action is one call.** Handlers open no transaction, so a handler is cut at every
call to PostgreSQL, Redis, Qdrant or the prover, and everything may happen between two
calls. Code between two calls is part of the action of the call before or after it.
In `DeviceLifecycle` a handler is a process with `pc`, the id it works on (`target`), the
row it has built or read (`copy`) and the status it will write (`want`). In `Attestation`
`step` is the place of a submission, first in its handler and then in its goroutine; in
`AgentWorkflows` `node` is the LangGraph node; in `ApiServer` `stage` is the middleware
or handler.

**Failures.** `Fault` is one failed call or one crash; `MaxFaults` bounds them (in
`Attestation` `MaxMishaps`, with revocations and deletions). A failed
call changes nothing, except where the code shows a difference: an INCR whose reply is
lost is in effect and is repeated by the Redis client (`ApiServer!LoseReply`), and an INSERT
behind the MCP server or an INSERT or UPDATE of the proof service may be made and still be
reported as failed (`McpServer!Backend`, `ProofService!Store`, `Update`). In the other modules
such a write is left out, but for a crash right after it, which comes to the same where the
caller does nothing more after the error. What the code does with an error (return it, log it, treat it as
"not found") is what the model does. A crash forgets the locals and keeps the stores.

**Data.** Ids, serials and tenants are model values. A certificate is its subject, issuer
validity interval and usages; `Linked` is what the two `Verify` calls of
`ValidateCertificateChain` accept. A challenge response is right or wrong. Statuses are
the program's strings. Paging and filters of the served lists, wording and logging are left out.

**External behaviour.** gorm adds `deleted_at IS NULL` to reads, updates by query and
deletes; `Save` writes every column by primary key and inserts (or overwrites on
conflict) when the UPDATE matches no row. That is what `Found`, `SaveRow` and
`ApiServer!UpdateDevice` rest on. The unique index of `serial_number` has no condition, so
it covers soft-deleted rows. Redis expires a key that has a time to live, at any moment.

### DeviceLifecycle

Stores: `row`, `enrollment`, `apiKeys`, `fingerprints`. History variables say why a state
is excusable: `vouched` (whose challenge response was accepted), `forced` (an update
asked for "enrolled" or "provisioned", the statuses only the provisioning service should
grant), `expired`, `clobbered` (overwritten by a Save of a stale copy).
They are written beside the code's assignments and never read by a guard.

A device can be stranded without any failure or race: `UpdateDevice` takes any status, so
that an update to "enrolled" after the provisioning leaves a row that has no entry, can
never be provisioned and cannot be enrolled again. `StrandedExplained` once left this
cause out, and held in its run only because no update there asked for that status; the
attempt to prove it for every `UpdateStatuses` showed the gap. The run now has updates
that ask for both statuses.

`RegistryImplemented` is the refinement: `Claimed` reads the owner of every serial number
off the table, soft-deleted rows included, and every step of every handler is a claim of
a free serial number or a stutter.

### Attestation

A certificate row belongs to a submission and a slot (`certs`) and has the date gorm gives
it in the process, before the INSERT: `StoreCert` picks any time since the handler last came
back from the database (`since`), so that a row can appear on file after younger ones and
take their place. `Chosen` is what `GetDACChain` ends up with: rows come newest first and the
loop overwrites, so that one with the *least* date is judged, and of several of one date any.
The query and the judgement are two steps (`ReadChain`, `JudgeChain`): what is on file may
have changed in between, and `judged` is what the goroutine has read. There is one server,
and its clock does not go back.

`Verify` is x509's `Verify` with one intermediate and one root and the key usage it asks for
when the options name none (TLS server); a certificate that is itself the root needs no
signature, so that the root in the place of the DAC or the PAI passes. Path lengths, name
constraints and certificates older than version 3 are left out.

`VerifiedHasChain` says of a verified record that rows of its device which are still on file
made up an acceptable chain at one moment after the record was inserted. They need not be the
rows a read would choose now. What does hold of the choice is `ChainNeverRenewed`: of two
goroutines that read the chain of one device the later one never finds a younger certificate
in a slot. Renewals are ignored and, since `Certificate.Status` is not read, so are
revocations. A submission's own certificates matter only through the rows they leave.

### AgentWorkflows

The graph has one conditional edge, after the validation. A node that fails sets the
error and the next node runs all the same; `VerifiedMeansAllPassed` and `ErrorIffFailed`
show that no failure is lost on the way to what a poll finds. The status `completed` of
the graph is never published by a proof workflow: the entry is written before it is set.
`SilentEnds` names the ends a client never hears of: it polls 404 for ever. Two of them are
easy to miss. `handle_error_node` uses `asyncio`, which neither it nor its module imports
(`proof_lifecycle.py:193`): the `NameError` is caught and logged, so that a failed validation
is never published (`HandleError`). And a node whose call is answered with JSON that is no
object raises outside its `try`, which ends the graph in `run_graph` (`RaiseOutOfGraph`).
`Settles` says that every other workflow leaves an entry, and that none waits for ever.

### ApiServer

One action per middleware and one per handler (each handler is a single statement). Rows
are named after the inserting request, which is what relates a row to its audit entry.
`admitted` counts the requests let through in the life of a counter. A look-up answers 404
on any error of its query (`Lookup`), a body that cannot be decoded is answered 400
(`Refuse`), and the verification, compliance and anomaly handlers answer without work.

### ProofService

`GenerateProof` and `VerifyProof` are cut at the prover's answer and at the write. `prover`
is fixed at the start: either one that keeps the contract the service is written for, or
the Noir server of this repository, whose paths the service does not use (`Route` answers
404 to `/api/v1/prove`). `NothingFromNoir` says what that comes to: behind it the service
stores nothing and verifies nothing. The Noir server has direct callers too, and there the
state is the backends it holds: `Finish` destroys the backend only when nothing threw.
`GenerateProof` stores whatever status the prover sends along with a proof, "verified"
among them (`zk_service.go:120`), so `Store` picks any and `inserted` remembers it.
`VerdictsAccounted` relates a record to what several callers were told: a verdict on record
was reached by a verification or is that word of the prover, and a verdict a caller was told
is lost only to a failed UPDATE or to another verification. Concurrent verifications of one
record overwrite each other and the last write stays.

### Console

One browser tab. `page` is the mounted route, `ui` its `useState` calls, `tasks` the
promises and timers that have not settled, `leaving` a document navigation that has been
asked for. The handlers are in the modules of their pages; `ConsoleShell` holds what they
share, above all what unmounting does: `Fresh` state for the new page, no effect of the
old one's `setState` calls (`SetState`), timers of the old one forgotten, but
`router.push`, `window.location` and the backend's work still to come (`Outliving`).
So a sign-in that answers late moves the user, a late 401 sends a user who has signed in
meanwhile back to the login page, and a registration whose answer is lost has made an
account. What a user typed is chosen when it is submitted, except where an asynchronous
continuation writes to the field.

Promises have places (`Slots`), and a continuation is an action of its place. The list of
API keys is a set, as nothing depends on its order, which is left out. `ui.visible` is the
flag of the "show" button and says nothing about what can be read: a key without it is cut
after 20 characters (`settings/page.tsx:128`), and a new key has 22 at most. `ui.registered`
is the query of the pushed address, with the account it was pushed for: the login page reads
neither.

`DataTable` is a record and operators on it; rows are passed about as positions in the
data. `Sorted` is the *set* of orders `sort()` may leave, each an injection of places on
the screen into the rows that match: the comparator says of two rows without a value that
each follows the other, so their order is up to the engine, and `TablePagesCover` holds
for each of them.

### McpServer

A client starts a process of its own, which speaks to it over its standard streams and
then listens on one port for all (`Listen`); the error of a port in use is not handled and
ends the process, and a process whose client has left stays for the sake of its port
(`HangUp`). A call goes through its schema (`Accepted`), a request, and an answer; a
request that timed out may be worked off later (`Backend` needs no process). Resource
URIs are token sequences and `Pattern` is what `handleResourceRead` makes of a template,
including its doubled colon. `Backend` leaves open whether a request is accepted: the
server sends an `X-API-Key`, the router takes bearer tokens. So a result means no more than
that the backend answered 2xx, which `check_compliance` gets whatever the device is
(`router.go:256`). Only of `create_attestation` does it mean that something was done, and
only `verify_proof` can never get it. `find_similar_devices` has no route, but its
`device_id` goes into the path as it comes and may name another.

## 3. Runs

| run | expectation | bounds | shows |
|---|---|---|---|
| `device_lifecycle` | pass | 3 handlers, 2 devices, 1 serial, 2 tenants, updates to 2 statuses, 2 faults | six invariants, two action properties, the refinement |
| `device_deletion` | violation | 2 handlers, no faults | `DeletedStaysDeleted` fails |
| `attestation` | pass | 1 device, 2 submissions of 2 bundles, 3 certificates, clock 0..1, 1 mishap | verdicts are backed and final, no renewal is read, pending records settle |
| `attestation_chain` | violation | no faults | `IncompleteChainRejected` fails |
| `agent_workflows` | pass | 2 proof flows, 1 onboarding, 1 thread | polls are truthful, workflows settle |
| `agent_status` | violation | 1 flow of each kind | `ResultFitsResponse` fails |
| `api_server` | pass | 3 requests, 1 client, limit 2, 1 fault | quota, audit log, soft delete |
| `api_proof` | violation | 2 requests, no faults | `ProofCompletes` fails |
| `proof_service` | pass | 3 operations, 2 records, 1 direct request, both provers | verdicts are accounted for, backends released |
| `console` | pass | 3 rows on pages of 2, 2 promises, 2 proofs, 1 new key, 1 address, 2 devices | six properties, `FormsSettle` among them |
| `mcp_server` | pass | 2 processes, 2 calls of 5 kinds | answers are those of the backend, one process serves, calls settle |
| `mcp_resource` | violation | 1 process, 1 call of any kind | `ListedResourcesReadable` fails |

`TypeOK` of `AgentWorkflows`, `ApiServer` and `ProofService` is proved for all constants
and is not repeated as a run.

Why the bounds are enough. Every race in `DeviceLifecycle` is between two handlers on
one device or one serial number; the third handler lets an update, a delete and a
provisioning overlap, the second device lets two rows compete for the serial number, the
second tenant lets a claim belong to someone else, and two faults let a failure follow a
crash. Updates ask for the two statuses that mean something to the other handlers; any
other is like "active". In `Attestation` two submissions share the device; one bundle is a
chain whose DAC lapses at time 1, the other has the root in the place of the DAC and the PAI
and lacks a PAA, so that what the two leave makes up chains that pass, lapse or do not link.
The clock's two values let rows of one date and rows in the wrong order appear; `MaxMishaps`
bounds failed calls, crashes, revocations and deletions together, and each of them is
excused, or ignored, whatever else has happened.
In `AgentWorkflows` one thread makes every workflow wait for every other. In `ApiServer`
three requests exceed a limit of two. `Limit` is 100 in the code, where nothing depends on
its value. In `ProofService` the third operation lets two verifications overlap on a record a
generation has stored. In `Console` the table has a full page and one with a single row,
the search leaves one page, and two rows have no value, so that their order is open; rows
of equal value are left to the proof, which holds for any rows. Two promises let one page's
request meet another's, and a registration or sign-in meet the overview's; a page is left
by a link only while one of its promises' places stays free. A third promise adds no new
pair. In
`McpServer` two processes compete for the port while two calls are under way.
Deadlock is not checked where the requests are used up and the system stops (among them
`ProofService`, whose operations are run once each); `DeviceLifecycle`, `Console` and
`McpServer` never stop and are checked for it.

Fairness. `Attestation`: the steps of a goroutine (a runnable goroutine is scheduled, the
prover's client times out after 60 s). `AgentWorkflows`: strong fairness of each
workflow's steps, because a queued workflow is enabled only while a thread of the pool is
free, and the pool serves its queue in order; backend calls time out (`config.py`).
`ApiServer`: requests that have been accepted and Redis' expiry. Submissions, requests,
failures and crashes are never fair: nothing forces them to happen.
`Console`: every promise a form waits for settles, because the API client has a timeout of
30 s, the browser and the operating system end a `fetch` and next-auth's request one day,
and the other operations are timers; a document that is being unloaded goes. The user is
never fair. `McpServer`: the event loop runs `Listen` and `Handle`, and the 30 s timeout
of the HTTP client ends every wait; the backend is not fair, nor are clients or kills.
`DeviceLifecycle` and `ProofService` have safety properties only.

## 4. Findings

* `device_deletion`: `UpdateDevice` (and `ProvisionSecureElement`) save a copy of the row
  read before a concurrent delete, and bring the device back. No failure is needed. The
  pass run bounds the damage (`RevivedOnlyByStaleSave`): nothing else revives a device. The
  inline handlers of the served API write only the columns they were given, of a live
  row, and there deletion is final (`ApiServer!DeletedStaysDeleted`, proved).
* `attestation_chain`: a submission that lacks a PAA is verified with one that another
  submission left on file.
* `agent_status`: the poll of a completed onboarding fails in the response model.
* `api_proof`: a generated proof stays `generated`; the lifecycle suite waits for
  `completed`.
* `mcp_resource`: no address a client makes of a listed template matches; every resource
  read ends in "No resource matching URI" before the backend is asked.

Met while modelling, and part of the models without a run of its own: the overview's
figures are always the built-in ones, since no route serves the three statistics requests;
no route answers `find_similar_devices` or `verify_proof` as they are meant, and
`check_compliance` is answered without a check; a workflow whose validation fails is never
reported, for want of an import (section 2); a record can say "verified" because the prover
said so when it generated the proof; a root certificate passes as a device certificate; the
service and the prover of this repository do not agree on a path; the dialog for a new device
renders its form twice, each with a draft of its own; the "Clear" badge of the proofs page
is out of reach, as it is shown only while nothing is chosen; a second delete in the
served API answers 200, where the CRUD suite expects 404.

Named and not caught: some properties excuse the very loss a hazard is about, because the
code lets it happen. `StrandedExplained`, `PendingExplained`, `ProofMissingExplained`,
`ImmortalExplained` and `WritesAudited` excuse a failed call or a crash, `PendingSettles` and
`Settles` a goroutine or workflow that was killed or not recorded, `FingerprintOutlivesRow` a
device a stale Save has overwritten, `BackendsReleased` a request answered 500. What they show
is that there is no other way to such a state. The notes of the hazards in `PROJECT.json` say
so one by one. `KeysRegistered` is about keys in the table; a key that a caller was given and
the table lacks is what `device_service.go:70` does.

## 5. Proofs

| module | argument |
|---|---|
| `DeviceLifecycleProofs` | `IInv` adds to the safety properties that a handler's copy has the tenant and serial of its row (`HandlersTrackRows`), that an entry belongs to the row's tenant (`EntriesMatchRows`), and that a copy which says or will say "provisioned" is as well founded as such a row (`CopiesVouched`). Without the last, `ProvisionedByOwner` is not inductive: a stale copy could hold a status nobody vouched for. `Causes`, a second invariant on top of it, relates rows, entries, handlers and history: an entry is stored once, by the handler that enrolled the device (`EntryStoredOnce`); a provisioned row, live or not, has a handler that will drop its entry, or a cause (`ProvisionedWithoutEntry`); a handler drops an entry or a fingerprint only after its write (`DropsFollowWrites`); what handlers hold is live (`CopiesLive`) and what they will write was asked for (`WantsForced`). From it follow the two properties about causes and the two about revived rows and fingerprints. `DeletionFinalWhenSerial` proves, for one handler, the very property `device_deletion` refutes for two: a copy is then never stale (`NothingStale`), whatever fails, so that the finding is one of isolation alone. |
| `AttestationProofs` | rows, dates and requests stay and time goes on (`StepKeeps`), so what was on file with a date is there ever after, and what backs a record goes on doing so. `JudgedOnFile` ties what a goroutine has read to rows of its device, `PassEarned` carries the judgement over the prover's call to the verdict; `SinceBehind` keeps the moment of the judgement behind the record's insert. `ChainNeverRenewed` follows because a later read minimises over all rows the earlier one saw. |
| `AgentWorkflowsProofs` | `GraphState` says at each node what the state may hold although earlier nodes may have failed; `PublishedLast` that an entry implies the end of its workflow. |
| `ApiServerProofs` | `AdmittedCounted` (the number admitted is at most the counter and at most the limit), `UnservedWroteNothing`. |
| `ProofServiceProofs` | `JobsUnderWay` ties the place of a call to its job and to a record that exists, without which an update could mark a row nobody verified; `RequestsUnderWay` keeps a backend from belonging to a request that has not come. |
| `McpServerProofs` | `RequestsAccounted` says of a request, while its call is still open or long given up, what the backend has done with it. `AnswersTruthful` alone is not inductive: a call could be given up while its request is pending and no fault recorded, and the row be inserted afterwards. |
| `DataTableProofs` | `PagesPartition`: an order in `Sorted` is a bijection of 1..n onto the rows that match, its slices share out 1..n, and the page count is what covers n (`PagesEnough`). `SortHasOutcome`: `Sorted` is empty for no table, although the comparator contradicts itself: take the number of rows before a row, for a total order that suits the comparator (`Before`), as its place. `TableStepsStand`: no search, sort or turn leaves the table on a page that is not there. |
| `ConsoleProofs` | `IInv` is the properties with what promises and pages know of each other: a "created" answer is backed by an account wherever its page went (`RepliesBacked`), only the overview waits for figures (`FiguresForOverview`), a proof under way is for the device chosen (`GenerationFits`), the table's page exists (`TableStands`). A page just mounted, with nothing but promises of earlier pages beside its own start-up, has all of it (`MountedHolds`), which settles every way of arriving at a page; of the other actions each touches one page's state and one promise. |

Each module proves `Init => IInv`, that every action preserves `IInv`, and from them
type correctness, the safety properties and, in `DeviceLifecycle`, the refinement of
`SerialRegistry`; `DataTableProofs` is about the operators of the table, for every table
and any rows. The theorems hold for any number of handlers, devices, requests, clients,
workflows, threads, processes, calls, proof records, table rows and promises and for every
bound; they rest on the named assumptions of the modules: that `None` and its like are none
of the values they stand beside, that bounds are naturals (of promises and rows on a page
at least one), that certificate dates and the ranks of table values are naturals, that
requests have the shape their type says, that the ids of table rows differ, that proof and
onboarding workflows have different ids, and that the calls of the MCP server's clients
are among those its tools and resources allow.

Every safety property of a passing run, invariant or action property, is also a theorem.
Model-checked only: the liveness properties (`PendingSettles`, `Settles`, `QuotaRecovers`,
`AuditSettles`, `FormsSettle`, `CallsSettle`), because the prover reaches neither fairness
nor ENABLED; and that the five properties of section 4 fail, which TLC shows by a behaviour.

## 6. Not modelled, and plan

Not modelled, or only where something else meets it:

* the edge proxy, the seeder, the RISC Zero guests, the Noir circuits and the Julia
  analysis: planned below;
* the console's charts, badges, static pages and the device page, which show built-in
  data and keep no state; next-auth beyond the ways its promises settle; the functions of
  the API client that no page calls;
* the MCP server's Python stub (`mcp-server/src/main.py`), which answers a health check;
* login and logout on the server (a read and a signature), transfer objects,
  configuration, deployment, dashboards, the language-model agents' behaviour,
  cryptography, and the paging and filters of the served lists.

`PROJECT.json` has the status of each component and the reason.

Next, in this order:

1. `Gateway` (`rust-proxy`): authentication, the per-minute window limiter that fails
   closed, and forwarding, composed with the backend's limiter that fails open.
2. `AgentBackend`, `AgentWorkflows` composed with the routes `router.go` serves: the paths
   and the header of `backend_client.py` are not among them, so every backend call fails.
3. `Seeding` (`internal/seeder`) over the rows of `DeviceLifecycle`.
4. Operators with a reference definition: the RISC Zero guests' compliance, credential and
   state-transition decisions, the predicates of the Noir circuits, the windowing of the
   Julia analysis.
5. Proofs: the safety of the proof step of `Attestation` composed with `ProofService`, as a
   refinement; operator lemmas for 4.
