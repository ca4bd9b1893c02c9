--------------------------- MODULE AgentWorkflows ---------------------------
(***************************************************************************)
(* The agent service's background workflows: the LangGraph proof lifecycle *)
(* (validate, witness, proof, verify, store) and the CrewAI onboarding.    *)
(* Both run in the event loop's thread pool after the request has been     *)
(* answered "started"; a client learns the outcome by polling a Redis      *)
(* entry.  The proof graph branches only after the validation: a node that *)
(* fails writes its error into the state and the NEXT node runs anyway.    *)
(***************************************************************************)
EXTENDS Naturals, FiniteSets

CONSTANTS ProofFlows,    \* workflow ids of proof generations
          OnboardFlows,  \* workflow ids of device onboardings
          Threads,       \* size of the default executor
          None           \* no entry in Redis, no verification result

Flows == ProofFlows \cup OnboardFlows

ASSUME FlowsAssumption == ProofFlows \cap OnboardFlows = {}

ASSUME ThreadsAssumption == Threads \in Nat \ {0}

VARIABLES
    node,     \* flow -> the node that runs next, or how the flow ended
    status,   \* flow -> ProofState["status"]
    error,    \* flow -> ProofState["error"] is set
    witness,  \* flow -> proof_data holds a non-empty witness_id
    proof,    \* flow -> proof_data holds a non-empty proof
    verdict,  \* flow -> verification_result: None, TRUE or FALSE ("verified")
    results,  \* backend: flow -> the verdict posted with its result, "unposted" before
    entry,    \* Redis "workflow:<id>": None or what a poll finds
    crews     \* crew_store: the onboardings with a crew in memory

vars == <<node, status, error, witness, proof, verdict, results, entry, crews>>

Running == {"validate", "witness", "prove", "verify", "store", "publish", "handle",
            "kickoff", "announce"}
Ended   == {"end", "unstored", "unpublished", "unreported", "crashed", "killed"}
Nodes   == {"new", "queued"} \cup Running \cup Ended

Statuses == {"initiated", "inputs_validated", "validation_failed", "witness_generated",
             "witness_generation_failed", "proof_generated", "proof_generation_failed",
             "proof_verified", "proof_invalid", "verification_failed", "storage_failed",
             "completed"}

Verdicts == {"none", "verified", "invalid"}

\* What json.loads makes of an entry: its "result" is a string or missing.
Entry == [status : Statuses, error : BOOLEAN, result : {"missing", "string"}]

ASSUME NoneAssumption == None \notin Entry

Goto(w, n)   == node' = [node EXCEPT ![w] = n]
Status(w, s) == status' = [status EXCEPT ![w] = s]

\* A node that gives up: the status names it, the error is set, the graph goes on.
GiveUp(w, s) == Status(w, s) /\ error' = [error EXCEPT ![w] = TRUE]

Publish(w, s, e, r) ==
    entry' = [entry EXCEPT ![w] = [status |-> s, error |-> e, result |-> r]]

-----------------------------------------------------------------------------
Init ==
    /\ node    = [w \in Flows |-> "new"]
    /\ status  = [w \in Flows |-> "initiated"]
    /\ error   = [w \in Flows |-> FALSE]
    /\ witness = [w \in Flows |-> FALSE]
    /\ proof   = [w \in Flows |-> FALSE]
    /\ verdict = [w \in Flows |-> "none"]
    /\ results = [w \in Flows |-> "unposted"]
    /\ entry   = [w \in Flows |-> None]
    /\ crews   = {}

\* The POST handlers: answer "started" and leave a task behind.
Start(w) ==
    /\ node[w] = "new"
    /\ Goto(w, "queued")
    /\ crews' = IF w \in OnboardFlows THEN crews \cup {w} ELSE crews
    /\ UNCHANGED <<status, error, witness, proof, verdict, results, entry>>

Busy == {w \in Flows : node[w] \in Running \ {"announce"}}

\* Mutant: each flow takes a thread and needs another one for its calls.
DispatchNested(w) ==
    /\ node[w] = "queued"
    /\ Cardinality(Busy) + 1 < Threads
    /\ Goto(w, IF w \in ProofFlows THEN "validate" ELSE "kickoff")
    /\ UNCHANGED <<status, error, witness, proof, verdict, results, entry, crews>>

\* run_in_executor: the work waits for a thread of the pool.
Dispatch(w) ==
    /\ node[w] = "queued"
    /\ Cardinality(Busy) < Threads
    /\ Goto(w, IF w \in ProofFlows THEN "validate" ELSE "kickoff")
    /\ UNCHANGED <<status, error, witness, proof, verdict, results, entry, crews>>

-----------------------------------------------------------------------------
(* The nodes of the proof graph. *)

\* decide_next follows the error the validation leaves.
Validate(w, wellFormed) ==
    /\ node[w] = "validate"
    /\ \/ /\ wellFormed
          /\ Status(w, "inputs_validated")
          /\ Goto(w, "witness")
          /\ UNCHANGED error
       \/ /\ ~wellFormed
          /\ GiveUp(w, "validation_failed")
          /\ Goto(w, "handle")
    /\ UNCHANGED <<witness, proof, verdict, results, entry, crews>>

\* The backend answers, with or without a witness_id, or the call raises.
GenerateWitness(w, found) ==
    /\ node[w] = "witness"
    /\ \/ /\ Status(w, "witness_generated")
          /\ witness' = [witness EXCEPT ![w] = found]
          /\ UNCHANGED error
       \/ GiveUp(w, "witness_generation_failed") /\ UNCHANGED witness
    /\ Goto(w, "prove")
    /\ UNCHANGED <<proof, verdict, results, entry, crews>>

\* Without a witness_id the backend is not asked.
GenerateProof(w, found) ==
    /\ node[w] = "prove"
    /\ \/ /\ witness[w]
          /\ Status(w, "proof_generated")
          /\ proof' = [proof EXCEPT ![w] = found]
          /\ UNCHANGED error
       \/ GiveUp(w, "proof_generation_failed") /\ UNCHANGED proof
    /\ Goto(w, "verify")
    /\ UNCHANGED <<witness, verdict, results, entry, crews>>

\* Mutant: a call that raises changes the status and sets no error.
VerifyProofSilently(w, valid) ==
    /\ node[w] = "verify"
    /\ \/ /\ proof[w]
          /\ verdict' = [verdict EXCEPT ![w] = IF valid THEN "verified" ELSE "invalid"]
          /\ Status(w, IF valid THEN "proof_verified" ELSE "proof_invalid")
       \/ Status(w, "verification_failed") /\ UNCHANGED verdict
    /\ Goto(w, "store")
    /\ UNCHANGED <<error, witness, proof, results, entry, crews>>

VerifyProof(w, valid) ==
    /\ node[w] = "verify"
    /\ \/ /\ proof[w]
          /\ verdict' = [verdict EXCEPT ![w] = IF valid THEN "verified" ELSE "invalid"]
          /\ Status(w, IF valid THEN "proof_verified" ELSE "proof_invalid")
          /\ UNCHANGED error
       \/ GiveUp(w, "verification_failed") /\ UNCHANGED verdict
    /\ Goto(w, "store")
    /\ UNCHANGED <<witness, proof, results, entry, crews>>

\* Mutant: the entry is written whether or not the backend took the result.
StoreResultGoesOn(w) ==
    /\ node[w] = "store"
    /\ \/ results' = [results EXCEPT ![w] = verdict[w]]
       \/ UNCHANGED results
    /\ Goto(w, "publish")
    /\ UNCHANGED <<status, error, witness, proof, verdict, entry, crews>>

\* store_result, first half: the backend gets the result, or nothing is published.
StoreResult(w) ==
    /\ node[w] = "store"
    /\ \/ /\ results' = [results EXCEPT ![w] = verdict[w]]
          /\ Goto(w, "publish")
          /\ UNCHANGED <<status, error>>
       \/ /\ GiveUp(w, "storage_failed")
          /\ Goto(w, "unstored")
          /\ UNCHANGED results
    /\ UNCHANGED <<witness, proof, verdict, entry, crews>>

\* Mutant: the write is repeated when closing the connection fails after it.
PublishResultRetried(w) ==
    /\ node[w] = "publish"
    /\ Publish(w, status[w], error[w], "missing")
    /\ \/ Goto(w, "end")
       \/ UNCHANGED node
    /\ Status(w, "completed")
    /\ UNCHANGED <<error, witness, proof, verdict, results, crews>>

\* store_result, second half: the entry has the status from before "completed"; a
\* failure of Redis is a warning.
PublishResult(w) ==
    /\ node[w] = "publish"
    /\ \/ Publish(w, status[w], error[w], "missing") /\ Goto(w, "end")
       \/ Goto(w, "unpublished") /\ UNCHANGED entry
    /\ Status(w, "completed")
    /\ UNCHANGED <<error, witness, proof, verdict, results, crews>>

\* handle_error uses asyncio, which it does not import: the NameError is caught and
\* logged with what was to be published, and the graph ends.
HandleError(w) ==
    /\ node[w] = "handle"
    /\ Goto(w, "unreported")
    /\ UNCHANGED <<status, error, witness, proof, verdict, results, entry, crews>>

\* The backend answered the node's call with something that is no JSON object: its
\* "get" raises outside the try, the graph is left, and run_graph logs the error.
RaiseOutOfGraph(w) ==
    /\ \/ node[w] = "witness"
       \/ node[w] = "prove" /\ witness[w]
       \/ node[w] = "verify" /\ proof[w]
    /\ Goto(w, "crashed")
    /\ UNCHANGED <<status, error, witness, proof, verdict, results, entry, crews>>

-----------------------------------------------------------------------------
(* The onboarding: crew.kickoff in a thread, the entry from the event loop. *)

\* The finally clause: the crew leaves crew_store however the workflow ended.
EndCrew(w) == crews' = crews \ {w}

\* Mutant: the crew is dropped only when the workflow succeeds.
KickoffLeaksCrew(w) ==
    /\ node[w] = "kickoff"
    /\ \/ Goto(w, "announce")
       \/ Goto(w, "crashed")
    /\ UNCHANGED <<status, error, witness, proof, verdict, results, entry, crews>>

\* kickoff returns, or raises: then the error is logged and nothing is published.
Kickoff(w) ==
    /\ node[w] = "kickoff"
    /\ \/ Goto(w, "announce") /\ UNCHANGED crews
       \/ Goto(w, "crashed") /\ EndCrew(w)
    /\ UNCHANGED <<status, error, witness, proof, verdict, results, entry>>

Announce(w) ==
    /\ node[w] = "announce"
    /\ \/ /\ Publish(w, "completed", FALSE, "string")
          /\ Goto(w, "end")
          /\ EndCrew(w)
       \/ /\ Goto(w, "unpublished")
          /\ EndCrew(w)
          /\ UNCHANGED entry
    /\ UNCHANGED <<status, error, witness, proof, verdict, results>>

-----------------------------------------------------------------------------
\* redis_workflow_ttl has passed.
Expire(w) ==
    /\ entry[w] # None
    /\ entry' = [entry EXCEPT ![w] = None]
    /\ UNCHANGED <<node, status, error, witness, proof, verdict, results, crews>>

\* The service restarts: queued and running workflows are gone, with their crews.
Restart ==
    /\ \E w \in Flows : node[w] \in {"queued"} \cup Running
    /\ node' = [w \in Flows |->
                  IF node[w] \in {"queued"} \cup Running THEN "killed" ELSE node[w]]
    /\ crews' = {}
    /\ UNCHANGED <<status, error, witness, proof, verdict, results, entry>>

Step(w) ==
    \/ Dispatch(w)
    \/ \E ok \in BOOLEAN :
          \/ Validate(w, ok) \/ GenerateWitness(w, ok)
          \/ GenerateProof(w, ok) \/ VerifyProof(w, ok)
    \/ StoreResult(w) \/ PublishResult(w) \/ HandleError(w) \/ RaiseOutOfGraph(w)
    \/ Kickoff(w) \/ Announce(w)

Next ==
    \/ \E w \in Flows : Start(w) \/ Step(w) \/ Expire(w)
    \/ Restart

\* Threads run, every call to the backend times out, and the pool is first come,
\* first served, so that a queued workflow is not passed over for ever.
Fairness == \A w \in Flows : SF_vars(Step(w))

Spec == Init /\ [][Next]_vars /\ Fairness

-----------------------------------------------------------------------------
(* Properties. *)

\* Every variable has its type, and only onboardings have a crew.
TypeOK ==
    /\ node \in [Flows -> Nodes]
    /\ status \in [Flows -> Statuses]
    /\ error \in [Flows -> BOOLEAN]
    /\ witness \in [Flows -> BOOLEAN]
    /\ proof \in [Flows -> BOOLEAN]
    /\ verdict \in [Flows -> Verdicts]
    /\ results \in [Flows -> Verdicts \cup {"unposted"}]
    /\ entry \in [Flows -> Entry \cup {None}]
    /\ crews \subseteq OnboardFlows

\* A poll that answers "proof_verified" is about a run in which every node succeeded,
\* and the backend already holds the same verdict: although no edge of the graph is
\* taken on a failure, no earlier failure is lost on the way to this status.
VerifiedMeansAllPassed ==
    \A w \in Flows :
        entry[w] # None /\ entry[w].status = "proof_verified" =>
            /\ ~entry[w].error
            /\ witness[w] /\ proof[w]
            /\ results[w] = "verified"

\* What a poll finds of a proof workflow is a final status, with an error exactly when
\* some node failed.
ErrorIffFailed ==
    \A w \in ProofFlows : entry[w] # None =>
        /\ entry[w].status \in {"proof_verified", "proof_invalid", "verification_failed"}
        /\ entry[w].error <=> entry[w].status = "verification_failed"

\* An outcome, once published, is not replaced by another; it can only lapse.
PublishedOnce ==
    [][\A w \in Flows : entry[w] # None => entry'[w] \in {entry[w], None}]_vars

\* The ends of a workflow that leave no entry behind, so that its client finds 404
\* for ever: the backend refused the result, Redis the entry; the validation failed,
\* which is never reported; a node or the crew raised; the service restarted.
SilentEnds == {"unstored", "unpublished", "unreported", "crashed", "killed"}

\* Every started workflow comes to an outcome a poll can find or to one of the silent
\* ends: none waits for ever for a thread of the pool or for another workflow.
Settles ==
    \A w \in Flows : node[w] = "queued" ~> entry[w] # None \/ node[w] \in SilentEnds

\* crew_store holds the onboardings under way and no other.
CrewsAreUnderWay ==
    \A w \in OnboardFlows :
        w \in crews <=> node[w] \in {"queued", "kickoff", "announce"}

\* WorkflowStatusResponse declares "result: Optional[dict[str, Any]]": what the status
\* handler reads from an entry fits the response model it is put in.
ResultFitsResponse ==
    \A w \in Flows : entry[w] # None => entry[w].result = "missing"

-----------------------------------------------------------------------------
(* The inductive invariant behind the safety properties. *)

ProofNodes == {"validate", "witness", "prove", "verify", "store", "publish", "handle"}

\* Each kind of workflow stays on its own nodes.
OwnNodes ==
    \A w \in Flows :
        /\ node[w] \in ProofNodes => w \in ProofFlows
        /\ node[w] \in {"kickoff", "announce"} => w \in OnboardFlows

\* The state says what was verified only if the nodes before it succeeded, although a
\* failing node hands over to the next.
Verifies(w) ==
    /\ status[w] \in {"proof_verified", "proof_invalid", "verification_failed"}
    /\ error[w] <=> status[w] = "verification_failed"
    /\ status[w] = "proof_verified" =>
          witness[w] /\ proof[w] /\ verdict[w] = "verified"

GraphState ==
    \A w \in Flows :
        /\ node[w] \in {"new", "queued", "validate", "witness"} => ~error[w] /\ ~witness[w]
        /\ node[w] = "prove" /\ witness[w] => ~error[w]
        /\ node[w] \in {"new", "queued", "validate", "witness", "prove"} => ~proof[w]
        /\ node[w] = "verify" /\ proof[w] => witness[w] /\ ~error[w]
        /\ node[w] = "store" => Verifies(w)
        /\ node[w] = "publish" => Verifies(w) /\ results[w] = verdict[w]
        /\ node[w] = "handle" => error[w]

\* Publishing is the last thing a workflow does.
PublishedLast ==
    \A w \in Flows : entry[w] # None => node[w] \in Ended

IInv ==
    /\ TypeOK
    /\ OwnNodes
    /\ GraphState
    /\ PublishedLast
    /\ VerifiedMeansAllPassed
    /\ ErrorIffFailed
    /\ CrewsAreUnderWay

=============================================================================
