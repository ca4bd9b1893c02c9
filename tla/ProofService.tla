---------------------------- MODULE ProofService ----------------------------
(***************************************************************************)
(* ZKService, which generates and verifies proofs by calls of a prover,    *)
(* the proof_records table, and the prover it is deployed with, the Noir   *)
(* server of scripts/, which has callers of its own.  A conforming prover  *)
(* is the one ZKService is written for.                                    *)
(***************************************************************************)
EXTENDS Naturals, FiniteSets

CONSTANTS Ops,       \* calls of GenerateProof and VerifyProof
          Proofs,    \* ids of proof records
          Direct,    \* requests others send to the Noir server
          None

VARIABLES
    prover,    \* what answers at the service's base URL: "noir" or "conforming"
    records,   \* proof_records: id -> status, None when there is no such row
    inserted,  \* history: id -> the status its row was inserted with, None before
    job,       \* call -> what it was asked, None before
    step,      \* call -> how far it has got
    verdict,   \* call -> what the prover answered a verification
    faulted,   \* history: calls of which an INSERT or UPDATE failed
    asked,     \* direct request -> what it asks, None before
    reply,     \* direct request -> the status code it was answered, 0 before
    proving,   \* direct requests whose circuit is loaded and that prove or verify
    backends   \* direct requests whose UltraHonkBackend has not been destroyed

service == <<records, inserted, job, step, verdict, faulted>>
noir    == <<asked, reply, proving, backends>>
vars    == <<prover, service, noir>>

Verdicts == {"none", "verified", "invalid"}

\* The statuses a record can have; "other" stands for any string besides that a prover may
\* come up with.
Statuses == {"generated", "completed", "verified", "invalid", "other"}

Steps    == {"new", "ask", "store", "update", "done", "failed"}
Codes    == {0, 200, 204, 400, 404, 500}

Paths  == {"options", "health", "/prove", "/verify", "/api/v1/prove", "/api/v1/verify"}
Bodies == {"malformed", "no circuit", "no payload", "good"}

ASSUME NoneAssumption == None \notin Statuses \cup Paths

-----------------------------------------------------------------------------
(* The Noir server. *)

\* What the request listener answers at once; 0 when it goes on to prove or verify.
Route(path, body) ==
    CASE path = "options" -> 204
      [] path = "health"  -> 200
      [] path \in {"/prove", "/verify"} ->
             CASE body = "malformed" -> 500
               [] body \in {"no circuit", "no payload"} -> 400
               [] OTHER -> 0
      [] OTHER -> 404

Receive(d, path, body) ==
    /\ asked[d] = None
    /\ asked' = [asked EXCEPT ![d] = path]
    /\ reply' = [reply EXCEPT ![d] = Route(path, body)]
    /\ UNCHANGED <<prover, service, proving, backends>>

\* loadCircuit and the new backend.  A circuit that is not there is the listener's 500.
LoadCircuit(d) ==
    /\ asked[d] # None /\ reply[d] = 0 /\ d \notin proving
    /\ \/ proving' = proving \cup {d} /\ backends' = backends \cup {d} /\ UNCHANGED reply
       \/ reply' = [reply EXCEPT ![d] = 500] /\ UNCHANGED <<proving, backends>>
    /\ UNCHANGED <<prover, service, asked>>

\* Mutant: the answer goes out without a destroy.
FinishKeepingBackend(d) ==
    /\ d \in proving
    /\ proving' = proving \ {d}
    /\ reply' = [reply EXCEPT ![d] = 200]
    /\ UNCHANGED <<prover, service, asked, backends>>

\* generateProof and verifyProof: the backend is destroyed when Noir has returned; when
\* Noir throws, or the destroy does, nothing destroys it any more.
Finish(d) ==
    /\ d \in proving
    /\ proving' = proving \ {d}
    /\ \/ reply' = [reply EXCEPT ![d] = 200] /\ backends' = backends \ {d}
       \/ reply' = [reply EXCEPT ![d] = 500] /\ UNCHANGED backends
    /\ UNCHANGED <<prover, service, asked>>

-----------------------------------------------------------------------------
(* The service. *)

Init ==
    /\ prover   \in {"noir", "conforming"}
    /\ records  = [p \in Proofs |-> None]
    /\ inserted = [p \in Proofs |-> None]
    /\ job      = [o \in Ops |-> None]
    /\ step     = [o \in Ops |-> "new"]
    /\ verdict  = [o \in Ops |-> "none"]
    /\ faulted  = {}
    /\ asked    = [d \in Direct |-> None]
    /\ reply    = [d \in Direct |-> 0]
    /\ proving  = {}
    /\ backends = {}

Insert(p, status) ==
    /\ records[p] = None
    /\ records' = [records EXCEPT ![p] = status]
    /\ inserted' = [inserted EXCEPT ![p] = status]

\* The router's own generateProof, which asks no prover.
InsertStub(p) ==
    /\ Insert(p, "generated")
    /\ UNCHANGED <<prover, job, step, verdict, faulted, noir>>

Goto(o, s) == step' = [step EXCEPT ![o] = s]

\* GenerateProof up to its request; p is the id the row would get.
Generate(o, p) ==
    /\ step[o] = "new"
    /\ job' = [job EXCEPT ![o] = [kind |-> "generate", proof |-> p]]
    /\ Goto(o, "ask")
    /\ UNCHANGED <<prover, records, inserted, verdict, faulted, noir>>

\* VerifyProof up to its request: a record that is not there is an error.
Verify(o, p) ==
    /\ step[o] = "new"
    /\ job' = [job EXCEPT ![o] = [kind |-> "verify", proof |-> p]]
    /\ Goto(o, IF records[p] = None THEN "failed" ELSE "ask")
    /\ UNCHANGED <<prover, records, inserted, verdict, faulted, noir>>

\* Mutant: the status code of the prover's answer is not looked at, and a body without
\* "valid" reads as an invalid proof.
AnswersUnchecked(o) ==
    IF job[o].kind = "generate" THEN {"store", "failed"} ELSE {"update", "failed"}

\* Where a call can go from its request: on with a 200, which the Noir server never sends
\* to the paths the service uses, or to an error: another code, a body that does not
\* parse, no connection or no answer in 60 seconds.
Answers(o) ==
    LET path == IF job[o].kind = "generate" THEN "/api/v1/prove" ELSE "/api/v1/verify"
        next == IF job[o].kind = "generate" THEN "store" ELSE "update"
    IN  IF prover = "noir" /\ Route(path, "good") # 200 THEN {"failed"} ELSE {next, "failed"}

\* The prover's answer.  What is verified is the proof in the request, so that each
\* verification of a record has a verdict of its own.
Ask(o) ==
    /\ step[o] = "ask"
    /\ \E s \in Answers(o) :
           /\ Goto(o, s)
           /\ IF s = "update"
              THEN \E v \in {"verified", "invalid"} : verdict' = [verdict EXCEPT ![o] = v]
              ELSE UNCHANGED verdict
    /\ UNCHANGED <<prover, records, inserted, job, faulted, noir>>

\* ProofRepository.Create, with the status the prover sent along, whichever it is, or
\* "generated" when it sent none.  An INSERT that is reported as failed may have been made.
Store(o) ==
    /\ step[o] = "store"
    /\ \/ /\ \E s \in Statuses : Insert(job[o].proof, s)
          /\ \/ Goto(o, "done") /\ UNCHANGED faulted
             \/ Goto(o, "failed") /\ faulted' = faulted \cup {o}
       \/ Goto(o, "failed") /\ faulted' = faulted \cup {o} /\ UNCHANGED <<records, inserted>>
    /\ UNCHANGED <<prover, job, verdict, noir>>

\* Mutant: the record is marked before the verdict is looked at.
UpdateVerified(o) ==
    /\ step[o] = "update"
    /\ Goto(o, "done")
    /\ \/ records' = [records EXCEPT ![job[o].proof] = "verified"] /\ UNCHANGED faulted
       \/ faulted' = faulted \cup {o} /\ UNCHANGED records
    /\ UNCHANGED <<prover, inserted, job, verdict, noir>>

\* ProofRepository.UpdateStatus; when it fails, or is said to have failed, the caller is
\* told the verdict all the same.
Update(o) ==
    /\ step[o] = "update"
    /\ Goto(o, "done")
    /\ \/ /\ records' = [records EXCEPT ![job[o].proof] = verdict[o]]
          /\ faulted' \in {faulted, faulted \cup {o}}
       \/ faulted' = faulted \cup {o} /\ UNCHANGED records
    /\ UNCHANGED <<prover, inserted, job, verdict, noir>>

Next ==
    \/ \E p \in Proofs : InsertStub(p)
    \/ \E o \in Ops : \/ \E p \in Proofs : Generate(o, p) \/ Verify(o, p)
                      \/ Ask(o) \/ Store(o) \/ Update(o)
    \/ \E d \in Direct : \/ \E path \in Paths, body \in Bodies : Receive(d, path, body)
                         \/ LoadCircuit(d) \/ Finish(d)

Spec == Init /\ [][Next]_vars

-----------------------------------------------------------------------------
(* Properties. *)

TypeOK ==
    /\ prover \in {"noir", "conforming"}
    /\ records \in [Proofs -> Statuses \cup {None}]
    /\ inserted \in [Proofs -> Statuses \cup {None}]
    /\ job \in [Ops -> [kind : {"generate", "verify"}, proof : Proofs] \cup {None}]
    /\ step \in [Ops -> Steps]
    /\ verdict \in [Ops -> Verdicts]
    /\ faulted \subseteq Ops
    /\ asked \in [Direct -> Paths \cup {None}]
    /\ reply \in [Direct -> Codes]
    /\ proving \subseteq Direct
    /\ backends \subseteq Direct

\* A verification of p that has told its caller v, or is about to.
Told(o, p, v) ==
    step[o] \in {"update", "done"} /\ job[o] = [kind |-> "verify", proof |-> p] /\ verdict[o] = v

\* A record says "verified" or "invalid" because one of its verifications came to that, or
\* because the prover sent the word when it generated the proof, and a verdict a caller was
\* told is on record unless its UPDATE failed or another verification of the same record,
\* with another verdict, has overwritten it.
VerdictsAccounted ==
    \A p \in Proofs :
        /\ records[p] \in {"verified", "invalid"} =>
               inserted[p] = records[p] \/ \E o \in Ops : Told(o, p, records[p])
        /\ \A o \in Ops, v \in {"verified", "invalid"} :
               (Told(o, p, v) /\ step[o] = "done" /\ records[p] # v) =>
                   \/ o \in faulted
                   \/ \E w \in Ops \ {o} : Told(w, p, records[p]) /\ step[w] = "done"

\* Behind the prover of this repository the service stores nothing and decides nothing: a
\* record can only be the router's own, and it stays "generated".
NothingFromNoir ==
    prover = "noir" =>
        /\ \A o \in Ops : step[o] \in {"new", "ask", "failed"}
        /\ \A p \in Proofs : records[p] \in {None, "generated"}

\* A backend that is alive serves a request under way or is left over from one that failed;
\* one that succeeded has released its own.
BackendsReleased ==
    \A d \in Direct : d \in backends => d \in proving \/ reply[d] = 500

-----------------------------------------------------------------------------
(* The inductive invariant behind the safety properties. *)

\* A call past its start knows its job, one about to write does what its job asks for, and
\* a record that is verified exists.
JobsUnderWay ==
    \A o \in Ops :
        /\ step[o] # "new" => job[o] \in [kind : {"generate", "verify"}, proof : Proofs]
        /\ step[o] = "store" => job[o].kind = "generate"
        /\ step[o] = "update" => job[o].kind = "verify"
        /\ step[o] \in {"update", "done"} /\ job[o].kind = "verify" => verdict[o] # "none"
        /\ step[o] \in {"ask", "update", "done"} /\ job[o].kind = "verify" =>
               records[job[o].proof] # None

\* Nothing is held for a request that has not come, and one under way is not answered.
RequestsUnderWay ==
    \A d \in Direct : d \in proving \cup backends => asked[d] # None

IInv ==
    /\ TypeOK
    /\ JobsUnderWay
    /\ RequestsUnderWay
    /\ VerdictsAccounted
    /\ NothingFromNoir
    /\ BackendsReleased

=============================================================================
