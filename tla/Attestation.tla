---------------------------- MODULE Attestation -----------------------------
(***************************************************************************)
(* AttestationService.SubmitAttestation and the certificates it judges.    *)
(* A submission stores the certificates it carries one by one, inserts a   *)
(* "pending" record, answers, and leaves the verdict to a goroutine: the   *)
(* chain of the DEVICE (not of the submission) is validated, a proof is    *)
(* requested, and the record becomes "failed" or "verified".  Nothing      *)
(* watches the goroutine: it dies with the server, and its errors are      *)
(* logged.                                                                 *)
(***************************************************************************)
EXTENDS Naturals, FiniteSets

CONSTANTS Devices,
          Submissions,  \* attestation requests, each with its record's id
          Requests,     \* what a request may carry, see RequestsAssumption
          Pems,         \* certificates a PEM block parses to
          None,         \* an absent certificate, or one that does not parse
          MaxTime,      \* bound: the clock
          MaxMishaps    \* bound: failed calls, crashes, revocations and deletions

Slots == {"DAC", "PAI", "PAA"}

\* A subject or an issuer is a name with its key.  uses has "sign" for a CA that may
\* sign certificates, and "serverAuth" when no extended key usage rules TLS out.
ASSUME PemsAssumption ==
    \A c \in Pems :
        /\ DOMAIN c = {"serial", "subject", "issuer", "from", "to", "uses"}
        /\ c.from \in Nat /\ c.to \in Nat /\ c.uses \subseteq {"sign", "serverAuth"}

ASSUME RequestsAssumption ==
    Requests \subseteq [device : Devices, certs : [Slots -> Pems \cup {None}]]

ASSUME BoundsAssumption ==
    /\ MaxTime \in Nat /\ MaxMishaps \in Nat
    /\ None \notin Pems /\ None \notin Requests /\ None \notin Submissions

CertRow == [created : 0..MaxTime, status : {"active", "revoked"}]

ASSUME NoRowAssumption == None \notin CertRow

VARIABLES
    certs,   \* submission -> slot -> its certificates row, None when there is none
    live,    \* the devices GetByID finds
    req,     \* submission -> what it carries, None before it arrives
    step,    \* submission -> where its handler, then its goroutine, stands
    since,   \* submission -> when its handler last came back from the database
    judged,  \* submission -> slot -> whose row its goroutine has read, None for no row
    status,  \* submission -> attestation_records.status, "none" before the insert
    proofs,  \* submissions whose proof is in proof_records
    now,     \* the server's clock: it dates rows and judges certificates
    faults   \* failed calls and crashes so far

vars == <<certs, live, req, step, since, judged, status, proofs, now, faults>>

Steps == {"new", "DAC", "PAI", "PAA", "insert", "chain", "judge", "prove", "pass",
          "reject", "done", "refused", "unrecorded", "killed"}

RevokedRows == {row \in Submissions \X Slots :
                   /\ certs[row[1]][row[2]] # None
                   /\ certs[row[1]][row[2]].status = "revoked"}

Mishaps == faults + Cardinality(RevokedRows) + Cardinality(Devices \ live)

Fault == Mishaps < MaxMishaps /\ faults' = faults + 1

Goto(r, s) == step' = [step EXCEPT ![r] = s]

-----------------------------------------------------------------------------
(* CertificateRepository.GetDACChain: one query, whose result stays with the
   goroutine. *)

\* The submissions that have left the device a row for the slot.
OnFile(d, slot) == {r \in Submissions : certs[r][slot] # None /\ req[r].device = d}

Created(r, slot) == certs[r][slot].created

\* Mutant: the loop stops at the first row of the newest-first list.
ChosenNewest(d, slot) ==
    {r \in OnFile(d, slot) : \A s \in OnFile(d, slot) : Created(s, slot) <= Created(r, slot)}

\* The rows come newest first and the loop overwrites: the one with the least
\* created_at stays, and rows of one instant come in either order.
Chosen(d, slot) ==
    {r \in OnFile(d, slot) : \A s \in OnFile(d, slot) : Created(r, slot) <= Created(s, slot)}

\* What the query may leave in one slot.
Found(d, slot) == IF Chosen(d, slot) = {} THEN {None} ELSE Chosen(d, slot)

-----------------------------------------------------------------------------
(* CertificateService's judgement of three certificates. *)

InForce(c, t) == c.from <= t /\ t <= c.to

\* A parent of the chain being built: it signed c, it may sign, and it is not c again.
Signs(p, c) == p.subject = c.issuer /\ p.subject # c.subject /\ "sign" \in p.uses

ForServers(chain) == \A c \in chain : "serverAuth" \in c.uses

\* x509's c.Verify with one intermediate and one root, for TLS servers as VerifyOptions
\* says nothing else.  A certificate that is the root itself needs no signature.  Left
\* out: path lengths, name constraints and certificates older than version 3.
Verify(c, inter, root) ==
    IF c = root
    THEN ForServers({c})
    ELSE \/ Signs(root, c) /\ ForServers({c, root})
         \/ /\ Signs(inter, c) /\ Signs(root, inter) /\ root.subject # c.subject
            /\ ForServers({c, inter, root})

\* The two Verify calls: DAC by way of PAI to the root PAA, PAI to the root PAA.
Linked(chain) ==
    /\ Verify(chain["DAC"], chain["PAI"], chain["PAA"])
    /\ Verify(chain["PAI"], chain["PAA"], chain["PAA"])

\* The certificates of the rows that a choice of submissions names.
Pem(choice) == [slot \in Slots |-> req[choice[slot]].certs[slot]]

\* Certificate.Status is not looked at: a chain is three PEM blocks.
Acceptable(chain, t) ==
    /\ \A slot \in Slots : InForce(chain[slot], t)
    /\ Linked(chain)

\* What ValidateCertificateChain says of the rows its goroutine has read.
ChainPasses(r) ==
    /\ None \notin {judged[r][slot] : slot \in Slots}
    /\ Acceptable(Pem(judged[r]), now)

-----------------------------------------------------------------------------
Init ==
    /\ certs  = [r \in Submissions |-> [slot \in Slots |-> None]]
    /\ live   = Devices
    /\ req    = [r \in Submissions |-> None]
    /\ step   = [r \in Submissions |-> "new"]
    /\ since  = [r \in Submissions |-> 0]
    /\ judged = [r \in Submissions |-> [slot \in Slots |-> None]]
    /\ status = [r \in Submissions |-> "none"]
    /\ proofs = {}
    /\ now    = 0
    /\ faults = 0

\* Mutant: an unknown device is accepted and its request not kept.
SubmitUnparsed(r, q) ==
    /\ step[r] = "new"
    /\ Goto(r, "DAC")
    /\ UNCHANGED <<certs, live, req, since, judged, status, proofs, now, faults>>

\* The device is looked up once; its row is not read again.
Submit(r, q) ==
    /\ step[r] = "new"
    /\ q.device \in live
    /\ req' = [req EXCEPT ![r] = q]
    /\ since' = [since EXCEPT ![r] = now]
    /\ Goto(r, "DAC")
    /\ UNCHANGED <<certs, live, judged, status, proofs, now, faults>>

AfterSlot == [DAC |-> "PAI", PAI |-> "PAA", PAA |-> "insert"]

\* gorm dates the row in the process before the INSERT, so a row may appear after
\* younger ones.
Insert(r, slot) ==
    \E t \in since[r]..now :
        certs' = [certs EXCEPT ![r][slot] = [created |-> t, status |-> "active"]]

\* SubmitCertificate for one slot: an empty or unreadable PEM, or a failed insert,
\* is a warning and the submission goes on without it.
StoreCert(r) ==
    /\ step[r] \in Slots
    /\ LET c == req[r].certs[step[r]]
       IN  \/ c # None /\ Insert(r, step[r]) /\ UNCHANGED faults
           \/ c # None /\ Fault /\ UNCHANGED certs
           \/ c = None /\ UNCHANGED <<certs, faults>>
    /\ since' = [since EXCEPT ![r] = now]
    /\ Goto(r, AfterSlot[step[r]])
    /\ UNCHANGED <<live, req, judged, status, proofs, now>>

\* The record is inserted, the goroutine started, the request answered.
InsertRecord(r) ==
    /\ step[r] = "insert"
    /\ \/ /\ status' = [status EXCEPT ![r] = "pending"]
          /\ Goto(r, "chain")
          /\ UNCHANGED faults
       \/ Fault /\ Goto(r, "refused") /\ UNCHANGED status
    /\ since' = [since EXCEPT ![r] = now]
    /\ UNCHANGED <<certs, live, req, judged, proofs, now>>

\* GetDACChain; an error of the query rejects the submission.
ReadChain(r) ==
    /\ step[r] = "chain"
    /\ \/ /\ \E dac \in Found(req[r].device, "DAC"), pai \in Found(req[r].device, "PAI"),
                paa \in Found(req[r].device, "PAA") :
                judged' = [judged EXCEPT ![r] = [DAC |-> dac, PAI |-> pai, PAA |-> paa]]
          /\ Goto(r, "judge")
          /\ UNCHANGED faults
       \/ Fault /\ Goto(r, "reject") /\ UNCHANGED judged
    /\ UNCHANGED <<certs, live, req, since, status, proofs, now>>

\* Mutant: an error of the validation is logged, and the record forgotten.
JudgeChainLogsOnly(r) ==
    /\ step[r] = "judge"
    /\ Goto(r, IF ChainPasses(r) THEN "prove" ELSE "done")
    /\ UNCHANGED <<certs, live, req, since, judged, status, proofs, now, faults>>

\* Mutant: the return is missing after the error of the validation is logged.
JudgeChainNoReturn(r) ==
    /\ step[r] = "judge"
    /\ Goto(r, "prove")
    /\ UNCHANGED <<certs, live, req, since, judged, status, proofs, now, faults>>

\* The rest of ValidateCertificateChain, at the time it has become by then.
JudgeChain(r) ==
    /\ step[r] = "judge"
    /\ Goto(r, IF ChainPasses(r) THEN "prove" ELSE "reject")
    /\ UNCHANGED <<certs, live, req, since, judged, status, proofs, now, faults>>

\* Mutant: the proof is requested after the verdict.
GenerateProofLater(r) ==
    /\ step[r] = "prove"
    /\ Goto(r, "pass")
    /\ UNCHANGED <<certs, live, req, since, judged, status, proofs, now, faults>>

\* ZKService.GenerateProof: the prover answers and the proof is stored, or an error
\* of either is logged; the verdict does not depend on it.
GenerateProof(r) ==
    /\ step[r] = "prove"
    /\ \/ proofs' = proofs \cup {r} /\ UNCHANGED faults
       \/ Fault /\ UNCHANGED proofs
    /\ Goto(r, "pass")
    /\ UNCHANGED <<certs, live, req, since, judged, status, now>>

Verdict(r) == IF step[r] = "pass" THEN "verified" ELSE "failed"

\* Mutant: no return after a failed validation, so "verified" follows "failed".
RecordVerdictFallsThrough(r) ==
    /\ step[r] \in {"pass", "reject"}
    /\ status' = [status EXCEPT ![r] = Verdict(r)]
    /\ Goto(r, IF step[r] = "reject" THEN "prove" ELSE "done")
    /\ UNCHANGED <<certs, live, req, since, judged, proofs, now, faults>>

\* UpdateStatus, the goroutine's last call; its error is logged.
RecordVerdict(r) ==
    /\ step[r] \in {"pass", "reject"}
    /\ \/ /\ status' = [status EXCEPT ![r] = Verdict(r)]
          /\ Goto(r, "done")
          /\ UNCHANGED faults
       \/ Fault /\ Goto(r, "unrecorded") /\ UNCHANGED status
    /\ UNCHANGED <<certs, live, req, since, judged, proofs, now>>

\* The row is read and saved with another status, which nothing looks at.
RevokeCertificate(r, slot) ==
    /\ certs[r][slot] # None
    /\ certs[r][slot].status = "active"
    /\ Mishaps < MaxMishaps
    /\ certs' = [certs EXCEPT ![r][slot].status = "revoked"]
    /\ UNCHANGED <<live, req, step, since, judged, status, proofs, now, faults>>

DeleteDevice(d) ==
    /\ d \in live
    /\ Mishaps < MaxMishaps
    /\ live' = live \ {d}
    /\ UNCHANGED <<certs, req, step, since, judged, status, proofs, now, faults>>

Tick ==
    /\ now < MaxTime
    /\ now' = now + 1
    /\ UNCHANGED <<certs, live, req, step, since, judged, status, proofs, faults>>

Running(r) == step[r] \notin {"new", "done", "refused", "unrecorded", "killed"}

\* The server dies: handlers and goroutines are gone, and nothing resumes them.
Crash ==
    /\ \E r \in Submissions : Running(r)
    /\ Fault
    /\ step' = [r \in Submissions |-> IF Running(r) THEN "killed" ELSE step[r]]
    /\ UNCHANGED <<certs, live, req, since, judged, status, proofs, now>>

Next ==
    \/ \E r \in Submissions :
        \/ \E q \in Requests : Submit(r, q)
        \/ StoreCert(r) \/ InsertRecord(r) \/ ReadChain(r) \/ JudgeChain(r)
        \/ GenerateProof(r) \/ RecordVerdict(r)
        \/ \E slot \in Slots : RevokeCertificate(r, slot)
    \/ \E d \in Devices : DeleteDevice(d)
    \/ Tick
    \/ Crash

\* A goroutine that can run is scheduled, and the prover's client times out after a
\* minute, so each of its steps is eventually taken.
Fairness ==
    \A r \in Submissions :
        /\ WF_vars(ReadChain(r))
        /\ WF_vars(JudgeChain(r))
        /\ WF_vars(GenerateProof(r))
        /\ WF_vars(RecordVerdict(r))

Spec == Init /\ [][Next]_vars /\ Fairness

-----------------------------------------------------------------------------
(* Properties. *)

\* Every variable has its type, and a submission under way has its request.
TypeOK ==
    /\ certs \in [Submissions -> [Slots -> CertRow \cup {None}]]
    /\ live \subseteq Devices
    /\ req \in [Submissions -> Requests \cup {None}]
    /\ step \in [Submissions -> Steps]
    /\ since \in [Submissions -> 0..MaxTime]
    /\ judged \in [Submissions -> [Slots -> Submissions \cup {None}]]
    /\ status \in [Submissions -> {"none", "pending", "verified", "failed"}]
    /\ proofs \subseteq Submissions
    /\ now \in 0..MaxTime
    /\ faults \in Nat
    /\ \A r \in Submissions : step[r] # "new" => req[r] # None

\* Rows on file make up a chain that was acceptable after the record was inserted.
Backed(r) ==
    \E choice \in [Slots -> Submissions] :
        /\ \A slot \in Slots : choice[slot] \in OnFile(req[r].device, slot)
        /\ \E t \in since[r]..now : Acceptable(Pem(choice), t)

\* A verified record stays backed by the certificates on file: its device has a DAC,
\* a PAI and a PAA that x509 links up, and all three were in force at one moment after
\* the record was inserted, whatever was submitted, dated, revoked or read meanwhile.
VerifiedHasChain ==
    \A r \in Submissions : status[r] = "verified" => Backed(r)

\* A verdict is final: no submission, crash or later certificate changes it.
VerdictFinal ==
    [][\A r \in Submissions :
         status[r] \in {"verified", "failed"} => status'[r] = status[r]]_vars

\* A renewal is never looked at: of two goroutines that read the chain of one device,
\* the later one finds every slot filled that the earlier one found filled, by the same
\* certificate or one that was dated no later.
ChainNeverRenewed ==
    [][\A r, s \in Submissions :
         /\ step[s] = "chain" /\ step'[s] = "judge"
         /\ req[s] # None /\ req[r] # None /\ req[r].device = req[s].device
         => \A slot \in Slots :
                judged[r][slot] # None =>
                    /\ judged'[s][slot] # None
                    /\ Created(judged'[s][slot], slot) <= Created(judged[r][slot], slot)]_vars

\* A verified record without a proof on file means that a call failed on the way.
ProofMissingExplained ==
    \A r \in Submissions : status[r] = "verified" /\ r \notin proofs => faults > 0

\* Every pending record gets its verdict, unless the server died under its goroutine
\* or the verdict's UPDATE failed: nothing else leaves a record pending.
PendingSettles ==
    \A r \in Submissions :
        status[r] = "pending" ~>
            status[r] \in {"verified", "failed"} \/ step[r] \in {"killed", "unrecorded"}

\* "Verify incomplete certificate chain is rejected": a submission that lacks one of
\* the three certificates does not end up verified.
IncompleteChainRejected ==
    \A r \in Submissions :
        status[r] = "verified" => \A slot \in Slots : req[r].certs[slot] # None

-----------------------------------------------------------------------------
(* The inductive invariant behind the safety properties. *)

\* The record is where its submission has brought it.
RecordTracksStep ==
    \A r \in Submissions :
        /\ step[r] \in {"new", "insert", "refused"} \cup Slots => status[r] = "none"
        /\ step[r] \in {"chain", "judge", "prove", "pass", "reject", "unrecorded"} =>
              status[r] = "pending"
        /\ step[r] = "killed" => status[r] \in {"none", "pending"}

\* A goroutine knows only rows on file, of its own device.
JudgedOnFile ==
    \A r \in Submissions, slot \in Slots :
        judged[r][slot] # None =>
            /\ step[r] # "new"
            /\ judged[r][slot] \in OnFile(req[r].device, slot)

StoredBefore == [DAC |-> {}, PAI |-> {"DAC"}, PAA |-> {"DAC", "PAI"}]

\* A row belongs to a submission that has arrived and has been through its slot.
RowsInOrder ==
    \A r \in Submissions, slot \in Slots :
        certs[r][slot] # None =>
            /\ step[r] # "new"
            /\ step[r] \in Slots => slot \in StoredBefore[step[r]]

\* The clock has not gone back since a handler last looked.
SinceBehind == \A r \in Submissions : since[r] <= now

\* A submission that is going to be verified has been through the proof and the chain.
PassEarned ==
    \A r \in Submissions :
        /\ step[r] = "pass" => r \in proofs \/ faults > 0
        /\ step[r] \in {"prove", "pass"} => Backed(r)

IInv ==
    /\ TypeOK
    /\ RecordTracksStep
    /\ RowsInOrder
    /\ JudgedOnFile
    /\ SinceBehind
    /\ PassEarned
    /\ ProofMissingExplained
    /\ VerifiedHasChain

=============================================================================
