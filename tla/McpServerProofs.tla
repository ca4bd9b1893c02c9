--------------------------- MODULE McpServerProofs --------------------------
(***************************************************************************)
(* TLAPS proofs about McpServer, for any number of processes and calls and *)
(* whatever is asked.                                                      *)
(***************************************************************************)
EXTENDS McpServer, TLAPS

\* A resource read names no tool.
LEMMA ReadsNameNoTool ==
    ASSUME NEW what \in Asks
    PROVE  /\ what.kind \in {"tool", "read"}
           /\ what.kind = "read" => what.name = "other"
BY AsksAssumption DEF Whats, ToolCall, ReadCall

\* No process runs and nothing has been asked at the start.
LEMMA InitIInv == Init => IInv
BY NoneAssumption
   DEF Init, IInv, TypeOK, OneProcessServes, RequestsAccounted, AnswersTruthful,
       Writes, ProcStates, Stages, Requests

\* Abandoning the calls of a process answers none of them and asks nothing.
LEMMA AbandonKeeps ==
    ASSUME IInv, NEW i \in Instances, Abandon(i), UNCHANGED <<call, request, rows, faulted>>
    PROVE  /\ stage' \in [Calls -> Stages]
           /\ \A c \in Calls : /\ call[c] = None <=> stage'[c] = "new"
                               /\ request[c] # "none" => stage'[c] \notin {"new", "sent"}
           /\ RequestsAccounted'
           /\ AnswersTruthful'
<1> USE DEF IInv, TypeOK, Abandon
<1>1. \A c \in Calls : stage'[c] = stage[c] \/ (stage[c] \in {"sent", "asked"} /\ stage'[c] = "killed")
  OBVIOUS
<1>2. stage' \in [Calls -> Stages]
  BY DEF Stages
<1>3. \A c \in Calls : /\ call[c] = None <=> stage'[c] = "new"
                       /\ request[c] # "none" => stage'[c] \notin {"new", "sent"}
  BY <1>1
<1>4. RequestsAccounted'
  BY <1>1 DEF RequestsAccounted, Writes
<1>5. AnswersTruthful'
  BY <1>1 DEF AnswersTruthful, Writes
<1>6. QED
  BY <1>2, <1>3, <1>4, <1>5

-----------------------------------------------------------------------------

\* A process that starts, listens, is left alone or killed preserves the invariant.
LEMMA ProcessesKeepIInv ==
    ASSUME IInv, NEW i \in Instances, Start(i) \/ Listen(i) \/ HangUp(i) \/ Kill(i)
    PROVE  IInv'
<1> USE NoneAssumption DEF IInv
<1>1. CASE Start(i)
  <2> USE <1>1 DEF Start
  <2>1. TypeOK'
    BY DEF TypeOK, ProcStates
  <2>2. OneProcessServes'
    BY DEF TypeOK, OneProcessServes
  <2>3. RequestsAccounted' /\ AnswersTruthful'
    BY DEF RequestsAccounted, AnswersTruthful, Writes
  <2>4. QED
    BY <2>1, <2>2, <2>3
<1>2. CASE Listen(i)
  <2> USE <1>2 DEF Listen
  <2>1. CASE port = None
    <3>1. TypeOK'
      BY <2>1 DEF TypeOK, ProcStates
    <3>2. OneProcessServes'
      BY <2>1 DEF TypeOK, OneProcessServes
    <3>3. RequestsAccounted' /\ AnswersTruthful'
      BY <2>1 DEF RequestsAccounted, AnswersTruthful, Writes
    <3>4. QED
      BY <3>1, <3>2, <3>3
  <2>2. CASE port # None
    <3>1. TypeOK'
      BY <2>2, AbandonKeeps DEF TypeOK, ProcStates
    <3>2. OneProcessServes'
      BY <2>2 DEF TypeOK, OneProcessServes
    <3>3. QED
      BY <2>2, <3>1, <3>2, AbandonKeeps
  <2>3. QED
    BY <2>1, <2>2
<1>3. CASE HangUp(i)
  <2> USE <1>3 DEF HangUp
  <2>1. TypeOK'
    BY AbandonKeeps DEF TypeOK, ProcStates
  <2>2. OneProcessServes'
    BY DEF TypeOK, OneProcessServes
  <2>3. QED
    BY <2>1, <2>2, AbandonKeeps
<1>4. CASE Kill(i)
  <2> USE <1>4 DEF Kill
  <2>1. TypeOK'
    BY AbandonKeeps DEF TypeOK, ProcStates
  <2>2. OneProcessServes'
    BY DEF TypeOK, OneProcessServes
  <2>3. QED
    BY <2>1, <2>2, AbandonKeeps
<1>5. QED
  BY <1>1, <1>2, <1>3, <1>4

\* The steps of a call, and of the backend behind it, preserve the invariant.
LEMMA CallsKeepIInv ==
    ASSUME IInv, NEW c \in Calls,
           \/ \E i \in Instances, what \in Asks : Send(c, i, what)
           \/ Handle(c) \/ Backend(c) \/ Answer(c)
    PROVE  IInv'
<1> USE NoneAssumption DEF IInv
<1>0. OneProcessServes'
  BY DEF OneProcessServes, Send, Handle, Backend, Answer
<1>1. CASE \E i \in Instances, what \in Asks : Send(c, i, what)
  <2>0. PICK i \in Instances, what \in Asks : Send(c, i, what)
    BY <1>1
  <2> USE <2>0 DEF Send
  <2>1. [inst |-> i, what |-> what] \in [inst : Instances, what : Asks]
    OBVIOUS
  <2>2. TypeOK'
    BY <2>1 DEF TypeOK, Stages
  <2>3. request[c] = "none" /\ c \notin rows
    BY DEF TypeOK, RequestsAccounted
  <2>4. RequestsAccounted'
    BY <2>3 DEF TypeOK, RequestsAccounted, Writes
  <2>5. AnswersTruthful'
    BY DEF TypeOK, AnswersTruthful, Writes
  <2>6. QED
    BY <1>0, <2>2, <2>4, <2>5
<1>2. CASE Handle(c)
  <2> USE <1>2 DEF Handle
  <2>1. TypeOK'
    BY DEF TypeOK, Stages, Requests
  <2>2. request[c] = "none" /\ c \notin rows
    BY DEF TypeOK, RequestsAccounted
  <2>3. RequestsAccounted'
    BY <2>2 DEF TypeOK, RequestsAccounted, Writes
  <2>4. AnswersTruthful'
    BY <2>2 DEF TypeOK, AnswersTruthful, Writes
  <2>5. QED
    BY <1>0, <2>1, <2>3, <2>4
<1>3. CASE Backend(c)
  <2>1. TypeOK'
    BY <1>3 DEF Backend, TypeOK, Requests
  <2>2. /\ request[c] = "pending"
        /\ call[c].what \in Asks
        /\ UNCHANGED <<call, stage>>
        /\ faulted \subseteq faulted'
        /\ request' \in [Calls -> Requests]
        /\ request'[c] \in {"2xx", "refused"}
        /\ \A e \in Calls \ {c} : request'[e] = request[e] /\ (e \in rows' <=> e \in rows)
    BY <1>3, <2>1 DEF Backend, TypeOK
  <2>3. request'[c] = "2xx" => call[c].what.name \notin Unserved
    BY <1>3, <2>2, ReadsNameNoTool DEF Backend, TypeOK, Unserved
  <2>4. c \notin rows /\ stage[c] # "ok" /\ (stage[c] = "error" => c \in faulted)
    BY <2>2 DEF RequestsAccounted, AnswersTruthful
  <2>5. /\ request'[c] = "2xx" /\ Writes(c) => c \in rows'
        /\ c \in rows' => request'[c] = "2xx" \/ c \in faulted'
    BY <1>3, <2>2, <2>4 DEF Backend, TypeOK
  <2>6. RequestsAccounted'
    BY <2>2, <2>3, <2>5 DEF RequestsAccounted, Writes
  <2>7. AnswersTruthful'
    BY <2>2, <2>4 DEF AnswersTruthful, Writes
  <2>8. QED
    BY <1>0, <2>1, <2>6, <2>7
<1>4. CASE Answer(c)
  <2> USE <1>4 DEF Answer
  <2>1. TypeOK'
    BY DEF TypeOK, Stages
  <2>2. RequestsAccounted'
    BY DEF TypeOK, RequestsAccounted, Writes
  <2>3. AnswersTruthful'
    BY DEF TypeOK, RequestsAccounted, AnswersTruthful, Writes
  <2>4. QED
    BY <1>0, <2>1, <2>2, <2>3
<1>5. QED
  BY <1>1, <1>2, <1>3, <1>4

\* Every step preserves the invariant.
LEMMA NextIInv == IInv /\ [Next]_vars => IInv'
<1> SUFFICES ASSUME IInv, [Next]_vars PROVE IInv'
  OBVIOUS
<1>1. ASSUME NEW i \in Instances, Start(i) \/ Listen(i) \/ HangUp(i) \/ Kill(i)
      PROVE  IInv'
  BY <1>1, ProcessesKeepIInv
<1>2. ASSUME NEW c \in Calls,
             \/ \E i \in Instances, what \in Asks : Send(c, i, what)
             \/ Handle(c) \/ Backend(c) \/ Answer(c)
      PROVE  IInv'
  BY <1>2, CallsKeepIInv
<1>3. CASE UNCHANGED vars
  BY <1>3 DEF vars, IInv, TypeOK, OneProcessServes, RequestsAccounted, AnswersTruthful,
     Writes
<1>4. QED
  BY <1>1, <1>2, <1>3 DEF Next

-----------------------------------------------------------------------------

\* The inductive invariant holds in every reachable state.
THEOREM Invariance == Spec => []IInv
<1>1. Init => IInv
  BY InitIInv
<1>2. IInv /\ [Next]_vars => IInv'
  BY NextIInv
<1>3. QED
  BY <1>1, <1>2, PTL DEF Spec

\* Every variable keeps its type, and nothing that handleToolCall or handleResourceRead
\* turns away ever reaches the backend.
THEOREM TypeCorrect == Spec => []TypeOK
<1>1. IInv => TypeOK
  BY DEF IInv
<1>2. QED
  BY Invariance, <1>1, PTL

\* A result means that the backend answered 2xx, of create_attestation with the record on
\* file; a record on file behind an error means a late or lost reply.
THEOREM ClientsToldTruth == Spec => []AnswersTruthful
<1>1. IInv => AnswersTruthful
  BY DEF IInv
<1>2. QED
  BY Invariance, <1>1, PTL

\* However many clients start the server, one process at most gets past its start.
THEOREM PortExclusive == Spec => []OneProcessServes
<1>1. IInv => OneProcessServes
  BY DEF IInv
<1>2. QED
  BY Invariance, <1>1, PTL

=============================================================================
