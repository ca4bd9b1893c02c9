----------------------------- MODULE McpServer ------------------------------
(***************************************************************************)
(* The MCP server: a process per client, which speaks to it over its       *)
(* standard streams, answers its calls with requests to the backend and    *)
(* keeps a health port that is the same for every process.                 *)
(***************************************************************************)
EXTENDS Integers, Sequences, FiniteSets

CONSTANTS Instances,   \* processes that clients start
          Calls,       \* what clients may ask for, once each; a retry is another call
          Asks,        \* what these calls may be, of the Whats below
          None

VARIABLES
    proc,      \* process -> what has become of it
    port,      \* the process that listens on MCP_SERVER_PORT
    call,      \* call -> the request, None before it is made
    stage,     \* call -> how far it has got
    request,   \* call -> its request at the backend
    rows,      \* attestation_records: the calls whose request inserted one
    faulted    \* history: calls with a reply late or lost, the backend's or its database's

vars == <<proc, port, call, stage, request, rows, faulted>>


ProcStates == {"off", "connected", "serving", "orphan", "dead"}
Stages     == {"new", "sent", "asked", "ok", "error", "killed"}
Requests   == {"none", "pending", "2xx", "refused"}

\* What a client may send along: no arguments object, one that lacks a required field or
\* has one of the wrong type, or a good one.
Arguments == {"absent", "incomplete", "complete"}

\* The arguments each tool's schema requires.
Required ==
    [list_devices         |-> {},
     get_device           |-> {"device_id"},
     create_attestation   |-> {"device_id", "dac_certificate"},
     verify_proof         |-> {"proof_data", "public_inputs"},
     check_compliance     |-> {"device_id"},
     find_similar_devices |-> {"device_id"}]

Tools == DOMAIN Required

\* Names a client may call, one that is no tool among them.
Names == Tools \cup {"other"}

ToolCall(name, args) == [kind |-> "tool", name |-> name, args |-> args, uri |-> << >>]
ReadCall(uri)        == [kind |-> "read", name |-> "other", args |-> "absent", uri |-> uri]

-----------------------------------------------------------------------------
(* Resources.  A URI and a template are sequences of tokens. *)

\* The templates listResources publishes.
Templates ==
    {<<"device", ":", "//", "{id}">>, <<"attestation", ":", "//", "{id}">>,
     <<"proof", ":", "//", "{id}">>,
     <<"devices", ":", "//", "lis", "t", "?", "status=", "{status}">>}

Values == {"v"}   \* what a client puts in the place of a placeholder

IsPlaceholder(token) == token \in {"{id}", "{status}"}

\* The URIs a client makes of a template.
UrisOf(template) ==
    {[i \in DOMAIN template |-> IF IsPlaceholder(template[i]) THEN v ELSE template[i]] : v \in Values}

Schemes == {"device", "attestation", "proof"}

\* URIs a client may send: those of the templates, the template of the list itself without
\* its question mark, and addresses with a doubled colon.
Uris ==
    UNION {UrisOf(t) : t \in Templates}
        \cup {<<"devices", ":", "//", "lis", "t", "status=", "{status}">>}
        \cup {<<s, ":", ":", "//", v>> : s \in Schemes, v \in Values}

AnyValue == "([^/]+)"

\* The pattern handleResourceRead builds: "//{id}" becomes "://([^/]+)" although the
\* template has the colon already, and a placeholder behind "status=" stays what it is.
Pattern(template) ==
    LET n == Len(template)
    IN  IF template[n - 1] = "//" /\ IsPlaceholder(template[n])
        THEN SubSeq(template, 1, n - 2) \o <<":", "//", AnyValue>>
        ELSE template

\* As a regular expression the pattern takes its question mark for a quantifier.
Readings(pattern) ==
    IF \A i \in DOMAIN pattern : pattern[i] # "?" THEN {pattern}
    ELSE LET k == CHOOSE i \in DOMAIN pattern : pattern[i] = "?"
             rest == SubSeq(pattern, k + 1, Len(pattern))
         IN  {SubSeq(pattern, 1, k - 1) \o rest, SubSeq(pattern, 1, k - 2) \o rest}

Matches(pattern, uri) ==
    \E r \in Readings(pattern) :
        /\ Len(r) = Len(uri)
        /\ \A i \in DOMAIN r : r[i] = uri[i] \/ (r[i] = AnyValue /\ uri[i] \in Values)

HasResource(uri) == \E t \in Templates : Matches(Pattern(t), uri)

\* Everything a client may ask for.
Whats ==
    {ToolCall(n, a) : n \in Names, a \in Arguments} \cup {ReadCall(u) : u \in Uris}

ASSUME AsksAssumption == Asks \subseteq Whats

ASSUME NoneAssumption == None \notin Instances \cup [inst : Instances, what : Asks]

-----------------------------------------------------------------------------
(* The processes. *)

Init ==
    /\ proc    = [i \in Instances |-> "off"]
    /\ port    = None
    /\ call    = [c \in Calls |-> None]
    /\ stage   = [c \in Calls |-> "new"]
    /\ request = [c \in Calls |-> "none"]
    /\ rows    = {}
    /\ faulted = {}

Of(i) == {c \in Calls : call[c] # None /\ call[c].inst = i}

\* The calls of a process that is gone stay unanswered.
Abandon(i) ==
    stage' = [c \in Calls |-> IF c \in Of(i) /\ stage[c] \in {"sent", "asked"}
                              THEN "killed" ELSE stage[c]]

\* A client starts a process; it is connected before it listens.
Start(i) ==
    /\ proc[i] \in {"off", "dead"}
    /\ proc' = [proc EXCEPT ![i] = "connected"]
    /\ UNCHANGED <<port, call, stage, request, rows, faulted>>

\* Mutant: the error of a port in use is handled, and the process goes on without it.
ListenOrGoOn(i) ==
    /\ proc[i] = "connected"
    /\ proc' = [proc EXCEPT ![i] = "serving"]
    /\ port' = IF port = None THEN i ELSE port
    /\ UNCHANGED <<call, stage, request, rows, faulted>>

\* httpServer.listen: nothing handles the error of a port in use, which ends the process.
Listen(i) ==
    /\ proc[i] = "connected"
    /\ IF port = None
       THEN proc' = [proc EXCEPT ![i] = "serving"] /\ port' = i /\ UNCHANGED stage
       ELSE proc' = [proc EXCEPT ![i] = "dead"] /\ Abandon(i) /\ UNCHANGED port
    /\ UNCHANGED <<call, request, rows, faulted>>

\* The client closes the streams: the health server keeps the process, and the port.
HangUp(i) ==
    /\ proc[i] = "serving"
    /\ proc' = [proc EXCEPT ![i] = "orphan"]
    /\ Abandon(i)
    /\ UNCHANGED <<port, call, request, rows, faulted>>

\* Somebody kills the process.
Kill(i) ==
    /\ proc[i] \in {"serving", "orphan"}
    /\ proc' = [proc EXCEPT ![i] = "off"]
    /\ port' = None
    /\ Abandon(i)
    /\ UNCHANGED <<call, request, rows, faulted>>

-----------------------------------------------------------------------------
(* Calls. *)

Send(c, i, what) ==
    /\ stage[c] = "new"
    /\ proc[i] \in {"connected", "serving"}
    /\ call' = [call EXCEPT ![c] = [inst |-> i, what |-> what]]
    /\ stage' = [stage EXCEPT ![c] = "sent"]
    /\ UNCHANGED <<proc, port, request, rows, faulted>>

\* The schema's parse: without an arguments object it fails even if nothing is required.
Parses(what) ==
    \/ what.args = "complete"
    \/ what.args = "incomplete" /\ Required[what.name] = {}

\* handleToolCall and handleResourceRead up to their request: a name, arguments or a URI
\* that are not good are an error, every other call asks the backend.
Accepted(what) ==
    IF what.kind = "tool" THEN what.name \in Tools /\ Parses(what) ELSE HasResource(what.uri)

\* Mutant: the request goes out before the arguments are looked at.
HandleUnparsed(c) ==
    /\ stage[c] = "sent"
    /\ stage' = [stage EXCEPT ![c] = "asked"]
    /\ request' = [request EXCEPT ![c] = "pending"]
    /\ UNCHANGED <<proc, port, call, rows, faulted>>

Handle(c) ==
    /\ stage[c] = "sent"
    /\ IF Accepted(call[c].what)
       THEN /\ stage' = [stage EXCEPT ![c] = "asked"]
            /\ request' = [request EXCEPT ![c] = "pending"]
       ELSE stage' = [stage EXCEPT ![c] = "error"] /\ UNCHANGED request
    /\ UNCHANGED <<proc, port, call, rows, faulted>>

\* The tool whose request the backend's router cannot answer 2xx, whoever asks: what it
\* sends never names a proof.  (Nothing is said of find_similar_devices: no route serves
\* /devices/{id}/similar, but the id goes into the path as it comes.)
Unserved == {"verify_proof"}

Writes(c) == call[c].what.name = "create_attestation"

\* The backend works the request off, whether or not the server still waits for it.  The
\* router takes bearer tokens only, and not the key the server sends: it refuses whatever
\* nothing on the way has added a token to.  A resource read with a doubled colon asks for
\* "/v", which is no id.  An INSERT may be committed and still be answered with an error,
\* when its reply to the backend is lost.
Backend(c) ==
    /\ request[c] = "pending"
    /\ \/ /\ call[c].what.kind = "tool" => call[c].what.name \notin Unserved
          /\ call[c].what.kind = "read" => call[c].what.uri[1] = "devices"
          /\ request' = [request EXCEPT ![c] = "2xx"]
          /\ rows' = IF Writes(c) THEN rows \cup {c} ELSE rows
          /\ UNCHANGED faulted
       \/ request' = [request EXCEPT ![c] = "refused"] /\ UNCHANGED <<rows, faulted>>
       \/ /\ Writes(c)
          /\ request' = [request EXCEPT ![c] = "refused"]
          /\ rows' = rows \cup {c}
          /\ faulted' = faulted \cup {c}
    /\ UNCHANGED <<proc, port, call, stage>>

\* Mutant: axios is told to accept every status.
AnswerUnchecked(c) ==
    /\ stage[c] = "asked"
    /\ \/ /\ request[c] \in {"2xx", "refused"}
          /\ stage' = [stage EXCEPT ![c] = "ok"]
          /\ UNCHANGED faulted
       \/ /\ stage' = [stage EXCEPT ![c] = "error"]
          /\ faulted' = faulted \cup {c}
    /\ UNCHANGED <<proc, port, call, request, rows>>

\* Mutant: the HTTP client waits for ever.
AnswerWithoutTimeout(c) ==
    /\ stage[c] = "asked"
    /\ request[c] \in {"2xx", "refused"}
    /\ stage' = [stage EXCEPT ![c] = IF request[c] = "2xx" THEN "ok" ELSE "error"]
    /\ UNCHANGED <<proc, port, call, request, rows, faulted>>

\* The answer to the client, once the backend's has come, or the 30 seconds of the HTTP
\* client are over or the connection is lost: then the request may still be worked off.
\* A resource read answers an error as the text of the resource.
Answer(c) ==
    /\ stage[c] = "asked"
    /\ \/ /\ request[c] \in {"2xx", "refused"}
          /\ stage' = [stage EXCEPT ![c] = IF request[c] = "2xx" THEN "ok" ELSE "error"]
          /\ UNCHANGED faulted
       \/ /\ stage' = [stage EXCEPT ![c] = "error"]
          /\ faulted' = faulted \cup {c}
    /\ UNCHANGED <<proc, port, call, request, rows>>

Next ==
    \/ \E i \in Instances : Start(i) \/ Listen(i) \/ HangUp(i) \/ Kill(i)
    \/ \E c \in Calls : \/ \E i \in Instances, what \in Asks : Send(c, i, what)
                        \/ Handle(c) \/ Backend(c) \/ Answer(c)

\* The event loop runs, and the HTTP client's timeout ends every wait.
Fairness ==
    /\ \A i \in Instances : WF_vars(Listen(i))
    /\ \A c \in Calls : WF_vars(Handle(c)) /\ WF_vars(Answer(c))

Spec == Init /\ [][Next]_vars /\ Fairness

-----------------------------------------------------------------------------
(* Properties. *)

\* The type invariant: what a call asks is known once it was sent, and only a call with a
\* name, arguments or a URI that are good has had a request at the backend.
TypeOK ==
    /\ proc \in [Instances -> ProcStates]
    /\ port \in Instances \cup {None}
    /\ call \in [Calls -> [inst : Instances, what : Asks] \cup {None}]
    /\ stage \in [Calls -> Stages]
    /\ request \in [Calls -> Requests]
    /\ rows \subseteq Calls
    /\ faulted \subseteq Calls
    /\ \A c \in Calls :
           /\ call[c] = None <=> stage[c] = "new"
           /\ request[c] # "none" => stage[c] \notin {"new", "sent"} /\ Accepted(call[c].what)

\* A result means that the backend answered 2xx, which of create_attestation it says only
\* when the record is on file.  (Of check_compliance it says so whatever the device is.)
\* A record that is on file although the client was told of an error means that a reply
\* was late or lost on the way.
AnswersTruthful ==
    \A c \in Calls :
        /\ stage[c] = "ok" =>
               /\ request[c] = "2xx"
               /\ call[c].what.name \notin Unserved
               /\ Writes(c) => c \in rows
        /\ stage[c] = "error" /\ c \in rows => c \in faulted

\* One process at most is past its start, whatever clients come and go, and it is the one
\* that has the port: an orphan keeps all others out.
OneProcessServes ==
    /\ \A i \in Instances : proc[i] \in {"serving", "orphan"} => port = i
    /\ port # None => proc[port] \in {"serving", "orphan"}

\* Every call is answered in the end, unless its process died or its client left; no call
\* waits for a backend that does not answer.
CallsSettle ==
    \A c \in Calls : stage[c] = "sent" ~> stage[c] \in {"ok", "error", "killed"}

\* "uriTemplate: 'device://{id}'": a resource whose URI is made of a listed template is
\* not refused before the backend has been asked for it.
ListedResourcesReadable ==
    \A c \in Calls :
        (stage[c] = "error" /\ request[c] = "none") =>
            \A t \in Templates : call[c].what.uri \notin UrisOf(t)

-----------------------------------------------------------------------------
(* The inductive invariant behind the safety properties. *)

\* Where a request stands says what the backend has done with it, and a call that is
\* given up while its request is not worked off yet was given up for lack of an answer.
RequestsAccounted ==
    \A c \in Calls :
        /\ request[c] = "2xx" =>
               /\ call[c].what.name \notin Unserved
               /\ Writes(c) => c \in rows
        /\ c \in rows => request[c] = "2xx" \/ (request[c] = "refused" /\ c \in faulted)
        /\ stage[c] = "error" /\ request[c] = "pending" => c \in faulted
        /\ stage[c] = "asked" => request[c] # "none"

IInv ==
    /\ TypeOK
    /\ OneProcessServes
    /\ RequestsAccounted
    /\ AnswersTruthful

=============================================================================
