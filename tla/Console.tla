------------------------------ MODULE Console -------------------------------
(***************************************************************************)
(* The web console: its pages, the forms and the table on them, and the    *)
(* promises that outlive a page, in every order.                           *)
(***************************************************************************)
EXTENDS AuthPages, WorkPages

Init ==
    /\ page \in Pages
    /\ ui = Fresh[page]
    /\ tasks = StartUp(page, NoTasks)
    /\ leaving = "none"
    /\ accounts = {}

\* A promise settles, or the server or a timer moves it on.
Settle(i) ==
    \/ AnswerStats(i) \/ SettleSignIn(i) \/ SettleSignOut(i) \/ SettleRegister(i)
    \/ AttestationDone(i) \/ Generated(i) \/ Verified(i)

UserOnDevices ==
    \/ StepTable \/ ToggleMenu
    \/ OpenForm \/ CloseForm \/ \E overlay \in BOOLEAN : FillForm(overlay)

UserOnProofs ==
    \/ \E d \in Devices : SelectDevice(d)
    \/ \E text \in {"json", "broken"} : Generate(text)
    \/ \E claim \in {"p-id", "other"} : Verify(claim)

UserOnSettings ==
    \/ \E open \in BOOLEAN : ShowKeyForm(open)
    \/ TypeKeyName \/ GenerateKey
    \/ \E k \in 1 .. MaxKeys + 2 : RevokeKey(k) \/ ToggleKeyVisibility(k)

User ==
    \/ \E p \in Pages : FollowLink(p) \/ GoBack(p) \/ OpenAddress(p)
    \/ SubmitLogin \/ SignInWithProvider \/ SignOut
    \/ \E who \in Emails, passwords \in Passwords : SubmitRegister(who, passwords)
    \/ UserOnDevices
    \/ \E d \in Devices \cup {NoDevice} : TypeDeviceId(d)
    \/ SubmitAttestation
    \/ UserOnProofs
    \/ UserOnSettings

Next ==
    \/ User
    \/ Unload
    \/ \E i \in Slots : Settle(i) \/ Register(i)

\* The operations a page waits for.
FormOps == {"signIn", "register", "stats", "attest", "generate", "verify"}

\* Every promise settles one day, with an answer or an error, and a document that is being
\* unloaded goes.
Fairness ==
    /\ WF_vars(Unload)
    /\ WF_vars(\E i \in Slots : AnswerStats(i))
    /\ WF_vars(\E i \in Slots : SettleSignIn(i))
    /\ WF_vars(\E i \in Slots : SettleRegister(i))
    /\ WF_vars(\E i \in Slots : AttestationDone(i))
    /\ WF_vars(\E i \in Slots : Generated(i))
    /\ WF_vars(\E i \in Slots : Verified(i))

Spec == Init /\ [][Next]_vars /\ Fairness

-----------------------------------------------------------------------------
(* Properties. *)

Promise ==
    {NoTask} \cup [op : {"signIn", "signOut"}, live : BOOLEAN]
        \cup [op : {"register"}, live : BOOLEAN, who : Emails, reply : {"none", "created", "refused"}]
        \cup [op : {"stats"}, live : BOOLEAN, left : 1 .. 3]
        \cup [op : {"attest"}, live : {TRUE}]
        \cup [op : {"generate"}, live : {TRUE}, device : Devices]
        \cup [op : {"verify"}, live : {TRUE}, claim : {"p-id", "other"}]

ProofIds == 1 .. MaxProofs
KeyIds   == 1 .. MaxKeys + 2

UiOf(p) ==
    CASE p = "login"        -> [loading : BOOLEAN, error : BOOLEAN, registered : Emails \cup {NoEmail}]
      [] p = "register"     -> [loading : BOOLEAN, error : BOOLEAN]
      [] p = "overview"     -> [figures : {"none", "defaults", "served"}]
      [] p = "devices"      -> [table : Table, showForm : BOOLEAN, inline : BOOLEAN,
                                overlay : BOOLEAN, menu : RowIds \cup {NoDevice}]
      [] p = "attestations" -> [deviceId : Devices \cup {NoDevice}, submitting : BOOLEAN]
      [] p = "proofs"       -> [device : Devices \cup {NoDevice},
                                generating : BOOLEAN, result : ProofIds \cup {0}, error : BOOLEAN,
                                proofs : Seq([id : ProofIds, device : Devices]),
                                verifying : BOOLEAN, verdict : {"none", "verified", "failed"}]
      [] p = "settings"     -> [keys : SUBSET KeyIds, visible : SUBSET KeyIds,
                                stamp : 2 .. MaxKeys + 2, form : BOOLEAN, name : BOOLEAN]
      [] OTHER              -> [static : {TRUE}]

\* The type invariant: the state shown is that of the page mounted, whatever promise of
\* whatever page settles.
TypeOK ==
    /\ page \in Pages
    /\ ui \in UiOf(page)
    /\ tasks \in [Slots -> Promise]
    /\ leaving \in {"none", "login", "home"}
    /\ accounts \subseteq Emails

\* Whatever was searched, sorted and turned before: the comparator leaves sort() some order,
\* and in whatever order rows without a value come, the page the table stands on exists and is
\* not empty when rows match, and a row that matches is on one of its pages, the others on none.
TablePagesCover ==
    page = "devices" =>
        LET t      == ui.table
            orders == Sorted(t)
        IN  /\ t.page < TotalPages(t)
            /\ orders # {}
            /\ \A s \in orders :
                   /\ Filtered(t) # {} => Paged(s, t.page) # {}
                   /\ \A i \in DOMAIN Rows :
                          Cardinality({q \in 0 .. TotalPages(t) - 1 : i \in Paged(s, q)})
                              = IF i \in Filtered(t) THEN 1 ELSE 0

\* The register page sends the user on to /login?registered=true only for an account that
\* the backend has, although answers are lost, attempts are repeated and the page that asked
\* may be gone.  (The claim is about the address: the login page shows nothing of it.)
RegisteredMeansAccount ==
    (page = "login" /\ ui.registered # NoEmail) => ui.registered \in accounts

Busy(op) ==
    CASE op = "signIn"   -> page = "login" /\ ui.loading
      [] op = "register" -> page = "register" /\ ui.loading
      [] op = "stats"    -> page = "overview" /\ ui.figures = "none"
      [] op = "attest"   -> page = "attestations" /\ ui.submitting
      [] op = "generate" -> page = "proofs" /\ ui.generating
      [] op = "verify"   -> page = "proofs" /\ ui.verifying

\* The requests the page that is mounted made itself.
Own(op) == {i \in Slots : tasks[i].op = op /\ tasks[i].live}

\* A form is in its busy state exactly while a request of the page that is mounted is
\* under way, never because of one that an earlier visit left behind, and there is one at
\* most.  (The overview's requests go on after the first that failed.)
BusyWhilePending ==
    \A op \in FormOps :
        /\ \A i, j \in Own(op) : i = j
        /\ Busy(op) => Own(op) # {}
        /\ (Own(op) # {} /\ op # "stats") => Busy(op)

\* On the proofs page the proof on display heads the history, every proof generated on
\* this visit is for the one device chosen, and no verdict is shown while another is awaited.
ProofsPageConsistent ==
    page = "proofs" =>
        /\ ui.result = IF ui.proofs = << >> THEN 0 ELSE Head(ui.proofs).id
        /\ \A i \in DOMAIN ui.proofs : ui.proofs[i].device = ui.device
        /\ ui.verifying => ui.verdict = "none"

\* No form stays busy for ever, whatever becomes of its request.
FormsSettle == \A op \in FormOps : Busy(op) ~> ~Busy(op)

-----------------------------------------------------------------------------
(* What the promises under way and the state of the page know of each other: with the type *)
(* invariant, what makes the invariants above hold from step to step. *)

\* A registration is answered only after its account was inserted.
RepliesBacked ==
    \A i \in Slots :
        (tasks[i].op = "register" /\ tasks[i].reply = "created") => tasks[i].who \in accounts

\* Only the overview waits for the figures.
FiguresForOverview == Own("stats") # {} => page = "overview"

\* A proof is under way only for the device chosen on the page that will show it.
GenerationFits ==
    \A i \in Slots :
        tasks[i].op = "generate" =>
            /\ page = "proofs"
            /\ tasks[i].device = ui.device
            /\ Len(ui.proofs) < MaxProofs

TableStands == page = "devices" => ui.table.page < TotalPages(ui.table)

IInv ==
    /\ TypeOK
    /\ BusyWhilePending /\ FiguresForOverview
    /\ RegisteredMeansAccount /\ RepliesBacked
    /\ ProofsPageConsistent /\ GenerationFits
    /\ TableStands

=============================================================================
