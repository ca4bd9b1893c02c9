---------------------------- MODULE ConsoleShell ----------------------------
(***************************************************************************)
(* The web console in one browser tab: the page that is mounted, its       *)
(* component state, the promises that have not settled, and what survives  *)
(* a page: a promise goes on after its page is unmounted, its setState     *)
(* calls are dropped but router.push, window.location and the server's     *)
(* work are not.  AuthPages and WorkPages hold the handlers.               *)
(***************************************************************************)
EXTENDS DataTable

CONSTANTS Emails,
          NoEmail,
          Devices,    \* devices the proofs page offers
          NoDevice,
          MaxTasks,   \* bound: promises that have not settled; a page is left by a link
                      \* only while those that go on leave room for one more
          MaxProofs,  \* bound: proofs generated on one visit of the proofs page
          MaxKeys     \* bound: keys generated on one visit of the settings page

VARIABLES
    page,      \* the route that is mounted
    ui,        \* the state of its components
    tasks,     \* promises that have not settled; live: its page is mounted
    leaving,   \* a page the document is being unloaded for, "none" otherwise
    accounts   \* users table of the backend

vars == <<page, ui, tasks, leaving, accounts>>

ASSUME ConsoleAssumption ==
    /\ MaxTasks \in Nat \ {0} /\ MaxProofs \in Nat /\ MaxKeys \in Nat
    /\ NoEmail \notin Emails
    /\ NoDevice \notin Devices \cup RowIds

PublicPages == {"home", "login", "register"}

\* The sidebar's entries.
NavItems == {"overview", "devices", "attestations", "proofs", "analytics", "settings"}

Pages == PublicPages \cup NavItems \cup {"device"}

\* Where the links and buttons of a page lead: home and the two forms to each other, the
\* dashboard by its sidebar, the device rows to a device, an attestation or a proof.
Links ==
    [p \in Pages |->
        CASE p = "home"     -> {"login", "register"}
          [] p = "login"    -> {"register"}
          [] p = "register" -> {"login"}
          [] p = "devices"  -> NavItems \cup {"device"}
          [] OTHER          -> NavItems]

\* The useState calls of a page, as they are when it is mounted (registered is none: it is
\* of the address, see PushRegistered).  Of the built-in proofs and
\* attestations none is kept, of the built-in keys two; the order of a list of keys is left out.
Fresh ==
    [p \in Pages |->
        CASE p = "login"        -> [loading |-> FALSE, error |-> FALSE, registered |-> NoEmail]
          [] p = "register"     -> [loading |-> FALSE, error |-> FALSE]
          [] p = "overview"     -> [figures |-> "none"]
          [] p = "devices"      -> [table |-> FreshTable, showForm |-> FALSE,
                                    inline |-> FALSE, overlay |-> FALSE, menu |-> NoDevice]
          [] p = "attestations" -> [deviceId |-> NoDevice, submitting |-> FALSE]
          [] p = "proofs"       -> [device |-> NoDevice, generating |-> FALSE, result |-> 0,
                                    error |-> FALSE, proofs |-> << >>,
                                    verifying |-> FALSE, verdict |-> "none"]
          [] p = "settings"     -> [keys |-> {1, 2}, visible |-> {}, stamp |-> 2,
                                    form |-> FALSE, name |-> FALSE]
          [] OTHER              -> [static |-> TRUE]]

\* Promises have places, of which those without one hold NoTask.
Slots  == 1 .. MaxTasks
NoTask == [op |-> "none"]

NoTasks  == [i \in Slots |-> NoTask]
Free(ts) == {i \in Slots : ts[i] = NoTask}

Begin(ts, task) == [ts EXCEPT ![CHOOSE i \in Free(ts) : TRUE] = task]

Task(i)    == tasks[i]
Without(i) == [tasks EXCEPT ![i] = NoTask]

\* The overview's effect: three requests.
StartUp(p, ts) ==
    IF p = "overview" THEN Begin(ts, [op |-> "stats", live |-> TRUE, left |-> 3]) ELSE ts

\* Promises whose continuation does something besides setState.
Outliving == {"signIn", "signOut", "register", "stats"}

\* What is left of a page's promises when it is unmounted: a timer's continuation only
\* sets state, so that it is forgotten.
Detached(ts) ==
    [i \in Slots |-> IF ts[i].op \in Outliving THEN [ts[i] EXCEPT !.live = FALSE] ELSE NoTask]

\* Mutant: the state of the page that is left is carried over.
GoToCarryingState(p, rest) ==
    page' = p /\ tasks' = StartUp(p, Detached(rest)) /\ UNCHANGED ui

\* router.push or a link: the page is mounted afresh, except that the page shown already
\* stays as it is.  rest are the promises besides the one that pushed.
GoTo(p, rest) ==
    /\ page' = p
    /\ IF p = page
       THEN tasks' = rest /\ UNCHANGED ui
       ELSE ui' = Fresh[p] /\ tasks' = StartUp(p, Detached(rest))

\* The page's state, for a promise that may settle after it was unmounted.
SetState(t, next) == ui' = IF t.live THEN next ELSE ui

-----------------------------------------------------------------------------
(* Moving about. *)

Leave(p) ==
    /\ p # page
    /\ Free(Detached(tasks)) # {}
    /\ GoTo(p, tasks)
    /\ UNCHANGED <<leaving, accounts>>

FollowLink(p) == p \in Links[page] /\ Leave(p)

\* The browser's back button, from the dashboard to a public page it was entered from;
\* which ones the history holds is left open.
GoBack(p) == page \notin PublicPages /\ p \in PublicPages /\ Leave(p)

\* A document is loaded: the promises of the old one are gone.  A registration that was
\* under way may still reach the backend.
Load(p) ==
    /\ page' = p
    /\ ui' = Fresh[p]
    /\ tasks' = StartUp(p, NoTasks)
    /\ leaving' = "none"
    /\ \E S \in SUBSET {tasks[i].who : i \in {j \in Slots : tasks[j].op = "register"}} :
           accounts' = accounts \cup S

\* The address bar.
OpenAddress(p) == Load(p)

\* The page that window.location.href or next-auth asked for.
Unload == leaving # "none" /\ Load(leaving)

-----------------------------------------------------------------------------
(* The API client and the overview, the only page that uses it. *)

\* What the router can answer the three requests: 401 without a valid token, 403 to one
\* that names no tenant, and otherwise 404, because no route of their own serves them and
\* the path is taken for an id.  "none" is a timeout or a network error.  Whether
\* next-auth's session had a token to send is left open.
StatsAnswers == {"401", "403", "404", "none"}

\* fetchStats: the figures are the server's once all three requests succeeded; the first
\* failure puts built-in ones in all three places.
Figures(f, status, left) ==
    IF f # "none" THEN f
    ELSE IF status # "200" THEN "defaults" ELSE IF left = 1 THEN "served" ELSE "none"

\* One of the three requests is answered; the response interceptor sends every 401 to the
\* login page, whether or not the page that asked is still there.
AnswerStats(i) ==
    /\ Task(i).op = "stats"
    /\ \E status \in StatsAnswers :
           /\ leaving' = IF status = "401" THEN "login" ELSE leaving
           /\ SetState(Task(i), [ui EXCEPT !.figures = Figures(@, status, Task(i).left)])
    /\ tasks' = IF Task(i).left = 1 THEN Without(i) ELSE [tasks EXCEPT ![i].left = @ - 1]
    /\ UNCHANGED <<page, accounts>>

=============================================================================
