--------------------------- MODULE ConsoleProofs ----------------------------
(***************************************************************************)
(* TLAPS proofs about Console, for any data, page size and accounts and    *)
(* any number of promises, proofs and keys.                                *)
(***************************************************************************)
EXTENDS Console, DataTableProofs

\* A page is mounted with a state of its own shape.
LEMMA FreshTyped == \A p \in Pages : Fresh[p] \in UiOf(p)
  <1> SUFFICES ASSUME NEW p \in Pages PROVE Fresh[p] \in UiOf(p)  OBVIOUS
  <1>1. PICK q \in Pages : q = p  OBVIOUS
  <1>2. CASE p = "login"  BY <1>2 DEF Fresh, UiOf, Pages, PublicPages
  <1>3. CASE p = "register"  BY <1>3 DEF Fresh, UiOf, Pages, PublicPages
  <1>4. CASE p = "overview"  BY <1>4 DEF Fresh, UiOf, Pages, NavItems
  <1>5. CASE p = "devices"
    <2>1. FreshTable \in Table  BY TableAssumption DEF FreshTable, Table
    <2>   QED  BY <1>5, <2>1 DEF Fresh, UiOf, Pages, NavItems
  <1>6. CASE p = "attestations"  BY <1>6 DEF Fresh, UiOf, Pages, NavItems
  <1>7. CASE p = "proofs"  BY <1>7 DEF Fresh, UiOf, Pages, NavItems
  <1>8. CASE p = "settings"
    BY <1>8, ConsoleAssumption DEF Fresh, UiOf, Pages, NavItems, KeyIds
  <1>9. CASE p \in {"home", "analytics", "device"}
    BY <1>9 DEF Fresh, UiOf, Pages, NavItems, PublicPages
  <1>   QED  BY <1>2, <1>3, <1>4, <1>5, <1>6, <1>7, <1>8, <1>9 DEF Pages, NavItems, PublicPages

\* What the useState calls of the pages with forms start from.
LEMMA FreshValues ==
    /\ Fresh["login"] = [loading |-> FALSE, error |-> FALSE, registered |-> NoEmail]
    /\ Fresh["register"] = [loading |-> FALSE, error |-> FALSE]
    /\ Fresh["overview"] = [figures |-> "none"]
    /\ Fresh["devices"].table = FreshTable
    /\ Fresh["attestations"].submitting = FALSE
    /\ Fresh["proofs"].generating = FALSE /\ Fresh["proofs"].verifying = FALSE
    /\ Fresh["proofs"].proofs = << >> /\ Fresh["proofs"].result = 0
    /\ Fresh["settings"].keys = {1, 2} /\ Fresh["settings"].visible = {} /\ Fresh["settings"].stamp = 2
  BY DEF Fresh, Pages, PublicPages, NavItems

\* The kinds of promises, apart.
Told == [op : {"register"}, live : BOOLEAN, who : Emails, reply : {"none", "created", "refused"}]
Asked == [op : {"stats"}, live : BOOLEAN, left : 1 .. 3]
Timed == [op : {"attest"}, live : {TRUE}]
             \cup [op : {"generate"}, live : {TRUE}, device : Devices]
             \cup [op : {"verify"}, live : {TRUE}, claim : {"p-id", "other"}]
Signing == [op : {"signIn", "signOut"}, live : BOOLEAN]

\* A timer's promise is one of a mounted page.
LEMMA TimedFields ==
    ASSUME NEW t \in Timed
    PROVE  /\ t.op \in {"attest", "generate", "verify"}
           /\ t.live = TRUE
           /\ t.op = "generate" => t.device \in Devices
  <1>1. CASE t \in [op : {"attest"}, live : {TRUE}]  BY <1>1
  <1>2. CASE t \in [op : {"generate"}, live : {TRUE}, device : Devices]  BY <1>2
  <1>3. CASE t \in [op : {"verify"}, live : {TRUE}, claim : {"p-id", "other"}]  BY <1>3
  <1>   QED  BY <1>1, <1>2, <1>3 DEF Timed

\* The operation of a promise tells its kind.
LEMMA PromiseKinds ==
    ASSUME NEW t \in Promise
    PROVE  \/ t = NoTask /\ t.op = "none"
           \/ t \in Told /\ t.op = "register"
           \/ t \in Asked /\ t.op = "stats"
           \/ t \in Timed /\ t.op \in {"attest", "generate", "verify"}
           \/ t \in Signing /\ t.op \in {"signIn", "signOut"}
  <1>1. t \in {NoTask} \/ t \in Signing \/ t \in Told \/ t \in Asked \/ t \in Timed
    BY Zenon DEF Promise, Told, Asked, Timed, Signing
  <1>2. CASE t \in {NoTask}  BY <1>2 DEF NoTask
  <1>3. CASE t \in Signing  BY <1>3 DEF Signing
  <1>4. CASE t \in Told  BY <1>4 DEF Told
  <1>5. CASE t \in Asked  BY <1>5 DEF Asked
  <1>6. CASE t \in Timed  BY <1>6, TimedFields
  <1>   QED  BY <1>1, <1>2, <1>3, <1>4, <1>5, <1>6

\* What a promise of each operation holds, and that an answer leaves it one.
LEMMA PromiseFields ==
    ASSUME NEW t \in Promise
    PROVE  /\ t.op = "none" <=> t = NoTask
           /\ t # NoTask => t.live \in BOOLEAN
           /\ t.op \in {"attest", "generate", "verify"} => t.live = TRUE
           /\ t.op = "register" =>
                  /\ t.who \in Emails
                  /\ t.reply \in {"none", "created", "refused"}
                  /\ \A r \in {"created", "refused"} : [t EXCEPT !.reply = r] \in Promise
           /\ t.op = "stats" => t.left \in 1 .. 3 /\ \A n \in 1 .. 3 : [t EXCEPT !.left = n] \in Promise
           /\ t.op = "generate" => t.device \in Devices
  <1>1. CASE t = NoTask /\ t.op = "none"  BY <1>1
  <1>2. CASE t \in Told /\ t.op = "register"
    <2>1. \A r \in {"created", "refused"} : [t EXCEPT !.reply = r] \in Told  BY <1>2 DEF Told
    <2>2. Told \subseteq Promise  BY DEF Promise, Told
    <2>   QED  BY <1>2, <2>1, <2>2 DEF Told, NoTask
  <1>3. CASE t \in Asked /\ t.op = "stats"
    <2>1. \A n \in 1 .. 3 : [t EXCEPT !.left = n] \in Asked  BY <1>3 DEF Asked
    <2>2. Asked \subseteq Promise  BY DEF Promise, Asked
    <2>   QED  BY <1>3, <2>1, <2>2 DEF Asked, NoTask
  <1>4. CASE t \in Timed /\ t.op \in {"attest", "generate", "verify"}
    <2>1. t.op # "none" /\ t # NoTask  BY <1>4 DEF NoTask
    <2>2. t.live = TRUE  BY <1>4, TimedFields
    <2>3. t.live \in BOOLEAN  BY <2>2, Zenon
    <2>4. t.op = "generate" => t.device \in Devices  BY <1>4, TimedFields
    <2>   QED  BY <1>4, <2>1, <2>2, <2>3, <2>4
  <1>5. CASE t \in Signing /\ t.op \in {"signIn", "signOut"}  BY <1>5 DEF Signing, NoTask
  <1>   QED  BY <1>1, <1>2, <1>3, <1>4, <1>5, PromiseKinds

\* A promise that outlives its page is the same promise, live no more.
LEMMA PromiseLeftBehind ==
    ASSUME NEW t \in Promise, t.op \in Outliving
    PROVE  LET u == [t EXCEPT !.live = FALSE]
           IN  /\ u \in Promise /\ u.op = t.op /\ u.live = FALSE
               /\ t.op = "register" => u.who = t.who /\ u.reply = t.reply
  <1> DEFINE u == [t EXCEPT !.live = FALSE]
  <1>1. t \in Told \/ t \in Asked \/ t \in Signing  BY PromiseKinds DEF Outliving
  <1>2. CASE t \in Told
    <2>1. u \in Told /\ u.op = t.op /\ u.live = FALSE /\ u.who = t.who /\ u.reply = t.reply
      BY <1>2 DEF Told
    <2>   QED  BY <2>1 DEF Promise, Told
  <1>3. CASE t \in Asked
    <2>1. u \in Asked /\ u.op = t.op /\ u.live = FALSE /\ t.op = "stats"  BY <1>3 DEF Asked
    <2>   QED  BY <2>1 DEF Promise, Asked
  <1>4. CASE t \in Signing
    <2>1. u \in Signing /\ u.op = t.op /\ u.live = FALSE /\ t.op # "register"  BY <1>4 DEF Signing
    <2>   QED  BY <2>1 DEF Promise, Signing
  <1>   QED  BY <1>1, <1>2, <1>3, <1>4

\* A promise that is begun takes one free place and touches no other.
LEMMA BeginPlaces ==
    ASSUME NEW ts \in [Slots -> Promise], Free(ts) # {}, NEW task \in Promise
    PROVE  /\ Begin(ts, task) \in [Slots -> Promise]
           /\ \E i \in Slots : ts[i] = NoTask /\ Begin(ts, task) = [ts EXCEPT ![i] = task]
  <1> DEFINE i == CHOOSE i \in Free(ts) : TRUE
  <1>1. i \in Free(ts)  OBVIOUS
  <1>2. i \in Slots /\ ts[i] = NoTask  BY <1>1 DEF Free
  <1>3. Begin(ts, task) = [ts EXCEPT ![i] = task]  BY DEF Begin
  <1> HIDE DEF i
  <1>   QED  BY <1>2, <1>3

\* No promise is of the page that is mounted.
Idle(ts) == \A i \in Slots : ts[i] = NoTask \/ (ts[i].op \in Outliving /\ ts[i].live = FALSE)

\* Every registration answered with a success has its account.
Backed(ts, users) ==
    \A i \in Slots : (ts[i].op = "register" /\ ts[i].reply = "created") => ts[i].who \in users

\* What is left of a page's promises is live no more, and its answers stay true.
LEMMA DetachedIdle ==
    ASSUME NEW ts \in [Slots -> Promise], NEW users
    PROVE  /\ Detached(ts) \in [Slots -> Promise]
           /\ Idle(Detached(ts))
           /\ Backed(ts, users) => Backed(Detached(ts), users)
  <1>1. NoTask \in Promise /\ NoTask.op = "none"  BY DEF Promise, NoTask
  <1>2. \A i \in Slots : ts[i] \in Promise  OBVIOUS
  <1>   QED  BY <1>1, <1>2, PromiseLeftBehind DEF Detached, Idle, Backed

\* What a page is when it has just been mounted, with the promises ts of earlier ones.
Mounted ==
    \E ts \in [Slots -> Promise] :
        /\ page \in Pages
        /\ \/ ui = Fresh[page]
           \/ page = "login" /\ \E who \in accounts : ui = [Fresh["login"] EXCEPT !.registered = who]
        /\ Idle(ts) /\ Backed(ts, accounts)
        /\ page = "overview" => Free(ts) # {}
        /\ tasks = StartUp(page, ts)
        /\ leaving \in {"none", "login", "home"}
        /\ accounts \subseteq Emails

\* A page that has just been mounted is not busy, except the overview, which waits for its
\* own requests: whatever earlier pages left behind, the invariant holds.
LEMMA MountedHolds == Mounted => IInv
  <1> SUFFICES ASSUME NEW ts \in [Slots -> Promise],
                      page \in Pages,
                      \/ ui = Fresh[page]
                      \/ page = "login" /\ \E who \in accounts : ui = [Fresh["login"] EXCEPT !.registered = who],
                      Idle(ts), Backed(ts, accounts),
                      page = "overview" => Free(ts) # {},
                      tasks = StartUp(page, ts),
                      leaving \in {"none", "login", "home"},
                      accounts \subseteq Emails
               PROVE  IInv
    BY DEF Mounted
  <1> DEFINE stats == [op |-> "stats", live |-> TRUE, left |-> 3]
  <1>1. ui \in UiOf(page)
    <2>1. CASE ui = Fresh[page]  BY <2>1, FreshTyped
    <2>2. CASE page = "login" /\ \E who \in accounts : ui = [Fresh["login"] EXCEPT !.registered = who]
      <3>1. Fresh["login"] \in UiOf("login")  BY FreshTyped DEF Pages, PublicPages
      <3>   QED  BY <2>2, <3>1 DEF UiOf
    <2>   QED  BY <2>1, <2>2
  <1>2. stats \in Promise  BY DEF Promise
  <1>3. \/ page # "overview" /\ tasks = ts
        \/ page = "overview" /\ \E i \in Slots : ts[i] = NoTask /\ tasks = [ts EXCEPT ![i] = stats]
    <2>1. CASE page = "overview"
      BY <1>2, <2>1, BeginPlaces DEF StartUp
    <2>2. CASE page # "overview"  BY <2>2 DEF StartUp
    <2>   QED  BY <2>1, <2>2
  <1>4. tasks \in [Slots -> Promise]  BY <1>2, <1>3
  <1>5. \A i \in Slots : \/ tasks[i] = NoTask
                         \/ tasks[i].op \in Outliving /\ tasks[i].live = FALSE
                         \/ page = "overview" /\ tasks[i] = stats
    BY <1>2, <1>3 DEF Idle
  <1>6. NoTask.op = "none"  BY DEF NoTask
  <1>7. \A op \in FormOps \ {"stats"} : Own(op) = {}
    BY <1>5, <1>6 DEF Own, FormOps
  <1>8. /\ \A i, j \in Own("stats") : i = j
        /\ page = "overview" <=> Own("stats") # {}
    <2>1. CASE page = "overview"
      <3>1. PICK i \in Slots : ts[i] = NoTask /\ tasks = [ts EXCEPT ![i] = stats]  BY <1>3, <2>1
      <3>2. Own("stats") = {i}  BY <1>6, <3>1 DEF Own, Idle
      <3>   QED  BY <2>1, <3>2
    <2>2. CASE page # "overview"
      <3>1. Own("stats") = {}  BY <1>5, <1>6, <2>2 DEF Own
      <3>   QED  BY <2>2, <3>1
    <2>   QED  BY <2>1, <2>2
  <1>9. \A op \in FormOps \ {"stats"} : ~Busy(op)
    <2>1. page = "login" => ui.loading = FALSE  BY FreshValues
    <2>2. page # "login" => ui = Fresh[page]  OBVIOUS
    <2>3. ~Busy("signIn")  BY <2>1 DEF Busy
    <2>4. ~Busy("register")  BY <2>2, FreshValues DEF Busy
    <2>5. ~Busy("attest")  BY <2>2, FreshValues DEF Busy
    <2>6. ~Busy("generate") /\ ~Busy("verify")  BY <2>2, FreshValues DEF Busy
    <2>   QED  BY <2>3, <2>4, <2>5, <2>6 DEF FormOps
  <1>10. BusyWhilePending
    <2> SUFFICES ASSUME NEW op \in FormOps
                 PROVE  /\ \A i, j \in Own(op) : i = j
                        /\ Busy(op) => Own(op) # {}
                        /\ (Own(op) # {} /\ op # "stats") => Busy(op)
      BY DEF BusyWhilePending
    <2>1. CASE op = "stats"
      <3>1. Busy("stats") => page = "overview"  BY DEF Busy
      <3>   QED  BY <1>8, <2>1, <3>1
    <2>2. CASE op # "stats"  BY <1>7, <1>9, <2>2
    <2>   QED  BY <2>1, <2>2
  <1>11. FiguresForOverview  BY <1>8 DEF FiguresForOverview
  <1>12. RegisteredMeansAccount
    BY ConsoleAssumption, FreshValues DEF RegisteredMeansAccount
  <1>13. RepliesBacked
    BY <1>3 DEF RepliesBacked, Backed
  <1>14. ProofsPageConsistent
    BY FreshValues DEF ProofsPageConsistent
  <1>15. GenerationFits
    BY <1>5, <1>6 DEF GenerationFits, Outliving
  <1>16. TableStands
    <2> SUFFICES ASSUME page = "devices" PROVE ui.table.page < TotalPages(ui.table)
      BY DEF TableStands
    <2>1. ui.table.page = 0  BY FreshValues DEF FreshTable
    <2>   QED  BY <2>1, PagesEnough
  <1>17. TypeOK  BY <1>1, <1>4 DEF TypeOK
  <1>   QED  BY <1>10, <1>11, <1>12, <1>13, <1>14, <1>15, <1>16, <1>17 DEF IInv

\* The same of the state after a step.
LEMMA MountedNext == Mounted' => IInv'
  BY MountedHolds, PTL

\* A handler that asks nothing leaves every form as busy as it was.
LEMMA BusyKept ==
    ASSUME BusyWhilePending, UNCHANGED <<page, tasks>>, \A op \in FormOps : Busy(op)' <=> Busy(op)
    PROVE  BusyWhilePending'
  <1>1. \A op \in FormOps : Own(op)' = Own(op)  BY DEF Own
  <1>   QED  BY <1>1 DEF BusyWhilePending

\* A handler that asks makes a form busy that was not.
LEMMA BusyAsked ==
    ASSUME BusyWhilePending, tasks \in [Slots -> Promise],
           NEW task \in Promise, task.live = TRUE, task.op # "none", task.op # "stats",
           Free(tasks) # {}, tasks' = Begin(tasks, task),
           task.op \in FormOps => ~Busy(task.op) /\ Busy(task.op)',
           \A op \in FormOps \ {task.op} : Busy(op)' <=> Busy(op)
    PROVE  BusyWhilePending'
  <1>1. PICK i \in Slots : tasks[i] = NoTask /\ tasks' = [tasks EXCEPT ![i] = task]
    BY BeginPlaces
  <1>2. NoTask.op = "none"  BY DEF NoTask
  <1>3. \A op \in FormOps \ {task.op} : Own(op)' = Own(op)
    BY <1>1, <1>2 DEF Own, FormOps
  <1>4. ASSUME task.op \in FormOps PROVE Own(task.op)' = {i}
    <2>1. Own(task.op) = {}  BY <1>4 DEF BusyWhilePending
    <2>   QED  BY <1>1, <2>1 DEF Own
  <1> SUFFICES ASSUME NEW op \in FormOps
               PROVE  /\ \A j, k \in Own(op)' : j = k
                      /\ Busy(op)' => Own(op)' # {}
                      /\ (Own(op)' # {} /\ op # "stats") => Busy(op)'
    BY DEF BusyWhilePending
  <1>5. CASE op = task.op  BY <1>4, <1>5
  <1>6. CASE op # task.op  BY <1>3, <1>6 DEF BusyWhilePending
  <1>   QED  BY <1>5, <1>6

\* A promise that settles frees the form of its own page, and no form when its page is gone.
LEMMA BusySettled ==
    ASSUME BusyWhilePending, tasks \in [Slots -> Promise],
           NEW i \in Slots, tasks' = Without(i), NEW own, own = tasks[i].op,
           (tasks[i].live = TRUE /\ own \in FormOps) => ~Busy(own)',
           \A op \in FormOps : (op # own \/ tasks[i].live = FALSE) => (Busy(op)' <=> Busy(op)),
           tasks[i] # NoTask
    PROVE  BusyWhilePending'
  <1>1. /\ tasks'[i] = NoTask
        /\ \A j \in Slots : j # i => tasks'[j] = tasks[j]
    BY DEF Without
  <1>2. NoTask.op = "none"  BY DEF NoTask
  <1>3. tasks[i].live \in BOOLEAN  BY PromiseFields
  <1>4. \A op \in FormOps : Own(op)' = Own(op) \ {i}
    BY <1>1, <1>2 DEF Own, FormOps
  <1> SUFFICES ASSUME NEW op \in FormOps
               PROVE  /\ \A j, k \in Own(op)' : j = k
                      /\ Busy(op)' => Own(op)' # {}
                      /\ (Own(op)' # {} /\ op # "stats") => Busy(op)'
    BY DEF BusyWhilePending
  <1>5. CASE op = own /\ tasks[i].live = TRUE
    <2>1. i \in Own(op)  BY <1>5 DEF Own
    <2>2. Own(op)' = {}  BY <1>4, <2>1 DEF BusyWhilePending
    <2>   QED  BY <1>5, <2>2
  <1>6. CASE op # own \/ tasks[i].live = FALSE
    <2>1. i \notin Own(op)  BY <1>6 DEF Own
    <2>2. Own(op)' = Own(op)  BY <1>4, <2>1
    <2>3. Busy(op)' <=> Busy(op)  BY <1>6
    <2>   QED  BY <2>2, <2>3 DEF BusyWhilePending
  <1>   QED  BY <1>3, <1>5, <1>6

-----------------------------------------------------------------------------

\* Leaving a page, by a link or by a promise's push, keeps the invariant.
LEMMA LeavingMounts ==
    ASSUME IInv, NEW p \in Pages, NEW rest \in [Slots -> Promise], Backed(rest, accounts),
           p = "overview" => Free(Detached(rest)) # {},
           page' = p, ui' = Fresh[p], tasks' = StartUp(p, Detached(rest)),
           UNCHANGED <<leaving, accounts>>
    PROVE  IInv'
  <1>1. Idle(Detached(rest)) /\ Backed(Detached(rest), accounts) /\ Detached(rest) \in [Slots -> Promise]
    BY DetachedIdle
  <1>2. leaving' \in {"none", "login", "home"} /\ accounts' \subseteq Emails  BY DEF IInv, TypeOK
  <1>3. Mounted'
    BY <1>1, <1>2 DEF Mounted
  <1>   QED  BY <1>3, MountedNext

\* A link or the back button.
LEMMA LeaveKeeps == ASSUME IInv, NEW p \in Pages, Leave(p) PROVE IInv'
  <1>1. tasks \in [Slots -> Promise] /\ Backed(tasks, accounts)
    BY DEF IInv, TypeOK, RepliesBacked, Backed
  <1>   QED  BY <1>1, LeavingMounts DEF Leave, GoTo

\* A document that is loaded, with the registrations under way that still arrive.
LEMMA LoadKeeps == ASSUME IInv, NEW p \in Pages, Load(p) PROVE IInv'
  <1>1. tasks \in [Slots -> Promise] /\ accounts \subseteq Emails  BY DEF IInv, TypeOK
  <1>2. \A i \in Slots : tasks[i].op = "register" => tasks[i].who \in Emails
    BY <1>1, PromiseFields
  <1>3. accounts' \subseteq Emails  BY <1>1, <1>2 DEF Load
  <1>4. /\ NoTasks \in [Slots -> Promise] /\ Idle(NoTasks) /\ Backed(NoTasks, accounts')
        /\ Free(NoTasks) # {}
    <2>1. NoTask \in Promise /\ NoTask.op = "none"  BY DEF Promise, NoTask
    <2>2. 1 \in Slots  BY ConsoleAssumption DEF Slots
    <2>   QED  BY <2>1, <2>2 DEF NoTasks, Idle, Backed, Free
  <1>5. Mounted'
    BY <1>3, <1>4 DEF Mounted, Load
  <1>   QED  BY <1>5, MountedNext

\* The first document.
LEMMA InitHolds == Init => IInv
  <1> SUFFICES ASSUME Init PROVE Mounted  BY MountedHolds
  <1>1. /\ NoTasks \in [Slots -> Promise] /\ Idle(NoTasks) /\ Backed(NoTasks, accounts)
        /\ Free(NoTasks) # {}
    <2>1. NoTask \in Promise /\ NoTask.op = "none"  BY DEF Promise, NoTask
    <2>2. 1 \in Slots  BY ConsoleAssumption DEF Slots
    <2>   QED  BY <2>1, <2>2 DEF NoTasks, Idle, Backed, Free
  <1>   QED  BY <1>1 DEF Mounted, Init

-----------------------------------------------------------------------------

\* A handler of the devices page that leaves the table on a page it has.
LEMMA DevicesStep ==
    ASSUME IInv, page = "devices", UNCHANGED <<page, tasks, leaving, accounts>>,
           ui' \in UiOf("devices"), ui'.table.page < TotalPages(ui'.table)
    PROVE  IInv'
  <1>1. TypeOK'  BY DEF IInv, TypeOK
  <1>2. \A op \in FormOps : ~Busy(op) /\ ~Busy(op)'  BY DEF FormOps, Busy
  <1>3. BusyWhilePending'  BY <1>2, BusyKept DEF IInv
  <1>4. FiguresForOverview' /\ RepliesBacked' /\ GenerationFits'
    BY DEF IInv, FiguresForOverview, RepliesBacked, GenerationFits, Own
  <1>5. RegisteredMeansAccount' /\ ProofsPageConsistent' /\ TableStands'
    BY DEF RegisteredMeansAccount, ProofsPageConsistent, TableStands
  <1>   QED  BY <1>1, <1>3, <1>4, <1>5 DEF IInv

\* The table, the row menus and the form of the devices page.
LEMMA UserOnDevicesKeeps == ASSUME IInv, UserOnDevices PROVE IInv'
  <1>1. page = "devices" /\ UNCHANGED <<page, tasks, leaving, accounts>>
    BY DEF UserOnDevices, StepTable, ToggleMenu, OpenForm, CloseForm, FillForm, OnPage
  <1>2. /\ ui \in [table : Table, showForm : BOOLEAN, inline : BOOLEAN, overlay : BOOLEAN,
                   menu : RowIds \cup {NoDevice}]
        /\ ui.table.page < TotalPages(ui.table)
    BY <1>1 DEF IInv, TypeOK, UiOf, TableStands
  <1>3. UiOf("devices") = [table : Table, showForm : BOOLEAN, inline : BOOLEAN, overlay : BOOLEAN,
                           menu : RowIds \cup {NoDevice}]
    BY DEF UiOf
  <1> SUFFICES ui' \in UiOf("devices") /\ ui'.table.page < TotalPages(ui'.table)
    BY <1>1, DevicesStep
  <1>4. CASE StepTable
    <2>1. PICK t \in TableSteps(ui.table) : ui' = [ui EXCEPT !.table = t, !.menu = Retained(@, t)]
      BY <1>4 DEF StepTable
    <2>2. t \in Table /\ t.page < TotalPages(t)  BY <1>2, TableStepsStand
    <2>3. Retained(ui.menu, t) \in RowIds \cup {NoDevice}  BY <1>2 DEF Retained
    <2>4. ui'.table = t  BY <1>2, <2>1
    <2>   QED  BY <1>2, <1>3, <2>1, <2>2, <2>3, <2>4
  <1>5. CASE ToggleMenu
    <2>1. PICK d \in RowIds : ui' = [ui EXCEPT !.menu = IF @ = d THEN NoDevice ELSE d]
      BY <1>5, ShownAreRows DEF ToggleMenu
    <2>2. ui' \in UiOf("devices") /\ ui'.table = ui.table  BY <1>2, <1>3, <2>1
    <2>   QED  BY <1>2, <2>2
  <1>6. CASE OpenForm
    <2>1. ui' \in UiOf("devices") /\ ui'.table = ui.table  BY <1>2, <1>3, <1>6 DEF OpenForm
    <2>   QED  BY <1>2, <2>1
  <1>7. CASE CloseForm
    <2>1. ui' \in UiOf("devices") /\ ui'.table = ui.table  BY <1>2, <1>3, <1>7 DEF CloseForm
    <2>   QED  BY <1>2, <2>1
  <1>8. ASSUME NEW overlay \in BOOLEAN, FillForm(overlay)
        PROVE  ui' \in UiOf("devices") /\ ui'.table = ui.table
    BY <1>2, <1>3, <1>8 DEF FillForm
  <1>   QED  BY <1>2, <1>4, <1>5, <1>6, <1>7, <1>8 DEF UserOnDevices

\* The API keys: the settings page waits for nothing and is known to no promise.
LEMMA UserOnSettingsKeeps == ASSUME IInv, UserOnSettings PROVE IInv'
  <1>1. page = "settings" /\ UNCHANGED <<page, tasks, leaving, accounts>>
    BY DEF UserOnSettings, ShowKeyForm, TypeKeyName, GenerateKey, RevokeKey, ToggleKeyVisibility, OnPage
  <1> DEFINE Type == [keys : SUBSET KeyIds, visible : SUBSET KeyIds,
                      stamp : 2 .. MaxKeys + 2, form : BOOLEAN, name : BOOLEAN]
  <1>2. UiOf("settings") = Type  BY DEF UiOf
  <1>3. ui \in Type  BY <1>1, <1>2 DEF IInv, TypeOK
  <1>4. ui' \in Type
    <2>1. CASE \E open \in BOOLEAN : ShowKeyForm(open)
      BY <1>3, <2>1 DEF ShowKeyForm
    <2>2. CASE TypeKeyName
      BY <1>3, <2>2 DEF TypeKeyName
    <2>3. CASE GenerateKey
      <3>1. /\ ui.stamp < MaxKeys + 2
            /\ ui' = [ui EXCEPT !.keys = @ \cup {ui.stamp + 1}, !.stamp = @ + 1,
                                !.name = FALSE, !.form = FALSE]
        BY <2>3 DEF GenerateKey
      <3>2. ui.stamp + 1 \in 2 .. MaxKeys + 2 /\ ui.stamp + 1 \in KeyIds
        BY <1>3, <3>1, ConsoleAssumption DEF KeyIds
      <3>   QED  BY <1>3, <3>1, <3>2
    <2>4. CASE \E k \in 1 .. MaxKeys + 2 : RevokeKey(k)
      BY <1>3, <2>4 DEF RevokeKey
    <2>5. CASE \E k \in 1 .. MaxKeys + 2 : ToggleKeyVisibility(k)
      <3>1. PICK k \in ui.keys :
                ui' = [ui EXCEPT !.visible = IF k \in @ THEN @ \ {k} ELSE @ \cup {k}]
        BY <2>5 DEF ToggleKeyVisibility
      <3>2. (IF k \in ui.visible THEN ui.visible \ {k} ELSE ui.visible \cup {k}) \in SUBSET KeyIds
        BY <1>3, <3>1
      <3>   QED  BY <1>3, <3>1, <3>2
    <2>   QED  BY <2>1, <2>2, <2>3, <2>4, <2>5 DEF UserOnSettings
  <1>6. TypeOK'  BY <1>1, <1>2, <1>4 DEF IInv, TypeOK
  <1>7. \A op \in FormOps : ~Busy(op) /\ ~Busy(op)'  BY <1>1 DEF FormOps, Busy
  <1>8. BusyWhilePending'  BY <1>1, <1>7, BusyKept DEF IInv
  <1>9. FiguresForOverview' /\ RepliesBacked' /\ GenerationFits'
    BY <1>1 DEF IInv, FiguresForOverview, RepliesBacked, GenerationFits, Own
  <1>10. RegisteredMeansAccount' /\ ProofsPageConsistent' /\ TableStands'
    BY <1>1 DEF RegisteredMeansAccount, ProofsPageConsistent, TableStands
  <1>   QED  BY <1>6, <1>8, <1>9, <1>10 DEF IInv

\* The field of the attestations page.
LEMMA TypeDeviceIdKeeps ==
    ASSUME IInv, NEW d \in Devices \cup {NoDevice}, TypeDeviceId(d) PROVE IInv'
  <1>1. page = "attestations" /\ UNCHANGED <<page, tasks, leaving, accounts>> /\ ui' = [ui EXCEPT !.deviceId = d]
    BY DEF TypeDeviceId, OnPage
  <1>2. ui \in [deviceId : Devices \cup {NoDevice}, submitting : BOOLEAN]
    BY <1>1 DEF IInv, TypeOK, UiOf
  <1>3. TypeOK' /\ ui'.submitting = ui.submitting  BY <1>1, <1>2 DEF IInv, TypeOK, UiOf
  <1>4. \A op \in FormOps : Busy(op)' <=> Busy(op)  BY <1>1, <1>3 DEF FormOps, Busy
  <1>5. BusyWhilePending'  BY <1>1, <1>4, BusyKept DEF IInv
  <1>6. FiguresForOverview' /\ RepliesBacked' /\ GenerationFits'
    BY <1>1 DEF IInv, FiguresForOverview, RepliesBacked, GenerationFits, Own
  <1>7. RegisteredMeansAccount' /\ ProofsPageConsistent' /\ TableStands'
    BY <1>1 DEF RegisteredMeansAccount, ProofsPageConsistent, TableStands
  <1>   QED  BY <1>3, <1>5, <1>6, <1>7 DEF IInv

-----------------------------------------------------------------------------

\* A handler that asks, on any page: the request is the one its form waits for.
LEMMA AskKeeps ==
    ASSUME IInv, UNCHANGED <<page, leaving, accounts>>,
           NEW task \in Promise, task.live = TRUE, task.op \notin {"none", "stats"},
           task.op = "register" => task.reply = "none",
           task.op = "generate" => page = "proofs" /\ task.device = ui.device /\ Len(ui.proofs) < MaxProofs,
           Free(tasks) # {}, tasks' = Begin(tasks, task),
           task.op \in FormOps => ~Busy(task.op) /\ Busy(task.op)',
           \A op \in FormOps \ {task.op} : Busy(op)' <=> Busy(op),
           ui' \in UiOf(page),
           page = "login" => ui'.registered = ui.registered,
           page = "proofs" => /\ ui'.device = ui.device
                              /\ ui'.proofs = ui.proofs /\ ui'.result = ui.result
                              /\ ui'.verifying => ui'.verdict = "none",
           page \in {"settings", "devices"} => ui' = ui
    PROVE  IInv'
  <1>1. tasks \in [Slots -> Promise]  BY DEF IInv, TypeOK
  <1>2. PICK i \in Slots : tasks[i] = NoTask /\ tasks' = [tasks EXCEPT ![i] = task]
    BY <1>1, BeginPlaces
  <1>3. tasks' \in [Slots -> Promise]  BY <1>1, <1>2
  <1>4. \A j \in Slots : tasks'[j] = tasks[j] \/ tasks'[j] = task  BY <1>1, <1>2
  <1>5. TypeOK'  BY <1>3 DEF IInv, TypeOK
  <1>6. BusyWhilePending'
    <2>1. BusyWhilePending  BY DEF IInv
    <2>   QED  BY <1>1, <2>1, BusyAsked, Zenon
  <1>7. FiguresForOverview'
    <2>1. Own("stats")' \subseteq Own("stats")  BY <1>4 DEF Own
    <2>   QED  BY <2>1 DEF IInv, FiguresForOverview
  <1>8. RepliesBacked'  BY <1>4 DEF IInv, RepliesBacked
  <1>9. GenerationFits'  BY <1>4 DEF IInv, GenerationFits
  <1>10. RegisteredMeansAccount'  BY DEF IInv, RegisteredMeansAccount
  <1>11. ProofsPageConsistent'  BY DEF IInv, ProofsPageConsistent
  <1>12. TableStands'  BY DEF IInv, TableStands
  <1>   QED  BY <1>5, <1>6, <1>7, <1>8, <1>9, <1>10, <1>11, <1>12 DEF IInv

\* A promise that settles without leaving the page, on any page.
LEMMA SettleKeeps ==
    ASSUME IInv, UNCHANGED <<page, accounts>>, leaving' \in {"none", "login", "home"},
           NEW i \in Slots, tasks[i] # NoTask, tasks' = Without(i),
           NEW own, own = tasks[i].op,
           (tasks[i].live = TRUE /\ own \in FormOps) => ~Busy(own)',
           \A op \in FormOps : (op # own \/ tasks[i].live = FALSE) => (Busy(op)' <=> Busy(op)),
           ui' \in UiOf(page),
           RegisteredMeansAccount', ProofsPageConsistent', GenerationFits',
           page \in {"settings", "devices"} => ui' = ui
    PROVE  IInv'
  <1>1. tasks \in [Slots -> Promise] /\ NoTask \in Promise  BY DEF IInv, TypeOK, Promise
  <1>2. /\ tasks' \in [Slots -> Promise]
        /\ \A j \in Slots : tasks'[j] = tasks[j] \/ tasks'[j] = NoTask
    BY <1>1 DEF Without
  <1>3. NoTask.op = "none"  BY DEF NoTask
  <1>4. TypeOK'  BY <1>2 DEF IInv, TypeOK
  <1>5. BusyWhilePending'
    <2>1. BusyWhilePending  BY DEF IInv
    <2>   QED  BY <1>1, <2>1, BusySettled, Zenon
  <1>6. FiguresForOverview'
    <2>1. Own("stats")' \subseteq Own("stats")  BY <1>2, <1>3 DEF Own
    <2>   QED  BY <2>1 DEF IInv, FiguresForOverview
  <1>7. RepliesBacked'  BY <1>2, <1>3 DEF IInv, RepliesBacked
  <1>8. TableStands'  BY DEF IInv, TableStands
  <1>   QED  BY <1>4, <1>5, <1>6, <1>7, <1>8 DEF IInv

\* A promise that settles and is not a generation leaves those under way as they were.
LEMMA SettleKeepsGenerating ==
    ASSUME IInv, NEW i \in Slots, tasks' = Without(i), page' = page,
           page = "proofs" => ui'.device = ui.device /\ ui'.proofs = ui.proofs
    PROVE  GenerationFits'
  <1>1. \A j \in Slots : tasks'[j] = tasks[j] \/ tasks'[j] = NoTask
    BY DEF IInv, TypeOK, Without
  <1>2. NoTask.op = "none"  BY DEF NoTask
  <1>   QED  BY <1>1, <1>2 DEF IInv, GenerationFits

\* A promise that is still live is of the page that is mounted, and its form is busy.
LEMMA LiveIsBusy ==
    ASSUME IInv, NEW i \in Slots, tasks[i].live = TRUE
    PROVE  /\ tasks[i].op = "signIn" => page = "login" /\ ui.loading
           /\ tasks[i].op = "register" => page = "register" /\ ui.loading
           /\ tasks[i].op = "stats" => page = "overview"
           /\ tasks[i].op = "attest" => page = "attestations" /\ ui.submitting
           /\ tasks[i].op = "generate" => page = "proofs" /\ ui.generating
           /\ tasks[i].op = "verify" => page = "proofs" /\ ui.verifying
  <1>1. i \in Own(tasks[i].op)  BY DEF Own
  <1>2. tasks[i].op \in FormOps \ {"stats"} => Busy(tasks[i].op)
    BY <1>1 DEF IInv, BusyWhilePending
  <1>3. tasks[i].op = "stats" => page = "overview"  BY <1>1 DEF IInv, FiguresForOverview
  <1>   QED  BY <1>2, <1>3 DEF FormOps, Busy

-----------------------------------------------------------------------------

\* handleSubmit of the login page.
LEMMA SubmitLoginKeeps == ASSUME IInv, SubmitLogin PROVE IInv'
  <1> DEFINE task == [op |-> "signIn", live |-> TRUE]
  <1>1. /\ page = "login" /\ ~ui.loading /\ UNCHANGED <<page, leaving, accounts>>
        /\ Free(tasks) # {} /\ tasks' = Begin(tasks, task)
        /\ ui' = [ui EXCEPT !.loading = TRUE, !.error = FALSE]
    BY DEF SubmitLogin, Ask
  <1>2. ui \in [loading : BOOLEAN, error : BOOLEAN, registered : Emails \cup {NoEmail}]
    BY <1>1 DEF IInv, TypeOK, UiOf
  <1>3. /\ ui' \in [loading : BOOLEAN, error : BOOLEAN, registered : Emails \cup {NoEmail}]
        /\ ui'.loading = TRUE /\ ui'.registered = ui.registered
    BY <1>1, <1>2
  <1>4. ui' \in UiOf(page)  BY <1>1, <1>3 DEF UiOf
  <1>5. task \in Promise  BY DEF Promise
  <1>6. ~Busy("signIn") /\ Busy("signIn")'  BY <1>1, <1>3 DEF Busy
  <1>7. \A op \in FormOps \ {"signIn"} : ~Busy(op) /\ ~Busy(op)'  BY <1>1 DEF FormOps, Busy
  <1>   QED  BY <1>1, <1>3, <1>4, <1>5, <1>6, <1>7, AskKeeps

\* Log out, from any page of the dashboard.
LEMMA SignOutKeeps == ASSUME IInv, SignOut PROVE IInv'
  <1> DEFINE task == [op |-> "signOut", live |-> TRUE]
  <1>1. /\ page \notin PublicPages /\ UNCHANGED <<page, ui, leaving, accounts>>
        /\ Free(tasks) # {} /\ tasks' = Begin(tasks, task)
    BY DEF SignOut, Ask
  <1>2. ui' \in UiOf(page)  BY <1>1 DEF IInv, TypeOK
  <1>3. task \in Promise  BY DEF Promise
  <1>4. \A op \in FormOps : Busy(op)' <=> Busy(op)  BY <1>1 DEF FormOps, Busy
  <1>5. page = "proofs" => (ui.verifying => ui.verdict = "none")  BY DEF IInv, ProofsPageConsistent
  <1>6. "signOut" \notin FormOps  BY DEF FormOps
  <1>   QED  BY <1>1, <1>2, <1>3, <1>4, <1>5, <1>6, AskKeeps

\* handleSubmit of the register page, with passwords that pass and that do not.
LEMMA SubmitRegisterKeeps ==
    ASSUME IInv, NEW who \in Emails, NEW passwords \in Passwords, SubmitRegister(who, passwords)
    PROVE  IInv'
  <1> DEFINE task == [op |-> "register", live |-> TRUE, who |-> who, reply |-> "none"]
  <1>1. page = "register" /\ ~ui.loading /\ UNCHANGED <<page, leaving, accounts>>
    BY DEF SubmitRegister
  <1>2. ui \in [loading : BOOLEAN, error : BOOLEAN]  BY <1>1 DEF IInv, TypeOK, UiOf
  <1>3. \A op \in FormOps \ {"register"} : ~Busy(op) /\ ~Busy(op)'  BY <1>1 DEF FormOps, Busy
  <1>4. CASE passwords = "good"
    <2>1. /\ Free(tasks) # {} /\ tasks' = Begin(tasks, task)
          /\ ui' = [ui EXCEPT !.loading = TRUE, !.error = FALSE]
      BY <1>4 DEF SubmitRegister, Ask
    <2>2. ui' \in [loading : BOOLEAN, error : BOOLEAN] /\ ui'.loading = TRUE  BY <1>2, <2>1
    <2>3. ui' \in UiOf(page)  BY <1>1, <2>2 DEF UiOf
    <2>4. task \in Promise  BY DEF Promise
    <2>5. ~Busy("register") /\ Busy("register")'  BY <1>1, <2>2 DEF Busy
    <2>   QED  BY <1>1, <1>3, <2>1, <2>3, <2>4, <2>5, AskKeeps
  <1>5. CASE passwords # "good"
    <2>1. ui' = [ui EXCEPT !.error = TRUE] /\ UNCHANGED tasks  BY <1>5 DEF SubmitRegister
    <2>2. ui' \in [loading : BOOLEAN, error : BOOLEAN] /\ ui'.loading = ui.loading  BY <1>2, <2>1
    <2>3. TypeOK'  BY <1>1, <2>1, <2>2 DEF IInv, TypeOK, UiOf
    <2>4. Busy("register")' <=> Busy("register")  BY <1>1, <2>2 DEF Busy
    <2>5. BusyWhilePending'  BY <1>1, <1>3, <2>1, <2>4, BusyKept DEF IInv
    <2>6. FiguresForOverview' /\ RepliesBacked' /\ GenerationFits'
      BY <1>1, <2>1 DEF IInv, FiguresForOverview, RepliesBacked, GenerationFits, Own
    <2>7. RegisteredMeansAccount' /\ ProofsPageConsistent' /\ TableStands'
      BY <1>1 DEF RegisteredMeansAccount, ProofsPageConsistent, TableStands
    <2>   QED  BY <2>3, <2>5, <2>6, <2>7 DEF IInv
  <1>   QED  BY <1>4, <1>5

\* next-auth's answer, which pushes the overview from wherever the user is by now.
LEMMA SettleSignInKeeps == ASSUME IInv, NEW i \in Slots, SettleSignIn(i) PROVE IInv'
  <1>1. tasks[i].op = "signIn" /\ UNCHANGED <<leaving, accounts>>  BY DEF SettleSignIn, Task
  <1>2. tasks \in [Slots -> Promise] /\ tasks[i] # NoTask /\ tasks[i].live \in BOOLEAN
    BY <1>1, PromiseFields DEF IInv, TypeOK, NoTask
  <1>3. leaving' \in {"none", "login", "home"}  BY <1>1 DEF IInv, TypeOK
  <1>4. CASE GoTo("overview", Without(i)) /\ page = "overview"
    <2>1. page' = page /\ tasks' = Without(i) /\ ui' = ui  BY <1>4 DEF GoTo
    <2>2. ui' \in UiOf(page)  BY <2>1 DEF IInv, TypeOK
    <2>3. ~Busy("signIn")'  BY <1>4, <2>1 DEF Busy
    <2>4. \A op \in FormOps : Busy(op)' <=> Busy(op)  BY <2>1 DEF FormOps, Busy
    <2>5. RegisteredMeansAccount' /\ ProofsPageConsistent'
      BY <1>4, <2>1 DEF RegisteredMeansAccount, ProofsPageConsistent
    <2>6. GenerationFits'  BY <2>1, SettleKeepsGenerating
    <2>   QED  BY <1>1, <1>2, <1>3, <2>1, <2>2, <2>3, <2>4, <2>5, <2>6, SettleKeeps
  <1>5. CASE GoTo("overview", Without(i)) /\ page # "overview"
    <2>1. /\ page' = "overview" /\ ui' = Fresh["overview"]
          /\ tasks' = StartUp("overview", Detached(Without(i)))
      BY <1>5 DEF GoTo
    <2>2. NoTask \in Promise /\ NoTask.op = "none"  BY DEF Promise, NoTask
    <2>3. Without(i) \in [Slots -> Promise] /\ Without(i)[i] = NoTask  BY <1>2, <2>2 DEF Without
    <2>4. Backed(Without(i), accounts)
      BY <1>2, <2>2 DEF IInv, RepliesBacked, Backed, Without
    <2>5. i \in Free(Detached(Without(i)))  BY <2>2, <2>3 DEF Free, Detached, Outliving
    <2>6. "overview" \in Pages  BY DEF Pages, NavItems
    <2>   QED  BY <1>1, <2>1, <2>3, <2>4, <2>5, <2>6, LeavingMounts
  <1>6. CASE /\ SetState(Task(i), [ui EXCEPT !.loading = FALSE, !.error = TRUE])
             /\ tasks' = Without(i) /\ page' = page
    <2>1. CASE tasks[i].live = TRUE
      <3>1. page = "login"  BY <1>1, <2>1, LiveIsBusy
      <3>2. ui \in [loading : BOOLEAN, error : BOOLEAN, registered : Emails \cup {NoEmail}]
        BY <3>1 DEF IInv, TypeOK, UiOf
      <3>3. ui' = [ui EXCEPT !.loading = FALSE, !.error = TRUE]  BY <1>6, <2>1 DEF SetState, Task
      <3>4. /\ ui' \in [loading : BOOLEAN, error : BOOLEAN, registered : Emails \cup {NoEmail}]
            /\ ui'.loading = FALSE /\ ui'.registered = ui.registered
        BY <3>2, <3>3
      <3>5. ui' \in UiOf(page)  BY <3>1, <3>4 DEF UiOf
      <3>6. ~Busy("signIn")'  BY <3>4 DEF Busy
      <3>7. \A op \in FormOps \ {"signIn"} : ~Busy(op) /\ ~Busy(op)'
        BY <1>6, <3>1 DEF FormOps, Busy
      <3>8. RegisteredMeansAccount' /\ ProofsPageConsistent'
        BY <1>1, <1>6, <3>1, <3>4 DEF IInv, RegisteredMeansAccount, ProofsPageConsistent
      <3>9. GenerationFits'  BY <1>6, <3>1, SettleKeepsGenerating
      <3>   QED  BY <1>1, <1>2, <1>3, <1>6, <2>1, <3>1, <3>5, <3>6, <3>7, <3>8, <3>9, SettleKeeps
    <2>2. CASE tasks[i].live = FALSE
      <3>1. ui' = ui  BY <1>6, <2>2 DEF SetState, Task
      <3>2. ui' \in UiOf(page)  BY <3>1 DEF IInv, TypeOK
      <3>3. \A op \in FormOps : Busy(op)' <=> Busy(op)  BY <1>6, <3>1 DEF FormOps, Busy
      <3>4. RegisteredMeansAccount' /\ ProofsPageConsistent'
        BY <1>1, <1>6, <3>1 DEF IInv, RegisteredMeansAccount, ProofsPageConsistent
      <3>5. GenerationFits'  BY <1>6, <3>1, SettleKeepsGenerating
      <3>   QED  BY <1>1, <1>2, <1>3, <1>6, <2>2, <3>1, <3>2, <3>3, <3>4, <3>5, SettleKeeps
    <2>   QED  BY <1>2, <2>1, <2>2
  <1>   QED  BY <1>4, <1>5, <1>6 DEF SettleSignIn

\* The end of signOut.
LEMMA SettleSignOutKeeps == ASSUME IInv, NEW i \in Slots, SettleSignOut(i) PROVE IInv'
  <1>1. /\ tasks[i].op = "signOut" /\ UNCHANGED <<page, ui, accounts>> /\ tasks' = Without(i)
        /\ leaving' \in {leaving, "home"}
    BY DEF SettleSignOut, Task
  <1>2. tasks \in [Slots -> Promise] /\ tasks[i] # NoTask  BY <1>1 DEF IInv, TypeOK, NoTask
  <1>3. ui' \in UiOf(page) /\ leaving' \in {"none", "login", "home"}  BY <1>1 DEF IInv, TypeOK
  <1>4. "signOut" \notin FormOps  BY DEF FormOps
  <1>5. \A op \in FormOps : Busy(op)' <=> Busy(op)  BY <1>1 DEF FormOps, Busy
  <1>6. RegisteredMeansAccount' /\ ProofsPageConsistent'
    BY <1>1 DEF IInv, RegisteredMeansAccount, ProofsPageConsistent
  <1>7. GenerationFits'  BY <1>1, SettleKeepsGenerating
  <1>   QED  BY <1>1, <1>2, <1>3, <1>4, <1>5, <1>6, <1>7, SettleKeeps

\* The provider buttons.
LEMMA SignInWithProviderKeeps == ASSUME IInv, SignInWithProvider PROVE IInv'
  <1>1. leaving' = "login" /\ UNCHANGED <<page, ui, tasks, accounts>>  BY DEF SignInWithProvider
  <1>2. TypeOK'  BY <1>1 DEF IInv, TypeOK
  <1>3. \A op \in FormOps : Busy(op)' <=> Busy(op)  BY <1>1 DEF FormOps, Busy
  <1>4. BusyWhilePending'  BY <1>1, <1>3, BusyKept DEF IInv
  <1>5. FiguresForOverview' /\ RepliesBacked' /\ GenerationFits'
    BY <1>1 DEF IInv, FiguresForOverview, RepliesBacked, GenerationFits, Own
  <1>6. RegisteredMeansAccount' /\ ProofsPageConsistent' /\ TableStands'
    BY <1>1 DEF IInv, RegisteredMeansAccount, ProofsPageConsistent, TableStands
  <1>   QED  BY <1>2, <1>4, <1>5, <1>6 DEF IInv

\* The backend's Register, which answers "created" for an account it inserted.
LEMMA RegisterKeeps == ASSUME IInv, NEW i \in Slots, Register(i) PROVE IInv'
  <1>1. PICK reply \in {"created", "refused"} :
            /\ tasks' = [tasks EXCEPT ![i].reply = reply]
            /\ reply = "created" => accounts' = accounts \cup {tasks[i].who}
            /\ reply = "refused" => accounts' = accounts
    BY DEF Register, Task
  <1>2. tasks[i].op = "register" /\ UNCHANGED <<page, ui, leaving>>  BY DEF Register, Task
  <1>3. tasks \in [Slots -> Promise]  BY DEF IInv, TypeOK
  <1>4. tasks[i].who \in Emails /\ [tasks[i] EXCEPT !.reply = reply] \in Promise
    BY <1>2, <1>3, PromiseFields
  <1>5. tasks' \in [Slots -> Promise]  BY <1>1, <1>3, <1>4
  <1>6. /\ accounts' \subseteq Emails /\ accounts \subseteq accounts'
        /\ reply = "created" => tasks[i].who \in accounts'
    BY <1>1, <1>4 DEF IInv, TypeOK
  <1>7. tasks[i] \in Told  BY <1>2, <1>3, PromiseKinds
  <1>8. /\ tasks'[i].op = "register" /\ tasks'[i].live = tasks[i].live
        /\ tasks'[i].who = tasks[i].who /\ tasks'[i].reply = reply
        /\ \A j \in Slots \ {i} : tasks'[j] = tasks[j]
    BY <1>1, <1>2, <1>3, <1>7 DEF Told
  <1>9. TypeOK'  BY <1>2, <1>5, <1>6 DEF IInv, TypeOK
  <1>10. \A op \in FormOps : Own(op)' = Own(op)  BY <1>2, <1>8 DEF Own
  <1>11. \A op \in FormOps : Busy(op)' <=> Busy(op)  BY <1>2 DEF FormOps, Busy
  <1>12. BusyWhilePending'  BY <1>10, <1>11 DEF IInv, BusyWhilePending
  <1>13. FiguresForOverview'
    BY <1>2, <1>10 DEF IInv, FiguresForOverview, FormOps
  <1>14. RegisteredMeansAccount'  BY <1>2, <1>6 DEF IInv, RegisteredMeansAccount
  <1>15. RepliesBacked'  BY <1>6, <1>8 DEF IInv, RepliesBacked
  <1>16. ProofsPageConsistent'  BY <1>2 DEF IInv, ProofsPageConsistent
  <1>17. GenerationFits'  BY <1>2, <1>8 DEF IInv, GenerationFits
  <1>18. TableStands'  BY <1>2 DEF IInv, TableStands
  <1>   QED  BY <1>9, <1>12, <1>13, <1>14, <1>15, <1>16, <1>17, <1>18 DEF IInv

\* The answer of a registration, which pushes the login page, and its loss.
LEMMA SettleRegisterKeeps == ASSUME IInv, NEW i \in Slots, SettleRegister(i) PROVE IInv'
  <1>1. tasks[i].op = "register" /\ UNCHANGED <<leaving, accounts>>  BY DEF SettleRegister, Task
  <1>2. tasks \in [Slots -> Promise] /\ tasks[i] # NoTask /\ tasks[i].live \in BOOLEAN
    BY <1>1, PromiseFields DEF IInv, TypeOK, NoTask
  <1>3. leaving' \in {"none", "login", "home"} /\ accounts' \subseteq Emails  BY <1>1 DEF IInv, TypeOK
  <1> DEFINE who == tasks[i].who
  <1>4. ASSUME tasks[i].reply = "created", PushRegistered(who, Without(i)), page = "login"
        PROVE  IInv'
    <2>1. page' = page /\ tasks' = Without(i) /\ ui' = [ui EXCEPT !.registered = who]
      BY <1>4 DEF PushRegistered
    <2>2. who \in accounts /\ who \in Emails  BY <1>1, <1>4 DEF IInv, RepliesBacked, TypeOK
    <2>3. ui \in [loading : BOOLEAN, error : BOOLEAN, registered : Emails \cup {NoEmail}]
      BY <1>4 DEF IInv, TypeOK, UiOf
    <2>4. /\ ui' \in [loading : BOOLEAN, error : BOOLEAN, registered : Emails \cup {NoEmail}]
          /\ ui'.loading = ui.loading /\ ui'.registered = who
      BY <2>1, <2>2, <2>3
    <2>5. ui' \in UiOf(page)  BY <1>4, <2>4 DEF UiOf
    <2>6. ~Busy("register")'  BY <1>4, <2>1 DEF Busy
    <2>7. \A op \in FormOps : Busy(op)' <=> Busy(op)  BY <1>4, <2>1, <2>4 DEF FormOps, Busy
    <2>8. RegisteredMeansAccount' /\ ProofsPageConsistent'
      BY <1>1, <1>4, <2>1, <2>2, <2>4 DEF RegisteredMeansAccount, ProofsPageConsistent
    <2>9. GenerationFits'  BY <1>4, <2>1, SettleKeepsGenerating
    <2>   QED  BY <1>1, <1>2, <1>3, <1>4, <2>1, <2>5, <2>6, <2>7, <2>8, <2>9, SettleKeeps
  <1>5. ASSUME tasks[i].reply = "created", PushRegistered(who, Without(i)), page # "login"
        PROVE  IInv'
    <2>1. /\ page' = "login" /\ ui' = [Fresh["login"] EXCEPT !.registered = who]
          /\ tasks' = Detached(Without(i))
      BY <1>5 DEF PushRegistered
    <2>2. who \in accounts  BY <1>1, <1>5 DEF IInv, RepliesBacked
    <2>3. NoTask \in Promise /\ NoTask.op = "none"  BY DEF Promise, NoTask
    <2>4. Without(i) \in [Slots -> Promise]  BY <1>2, <2>3 DEF Without
    <2>5. Backed(Without(i), accounts)  BY <1>2, <2>3 DEF IInv, RepliesBacked, Backed, Without
    <2>6. /\ Detached(Without(i)) \in [Slots -> Promise]
          /\ Idle(Detached(Without(i))) /\ Backed(Detached(Without(i)), accounts)
      BY <2>4, <2>5, DetachedIdle
    <2>7. tasks' = StartUp(page', Detached(Without(i)))  BY <2>1 DEF StartUp
    <2>8. page' \in Pages  BY <2>1 DEF Pages, PublicPages
    <2>9. Mounted'  BY <1>1, <1>3, <2>1, <2>2, <2>6, <2>7, <2>8 DEF Mounted
    <2>   QED  BY <2>9, MountedNext
  <1>6. CASE /\ SetState(Task(i), [ui EXCEPT !.loading = FALSE, !.error = TRUE])
             /\ tasks' = Without(i) /\ page' = page
    <2>1. CASE tasks[i].live = TRUE
      <3>1. page = "register"  BY <1>1, <2>1, LiveIsBusy
      <3>2. ui \in [loading : BOOLEAN, error : BOOLEAN]  BY <3>1 DEF IInv, TypeOK, UiOf
      <3>3. ui' = [ui EXCEPT !.loading = FALSE, !.error = TRUE]  BY <1>6, <2>1 DEF SetState, Task
      <3>4. ui' \in [loading : BOOLEAN, error : BOOLEAN] /\ ui'.loading = FALSE  BY <3>2, <3>3
      <3>5. ui' \in UiOf(page)  BY <3>1, <3>4 DEF UiOf
      <3>6. ~Busy("register")'  BY <3>4 DEF Busy
      <3>7. \A op \in FormOps \ {"register"} : ~Busy(op) /\ ~Busy(op)'
        BY <1>6, <3>1 DEF FormOps, Busy
      <3>8. RegisteredMeansAccount' /\ ProofsPageConsistent'
        BY <1>6, <3>1 DEF RegisteredMeansAccount, ProofsPageConsistent
      <3>9. GenerationFits'  BY <1>6, <3>1, SettleKeepsGenerating
      <3>   QED  BY <1>1, <1>2, <1>3, <1>6, <2>1, <3>1, <3>5, <3>6, <3>7, <3>8, <3>9, SettleKeeps
    <2>2. CASE tasks[i].live = FALSE
      <3>1. ui' = ui  BY <1>6, <2>2 DEF SetState, Task
      <3>2. ui' \in UiOf(page)  BY <3>1 DEF IInv, TypeOK
      <3>3. \A op \in FormOps : Busy(op)' <=> Busy(op)  BY <1>6, <3>1 DEF FormOps, Busy
      <3>4. RegisteredMeansAccount' /\ ProofsPageConsistent'
        BY <1>1, <1>6, <3>1 DEF IInv, RegisteredMeansAccount, ProofsPageConsistent
      <3>5. GenerationFits'  BY <1>6, <3>1, SettleKeepsGenerating
      <3>   QED  BY <1>1, <1>2, <1>3, <1>6, <2>2, <3>1, <3>2, <3>3, <3>4, <3>5, SettleKeeps
    <2>   QED  BY <1>2, <2>1, <2>2
  <1>   QED  BY <1>4, <1>5, <1>6 DEF SettleRegister, Task

\* No answer the router can give leaves the overview waiting.
LEMMA FiguresArrive ==
    ASSUME NEW f, NEW status \in StatsAnswers, NEW left, f \in {"none", "defaults", "served"}
    PROVE  Figures(f, status, left) \in {"defaults", "served"}
  BY DEF Figures, StatsAnswers

\* One of the overview's three requests is answered, whether or not it is still mounted.
LEMMA AnswerStatsKeeps == ASSUME IInv, NEW i \in Slots, AnswerStats(i) PROVE IInv'
  <1>1. PICK status \in StatsAnswers :
            /\ leaving' = IF status = "401" THEN "login" ELSE leaving
            /\ SetState(Task(i), [ui EXCEPT !.figures = Figures(@, status, Task(i).left)])
    BY DEF AnswerStats
  <1>2. tasks[i].op = "stats" /\ UNCHANGED <<page, accounts>>  BY DEF AnswerStats, Task
  <1>3. tasks \in [Slots -> Promise] /\ tasks[i] # NoTask /\ tasks[i].live \in BOOLEAN
    BY <1>2, PromiseFields DEF IInv, TypeOK, NoTask
  <1>4. leaving' \in {"none", "login", "home"}  BY <1>1 DEF IInv, TypeOK
  <1>5. /\ tasks[i].live = TRUE => page = "overview"
        /\ ui' \in UiOf(page)
        /\ tasks[i].live = TRUE => ~Busy("stats")'
        /\ tasks[i].live = FALSE => ui' = ui
    <2>1. CASE tasks[i].live = TRUE
      <3>1. page = "overview"  BY <1>2, <2>1, LiveIsBusy
      <3>2. ui \in [figures : {"none", "defaults", "served"}]  BY <3>1 DEF IInv, TypeOK, UiOf
      <3>3. ui' = [ui EXCEPT !.figures = Figures(ui.figures, status, tasks[i].left)]
        BY <1>1, <2>1 DEF SetState, Task
      <3>4. Figures(ui.figures, status, tasks[i].left) \in {"defaults", "served"}
        BY <3>2, FiguresArrive
      <3>5. ui' \in [figures : {"none", "defaults", "served"}] /\ ui'.figures # "none"
        BY <3>2, <3>3, <3>4
      <3>   QED  BY <2>1, <3>1, <3>5 DEF UiOf, Busy
    <2>2. CASE tasks[i].live = FALSE
      <3>1. ui' = ui  BY <1>1, <2>2 DEF SetState, Task
      <3>   QED  BY <2>2, <3>1 DEF IInv, TypeOK
    <2>   QED  BY <1>3, <2>1, <2>2
  <1>6. \A op \in FormOps \ {"stats"} : Busy(op)' <=> Busy(op)
    <2>1. CASE tasks[i].live = TRUE  BY <1>2, <1>5, <2>1 DEF FormOps, Busy
    <2>2. CASE tasks[i].live = FALSE  BY <1>2, <1>5, <2>2 DEF FormOps, Busy
    <2>   QED  BY <1>3, <2>1, <2>2
  <1>7. tasks[i].live = FALSE => (Busy("stats")' <=> Busy("stats"))
    BY <1>2, <1>5 DEF Busy
  <1>8. RegisteredMeansAccount' /\ ProofsPageConsistent'
    BY <1>2, <1>3, <1>5 DEF IInv, RegisteredMeansAccount, ProofsPageConsistent
  <1>9. page \in {"settings", "devices", "proofs"} => ui' = ui  BY <1>3, <1>5
  <1>10. CASE tasks[i].left = 1
    <2>1. tasks' = Without(i)  BY <1>10 DEF AnswerStats, Task
    <2>2. GenerationFits'  BY <1>2, <1>9, <2>1, SettleKeepsGenerating
    <2>   QED  BY <1>2, <1>3, <1>4, <1>5, <1>6, <1>7, <1>8, <1>9, <2>1, <2>2, SettleKeeps
  <1>11. CASE tasks[i].left # 1
    <2>1. tasks' = [tasks EXCEPT ![i].left = tasks[i].left - 1]
      BY <1>3, <1>11 DEF AnswerStats, Task
    <2>2. tasks[i].left \in 1 .. 3 /\ tasks[i].left - 1 \in 1 .. 3
      <3>1. tasks[i].left \in 1 .. 3  BY <1>2, <1>3, PromiseFields
      <3>   QED  BY <1>11, <3>1
    <2>3. [tasks[i] EXCEPT !.left = tasks[i].left - 1] \in Promise
      BY <1>2, <1>3, <2>2, PromiseFields
    <2>4. tasks[i] \in Asked  BY <1>2, <1>3, PromiseKinds
    <2>5. /\ tasks'[i].op = "stats" /\ tasks'[i].live = tasks[i].live
          /\ \A j \in Slots \ {i} : tasks'[j] = tasks[j]
      <3> DEFINE u == [tasks[i] EXCEPT !.left = tasks[i].left - 1]
      <3>1. u.op = tasks[i].op /\ u.live = tasks[i].live  BY <2>4 DEF Asked
      <3>2. tasks'[i] = u  BY <1>3, <2>1
      <3>3. \A j \in Slots \ {i} : tasks'[j] = tasks[j]  BY <1>3, <2>1
      <3>   QED  BY <1>2, <3>1, <3>2, <3>3
    <2>6. tasks' \in [Slots -> Promise]  BY <1>3, <2>1, <2>3
    <2>7. TypeOK'  BY <1>2, <1>4, <1>5, <2>6 DEF IInv, TypeOK
    <2>8. \A op \in FormOps : Own(op)' = Own(op)  BY <1>2, <2>5 DEF Own
    <2>9. Busy("stats")' => Busy("stats")  BY <1>3, <1>5, <1>7
    <2>10. BusyWhilePending'
      <3> SUFFICES ASSUME NEW op \in FormOps
                   PROVE  /\ \A j, k \in Own(op)' : j = k
                          /\ Busy(op)' => Own(op)' # {}
                          /\ (Own(op)' # {} /\ op # "stats") => Busy(op)'
        BY DEF BusyWhilePending
      <3>1. CASE op = "stats"  BY <2>8, <2>9, <3>1 DEF IInv, BusyWhilePending
      <3>2. CASE op # "stats"  BY <1>6, <2>8, <3>2 DEF IInv, BusyWhilePending
      <3>   QED  BY <3>1, <3>2
    <2>11. FiguresForOverview'  BY <1>2, <2>8 DEF IInv, FiguresForOverview, FormOps
    <2>12. RepliesBacked'  BY <1>2, <2>5 DEF IInv, RepliesBacked
    <2>13. GenerationFits'  BY <1>2, <1>9, <2>5 DEF IInv, GenerationFits
    <2>14. TableStands'  BY <1>2, <1>9 DEF IInv, TableStands
    <2>   QED  BY <1>8, <2>7, <2>10, <2>11, <2>12, <2>13, <2>14 DEF IInv
  <1>   QED  BY <1>10, <1>11

-----------------------------------------------------------------------------

\* handleSubmit of the attestations page.
LEMMA SubmitAttestationKeeps == ASSUME IInv, SubmitAttestation PROVE IInv'
  <1> DEFINE task == [op |-> "attest", live |-> TRUE]
  <1>1. /\ page = "attestations" /\ ~ui.submitting /\ UNCHANGED <<page, leaving, accounts>>
        /\ Free(tasks) # {} /\ tasks' = Begin(tasks, task)
        /\ ui' = [ui EXCEPT !.submitting = TRUE]
    BY DEF SubmitAttestation, OnPage, StartTimer
  <1>2. ui \in [deviceId : Devices \cup {NoDevice}, submitting : BOOLEAN]
    BY <1>1 DEF IInv, TypeOK, UiOf
  <1>3. ui' \in [deviceId : Devices \cup {NoDevice}, submitting : BOOLEAN] /\ ui'.submitting = TRUE
    BY <1>1, <1>2
  <1>4. ui' \in UiOf(page)  BY <1>1, <1>3 DEF UiOf
  <1>5. task \in Promise  BY DEF Promise
  <1>6. ~Busy("attest") /\ Busy("attest")'  BY <1>1, <1>3 DEF Busy
  <1>7. \A op \in FormOps \ {"attest"} : ~Busy(op) /\ ~Busy(op)'  BY <1>1 DEF FormOps, Busy
  <1>   QED  BY <1>1, <1>4, <1>5, <1>6, <1>7, AskKeeps

\* Its timer.
LEMMA AttestationDoneKeeps == ASSUME IInv, NEW i \in Slots, AttestationDone(i) PROVE IInv'
  <1>1. /\ page = "attestations" /\ tasks[i].op = "attest" /\ tasks' = Without(i)
        /\ UNCHANGED <<page, leaving, accounts>>
        /\ ui' = [ui EXCEPT !.submitting = FALSE, !.deviceId = NoDevice]
    BY DEF AttestationDone, OnPage, Fires, Task
  <1>2. ui \in [deviceId : Devices \cup {NoDevice}, submitting : BOOLEAN]
    BY <1>1 DEF IInv, TypeOK, UiOf
  <1>3. ui' \in [deviceId : Devices \cup {NoDevice}, submitting : BOOLEAN] /\ ui'.submitting = FALSE
    BY <1>1, <1>2
  <1>4. ui' \in UiOf(page) /\ leaving' \in {"none", "login", "home"}
    BY <1>1, <1>3 DEF UiOf, IInv, TypeOK
  <1>5. tasks[i] # NoTask  BY <1>1 DEF NoTask
  <1>6. ~Busy("attest")'  BY <1>3 DEF Busy
  <1>7. \A op \in FormOps \ {"attest"} : ~Busy(op) /\ ~Busy(op)'  BY <1>1 DEF FormOps, Busy
  <1>8. tasks[i].live = TRUE  BY <1>1, PromiseFields DEF IInv, TypeOK
  <1>9. RegisteredMeansAccount' /\ ProofsPageConsistent'
    BY <1>1 DEF RegisteredMeansAccount, ProofsPageConsistent
  <1>10. GenerationFits'  BY <1>1, SettleKeepsGenerating
  <1>   QED  BY <1>1, <1>4, <1>5, <1>6, <1>7, <1>8, <1>9, <1>10, SettleKeeps

\* An item put before a sequence.
LEMMA Prepended ==
    ASSUME NEW S, NEW s \in Seq(S), NEW e \in S
    PROVE  /\ << e >> \o s \in Seq(S)
           /\ << e >> \o s # << >> /\ Head(<< e >> \o s) = e
           /\ \A n \in DOMAIN (<< e >> \o s) :
                  (<< e >> \o s)[n] = e \/ \E m \in DOMAIN s : (<< e >> \o s)[n] = s[m]
  <1>1. << e >> \in Seq(S) /\ Len(<< e >>) = 1 /\ << e >>[1] = e  OBVIOUS
  <1>2. /\ << e >> \o s \in Seq(S)
        /\ Len(<< e >> \o s) = 1 + Len(s)
        /\ \A n \in 1 .. 1 + Len(s) : (<< e >> \o s)[n] = IF n <= 1 THEN << e >>[n] ELSE s[n - 1]
    BY <1>1
  <1>3. Len(s) \in Nat /\ DOMAIN s = 1 .. Len(s)  OBVIOUS
  <1>4. DOMAIN (<< e >> \o s) = 1 .. 1 + Len(s)  BY <1>2, <1>3
  <1>5. (<< e >> \o s)[1] = e  BY <1>1, <1>2, <1>3
  <1>6. \A n \in 1 .. 1 + Len(s) : n # 1 => n - 1 \in DOMAIN s /\ (<< e >> \o s)[n] = s[n - 1]
    BY <1>2, <1>3
  <1>7. << e >> \o s # << >>  BY <1>2, <1>3
  <1>8. Head(<< e >> \o s) = e  BY <1>2, <1>5, <1>7
  <1>   QED  BY <1>2, <1>4, <1>5, <1>6, <1>7, <1>8

\* The state of the proofs page.
ProofsUi == [device : Devices \cup {NoDevice},
             generating : BOOLEAN, result : ProofIds \cup {0}, error : BOOLEAN,
             proofs : Seq([id : ProofIds, device : Devices]),
             verifying : BOOLEAN, verdict : {"none", "verified", "failed"}]

\* A handler of the proofs page that asks nothing.
LEMMA ProofsStep ==
    ASSUME IInv, page = "proofs", UNCHANGED <<page, tasks, leaving, accounts>>,
           ui' \in ProofsUi, ui'.generating = ui.generating, ui'.verifying = ui.verifying,
           ProofsPageConsistent', GenerationFits'
    PROVE  IInv'
  <1>1. TypeOK'  BY DEF IInv, TypeOK, UiOf, ProofsUi
  <1>2. \A op \in FormOps : Busy(op)' <=> Busy(op)  BY DEF FormOps, Busy
  <1>3. BusyWhilePending'  BY <1>2, BusyKept DEF IInv
  <1>4. FiguresForOverview' /\ RepliesBacked'
    BY DEF IInv, FiguresForOverview, RepliesBacked, Own
  <1>5. RegisteredMeansAccount' /\ TableStands'
    BY DEF RegisteredMeansAccount, TableStands
  <1>   QED  BY <1>1, <1>3, <1>4, <1>5 DEF IInv

\* The proofs page has its own state.
LEMMA ProofsUiTyped == ASSUME IInv, page = "proofs" PROVE ui \in ProofsUi
  BY DEF IInv, TypeOK, UiOf, ProofsUi

\* A device is chosen only while none is, when no proof has been generated or is under way.
LEMMA SelectDeviceKeeps == ASSUME IInv, NEW d \in Devices, SelectDevice(d) PROVE IInv'
  <1>1. /\ page = "proofs" /\ UNCHANGED <<page, tasks, leaving, accounts>>
        /\ ui.device = NoDevice /\ ui' = [ui EXCEPT !.device = d]
    BY DEF SelectDevice, OnPage
  <1>2. ui \in ProofsUi  BY <1>1, ProofsUiTyped
  <1>3. ui' \in ProofsUi  BY <1>1, <1>2 DEF ProofsUi
  <1>4. /\ ui'.generating = ui.generating /\ ui'.verifying = ui.verifying
        /\ ui'.proofs = ui.proofs /\ ui'.result = ui.result /\ ui'.verdict = ui.verdict
    BY <1>1, <1>2 DEF ProofsUi
  <1>5. ui.proofs \in Seq([id : ProofIds, device : Devices])  BY <1>2 DEF ProofsUi
  <1>6. \A n \in DOMAIN ui.proofs : FALSE
    <2> SUFFICES ASSUME NEW n \in DOMAIN ui.proofs PROVE FALSE  OBVIOUS
    <2>1. ui.proofs[n] \in [id : ProofIds, device : Devices]  BY <1>5, Element
    <2>2. ui.proofs[n].device \in Devices  BY <2>1
    <2>3. ui.proofs[n].device = NoDevice  BY <1>1 DEF IInv, ProofsPageConsistent
    <2>   QED  BY <2>2, <2>3, ConsoleAssumption
  <1>7. ProofsPageConsistent'  BY <1>1, <1>4, <1>6 DEF IInv, ProofsPageConsistent
  <1>8. \A i \in Slots : tasks[i].op # "generate"
    <2> SUFFICES ASSUME NEW i \in Slots, tasks[i].op = "generate" PROVE FALSE  OBVIOUS
    <2>1. tasks[i].device \in Devices  BY PromiseFields DEF IInv, TypeOK
    <2>2. tasks[i].device = NoDevice  BY <1>1 DEF IInv, GenerationFits
    <2>   QED  BY <2>1, <2>2, ConsoleAssumption
  <1>9. GenerationFits'  BY <1>1, <1>8 DEF GenerationFits
  <1>   QED  BY <1>1, <1>3, <1>4, <1>7, <1>9, ProofsStep

\* handleGenerate, with text that parses and that does not.
LEMMA GenerateKeeps == ASSUME IInv, NEW text \in {"json", "broken"}, Generate(text) PROVE IInv'
  <1>1. /\ page = "proofs" /\ UNCHANGED <<page, leaving, accounts>>
        /\ ui.device # NoDevice /\ ~ui.generating /\ Len(ui.proofs) < MaxProofs
    BY DEF Generate, OnPage
  <1>2. ui \in ProofsUi  BY <1>1, ProofsUiTyped
  <1>3. CASE text = "json"
    <2> DEFINE task == [op |-> "generate", live |-> TRUE, device |-> ui.device]
    <2>1. /\ Free(tasks) # {} /\ tasks' = Begin(tasks, task)
          /\ ui' = [ui EXCEPT !.generating = TRUE, !.error = FALSE]
      BY <1>3 DEF Generate, StartTimer
    <2>2. ui' \in ProofsUi  BY <1>2, <2>1 DEF ProofsUi
    <2>3. /\ ui'.generating = TRUE /\ ui'.verifying = ui.verifying /\ ui'.device = ui.device
          /\ ui'.proofs = ui.proofs /\ ui'.result = ui.result /\ ui'.verdict = ui.verdict
      BY <1>2, <2>1 DEF ProofsUi
    <2>4. ui' \in UiOf(page)  BY <1>1, <2>2 DEF UiOf, ProofsUi
    <2>5. task \in Promise
      <3>1. ui.device \in Devices  BY <1>1, <1>2 DEF ProofsUi
      <3>   QED  BY <3>1 DEF Promise
    <2>6. ~Busy("generate") /\ Busy("generate")'  BY <1>1, <2>3 DEF Busy
    <2>7. \A op \in FormOps \ {"generate"} : Busy(op)' <=> Busy(op)  BY <1>1, <2>3 DEF FormOps, Busy
    <2>8. ui'.verifying => ui'.verdict = "none"
      BY <1>1, <2>3 DEF IInv, ProofsPageConsistent
    <2>   QED  BY <1>1, <2>1, <2>3, <2>4, <2>5, <2>6, <2>7, <2>8, AskKeeps
  <1>4. CASE text = "broken"
    <2>1. ui' = [ui EXCEPT !.error = TRUE] /\ UNCHANGED tasks  BY <1>4 DEF Generate
    <2>2. ui' \in ProofsUi  BY <1>2, <2>1 DEF ProofsUi
    <2>3. /\ ui'.generating = ui.generating /\ ui'.verifying = ui.verifying /\ ui'.device = ui.device
          /\ ui'.proofs = ui.proofs /\ ui'.result = ui.result /\ ui'.verdict = ui.verdict
      BY <1>2, <2>1 DEF ProofsUi
    <2>4. ProofsPageConsistent' /\ GenerationFits'
      BY <1>1, <2>1, <2>3 DEF IInv, ProofsPageConsistent, GenerationFits
    <2>   QED  BY <1>1, <2>1, <2>2, <2>3, <2>4, ProofsStep
  <1>   QED  BY <1>3, <1>4

\* Its timer: the proof is for the device still chosen, and no other generation is under way.
LEMMA GeneratedKeeps == ASSUME IInv, NEW i \in Slots, Generated(i) PROVE IInv'
  <1> DEFINE proof == [id |-> Len(ui.proofs) + 1, device |-> tasks[i].device]
  <1>1. /\ page = "proofs" /\ tasks[i].op = "generate" /\ tasks' = Without(i)
        /\ UNCHANGED <<page, leaving, accounts>>
        /\ ui' = [ui EXCEPT !.proofs = << proof >> \o @, !.result = proof.id, !.generating = FALSE]
    BY DEF Generated, OnPage, Fires, Task
  <1>2. ui \in ProofsUi  BY <1>1, ProofsUiTyped
  <1>3. ui.proofs \in Seq([id : ProofIds, device : Devices])  BY <1>2 DEF ProofsUi
  <1>4. tasks \in [Slots -> Promise] /\ tasks[i] # NoTask  BY <1>1 DEF IInv, TypeOK, NoTask
  <1>5. tasks[i].live = TRUE /\ tasks[i].device \in Devices  BY <1>1, <1>4, PromiseFields
  <1>6. tasks[i].device = ui.device /\ Len(ui.proofs) < MaxProofs  BY <1>1 DEF IInv, GenerationFits
  <1>7. Len(ui.proofs) + 1 \in ProofIds  BY <1>3, <1>6, ConsoleAssumption DEF ProofIds
  <1>8. proof \in [id : ProofIds, device : Devices]  BY <1>5, <1>7
  <1> DEFINE history == << proof >> \o ui.proofs
  <1>9. /\ history \in Seq([id : ProofIds, device : Devices])
        /\ history # << >> /\ Head(history) = proof
        /\ \A n \in DOMAIN history : history[n] = proof \/ \E m \in DOMAIN ui.proofs : history[n] = ui.proofs[m]
    BY <1>3, <1>8, Prepended
  <1>10. proof.id \in ProofIds /\ proof.device = ui.device  BY <1>6, <1>7
  <1> HIDE DEF history, proof
  <1>11. ui' = [ui EXCEPT !.proofs = history, !.result = proof.id, !.generating = FALSE]
    BY <1>1 DEF history
  <1>12. ui' \in ProofsUi  BY <1>2, <1>9, <1>10, <1>11 DEF ProofsUi
  <1>13. /\ ui'.proofs = history /\ ui'.result = proof.id /\ ui'.generating = FALSE
         /\ ui'.verifying = ui.verifying /\ ui'.verdict = ui.verdict /\ ui'.device = ui.device
    BY <1>2, <1>11 DEF ProofsUi
  <1>14. \A m \in DOMAIN ui.proofs : ui.proofs[m].device = ui.device
    BY <1>1 DEF IInv, ProofsPageConsistent
  <1>15. \A n \in DOMAIN history : history[n].device = ui.device  BY <1>9, <1>10, <1>14
  <1>16. ui.verifying => ui.verdict = "none"  BY <1>1 DEF IInv, ProofsPageConsistent
  <1>17. ProofsPageConsistent'
    BY <1>1, <1>9, <1>13, <1>15, <1>16 DEF ProofsPageConsistent
  <1>18. ui' \in UiOf(page) /\ leaving' \in {"none", "login", "home"}
    BY <1>1, <1>12 DEF UiOf, ProofsUi, IInv, TypeOK
  <1>19. ~Busy("generate")'  BY <1>13 DEF Busy
  <1>20. \A op \in FormOps \ {"generate"} : Busy(op)' <=> Busy(op)  BY <1>1, <1>13 DEF FormOps, Busy
  <1>21. GenerationFits'
    <2>1. \A j \in Slots : tasks[j].op = "generate" => j = i
      <3> SUFFICES ASSUME NEW j \in Slots, tasks[j].op = "generate" PROVE j = i  OBVIOUS
      <3>1. tasks[j].live = TRUE  BY <1>4, PromiseFields
      <3>2. i \in Own("generate") /\ j \in Own("generate")  BY <1>1, <1>5, <3>1 DEF Own
      <3>   QED  BY <3>2 DEF IInv, BusyWhilePending, FormOps
    <2>2. \A j \in Slots : tasks'[j] = IF j = i THEN NoTask ELSE tasks[j]  BY <1>1, <1>4 DEF Without
    <2>3. \A j \in Slots : tasks'[j].op # "generate"  BY <2>1, <2>2 DEF NoTask
    <2>   QED  BY <2>3 DEF GenerationFits
  <1>22. RegisteredMeansAccount'  BY <1>1 DEF RegisteredMeansAccount
  <1>   QED  BY <1>1, <1>4, <1>5, <1>17, <1>18, <1>19, <1>20, <1>21, <1>22, SettleKeeps

\* handleVerify.
LEMMA VerifyKeeps == ASSUME IInv, NEW claim \in {"p-id", "other"}, Verify(claim) PROVE IInv'
  <1> DEFINE task == [op |-> "verify", live |-> TRUE, claim |-> claim]
  <1>1. /\ page = "proofs" /\ UNCHANGED <<page, leaving, accounts>> /\ ~ui.verifying
        /\ Free(tasks) # {} /\ tasks' = Begin(tasks, task)
        /\ ui' = [ui EXCEPT !.verifying = TRUE, !.verdict = "none"]
    BY DEF Verify, OnPage, StartTimer
  <1>2. ui \in ProofsUi  BY <1>1, ProofsUiTyped
  <1>3. ui' \in ProofsUi  BY <1>1, <1>2 DEF ProofsUi
  <1>4. /\ ui'.verifying = TRUE /\ ui'.verdict = "none" /\ ui'.generating = ui.generating
        /\ ui'.device = ui.device /\ ui'.proofs = ui.proofs /\ ui'.result = ui.result
    BY <1>1, <1>2 DEF ProofsUi
  <1>5. ui' \in UiOf(page)  BY <1>1, <1>3 DEF UiOf, ProofsUi
  <1>6. task \in Promise  BY DEF Promise
  <1>7. ~Busy("verify") /\ Busy("verify")'  BY <1>1, <1>4 DEF Busy
  <1>8. \A op \in FormOps \ {"verify"} : Busy(op)' <=> Busy(op)  BY <1>1, <1>4 DEF FormOps, Busy
  <1>   QED  BY <1>1, <1>4, <1>5, <1>6, <1>7, <1>8, AskKeeps

\* Its timer.
LEMMA VerifiedKeeps == ASSUME IInv, NEW i \in Slots, Verified(i) PROVE IInv'
  <1>1. PICK verdict \in {"verified", "failed"} :
            ui' = [ui EXCEPT !.verifying = FALSE, !.verdict = verdict]
    BY DEF Verified
  <1>2. /\ page = "proofs" /\ tasks[i].op = "verify" /\ tasks' = Without(i)
        /\ UNCHANGED <<page, leaving, accounts>>
    BY DEF Verified, OnPage, Fires, Task
  <1>3. ui \in ProofsUi  BY <1>2, ProofsUiTyped
  <1>4. ui' \in ProofsUi  BY <1>1, <1>3 DEF ProofsUi
  <1>5. /\ ui'.verifying = FALSE /\ ui'.generating = ui.generating
        /\ ui'.device = ui.device /\ ui'.proofs = ui.proofs /\ ui'.result = ui.result
    BY <1>1, <1>3 DEF ProofsUi
  <1>6. tasks \in [Slots -> Promise] /\ tasks[i] # NoTask  BY <1>2 DEF IInv, TypeOK, NoTask
  <1>7. tasks[i].live = TRUE  BY <1>2, <1>6, PromiseFields
  <1>8. ui' \in UiOf(page) /\ leaving' \in {"none", "login", "home"}
    BY <1>2, <1>4 DEF UiOf, ProofsUi, IInv, TypeOK
  <1>9. ~Busy("verify")'  BY <1>5 DEF Busy
  <1>10. \A op \in FormOps \ {"verify"} : Busy(op)' <=> Busy(op)  BY <1>2, <1>5 DEF FormOps, Busy
  <1>11. RegisteredMeansAccount' /\ ProofsPageConsistent'
    BY <1>2, <1>5 DEF IInv, RegisteredMeansAccount, ProofsPageConsistent
  <1>12. GenerationFits'  BY <1>2, <1>5, SettleKeepsGenerating
  <1>   QED  BY <1>2, <1>6, <1>7, <1>8, <1>9, <1>10, <1>11, <1>12, SettleKeeps

-----------------------------------------------------------------------------

\* Every handler, every promise that settles and every document loaded keep the invariant.
LEMMA NextHolds == ASSUME IInv, [Next]_vars PROVE IInv'
  <1>1. ASSUME NEW p \in Pages, FollowLink(p) \/ GoBack(p) \/ OpenAddress(p) PROVE IInv'
    BY <1>1, LeaveKeeps, LoadKeeps DEF FollowLink, GoBack, OpenAddress
  <1>2. CASE SubmitLogin  BY <1>2, SubmitLoginKeeps
  <1>3. CASE SignInWithProvider  BY <1>3, SignInWithProviderKeeps
  <1>4. CASE SignOut  BY <1>4, SignOutKeeps
  <1>5. ASSUME NEW who \in Emails, NEW passwords \in Passwords, SubmitRegister(who, passwords)
        PROVE  IInv'
    BY <1>5, SubmitRegisterKeeps
  <1>6. CASE UserOnDevices  BY <1>6, UserOnDevicesKeeps
  <1>7. ASSUME NEW d \in Devices \cup {NoDevice}, TypeDeviceId(d) PROVE IInv'
    BY <1>7, TypeDeviceIdKeeps
  <1>8. CASE SubmitAttestation  BY <1>8, SubmitAttestationKeeps
  <1>9. CASE UserOnProofs
    BY <1>9, SelectDeviceKeeps, GenerateKeeps, VerifyKeeps DEF UserOnProofs
  <1>10. CASE UserOnSettings  BY <1>10, UserOnSettingsKeeps
  <1>11. CASE Unload
    <2>1. leaving \in Pages  BY <1>11 DEF Unload, IInv, TypeOK, Pages, PublicPages
    <2>   QED  BY <1>11, <2>1, LoadKeeps DEF Unload
  <1>12. ASSUME NEW i \in Slots, Settle(i) \/ Register(i) PROVE IInv'
    BY <1>12, AnswerStatsKeeps, SettleSignInKeeps, SettleSignOutKeeps, SettleRegisterKeeps,
       AttestationDoneKeeps, GeneratedKeeps, VerifiedKeeps, RegisterKeeps
       DEF Settle
  <1>13. CASE UNCHANGED vars
    <2>1. UNCHANGED <<page, ui, tasks, leaving, accounts>>  BY <1>13 DEF vars
    <2>2. TypeOK'  BY <2>1 DEF IInv, TypeOK
    <2>3. \A op \in FormOps : Busy(op)' <=> Busy(op)  BY <2>1 DEF FormOps, Busy
    <2>4. BusyWhilePending'  BY <2>1, <2>3, BusyKept DEF IInv
    <2>5. FiguresForOverview' /\ RepliesBacked' /\ GenerationFits'
      BY <2>1 DEF IInv, FiguresForOverview, RepliesBacked, GenerationFits, Own
    <2>6. RegisteredMeansAccount' /\ ProofsPageConsistent' /\ TableStands'
      BY <2>1 DEF IInv, RegisteredMeansAccount, ProofsPageConsistent, TableStands
    <2>   QED  BY <2>2, <2>4, <2>5, <2>6 DEF IInv
  <1>   QED  BY <1>1, <1>2, <1>3, <1>4, <1>5, <1>6, <1>7, <1>8, <1>9, <1>10, <1>11, <1>12, <1>13
             DEF Next, User

\* The inductive invariant: in every reachable state each busy form has one request of its own
\* under way, and what a promise carries still fits the page it will find.
THEOREM Invariance == Spec => []IInv
  BY InitHolds, NextHolds, PTL DEF Spec

\* The state shown is always that of the page mounted.
THEOREM TypeCorrect == Spec => []TypeOK
  <1>1. IInv => TypeOK  BY DEF IInv
  <1>   QED  BY <1>1, Invariance, PTL

\* However pages are left and entered while requests are under way, a form is busy exactly
\* while one request of its own is.
THEOREM BusyHasRequest == Spec => []BusyWhilePending
  <1>1. IInv => BusyWhilePending  BY DEF IInv
  <1>   QED  BY <1>1, Invariance, PTL

\* The push to /login?registered=true is made only for an account the backend has, whatever
\* answers are lost, attempts repeated and pages left.
THEOREM RegistrationTrue == Spec => []RegisteredMeansAccount
  <1>1. IInv => RegisteredMeansAccount  BY DEF IInv
  <1>   QED  BY <1>1, Invariance, PTL

\* The proof on display heads the history, and the history is of one device.
THEOREM ProofsPageTrue == Spec => []ProofsPageConsistent
  <1>1. IInv => ProofsPageConsistent  BY DEF IInv
  <1>   QED  BY <1>1, Invariance, PTL

\* The table never stands past its last page, and its pages show the rows that match, once each.
THEOREM TablePages == Spec => []TablePagesCover
  <1>1. ASSUME IInv PROVE TablePagesCover
    <2> SUFFICES ASSUME page = "devices"
                 PROVE  /\ ui.table.page < TotalPages(ui.table)
                        /\ Sorted(ui.table) # {}
                        /\ \A s \in Sorted(ui.table) :
                              /\ Filtered(ui.table) # {} => Paged(s, ui.table.page) # {}
                              /\ \A i \in DOMAIN Rows :
                                    Cardinality({q \in 0 .. TotalPages(ui.table) - 1 : i \in Paged(s, q)})
                                        = IF i \in Filtered(ui.table) THEN 1 ELSE 0
      BY DEF TablePagesCover
    <2>1. ui.table.page < TotalPages(ui.table)  BY <1>1 DEF IInv, TableStands
    <2>2. ui.table \in Table  BY <1>1 DEF IInv, TypeOK, UiOf
    <2>3. ui.table.page \in Nat  BY <2>2 DEF Table
    <2>   QED  BY <2>1, <2>2, <2>3, SortHasOutcome, ShownPageHasRows, PagesPartition
  <1>   QED  BY <1>1, Invariance, PTL

=============================================================================
