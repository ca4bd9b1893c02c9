----------------------------- MODULE AuthPages ------------------------------
(***************************************************************************)
(* The login and the register page and the topbar's log out.  What the     *)
(* user typed is chosen when a form is submitted.  next-auth is external:  *)
(* its promises settle in one of the ways the handlers tell apart.         *)
(***************************************************************************)
EXTENDS ConsoleShell

Ask(task) == Free(tasks) # {} /\ tasks' = Begin(tasks, task)

SubmitLogin ==
    /\ page = "login" /\ ~ui.loading
    /\ Ask([op |-> "signIn", live |-> TRUE])
    /\ ui' = [ui EXCEPT !.loading = TRUE, !.error = FALSE]
    /\ UNCHANGED <<page, leaving, accounts>>

\* signIn resolves to a result without error, to nothing at all or to an error, or it
\* throws.  The first two push the dashboard, from wherever the user is by now.
SettleSignIn(i) ==
    /\ Task(i).op = "signIn"
    /\ \E result \in {"ok", "nothing", "error", "thrown"} :
           IF result \in {"ok", "nothing"}
           THEN GoTo("overview", Without(i))
           ELSE /\ SetState(Task(i), [ui EXCEPT !.loading = FALSE, !.error = TRUE])
                /\ tasks' = Without(i)
                /\ UNCHANGED page
    /\ UNCHANGED <<leaving, accounts>>

\* The GitHub and Google buttons leave the document; next-auth brings the user back here.
SignInWithProvider ==
    /\ page = "login" /\ leaving = "none"
    /\ leaving' = "login"
    /\ UNCHANGED <<page, ui, tasks, accounts>>

SignOut ==
    /\ page \notin PublicPages
    /\ Ask([op |-> "signOut", live |-> TRUE])
    /\ UNCHANGED <<page, ui, leaving, accounts>>

\* signOut loads the home page; a failure is an unhandled rejection.
SettleSignOut(i) ==
    /\ Task(i).op = "signOut"
    /\ leaving' \in {leaving, "home"}
    /\ tasks' = Without(i)
    /\ UNCHANGED <<page, ui, accounts>>

-----------------------------------------------------------------------------
(* Registration. *)

\* The two passwords: good ones, two that differ, or equal ones of under eight
\* characters, which the browser's own check lets through when it filled them in itself.
Passwords == {"good", "different", "short"}

\* Mutant: the button is put in its busy state before the passwords are compared.
SubmitRegisterBusyFirst(who, passwords) ==
    /\ page = "register" /\ ~ui.loading
    /\ IF passwords = "good"
       THEN /\ Ask([op |-> "register", live |-> TRUE, who |-> who, reply |-> "none"])
            /\ ui' = [ui EXCEPT !.loading = TRUE, !.error = FALSE]
       ELSE ui' = [ui EXCEPT !.loading = TRUE, !.error = TRUE] /\ UNCHANGED tasks
    /\ UNCHANGED <<page, leaving, accounts>>

SubmitRegister(who, passwords) ==
    /\ page = "register" /\ ~ui.loading
    /\ IF passwords = "good"
       THEN /\ Ask([op |-> "register", live |-> TRUE, who |-> who, reply |-> "none"])
            /\ ui' = [ui EXCEPT !.loading = TRUE, !.error = FALSE]
       ELSE ui' = [ui EXCEPT !.error = TRUE] /\ UNCHANGED tasks
    /\ UNCHANGED <<page, leaving, accounts>>

\* The backend's Register handler: one insert, on a unique email, or some failure before
\* it.  The user gets no tenant, as the page sends none.
Register(i) ==
    /\ Task(i).op = "register" /\ Task(i).reply = "none"
    /\ \/ /\ Task(i).who \notin accounts
          /\ accounts' = accounts \cup {Task(i).who}
          /\ tasks' = [tasks EXCEPT ![i].reply = "created"]
       \/ tasks' = [tasks EXCEPT ![i].reply = "refused"] /\ UNCHANGED accounts
    /\ UNCHANGED <<page, ui, leaving>>

\* The push to /login?registered=true.  On the login page itself only the address changes,
\* and that page never reads it: ui.registered is no more than the address says, and whom
\* it was pushed for, which the address does not say.
PushRegistered(who, rest) ==
    /\ page' = "login"
    /\ ui' = [IF page = "login" THEN ui ELSE Fresh["login"] EXCEPT !.registered = who]
    /\ tasks' = IF page = "login" THEN rest ELSE Detached(rest)

\* Mutant: the status of the response is not looked at.
SettleRegisterUnchecked(i) ==
    /\ Task(i).op = "register"
    /\ \/ Task(i).reply # "none" /\ PushRegistered(Task(i).who, Without(i))
       \/ /\ SetState(Task(i), [ui EXCEPT !.loading = FALSE, !.error = TRUE])
          /\ tasks' = Without(i)
          /\ UNCHANGED page
    /\ UNCHANGED <<leaving, accounts>>

\* The answer arrives, or it or the request is lost and fetch rejects.
SettleRegister(i) ==
    /\ Task(i).op = "register"
    /\ \/ Task(i).reply = "created" /\ PushRegistered(Task(i).who, Without(i))
       \/ /\ SetState(Task(i), [ui EXCEPT !.loading = FALSE, !.error = TRUE])
          /\ tasks' = Without(i)
          /\ UNCHANGED page
    /\ UNCHANGED <<leaving, accounts>>

=============================================================================
