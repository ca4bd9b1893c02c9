----------------------------- MODULE WorkPages ------------------------------
(***************************************************************************)
(* The pages behind the sidebar that work on data of their own: devices,   *)
(* attestations, proofs and settings.  Their calls of the API are timers.  *)
(* On the proofs page the texts are chosen when they are submitted.        *)
(***************************************************************************)
EXTENDS ConsoleShell

\* A handler of page p that changes nothing but the page's state.
OnPage(p) == page = p /\ UNCHANGED <<page, leaving, accounts>>

StartTimer(task) == Free(tasks) # {} /\ tasks' = Begin(tasks, task)

\* The timer of a mounted page runs out; there is no other, see Detached.
Fires(i, op) == Task(i).op = op /\ tasks' = Without(i)

-----------------------------------------------------------------------------
(* Devices. *)

\* A row that leaves the page of the table takes its menu with it.
Retained(menu, t) == IF menu # NoDevice /\ menu \notin ShownIds(t) THEN NoDevice ELSE menu

StepTable ==
    /\ OnPage("devices")
    /\ \E t \in TableSteps(ui.table) : ui' = [ui EXCEPT !.table = t, !.menu = Retained(@, t)]
    /\ UNCHANGED tasks

\* DropdownMenu: the trigger's button opens the menu of a row and anything closes it; its
\* items stand in the row itself as well, and there they toggle it.  Delete does nothing
\* beyond that.
ToggleMenu ==
    /\ OnPage("devices")
    /\ \E d \in ShownIds(ui.table) :
           /\ ui.menu \in {NoDevice, d}
           /\ ui' = [ui EXCEPT !.menu = IF @ = d THEN NoDevice ELSE d]
    /\ UNCHANGED tasks

\* The Dialog renders the form twice while it is open: in the page, where it always is,
\* and in the overlay.  Each has its own draft.
OpenForm ==
    /\ OnPage("devices")
    /\ ui' = [ui EXCEPT !.showForm = TRUE]
    /\ UNCHANGED tasks

FillForm(overlay) ==
    /\ OnPage("devices")
    /\ IF overlay
       THEN ui.showForm /\ ui' = [ui EXCEPT !.overlay = TRUE]
       ELSE ui' = [ui EXCEPT !.inline = TRUE]
    /\ UNCHANGED tasks

\* Cancel, the backdrop, or a submission of either form, whose handler only logs: the
\* overlay and its draft go, the form in the page keeps its own.
CloseForm ==
    /\ OnPage("devices")
    /\ ui.showForm \/ ui.inline
    /\ ui' = [ui EXCEPT !.showForm = FALSE, !.overlay = FALSE]
    /\ UNCHANGED tasks

-----------------------------------------------------------------------------
(* Attestations. *)

TypeDeviceId(d) ==
    /\ OnPage("attestations")
    /\ ui' = [ui EXCEPT !.deviceId = d]
    /\ UNCHANGED tasks

\* Mutant: the button is not disabled while a submission is under way.
SubmitAttestationTwice ==
    /\ OnPage("attestations")
    /\ ui.deviceId # NoDevice
    /\ StartTimer([op |-> "attest", live |-> TRUE])
    /\ ui' = [ui EXCEPT !.submitting = TRUE]

SubmitAttestation ==
    /\ OnPage("attestations")
    /\ ui.deviceId # NoDevice /\ ~ui.submitting
    /\ StartTimer([op |-> "attest", live |-> TRUE])
    /\ ui' = [ui EXCEPT !.submitting = TRUE]

\* The list stays as it is, and the field is emptied whatever was typed meanwhile.
AttestationDone(i) ==
    /\ OnPage("attestations")
    /\ Fires(i, "attest")
    /\ ui' = [ui EXCEPT !.submitting = FALSE, !.deviceId = NoDevice]

-----------------------------------------------------------------------------
(* Proofs. *)

\* The badges, "Clear" among them, are there only until one has been chosen.
SelectDevice(d) ==
    /\ OnPage("proofs")
    /\ ui.device = NoDevice
    /\ ui' = [ui EXCEPT !.device = d]
    /\ UNCHANGED tasks

\* handleGenerate of ProofGenerator.  Text that does not parse is the error of the same
\* step; the proof of an earlier attempt stays on display.
Generate(text) ==
    /\ OnPage("proofs")
    /\ ui.device # NoDevice /\ ~ui.generating
    /\ Len(ui.proofs) < MaxProofs
    /\ IF text = "json"
       THEN /\ StartTimer([op |-> "generate", live |-> TRUE, device |-> ui.device])
            /\ ui' = [ui EXCEPT !.generating = TRUE, !.error = FALSE]
       ELSE ui' = [ui EXCEPT !.error = TRUE] /\ UNCHANGED tasks

\* Mutant: the new proof goes to the end of the history.
GeneratedAtEnd(i) ==
    /\ OnPage("proofs")
    /\ Fires(i, "generate")
    /\ LET proof == [id |-> Len(ui.proofs) + 1, device |-> Task(i).device]
       IN  ui' = [ui EXCEPT !.proofs = Append(@, proof), !.result = proof.id, !.generating = FALSE]

\* The page's handleGenerate puts the proof before the others, under an id taken from the
\* clock, and ProofGenerator shows it.
Generated(i) ==
    /\ OnPage("proofs")
    /\ Fires(i, "generate")
    /\ LET proof == [id |-> Len(ui.proofs) + 1, device |-> Task(i).device]
       IN  ui' = [ui EXCEPT !.proofs = <<proof>> \o @, !.result = proof.id, !.generating = FALSE]

\* The claim is an id that begins with a p or does not; with an empty field there is none.
Verify(claim) ==
    /\ OnPage("proofs")
    /\ ~ui.verifying
    /\ StartTimer([op |-> "verify", live |-> TRUE, claim |-> claim])
    /\ ui' = [ui EXCEPT !.verifying = TRUE, !.verdict = "none"]

\* The verdict is about the claim that was sent, which the fields may no longer hold.
Verified(i) ==
    /\ OnPage("proofs")
    /\ Fires(i, "verify")
    /\ ui' = [ui EXCEPT !.verifying = FALSE,
                        !.verdict = IF Task(i).claim = "p-id" THEN "verified" ELSE "failed"]

-----------------------------------------------------------------------------
(* Settings: the API keys.  A key is its id; those of the clock come after the others. *)

ShowKeyForm(open) ==
    /\ OnPage("settings")
    /\ ui.form = ~open
    /\ ui' = [ui EXCEPT !.form = open]
    /\ UNCHANGED tasks

\* The name is one or none; Cancel keeps it.
TypeKeyName ==
    /\ OnPage("settings")
    /\ ui.form
    /\ \E name \in BOOLEAN : ui' = [ui EXCEPT !.name = name]
    /\ UNCHANGED tasks

GenerateKey ==
    /\ OnPage("settings")
    /\ ui.form /\ ui.name
    /\ ui.stamp < MaxKeys + 2
    /\ ui' = [ui EXCEPT !.keys = @ \cup {ui.stamp + 1}, !.stamp = @ + 1,
                        !.name = FALSE, !.form = FALSE]
    /\ UNCHANGED tasks

\* visibleKeys is by id, and a revoked key leaves its entry behind.  It is no more than a
\* flag: the text of a key that is not in it is cut after 20 characters, which is most of a
\* key if not all.
RevokeKey(k) ==
    /\ OnPage("settings")
    /\ k \in ui.keys
    /\ ui' = [ui EXCEPT !.keys = @ \ {k}]
    /\ UNCHANGED tasks

ToggleKeyVisibility(k) ==
    /\ OnPage("settings")
    /\ k \in ui.keys
    /\ ui' = [ui EXCEPT !.visible = IF k \in @ THEN @ \ {k} ELSE @ \cup {k}]
    /\ UNCHANGED tasks

=============================================================================
