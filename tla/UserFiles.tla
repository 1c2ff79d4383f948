------------------------------ MODULE UserFiles ------------------------------
(***************************************************************************)
(* The files of the user together (cmd/kitsune-proxy/main.go): an instance  *)
(* of the program asks for the login entry, starts the controller, which    *)
(* ensures and loads config.yaml, and then opens the tray, whose item       *)
(* changes the entry.  Instances share both files, and a power failure hits *)
(* them both.                                                               *)
(***************************************************************************)
EXTENDS ConfigFile, Autostart

vars == <<configVars, entryVars>>

ASSUME MenuAssumption == Menu = Instance

Init == ConfigInit /\ EntryInit

\* autostart.Enabled, and Start begins.
Launch(p) == Boot(p) /\ StartInstance(p)

\* Start calls Ensure and Load.
Start(p) == (Ensure(p) \/ Load(p)) /\ UNCHANGED entryVars

\* The event loop runs when Start has returned, with or without a configuration.
Item(p) ==
  /\ step[p] \in {"serving", "refused"}
  /\ Click(p) \/ SetEnabled(p) \/ Record(p)
  /\ UNCHANGED configVars

Exit(p) == Stop(p) /\ StopMenu(p)

Edit == UserStep /\ UNCHANGED entryVars

PowerFailure == PowerFails /\ PowerFailsOnEntry

Next ==
  \/ \E p \in Instance : Launch(p) \/ Start(p) \/ Item(p) \/ Exit(p)
  \/ Edit \/ PowerFailure

Spec == Init /\ [][Next]_vars

-----------------------------------------------------------------------------
\* Both files and both sets of processes hold values of their types, and an instance
\* that is down has no menu.
TypeOK ==
  /\ ConfigTypeOK /\ EntryTypeOK
  /\ \A p \in Instance : step[p] = "down" <=> At(p, "down")

=============================================================================
