------------------------------ MODULE Autostart ------------------------------
(***************************************************************************)
(* Start at Login on Linux and macOS: the entry of the user (internal/      *)
(* autostart, write_entry_unix.go), and the checked item in the menu of     *)
(* each instance of the program that shows it (internal/tray/tray.go).      *)
(*                                                                         *)
(* The item shows what the menu believes; a click calls SetEnabled with the *)
(* opposite, without n.mu, and records it.  writeEntry fills a temporary    *)
(* file and renames it.  A file is "part" of its contents, "whole", or      *)
(* "synced" when a power failure cannot take them any more.                 *)
(***************************************************************************)
CONSTANTS
  Menu,     \* the instances of the program, each with a menu
  NoEntry   \* no entry, no temporary file

Contents == {NoEntry, "part", "whole", "synced"}

ASSUME EntryAssumption == NoEntry \notin {"part", "whole", "synced"}

VARIABLES
  entry,    \* the entry of the user
  onDisk,   \* the one the directory on the disk names
  temp,     \* per menu: its temporary file
  click,    \* per menu: where the handler of the item is
  enabled,  \* per menu: Native.autostartEnabled, which the item shows
  aware     \* history: the menus that have seen the entry as it is

entryVars == <<entry, onDisk, temp, click, enabled, aware>>
menuVars == <<enabled, aware>>

Label == {"down", "ready", "unlink", "create", "write", "sync", "rename", "on", "off"}

EntryInit ==
  /\ entry \in {NoEntry, "synced"} /\ onDisk = entry
  /\ temp = [m \in Menu |-> NoEntry]
  /\ click = [m \in Menu |-> "down"]
  /\ enabled = [m \in Menu |-> FALSE]
  /\ aware = {}

At(m, label) == click[m] = label
To(m, label) == click' = [click EXCEPT ![m] = label]
Temp(m, content) == temp' = [temp EXCEPT ![m] = content]

\* Enabled, which main calls before it makes the menu, taking an error for "no".
Boot(m) ==
  /\ At(m, "down")
  /\ \/ enabled' = [enabled EXCEPT ![m] = entry # NoEntry] /\ aware' = aware \cup {m}
     \/ enabled' = [enabled EXCEPT ![m] = FALSE] /\ aware' = aware \ {m}
  /\ To(m, "ready")
  /\ UNCHANGED <<entry, onDisk, temp>>

\* The local enabled, read under n.mu, is where SetEnabled branches.
Click(m) ==
  /\ At(m, "ready")
  /\ To(m, IF enabled[m] THEN "unlink" ELSE "create")
  /\ UNCHANGED <<entry, onDisk, temp, menuVars>>

\* The name changes at once; the directory on the disk may lag behind.
Replace(m, content) ==
  /\ entry' = content /\ onDisk' \in {onDisk, entry}
  /\ aware' = {m} \cup (IF entry' = entry THEN aware ELSE {})

\* SetEnabled(false): an entry that is gone already is no error.
Unlink(m) ==
  /\ At(m, "unlink")
  /\ Replace(m, NoEntry)
  /\ To(m, "off")
  /\ UNCHANGED <<temp, enabled>>

\* Remove fails; or Executable, MkdirAll or CreateTemp does.
SetEnabledFails(m) ==
  /\ click[m] \in {"unlink", "create"}
  /\ To(m, "ready")
  /\ UNCHANGED <<entry, onDisk, temp, menuVars>>

CreateTemp(m) ==
  /\ At(m, "create")
  /\ Temp(m, "part") /\ To(m, "write")
  /\ UNCHANGED <<entry, onDisk, menuVars>>

WriteTemp(m) ==
  /\ At(m, "write")
  /\ Temp(m, "whole") /\ To(m, "sync")
  /\ UNCHANGED <<entry, onDisk, menuVars>>

\* Variant: the temporary file is not synced.
SyncTempNot(m) ==
  /\ At(m, "sync")
  /\ To(m, "rename")
  /\ UNCHANGED <<entry, onDisk, temp, menuVars>>

SyncTemp(m) ==
  /\ At(m, "sync")
  /\ Temp(m, "synced") /\ To(m, "rename")
  /\ UNCHANGED <<entry, onDisk, menuVars>>

\* Close and Rename.
Rename(m) ==
  /\ At(m, "rename")
  /\ Replace(m, temp[m])
  /\ Temp(m, NoEntry) /\ To(m, "on")
  /\ UNCHANGED enabled

\* Variant: the item is turned on although the entry could not be written.
WriteFailsUnseen(m) ==
  /\ click[m] \in {"write", "sync", "rename"}
  /\ Temp(m, NoEntry) /\ To(m, "on")
  /\ UNCHANGED <<entry, onDisk, menuVars>>

\* Chmod, Write, Sync, Close or Rename fails: the deferred call removes the temporary
\* file, or leaves it where nobody reads it, and the handler goes on to the next click.
WriteFails(m) ==
  /\ click[m] \in {"write", "sync", "rename"}
  /\ Temp(m, NoEntry) /\ To(m, "ready")
  /\ UNCHANGED <<entry, onDisk, menuVars>>

\* SetEnabled has succeeded.
Record(m) ==
  /\ click[m] \in {"on", "off"}
  /\ enabled' = [enabled EXCEPT ![m] = At(m, "on")]
  /\ To(m, "ready")
  /\ UNCHANGED <<entry, onDisk, temp, aware>>

-----------------------------------------------------------------------------
\* Variant: a click under way outlives the event loop.
StopMenuBusy(m) ==
  /\ ~At(m, "down")
  /\ To(m, IF At(m, "ready") THEN "down" ELSE click[m])
  /\ UNCHANGED <<entry, onDisk, temp, menuVars>>

\* The process ends; a temporary file stays behind, and nobody reads it.
StopMenu(m) ==
  /\ ~At(m, "down")
  /\ To(m, "down") /\ Temp(m, NoEntry)
  /\ UNCHANGED <<entry, onDisk, menuVars>>

\* What is left of a file: contents that were not synced are lost.
Remainder(content) == IF content = "whole" THEN "part" ELSE content

PowerFailsOnEntry ==
  /\ entry' \in {Remainder(entry), Remainder(onDisk)} /\ onDisk' = entry'
  /\ click' = [m \in Menu |-> "down"] /\ temp' = [m \in Menu |-> NoEntry]
  /\ UNCHANGED menuVars

-----------------------------------------------------------------------------
SetEnabled(m) ==
  \/ Unlink(m) \/ SetEnabledFails(m) \/ CreateTemp(m) \/ WriteTemp(m) \/ SyncTemp(m)
  \/ Rename(m) \/ WriteFails(m)

EntryNext ==
  \/ \E m \in Menu : Boot(m) \/ Click(m) \/ SetEnabled(m) \/ Record(m) \/ StopMenu(m)
  \/ PowerFailsOnEntry

EntrySpec == EntryInit /\ [][EntryNext]_entryVars

-----------------------------------------------------------------------------
\* Entry, temporary files and menus hold values of their types.
EntryTypeOK ==
  /\ entry \in Contents /\ onDisk \in Contents
  /\ temp \in [Menu -> Contents] /\ click \in [Menu -> Label]
  /\ enabled \in [Menu -> BOOLEAN] /\ aware \subseteq Menu

\* write_entry_unix.go: whatever fails, and whenever the process is killed or the power
\* goes, what the desktop finds at the next login is a whole entry or none.
EntryWhole == entry # "part"

\* tray.go:132: a menu at rest shows whether there is an entry, as long as no other
\* instance has changed it since: a click that failed half-way has not moved the item.
MenuTellsEntry ==
  \A m \in aware : At(m, "ready") => (enabled[m] <=> entry # NoEntry)

=============================================================================
