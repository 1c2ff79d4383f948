----------------------------- MODULE ConfigFile -----------------------------
(***************************************************************************)
(* ~/.kitsune/config.yaml (Ensure and Load, internal/config/config.go),     *)
(* shared by the instances of the program that run, the user who edits it,  *)
(* and the machine that may lose power.                                     *)
(*                                                                         *)
(* Ensure looks for the file, creates it with O_EXCL, writes the template,  *)
(* syncs and closes it, each a system call that may fail; a deferred call   *)
(* removes what it could not complete.  Whatever has been written and not   *)
(* synced may be gone after a power failure, the name of the file included. *)
(***************************************************************************)
EXTENDS ConfigRules

CONSTANTS
  Instance,  \* instances of the program
  User,      \* who is none of them
  Template,  \* the document each instance would write, with a key of its own
  UserDoc,   \* what the user may write
  Meaning,   \* the configuration each document decodes to, or None
  DefaultPort

Document == {Template[p] : p \in Instance} \cup UserDoc

\* A file: the document a reader finds in it, or "nothing", and who created it.
File == [text : Document \cup {"nothing"}, owner : Instance \cup {User}]
Maybe(S) == S \cup {None}

ASSUME DocumentAssumption ==
  /\ User \notin Instance /\ "nothing" \notin Document /\ None \notin File \cup Document
  /\ Template \in [Instance -> Document]
  /\ Meaning \in [Document -> Maybe(Config)]

\* The template of Ensure, around a key of generateLocalAPIKey.
FirstConfig(key) ==
  [version |-> 1, port |-> DefaultPort, apiKey |-> key, level |-> "info",
   upstreams |-> [name \in Text |-> None]]

ASSUME TemplateAssumption ==
  /\ DefaultPort \in 1 .. MaxPort
  /\ \A p \in Instance : \E key \in Text :
        ValidSecret(key) /\ Meaning[Template[p]] = FirstConfig(key)

VARIABLES
  file,     \* config.yaml
  synced,   \* the file as a power failure would leave it
  step,     \* per instance: where Ensure and Load are
  broken    \* history: the instances stopped before they could complete or remove it

configVars == <<file, synced, step, broken>>

\* In the end an instance serves a configuration, or has none to serve yet.
Step == {"down", "stat", "create", "write", "sync", "close", "remove", "load",
         "serving", "refused"}

ConfigInit ==
  /\ file \in {None} \cup {[text |-> d, owner |-> User] : d \in UserDoc}
  /\ synced = file
  /\ step = [p \in Instance |-> "down"]
  /\ broken = {}

Goto(p, s) == step' = [step EXCEPT ![p] = s]

\* The file is the one p created.
Owns(p) == file # None /\ file.owner = p

\* p has created the file and Ensure has not returned.
Making(p) == step[p] \in {"write", "sync", "close", "remove"}

-----------------------------------------------------------------------------
(* Ensure.  One that fails leaves the instance without a configuration. *)

StartInstance(p) ==
  /\ step[p] = "down"
  /\ Goto(p, "stat")
  /\ UNCHANGED <<file, synced, broken>>

\* MkdirAll, Stat, Chmod or the random key fails.
EnsureFails(p) ==
  /\ step[p] = "stat"
  /\ Goto(p, "refused")
  /\ UNCHANGED <<file, synced, broken>>

Stat(p) ==
  /\ step[p] = "stat"
  /\ Goto(p, IF file = None THEN "create" ELSE "load")
  /\ UNCHANGED <<file, synced, broken>>

\* Variant: without O_EXCL, what has appeared since Stat is truncated.
CreateOver(p) ==
  /\ step[p] = "create"
  /\ file' = [text |-> "nothing", owner |-> p]
  /\ broken' = broken \ {p}
  /\ Goto(p, "write")
  /\ UNCHANGED synced

\* OpenFile: a file that has appeared since Stat is left alone.
Create(p) ==
  /\ step[p] = "create"
  /\ IF file # None
     THEN Goto(p, "load") /\ UNCHANGED <<file, broken>>
     ELSE /\ file' = [text |-> "nothing", owner |-> p]
          /\ broken' = broken \ {p}
          /\ Goto(p, "write")
  /\ UNCHANGED synced

\* Any other error of OpenFile.
CreateFails(p) ==
  /\ step[p] = "create"
  /\ Goto(p, "refused")
  /\ UNCHANGED <<file, synced, broken>>

\* WriteString, to the file p created, which may have lost its name meanwhile.
WriteTemplate(p) ==
  /\ step[p] = "write"
  /\ file' = IF Owns(p) THEN [file EXCEPT !.text = Template[p]] ELSE file
  /\ Goto(p, "sync")
  /\ UNCHANGED <<synced, broken>>

\* Variant: the file is not synced.
SyncNothing(p) ==
  /\ step[p] = "sync"
  /\ Goto(p, "close")
  /\ UNCHANGED <<file, synced, broken>>

\* Sync: the contents are safe from now on.
Sync(p) ==
  /\ step[p] = "sync"
  /\ synced' = IF Owns(p) THEN file ELSE synced
  /\ Goto(p, "close")
  /\ UNCHANGED <<file, broken>>

\* WriteString, Sync or Close fails.
MakeFails(p) ==
  /\ step[p] \in {"write", "sync", "close"}
  /\ Goto(p, "remove")
  /\ UNCHANGED <<file, synced, broken>>

\* Close, and Ensure returns true.
Complete(p) ==
  /\ step[p] = "close"
  /\ Goto(p, "load")
  /\ UNCHANGED <<file, synced, broken>>

\* The deferred Remove, by name; an error of its own is ignored.
Remove(p) ==
  /\ step[p] = "remove"
  /\ \/ file' = None /\ UNCHANGED broken
     \/ UNCHANGED file /\ broken' = broken \cup {p}
  /\ Goto(p, "refused")
  /\ UNCHANGED synced

-----------------------------------------------------------------------------
(* Load. *)

\* Load decodes and validates what ReadFile finds, in some order.
Loads(f) ==
  /\ f # None /\ f.text # "nothing" /\ Meaning[f.text] # None
  /\ \E o \in Orders(Meaning[f.text]) : Validate(Meaning[f.text], o)

\* Start goes on; a later Reload reads the file again and changes nothing of it
\* (Controller).
Load(p) ==
  /\ step[p] = "load"
  /\ Goto(p, IF Loads(file) THEN "serving" ELSE "refused")
  /\ UNCHANGED <<file, synced, broken>>

-----------------------------------------------------------------------------
(* The user and the machine. *)

\* An editor puts a file of its own in the place of the old one.
UserWrites(d) ==
  /\ file' = [text |-> d, owner |-> User] /\ synced' = file'
  /\ UNCHANGED <<step, broken>>

UserRemoves ==
  /\ file # None
  /\ file' = None /\ synced' = None
  /\ UNCHANGED <<step, broken>>

\* The process ends, of its own accord or not.
Stop(p) ==
  /\ step[p] # "down"
  /\ Goto(p, "down")
  /\ broken' = IF Making(p) THEN broken \cup {p} ELSE broken
  /\ UNCHANGED <<file, synced>>

\* What a power failure may leave of the file: what was synced; what was not, with or
\* without its contents; of a file an instance created not even the name, for nothing
\* syncs the directory.
Remains ==
  {synced, file}
    \cup {[f EXCEPT !.text = "nothing"] : f \in {file} \ {synced, None}}
    \cup {None : f \in {g \in {file} \ {None} : g.owner # User}}

PowerFails ==
  /\ file' \in Remains /\ synced' = file'
  /\ step' = [p \in Instance |-> "down"]
  /\ broken' = broken \cup {p \in Instance : Making(p)}

-----------------------------------------------------------------------------
Ensure(p) ==
  \/ EnsureFails(p) \/ Stat(p) \/ Create(p) \/ CreateFails(p) \/ WriteTemplate(p)
  \/ Sync(p) \/ MakeFails(p) \/ Complete(p) \/ Remove(p)

UserStep == UserRemoves \/ \E d \in UserDoc : UserWrites(d)

ConfigNext ==
  \/ \E p \in Instance : StartInstance(p) \/ Ensure(p) \/ Load(p) \/ Stop(p)
  \/ UserStep \/ PowerFails

ConfigSpec == ConfigInit /\ [][ConfigNext]_configVars

-----------------------------------------------------------------------------
\* The file and the instances hold values of their types.
ConfigTypeOK ==
  /\ file \in Maybe(File) /\ synced \in Maybe(File)
  /\ step \in [Instance -> Step] /\ broken \subseteq Instance

\* config.go:176: whatever has the name is changed by the user or a power failure, filled
\* once by the instance that created it empty, or removed by one that could not complete
\* the file it had created.  That one removes by name (config.go:188): if the user has
\* replaced its file meanwhile, what it removes is the user's.  An instance that had only
\* found no file touches nothing.
WholeFileKept ==
  [][ file # None /\ file' # file =>
        \/ UserStep \/ PowerFails
        \/ \E p \in Instance : step[p] = "remove" /\ file' = None
        \/ \E p \in Instance :
             /\ step[p] = "write" /\ Owns(p) /\ file.text = "nothing"
             /\ file' = [file EXCEPT !.text = Template[p]] ]_configVars

\* README.md:66 "The first start creates the directory and a valid empty
\* configuration": a file an instance created can be loaded, after a power failure as
\* well, unless it is being made, or its maker was stopped, or could not even remove it,
\* before Ensure returned.
CreatedIsValid ==
  file # None /\ file.owner # User =>
    Loads(file) \/ Making(file.owner) \/ file.owner \in broken

\* config.go:432 and router.go:54 look for the same name clashes separately, each in an
\* order of its own: whichever candidate an instance may find when it loads the file, New
\* makes a table of what Validate accepts, and "Every Public Model Name resolves to
\* exactly one Upstream Model ID" (CONTEXT.md:107).
AcceptedIsRoutable == \A p \in Instance : step[p] = "load" => Unroutable = {}

=============================================================================
