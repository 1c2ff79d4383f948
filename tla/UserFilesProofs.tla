--------------------------- MODULE UserFilesProofs ---------------------------
(***************************************************************************)
(* Proofs about ConfigRules and ConfigFile, for any configuration and any   *)
(* two orders in which Go may iterate over its upstreams, any instances of  *)
(* the program and any documents; about the login entry, for any number of  *)
(* menus; and about UserFiles: what is proved of each file holds of both    *)
(* together, because the composition takes no step that either forbids.     *)
(***************************************************************************)
EXTENDS UserFiles, FiniteSetTheorems, TLAPS

-----------------------------------------------------------------------------
(* The configurations that are accepted. *)

\* No two models have one public name.
Distinct(c) == \A e, f \in Entries(c) : Public(c, e) = Public(c, f) => e = f

LEMMA EntriesFinite ==
  ASSUME NEW c \in Config
  PROVE  Cardinality(Entries(c)) \in Nat
<1>. DEFINE EntriesOf(name) == {<<name, i>> : i \in DOMAIN c.upstreams[name].models}
            All == {EntriesOf(name) : name \in Names(c)}
<1>1. IsFiniteSet(Names(c))
  BY TextAssumption, FS_Subset DEF Names
<1>2. ASSUME NEW name \in Names(c)
      PROVE  IsFiniteSet(EntriesOf(name))
  <2>1. c.upstreams[name].models \in Seq(ModelConfig)
    BY <1>2 DEF Names, Config, UpstreamConfig
  <2>2. DOMAIN c.upstreams[name].models = 1 .. Len(c.upstreams[name].models)
    BY <2>1
  <2>. DEFINE D == DOMAIN c.upstreams[name].models
              f == [i \in D |-> <<name, i>>]
  <2>3. IsFiniteSet(D)
    BY <2>1, <2>2, FS_Interval
  <2>4. f \in Surjection(D, EntriesOf(name))
    BY Zenon DEF Surjection
  <2>. QED  BY <2>3, <2>4, FS_Surjection
<1>3. IsFiniteSet(All)
  <2>. HIDE DEF EntriesOf
  <2>. DEFINE f == [name \in Names(c) |-> EntriesOf(name)]
  <2>1. f \in Surjection(Names(c), All)
    BY Zenon DEF Surjection
  <2>. QED  BY <1>1, <2>1, FS_Surjection
<1>4. \A S \in All : IsFiniteSet(S)
  BY <1>2
<1>5. IsFiniteSet(UNION All)
  <2>. HIDE DEF All
  <2>. QED  BY <1>3, <1>4, FS_UNION
<1>. QED  BY <1>5, FS_CardinalityType DEF Entries

LEMMA OrderFacts ==
  ASSUME NEW c \in Config, NEW o \in Orders(c)
  PROVE  /\ Cardinality(Entries(c)) \in Nat
         /\ DOMAIN o = 1 .. Cardinality(Entries(c))
         /\ \A i \in DOMAIN o : o[i] \in Entries(c)
         /\ \A e \in Entries(c) : \E i \in DOMAIN o : o[i] = e
         /\ \A i, j \in DOMAIN o : o[i] = o[j] => i = j
  BY EntriesFinite DEF Orders, Bijection, Injection, Surjection, IsInjective

\* Whatever the order, the scan for repeated names finds none if and only if there are
\* none: what the scan has seen is what comes before.
LEMMA ScanFindsRepeats ==
  ASSUME NEW c \in Config, NEW o \in Orders(c)
  PROVE  Distinct(c) <=>
           \A i \in DOMAIN o : Public(c, o[i]) \notin PublicModels(c, o, i)
<1>. USE OrderFacts
<1>. DEFINE New(i) == \A j \in 1 .. i - 1 : Public(c, o[i]) # Public(c, o[j])
<1>1. ASSUME Distinct(c), NEW i \in DOMAIN o
      PROVE  New(i)
  BY <1>1 DEF Distinct
<1>2. ASSUME \A i \in DOMAIN o : New(i),
             NEW e \in Entries(c), NEW f \in Entries(c), Public(c, e) = Public(c, f)
      PROVE  e = f
  <2>1. PICK i \in DOMAIN o : o[i] = e  OBVIOUS
  <2>2. PICK j \in DOMAIN o : o[j] = f  OBVIOUS
  <2>3. ~(i < j) /\ ~(j < i)
    BY <1>2, <2>1, <2>2
  <2>. QED  BY <2>1, <2>2, <2>3
<1>3. \A i \in DOMAIN o : Public(c, o[i]) \notin PublicModels(c, o, i) <=> New(i)
  BY Zenon DEF PublicModels
<1>4. Distinct(c) <=> \A i \in DOMAIN o : New(i)
  BY <1>1, <1>2, Zenon DEF Distinct
<1>. HIDE DEF New
<1>. QED  BY <1>3, <1>4, Zenon

\* The table of a configuration without repeated names has the route of every entry
\* under its name, whatever the order.
LEMMA TableFacts ==
  ASSUME NEW c \in Config, NEW p \in Orders(c), Distinct(c)
  PROVE  /\ DOMAIN Table(c, p) = {Public(c, e) : e \in Entries(c)}
         /\ \A e \in Entries(c) : Table(c, p)[Public(c, e)] = RouteOf(c, e)
<1>. DEFINE N == Cardinality(Entries(c))
<1>. USE OrderFacts
<1>1. {Public(c, p[j]) : j \in 1 .. N} = {Public(c, e) : e \in Entries(c)}
  OBVIOUS
<1>2. ASSUME NEW e \in Entries(c)
      PROVE  Table(c, p)[Public(c, e)] = RouteOf(c, e)
  <2>. DEFINE j == CHOOSE k \in 1 .. N : Public(c, p[k]) = Public(c, e)
  <2>1. \E k \in 1 .. N : Public(c, p[k]) = Public(c, e)  OBVIOUS
  <2>2. j \in 1 .. N /\ Public(c, p[j]) = Public(c, e)  BY <2>1
  <2>3. p[j] = e  BY <2>2 DEF Distinct
  <2>4. Table(c, p)[Public(c, e)] = RouteOf(c, p[j])
    BY <1>1 DEF Table, Routes
  <2>. QED  BY <2>3, <2>4
<1>. QED  BY <1>1, <1>2 DEF Table, Routes

\* Whatever Validate accepts, in whatever order, New makes a table of, in whatever
\* order, and every model is found in it.
THEOREM EveryConfigurationRoutable ==
  \A c \in Config : \A o \in Orders(c), p \in Orders(c) : Routable(c, o, p)
<1>. SUFFICES ASSUME NEW c \in Config, NEW o \in Orders(c), NEW p \in Orders(c),
                     Validate(c, o)
              PROVE  /\ Validate(c, p) /\ Builds(c, p)
                     /\ DOMAIN Table(c, p) = {Public(c, e) : e \in Entries(c)}
                     /\ \A e \in Entries(c) :
                           LET route == Table(c, p)[Public(c, e)]
                           IN  /\ route = RouteOf(c, e)
                               /\ route.mode = "replace" <=> route.key # None
  BY DEF Routable
<1>1. Distinct(c)
  BY ScanFindsRepeats, Zenon DEF Validate
<1>2. Validate(c, p)
  BY <1>1, ScanFindsRepeats, Zenon DEF Validate
<1>3. ASSUME NEW i \in DOMAIN p
      PROVE  Public(c, p[i]) \notin DOMAIN Routes(c, p, i - 1)
  <2>1. DOMAIN Routes(c, p, i - 1) = PublicModels(c, p, i)
    BY Zenon DEF Routes, PublicModels
  <2>. QED  BY <1>1, <2>1, ScanFindsRepeats, Zenon
<1>4. ASSUME NEW name \in Names(c)
      PROVE  ValidUpstream(c.upstreams[name])
  BY DEF Validate
<1>5. Builds(c, p)
  BY <1>3, <1>4 DEF Builds, ValidUpstream, ValidBaseURL
<1>6. ASSUME NEW e \in Entries(c)
      PROVE  RouteOf(c, e).mode = "replace" <=> RouteOf(c, e).key # None
  <2>1. PICK name \in Names(c) : e[1] = name  BY DEF Entries
  <2>2. ValidAuth(c.upstreams[name])  BY <1>4 DEF ValidUpstream
  <2>. QED  BY <2>1, <2>2 DEF RouteOf, ValidAuth
<1>. QED  BY <1>1, <1>2, <1>5, <1>6, TableFacts

\* What Handler assumes of a route: a key, and a valid one, if and only if it replaces
\* the client's, and certificates left unverified only where there are any.
ServableRoute(route) ==
  /\ route.upstream \in SafeName /\ ValidModelName(route.model)
  /\ \/ route.mode = "replace" /\ ValidSecret(route.key)
     \/ route.mode = "none" /\ route.key = None
  /\ route.skipTLS => route.url.scheme = "https"

LEMMA EntryFacts ==
  ASSUME NEW c \in Config, NEW o \in Orders(c), Validate(c, o), NEW e \in Entries(c)
  PROVE  ValidModelName(Public(c, e)) /\ ServableRoute(RouteOf(c, e))
<1>. DEFINE upstream == c.upstreams[e[1]]
            model == upstream.models[e[2]]
<1>1. e[1] \in Names(c) /\ e[2] \in DOMAIN upstream.models
  BY DEF Entries
<1>2. e[1] \in SafeName /\ ValidUpstream(upstream)
  <2>1. \A name \in Names(c) : name \in SafeName /\ ValidUpstream(c.upstreams[name])
    BY Zenon DEF Validate
  <2>. QED  BY <1>1, <2>1, Zenon
<1>3. ValidModelName(model.id) /\ (model.alias # Empty => ValidModelName(model.alias))
  <2>1. \A i \in DOMAIN upstream.models :
          /\ ValidModelName(upstream.models[i].id)
          /\ upstream.models[i].alias # Empty => ValidModelName(upstream.models[i].alias)
    BY <1>2, Zenon DEF ValidUpstream
  <2>. QED  BY <1>1, <2>1, Zenon
<1>4. ValidModelName(Public(c, e))
  <2>1. ValidModelName(PublicName(model))
    BY <1>3, Zenon DEF PublicName
  <2>. QED  BY <2>1, Zenon DEF Public
<1>5. ServableRoute(RouteOf(c, e))
  BY <1>2, <1>3, ZenonT(30) DEF RouteOf, ServableRoute, ValidUpstream, ValidAuth
<1>. QED  BY <1>4, <1>5

\* router.go:36-72 on what config.go:380-439 accepts: the table does not depend on the
\* order in which Go happens to iterate, so that loading the same file again changes
\* nothing, and it holds only valid names and routes of the kind Handler assumes.
THEOREM OneTableServable ==
  \A c \in Config : \A o \in Orders(c), p \in Orders(c) :
    Validate(c, o) =>
      /\ Table(c, p) = Table(c, o)
      /\ \A name \in DOMAIN Table(c, p) :
            ValidModelName(name) /\ ServableRoute(Table(c, p)[name])
<1>. SUFFICES ASSUME NEW c \in Config, NEW o \in Orders(c), NEW p \in Orders(c),
                     Validate(c, o)
              PROVE  /\ Table(c, p) = Table(c, o)
                     /\ \A name \in DOMAIN Table(c, p) :
                           ValidModelName(name) /\ ServableRoute(Table(c, p)[name])
  OBVIOUS
<1>1. Distinct(c)
  BY ScanFindsRepeats, Zenon DEF Validate
<1>2. ASSUME NEW q \in Orders(c)
      PROVE  /\ DOMAIN Table(c, q) = {Public(c, e) : e \in Entries(c)}
             /\ \A e \in Entries(c) : Table(c, q)[Public(c, e)] = RouteOf(c, e)
  BY <1>1, TableFacts
<1>3. Table(c, p) = Table(c, o)
  <2>1. DOMAIN Table(c, p) = DOMAIN Table(c, o)
    BY <1>2
  <2>2. ASSUME NEW name \in DOMAIN Table(c, p)
        PROVE  Table(c, p)[name] = Table(c, o)[name]
    <3>1. PICK e \in Entries(c) : name = Public(c, e)
      BY <1>2
    <3>. QED  BY <1>2, <3>1
  <2>3. ASSUME NEW q \in Orders(c)
        PROVE  Table(c, q) = [name \in DOMAIN Table(c, q) |-> Table(c, q)[name]]
    BY DEF Table, Routes
  <2>. QED  BY <2>1, <2>2, <2>3, Zenon
<1>4. ASSUME NEW name \in DOMAIN Table(c, p)
      PROVE  ValidModelName(name) /\ ServableRoute(Table(c, p)[name])
  <2>1. PICK e \in Entries(c) : name = Public(c, e)
    BY <1>2
  <2>. QED  BY <1>2, <2>1, EntryFacts
<1>. QED  BY <1>3, <1>4

-----------------------------------------------------------------------------
(* The configuration file. *)

\* What the file of an instance holds at each step of Ensure, and that it is on the
\* disk when Ensure has returned.
MadeInv ==
  \A p \in Instance : Owns(p) =>
    /\ file.text \in {"nothing", Template[p]}
    /\ step[p] = "write" => file.text = "nothing"
    /\ step[p] \in {"sync", "close"} => file.text = Template[p]
    /\ step[p] = "close" => synced = file
    /\ ~Making(p) /\ p \notin broken => file.text = Template[p] /\ synced = file

UserInv == Owns(User) => synced = file

\* A power failure leaves either the whole template or, of a file that was never
\* finished, nothing; and then nobody makes a file until the user has removed that one.
SyncedInv ==
  synced # None =>
    /\ synced.owner # User => synced.text \in {"nothing", Template[synced.owner]}
    /\ synced.text = "nothing" =>
         /\ file = synced /\ synced.owner \in broken
         /\ \A p \in Instance : step[p] # "create" /\ ~Making(p)

ConfigInv == ConfigTypeOK /\ MadeInv /\ UserInv /\ SyncedInv

\* The template is valid: with no upstreams there is nothing to iterate over.
LEMMA TemplateLoads ==
  ASSUME NEW p \in Instance, NEW f \in File, f.text = Template[p]
  PROVE  Loads(f)
<1>1. PICK key \in Text : ValidSecret(key) /\ Meaning[Template[p]] = FirstConfig(key)
  BY TemplateAssumption
<1>. DEFINE c == FirstConfig(key)
<1>2. c \in Config /\ c # None
  <2>1. DefaultPort \in Int  BY TemplateAssumption
  <2>2. c \in Config  BY <2>1 DEF FirstConfig, Config
  <2>. QED  BY <2>2, TextAssumption
<1>3. Names(c) = {}
  BY DEF Names, FirstConfig
<1>4. Entries(c) = {}
  BY <1>3 DEF Entries
<1>5. 1 .. Cardinality(Entries(c)) = {}
  BY <1>4, FS_EmptySet
<1>. DEFINE o == [i \in {} |-> None]
<1>6. o \in Orders(c)
  BY <1>4, <1>5 DEF Orders, Bijection, Injection, Surjection, IsInjective
<1>7. DOMAIN o = {}  OBVIOUS
<1>8. Validate(c, o)
  <2>1. c.version = 1 /\ c.port = DefaultPort /\ c.apiKey = key /\ c.level = "info"
    BY DEF FirstConfig
  <2>. QED  BY <1>1, <1>3, <1>7, <2>1, TemplateAssumption DEF Validate
<1>9. f.text # "nothing" /\ f # None
  BY DocumentAssumption
<1>. QED  BY <1>1, <1>2, <1>6, <1>8, <1>9 DEF Loads

LEMMA ConfigInitInv == ConfigInit => ConfigInv
  BY DocumentAssumption
  DEF ConfigInit, ConfigInv, ConfigTypeOK, MadeInv, UserInv, SyncedInv, Owns, File, Maybe,
      Document, Step

LEMMA ConfigTypeStep == ConfigTypeOK /\ [ConfigNext]_configVars => ConfigTypeOK'
<1>. SUFFICES ASSUME ConfigTypeOK, [ConfigNext]_configVars
              PROVE  ConfigTypeOK'
  OBVIOUS
<1>. USE DocumentAssumption DEF ConfigTypeOK, Goto, Step
<1>1. ASSUME NEW p \in Instance, StartInstance(p) \/ Load(p) \/ Stop(p)
      PROVE  ConfigTypeOK'
  BY <1>1 DEF StartInstance, Load, Stop
<1>2. ASSUME NEW p \in Instance,
             EnsureFails(p) \/ Stat(p) \/ CreateFails(p) \/ MakeFails(p) \/ Complete(p)
      PROVE  ConfigTypeOK'
  BY <1>2 DEF EnsureFails, Stat, CreateFails, MakeFails, Complete
<1>3. ASSUME NEW p \in Instance, Create(p)  PROVE ConfigTypeOK'
  BY <1>3 DEF Create, File, Maybe
<1>4. ASSUME NEW p \in Instance, WriteTemplate(p)  PROVE ConfigTypeOK'
  BY <1>4 DEF WriteTemplate, Owns, File, Maybe
<1>5. ASSUME NEW p \in Instance, Sync(p) \/ Remove(p)  PROVE ConfigTypeOK'
  BY <1>5 DEF Sync, Remove, Maybe
<1>6. CASE UserStep
  BY <1>6 DEF UserStep, UserWrites, UserRemoves, File, Maybe, Document
<1>7. CASE PowerFails
  BY <1>7 DEF PowerFails, Remains, File, Maybe
<1>8. CASE UNCHANGED configVars
  BY <1>8 DEF configVars
<1>. QED
  BY <1>1, <1>2, <1>3, <1>4, <1>5, <1>6, <1>7, <1>8, Zenon DEF ConfigNext, Ensure

LEMMA ConfigStep == ConfigInv /\ [ConfigNext]_configVars => ConfigInv'
<1>. SUFFICES ASSUME ConfigInv, [ConfigNext]_configVars
              PROVE  (MadeInv /\ UserInv /\ SyncedInv)'
  BY ConfigTypeStep DEF ConfigInv
<1>. USE DocumentAssumption
     DEF ConfigInv, ConfigTypeOK, Goto, MadeInv, UserInv, SyncedInv, Owns, Making
<1>1. ASSUME NEW p \in Instance, StartInstance(p) \/ Load(p) \/ Stop(p)
      PROVE  (MadeInv /\ UserInv /\ SyncedInv)'
  BY <1>1 DEF StartInstance, Load, Stop
<1>2. ASSUME NEW p \in Instance, EnsureFails(p) \/ Stat(p) \/ CreateFails(p) \/ MakeFails(p)
      PROVE  (MadeInv /\ UserInv /\ SyncedInv)'
  BY <1>2 DEF EnsureFails, Stat, CreateFails, MakeFails
<1>3. ASSUME NEW p \in Instance, Complete(p)
      PROVE  (MadeInv /\ UserInv /\ SyncedInv)'
  BY <1>3 DEF Complete
<1>4. ASSUME NEW p \in Instance, Create(p)
      PROVE  (MadeInv /\ UserInv /\ SyncedInv)'
  BY <1>4 DEF Create
<1>5. ASSUME NEW p \in Instance, WriteTemplate(p)
      PROVE  (MadeInv /\ UserInv /\ SyncedInv)'
  BY <1>5 DEF WriteTemplate, File, Maybe
<1>6. ASSUME NEW p \in Instance, Sync(p)
      PROVE  (MadeInv /\ UserInv /\ SyncedInv)'
  BY <1>6 DEF Sync, File, Maybe
<1>7. ASSUME NEW p \in Instance, Remove(p)
      PROVE  (MadeInv /\ UserInv /\ SyncedInv)'
  BY <1>7 DEF Remove
<1>8. CASE UserStep
  BY <1>8 DEF UserStep, UserWrites, UserRemoves, Document
<1>9. CASE PowerFails
  BY <1>9 DEF PowerFails, Remains, File, Maybe
<1>10. CASE UNCHANGED configVars
  BY <1>10 DEF configVars
<1>. QED
  BY <1>1, <1>2, <1>3, <1>4, <1>5, <1>6, <1>7, <1>8, <1>9, <1>10, Zenon
  DEF ConfigNext, Ensure

\* What is in the file, and on the disk, at each step of each instance.
THEOREM ConfigInductive == ConfigSpec => []ConfigInv
<1>. QED  BY ConfigInitInv, ConfigStep, PTL DEF ConfigSpec

\* The file and the instances hold values of their types.
THEOREM ConfigTypeCorrect == ConfigSpec => []ConfigTypeOK
<1>1. ConfigInv => ConfigTypeOK  BY DEF ConfigInv
<1>. QED  BY <1>1, ConfigInductive, PTL

\* A file an instance created can be loaded, unless its making was cut short.
THEOREM FirstStartIsValid == ConfigSpec => []CreatedIsValid
<1>1. ConfigInv => CreatedIsValid
  <2>. SUFFICES ASSUME ConfigInv, file # None, file.owner # User,
                       ~Making(file.owner), file.owner \notin broken
                PROVE  Loads(file)
    BY DEF CreatedIsValid
  <2>1. file \in File /\ file.owner \in Instance
    BY DEF ConfigInv, ConfigTypeOK, Maybe, File
  <2>2. file.text = Template[file.owner]
    BY <2>1 DEF ConfigInv, MadeInv, Owns
  <2>. QED  BY <2>1, <2>2, TemplateLoads
<1>. QED  BY <1>1, ConfigInductive, PTL

\* An existing file is overwritten by no instance, for any number of them: it is filled by
\* its creator or removed, by name, by an instance whose own file could not be completed.
THEOREM FileIsKept == ConfigSpec => WholeFileKept
<1>. DEFINE Removed(p) == step[p] = "remove" /\ file' = None
            Filled(p)  == /\ step[p] = "write" /\ Owns(p) /\ file.text = "nothing"
                          /\ file' = [file EXCEPT !.text = Template[p]]
            Kept == file # None /\ file' # file =>
                      \/ UserStep \/ PowerFails
                      \/ \E p \in Instance : Removed(p)
                      \/ \E p \in Instance : Filled(p)
<1>1. ConfigInv /\ [ConfigNext]_configVars => [Kept]_configVars
  <2>. SUFFICES ASSUME ConfigInv, ConfigNext, file # None, file' # file, ~UserStep, ~PowerFails
                PROVE  \E p \in Instance : Removed(p) \/ Filled(p)
    OBVIOUS
  <2>1. ASSUME NEW p \in Instance
        PROVE  /\ ~StartInstance(p) /\ ~Load(p) /\ ~Stop(p)
               /\ ~EnsureFails(p) /\ ~Stat(p) /\ ~CreateFails(p) /\ ~MakeFails(p)
               /\ ~Complete(p) /\ ~Sync(p)
    BY DEF StartInstance, Load, Stop, EnsureFails, Stat, CreateFails, MakeFails, Complete,
           Sync
  <2>2. ASSUME NEW p \in Instance  PROVE ~Create(p)
    BY DEF Create
  <2>3. ASSUME NEW p \in Instance, WriteTemplate(p)  PROVE Filled(p)
    <3>1. step[p] = "write" /\ Owns(p) /\ file' = [file EXCEPT !.text = Template[p]]
      BY <2>3 DEF WriteTemplate
    <3>2. file.text = "nothing"
      BY <3>1 DEF ConfigInv, MadeInv, Owns
    <3>. QED  BY <3>1, <3>2
  <2>4. PICK p \in Instance : Remove(p) \/ WriteTemplate(p)
    BY <2>1, <2>2, Zenon DEF ConfigNext, Ensure
  <2>5. Remove(p) => Removed(p)
    BY DEF Remove
  <2>. QED  BY <2>3, <2>4, <2>5
<1>. QED  BY <1>1, ConfigInductive, PTL DEF ConfigSpec, WholeFileKept

\* An instance never loads a configuration that is accepted and has no routing table.
THEOREM AcceptedRoutes == ConfigSpec => []AcceptedIsRoutable
<1>1. Unroutable = {}
  BY EveryConfigurationRoutable, CandidateAssumption DEF Unroutable
<1>2. AcceptedIsRoutable
  BY <1>1 DEF AcceptedIsRoutable
<1>. QED  BY <1>2, PTL

-----------------------------------------------------------------------------
(* The login entry. *)

\* Only contents that were synced get the name of the entry.
WholeInv ==
  /\ entry \in {NoEntry, "synced"} /\ onDisk \in {NoEntry, "synced"}
  /\ \A m \in Menu : At(m, "rename") => temp[m] = "synced"

\* What a menu that has seen the entry knows at each point of a click.
ToldInv ==
  \A m \in aware :
    /\ click[m] \notin {"down", "on", "off"} => (enabled[m] <=> entry # NoEntry)
    /\ At(m, "on") => entry # NoEntry
    /\ At(m, "off") => entry = NoEntry

EntryInv == EntryTypeOK /\ WholeInv /\ ToldInv

LEMMA EntryInitInv == EntryInit => EntryInv
  BY DEF EntryInit, EntryInv, EntryTypeOK, WholeInv, ToldInv, Contents, Label, At

LEMMA EntryTypeStep == EntryTypeOK /\ [EntryNext]_entryVars => EntryTypeOK'
<1>. SUFFICES ASSUME EntryTypeOK, [EntryNext]_entryVars
              PROVE  EntryTypeOK'
  OBVIOUS
<1>. USE DEF EntryTypeOK, At, To, Temp, menuVars
<1>1. ASSUME NEW m \in Menu, Boot(m)  PROVE EntryTypeOK'
  <2>1. (entry # NoEntry) \in BOOLEAN  OBVIOUS
  <2>2. enabled' \in [Menu -> BOOLEAN]  BY <1>1, <2>1, Zenon DEF Boot
  <2>. QED  BY <1>1, <2>2 DEF Boot, Label
<1>2. ASSUME NEW m \in Menu, Click(m)  PROVE EntryTypeOK'
  BY <1>2 DEF Click, Label
<1>3. ASSUME NEW m \in Menu, Unlink(m)  PROVE EntryTypeOK'
  BY <1>3 DEF Unlink, Replace, Label, Contents
<1>4. ASSUME NEW m \in Menu, SetEnabledFails(m)  PROVE EntryTypeOK'
  BY <1>4 DEF SetEnabledFails, Label
<1>5. ASSUME NEW m \in Menu, CreateTemp(m)  PROVE EntryTypeOK'
  BY <1>5 DEF CreateTemp, Label, Contents
<1>6. ASSUME NEW m \in Menu, WriteTemp(m)  PROVE EntryTypeOK'
  BY <1>6 DEF WriteTemp, Label, Contents
<1>7. ASSUME NEW m \in Menu, SyncTemp(m)  PROVE EntryTypeOK'
  BY <1>7 DEF SyncTemp, Label, Contents
<1>8. ASSUME NEW m \in Menu, Rename(m)  PROVE EntryTypeOK'
  BY <1>8 DEF Rename, Replace, Label, Contents
<1>9. ASSUME NEW m \in Menu, WriteFails(m)  PROVE EntryTypeOK'
  BY <1>9 DEF WriteFails, Label, Contents
<1>10. ASSUME NEW m \in Menu, Record(m)  PROVE EntryTypeOK'
  <2>1. At(m, "on") \in BOOLEAN  OBVIOUS
  <2>2. enabled' \in [Menu -> BOOLEAN]  BY <1>10, <2>1, Zenon DEF Record
  <2>. QED  BY <1>10, <2>2 DEF Record, Label
<1>11. ASSUME NEW m \in Menu, StopMenu(m)  PROVE EntryTypeOK'
  BY <1>11 DEF StopMenu, Label, Contents
<1>12. CASE PowerFailsOnEntry
  BY <1>12 DEF PowerFailsOnEntry, Remainder, Label, Contents
<1>13. CASE UNCHANGED entryVars
  BY <1>13 DEF entryVars
<1>. QED
  BY <1>1, <1>2, <1>3, <1>4, <1>5, <1>6, <1>7, <1>8, <1>9, <1>10, <1>11, <1>12, <1>13,
     Zenon DEF EntryNext, SetEnabled

LEMMA WholeStep == EntryTypeOK /\ WholeInv /\ [EntryNext]_entryVars => WholeInv'
<1>. SUFFICES ASSUME EntryTypeOK, WholeInv, [EntryNext]_entryVars
              PROVE  WholeInv'
  OBVIOUS
<1>. USE DEF EntryTypeOK, WholeInv, At, To, Temp, menuVars
<1>1. ASSUME NEW m \in Menu,
             Boot(m) \/ Click(m) \/ SetEnabledFails(m) \/ Record(m) \/ StopMenu(m)
      PROVE  WholeInv'
  BY <1>1 DEF Boot, Click, SetEnabledFails, Record, StopMenu
<1>2. ASSUME NEW m \in Menu, Unlink(m)  PROVE WholeInv'
  BY <1>2 DEF Unlink, Replace
<1>3. ASSUME NEW m \in Menu, CreateTemp(m) \/ WriteTemp(m) \/ SyncTemp(m) \/ WriteFails(m)
      PROVE  WholeInv'
  BY <1>3 DEF CreateTemp, WriteTemp, SyncTemp, WriteFails
<1>4. ASSUME NEW m \in Menu, Rename(m)  PROVE WholeInv'
  BY <1>4 DEF Rename, Replace
<1>5. CASE PowerFailsOnEntry
  BY <1>5, EntryAssumption DEF PowerFailsOnEntry, Remainder
<1>6. CASE UNCHANGED entryVars
  BY <1>6 DEF entryVars
<1>. QED  BY <1>1, <1>2, <1>3, <1>4, <1>5, <1>6, Zenon DEF EntryNext, SetEnabled

LEMMA ToldStep == EntryInv /\ [EntryNext]_entryVars => ToldInv'
<1>. SUFFICES ASSUME EntryInv, [EntryNext]_entryVars
              PROVE  ToldInv'
  OBVIOUS
<1>. USE EntryAssumption DEF EntryInv, EntryTypeOK, WholeInv, ToldInv, At, To, Temp, menuVars
<1>1. ASSUME NEW m \in Menu, Boot(m)  PROVE ToldInv'
  BY <1>1, ZenonT(30) DEF Boot
<1>2. ASSUME NEW m \in Menu, Click(m) \/ SetEnabledFails(m) \/ StopMenu(m)  PROVE ToldInv'
  BY <1>2 DEF Click, SetEnabledFails, StopMenu
<1>3. ASSUME NEW m \in Menu, Unlink(m)  PROVE ToldInv'
  BY <1>3 DEF Unlink, Replace
<1>4. ASSUME NEW m \in Menu, CreateTemp(m) \/ WriteTemp(m) \/ SyncTemp(m) \/ WriteFails(m)
      PROVE  ToldInv'
  BY <1>4 DEF CreateTemp, WriteTemp, SyncTemp, WriteFails
<1>5. ASSUME NEW m \in Menu, Rename(m)  PROVE ToldInv'
  BY <1>5 DEF Rename, Replace
<1>6. ASSUME NEW m \in Menu, Record(m)  PROVE ToldInv'
  BY <1>6 DEF Record
<1>7. CASE PowerFailsOnEntry
  BY <1>7 DEF PowerFailsOnEntry
<1>8. CASE UNCHANGED entryVars
  BY <1>8 DEF entryVars
<1>. QED
  BY <1>1, <1>2, <1>3, <1>4, <1>5, <1>6, <1>7, <1>8, Zenon DEF EntryNext, SetEnabled

\* What holds of the entry and of each menu at each point of a click, for any menus.
THEOREM EntryInductive == EntrySpec => []EntryInv
<1>1. EntryInv /\ [EntryNext]_entryVars => EntryInv'
  BY EntryTypeStep, WholeStep, ToldStep DEF EntryInv
<1>. QED  BY <1>1, EntryInitInv, PTL DEF EntrySpec

\* Entry, temporary files and menus hold values of their types.
THEOREM EntryTypeCorrect == EntrySpec => []EntryTypeOK
<1>1. EntryInv => EntryTypeOK  BY DEF EntryInv
<1>. QED  BY <1>1, EntryInductive, PTL

\* The desktop never finds a part of an entry.
THEOREM EntryIsWhole == EntrySpec => []EntryWhole
<1>1. EntryInv => EntryWhole
  BY EntryAssumption DEF EntryInv, WholeInv, EntryWhole
<1>. QED  BY <1>1, EntryInductive, PTL

\* A menu at rest that has seen the entry as it is shows it.
THEOREM MenuTells == EntrySpec => []MenuTellsEntry
<1>1. EntryInv => MenuTellsEntry
  BY DEF EntryInv, ToldInv, MenuTellsEntry, At
<1>. QED  BY <1>1, EntryInductive, PTL

-----------------------------------------------------------------------------
(* Both files. *)

LEMMA BothInit == Init => ConfigInit /\ EntryInit
  BY DEF Init

LEMMA BothStep == [Next]_vars => [ConfigNext]_configVars /\ [EntryNext]_entryVars
<1>1. ASSUME NEW p \in Instance, Launch(p) \/ Start(p) \/ Item(p) \/ Exit(p)
      PROVE  [ConfigNext]_configVars /\ [EntryNext]_entryVars
  BY <1>1, MenuAssumption, Zenon DEF Launch, Start, Item, Exit, ConfigNext, EntryNext
<1>2. CASE Edit
  BY <1>2, Zenon DEF Edit, ConfigNext
<1>3. CASE PowerFailure
  BY <1>3, Zenon DEF PowerFailure, ConfigNext, EntryNext
<1>4. CASE UNCHANGED vars
  BY <1>4 DEF vars
<1>. QED  BY <1>1, <1>2, <1>3, <1>4, Zenon DEF Next

\* The composition implements the specification of each file.
THEOREM ImplementsBoth == Spec => ConfigSpec /\ EntrySpec
BY BothInit, BothStep, PTL DEF Spec, ConfigSpec, EntrySpec

\* An instance that is down has no menu, and one that has a menu is not down.
Together == \A p \in Instance : step[p] = "down" <=> At(p, "down")

LEMMA TogetherStep ==
  ASSUME ConfigTypeOK, EntryTypeOK, Together, [Next]_vars
  PROVE  Together'
<1>. USE MenuAssumption DEF ConfigTypeOK, EntryTypeOK, Together, At, To, Goto
<1>1. ASSUME NEW p \in Instance, Launch(p)  PROVE Together'
  BY <1>1 DEF Launch, Boot, StartInstance
<1>2. ASSUME NEW p \in Instance, Start(p)  PROVE Together'
  <2>1. UNCHANGED click  BY <1>2 DEF Start, entryVars
  <2>2. step[p] # "down" /\ \E s \in Step \ {"down"} : step' = [step EXCEPT ![p] = s]
    BY <1>2 DEF Start, Ensure, EnsureFails, Stat, Create, CreateFails, WriteTemplate, Sync,
                MakeFails, Complete, Remove, Load, Step
  <2>. QED  BY <2>1, <2>2
<1>3. ASSUME NEW p \in Instance, Item(p)  PROVE Together'
  <2>1. UNCHANGED step  BY <1>3 DEF Item, configVars
  <2>2. click[p] # "down" /\ \E l \in Label \ {"down"} : click' = [click EXCEPT ![p] = l]
    BY <1>3 DEF Item, Click, SetEnabled, Unlink, SetEnabledFails, CreateTemp, WriteTemp,
                SyncTemp, Rename, WriteFails, Record, Label
  <2>. QED  BY <2>1, <2>2
<1>4. ASSUME NEW p \in Instance, Exit(p)  PROVE Together'
  BY <1>4 DEF Exit, Stop, StopMenu
<1>5. CASE Edit
  BY <1>5 DEF Edit, UserStep, UserWrites, UserRemoves, entryVars
<1>6. CASE PowerFailure
  BY <1>6 DEF PowerFailure, PowerFails, PowerFailsOnEntry
<1>7. CASE UNCHANGED vars
  BY <1>7 DEF vars, configVars, entryVars
<1>. QED  BY <1>1, <1>2, <1>3, <1>4, <1>5, <1>6, <1>7, Zenon DEF Next

\* Type correctness of both files and of the instances that share them.
THEOREM TypeCorrect == Spec => []TypeOK
<1>1. Init => Together
  BY MenuAssumption DEF Init, ConfigInit, EntryInit, Together, At
<1>2. ConfigTypeOK /\ EntryTypeOK /\ Together /\ [Next]_vars => Together'
  BY TogetherStep
<1>3. Spec => []ConfigTypeOK /\ []EntryTypeOK
  BY ImplementsBoth, ConfigTypeCorrect, EntryTypeCorrect, PTL
<1>4. TypeOK <=> ConfigTypeOK /\ EntryTypeOK /\ Together
  BY DEF TypeOK, Together
<1>. QED  BY <1>1, <1>2, <1>3, <1>4, PTL DEF Spec

\* What the two files promise, in the composition: a created file is valid, files are
\* kept, the entry is whole, the menus tell of it, accepted configurations are routable.
THEOREM FilesAreSafe ==
  Spec => /\ [](CreatedIsValid /\ AcceptedIsRoutable) /\ WholeFileKept
          /\ [](EntryWhole /\ MenuTellsEntry)
BY ImplementsBoth, FirstStartIsValid, AcceptedRoutes, FileIsKept, EntryIsWhole, MenuTells, PTL

=============================================================================
