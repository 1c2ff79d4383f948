# Verification of Kitsune Proxy

TLA+ models of Kitsune Proxy, the runs that model-check them with TLC, and theorems about
them that the TLA+ proof system (TLAPS) checks. Every definition is translated from the Go
source; `PROJECT.json` maps each one to its lines.

- [Inventory](#inventory): the program's parts, their state and what makes them correct
- [Modules](#modules): what each module models and how it corresponds to the code
- [Runs](#runs): what TLC checks, on which instances, and why they are enough
- [Findings](#findings): where the code and its documents disagree
- [Proofs](#proofs): what holds for every instance, and along which argument
- [Fairness](#fairness), [Not modelled](#not-modelled), [Plan](#plan)

## Inventory

Kitsune Proxy is one process: a tray icon and an HTTP proxy on a loopback port that
authenticates requests, finds the upstream of the model they name, and forwards them.

| Part | Source | State | Operations | What makes it correct |
|---|---|---|---|---|
| Controller | `internal/app/controller.go`, `cmd/kitsune-proxy/main.go` | deployment in force, `stopping`, the snapshot it gave the handler, the wait group of serve goroutines | `Start`, `Reload`, `Shutdown`; a serve goroutine per deployment, a drain goroutine per replaced one | a reload is all or nothing; no listener is leaked or closed early; quitting ends |
| Request handler | `internal/proxy/handler.go` | the snapshot (an atomic pointer); per request: the snapshot it loaded, the body, the answer | `Update`, `ServeHTTP` | a request is treated by one snapshot from end to end; keys go nowhere else; nothing is read of a request that is refused |
| Authentication | `internal/auth/auth.go` | none | `Authenticate`, `Apply` | a client shows the local key in one or both headers; the upstream gets its own key or none |
| Tracking writer | `internal/proxy/tracking_writer.go` | status and bytes of one response | `WriteHeader`, `Write`, `Flush` | status, bytes and flushes reach the client and the log |
| Status and tray | `controller.go`, `internal/tray/tray.go` | `Controller.status`, `Native.status`, `ready` | `publish`, `setLoggingAvailable`, `SetStatusSink`, `SetStatus`, `onReady` | the tray ends up with what is true |
| Logging | `internal/logging/logging.go` | level, availability; the open file, its size, its failure; five backups | `SetLevel`, `Write`, `rotate`, `Close`, `New` | files bounded, lines in order, only the oldest lost |
| Routing table | `internal/router/router.go` | an immutable table | `New`, `Resolve`, `Models` | a valid configuration has a table |
| Model field | `internal/proxy/json_model.go` | a cursor in the body | `locateTopLevelModel`, `replaceModel` | one top-level string `model`, and nothing else of the body changes |
| Configuration | `internal/config/config.go` | `config.yaml` | `Ensure`, `Load`, `Validate` | never half-written, never overwritten |
| Login item | `internal/autostart/` | an entry of the operating system, the menu's copy | `SetEnabled`, `Enabled` | replaced as a whole or left |
| Texts, icons, release metadata, packaging | `internal/i18n`, `assets`, `cmd/icon-gen`, `cmd/release-meta`, `internal/releasemeta`, `packaging` | none at run time | | |

How they interact:

- `main` calls `Start`, then gives its thread to the tray's event loop. Each click on
  *Reload* is a goroutine of its own that calls `Reload`; *Quit* and the interrupt signal
  end the loop, whose exit hook calls `Shutdown`, and the process ends.
- `reloadMu` lets one of `Reload` and `Shutdown` run at a time (`Start` holds neither it nor
  needs it: the tray comes later). `mu` guards `current` and `stopping`, and is given up
  while a port is bound, a server drained or a status published.
- The controller hands snapshots to the handler (an atomic store) and levels to the log
  (another one). Request goroutines load both whenever they get to it.
- Statuses go from the controller to the tray through a callback called without
  `statusMu`; the log reports a failing disk through another callback, called with the
  log's own mutexes held.

Hard to get right, and to test: `Reload` tests `current` and `stopping` up to three times
and acts on what it read before; a listener can fail at any of those moments; requests live
through any number of reloads; statuses race each other to the tray; a rotation is up to
seven system calls. `PROJECT.json` lists these as hazards, each at its line, with the
properties that watch it.

## Modules

| Module | Models | Used by |
|---|---|---|
| `Controller` | `controller.go` and the exit of `main.go` | |
| `Service` | the abstract promise of `Controller` | refined by `Controller` (`ImplementsService`) |
| `ControllerInv` | the inductive invariant of `Controller` | `MCController`, `ControllerProofs` |
| `Handler` | `handler.go`, `auth.go`, `router.Table` | |
| `Relay` | `tracking_writer.go` between `httputil.ReverseProxy` and `net/http` | |
| `JsonModel` | the scanner of `json_model.go`, and the grammar of JSON to compare it with | `RequestBody` |
| `RequestBody` | `Handler` and `JsonModel`: what the handler learns of a body is what the scanner finds in it | `MCHandler`, `JsonProofs` |
| `StatusBoard` | statuses and the log's availability on their way to the tray | |
| `RotateLog` | `rotateWriter` of `logging.go` | |
| `ConfigRules` | `Validate` of `config.go` and `New` of `router.go` | `ConfigFile` |
| `ConfigFile` | `Ensure` and `Load` of `config.go` | `UserFiles` |
| `Autostart` | the login entry (`write_entry_unix.go`) and its menu item (`tray.go`) | `UserFiles` |
| `UserFiles` | both files as `main.go` uses them, by several instances | |
| `Proxy` | `Controller` and `Handler` as one program | `MCProxy`, `ProxyProofs` |
| `MCController`, `MCHandler`, `MCProxy`, `MCUserFiles` | the instances TLC checks | |
| `ControllerProofs`, `HandlerProofs`, `ProxyProofs`, `RelayProofs`, `StatusBoardProofs`, `RotateLogProofs`, `JsonProofs` (scanner), `UserFilesProofs` (configuration rules and file, login item, and both files) | theorems and proofs | |

**Controller.** The variables `current`, `stopping`, `mu`, `reloadMu`, `runtime` (the
snapshot of the handler) and `level` are the code's; `config`, `bound`, `inShutdown` say of
each deployment what it was made from, whether its listener is open and whether its server
is closing. `pc` is `main` in `Start`, the tray loop or `Shutdown`; `rpc` the reload
goroutine that holds `reloadMu` (with `cfg`, `seen`, `next`, `previous`, its locals); `serve`
and `drain` the goroutines of each deployment. An action is the code between two moments at
which another goroutine can tell the difference: a lock taken, a port bound, a status
published. Configurations are model values with a port and a level; the file may hold any
of them, or one that does not load, at each `Load`. Deployments are model values, each used once
(its `config` is never taken back): their number bounds the binds of a run. The environment opens and ends requests (`conns`)
and makes `Accept` fail.

**Service** is what a user is promised: an offer (configuration, level and listener) that is
replaced as a whole, at most one replacement at a time, never after the stop. Every
controller step is a `Service` step or leaves the offer alone.

**Handler.** A request goroutine is at one of the waits of `ServeHTTP`: about to load the
snapshot, reading the body, waiting for the upstream, copying, about to log. `Admit`
performs all tests from loading the snapshot to authentication, in the code's order,
through `FirstFailing`, and answers with the first that fails; `ReadBody` those of the body,
the route and the rewrite; `Update` and `SetLevel` replace the snapshot and the level
underneath, one after the other. An inbound request is a record of what those tests tell
apart (`InboundType`): how each header authenticates, whether the body is too large, cut
off, compressed, what its `model` field is, whether it carries a digest. What its `model`
field is, the instance takes from the scanner.

**Proxy** joins the controller and the requests the way the code does: they share
`runtime` and `level`, and nothing else. A configuration stands for the snapshot
`buildRuntime` makes of it, so `Snapshot` is the controller's set of configurations.
Where `Handler` lets anything be stored at any moment, only `Start` and `Reload` store here
(`ControllerSteps`); where the controller's clients come and go as they like, requests come
only once a listener has begun to be served (`Accepting`), and then until the process ends,
since the connections of a lost or replaced listener live on. `swapping` mirrors `mu`, and
`inForce` stays the history it is in `Handler`. The connections a server drains (`conns`)
are left to the controller: what a drain waits for is a connection, of which a request
tells nothing.

**JsonModel.** A body is a sequence of tokens, each punctuation mark by its name. `Locate` is
`locateTopLevelModel`, `LocateFrom` its loop, `Skip` the scanner under it (`skipValue`,
`skipObject` and `skipArray`, with the nesting limit); an index is the cursor and 0 the
error. The loop and the scanner are recursive functions; the step of each (`LocateBy`,
`SkipValueBy`, `SkipElementsBy`) is an operator of what the calls it makes return. `Derives`
says which parts of the body the grammar of JSON derives, by splitting them and not by walking
through them, `IsBody` which bodies are objects, and `Described` where their one top-level
model field is; `Agrees` compares the two. `RequestBody` puts this behind the handler: the
bodies clients send are a constant, any set of token sequences.

**Relay.** One response: the reverse proxy sends interim statuses, the final one, chunks and
flushes, in the order `httputil` sends them, with the header flush of its timer at any time;
the operators `WriteHeader`, `Write`, `Flush` and `LoggedStatus` are the methods of
`trackingWriter`; `net/http` below keeps the first final status and implies 200 without one.

**StatusBoard.** A goroutine that publishes puts a status together (`Evaluate` reads the
log's availability; a failure is logged before, a success after), stores it (`Store`) and
delivers it (`DeliverStatus`); a log write may fail once and raises the alarm in two steps with the log held (`AlarmStore`,
`AlarmDeliver`). `main` sets the sink, starts, and opens the tray, whose menu shows what was
queued. `Start`, `Reload` and `Shutdown` take turns, and a `Reload` may come last: a click that
waited for `reloadMu` behind `Shutdown` loads the file before it looks at `c.stopping`. If the
file loads it returns without a trace; if not, `Fail` and `Report` publish `config_error` over
"stopped" (`Called`).

**RotateLog.** A file is its length and the numbers of the lines in it. `Write` begins with
the test for a full file; `CloseActive`, `RemoveOldest`, `Shift`, `Reopen` and `AppendLine`
are the system calls in their order, each of which may fail (`Fails`, `Disable`); `Crash`
ends the process at any point and `Start` opens what is there.

**ConfigRules.** A configuration is the struct `Config` after decoding, its strings members of
a finite set of which the model knows what the tests ask: length, white space at the ends,
line breaks, NUL bytes. `Validate` and `Builds` run over the model entries in an order, as Go
runs over a map; the orders of the two need not be the same. `Routable` is what the program
relies on between them.

**ConfigFile.** `file` is what a reader of `config.yaml` finds, `synced` what the disk would
still have after a power failure. `Ensure` is a step per system call: `Stat`, `Create` (with
`O_EXCL`), `WriteTemplate`, `Sync`, `Complete`, or an error and the deferred `Remove`; `Load`
decodes and validates what is there. Several instances of the program, the user's editor
and power failures take their steps in between. `broken` is a history variable: the
instances that were stopped before they had completed the file or taken it away.

**Autostart.** A click reads the menu's copy (`Click`), changes the entry with `writeEntry`'s
calls (`CreateTemp`, `WriteTemp`, `SyncTemp`, `Rename`, `WriteFails`) or `Unlink`, and writes the
copy back (`Record`). A file's contents are in part, whole or synced. `aware` is a history
variable: the menus that have seen the entry as it is.

**UserFiles** puts the two together the way `main.go` does: `Enabled` before `Start`, `Start`
before the tray, and one end of the process, or of the machine, for both.

## Runs

| Run | Instance | Question |
|---|---|---|
| `controller` | 3 configurations (two on one port, with different levels), 2 ports, 3 deployments, deployments symmetric | Is the snapshot whole, every listener accounted for, every stop complete, and is it all a `Service`? |
| `controller_liveness` | 2 deployments, 1 client | Does quitting end, does `Reload` return, is a retired listener closed, a drained deployment empty, and what can the end of the process cut off? |
| `controller_tray` (violation) | 2 deployments | Is red shown exactly when there is no listener? |
| `handler` | 1 request goroutine serving any number of requests in turn, 3 snapshots, every request that differs from an ordinary one in at most two respects | Is each request treated by one snapshot that was in force during it? |
| `handler_key` (violation) | the same, once a snapshot is installed, with a local key that has a blank inside | Is every local key accepted in each header? |
| `proxy_level` (violation) | controller and requests together: 2 configurations that differ in everything but the port, 1 deployment, so that a level changes in the commit of `Reload` that keeps its port and nowhere else, 1 request goroutine, 3 inbound requests | With an unchanged port, does a new request get snapshot and level together? |
| `relay` | 3 chunks, final 200/404/500, interim 100/103 | Do status, bytes and flushes arrive? |
| `relay_interim` (violation) | the same | Also after an interim response? |
| `status` | `main`, a serve goroutine, a request goroutine | Does the tray end up with something sent last, and with the alarm? Is a listener named on the board after the stop? |
| `status_logging` (violation) | the same | Does it keep the alarm? |
| `user_files` | 2 instances, 3 documents of the user (accepted, rejected, no YAML), power failures; every choice of names for three models of two upstreams, and every configuration with one or two values changed | Is what is created valid, what is there kept, the entry whole, the menu right, and every accepted configuration routable? |
| `rotate_log` | 6 lines of 1 to 3 bytes, limit 2, 3 backups, all failures and crashes | Are files bounded and lines in order? |

Why the bounds are enough. Three deployments are one in force, one being prepared and one
being drained; a fourth is a second drained one, which shares nothing with the first. Two
ports give both branches of `Reload`, and the third configuration a change of level without
one of port. Requests share nothing with each other but the snapshot, so one goroutine with
three snapshots shows what a request can see; two deviations at a time put every pair of
tests of `ServeHTTP` in conflict, which is what their order can be wrong about. Three
chunks are a first, a middle and a last one. The alarm of the log is raised at most once
in a run of the program, so one request goroutine is enough to raise it against any other.
Three backups have a first, a middle and a last rename; six lines fill them and push the
first out. Two
instances of the program are one that is creating a file and one that comes upon it; a
third would be a second of either. Bodies are those that differ in one token from four
skeletons, and in two from the plainest: enough to put any token in any place of an object
with one model field, two, one in a nested object, and containers at the limit (which is 3
there and 1000 in the code: the count is the same). What the proofs cover holds without any
of these bounds.

The named bounds: `MaxChunks` (`Relay`), `MaxLines` (`RotateLog`), the number of
`Deployment`s, `Conn`s and `Request`s. Deadlock is checked in every run; a terminated
program has a step of its own.

What is checked, beyond one type invariant per module:

- `SnapshotCoherent`, `CommitBehindListener`, `ImplementsService`: a reload is all or
  nothing, and a configuration goes live only behind a listener for its port, although
  `Reload` acts on a deployment it read earlier.
- `NoLeakedListener`, `ListenerReleased`, `NoServiceGap`, `CurrentServes`: every open listener
  has somebody who closes it and does; the one in force is closed only by its own failure.
- `StoppedIsQuiet`, `QuitTerminates`, `ReloadReturns`: shutdown against reloads and failing
  listeners.
- `DrainedIsEmpty`: a deployment that was shut down has no request left. The drain of a
  replaced listener is a goroutine nobody waits for; its requests, and those of a listener
  that failed, are all that a quit can cut off.
- `StatusNamesCurrent`: after a reload the status names the deployment in force.
- `OneSnapshot`, `ForwardedByOneSnapshot`, `KeysStayHome`, `SignedBodyIntact`: a request that
  waited through reloads is answered, routed, rewritten and given its key as one snapshot
  that was in force during it would have it.
- `BodyAfterAuthentication`, `RefusedWithoutBody`: the order of the tests.
- `LocateExact`: the scanner finds the model field of a body exactly as the grammar of JSON
  describes it.
- `StatusWithoutInterim`, `BytesPreserved`, `Streamed`, `HeadersPushed`: the response.
- `TrayShowsALastStatus`, `AlarmShown`: the tray. `NoListenerAfterStop`: a late report of a lost
  listener comes before "stopped", and a `Reload` that comes behind it names no listener.
- `FilesBounded`, `BackupsHoldLines`, `OldestGoesFirst`: the log files.
- `CreatedIsValid`, `WholeFileKept`: two instances that start at once, failures at every step
  and power failures leave a configuration that can be loaded, or the user's; no instance
  overwrites a file it did not create. One that could not complete its file removes by name
  what is there, also a file the user has put in its place.
- `AcceptedIsRoutable`: `Validate` and `router.New` decide on name clashes apart from each
  other, each in an order of its own, and never disagree.
- `EntryWhole`, `MenuTellsEntry`: the login entry and the items that show it.

## Findings

1. **A response with an interim status loses its final one** (`relay_interim`,
   `tracking_writer.go:13`). The first status the writer sees is kept, also a 100 or 103;
   the client then gets 200, and the log says 103. README.md:52-53 promises the status.
2. **A local key with a blank inside is no Bearer token** (`handler_key`, `auth.go:38`).
   The configuration accepts it, `strings.Fields` splits it. README.md:171-176 allows
   either header.
3. **The level is not part of the snapshot** (`proxy_level`, `controller.go:179-182`).
   A request can run under the new snapshot and be logged at the old level: TLC finds one
   that does between the two stores of a `Reload`. README.md:260-262 says both change
   atomically. `LevelLags` is the bound that holds: it happens to no request whose line is
   written outside the two stores.
4. **The tray's colour can be stale** (`controller_tray`, `controller.go:213`). The report of
   a lost listener and that of a reload are published after `mu` is released, in either
   order. README.md:248-250 says red means no listener.
5. **The log's alarm can be taken back** (`status_logging`, `controller.go:369`). A status
   that was put together before the disk failed is stored or delivered after the alarm.
   README.md:284-285 says the tray reports it. `AlarmIsKept` is the bound that holds: only
   the statuses in hand when the disk failed can do this, and no later one.

## Proofs

Eight modules prove, for every value of the constants, the type invariants and the safety
properties of the modules they are named after. Assumptions are the `ASSUME`s of those
modules: what configurations, keys, statuses and bounds are, that `None` is none of them,
that strings are finitely many, that no string is spelled like a token, that the limit of
nesting is positive, and that the template of `Ensure` decodes to
`FirstConfig` with a key that is a valid secret.

**Controller.** None of the properties is inductive. That no listener leaks, for example,
rests on who is draining whom, which rests on what `Reload` knows of the deployment it read
before it gave up `mu`. `ControllerInv` states all that in twelve parts: who holds which
mutex (`LockInv`), what the locals of `main` and `Reload` may be (`MainInv`, `ReloadInv`), the
life of a deployment (`LifeInv`), whose it is (`OwnerInv`), that no two open listeners share a
port and the one in force shares none with a retired one (`PortInv`), and so on. The key
fact is `rpc = "sameCommit" => current = seen`: between the test of line 178 and its use
`mu` is held. Each part is proved in a lemma of its own, with a step per action; the
refinement of `Service` follows from the whole.

`DrainedIsEmpty` needs to know of a deployment that was never served that it has no
clients (`LifeInv`): one whose address could not be bound, or that `Reload` gave up.

That quitting and reloading end is liveness and stays with TLC; what makes them end is
safety and proved. `WaitsForEnding`: while `Shutdown` sits in `servers.Wait`, every serve
goroutine has been told to return, or a drain that has not run yet will tell it; nobody
waits for a listener that goes on accepting. `StopsForGood`: after `stopping` nothing comes
into force, no port is bound, and every serve goroutine only comes nearer to its end
(`ServeRank`). `ReloadTriesOnce`: each step of `Reload` brings it nearer to its end
(`ReloadRank`), it keeps `reloadMu` until then, and no other goroutine sends it back.

**Handler.** `RequestInv` says at each wait what the goroutine knows: the snapshot it loaded
is one of those in force since it arrived (`inForce`), that snapshot accepted the
credentials, and what was sent is what that snapshot would have sent. `Update` and
`SetLevel` only add to `inForce`, so it survives every reload. The lemmas about the tests
(`FirstFailingLemma`, `AdmissionLemma`, `AcceptanceLemma`) say which answers they can give,
and that `service_unavailable` is none of them (`Configured`).

**Controller and requests together.** `Proxy` takes no step that either of the two modules
forbids: every step is one of the controller or leaves its variables alone
(`ImplementsController`, which carries over the fairness too, and with it what TLC checks
of the controller's liveness), and what `Start` and `Reload` store is `Update` and `SetLevel` in turn
(`ImplementsHandler`). The second needs the controller's invariant: between two steps of a
holder of `mu` nobody else stores, and the level stored is that of the snapshot stored
before it (`FeedStep`). So what is proved of `Handler` with anything stored at any moment
holds of the requests of the program (`ServedByOneConfiguration`). What only the whole has:
no client is ever told that there is no configuration (`NeverUnavailable`), because a
listener is served only behind a snapshot (`ServesBehindSnapshot`) and none is taken away;
and a request is logged at the level of the configuration in force unless its line is
written between the two stores (`LevelLags`). These theorems have one hypothesis, `Wiring`:
every configuration has a port, and nil is neither a port nor a deployment. The theorems of
`ControllerProofs` come through `INSTANCE`, and their assumptions are shown to follow
from `Wiring` and those of `Handler` (`ControllerAssumptions`).

**Relay.** The invariant relates the writer's status to `net/http`'s (equal once a final
status was recorded, without an interim one), the bytes counted to those taken, and what is
flushed to what is produced, step by step.

**Status board.** `TrayShowsALastStatus` follows from `SentInv`: what the tray has is what one
of the goroutines sent last, or `main` is about to send the first. `NoListenerAfterStop` needs to
know of all goroutines where they are (`WayInv`), that the program never looks as if it were
starting again (`StartedInv`: or a failing `Reload` could name the port of a listener it never
bound), and that once `Shutdown` has passed `servers.Wait` no listener is in force and no serve
goroutine is anywhere but at rest (`StopInv`); the log lines of requests still come, and their
alarm leaves state and address alone. `AlarmIsShown` is the safety
half of `AlarmShown`: whoever finds the disk failing does not give up the log before the
tray has been told, or while a tray that has yet to be told anything says otherwise. `AlarmIsKept` says that
once no goroutine has a status of before the failure in hand, none ever has again, and an
alarm in the tray stands.

**Rotating log.** `FilesBounded` is inductive only together with what a rotation knows between
its calls (`StepInv`): that the file it renames has bytes, that there is no active file when
it reopens, and that the line to be appended fits or the file is empty; and with `FilesInv`,
that a file without bytes has no lines. `OldestGoesFirst` needs `OrderInv`: the line being
written is in no file yet, what the files hold is in order, and while a rotation goes down
the slots, the one above the next to be moved is vacant, so that no rename but the first
replaces anything. Each system call then moves the lines of one
file as a whole (`MoveHolds`), drops the oldest file's, or appends the newest line
(`AppendHolds`). `WritesAreBounded` counts the calls: whatever fails, `Write` holds
the log for at most `Backups + 4` of them.

**Configuration rules.** `EveryConfigurationRoutable` holds of all configurations, not only of
the candidates. A loop that has seen no name twice is an injective order of the public names
(`ScanFindsRepeats`), injectivity does not depend on the order, and in an injective order
`Routes` never meets a name it has. `OneTableServable` adds that the table is the same in
every order, so that Go's map iteration cannot tell two loads of one file apart, and that
its routes are those `Handler` assumes of a snapshot (`SnapshotAssumption`): a valid key if
and only if it replaces, and certificates left unverified only under https.

**Configuration file, login item.** The invariants say at each step of each instance what
the file and the disk hold if they are its own, and which temporary file is synced when it
is renamed. `UserFilesProofs` shows that every step of the composition is a step or a
stutter of each of the two (`ImplementsBoth`), so that what is proved of each holds of both
together, and adds that an instance that is down has no menu.

**Scanner.** `ScannerExact` is about every sequence of tokens, every set of strings and every
limit of nesting: the scanner accepts exactly the bodies the grammar derives as objects
within the limit, returns the value of the one top-level model field, and reports what is
missing, doubled or no string otherwise. `BodiesRead` (`LocateExact`) follows for whatever
clients send. The recursive functions are first shown to exist: arguments become smaller, so
approximations of growing depth agree (`Fixpoint`), which gives each its equation
(`SkipEquation`, `DerivesEquation`, `LocateEquation`). The library's induction theorems are
out of the provers' reach, but that a well-founded relation has minimal elements (`WFMin`) is
not, and strong induction over a set follows (`Induct`). With it, four facts:

1. what a call skips, the grammar derives (`SkipSound`, by where the call starts);
2. what the grammar derives, a call skips, if it is followed by a delimiter (`SkipComplete`,
   by the length of the phrase): only there is `skipNumber` at the end of its number;
3. a round of the loop accepts only the rest of an object (`RoundAccepted`);
4. a round says of the rest of an object what its description says of the model fields that
   are left (`RoundReads`). The description finds fields by how many containers a colon is in,
   the loop by walking; that they are the same is `PhrasesNest`: what the grammar derives closes
   every bracket it opens, and the only colons of a value are inside its brackets.

**Only model-checked:** everything under fairness (`QuitTerminates`, `ReloadReturns`,
`ListenerReleased`, `HeadersPushed`, `AlarmShown`, `RefusedWithoutBody`), which is out of this
prover's reach, as is `ENABLED`. All other properties of the passing runs are theorems.

## Fairness

- *Controller*: the goroutines the program has started go on (weak fairness of `Start`,
  `Exit`, `Reload` once it holds `reloadMu`, and of each serve and drain goroutine), since the
  Go scheduler runs every runnable goroutine. `Shutdown`'s first step competes for `reloadMu`
  with the user's clicks and is strongly fair: `sync.Mutex` hands itself to a waiter that has
  starved for a millisecond. A drain ends because `shutdownDeployment` closes the server when
  its timeout expires. Clicks, clients and failures are not fair.
- *Handler*: everything but reading a body and copying a response, which wait for a client
  or an upstream without a deadline. So the only liveness claimed is `RefusedWithoutBody`:
  a request that waits for neither gets its answer.
- *Proxy*: the fairness of both, as long as the process lasts.
- *Relay*: the proxy's own steps; headers and chunks are up to the upstream.
- *StatusBoard*: strong fairness of each goroutine's steps, for the mutex of the log; clicks,
  lost listeners and requests are not fair.
- *RotateLog* and *UserFiles* have none: nothing is claimed to happen.

## Not modelled

- The YAML decoder and the walk over the document before it (`config.go:252-378`, unknown and
  repeated fields, types): which documents decode is a constant of `ConfigFile` (`Meaning`).
- The text of the login entry, and the Windows variant, which sets or deletes one value of
  the registry.
- Texts, icons, opening files, packaging: no state, or one call of the system.
- Release metadata: a straight-line tool of the release workflow.
- Inside a JSON string or number: escapes and digits are `json.Unmarshal`'s and `json.Valid`'s.
- The format of log lines and of answers, apart from the status, the code and the models.
- TLS and connections below `net/http`; the hijacking of a connection after 101.
- Drains that outlive the program: `Shutdown` does not wait for the drain of a listener that
  was replaced just before; requests on it end with the process. `Exit` may happen at any
  point of such a drain, and no document promises otherwise. What is promised is that nothing
  else is cut off (`DrainedIsEmpty`).
- A data race on the text of one log line (`controller.go:295`), and two instances of the
  program on one log.

## Plan

The components with state of their own are modelled, checked and proved about. The modules
were written in this order: controller, handler, relay, status board, rotating log; then the
scanner, the configuration's rules and file, the login item and the composition of the two
files; then the controller and the requests as one program. What could be added next:

1. The walk over the YAML document (`validateDocumentSchema`), on trees instead of `Meaning`.
2. `Proxy` with `UserFiles` below it: the configurations `Reload` loads would be those of
   `config.yaml`, and `OneTableServable` would discharge the handler's assumption in place.
3. Two instances of the program on one log, should the repository come to say what is to
   happen then.
