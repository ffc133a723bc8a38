# Verification of EmberArmor

TLA+ modules, TLC configurations and TLAPS proofs about EmberArmor: a gate that
judges the tool calls of a coding agent against a ledger of rules
(`src/ember_armor/ledger`), with a hash-chained audit log and a resident server,
and an HTTP API around a prompt detector (`src/ember_armor/core`, `api`,
`monitoring`). Everything here is translated from the Python source; the comment
of every property says which behaviour of the code it is about, and
`PROJECT.json` maps every definition to the lines it stands for.

## 1. The system

### 1.1 Components

| Component | State it keeps | Operations | What makes it correct |
|---|---|---|---|
| Audit log (`audit.py`) | monthly `*.jsonl` files, `head`, `.last.*` markers, `.lock` | `append`, `verify`, `session_entries` | nothing acknowledged is lost; a crash is repaired and blamed on the right entry; edits show |
| Gate (`gate.py`, `hook.py`) | none; reads mode, ledgers, confirmations and log on every call | `check`, `respond`, the last resort of `main` | a failure is never silent approval in enforce mode; observe and remind never decide; a deny stands |
| Reminders (`remind.py`, `announce.py`) | none; what was told is read back from the audit log | `build_reminder`, `limited`, `respond_session` | a rule is told once per interval, never held back unless it was said, never quoted before its owner confirmed it |
| Resident gate (`resident.py`) | `resident.json`, a port, the process | `serve`, `ensure`, `stop`, `leave`, `watch`, `do_GET`, `do_POST` | one server per home, at the port the settings name; out-of-date servers are replaced; a session gets a gate |
| Ledger store (`store.py`) | `ledger.json`, `project-confirmed.json` | add, confirm, remove, load | nothing is vouched for that nobody confirmed; a command by itself edits a file in one step; a source that fails takes no other with it |
| Engine (`engine.py`, `exceptions.py`) | within a call: the answers of the repository lookup, the earlier calls once they are read | evaluation of a call's facts | what fires is excepted only where an exception covers it; a directory nobody knows is said; rules with one scope see one world; one failure is one rule's |
| Facts, paths, shell parsers (`facts.py`, `paths.py`, `shellpaths.py`, `shell/`) | what was read of one command string | commands and paths of a call, the directory each command runs in | an unknown directory or construct is never read as harmless |
| Lint (`lint.py`, `implies.py`) | none | findings about a ledger, by a solver | a finding holds for every call |
| Replay (`replay.py`) | the histories and reminders of the sessions it reads | transcripts judged by the rules of today | it counts what the gate did on the same calls |
| Draft, assist, CLI | none | offline tools over ledgers and transcripts | - |
| Circuit breaker (`core/circuit_breaker.py`) | state, failure times | `call`, `get_state`, `get_failure_count` | trips exactly on the threshold, cools down, heals |
| Consensus, Sonar, detector (`core`) | registered agents and weights, counters | register, orchestrate, vote with retries, check | a decision follows from what the agents said; every vote is counted once; calls end |
| HTTP API (`api`) | buckets of the rate limiter | middleware, authentication, check, health report | the limit is exact for every client; what is ill shows in the report |
| Monitoring (`monitoring`) | a context variable for the correlation id, counters | log records, six health checks | a record carries its own task's id; a check that crashed shows |
| Security helpers, proxy sketch | - | not called by any route | - |

### 1.2 How they interact

- The host starts `ember_armor.ledger.hook` for every tool call, or posts the call
  to the resident gate; both end in `hook.respond`, which calls `gate.check`.
  Calls of one session therefore run concurrently, in processes or in threads.
- `gate.check` reads the configuration, the ledgers and the confirmations (files
  the owner and the CLI write without a lock), asks the engine, reads the
  session's entries in the audit log to limit reminders, appends its own entry,
  and only then answers.
- The SessionStart hook announces the rules (an entry in the log starts the
  reminders again) and sees that a resident gate runs.
- A resident gate that leaves starts its own replacement; several starters share
  only `resident.json` and the port.
- `rules lint` asks the engine's own definitions of scopes and paths; `replay` feeds
  recorded calls to the engine and repeats the choice of reminders in memory.
- Requests of the API run on one event loop; the breaker, the rate limiter and the
  detector are shared by all of them, and so is the ensemble by its callers. No route
  calls the conductor, so nothing but its callers relates it to the API.

### 1.3 What is hard

Appends that are killed between any two writes; readers that take no lock; calls
of a session that do not see each other's entries; a mode read twice with the
owner's edit in between; failures at every stage of a call; a clock that is set
back; servers that start, stop and replace one another over one port; a breaker
whose protected calls end in another state than they began in; moves of the shell
that may or may not have run, nested in any way; repositories and a log that change
while one call is judged rule by rule; orchestrations that overlap while agents are
registered; transcripts that repeat each other's lines. `PROJECT.json`
lists each of these under "hazards", at the line where it bites, with the
properties that cover it.

## 2. The plan

| Step | Modules | State |
|---|---|---|
| 1 | `AuditLog`, `AppendOnlyLog` (what it promises), `AuditReaders` (composition with `verify`) | done, proved |
| 2 | `Gate`: check, reminders, session starts, answers; stands on what `AppendOnlyLog` promises | done, proved |
| 3 | `CircuitBreaker` | done, proved |
| 4 | `Resident` | done, safety proved |
| 5 | `LedgerStore`: read-modify-write of the ledger and the record of confirmations by several commands, deaths between the temporary file and its rename, changes of the repository under a load; `Sources`: the load of all sources | done, both proved |
| 6 | `ShellGuards`, `Directories`, `ShellRun`: the working directory over a Bash string, against a shell that runs it | done, model-checked |
| 7 | `Paths`, `Facts`, `Predicates`, `Engine`: a call judged rule by rule while the world changes | done, proved |
| 8 | `Implies`, `Lint`: findings about ledgers, held against the engine | done, model-checked; stale scopes and the axioms about commands proved |
| 9 | `RateLimiter`, `Detector`, `Ensemble`, `Monitoring`, composed with the breaker into `Api` and `Services` | done; the parts, and what they keep in `Services`, proved |
| 10 | `Replay`, composed with `Gate` | done, proved |
| 11 | the wrappers and PowerShell's part of the directories; `session_entries` beside appends | open |

Theorem still wanted: the first part of `LintIsCertain`. Of the kinds of atoms that it
takes, commands in fixed scopes are done (`CommandsFollow`).

## 3. The modules

A run is named here after its configuration file.

### 3.1 AuditLog, AppendOnlyLog, AuditReaders

`AuditLog.append` is one process per `p \in Procs` with one action for each step
that is visible on disk: take the lock, read the newest file, the marker and
`head` (`_link`), write the line in its pieces, rewrite `head` (truncate, write),
make the new marker, remove the older ones, give the lock back. A crash or a
failed write may come between any two of them. `Problems` is `verify`. The lines
of all months are one sequence, a line is the set of its pieces, and a hash is
the number of the append that made it (SHA-256 is taken to be collision free;
the digest of a damaged line is the negative of its number). Markers are
compared by name and size as in the code, with entries of equal length, which is
the worst case for that comparison. The size in a marker is the one the handle told
after the write (`written`), whatever an edit did to the file since.

`AppendOnlyLog` is what callers are promised: lines are added at the end, and an
entry is acknowledged when it is there whole. `AuditReaders` adds a `verify()`
that lists the files, reads one after the other without the lock and reads
`head` last.

| Run | Question |
|---|---|
| AuditLog | 2 processes, 2 months, 3 appends, 2 of them cut short, one edit from outside: acknowledged entries stay (`AckedKept`), `verify` blames only appends that were cut short (`OnlyCutAppendsReported`), edits show as long as `head` was not cut short (`TamperShows`), and the lock comes free (`LockComesFree`) |
| AuditReaders | 4 appends over 3 months, one cut short, beside an unlocked `verify()`: what it reads is a beginning of the chain (`ReadsAChain`), and the log implements `AppendOnlyLog` (`AppendOnly`) |

Three appends with two failures are enough for a cut-short entry to be followed by
an append that repairs it, one cut short again on top of it, and one that returns;
two months are enough for the repair to cross a file, three for a reader to be
behind two files. Two reservations in the properties are what the code does and
not what its words promise: a problem about `head` is reported by a `verify()`
beside an append in progress (`ReadsAChain` excepts it), and after an append cut
short inside the rewrite of `head` a removed last entry can go unnoticed
(`TamperShows` excepts it). One divergence is known and has no run of its own: an
entry that `head` recorded, and whose append was cut short before its marker, can
be removed, and the next append hides the gap although a docstring says it stays
visible (`audit.py:332`).

### 3.2 Gate

One call is a process with the stages of `gate.check` and `hook.respond`:
`Begin` reads the mode, `Evaluate` the ledgers and the confirmations, `Remind`
decides on a reminder from the entries it reads, `AppendLine` and `AppendReturns`
are the two moments an append has for its readers, `Answer` prints. Each stage
has a failing action (`EvaluateRaises`, `RemindRaises`, `AppendRaises`), the last
resort of `hook.main` judges by the mode it reads again, and a call can die. The
owner edits the mode (to one nobody can read as well) and confirms rules, the
clock is set forward and back, and a session start begins an interval again. One
session is modelled: a call without a session is always reminded, a dry run
changes nothing. Which rules fire is the input of a call.

`FailClosed`, `PassiveDecidesNothing`, `DenyStands`, `UnconfirmedUnheard` and
`ToldIsLogged` relate what a call answered to every mode it read, the stage at
which it failed and the log. `OncePerInterval` and `HeldBackWasSaid` need two calls,
a compaction and a moving clock. Two calls proposed at the same moment can
both be reminded (documented, `README.md:300` of the repository), and
`OncePerInterval` says exactly when; a compaction in observe mode is not
recorded (`docs/constraint-ledger.md:187`), and `HeldBackWasSaid` excepts it.

`Replay` composes with `Gate`: sessions are lived through in remind mode, the gate
choosing each call's reminders from its log, and the host writes transcripts. A
resumed session begins with a copy of an earlier transcript. Then a replay reads
the files in some order, one of them twice perhaps: which calls it knows again
(`SeenBefore`), the time and session a line has when it says none (`ThisLine`), the
histories of the sessions, the limit on reminders (`limited`) and the counts. Lines
may lack ids, times or session names. `ReplayAgrees` says that the report counts what
the gate did on the same calls, and that a call with an id counts at most once.
The rules and confirmations are the same then and now: where they have changed, a replay
is of the rules of today (`replay.py:6`).
`ToldAsLived` names when the first can be said, and so where it cannot: `limited`
does not know of compactions, so a rule told again after one is not counted again;
a resumed session read before the one it resumes takes the copied calls for its own;
a line without a time takes the time of the line before it; calls without ids count
twice in a file that is named twice.

The run Gate plays three scenes (`MCGate`). In "failures" one call meets a rule
that denies and one that warns, with all failures and two edits of the owner; calls
do not influence one another's decision but through the log, which the second scene
covers. In "reminders" two calls overlap around a compaction. In "replay" two
sessions make three calls, and two files are named: enough for a session to be
resumed and read before, after, or without the one it copies.

### 3.3 CircuitBreaker

The blocks under the lock are one step each (`Admit`, `Refuse`, `Succeed`,
`Fail`; nothing in them awaits), the protected function runs between them and can
be cancelled. Moments are ages up to the first age that no longer matters, so the
clock needs no bound; it is taken never to be set back. `TripsOnThreshold`
compares the state with the failures a history variable counts independently:
the breaker trips only on as many as the threshold in one window, and stays closed
only on fewer. Failures are a set of records, an age and a number that tells those of
one moment apart (`Failure`). `CoolsDown` says nothing is let through for the recovery timeout after
a trip. `BreakerRecovers` is liveness: an open breaker does not stay open
(`LeavesOpen`), and once what it protects works again it closes for good (`Heals`).
Three callers, a threshold of 2 and a window longer than the timeout give calls that
began closed and end open, half-open and closed again (scene "breaker" of the run
Services).

Known, without a run of their own: a failure in half-open does not re-open a
breaker whose older failures have left the window (`circuit_breaker.py:170`),
although a test says it does (`tests/test_circuit_breaker.py:106`); a half-open
breaker lets through every call that arrives, not one trial call; and the setting
`cb_window_size` is not passed to it. The properties hold all the same.

### 3.4 Resident

A server is a slot with the steps of `serve()` (`Look`, `Read`, `Create`, `Fill`,
`Bind`, `Serve`, and what follows a failed construction: `StepAside`,
`GiveUpPort`, `HealthRaises`), of its end (`WatchExit`, `Stop`, `LookAgain`,
`Shutdown`, `ServerClose`, `Replace`, `Exit`), and it can die at any step. The
host posts calls to the port its settings name, whatever `resident.json` says;
SessionStart hooks run `ensure()`; the package changes; other programs, which
speak HTTP or not, take ports. A server that serves answers in time.

The run Resident has one server started by hand and one by a SessionStart hook,
idle ends, a change of the package, and any one of: a stop, another program on a
port, a failure, a kill. Two servers are what each property takes: one that has the
port and one that wants it. The copy a server starts takes its slot, as the process
ends right after. The run may stop (all servers gone and no start left), so it does
not check deadlock.

| Property | What it says |
|---|---|
| `OneGate` | however servers start at once, stop, sit idle, are replaced or killed, and other programs come and go, no two serve and `resident.json` stays as it was written, until a start has met no gate in place (`met`) |
| `ComesBack` | a server that leaves for a copy is followed by one that serves where the host posts to (`Restored`) |
| `SessionGetsGate` | so is a hook that found no gate |
| `UpToDate` | no server the host can reach stays out of date |
| `NoneLeftBehind` | a server no address leads to leaves |

`met` is a history variable: a start that could not have its port found, at some time
before its `health()` request is answered, no gate there that serves or is about to. One way
to it needs no failure and no other program. A gate that leaves (idle, stopped, or
for its copy) is out of `serve_forever` before `server_close()` closes its socket; a
start between the two cannot bind, gets no answer from `health()`, takes the port for
a stranger's, removes `resident.json` and chooses another (`resident.py:453-467`). The
settings then name an address without a gate, until the owner puts the new
one there. That contradicts the address that is "fixed so the settings file can
name it" (`resident.py:19-20`), the fresh copy that serves in place of the old
(`resident.py:29-32`), and "so a session never begins without one for long"
(`docs/constraint-ledger.md`, on the SessionStart hook). The same loss follows a kill
that comes between a start's bind and its health request, and a foreign program on
the port, which the code is written for. So `OneGate` is of the time before such a
meeting, and `Restored` asks for a gate at the host's address or, after one, for a gate at
another (or a foreign program in the way); a failure excuses a gate that does not come, since
`serve()` may end with it. With `Together = 0` and
without `~ met` TLC shows the race as a trace of `OneGate`.

ResidentStop is a violation: a server that was asked to stop starts a copy when a call
it was still answering finds the package changed.

### 3.5 LedgerStore

A process runs one `ember-gate rules` command at a time: `add`, `confirm`,
`remove` edit the user ledger, `record` (`confirm --project`) the record of the
project rules confirmed on this machine. `Begin` is the command line,
`ReadProject` and `Read` are its reads with the edit and its validation,
`OpenTmp`, `Write` and `Replace` are the three moments of `_write_json` that show
on disk, and the process can die at any of them (`Die`, `CutShort`). All commands
use one temporary name and take no lock, so an open handle may be the temporary
file, the file itself once another command has renamed it, or a file without a
name; text written over other text may leave the rest of it ("torn"). The model
is of a POSIX system, and of processes that die, not of a machine that loses
writes the system had accepted. A load of a project reads its ledger, then the
record (`LoadProject`, `LoadRecord`), and `Pull` changes the project ledger in
between, which stands for `rules add --project` too. A load of the user ledger is
one read, so what it vouches for is a function of the file (`LedgerVouches`).

The run LedgerStore has two processes, three commands, two ids with two contents
and one change of the repository: enough for one command to die and leave its
temporary file, and two more to overlap over it. `ApprovedOnly` holds under every
overlap: what a load takes for confirmed says what it said when a confirm command
was run on it. `AtomicAlone` says what `write_document` (`store.py:434`) calls
atomic, for commands that had their file to themselves. Two that overlap can
take one another's edit back and, over the shared temporary file, cut the ledger
to nothing or leave it torn; the exception in the property (`shared`) is exactly
that.

`Sources` is a load of everything a call is judged on (`load_sources`): the built-in
pack, the override or the user ledger, and the project's ledger, which is searched
for level by level above the directory of the call (`LookHigher`, `Find`,
`CannotLook`). A ledger is missing, valid, not valid, or in a directory closed to the
process, and `FilesChange` may change one between any two steps. `EachSourceCounts`
says that a source that stays as it is is loaded or reported, whatever happens to
the others, and that a ledger of the owner is never taken for a project's. Two things
it leaves room for: a user ledger met on the way up ends the search, and a project
ledger that vanishes between the search and the read loads as empty. Three levels
are enough for a ledger below, at and above the owner's.

The two are scenes of the run LedgerStore ("commands", "sources"). Commands are used
up and a load ends, so the run does not check deadlock.

### 3.6 ShellGuards, Directories, ShellRun

The rules of a ledger are scoped to directories, so the gate works out where each
command of a Bash string runs. `ShellGuards` reads a string: one action per kind of
token (`Command`, `Link`, `Pipe`, `Enter`, `Branch`, `Leave`, `Subshell`, `Script`,
...), each doing what `bash.py` and `Guards` do with it. It leaves the commands and
the scopes they are in: of their own, kept (`eval`), maybe, loop, defined. A string
is only ever one that a shell accepts. `Directories` is `shell_facts` and its
tracker, as operators over what was read: `Step`, `EnterFrom`, `LeaveOne`, `Trial` are
the methods of `_Tracker`, and `Fact` is one round of the loop of `shell_facts`,
which also follows where relative paths are resolved (`ChangeDirectory`, `Joined`,
`Unshelved`). A directory is a sequence of names.

`ShellRun` is the judge: once a string is read, a shell runs it token by token in
every way it can. That part is Bash, not code of the repository. `DirectorySound`
says that a command runs in the directory worked out for it unless that is unknown,
and that it is known when nothing in the string is in doubt (`Certain`).
`PathsBothWays` says that relative paths are resolved against the directory the
shell is in, among others, unless the call is marked as not read in full.

The run Shell takes seven parts of the language (`MCShell`), each with the ways its
commands can be joined and nested, and 3 to 5 commands with up to 2 compound
commands: five commands are what it takes for a move behind an operator, a second
one that undoes it, and a third that depends on it; two compound commands are a loop
in a branch, a function called in a loop, an eval in a nested shell. `MAX_PLACES`
and `_TRIAL_STEPS`, 8 and 20,000 in the code, are 1 and 6 here, so that both limits
are met. Strings end, so deadlock is not checked. ShellEval is a violation: a move
in an `eval` counts for the directory of the commands behind it, but their relative
paths are resolved as if it had not been made.

The properties take for granted what the documentation names as limits
(`docs/constraint-ledger.md`): a `cd` succeeds, a function's body is judged where it
is defined, aliases and sourced scripts are not read. They also stop short of these
strings, for which the code was found to follow a move that Bash makes otherwise,
each of them left out of the run or excepted by name:

- a move in a compound command that is a stage of a pipeline
  (`{ cd /srv; make; } | tee log; git commit`, `(x) | cd /srv`): `_piped` looks at
  single commands only;
- `break` or `continue` in a loop that otherwise comes back to where it began;
- `pushd` without a target once the stack is unknown, and `popd` in a nested shell,
  which takes from the stack of the shell around it;
- `[[ ... ]]` in a subshell before `&&` (`( [[ a ]] ) && cd /srv`): the note that
  something can fail stays with the inner list;
- a function that is defined anew, as one that moves, after a function that calls
  it was read.

### 3.7 Paths, Facts, Predicates, Engine

`Paths` has the normalisation of paths, the patterns, what a pattern may match
where a word is not known, and the search for the nearest repository, on sequences
of segments. A word of a command is taken to match a glob it may abbreviate
(`MayMatch`), that is when some name fits both; which names fit a last segment with a
wildcard is a constant (`Abbreviates`), and one that begins with a wildcard abbreviates
nothing, as in the code. `Facts` is `extract`: the commands and paths of a call of a shell, a file
tool or any other tool, each with the directory it runs in, that of the call, or
none that is known. `Predicates` has every kind of leaf, the predicate tree (a
sequence of nodes, evaluated by a recursive function), the directory and repository
scopes that divide a call into what is in, out, and possibly in, and the session's
earlier calls. Commands come parsed and with at most one move before each; the full
tracker is section 3.6.

`Engine` is `evaluate`. `todo` is the set of places still to be judged, and they are
judged in the order of `Before`: as they stand, the rules for unknown directories
(`Deferred`) last. What a judgement needs of the world is fetched by steps of their
own, in the order the code asks (`NextAsks`): `LookUp` asks level by level for a `.git`
entry and keeps the answer, `ReadHistory` reads the log once, and either can fail
(`LookUpFails`, `RuleFails`, `ExceptionFails`). Between any two steps repositories come
and go (`DiskChanges`) and other calls are logged (`CallIsLogged`). `Judge` is one round
of the loop with the owner's exceptions: which of them cover the rule, what they
take out of the call, and whether the rule fires on the rest.

The run Engine judges some thousands of calls in families (`MCEngine`), each about
one part: moves into known and unknown directories, operands and variables,
repositories that change, histories, arguments of structured tools, file tools, where
sessions start, and ledgers for lint. Among the repositories are rules that an
exception by repository drops, or does not, as the disk has it. Two changes of the world are enough for the two
rules of a family to see different ones if anything were asked twice.

| Property | What it says |
|---|---|
| `LiftsOnlyCovered` | an exception drops a ban only where each command with its paths, each path of a file tool, or the call, that it fires on is covered, in a known place |
| `UnknownIsSaidUnlessExcepted` | what a scoped rule forbids passes it in an unknown directory only if that is said |
| `RulesAgree` | two rules that say the same agree, whatever changes between their judgements |
| `FailuresStayLocal` | a rule that needs neither disk nor log fires exactly when it holds, whatever failed before |
| `ReachesInScope` | what sees a command below a directory was announced for a session that starts there, when its scope is one place for both |
| `UnresolvedSafe` | setting a variable before or after a path is normalised names one place: it is never normalised away |

`RulesAgree` has one condition, `UnknownIsBan`: the rules for unknown directories are
bans. Of two such rules one that is an obligation adds to the places that are possible
(`engine.py:1156`), which the other, judged later in the same round, goes by. The
only one the repository has, in the built-in pack, is a ban. Definitions that theorems are about
choose by disjoint `CASE` guards, and `EngineAssumption` says what a predicate tree is:
the nodes below a node come after it.

What the engine promises as a whole is `DecidesAsIfAllKnown` (in `EngineProofs`, since it
speaks of all directories there are): while nobody changes anything and nothing fails,
evaluate returns exactly the rules that fire, are excepted or are possible when the
repository of every directory and the log are known from the start, though it asks for
a repository only when a judgement needs one, keeps what earlier walks answered for the
levels they passed, and reads the log at most once. It has the same condition, for the
rules for unknown directories and for the effect.

`LiftsOnlyCovered` is about rules that ban one thing (`Positive`). A path that is spared
beside a sibling is not one: whether it counts depends on the paths of other commands,
so a command by itself may break the rule and the call not. `UnknownIsSaidUnlessExcepted` says that
the rule fires, or is named as possible and then every ban of unknown directories that
holds everywhere (`BansUnknown`) fires or is excepted. The engine judges all that may lie in a
scope together; where that holds more than what is in unknown directories (not
`AllElsePlaced`), a rule of several parts may say something else of the whole, and the
property is about `Positive` rules.

EngineExcepted is a violation: a rule that an exception dropped for the commands in
a known directory is not looked at again for those in an unknown one
(`engine.py:1128`).

Other places where the code and its words part, met while modelling and without a
run: `unknown_directory` nested in `all` or `any` is not judged as at the root
(`docs/constraint-ledger.md:78`); for a repository lookup that failed `evaluate`'s
docstring (1071) and `_rooted` (641) differ; a repository that a command creates counts
for all commands of the string, whatever their order, and for earlier calls that the
history predicates look at.

### 3.8 Implies, Lint

`Implies` has the implications between path patterns, command predicates and path
predicates. `Lint` describes a ledger as lint does: atoms, the axioms between them,
and worlds (which atoms hold, the tool, what is known of each argument). The solver,
Z3, is external: its "unsatisfiable" is that no world is left, which is enumerated.
Constants are doubled, so that there is a value between any two; sums of arguments are
atoms. `Linted` gives dead rules, blanket rules, shadowed rules and contradictions (of
all smallest cores, where the code takes the one the solver returns), and
`StaleScopes` the scopes that have drifted from the disk.

`LintIsCertain`, in the run Engine, holds every finding against every decision the
engine reaches: "a finding is certain" (`lint.py:25`). EngineLint is a violation of
that sentence as it stands (`FindingsHold`): the operand of `cat a*` may abbreviate
`a.t`, so a rule about `a.t` fires, and the rule about `**/a.t`, which is said to shadow it,
does not, as the operand lies under no pattern of that name. Two more cases are
excepted by name (`Blind`): `spared_beside` under different directory scopes, and a
rule for unknown directories with a directory scope. Its second part, `StaleIsSilent`, is
about the directories and repositories that lint reports as gone: a rule all of whose
directories, or all of whose repositories, are reported neither fires nor is excepted on
a call made and run on the machine as lint saw it (`Machine`: the directories above what
exists, those of the repositories included), unless the call itself makes a repository.
The ledgers of the run have rules stale by either field, beside rules that fire.

### 3.9 RateLimiter, Detector, Ensemble, Api, Monitoring, Services

`RateLimiter` is `dispatch` with its purge of buckets; `LimitExact` says nobody is let
through more often than the limit in any window and nobody is turned away early.
The middleware that is added last is outermost, contrary to the comment in `main.py`,
so requests are limited before they are authenticated or logged. `Detector` has the
counters of `check` and what `health_check` makes of them: five UNSAFE verdicts in a
row make it unhealthy, where the docstring says degraded.

`Ensemble` is the conductor with the Sonar agent: orchestrations overlap, each waits
for all of its votes, requests are retried once, fail or are cancelled, and agents are
registered while votes are out. `FollowsWhatWasSaid` relates the decision to what the
agents said: SAFE is what every agent said, and agents of enough weight that say
UNSAFE are heard. `VotesAddUp` is the bookkeeping of overlapping votes, `OrdersEnd` that
every call ends. The weights are those of the moment of the decision, not of the
call. Things a reader of the code may not expect, which the properties do not
contradict: an agent whose `vote` is not async is always a REVIEW although the
docstring of `register_agent` allows it; a text or a domain of another type than the API
lets through makes `_build_vote_prompt` raise after the vote was counted
(`sonar_agent.py:256`), which is not modelled; the veto is at or above the threshold,
where a docstring says "exceeds"; a vote task that is cancelled makes `orchestrate`
raise; a text with "NOT SAFE" in it counts as SAFE when there is no verdict line.

`Api` composes the first three layers with the circuit breaker: a request passes the
limiter, is authenticated, and checks a text through the breaker or asks for a
health report, which looks at the components one after the other while other
requests change them. A shallow report calls an open breaker healthy; a deep one
does not (`DeepReportShows`). `Monitoring` has the correlation ids of tasks, with scopes
that nest and end by exceptions, and the six checks of the health checker
(`LogsOwnId`, `CrashShows`); the checker builds instances of its own and calls them
healthy whatever their own `health_check` says. `IllnessShows` is both of the report
properties.

The run Services plays six scenes, one at a time: the breaker with three callers,
the limiter over five moments with a window of three, two requests through the API,
two orchestrations with one other agent, two tasks with nested scopes, and the
checker. The detector starts new or with ten checks behind it, so that its thresholds
are in reach of eleven. Scenes end, so deadlock is not checked.

## 4. Fairness

- `AuditLog!FairSpec`: weak fairness of each process's step. File-system calls
  return, and the wait for the lock is bounded by its deadline.
- `ServicesSpec`, for the breaker (in its scene only, as `CircuitBreaker!FairSpec`
  has it): time passes, protected functions end (the detector has no unbounded wait),
  and requests keep arriving.
- `Ensemble!EnsembleFairness`: a vote that can go on does (the HTTP client has a
  timeout, the pause before a retry ends), and a call whose votes are in resolves
  them. New orchestrations and registrations are not fair.
- `Resident!FairSpec`: processes and their threads run; the host keeps proposing
  calls; a server nobody calls is idle after `idle_seconds`; a look at the package
  gets too old to be reused again and again (strong fairness of `LookAgain`, since
  the calls that find it young come in between).
- The other modules need none: their properties are safety properties.

## 5. What is proved

Each `*Proofs` module holds theorems for every value of the constants; TLC checks
the same properties first.

- `AuditLogProofs`: `TypeCorrect`, `LockExcludes`, `InvariantHolds` (`Spec =>
  []IInv`), and from it `AckedEntriesKept`, `VerifyBlamesCutAppends` and
  `ImplementsAppendOnlyLog`. Neither property is inductive: what an append has read
  before it writes, what the marker says beside `head`, and which half of the
  rewrite of `head` is done all matter. `IInv` adds that the lock excludes, that
  the disk is a chain up to its last line, and, for each step of an append, what
  the process holding the lock knows of the disk. The disk part is stated for a
  log nobody edited (`tampers = 0 => DiskInv`). `TamperingShows` needs another
  invariant, since after an edit the log is no chain any more: `TamperInv` speaks of
  every part of the log that could be left over. A part whose entries link to each
  other down to a first one, and that holds a hash the program keeps (in `head`, in a
  marker, in what an append is about to write), has all acknowledged entries
  (`Covers`); removing or changing lines leaves such a part a part of what it was.
  `ReadsBeginnings` is about `ReadersSpec`: as long as nothing is cut short every line
  but the last is acknowledged (`NothingCut`), and what `verify` has read are the first
  lines, the others lying in files still to be read or newer than those listed
  (`ReadInv`).
- `GateProofs`: `GateTypeCorrect`, and `CallsStayOK`, an invariant of each call by
  itself (`CallOK(log, p, pc[p], call[p])`: what mode it read, what it decided
  and what the log holds fit the stage it is in). Steps of other calls only let the
  log grow, which keeps it (`LogGrows`, `OthersKeep`). The five safety properties of
  single calls follow (`CallsOKSuffices`).
  `RemindedOncePerInterval` and `HeldBackOnlyWhatWasSaid`, which
  relate two calls and the starts between them, follow from `RemindersOK`
  (`RemindersStayOK`). Its parts: the entries of the log are those of the calls that
  wrote one (`LogOK`); a start that is logged began after the calls whose entries come
  before it (`StartsOK`); what was said before a call began is among the lines it
  reads (`AfterOK`); of two calls of one context that quote one rule within the
  interval the later one says it, if at all, to a later context (`IntervalOK`); what
  was said in an earlier context is followed by a start that was logged, and a call of
  a later context reads that start (`ForgottenOK`, `SeenOK`); what a call holds back
  some call says, or was to say (`HeldOK`).
- `ReplayProofs`, of `ReplaySpec`: `ReplayCounts`, from `ReplaySteady`. An entry of the
  log is what the gate made of the call by the entries of its session before it
  (`LivedOK`), a line is what was written of its call (`FilesOK`), and the replay has
  counted the calls told by the lines it is past, each once, as the gate judged them
  (`ReplayOK`). The step that needs work is a call read for the first time:
  where the files tell the sessions as they were, the calls of its session that are
  counted by then are those made before it (`InOrder`, from the first place each call is
  told at, `FirstPlace`), so the history and the reminders the replay goes by are
  those of then (`RecentAsThen`, `JudgedAsThen`).
- `EngineProofs`: `JudgesInTurn` (`JudgeInv`), `FailureIsLocal`, `JudgesInOneWorld`,
  `TwinsAgree`, `LiftsWhatItNames`, `UnknownNotPassed`,
  `NeverReasonedAway` and `AnnouncedWhereJudged`; `JudgedOnce`, `AnswersAreRight` and
  `EverythingCounts`. What a predicate says at its places is a function built from the leaves
  up, and that there is one function with that recursion is shown once (`LeavesUp`,
  `TreeFunction`); that it depends on the repositories and the log only where the rule
  asks for them follows by the least place where two worlds would differ (`HoldsSame`,
  `UnconsultedSame`). `JudgeInv` says that judgements come in the order of `Before`, that what
  is fetched is what the judgement at hand needs next, and that a rule that needs
  neither disk nor log says what it says by itself. `OneWorld` says that what was looked
  up and read stays as it was found, so that every judgement so far is what it would be
  with all that is known by now (`SettledStays`): a later rule that says the same finds
  the same. `LiftsWhatItNames` follows from `Lifted`, which says of each rule dropped so far
  what the property says of all in the end, and that the conditions it was lifted by
  need nothing more. What `Judge` takes out of a call leaves a part on which the rule
  does not fire; a ban of one thing that fires on a command by itself fires on every
  part that holds it (`LeafGrows`), so that the command was taken out, and that was done
  for an exception that names it (`CommandsLifted`, `PathsLifted`). `UnknownNotPassed` stands on
  `PossibleIsSaid`: bans of unknown directories come after all other rules, and fire or are
  excepted as soon as a rule is possible. That one is, where what cannot be placed breaks
  it, is `UnseenMayFire`. `NeverReasonedAway` goes along the words of a path (`SetEitherOn`):
  a word stays, or takes a name away that holds no variable, which is then the last
  thing that its words name as well. That the recursive functions it is about exist and
  go on word by word is shown once, by the least place where two of them would differ
  (`Onwards`, `ChainFunction`). `AnnouncedWhereJudged` is about the recursive table that
  stands for the regular expression of a pattern (`FullMatchIs`: there is one, by the same
  means). Up to the first `**` of a pattern its pieces and the names of a directory it
  describes stand at the same places of both texts and fit one by one (`Aligned`, by the
  least place where they would not). So a pattern whose places include a directory either ends
  at or above the one where a session starts, or goes on from it (`UnderOrNames`,
  `NamesAbove`), which is what `_below` asks; what is excluded above is excluded below
  (`UnderStays`); and the repository nearest to a directory is nearest to all between the
  two (`NearestStays`). `EverythingCounts` has two parts. What was said of a rule and of the
  exceptions that could drop it is what would be said of it at any later time
  (`JudgedOnce`): the verdict of a rule that needs nothing more depends on no answer that
  comes later (`VerdictStays`), by the conditions of every exception, what these take out
  of the call, and the rule on the rest. And what was looked up is what the disk holds
  (`AnswersAreRight`): a walk from a directory up to the first level that an earlier walk
  has answered ends where a walk through all levels would (`WalkIsRight`), and its answer
  is that of each level it passed. So all answers on all directories extend those the
  engine has, and the verdict by these is the verdict by all.
- `LintProofs`: `StaleRulesAreSilent`. What lint takes a pattern for, once variables and
  "~" are expanded, is one directory without wildcards; `fnmatch` and the table of
  `FullMatchIs` describe by it just that directory, or what lies below it
  (`LiteralMatch`). A pattern lint cannot place keeps the mark of the missing base in
  front (`MarkStays`), so what it does place the engine places likewise, whatever the
  directory of the call (`NamedIs`). Then nothing on the machine lies under a directory
  that is reported (`NoDriftUnder`), and no walk ends at a repository that is
  (`NoDriftRoot`, with what `AnswersAreRight` says of the walks), so the rule sees nothing of
  any call (`StaleSeesNothing`). It has two hypotheses beyond the assumptions of the
  constants. `Posix`: one root, and the case of names counts. `NoClimb`: neither the home
  nor a variable's value holds `..`; `_named_directory` (`lint.py:670`) looks for `..`
  before variables are expanded, and the mark stands two levels deep, so that a value
  with two of them would climb above it. The constants of the run satisfy both.

  And what lint tells the solver of two atoms, for commands. `ImpliedCommandsMatch`
  (`command_implies`): the places that `operand_positions` finds rise from one to the next
  (`PositionsUpward`), so that the words behind a longer subcommand are among those behind
  one that it begins with. `InsideIsUnder` (`directory_inside`): the form in which lint
  compares a pattern is what the engine resolves it to (`ComparableIs`), an inner
  directory without wildcards is above all that lies under it, and what lies under any
  pattern stays there going down (`UnderStays`). `NarrowLiesInWide` (`_sees_less`) takes
  these together field by field, and `CommandsFollow` says it of the commands that a rule
  with a scope sees and its predicate describes. These suppose `Posix`, a home directory
  that does not climb, and scopes that mean the same directories for every call: none
  that lint compares under a root of its own, as those relative to each call's directory
  or with a variable are, nor `**/...` (`IsFixedView`). The others are left to the run.
- `ResidentProofs`: `ResidentTypeOK`, and `ResidentIsOne` from `ResidentInv`: as long as
  no start has met a gate that is not in place (section 3.4), every server has the
  address of the settings, the one that is bound, serves or has stopped holds its port
  (`Ground`), and a start that could not have the port has a gate before it that serves or is
  about to (`Facing`). Starts, idle ends, stops, replacements, kills and other programs
  all keep that.
- `LedgerStoreProofs`: `StoreTypeOK`; `StoreApprovedOnly`, from `Backing`: every
  confirmed rule in a file, a temporary file or the hands of a command is in the
  set of what confirm commands have found; `StoreAtomicAlone`, from `Apart` (two
  commands on one file both know that they share it) and `Owning` (a command that
  shares with nobody still finds the file as it has read it, and its temporary
  file as it has left it). None of the three is inductive without what commands
  carry between their read and their rename. And of `Sources`, `SourcesCount`, from
  `LoadInv`: below the level the search has come to, what stays as it is holds no
  project's ledger, and once the search is over the ledger of a source that stays is
  still at hand, loaded or reported.
- `ServicesProofs`, of each part alone:
  - `BreakerCoolsDown`, from `Cooling`: while the breaker is open the age of the last
    failure is known and no older than that of the trip. `BreakerTripsOnThreshold`,
    from `Counting`: the failures the breaker keeps and those the history counts
    differ only in what has left the window, so that pruning loses none that counts.
  - `LimiterIsExact`, from `LimiterInv`: what is recorded of a client is a part of what
    was let through, and the part of both that is still in the window is the same, so
    that neither the purge nor a request turned away loses an entry that counts.
  - `CountersAddUp`, from `CountersInv`: the votes in flight are finitely many, and
    each step changes their number and the counters together.
  - `EnsembleFollows`, from `Heard`: of the answers that are decisions, what a call has
    recorded is what was said. The weights are summed by a recursive function: that
    there is one, and that its sum is 0 only when all weights are, is shown for the
    least number of names for which it would fail.
  - `RecordsOwnId`, from `RecordsInv`: the context of a task holds the id of its
    innermost scope, and the tokens it keeps are those of the scopes around it, so that
    leaving one restores the id outside.

  And of all together: `ServicesKeepParts` (a step of the composition is a step of each
  part or leaves it alone, so each invariant stands), and `ServicesShowIllness`, from
  `Watching`: what a report was found ill with is still ill, and each look at it said so.

Only the constants' named assumptions are used, and in `LintProofs` the hypotheses named
above.

## 6. What is only model-checked

Liveness (`LockComesFree`, `BreakerRecovers`, `OrdersEnd`, and that of `Resident`) is
out of the prover's reach. `DirectorySound` and `PathsBothWays` speak of `Directories`,
which is recursive, and the prover cannot follow that. What
`LintIsCertain` says of findings is checked on the bounded instance only: the solver's
worlds are held against the engine's calls, which is a completeness argument about every
kind of atom; proved of it is that the axioms between atoms of commands hold of every call
where the scopes are fixed (`CommandsFollow`). Its part about stale scopes is proved where no variable's value climbs
(`StaleRulesAreSilent`); no run sets such a value.

Elsewhere, too, what a recursive function gives for every input is an induction over
data, of which only what the least counterexample refutes is within reach (as for the
weights of the votes, the predicate trees and the lines of the files).

## 7. What is not modelled

`PROJECT.json` lists every component with its status.

- Text: tokenising of shell text, regular expressions, JSON validation field by
  field, wording, logging, redaction, cleaning of quotes. No property is about it.
- Of shell strings: `elif`, `case`, the conditions of `while` and `until`, `&`, `break`
  and `continue`, PowerShell and `cmd.exe`, the directory options of programs
  (`git -C`), and which words of a command are paths.
- Of paths: character classes and braces in globs, limits on lengths; the Windows
  flavour is a parameter that no run sets.
- Of lint: sums of arguments, globs of tool names.
- A Grep call whose glob excludes files (`!name`, `facts.py:363`) is one without a glob.
- Of an answer: its text. Which rules the reason of a blocking decision quotes
  (`hook.py:73-94`) is not modelled, only that a decision is given and on what.
- Which rules the SessionStart summary lists, beyond `ReachesInScope`.
- The built-in pack (a table), the request and response models, the metrics route
  (its counters are never incremented), the proxy sketch (which does not run), and the
  cryptographic helpers, which no route calls.
- Draft and assist read sentences out of transcripts, by patterns or by a model;
  what they write goes through the ledger store. The CLI parses arguments and prints.
- Z3 is an external program; so are the host, the shells and the file system, which
  are modelled from how the code uses them.
