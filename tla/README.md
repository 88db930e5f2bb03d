# NetSage: verification development

NetSage is a command-line program that inspects network devices (FortiOS
firewalls) over SSH, concludes deterministically from what it collected, and may
let an AI provider ask for further read-only collections. This directory holds
TLA+ models of it, the TLC configurations that check them on small instances, and
proofs that TLAPS checks for every value of the constants. Paths below are
relative to the repository, `netsage/` stands for `src/netsage/`.

`PROJECT.json` maps every definition to the lines it translates, and lists the
runs, the hazards, the findings and the theorems.

## 1. Inventory

NetSage is a set of short-lived processes. One command is one asyncio program,
and the only concurrency inside a process is the awaited call (a driver, a
provider, a subprocess) and its cancellation. Two commands may run at once on the
same files; there is no lock between them.

| component | state it keeps | operations | talks to |
|---|---|---|---|
| Tool Broker (`broker/core.py`, `policies/`) | tool table; audit records through a sink | register, tools_for_device, ai_tools_for_device, invoke | inventory (read), policy, driver handlers, audit sink |
| Evidence boundary (`evidence/`) | in-memory store of envelopes | collect (invoke, convert, store), get, list | Broker |
| Deterministic workflows (`investigations/`) | observations of the run | collect a fixed list, conclude, report | collector |
| Agent runtime (`agent/runtime.py`) | rounds, call ids, signatures, counters | run, _execute, _validate_final | provider, collector, store |
| Agent service (`agent/service.py`, `cli/ai_commands.py` ask) | provider life cycle | initialize, health workflow, run, close | runtime, provider |
| Local state (`state/`, `inventory/store.py`, `credentials/profiles.py`) | inventory, profiles, trust: three YAML files | load, save (atomic replace), add, remove, replace | file system |
| Credentials (`credentials/`) | passwords in the OS keyring | add, rotate, remove, resolve | profile store, inventory, keyring |
| Onboarding (`onboarding/`, `cli/state_commands.py`) | none of its own | add, test, remove, trust-reset, investigate | local state, credentials, SSH, Broker, history |
| Codex OAuth tokens (`ai/providers/openai_codex/auth.py`) | a pointer and chunk records in the keyring | save, load, delete, status, valid_tokens (refresh) | keyring, OAuth client |
| Codex OAuth login (`.../oauth.py`) | device code, verifier | request code, poll, exchange, refresh | HTTP |
| Codex App Server client (`ai/providers/codex/`) | subprocess, pending notifications, next request id | initialize, request, turn, close | JSON-RPC over pipes |
| Provider selection and HTTP providers (`ai/providers/`) | response cursor | create, generate | HTTP |
| History (`history/`) | SQLite: investigations, evidence, audit events | initialize, append, store, read | file system |
| FortiOS driver (`drivers/fortios/`) | SSH shell, detected version, variants that failed | open, run a command, semantic operations | SSH |
| Command catalog (`drivers/fortios/catalog/`) | registry | plan, execute, audit | driver, audit sink |
| Compatibility probe (`compatibility/`) | report under construction | probe, export | Broker-less driver calls |
| Redaction (`security/redaction.py`), parsers, models, CLI tables | none | pure functions | |

What is hard in it, by component, with what makes it correct:

* **Broker.** Four refusals in a fixed order, a handler that may return, raise,
  return something wrong or be cancelled, and a sink that may itself raise on
  every path. Correct: a driver is reached only past every check; the trail tells
  what happened, no event for what did not.
* **Evidence boundary and agent.** An arbitrary provider chooses calls and a
  conclusion; limits are on batches; calls fail half way; citations may be
  invented. Correct: nothing is concluded on the provider's word, the
  deterministic conclusion stands, budgets hold, no call runs twice, the run ends.
* **Local state and credentials.** Three files and a keyring are changed one after
  the other, rollbacks may themselves fail, processes die, several run at once,
  users take time to confirm, hosts change keys. Correct: a password goes only to
  a host key a user confirmed for that device; a failed command leaves no trace;
  the inventory stays readable.
* **Codex tokens.** One logical value spread over several keyring records, a
  refresh token that can be used once, several processes. Correct: the active bundle is
  whole until its removal is asked for, a refresh token is used once, and nothing of a
  replaced or removed bundle stays behind.
* **Deterministic workflows.** Seven sets of rules with stages and precedence, over
  reads that may each fail, be refused, be truncated or say nothing, of a device that
  changes between two of them. Correct: a report cites what was collected, names no
  cause from an incomplete collection, and calls nothing healthy that a read shows to
  be at fault.
* **Driver, transport, catalog, probe.** Output arrives in arbitrary pieces, with pager
  markers cut anywhere and text that looks like a prompt; a variant that fails is
  replaced by the next; audit and redaction fail too. Correct: a command gets its whole
  answer and nobody else's; the trail tells the outcome; the probe claims no more than
  it saw.
* **App Server client.** A turn's events may overtake the answer to the request that
  started it; deadlines, server requests and cancellation end a step anywhere. Correct:
  an unsafe turn gives no answer, a completed one is not missed, the child does not
  survive, the ask ends.
* **Device login.** Two clocks and a user: polls, slow-downs, retries and expiry.
  Correct: polls keep the distance asked for, and an approval in time is collected.
* **History.** Several processes write one SQLite file, and die. Correct: a stored
  investigation has all of its evidence, and no recorded event is lost.

## 2. Modules

| module | models | lines of code |
|---|---|---|
| `ToolBroker` | `ToolBroker`, policy and tool table | `broker/core.py`, `broker/models.py`, `policies/__init__.py`, `tools/structured.py` |
| `EvidenceCollector` | `EvidenceCollector.collect`, factory, store, on top of `ToolBroker` | `evidence/` |
| `EvidenceBoundary` | abstract: what an investigation promises its reader | `agent/runtime.py`, `agent/models.py` |
| `AgentRuntime` | workflow, then `AgentRuntime.run`, on top of `EvidenceCollector` | `agent/runtime.py`, `investigations/fortios.py` |
| `LocalState` | stores, onboarding, credentials, trust | `state/`, `onboarding/`, `credentials/`, `inventory/`, `cli/state_commands.py` |
| `BundleStore` | abstract: one bundle of Codex tokens, replaced in one step | `ai/providers/openai_codex/auth.py` |
| `CodexTokens` | save, load, delete and refresh over single keyring records | `ai/providers/openai_codex/`, `cli/ai_commands.py` |
| `FortiOSParsers` | what each parser makes of a kind of text and its rows | `drivers/fortios/parsers.py`, `semantic/` |
| `FortiOSDriver` | a read: its commands, the shell's checks, the variants | `drivers/fortios/driver.py`, `variants.py`, `version.py` |
| `HADiagnosis` | correlation of HA evidence and the HA diagnosis | `investigations/ha_correlation.py`, `ha_diagnosis.py` |
| `Investigations` | the seven deterministic workflows, on top of the three above | `investigations/fortios.py` |
| `FortiOSTransport` | one SSH session: login, shells, prompt and pager loop | `drivers/fortios/transport.py` |
| `CatalogExecutor` | a catalog command, on top of the session | `drivers/fortios/catalog/executor.py`, `registry.py` |
| `CompatibilityProbe` | ten reads and the report, on top of the driver | `compatibility/` |
| `FortiOSCommands` | composition of the last three | `cli/fortios_catalog_commands.py`, `compatibility/service.py` |
| `CodexAppServer` | client, provider and service around one child process | `ai/providers/codex/`, `agent/service.py` |
| `DeviceLogin` | the device authorization and the login command | `ai/providers/openai_codex/oauth.py`, `cli/ai_commands.py` |
| `HistoryDatabase` | the SQLite history of several processes | `history/`, `onboarding/service.py` |
| `MC*` | constants of the small instances for TLC | |
| `*_proofs` | theorems: `AgentRuntime_proofs` (the Broker and the investigation that calls it), `Investigations_proofs`, `FortiOSCommands_proofs` (session, catalog and probe), `LocalState_proofs`, `CodexTokens_proofs`, `CodexAppServer_proofs`, `DeviceLogin_proofs`, `HistoryDatabase_proofs` | |

### ToolBroker

`registered` is `ToolBroker._tools`; `call` is the invocation suspended at the
`await` of the handler; `audit` is what the sink accepted. `touched` and `replies`
are history. `Refusal` is the sequence of checks of `invoke`, in its order:
unknown tool, arguments and inventory, capability, policy. `Deny` is an invocation
that ends there, `StartHandler` one that reaches the driver; `HandlerReturns`,
`HandlerRaises` and `HandlerCancelled` are the ways the awaited handler ends.
`Settle` is `_record`: the event is appended, or the sink raises and its error
takes the place of the result. A result for another device or tool is one of the
errors of `HandlerRaises`. Cancellation is a `BaseException`, which `invoke` does
not catch: no event.

### EvidenceCollector

`CollectRefused` and `CollectStarts` are the first half of `collect`, up to the
driver; `BrokerFails`, `ConversionFails`, `StorageFails` and `EvidenceStored` its
four ends. No `await` lies between the handler's end and storing the envelope, so
that is one step. An evidence identifier is a position of `store`.

### AgentRuntime and EvidenceBoundary

`pc` follows the program: the workflow's collection loop (`workflow`,
`workflowCollecting`), then `run`: `start`, `context` (the loop head), `generating`
(provider awaited), `executing` (next call of the batch), `collecting` (driver
awaited), `done`, or `raised` for an exception out of `run`. Both limits are tested
on the whole batch before a call of it runs (`ProviderCallsTools`). The contents
of a batch are chosen one call at a time, when the runtime gets to it: nothing
looks at them earlier, so this is the same set of behaviours with fewer states.
`snapshot` is the evidence in the context built for the round, which is what
`_validate_final` compares citations with. The workflow's own rules are abstracted
to the space of conclusions it may report (`Conclusions`), so that what the boundary
promises does not depend on them; `Investigations` has the rules themselves.

`EvidenceBoundary` says the same in three actions: observations accumulate, a
conclusion is fixed once over them, at most one assessment is published, over
observations and compatible with the conclusion. `AgentRuntime` implements it under
the mapping in `Boundary`.

### LocalState

One variable per file (`inventory`, `trust`, `profiles`), the keyring (`secrets`),
the key every address presents (`hostKey`), and per process the command it runs
(`jobs[p]`): its program point, its parameters and the file it has loaded and will
save. A store operation is two steps, load and save, because two processes may
interleave there. A save is one step: `state/atomic.py` writes a temporary file and
replaces. Each may fail without effect; `except` branches and their own load and
save follow. Assumptions on what is outside: a failing keyring call has no effect,
and `os.replace` is atomic. A failing deletion may raise `PasswordDeleteError`, which
is also the error of a missing entry; with `missing_ok` the code cannot tell them
apart (`DeleteSecret`).

`add.*` is `DeviceOnboardingService.add_device`, `remove.*` `remove_device`,
`reset.*` the `trust-reset` command (discovery, review, `replace`), `connect.*` the
verified login of `test_device` and every later command, `profile.*`, `drop.*` and
`rotate.secret` the three `credentials` commands. `Crash` kills a process at any
point; `HostRekeyed` changes a host's key.

### CodexTokens and BundleStore

`pointer` and `records` are the keyring: the record `oauth-token-bundle-v1` with the
active generation and its number of chunks, and the chunk records. A pointer with
no chunks is a bundle of schema 1, which lies in the pointer record itself; such a
bundle is one of the initial states. Generations are numbered in the order they are
named, which stands for fresh uuids; `contents` is the refresh token of each, the
only part of a bundle the properties tell apart. `jobs[t]` is the command a task
runs, at the next keyring call it will make: nothing spans two of them, so a load, a
save and a delete are sequences of steps that other processes interleave with.

`SaveBegins`, `WriteChunk`, `SwitchPointer`, `CleanPrevious` and `UndoChunks` are
`save`; `LoadPointer` and `LoadChunk` are `load`; `DeleteBegins`, `DeleteChunk` and
`DeletePointer` are `delete(missing_ok=True)`; `TakeLock`, `UseLoaded` and the
`Refresh*` actions are `valid_tokens` and `refresh_tokens`. Only `valid_tokens` is a
coroutine that several tasks of one process await at once; every other command has a
process of its own, which is what `Start` says. `CancelLogin` is Ctrl-C during a
login, `Crash` the end of a process for any reason.

External: the server (`live`, `issued`, `Exchange`) accepts a refresh token until it
has answered with another one, and may answer without one, or lose its answer after
the exchange. A failing keyring call changes nothing, and a failing deletion may
raise `PasswordDeleteError`. `leaving` is history: the generations a logout has set
out to remove.

`BundleStore` knows one active bundle. A step activates a bundle that is new or was
there before, asks for a removal, damages the active bundle after its removal was
asked for, or clears it. `CodexTokens` implements it with `Active`: the pointer's
generation if all of its chunks are there, 0 (`Damaged`) if not.

### FortiOSParsers and FortiOSDriver

An output is the kind of each of its texts (one per command: a listing, a refusal,
nothing, "disabled", "not configured") and the rows the regular expressions find, in
their order. `Parse*` follow the parsers of that name, with their limits, their
truncation flags and their three-valued facts. Order matters where the code takes the
first or the last row. `Read` is one read of the driver: `ShellError` are the refusals
the transport finds before a parser sees the text; `ReadVariants` is the choice between
the reviewed commands for BGP and OSPF, which depends on the firmware version, and the
fallback after a `Retryable` failure. A failure carries where it was raised, since the
probe reports that.

### Investigations and HADiagnosis

`kind` is the workflow, `todo` the reads still to be made at this stage, `gathered`
what each made so far gave. Every `Collect*` step lets the device answer anew: nothing
says that two reads see the same device. `CollectFails` is a read the Broker or the
transport failed. `Deepen` is the staged collection of the HA, SD-WAN and routing
workflows (`NextStage`), `Conclude` the findings, the diagnosis and the status.
`version` is the driver's cached firmware version, which a read with variants may have
to obtain first. `HADiagnosis` has the correlation: which events of a history belong
together (by the order of their timestamps, within `Window`), which incident they are,
and which of the diagnoses has precedence. Only the findings' codes, severities and
evidence are modelled, not their wording.

### FortiOSTransport, CatalogExecutor, CompatibilityProbe and FortiOSCommands

A shell writes a sequence of pieces: the command's echo, text, a refusal, the two halves
of a pager marker, a prompt, or a line that looks like one. `Receive` reads any number
of them as one chunk, tests the limit, answers the pager and looks for a prompt in what
was read: a marker may be cut between two chunks, and output left over from the
greeting may be read as the answer. Every command of a read has a shell of its own on
one connection. `Stop` is the `finally` that closes it.

`CatalogExecutor` runs one such session between `_prepare` (`Execute`, whose checks are
in the code's order in `PrepareError`) and the audit event: `Fail` and `Returned` have
the audit's own failure as an outcome. `Cancel` is the caller's cancellation,
`ExecutionTimesOut` the executor's own deadline. `CompatibilityProbe` makes the ten
reads of `Specs` in order; `Observe` has the rule that a fatal error of the first read
stands for all; `Aggregate` is an area's verdict. `FortiOSCommands` composes them: a
process executes a catalog command, collects the commands of a read, or probes, never
two at once.

### CodexAppServer

Two pipes carry messages: `requests` to the child, `pipe` from it. The server, which is
external, answers or refuses the request at the head, works on the turn it was asked
for whether it has answered or not, and may stop. `ReadAnswer` is one message read by
`_request` (what is not the answer goes to `notes`), `ReadTurn` one event of
`_wait_for_turn`, from the queue first. `Fails` is an exception out of either; `Recover`
and `AfterCancel` say who closes the server then, which depends on the stage: before the
connection is made `_connect` does, `initialize()`'s account check has nobody, and from
then on the `finally` of the service's `ask` does. `turns` is history.

### DeviceLogin

`now` is NetSage's clock, in the units of the constants; it moves with sleeps, timeouts
and requests. `Decide` is the user, `ServerReads` the moment the server looks at a poll,
`Heard` the moment NetSage has its answer, so that the user's decision and both
expiries may fall between any two of them. `RequestTimesOut` and `RequestBusy` are the
retries of the request for a code; a poll that times out is followed by another, the
exchange is never repeated.
`Save` and `Choose` are the command's two writes. A server that gives an interval or a
lifetime outside the limits gets the nearest limit (`Clamp`).

### HistoryDatabase

`file` is the database as `_validate_schema` sees it, `tables` what is committed, `writer`
the process whose `BEGIN IMMEDIATE` holds the writer lock and `draft` its uncommitted
tables: SQLite itself is external. `doing[p]` is the command of process `p` at its next
statement. `Crash`, and an error in any statement (`AuditFails`, `InsertFails`,
`TransactionFails`, `RemoveFails`), drop the draft. `told` is what the user is shown of
an investigation; `lost` is an `sqlite3` error nobody translates.

## 3. Runs

| run | question | result |
|---|---|---|
| `broker` | Does any order of registrations and invocations reach a driver past a check, or make the trail tell something else than what happened? | no |
| `agent_health` | With an arbitrary provider over three rounds: grounded assessments, audited evidence, the deterministic report, budgets, repetition, the refinement | hold |
| `agent_diagnostics` | With a workflow that is partly refused and a diagnostic with destinations: does every run end? | yes, under the fairness below |
| `investigation_rules` | Over every combination of answers and failures of its reads: does a workflow cite what it has not, call a fault healthy, name a cause from part of the evidence, a restart without a sign of one, or an interface that is well? | no |
| `fortios` | However output is cut into chunks: is a command's answer whole, does the audit trail tell the outcome, does the probe claim only what it observed? | yes |
| `ask_codex` | With a child that reorders, refuses, stops or says nothing: is an unsafe turn answered, a completed one missed, a child left behind, an ask endless? | no |
| `device_login` | With a server and a user who answer at any moment: do the polls keep their distance, is an approval in time collected? | yes |
| `history` | Three processes that fail or die at any statement: is what is committed whole? | yes |
| `state_one_by_one` | Commands one after the other, with a fault, a crash and a key change: inventory readable, profiles with secrets, failures undone, nothing orphaned | hold |
| `state_together` | Two processes at once: are only reviewed keys trusted and used? | yes |
| `codex_one_process` | Tasks of one process and commands one after the other, with a fault and a crash: bundle whole and atomic, refreshes serialized, nothing left over, the refinement | hold |
| `codex_cancel` | Does Ctrl-C cancel a login without writing credentials (`docs/providers/openai-codex.md`)? | no: not during the save |

**Bounds, and why they are enough.** `broker`: five tools, one of each kind the
checks tell apart (readable, wrong capability, allowed diagnostic, diagnostic not
allowed, forbidden), a known and an unknown device, two invocations: the Broker
keeps no state from one invocation to the next but the tool table and the trail,
and two are needed to confuse the order of events. `agent_health`: three rounds,
batches of two, a total of three, four call identifiers: a total that is spread
over several batches, a batch refused by the total while it fits the step limit, a
repeated call and a repeated identifier in another round, a final answer before and
after tool calls. One forged identifier is enough as all are alike. Two report
strengths, one of which is `confirmed`, the one the validation singles out.
`agent_diagnostics`: two destinations, as repetition compares them, without symmetry,
as it checks liveness.

`investigation_rules` (about 690,000 states): limits of two rows, so that a list can be
shorter, full and truncated; `Outputs` has, for every read, each refusal and
absence the parser knows, and lists of rows that differ in every fact a rule looks at;
of the histories, those with each type of event and with pairs of events on both sides
of the correlation window, which is five units. `fortios` (about 940,000): answers without a pager and with
two, with and without echo, refusals alone and together, a prompt-like line, and one longer
than the limit of ten pieces; greetings with and without text, and one with a prompt-like line; reads of two commands, as everything carried over from
a command to the next shows with two; one transport failure is where a fatal error may
come first, a second shows one that comes later. Manifest definitions of each kind
`_prepare` tells apart. `ask_codex` (about 240,000): three steps, so that what is left
of a turn can reach the one after and the one beyond, and turns of up to three items.
`device_login` (about 720,000): intervals below, within and above a cap of four, lifetimes
likewise with a cap of eight, slow-downs of two, requests of up to one unit, two
attempts: several polls, slow-downs up to the cap, and both expiries before, at and
after a poll. `history` (about 420,000): three processes, one to hold the lock, one to
wait for it and one to interfere; two investigations of two calls, so that one may be
partly written while another is removed.

`state_one_by_one`: two devices, profiles, addresses and keys, five commands: add
a profile, add a device, change it, and two more; one fault and one crash, at every
point. `state_together`: two processes on one device and one profile, the case in
which they interfere, with two addresses and keys so that the device may be added
again elsewhere. `codex_*`: bundles of one or two chunks, as one chunk is both first and
last and two have a state between them; up to four commands, enough for a bundle to be
written, replaced, removed and read; one failing call and one crash or Ctrl-C, each at
every step. Two processes interleaved at every keyring call are the subject of the
theorems below. Call identifiers in `agent_health`, tasks, and all the sets of
`LocalState` and `HistoryDatabase` are symmetric: nothing orders them.

**Fairness.** `RunEnds`: `Workflow`, `RuntimeStep` and `CallStep`
are code that runs when nothing is awaited. `ProviderStep` and the ends of a driver
call are weakly fair because `generate` has a provider timeout and driver calls the
SSH command timeout: each ends, with an answer or an error. `Interrupted` has no
fairness: nobody has to press Ctrl-C. `AskEnds`: NetSage's own steps are weakly fair, and so
are its deadlines (`TimesOut`) and the reading of what is there; the server's actions
are not, as it may go silent for ever, and neither is `Cancel`. One thing is taken for
granted of the server: that it reads its input. Writing a request drains the pipe
outside every deadline (`client.py:381`), so a child that stops reading while its
buffer is full would hold an ask up for ever.

Deadlock is not checked where a finished run or command is where the system stops; in
`history` it is, since a process can always begin another command.

## 4. Theorems

Every safety invariant, action property and refinement that a passing run checks is also a
theorem, for every value of the constants that the named assumptions of the modules allow.
Two components have a further hypothesis, stated in the theorem itself: where the code
gives a guarantee only to commands that do not overlap, or only up to one fault, the
theorem says so (`OneAtATime`, `OneFault`, `OneProcess` below), as the run does.

*The Broker and the investigation* (`AgentRuntime_proofs`).

* `BrokerTypeCorrect`, `TypeCorrect`: type invariants, for every value of the constants
  that satisfies `BrokerAssumption` and `AgentAssumption`. `TypeOK` is inductive only
  together with two facts about the program: a handler is in flight exactly in the two
  collecting states, on this device (`TypeInvariant`).
* `NoUnauthorizedTouch`: `OnlyAuthorizedTouches`. It refers to the present tool table
  while calls were made under earlier ones; the invariant says of each call that it passed
  the checks, and that the table only grows and never holds a forbidden name.
* `AuditTrailTells`, `NoHandlerUnaccounted`: `AuditTellsWhatHappened` and
  `HandlersAccounted`. `Settle` adds one reply, and one event exactly when the sink
  accepts it, so the recorded replies and the events grow together (`SettleAdds`); the
  accounts are cardinalities of sets of places in `audit` and `replies`, of which a step
  adds one at most, and one handler may be in flight besides.
* `EvidenceAudited`, `AssessmentGrounded`: proved from one inductive invariant, `IInv`:
  type correctness; `EvidenceInvariant` (every envelope has its driver call and SUCCESS
  event, and a handler in flight is the last element of `touched`: the fact that carries
  the driver call from `StartHandler` to `EvidenceStored`); and `ProgressInvariant` (what
  is fixed by each program point: the report is `running` until the end, the baseline is
  over existing evidence, the snapshot is within the store).
* `ImplementsBoundary`: `Spec => BoundaryKept`. Every step is an `Observe`, `Fix`,
  `Publish` or a stutter of `EvidenceBoundary`; the three action lemmas use `IInv`.
* `BudgetKept`, `NothingRunsTwice`: `ToolBudget` and `NoCallRunsTwice` follow from
  `LimitInvariant`: the calls a batch still holds and those already counted stay within
  the total the batch was tested against, the run has started no more handlers than it
  counted, and every call it started has its signature recorded and is unlike the others.
* `ToldTheTruth`: `ResultsMatchEvidence`, from `ResultInvariant`: besides the property
  itself, each SUCCESS names an envelope of its own tool, the call in flight is the one
  being answered, and its identifier has no answer yet.
* `ReportStands`: `DeterministicReportStands`, from `RunInvariant`, the two invariants
  above together: the final answer is validated against the baseline, and by
  `ResultInvariant` an envelope beyond the baseline is one that a call returned. The last
  two also use `CollectorAssumption`: no kind of error is called "none".

*Investigations* (`Investigations_proofs`): `EveryClaimIsCited`, `RestartsAreSaid`,
`PartialReportsNameNoCause`, `HealthyMeansHealthy` and `BlameIsSeen`, for any set of
workflows, any answers of the device and any limits. A report is written in one step from
what was gathered, so the argument has two halves. One is an invariant (`Collected`):
which reads are gathered or still due in each workflow, and how the fields of a value are
related, which is the parsers' work (`Tells`: an unhealthy grade has a high figure, a
disabled service lists nothing). The other is a lemma per workflow: from whatever
`Collected` allows, its conclusion is `Sound` - it cites only what was read, names no
cause where a read is missing, a restart only where the history tells of one, an interface
only where it was seen at fault, and with no complaint hides none. `Conclude` is the only
step that writes a report, and after it nothing is gathered (`Ended`).

*A session with a FortiGate* (`FortiOSCommands_proofs`).

* `AnswersAreWhole`: `WholeAnswer`, for any greetings, answers and limit, however they are
  cut into chunks. While a command is answered, what was read and what is still to come
  are together what the shell wrote, and as many spaces were sent as pagers were read
  (`ReadingIsWriting`); outputs and writings stay in step (`AnswersAccounted`).
  `ShellAssumption`: a shell writes its prompt last and then waits. Lines that only look
  like a prompt are not excluded: they are what the property's exception is about.
* `AuditTrailIsTrue`: `TrailTellsOutcome`, from `TrailInvariant`: what has been recorded
  at each stage of an execution and what the session has become by then. That an event
  says denied only when no connection was made comes from the codes that `_prepare` and
  the policy raise before the session is opened.
* `ReportIsObserved`: `ClaimsAreObserved`, with `ObservationsConsistent`: the observations
  so far are those of the first operations in their order, each consistent in itself and
  of its own area, from which the report's claim about an area is formed.

*Local state* (`LocalState_proofs`).

* `TypeCorrect`, `OnlyReviewedKeysTrusted`: `TypeOK` and `OnlyReviewedKeys`, for any
  number of processes. The files alone are not enough: a command saves a whole file it
  read long ago, so `KeysInvariant` says of every key a command carries past the
  confirmation, and of every record of a trust file it has loaded, that it was reviewed.
* `EveryDeviceResolves`, `EveryProfileHasSecret`: `InventoryResolves` and
  `ProfilesHaveSecrets`, with any number of faults and crashes, for one command at a time
  (`OneAtATime`; for commands that overlap they do not hold, see section 5).
  `SoundInvariant` says what the files and the keyring hold at each step of each command
  (`Stage`): the file it is about to save is the present one with its own change.
* `FailingCommandUndoes`, `NothingLeftBehind`: `FailureUndoes` and `NothingOrphaned`, with
  `OneFault` as well: a rollback is a save like others, and a second fault there leaves
  what it was to undo. `UndoInvariant` gives, at each step, what the files held when the
  command started as a function of what they hold now (`Undone`), so that the last step of
  a rollback restores it.

*Codex tokens* (`CodexTokens_proofs`).

* `TypeCorrect` and `ActiveWhole`: for any number of tasks, processes, chunks, commands,
  faults and crashes, under `TokensAssumption`. `ActiveIsWhole` alone is not inductive: a
  clean-up or an undo could delete a chunk of the active bundle. `IInv` says why none
  does: the generation of an unfinished save is known to nobody but its own task
  (`PairInv`, `OwnGenerations`), is not the pointer's and was never asked to be removed; a
  save at the pointer has all of its chunks; and the generation a clean-up deletes is no
  longer the pointer's (`JobInv`). Names of generations never exceed `Len(contents)`,
  which makes a new one new.
* `ImplementsBundleStore`: `Spec => OneBundle`. Steps on records of another generation
  than the pointer's are not seen (`OtherGeneration`); `SwitchPointer` is `Activate`,
  `DeleteBegins` `AskRemoval`, `DeleteChunk` `Break` or nothing, `DeletePointer` `Clear`.
* `BundleIsActivatedAtomically`: `AtomicallyActivated`, for any number of tasks of one
  process (`OneProcess`), with faults and crashes. At most one task is past the lock
  (`OneWorks`), so between the pointer and the last chunk a reader has the pointer's
  generation under its feet (`ReadsPointer`), and `ActiveWhole` gives it the chunks.
* `StoredTokenIsUsable`, `NoTokenPresentedTwice`, `KeyringIsTidy`: `StoredTokenUsable`,
  `NoTokenReused` and `NoStrayRecords`, also with `OneProcess`, as long as nothing fails,
  which the properties say themselves. `FaultlessInvariant`: at each step of the one task
  at work, which token is the server's (the stored one, or the one in its hands), which
  generation the pointer names, and exactly which records there are. With two processes
  the second refresh presents a used token, and with a crash between the refresh and the
  save the only valid one is lost: neither is excluded, nor could be claimed.

*The others.*

* `AlwaysWhole`: `HistoryWhole` for any processes, investigations and calls. The invariant
  adds what the draft of the one writer is at each statement, as a function of the
  committed tables; that an investigation belongs to one process until its fate is told;
  and that only that process adds to what it collected, which is what makes the evidence
  it has still to insert the difference to the draft.
* `PollsKeepDistance`, `ApprovalIsCollected`: `PollsSpaced` and `ApprovalCollected` for
  every interval, lifetime and cap. The invariant: `wait` is what was asked for, grown by
  the slow-downs heard and held at the cap, and no poll was sent later than now
  (`Interval`); a pending answer under way that does not know of the user's decision was
  overtaken by it (`PendingIsBefore`); and an outcome is the end (`OutcomeIsLast`).
* `ServerIsClosed`: `ServerClosed`, an action property, for any number of steps. It needs
  an invariant about the beginning: before the child is started nothing exists, and the
  answers to the handshake and the account request are awaited only while connecting,
  which is why an error of another call always leads through `close()`.
* `ResponsesFailClosed`: `TurnsFailClosed`, for any number of steps and items. The notes
  queued by an earlier read and the pipe, one after the other, tell what the turn has
  written (`Tells`): its end is on its way until it is read and nothing of the turn
  follows it, and an unsafe item comes before the end. Reading, queueing and draining keep
  that; threads are used one after the other and a failed one is the last, so nothing of
  an earlier turn is on its way when the next begins.

Only model-checked: liveness, `RunEnds` and `AskEnds`, as TLAPS proves neither liveness
under fairness nor `ENABLED`. What a parser makes of its rows and what the folds over rows
compute is by definition: a statement about every length would be an induction over data,
which is out of reach as well; the theorems need only which rows there are. Not claimed at
all are the properties of overlapping commands that section 5 lists as not holding.

A proof found one mistake in the model: where two guards of a `CASE` hold at once TLA+
leaves the choice open, while the Python code takes the first. The parsers, the order of
reads and the HA rules are therefore written with disjoint guards or `IF`.

## 5. What was found

One disagreement between documentation and code is the violation of a run.
`codex_cancel`: `docs/providers/openai-codex.md:106` "Ctrl+C cancels without writing
credentials". During `store.save` it leaves chunks no later command deletes, and
after the pointer is switched a whole new bundle, while the command prints that no
credentials were stored (`cli/ai_commands.py:485`). A failure to write the settings after
the save leaves the tokens stored as well (`DeviceLogin`, `Choose`).

The following behaviours were met while translating, most are in the models, and no
run is devoted to them.

*Where a document says otherwise.*

* `evidence/collector.py:54` treats an error of the audit sink like a failed collection, and
  the investigation may end COMPLETED; `docs/audit.md:17`: "A persistence failure is
  surfaced". Cancelling a driver call leaves no event (`broker/core.py:205`);
  `docs/audit.md:5`: "records each Broker decision".
* The rollback of `device add` is a save and may fail too (`onboarding/service.py:114`);
  `docs/device-onboarding.md:31`: "no Device or trust record is left behind".
* `credentials remove` checks the references and removes in two steps
  (`keyring_provider.py:153`); `docs/credentials.md:56`: "Removal is rejected while any
  Device references the profile".
* `save` deletes the replaced chunks at once, under a reader in another process
  (`auth.py:109`); `docs/credentials.md:28`: "one atomically activated token bundle".
* An SD-WAN without an alive path is CONFIRMED to have none also when the others are unknown
  or degraded (`investigations/fortios.py:328`); `docs/investigations.md:83` speaks of
  dead ones.
* A login's interval above the cap is cut to it, so NetSage polls sooner than the server
  asked; `docs/providers/openai-codex.md:49`: "honors the returned interval". `PollsSpaced`
  is stated with the cap.
* The catalog's policy is consulted before the disposition, `docs/fortios-catalog-execution.md`
  has the opposite order.

*Investigations.* An HA cluster is `ha_cluster_healthy` with members whose synchronization
is unknown, and HEALTHY when neither its mode nor any member was recognised
(`ha_diagnosis.py:96`); a standalone unit with a failing health check is graded HEALTHY
with a CONFIRMED degraded diagnosis; a flap in the history and any heartbeat interface that was read
give a link diagnosis whatever the interface's present state
(`ha_correlation.py:131`); the checksums of all VDOMs are compared with each other, so that
two VDOMs that differ look like a mismatch between members (`semantic/ha_checksum.py:56`);
repeated losses without a timestamp are counted once; a bound interface
that is down is CONFIRMED as a finding and STRONG as a diagnosis.

*Driver, catalog, probe.* A refusal by the shell of the last variant is raised as it is and
not as exhausted variants; a fatal error after the first operation does not stop the
probe; when the SUCCESS event cannot be written a FAILURE event is attempted at the same
sink, and the result is withheld. An output line that looks like a prompt ends a read
early (`Misleading`), and prompt-like text in the middle of it is dropped.

*App Server.* Items and a failed status are not filtered by thread
(`client.py:417`, `:434`): `TurnsFailClosed` holds because a step that fails ends the ask, so
that an earlier turn has always ended, and because a server writes nothing about a turn
that has ended, which the model assumes of it. A failing or cancelled account check
leaves the child running: `initialize()` is outside the `try` (`agent/service.py:40`).
`ai status` shows the App Server when the OAuth store is unavailable, while the selection
raises (`cli/ai_commands.py:244`).

*Login.* An answer lost after the server granted the code loses the code, which can be
collected once; the last poll may be sent past the expiry; when opening the browser takes
longer than the lifetime, no poll is sent.

*History.* An `sqlite3.OperationalError` of `BEGIN` or `COMMIT` is not translated
(`onboarding/service.py:250`), and the report is not shown; `show` reads over two
connections and may show a report without the evidence removed meanwhile; a crash between
opening the file and the schema's `COMMIT` leaves a blank file that is refused ever
after; of two first commands at once, the second fails.

*Keyring.* A failing deletion
reported as `PasswordDeleteError` is taken for a missing entry, so that `credentials
remove` forgets the profile of a password still stored, and a Codex logout prints
"authentication removed" with the pointer still there; chunks whose clean-up failed
are never looked for again. A logout that stops at its
second chunk makes every later logout fail at the first, until a new login; an error
while deleting the pointer that is not `PasswordDeleteError` leaves `delete` as it
is, so the command line does not report it like the others; two processes may refresh
with the same refresh token (the lock is one manager's), and the second is told to
log in again; a logout that overlaps a login of another process removes the pointer
of the newer bundle and leaves its chunks; a crash, or a lost answer, between the
server's exchange and `save` loses the only valid refresh token.

*Local state,* for processes that overlap (the properties of
`state_one_by_one` do not hold then, and are not
claimed): two adds of one name, where the loser's rollback removes the winner's
trust record; the same for a profile's secret; updates of one file lost to a slower
process; `rotate` storing a secret for a profile removed meanwhile; a `trust-reset`
that writes the address it read before the confirmation, after which
`load_inventory` fails for every device.

## 6. Not modelled

* Text: regular expressions, redaction patterns, prompts of the AI context, tables, YAML,
  JSON and SQL syntax; only their verdicts appear, as free choices or as kinds of text.
* Reads that no investigation asks for (VLANs, ARP, MAC and LLDP tables, firewall policies,
  ping, traceroute): each is one command and one parser.
* `drivers/fortios/catalog/source.py`, the generator of the catalog from reference documents:
  it runs at build time over text. The Codex auth importer: it validates the text of
  another program's file and then calls the `save` that `CodexTokens` has.
* Provider selection, which looks up a setting, and the direct HTTP client, one request; the
  settings file, one value without relations to the others.
* History: damaged files, and listings. The command line's parsing and rendering.
* The Windows distribution, packaging and empty packages: no state worth a model.

## 7. Plan

| subject | what is left |
|---|---|
| composition | the rules of `Investigations` in place of `Conclusions` in `AgentRuntime`, with the theorems of both; the provider life cycle of `CodexAppServer` around the same run |
| `LocalState` | what overlapping commands do keep: for two processes, which of the stale saves lose an update and which are harmless |
| `CodexTokens` | the import of an existing login; the reader of another process, for which a lost chunk is an error and never a wrong bundle |
| `FortiOSDriver` | the remaining reads, with `FortiOSParsers` |
